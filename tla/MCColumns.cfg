CONSTANTS
  Width = 15
  PosInf = 1048576
  InitRun = 2
  MaxOps = 3
  MaxRows = 24
  JoinsOnly = FALSE
  Admitted = {}
  Requests <- MCRequests
  LeftFrames <- MCLeftFrames
  RightFrames <- MCRightFrames
SPECIFICATION Spec
CHECK_DEADLOCK FALSE
INVARIANT SlotsReadable
PROPERTY ImplementsRows
