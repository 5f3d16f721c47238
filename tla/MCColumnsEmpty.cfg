CONSTANTS
  Width = 15
  PosInf = 1048576
  InitRun = 2
  MaxOps = 3
  MaxRows = 24
  JoinsOnly = TRUE
  Admitted = {"empty right"}
  Requests <- MCRequests
  LeftFrames <- MCLeftFrames
  RightFrames <- MCEmptyRight
SPECIFICATION Spec
CHECK_DEADLOCK FALSE
INVARIANT SlotsReadable
