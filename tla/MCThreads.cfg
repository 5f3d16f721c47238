CONSTANTS
  Width = 3
  PosInf = 1048576
  NuniqueCap = 3
  MaxLost = 1
  Programs <- MCPrograms
SPECIFICATION ThreadsSpec
CHECK_DEADLOCK FALSE
INVARIANTS ResultExact NoSharedWrites
