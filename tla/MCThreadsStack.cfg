CONSTANTS
  Width = 3
  PosInf = 1048576
  NuniqueCap = 5
  MaxLost = 0
  Programs <- MCDistinct
SPECIFICATION ThreadsSpec
CHECK_DEADLOCK FALSE
INVARIANT ResultExact
