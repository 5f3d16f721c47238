CONSTANTS
  Width = 3
  PosInf = 16777216
  NuniqueCap = 3
  InitRun = 2
  DayMs = 5
  Calls <- MCCalls
SPECIFICATION Spec
CHECK_DEADLOCK FALSE
INVARIANTS ArithmeticExact MasksExact KleeneExact CastsExact ReductionsExact SortStable SelectionExact
