CONSTANTS
  Callers = {c1, c2}
  Size = 1
  MaxCalls = 0
  MaxFaults = 1
SPECIFICATION FairSpec
CHECK_DEADLOCK FALSE
PROPERTY CreateSettles
