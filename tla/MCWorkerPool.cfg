CONSTANTS
  Callers = {c1, c2}
  Size = 2
  MaxCalls = 2
  MaxFaults = 1
SPECIFICATION FairSpec
CHECK_DEADLOCK FALSE
INVARIANTS PoolInv FullyStaffed
PROPERTIES SettledOnce EveryCallSettles EveryLossReplaced
