CONSTANTS
  Hashes <- MCHashes
  HNull = 11
  Null = Null
  GroupInputs <- MCGroupInputs
  JoinInputs <- MCJoinInputs
  Hints = {0, 4, 5}
  MayFail = TRUE
  CountLimit = 10
  Words = 9
SPECIFICATION FairSpec
CHECK_DEADLOCK FALSE
INVARIANTS TableInv JoinExact GroupsExact
PROPERTY Finishes
