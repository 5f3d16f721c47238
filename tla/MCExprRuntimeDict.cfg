CONSTANTS
  Addresses <- MCAddresses
  MaxNodes = 4
  Features = {"new dictionaries", "consumed dictionaries"}
SPECIFICATION Spec
CHECK_DEADLOCK FALSE
INVARIANT OwnedIsLive
