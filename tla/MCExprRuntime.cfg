CONSTANTS
  Addresses <- MCAddresses
  MaxNodes = 5
  Features = {"new dictionaries"}
SPECIFICATION Spec
CHECK_DEADLOCK FALSE
INVARIANTS TempsInv KernelsSound NothingLeft
