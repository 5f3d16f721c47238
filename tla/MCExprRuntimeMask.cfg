CONSTANTS
  Addresses <- MCAddresses
  MaxNodes = 3
  Features = {"mask casts"}
SPECIFICATION Spec
CHECK_DEADLOCK FALSE
INVARIANT KernelsSound
