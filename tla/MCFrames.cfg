CONSTANTS
  MaxFrames = 3
  MaxColumns = 3
  MaxWidth = 2
  MaxThrows = 1
  Throwing = {"select", "fromColumns"}
SPECIFICATION Spec
CHECK_DEADLOCK FALSE
INVARIANTS OwnersInv OpenFramesReadable NothingLost
PROPERTY FreedOnce
