SPECIFICATION Spec
CONSTANTS
  Files = {1,2,3}
  DataFiles = {1,2,3}
  NumPages = 2
  MaxCrashes = 1
  FreedSinceOpen = TRUE
  LosesBuffered = FALSE
INVARIANTS ChecksHold
