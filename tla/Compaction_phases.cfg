SPECIFICATION Spec
CONSTANTS
  Files = {1,2,3,4}
  DataFiles = {1,2,3}
  NumPages = 2
  MaxCrashes = 2
  FreedSinceOpen = FALSE
  LosesBuffered = FALSE
INVARIANTS ContentsKept CompactedFully ChecksHold
PROPERTIES OpensAgain
