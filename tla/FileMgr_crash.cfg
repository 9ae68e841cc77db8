SPECIFICATION Spec
CONSTANTS
  v1 = v1
  v2 = v2
  Chunks = {1}
  DataPages = {1,2}
  MetaPages = {11,12}
  PageCells = 2
  Vals <- TwoVals
  RollbackLimits = {0}
  MaxSize = 2
  MaxEpoch = 3
  MaxRestarts = 1
  Vacuums = TRUE
  FragmentDrops = FALSE
  PromptWriteback = TRUE
  EpochsAhead = 0
SYMMETRY ValsSymmetry
INVARIANTS CrashSafe ReadsWhatWasWritten
PROPERTIES FloorNeverLowered
CHECK_DEADLOCK FALSE
