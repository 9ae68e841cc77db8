SPECIFICATION Spec
CONSTANTS
  v1 = v1
  v2 = v2
  Chunks = {1}
  DataPages = {1,2}
  MetaPages = {11,12}
  PageCells = 2
  Vals <- TwoVals
  RollbackLimits <- Uncapped
  MaxSize = 2
  MaxEpoch = 4
  MaxRestarts = 0
  Vacuums = TRUE
  FragmentDrops = FALSE
  PromptWriteback = TRUE
  EpochsAhead = 0
SYMMETRY ValsSymmetry
INVARIANTS RollbackSafe
CHECK_DEADLOCK FALSE
