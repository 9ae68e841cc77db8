SPECIFICATION Spec
CONSTANTS
  v1 = v1
  v2 = v2
  Chunks = {1}
  DataPages = {1,2}
  MetaPages = {11,12,13}
  PageCells = 1
  Vals <- TwoVals
  RollbackLimits = {0,1}
  MaxSize = 1
  MaxEpoch = 3
  MaxRestarts = 1
  Vacuums = FALSE
  FragmentDrops = FALSE
  PromptWriteback = TRUE
  EpochsAhead = 0
SYMMETRY ValsSymmetry
CHECK_DEADLOCK FALSE

INVARIANTS TypeOK RollbackSafe
PROPERTIES ImplementsEpochStore
