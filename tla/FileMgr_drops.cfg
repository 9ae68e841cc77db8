SPECIFICATION Spec
CONSTANTS
  v1 = v1
  v2 = v2
  Chunks = {1,2}
  DataPages = {1,2}
  MetaPages = {11,12,13}
  PageCells = 1
  Vals <- OneVal
  RollbackLimits = {0}
  MaxSize = 1
  MaxEpoch = 3
  MaxRestarts = 1
  Vacuums = TRUE
  FragmentDrops = TRUE
  PromptWriteback = TRUE
  EpochsAhead = 0
INVARIANTS CrashSafe PagesAccountedFor
CHECK_DEADLOCK FALSE
