CONSTANTS
  Threads = {t1, t2}
  Chunks = {c1, c2}
  Temporaries = {b}
  Requests = {1, 2}
  MaxPoolPages = 3
  MinSlabPages = 1
  DefaultSlabPages = 2
  MaxSlabPages = 2
  MaxPins = 2
  AllocFails = TRUE
  FetchFails = TRUE
  GlobalLocks = {FALSE}
  DeletesUnlocked = TRUE
SPECIFICATION Spec
INVARIANT DeletesWhatItFound

SYMMETRY Symmetric
