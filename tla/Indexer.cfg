SPECIFICATION MCSpec
CONSTANTS
  MaxLedger = 3
  WindowLedgers = 2
  Chain <- MCChain
  Window = 2
  archiveWindow = 1
  maxArchivedDigests = 1
  rootHistory = 2
  MaxFaults = 2
  DEPTH = 3
  ROOT_HISTORY = 3
  Commitments = {c1, c2, c3}
  Batch = 2
INVARIANTS TreeExact HistoryKept ServedTrue
CHECK_DEADLOCK FALSE
