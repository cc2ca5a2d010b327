SPECIFICATION MCSpec
CONSTANTS
  rootHistory = 2
  snapshotHistory = 2
  maxReads = 2
  maxCross = 2
  lagLedgers = 1
  staleLedgers = 1
  dayLedgers = 1
  Retention = 1
  DelaySmall = 1
  DelayLarge = 3
  finalCheck = 1
  lateAfter = 1
  MaxWindow = 2
  MaxLedger = 3
  MaxWatchFaults = 1
  pageSize = 2
  Roles = {guardian, asp}
  Nullifiers = {n1, n2}
  expiryWarning = 2
  dayMargin = 1
  MaxLife = 4
  MaxOps = 5
  MaxPrints = 2
  MaxClock = 7
  MaxCheckFaults = 2
INVARIANTS NoFalseAlarm  ChecksPaged
PROPERTY LieCaught
CHECK_DEADLOCK FALSE
