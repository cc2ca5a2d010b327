SPECIFICATION MCSpec
CONSTANTS
  a1 = a1
  a2 = a2
  Accounts = {a1, a2}
  Depositors = {a1}
  Native = TRUE
  Day = 2
  HALT_DURATION = 1
  HALT_COOLDOWN = 2
  LOOSENING_DELAY = 2
  REFUND_DELAY = 1
  NATIVE_ACCOUNT_MIN = 2
  ExitDays = 3
  CAPACITY = 4
  ROOT_HISTORY = 1
  DelaySmall = 1
  DelayLarge = 1
  InitialLimits <- NativeLimits
  Amounts = {}
  Outputs = {}
  Payouts = {1, 3}
  Fees = {1}
  Reasons = {1, 2}
  Relayers = {a2}
  Deadlines = {}
  ReleaseMax = {}
  Pauses <- None
  Halts = TRUE
  LimitChoices <- None
  AccountStates = {"open", "missing"}
  AccountMins = {2, 3}
  VaultAuthorizations = {}
  MaxTime = 8
  MaxDeposits = 0
  MaxExits = 0
  MaxClawed = 0
  MaxAdmissions = 3
  MaxReleases = 2
  BatchFits = 1
  HoldReasons = {2}
  claimRetry = 1
  claimRestMax = 2
  StartDeposits = 3
  StartExits = 2
  ServeDays = 3
  Quiet = 1
  MaxChanges = 2
  Own = {"o1", "o2"}
  Queued = {"q1"}
  Asset = {"b1"}
  Nullifiers = {"n1", "n2"}
  holdWithin = 6
  renewWithin = 5
  warnWithin = 4
  renewStep = 2
  minStep = 1
  maxTTL = 9
  RestoredLife = 2
  MaxExtensions = 2
  FeeCap = 8
  cycleCaps = 3
  StaleAfter = 2
  Rates = {1, 3, 9}
  Lives = {0, 6}
  MaxDear = 1
  MaxLedger = 7
  MaxTTLFaults = 1
INVARIANTS QueuesServed EntriesRenewed
CHECK_DEADLOCK FALSE
