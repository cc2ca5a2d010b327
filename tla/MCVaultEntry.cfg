SPECIFICATION EntrySpec
CONSTANTS
  a1 = a1
  a2 = a2
  Accounts = {a1, a2}
  Depositors = {a1, a2}
  Native = TRUE
  Day = 2
  HALT_DURATION = 1
  HALT_COOLDOWN = 2
  LOOSENING_DELAY = 2
  REFUND_DELAY = 1
  NATIVE_ACCOUNT_MIN = 2
  ExitDays = 2
  CAPACITY = 4
  ROOT_HISTORY = 2
  DelaySmall = 0
  DelayLarge = 1
  InitialLimits <- EntryLimits
  Amounts = {1, 2}
  Outputs = {0}
  Payouts = {}
  Fees = {}
  Reasons = {0, 1}
  Relayers = {}
  Deadlines = {1}
  ReleaseMax = {}
  Pauses <- None
  Halts = FALSE
  LimitChoices <- None
  AccountStates = {"open", "missing"}
  AccountMins = {2, 3}
  VaultAuthorizations = {}
  MaxTime = 2
  MaxDeposits = 3
  MaxExits = 0
  MaxClawed = 0
INVARIANT PendingAccounted
PROPERTY QueueImplemented
CHECK_DEADLOCK FALSE
