SPECIFICATION WaitSpec
CONSTANTS
  a1 = a1
  a2 = a2
  Accounts = {a1, a2}
  Depositors = {a1}
  Native = TRUE
  Day = 1
  HALT_DURATION = 1
  HALT_COOLDOWN = 2
  LOOSENING_DELAY = 2
  REFUND_DELAY = 1
  NATIVE_ACCOUNT_MIN = 2
  ExitDays = 3
  CAPACITY = 10
  ROOT_HISTORY = 1
  DelaySmall = 0
  DelayLarge = 0
  InitialLimits <- NativeLimits
  Amounts = {8}
  Outputs = {0}
  Payouts = {2, 3}
  Fees = {0, 1}
  Reasons = {}
  Relayers = {a2}
  Deadlines = {9}
  ReleaseMax = {1}
  Pauses <- None
  Halts = FALSE
  LimitChoices <- None
  AccountStates = {"open", "missing"}
  AccountMins = {2}
  VaultAuthorizations = {}
  MaxTime = 3
  MaxDeposits = 1
  MaxExits = 3
  MaxClawed = 0
INVARIANTS TypeOK ExitsAccounted ValueConserved PartiesOwed QueueInOrder WaitsKept
CHECK_DEADLOCK FALSE
