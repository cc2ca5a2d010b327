SPECIFICATION ReplaySpec
CONSTANTS
  a1 = a1
  a2 = a2
  Accounts = {a1}
  Depositors = {a1}
  Native = FALSE
  Day = 1
  HALT_DURATION = 1
  HALT_COOLDOWN = 2
  LOOSENING_DELAY = 2
  REFUND_DELAY = 1
  NATIVE_ACCOUNT_MIN = 2
  ExitDays = 2
  CAPACITY = 6
  ROOT_HISTORY = 1
  DelaySmall = 0
  DelayLarge = 1
  InitialLimits <- GuardianLimits
  Amounts = {2, 3}
  Outputs = {0}
  Payouts = {0, 1}
  Fees = {0}
  Reasons = {}
  Relayers = {a1}
  Deadlines = {6}
  ReleaseMax = {1}
  Pauses <- BothPauses
  Halts = TRUE
  LimitChoices <- GuardianChoices
  AccountStates = {"open"}
  AccountMins = {2}
  VaultAuthorizations = {}
  MaxTime = 3
  MaxDeposits = 1
  MaxExits = 1
  MaxClawed = 0
  MaxWindow = 1
INVARIANTS PoolCanLeave WindowRespected ReplayFaithful
PROPERTIES HaltsApart LooseningGivesNotice
CHECK_DEADLOCK FALSE
