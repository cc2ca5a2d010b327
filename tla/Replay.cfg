SPECIFICATION ReplaySpec
CONSTANTS
  a1 = a1
  a2 = a2
  Accounts = {a1, a2}
  Depositors = {a1}
  Native = FALSE
  Day = 1
  HALT_DURATION = 1
  HALT_COOLDOWN = 2
  LOOSENING_DELAY = 2
  REFUND_DELAY = 1
  NATIVE_ACCOUNT_MIN = 2
  ExitDays = 2
  CAPACITY = 8
  ROOT_HISTORY = 2
  DelaySmall = 0
  DelayLarge = 0
  InitialLimits <- ExitLimits
  Amounts = {4}
  Outputs = {0}
  Payouts = {1, 2}
  Fees = {0, 1}
  Reasons = {1}
  Relayers = {a2}
  Deadlines = {2}
  ReleaseMax = {2}
  Pauses <- None
  Halts = FALSE
  LimitChoices <- ExitChoices
  AccountStates = {"open", "unauthorized"}
  AccountMins = {2}
  VaultAuthorizations = {TRUE, FALSE}
  MaxTime = 2
  MaxDeposits = 1
  MaxExits = 2
  MaxClawed = 1
  MaxWindow = 1
INVARIANTS Solvent  ServedOnce
PROPERTY StrandedForCause
CHECK_DEADLOCK FALSE
