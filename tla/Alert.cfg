SPECIFICATION Spec
CONSTANTS
  Channels = {c1, c2}
  Criticals = {down}
  Warnings = {low}
  failuresToRest = 2
  MaxPending = 2
  MaxAlerts = 2
  MaxFaults = 2
INVARIANT RefusalTold
PROPERTIES CopiesSurvive Settles
CHECK_DEADLOCK FALSE
