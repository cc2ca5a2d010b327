SPECIFICATION Spec
CONSTANTS
  REFUND_DELAY = 1
  Delays = {1}
  Reasons = {1, 2}
  MaxTime = 2
  MaxDeposits = 2
  RecheckWindow = 0
  Cutoff = 0
  Findings = {}
  Suspects = {1}
  MaxFaults = 1
  MaxOps = 1
  MaxReports = 1
PROPERTIES AttestedRightly AdmittedOnFinalCheck
CHECK_DEADLOCK FALSE
