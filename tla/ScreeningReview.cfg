SPECIFICATION Spec
CONSTANTS
  REFUND_DELAY = 1
  Delays = {1}
  Reasons = {1, 2}
  MaxTime = 2
  MaxDeposits = 1
  RecheckWindow = 0
  Cutoff = 0
  Findings = {f}
  Suspects = {1}
  MaxFaults = 1
  MaxOps = 0
  MaxReports = 0
PROPERTY ReviewHeeded
CHECK_DEADLOCK FALSE
