SPECIFICATION MCSpec
CONSTANTS
  Calls = {c1}
  Relays = {r1}
  Attempts = 2
  Validity = 1
  LookupMargin = 1
  MaxLag = 2
  MaxAhead = 1
  Bounds = {0, 3}
  SendWait = 3
  MaxTime = 4
  CallsFrom = 1
  MaxRestarts = 1
INVARIANTS OutcomeKnown AccountKept
PROPERTY JobsEnd
CHECK_DEADLOCK FALSE
