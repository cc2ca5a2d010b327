SPECIFICATION MCSpec
CONSTANTS
  s1 = s1
  s2 = s2
  r1 = r1
  r2 = r2
  n1 = n1
  n2 = n2
  n3 = n3
  n4 = n4
  a1 = a1
  c1 = c1
  c2 = c2
  Submissions = {s1, s2}
  Requests = {r1, r2}
  Notes <- ApartNotes
  Destination <- OneAddress
  Exits = {r1,r2}
  Delayed = {r1, r2}
  Channels = {c1, c2}
  Elsewhere = {n1}
  MaxHeld = 2
  maxStatuses = 1
  MaxRefused = 1
  Timeouts = TRUE
  MaxRestarts = 1
INVARIANTS ClaimsExact NeverDoomed SlotsExact HeldExact FailureRests
PROPERTY ClaimsReleased
CHECK_DEADLOCK FALSE
