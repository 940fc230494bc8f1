SPECIFICATION Spec
CONSTANTS
  r1 = r1
  r2 = r2
  Reqs = {r1, r2}
  Cleaners = {}
  e1 = e1
  Emails = {e1}
  s1 = s1
  Secrets = {s1}
  AccessTTL = 1
  RefreshTTL = 2
  TicksPerSecond = 1
  MaxPairs = 2
  MaxNow = 0
  MaxRestarts = 0
  Faults = FALSE
  OperatorRevokes = FALSE
SYMMETRY Symmetry
INVARIANTS LogoutIsFinal
CHECK_DEADLOCK FALSE
