SPECIFICATION FairSpec
CONSTANTS
  r1 = r1
  Reqs = {r1}
  c1 = c1
  Cleaners = {c1}
  e1 = e1
  Emails = {e1}
  s1 = s1
  Secrets = {s1}
  AccessTTL = 0
  RefreshTTL = 1
  TicksPerSecond = 1
  MaxPairs = 2
  MaxNow = 2
  MaxRestarts = 1
  Faults = TRUE
  OperatorRevokes = TRUE
INVARIANTS BarredStayOut
PROPERTIES ExpiredPurged
