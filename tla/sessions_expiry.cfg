SPECIFICATION Spec
CONSTANTS
  r1 = r1
  r2 = r2
  Reqs = {r1, r2}
  c1 = c1
  c2 = c2
  Cleaners = {c1, c2}
  e1 = e1
  Emails = {e1}
  s1 = s1
  Secrets = {s1}
  AccessTTL = 1
  RefreshTTL = 3
  TicksPerSecond = 2
  MaxPairs = 2
  MaxNow = 5
  MaxRestarts = 0
  Faults = TRUE
  OperatorRevokes = FALSE
SYMMETRY Symmetry
INVARIANTS TypeOK DeliveredHonoured AuditTruthful
PROPERTIES SessionsOnlyAge RotationAnswered
