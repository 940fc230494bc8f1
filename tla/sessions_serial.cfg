SPECIFICATION Spec
CONSTANTS
  r1 = r1
  Reqs = {r1}
  c1 = c1
  Cleaners = {c1}
  e1 = e1
  e2 = e2
  Emails = {e1, e2}
  s1 = s1
  s2 = s2
  Secrets = {s1, s2}
  AccessTTL = 1
  RefreshTTL = 2
  TicksPerSecond = 1
  MaxPairs = 3
  MaxNow = 2
  MaxRestarts = 1
  Faults = FALSE
  OperatorRevokes = FALSE
SYMMETRY Symmetry
INVARIANTS RotationSingleUse RevocationIsFinal ForwardsAllowed
           SecretRotationLocksOut
