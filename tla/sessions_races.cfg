SPECIFICATION Spec
CONSTANTS
  r1 = r1
  r2 = r2
  Reqs = {r1, r2}
  Cleaners = {}
  e1 = e1
  Emails = {e1}
  s1 = s1
  Secrets = {s1}
  AccessTTL = 0
  RefreshTTL = 0
  TicksPerSecond = 1
  MaxPairs = 4
  MaxNow = 1
  MaxRestarts = 0
  Faults = FALSE
  OperatorRevokes = FALSE
SYMMETRY Symmetry
INVARIANTS SameDevice ForkBound
PROPERTY ImplementsDeviceAccess
CHECK_DEADLOCK FALSE
