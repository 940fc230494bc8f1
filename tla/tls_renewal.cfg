SPECIFICATION FairSpec
CONSTANTS
  Serials = {1, 2, 3, 4}
  Lifetime = 7
  RenewBefore = 4
  CheckInterval = 2
  MaxFailures = 1
  MaxNow = 10
  MaxRestarts = 2
INVARIANTS TypeOK ServedIsPaired ServedIsValid
PROPERTIES ComesUp NoSubset OutageOnlyInWindow
CHECK_DEADLOCK FALSE
