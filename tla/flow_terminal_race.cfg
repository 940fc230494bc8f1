SPECIFICATION Spec
CONSTANTS
  r1 = r1
  r2 = r2
  Reqs = {r1, r2}
  t1 = t1
  Txns = {t1}
  e1 = e1
  Emails = {e1}
  s1 = s1
  Secrets = {s1}
  NoTx = NoTx
  NoEmail = NoEmail
  ExpiresIn = 1
  MaxInterval = 2
  MaxNow = 2
  MaxRestarts = 0
  Faults = FALSE
  Cleaning = FALSE
SYMMETRY Symmetry
PROPERTIES TerminalStatusStays
CHECK_DEADLOCK FALSE
