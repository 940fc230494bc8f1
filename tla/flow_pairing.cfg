SPECIFICATION FairSpec
CONSTANTS
  r1 = r1
  r2 = r2
  Reqs = {r1, r2}
  t1 = t1
  Txns = {t1}
  e1 = e1
  e2 = e2
  Emails = {e1, e2}
  s1 = s1
  s2 = s2
  Secrets = {s1, s2}
  NoTx = NoTx
  NoEmail = NoEmail
  ExpiresIn = 1
  MaxInterval = 2
  MaxNow = 2
  MaxRestarts = 1
  Faults = TRUE
  Cleaning = TRUE
INVARIANTS TypeOK ApprovedIsComplete TokenNotForgotten
PROPERTIES ConsumedIsFinal Settled
