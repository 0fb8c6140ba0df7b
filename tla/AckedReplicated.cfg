SPECIFICATION Spec
CONSTANTS
  b1 = b1
  b2 = b2
  t1 = t1
  t2 = t2
  c1 = c1
  c2 = c2
  leader = leader
  none = none
  Clients = {c1}
  MaxUint64 = 4
  Backups = {b1}
  Leader = leader
  Threads = {t1}
  None = none
  Values = {1}
  FirstReq <- MCFirstReq1
  MaxReq = 1
  MaxTerm = 1
  MaxRestarts = 0
  MaxTransfers = 1
INVARIANTS AckedReplicated
CHECK_DEADLOCK FALSE
