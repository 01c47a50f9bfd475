\* Three clients and two threads of the pool.
SPECIFICATION Spec
CONSTANTS
  c1 = c1
  c2 = c2
  c3 = c3
  t1 = t1
  t2 = t2
  NoClient = NoClient
  Clients = {c1, c2, c3}
  Threads = {t1, t2}
\* Every client may be done.
CHECK_DEADLOCK FALSE
INVARIANTS TypeOK ZeroMeansFailed NeverAhead ExactIfApart CallInOnePlace
PROPERTY ClientsEnd
