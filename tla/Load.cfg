\* Loading with failures.
SPECIFICATION Spec
CONSTANTS
  u1 = u1
  u2 = u2
  u3 = u3
  Nul = Nul
  Mixed = Mixed
  Users = {u1, u2, u3}
  BufSize = 2
  Lens = {1}
  MaxLoads = 2
CHECK_DEADLOCK FALSE
INVARIANT LoadedReachable
