\* Two servers that may register, one after the other, and two clients.
SPECIFICATION Spec
CONSTANTS
  s1 = s1
  s2 = s2
  c1 = c1
  c2 = c2
  Manager = Manager
  NoProc = NoProc
  Name = hello
  Servers = {s1, s2}
  Clients = {c1, c2}
  MayAsk <- SayHelloTo
  MaxStarts = 0
  Faults = FALSE
\* Everybody may have died.
CHECK_DEADLOCK FALSE
SYMMETRY SystemSymmetry
INVARIANTS TypeOK HandleHeld BuffersReturned NumbersApart ZeroMeansFailed
PROPERTY ImplementsHello
