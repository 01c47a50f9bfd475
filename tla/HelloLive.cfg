\* A server, a client, a service manager that is started twice again, and a
\* driver that refuses and interrupts.
SPECIFICATION Spec
CONSTANTS
  s1 = s1
  s2 = s2
  c1 = c1
  c2 = c2
  Manager = Manager
  NoProc = NoProc
  Name = hello
  Servers = {s1}
  Clients = {c1}
  MayAsk <- AnyRequest
  MaxStarts = 2
  Faults = TRUE
\* Everybody may have died.
CHECK_DEADLOCK FALSE
INVARIANTS PublishTruthful LoopGoesOn NobodyStranded
PROPERTIES ImplementsHello ClientsEnd ServersSettle
