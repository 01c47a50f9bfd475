\* Two registrars of one name, one of another, and a client, while the policy changes.
SPECIFICATION Spec
CONSTANTS
  s1 = s1
  s2 = s2
  s3 = s3
  c1 = c1
  x = x
  y = y
  v1 = v1
  v2 = v2
  NoProc = NoProc
  NoName = NoName
  BadName = BadName
  FitReply = {x, y}
  NoTxn = NoTxn
  Procs = {s1, s2, s3, c1}
  Names = {x, y}
  Labels = {x, y}
  Handles = {1, 2, 3}
  DumpFlags = {"default"}
  Policies = {v1, v2}
  InitialPolicy = v1
  MayRequest <- MCRequests
  Uid <- AllSystem
  Str8 <- OwnLabel
  Granted <- MCGranted
  MayList = {}
  ReloadMayFail = FALSE
  MallocMayFail = TRUE
\* Everybody may have died and nothing be left to do.
CHECK_DEADLOCK FALSE
INVARIANTS TypeOK RefCountExact DiedServiceIsDead NoticeComing RegistrationOwned ListOK
PROPERTIES ImplementsRegistry PolicyInForce
