\* Two registrars of one name and a client, under fairness.
SPECIFICATION Spec
CONSTANTS
  s1 = s1
  s2 = s2
  s3 = s3
  c1 = c1
  x = x
  y = y
  v1 = v1
  v2 = v2
  NoProc = NoProc
  NoName = NoName
  BadName = BadName
  FitReply = {x}
  NoTxn = NoTxn
  Procs = {s1, s2, c1}
  Names = {x}
  Labels = {x}
  Handles = {1, 2}
  DumpFlags = {"default"}
  Policies = {v1}
  InitialPolicy = v1
  MayRequest <- LiveRequests
  Uid <- LiveUids
  Str8 <- OwnLabel
  Granted <- AllGranted
  MayList = {c1}
  ReloadMayFail = FALSE
  MallocMayFail = FALSE
\* Everybody may have died and nothing be left to do.
CHECK_DEADLOCK FALSE
PROPERTIES DeadForgotten CallsAnswered
