\* One object under two names, one of which is taken over.
SPECIFICATION Spec
CONSTANTS
  s1 = s1
  s2 = s2
  s3 = s3
  c1 = c1
  x = x
  y = y
  v1 = v1
  v2 = v2
  NoProc = NoProc
  NoName = NoName
  BadName = BadName
  FitReply = {x, y}
  NoTxn = NoTxn
  Procs = {s1, s2}
  Names = {x, y}
  Labels = {x, y}
  Handles = {1, 2}
  DumpFlags = {"default"}
  Policies = {v1}
  InitialPolicy = v1
  MayRequest <- AliasRequests
  Uid <- AllSystem
  Str8 <- OwnLabel
  Granted <- AllGranted
  MayList = {}
  ReloadMayFail = FALSE
  MallocMayFail = FALSE
\* Everybody may have died and nothing be left to do.
CHECK_DEADLOCK FALSE
INVARIANT DiedServiceIsDead
