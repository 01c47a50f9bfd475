\* Two registrars and a process that lists.
SPECIFICATION ListSpec
CONSTANTS
  s1 = s1
  s2 = s2
  l = l
  x = x
  y = y
  v1 = v1
  NoProc = NoProc
  NoName = NoName
  BadName = BadName
  FitReply = {x}
  NoTxn = NoTxn
  Procs = {s1, s2, l}
  Names = {x, y}
  Labels = {x, y}
  Handles = {1, 2}
  DumpFlags = {"default", "high"}
  Policies = {v1}
  InitialPolicy = v1
  MayRequest <- ListRequests
  Uid <- AllSystem
  Str8 <- OwnLabel
  Granted <- AllGranted
  MayList = {l}
  ReloadMayFail = FALSE
  MallocMayFail = FALSE
  Lister = l
  Flags = {"default"}
\* Everybody may have died and nothing be left to do.
CHECK_DEADLOCK FALSE
INVARIANTS NothingMissed RepeatsAccounted ListingBounded
PROPERTY ListingEnds
