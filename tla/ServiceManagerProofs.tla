------------------------ MODULE ServiceManagerProofs ------------------------
(***************************************************************************)
(* Theorems about ServiceManager.tla, for every value of its constants.    *)
(***************************************************************************)
EXTENDS ServiceManager, FiniteSetTheorems, TLAPS

(* Where the service manager is determines what it has at hand: a request  *)
(* while it serves one; a name, an object and a free entry while it adds.  *)
Serving == pc \in {"txn", "add", "link", "reply"} =>
             cur \in Procs /\ txn[cur] # NoTxn

Adding == pc \in {"add", "link"} =>
            txn[cur].name \in Names /\ bufh[cur] # 0

FreeEntry == pc = "add" => svc[txn[cur].name].handle = 0

(* A notice is for a registration, so that it names an entry.              *)
Notices ==
  /\ \A h \in dead : death[h] # NoName
  /\ pc = "dead" => obit \in Names

NoIdleBuffer == \A p \in Procs : txn[p] = NoTxn => bufh[p] = 0

(* The inductive invariant behind TypeOK and RefCountExact.  The types     *)
(* need the counts: BC_RELEASE only stays above zero because the holder it *)
(* stands for is one of those counted.                                     *)
RefInv ==
  /\ TypeOK /\ RefCountExact
  /\ Serving /\ Adding /\ FreeEntry /\ Notices /\ NoIdleBuffer

(* Only listed entries are in use, also the one being overridden.          *)
ListInv == ListOK /\ (pc = "add" => txn[cur].name \in Registered)
-----------------------------------------------------------------------------
LEMMA HoldersFinite ==
  ASSUME NEW h
  PROVE  IsFiniteSet(Holders(h))
<1>1. IsFiniteSet(Names \cup Procs)
  BY DriverAssumption, FS_Union
<1>2. Holders(h) \subseteq Names \cup Procs
  BY DEF Holders
<1> QED BY <1>1, <1>2, FS_Subset

(* One more holder and one more reference keep the counts.                 *)
LEMMA GainHolder ==
  ASSUME TypeOK, RefCountExact, NEW h \in Handles, NEW k,
         k \notin Holders(h),
         \A g \in Handles : Holders(g)' =
           IF g = h THEN Holders(g) \cup {k} ELSE Holders(g),
         strong' = [strong EXCEPT ![h] = @ + 1],
         node'[h] # NoProc,
         \A g \in Handles : g # h => node'[g] = node[g]
  PROVE  RefCountExact' /\ strong' \in [Handles -> Nat]
<1>1. Cardinality(Holders(h) \cup {k}) = Cardinality(Holders(h)) + 1
  BY HoldersFinite, FS_AddElement
<1>2. strong \in [Handles -> Nat]
  BY DEF TypeOK, DriverTypeOK
<1>3. strong' \in [Handles -> Nat]
  BY <1>2
<1>4. ASSUME NEW g \in Handles
      PROVE  /\ strong'[g] = Cardinality(Holders(g)')
             /\ node'[g] = NoProc <=> Holders(g)' = {}
  BY <1>1, <1>2 DEF RefCountExact
<1> QED BY <1>3, <1>4 DEF RefCountExact

(* Release(h) for one of its holders keeps the counts.                     *)
LEMMA LoseHolder ==
  ASSUME TypeOK, RefCountExact, NEW h \in Handles, NEW k,
         k \in Holders(h),
         \A g \in Handles : Holders(g)' =
           IF g = h THEN Holders(g) \ {k} ELSE Holders(g),
         Release(h)
  PROVE  RefCountExact' /\ strong' \in [Handles -> Nat]
<1>1. /\ Cardinality(Holders(h)) \in Nat
      /\ Cardinality(Holders(h) \ {k}) = Cardinality(Holders(h)) - 1
      /\ Cardinality(Holders(h) \ {k}) \in Nat
  <2>1. IsFiniteSet(Holders(h)) /\ IsFiniteSet(Holders(h) \ {k})
    BY HoldersFinite, FS_RemoveElement
  <2> QED BY <2>1, FS_RemoveElement, FS_CardinalityType
<1>2. strong \in [Handles -> Nat] /\ node \in [Handles -> Procs \cup {NoProc}]
  BY DEF TypeOK, DriverTypeOK
<1>3. strong[h] = Cardinality(Holders(h)) /\ strong[h] >= 1
  BY <1>1 DEF RefCountExact
<1>4. strong' \in [Handles -> Nat]
  BY <1>2, <1>3 DEF Release
<1>5. strong[h] = 1 <=> Holders(h) \ {k} = {}
  BY <1>1, <1>3, FS_EmptySet, HoldersFinite, FS_RemoveElement
<1>6. ASSUME NEW g \in Handles
      PROVE  /\ strong'[g] = Cardinality(Holders(g)')
             /\ node'[g] = NoProc <=> Holders(g)' = {}
  <2>1. CASE g = h
    BY <2>1, <1>1, <1>2, <1>3, <1>5 DEF Release, RefCountExact
  <2>2. CASE g # h
    BY <2>2, <1>2 DEF Release, RefCountExact
  <2> QED BY <2>1, <2>2
<1> QED BY <1>4, <1>6 DEF RefCountExact

(* A step that touches no holder and no count.                             *)
LEMMA SameHolders ==
  ASSUME RefCountExact, UNCHANGED <<svc, bufh, node, strong>>
  PROVE  RefCountExact'
<1>1. \A h \in Handles : Holders(h)' = Holders(h)
  BY DEF Holders
<1> QED BY <1>1 DEF RefCountExact
-----------------------------------------------------------------------------
LEMMA RefInvInit == Init => RefInv
<1> SUFFICES ASSUME Init PROVE RefInv
  OBVIOUS
<1> USE ManagerAssumption, DriverAssumption
<1>1. TypeOK
  <2>1. DriverTypeOK
    BY DEF Init, DriverInit, DriverTypeOK
  <2>2. svc \in [Names -> SvcInfo] /\ out \in Reply
    BY DEF Init, SvcInfo, Reply, NoReply
  <2>3. svclist \in Seq(Names)
    BY DEF Init
  <2> QED BY <2>1, <2>2, <2>3 DEF Init, TypeOK, PCs
<1>2. RefCountExact
  <2>1. \A h \in Handles : Holders(h) = {}
    BY DEF Init, Holders
  <2> QED BY <2>1, FS_EmptySet DEF Init, DriverInit, RefCountExact
<1>3. Serving /\ Adding /\ FreeEntry /\ Notices /\ NoIdleBuffer
  BY DEF Init, DriverInit, Serving, Adding, FreeEntry, Notices, NoIdleBuffer
<1> QED BY <1>1, <1>2, <1>3 DEF RefInv

(* The conjuncts of RefInv that name a process or an entry.                *)
LEMMA ServingFacts ==
  ASSUME RefInv
  PROVE  /\ pc \in {"txn", "add", "link", "reply"} =>
              cur \in Procs /\ txn[cur] \in Request
         /\ pc \in {"add", "link"} =>
              txn[cur].name \in Names /\ bufh[cur] \in Handles
         /\ pc = "dead" => obit \in Names
         /\ \A n \in Names : svc[n] \in SvcInfo
         /\ 0 \notin Handles
BY ManagerAssumption, DriverAssumption
   DEF RefInv, Serving, Adding, Notices, TypeOK

LEMMA RefInvSend ==
  ASSUME RefInv, NEW p \in Procs, NEW r \in Request, Send(p, r)
  PROVE  RefInv'
<1> USE DEF RefInv, Send
<1>0. r \in Request /\ r # NoTxn /\ bufh[p] = 0 /\ txn[p] = NoTxn
  BY ManagerAssumption DEF NoIdleBuffer
<1>1. CASE ~r.ref
  <2>1. TypeOK'
    BY <1>0, <1>1 DEF TypeOK, DriverTypeOK, driverVars, seVars
  <2>2. RefCountExact'
    BY <1>1 DEF RefCountExact, Holders, driverVars
  <2>3. (Serving /\ Adding /\ FreeEntry /\ Notices /\ NoIdleBuffer)'
    BY <1>0, <1>1 DEF TypeOK, Serving, Adding, FreeEntry, Notices,
                      NoIdleBuffer, driverVars
  <2> QED BY <2>1, <2>2, <2>3
<1>2. CASE r.ref
  <2> PICK h \in Handles : TakeRef(p, h) /\ bufh' = [bufh EXCEPT ![p] = h]
    BY <1>2
  <2>1. RefCountExact' /\ strong' \in [Handles -> Nat]
    <3>1. p \notin Holders(h)
      BY <1>0, DriverAssumption DEF Holders
    <3>2. ASSUME NEW g \in Handles
          PROVE  Holders(g)' =
                   IF g = h THEN Holders(g) \cup {p} ELSE Holders(g)
      BY <1>0, DriverAssumption DEF Holders, TypeOK
    <3>3. node'[h] # NoProc /\ \A g \in Handles : g # h => node'[g] = node[g]
      BY DriverAssumption DEF TakeRef, TypeOK, DriverTypeOK
    <3> QED BY <3>1, <3>2, <3>3, GainHolder DEF TakeRef
  <2>2. TypeOK'
    BY <1>0, <2>1 DEF TypeOK, DriverTypeOK, TakeRef, seVars
  <2>3. (Serving /\ Adding /\ FreeEntry /\ Notices /\ NoIdleBuffer)'
    BY <1>0, DriverAssumption
       DEF TypeOK, Serving, Adding, FreeEntry, Notices, NoIdleBuffer, TakeRef
  <2> QED BY <2>1, <2>2, <2>3
<1> QED BY <1>1, <1>2

LEMMA RefInvDie ==
  ASSUME RefInv, NEW p \in Procs, Die(p)
  PROVE  RefInv'
<1> USE DEF RefInv, Die, Kill
<1>1. TypeOK'
  BY DEF TypeOK, DriverTypeOK, seVars
<1>2. RefCountExact'
  BY SameHolders
<1>3. (Serving /\ Adding /\ FreeEntry /\ Notices /\ NoIdleBuffer)'
  BY DEF Serving, Adding, FreeEntry, Notices, NoIdleBuffer
<1> QED BY <1>1, <1>2, <1>3

LEMMA RefInvUpdatePolicy ==
  ASSUME RefInv, NEW pol \in Policies, UpdatePolicy(pol)
  PROVE  RefInv'
<1> USE DEF RefInv, UpdatePolicy, driverVars
<1>1. TypeOK'
  BY DEF TypeOK, DriverTypeOK
<1>2. RefCountExact'
  BY SameHolders
<1>3. (Serving /\ Adding /\ FreeEntry /\ Notices /\ NoIdleBuffer)'
  BY DEF Serving, Adding, FreeEntry, Notices, NoIdleBuffer
<1> QED BY <1>1, <1>2, <1>3

LEMMA RefInvReadTxn ==
  ASSUME RefInv, NEW p \in Procs, ReadTxn(p)
  PROVE  RefInv'
<1> USE DEF RefInv, ReadTxn, driverVars, seVars
<1>1. TypeOK'
  BY DEF TypeOK, DriverTypeOK, PCs
<1>2. RefCountExact'
  BY SameHolders
<1>3. (Serving /\ Adding /\ FreeEntry /\ Notices /\ NoIdleBuffer)'
  BY DEF Serving, Adding, FreeEntry, Notices, NoIdleBuffer
<1> QED BY <1>1, <1>2, <1>3

LEMMA RefInvReadDead ==
  ASSUME RefInv, NEW h \in Handles, ReadDead(h)
  PROVE  RefInv'
<1> USE DEF RefInv, ReadDead, seVars
<1>0. death[h] \in Names
  BY DEF Notices, TypeOK, DriverTypeOK
<1>1. TypeOK'
  BY <1>0 DEF TypeOK, DriverTypeOK, PCs
<1>2. RefCountExact'
  BY SameHolders
<1>3. (Serving /\ Adding /\ FreeEntry /\ Notices /\ NoIdleBuffer)'
  BY <1>0 DEF Serving, Adding, FreeEntry, Notices, NoIdleBuffer
<1> QED BY <1>1, <1>2, <1>3

(* What Release leaves of the driver's state.                              *)
LEMMA ReleaseFacts ==
  ASSUME TypeOK, NEW h \in Handles, Release(h)
  PROVE  /\ node' \in [Handles -> Procs \cup {NoProc}]
         /\ death' \in [Handles -> Names \cup {NoName}]
         /\ dead' \subseteq dead /\ alive' = alive
         /\ \A g \in dead' : death'[g] = death[g]
BY DEF Release, TypeOK, DriverTypeOK

LEMMA RefInvDeadBinder ==
  ASSUME RefInv, DeadBinder
  PROVE  RefInv'
<1> USE DEF RefInv, DeadBinder
<1>0. obit \in Names /\ svc[obit] \in SvcInfo /\ 0 \notin Handles
  BY ServingFacts
<1>1. CASE svc[obit].handle = 0
  <2>1. TypeOK'
    BY <1>1 DEF TypeOK, DriverTypeOK, PCs, driverVars, seVars
  <2>2. RefCountExact'
    BY <1>1 DEF RefCountExact, Holders, driverVars
  <2>3. (Serving /\ Adding /\ FreeEntry /\ Notices /\ NoIdleBuffer)'
    BY <1>1 DEF Serving, Adding, FreeEntry, Notices, NoIdleBuffer, driverVars
  <2> QED BY <2>1, <2>2, <2>3
<1>2. CASE svc[obit].handle # 0
  <2> DEFINE h == svc[obit].handle
  <2>0. h \in Handles /\ Release(h)
    BY <1>0, <1>2 DEF SvcInfo
  <2>1. svc' = [svc EXCEPT ![obit].handle = 0] /\ svc' \in [Names -> SvcInfo]
    BY <1>0, <1>2 DEF TypeOK, SvcInfo
  <2>2. RefCountExact' /\ strong' \in [Handles -> Nat]
    <3>1. obit \in Holders(h)
      BY <1>0 DEF Holders
    <3>2. ASSUME NEW g \in Handles
          PROVE  Holders(g)' =
                   IF g = h THEN Holders(g) \ {obit} ELSE Holders(g)
      BY <1>0, <2>0, <2>1, DriverAssumption DEF Holders, TypeOK, SvcInfo
    <3> QED BY <2>0, <3>1, <3>2, LoseHolder
  <2>3. TypeOK'
    BY <2>0, <2>1, <2>2, ReleaseFacts DEF TypeOK, DriverTypeOK, PCs, seVars
  <2>4. (Serving /\ Adding /\ FreeEntry /\ Notices /\ NoIdleBuffer)'
    BY <2>0, ReleaseFacts
       DEF Serving, Adding, FreeEntry, Notices, NoIdleBuffer
  <2> QED BY <2>2, <2>3, <2>4
<1> QED BY <1>1, <1>2

(* The steps of svcmgr_handler that only compose a reply.                  *)
LEMMA RefInvAnswer ==
  ASSUME RefInv, pc = "txn" \/ pc = "link", pc' = "reply", out' \in Reply,
         sehandle' \in Policies, service_contexts' \in Policies,
         status_updated' \in BOOLEAN,
         UNCHANGED <<svclist, svc, txn, bufh, cur, obit, driverVars>>
  PROVE  RefInv'
<1> USE DEF RefInv, driverVars
<1>1. TypeOK'
  BY DEF TypeOK, DriverTypeOK, PCs
<1>2. RefCountExact'
  BY SameHolders
<1>3. (Serving /\ Adding /\ FreeEntry /\ Notices /\ NoIdleBuffer)'
  BY DEF Serving, Adding, FreeEntry, Notices, NoIdleBuffer
<1> QED BY <1>1, <1>2, <1>3

LEMMA ReloadFacts ==
  ASSUME TypeOK, Reload
  PROVE  /\ sehandle' \in Policies /\ service_contexts' \in Policies
         /\ status_updated' \in BOOLEAN
BY DEF Reload, TypeOK

LEMMA ReplyFacts ==
  /\ NoReply \in Reply /\ Refused \in Reply
  /\ \A h \in Handles \cup {0} : [NoReply EXCEPT !.handle = h] \in Reply
  /\ \A n \in Names \cup {NoName} : [NoReply EXCEPT !.name = n] \in Reply
BY DEF NoReply, Refused, Reply

LEMMA RefInvReplying ==
  ASSUME RefInv,
         Ping \/ BadId \/ Unknown \/ Get \/ List \/ AddReject
  PROVE  RefInv'
<1>0. TypeOK
  BY DEF RefInv
<1>1. CASE Ping \/ BadId
  BY <1>0, <1>1, ReplyFacts, RefInvAnswer
     DEF Ping, BadId, Answer, TypeOK, seVars
<1>2. CASE Unknown \/ AddReject
  BY <1>0, <1>2, ReplyFacts, ReloadFacts, RefInvAnswer
     DEF Unknown, AddReject, Answer, Handle
<1>3. CASE Get
  <2>1. cur \in Procs /\ txn[cur] \in Request
    BY <1>3, ServingFacts DEF Get, Handle
  <2>2. ASSUME txn[cur].name # NoName
        PROVE  do_find_service(cur, txn[cur].name) \in Handles \cup {0}
    BY <2>1, <2>2, ServingFacts DEF do_find_service, Request, SvcInfo
  <2>3. out' \in Reply
    BY <1>3, <2>2, ReplyFacts DEF Get, Answer
  <2> QED BY <1>0, <1>3, <2>3, ReloadFacts, RefInvAnswer
             DEF Get, Answer, Handle
<1>4. CASE List
  <2>1. \A i \in ListedAt(txn[cur].dumpsys_priority, txn[cur].n) :
          Received(svclist[i]) \in Names \cup {NoName}
    BY <1>0 DEF ListedAt, Listed, TypeOK, Received
  <2>2. out' \in Reply
    BY <1>4, <2>1, ReplyFacts DEF List, Answer
  <2>3. pc' = "reply"
    BY <1>4 DEF List, Answer
  <2> QED BY <1>0, <1>4, <2>2, <2>3, ReloadFacts, RefInvAnswer
             DEF List, Handle
<1> QED BY <1>1, <1>2, <1>3, <1>4
-----------------------------------------------------------------------------
(* do_add_service.                                                         *)

LEMMA AddFacts ==
  ASSUME RefInv, Handle("ADD"), AddAllowed
  PROVE  /\ cur \in Procs /\ txn[cur] \in Request
         /\ txn[cur].name \in Names /\ bufh[cur] \in Handles
         /\ svc[txn[cur].name] \in SvcInfo
         /\ node[bufh[cur]] # NoProc
<1>1. cur \in Procs /\ txn[cur] \in Request
  BY ServingFacts DEF Handle
<1>2. txn[cur].name \in Names /\ bufh[cur] \in Handles
  BY <1>1 DEF AddAllowed, Request, RefInv, TypeOK
<1>3. node[bufh[cur]] # NoProc
  BY <1>1, <1>2 DEF RefInv, RefCountExact, Holders
<1> QED BY <1>1, <1>2, <1>3, ServingFacts

LEMMA RefInvAddOverride ==
  ASSUME RefInv, AddOverride
  PROVE  RefInv'
<1> USE DEF RefInv, AddOverride
<1> DEFINE n == txn[cur].name
           h == svc[n].handle
<1>0. /\ cur \in Procs /\ n \in Names /\ bufh[cur] \in Handles
      /\ svc[n] \in SvcInfo
  BY AddFacts
<1>1. h \in Handles /\ Release(h) /\ 0 \notin Handles
  BY <1>0, DriverAssumption DEF SvcInfo
<1>2. svc' = [svc EXCEPT ![n].handle = 0] /\ svc' \in [Names -> SvcInfo]
  BY <1>0 DEF TypeOK, SvcInfo
<1>3. RefCountExact' /\ strong' \in [Handles -> Nat]
  <2>1. n \in Holders(h)
    BY <1>0 DEF Holders
  <2>2. ASSUME NEW g \in Handles
        PROVE  Holders(g)' =
                 IF g = h THEN Holders(g) \ {n} ELSE Holders(g)
    BY <1>0, <1>1, <1>2, DriverAssumption DEF Holders, TypeOK, SvcInfo
  <2> QED BY <1>1, <2>1, <2>2, LoseHolder
<1>4. TypeOK'
  BY <1>1, <1>2, <1>3, ReleaseFacts, ReloadFacts
     DEF TypeOK, DriverTypeOK, PCs, Handle
<1>5. Serving' /\ Adding' /\ NoIdleBuffer'
  BY <1>0, <1>1 DEF Serving, Adding, NoIdleBuffer, Handle
<1>6. FreeEntry'
  BY <1>0, <1>2 DEF FreeEntry, TypeOK, SvcInfo
<1>7. Notices'
  BY <1>1, ReleaseFacts DEF Notices
<1> QED BY <1>3, <1>4, <1>5, <1>6, <1>7

(* An entry without a handle takes the one in the buffer and acquires it.  *)
LEMMA EntryTakesHandle ==
  ASSUME RefInv, NEW n \in Names, svc[n].handle = 0, svc[n] \in SvcInfo,
         cur \in Procs, bufh[cur] \in Handles, bufh' = bufh,
         svc' \in [Names -> SvcInfo], svc'[n].handle = bufh[cur],
         \A m \in Names : m # n => svc'[m] = svc[m],
         Acquire(bufh[cur])
  PROVE  RefCountExact' /\ strong' \in [Handles -> Nat]
<1> DEFINE h == bufh[cur]
<1>1. TypeOK /\ RefCountExact /\ 0 \notin Handles
  BY DriverAssumption DEF RefInv
<1>2. n \notin Holders(h)
  BY <1>1, DriverAssumption DEF Holders
<1>3. ASSUME NEW g \in Handles
      PROVE  Holders(g)' = IF g = h THEN Holders(g) \cup {n} ELSE Holders(g)
  BY <1>1 DEF Holders
<1>4. node'[h] # NoProc
  BY <1>1 DEF RefCountExact, Holders, Acquire
<1> QED BY <1>1, <1>2, <1>3, <1>4, GainHolder DEF Acquire

LEMMA RefInvAddTake ==
  ASSUME RefInv, AddTake
  PROVE  RefInv'
<1> USE DEF RefInv, AddTake
<1> DEFINE n == txn[cur].name
<1>0. /\ cur \in Procs /\ n \in Names /\ bufh[cur] \in Handles
      /\ svc[n] \in SvcInfo /\ svc[n].handle = 0
  BY ServingFacts DEF FreeEntry
<1>1. /\ svc' = [svc EXCEPT ![n].handle = bufh[cur]]
      /\ svc' \in [Names -> SvcInfo]
  BY <1>0 DEF TypeOK, SvcInfo
<1>2. svc'[n].handle = bufh[cur] /\ \A m \in Names : m # n => svc'[m] = svc[m]
  BY <1>0, <1>1 DEF TypeOK, SvcInfo
<1>3. RefCountExact' /\ strong' \in [Handles -> Nat]
  BY <1>0, <1>1, <1>2, EntryTakesHandle
<1>4. TypeOK'
  BY <1>1, <1>3 DEF TypeOK, DriverTypeOK, PCs, Acquire, seVars
<1>5. (Serving /\ Adding /\ FreeEntry /\ Notices /\ NoIdleBuffer)'
  BY <1>0 DEF Serving, Adding, FreeEntry, Notices, NoIdleBuffer, Acquire
<1> QED BY <1>3, <1>4, <1>5

LEMMA RefInvAddRevive ==
  ASSUME RefInv, AddRevive
  PROVE  RefInv'
<1> USE DEF RefInv, AddRevive
<1> DEFINE n == txn[cur].name
<1>0. /\ cur \in Procs /\ n \in Names /\ bufh[cur] \in Handles
      /\ svc[n] \in SvcInfo /\ svc[n].handle = 0
  BY AddFacts
<1>1. /\ svc' = [svc EXCEPT ![n].handle = bufh[cur]]
      /\ svc' \in [Names -> SvcInfo]
  BY <1>0 DEF TypeOK, SvcInfo
<1>2. svc'[n].handle = bufh[cur] /\ \A m \in Names : m # n => svc'[m] = svc[m]
  BY <1>0, <1>1 DEF TypeOK, SvcInfo
<1>3. RefCountExact' /\ strong' \in [Handles -> Nat]
  BY <1>0, <1>1, <1>2, EntryTakesHandle
<1>4. TypeOK'
  BY <1>1, <1>3, ReloadFacts DEF TypeOK, DriverTypeOK, PCs, Acquire, Handle
<1>5. (Serving /\ Adding /\ FreeEntry /\ Notices /\ NoIdleBuffer)'
  BY <1>0, DriverAssumption
     DEF Serving, Adding, FreeEntry, Notices, NoIdleBuffer, Acquire, Handle
<1> QED BY <1>3, <1>4, <1>5

LEMMA RefInvAddFresh ==
  ASSUME RefInv, ListInv, AddFresh
  PROVE  RefInv'
<1> USE DEF RefInv, AddFresh
<1> DEFINE n == txn[cur].name
           e == [handle |-> bufh[cur],
                 allow_isolated |-> txn[cur].allow_isolated,
                 dumpsys_priority |-> txn[cur].dumpsys_priority]
<1>0. /\ cur \in Procs /\ txn[cur] \in Request /\ n \in Names
      /\ bufh[cur] \in Handles /\ svc[n] \in SvcInfo
  BY AddFacts
<1>1. svc[n].handle = 0
  BY <1>0 DEF ListInv, ListOK
<1>2. e \in SvcInfo
  BY <1>0 DEF SvcInfo, Request
<1>3. svc' = [svc EXCEPT ![n] = e]
  OBVIOUS
<1> HIDE DEF e
<1>4. svc' \in [Names -> SvcInfo]
  BY <1>2, <1>3 DEF TypeOK
<1>5. svc'[n].handle = bufh[cur] /\ \A m \in Names : m # n => svc'[m] = svc[m]
  BY <1>0, <1>3 DEF TypeOK, e
<1>6. RefCountExact' /\ strong' \in [Handles -> Nat]
  BY <1>0, <1>1, <1>4, <1>5, EntryTakesHandle
<1>7. svclist' \in Seq(Names)
  BY <1>0 DEF TypeOK
<1>8. TypeOK'
  BY <1>4, <1>6, <1>7, ReloadFacts
     DEF TypeOK, DriverTypeOK, PCs, Acquire, Handle
<1>9. (Serving /\ Adding /\ FreeEntry /\ Notices /\ NoIdleBuffer)'
  BY <1>0, DriverAssumption
     DEF Serving, Adding, FreeEntry, Notices, NoIdleBuffer, Acquire, Handle
<1> QED BY <1>6, <1>8, <1>9

LEMMA RefInvAddLink ==
  ASSUME RefInv, AddLink
  PROVE  RefInv'
<1> USE DEF RefInv, AddLink, Answer
<1>0. cur \in Procs /\ txn[cur].name \in Names /\ bufh[cur] \in Handles
  BY ServingFacts
<1>1. TypeOK'
  BY <1>0, ReplyFacts DEF TypeOK, DriverTypeOK, PCs, LinkToDeath, seVars
<1>2. RefCountExact'
  BY SameHolders DEF LinkToDeath
<1>3. (Serving /\ Adding /\ FreeEntry /\ NoIdleBuffer)'
  BY DEF Serving, Adding, FreeEntry, NoIdleBuffer
<1>4. Notices'
  <2> DEFINE h == bufh[cur]
  <2>1. pc' # "dead"
    OBVIOUS
  <2>2. txn[cur].name # NoName /\ death \in [Handles -> Names \cup {NoName}]
    BY <1>0, DriverAssumption DEF TypeOK, DriverTypeOK
  <2>3. CASE death[h] = NoName
    <3>1. death' = [death EXCEPT ![h] = txn[cur].name]
      BY <2>3 DEF LinkToDeath
    <3>2. dead' \subseteq dead \cup {h}
      BY <2>3 DEF LinkToDeath
    <3>3. ASSUME NEW g \in dead' PROVE death'[g] # NoName
      BY <1>0, <2>2, <3>1, <3>2 DEF Notices, TypeOK, DriverTypeOK
    <3> QED BY <2>1, <3>3 DEF Notices
  <2>4. CASE death[h] # NoName
    BY <2>1, <2>4 DEF Notices, LinkToDeath
  <2> QED BY <2>3, <2>4
<1> QED BY <1>1, <1>2, <1>3, <1>4

LEMMA RefInvSendReply ==
  ASSUME RefInv, SendReply
  PROVE  RefInv'
<1> USE DEF RefInv, SendReply
<1>0. cur \in Procs /\ 0 \notin Handles
  BY ServingFacts
<1>1. CASE bufh[cur] = 0
  <2>1. bufh' = bufh
    BY <1>0, <1>1 DEF TypeOK
  <2>2. TypeOK'
    BY <1>0, <1>1, <2>1, ReplyFacts
       DEF TypeOK, DriverTypeOK, PCs, driverVars, seVars
  <2>3. RefCountExact'
    BY <1>1, <2>1, SameHolders DEF driverVars
  <2>4. (Serving /\ Adding /\ FreeEntry /\ Notices /\ NoIdleBuffer)'
    BY <1>0, <1>1, <2>1
       DEF Serving, Adding, FreeEntry, Notices, NoIdleBuffer, driverVars, TypeOK
  <2> QED BY <2>2, <2>3, <2>4
<1>2. CASE bufh[cur] # 0
  <2> DEFINE h == bufh[cur]
  <2>0. h \in Handles /\ Release(h)
    BY <1>0, <1>2 DEF TypeOK
  <2>1. RefCountExact' /\ strong' \in [Handles -> Nat]
    <3>1. cur \in Holders(h)
      BY <1>0 DEF Holders
    <3>2. ASSUME NEW g \in Handles
          PROVE  Holders(g)' =
                   IF g = h THEN Holders(g) \ {cur} ELSE Holders(g)
      BY <1>0, <2>0, DriverAssumption DEF Holders, TypeOK
    <3> QED BY <2>0, <3>1, <3>2, LoseHolder
  <2>2. TypeOK'
    BY <1>0, <2>0, <2>1, ReleaseFacts, ReplyFacts
       DEF TypeOK, DriverTypeOK, PCs, seVars
  <2>3. (Serving /\ Adding /\ FreeEntry)'
    BY DEF Serving, Adding, FreeEntry
  <2>4. Notices' /\ NoIdleBuffer'
    BY <1>0, <2>0, ReleaseFacts DEF Notices, NoIdleBuffer, TypeOK
  <2> QED BY <2>1, <2>2, <2>3, <2>4
<1> QED BY <1>1, <1>2
-----------------------------------------------------------------------------
(* The list of entries.                                                    *)
LEMMA ListInvInit == Init => ListInv
BY DEF Init, ListInv, ListOK

(* A step that neither grows the list nor puts a name in use, other than   *)
(* one that is listed.                                                     *)
LEMMA SameList ==
  ASSUME ListInv, svclist' = svclist,
         \A n \in Names : svc'[n].handle # 0 =>
           svc[n].handle # 0 \/ n \in Registered,
         pc' = "add" => txn'[cur'].name \in Registered
  PROVE  ListInv'
BY DEF ListInv, ListOK, Registered

LEMMA ListInvAddFresh ==
  ASSUME RefInv, ListInv, AddFresh
  PROVE  ListInv'
<1> DEFINE n == txn[cur].name
<1>1. n \in Names /\ svclist \in Seq(Names) /\ n \notin Registered
  BY AddFacts DEF AddFresh, RefInv, TypeOK
<1>2. svclist' = <<n>> \o svclist /\ pc' # "add"
  BY DEF AddFresh
<1>3. /\ Len(svclist') = Len(svclist) + 1
      /\ svclist'[1] = n
      /\ \A i \in 2..Len(svclist) + 1 : svclist'[i] = svclist[i - 1]
  BY <1>1, <1>2
<1>4. Len(svclist) \in Nat
  BY <1>1
<1>5. \A i \in 1..Len(svclist) : svclist[i] # n
  BY <1>1 DEF Registered, ToSet
<1>6. \A i, j \in 1..Len(svclist') : svclist'[i] = svclist'[j] => i = j
  <2>. SUFFICES ASSUME NEW i \in 1..Len(svclist) + 1, NEW j \in 1..Len(svclist) + 1,
                       svclist'[i] = svclist'[j]
                PROVE  i = j
    BY <1>3
  <2>1. i # 1 => i - 1 \in 1..Len(svclist) /\ svclist'[i] = svclist[i - 1]
    BY <1>3, <1>4
  <2>2. j # 1 => j - 1 \in 1..Len(svclist) /\ svclist'[j] = svclist[j - 1]
    BY <1>3, <1>4
  <2>3. CASE i = 1 \/ j = 1
    BY <1>3, <1>5, <2>1, <2>2, <2>3
  <2>4. CASE i # 1 /\ j # 1
    <3>1. i - 1 = j - 1
      BY <2>1, <2>2, <2>4 DEF ListInv, ListOK
    <3>. QED  BY <3>1, <1>4
  <2>. QED  BY <2>3, <2>4
<1>7. Registered' = Registered \cup {n}
  <2>1. DOMAIN svclist' = 1..Len(svclist) + 1 /\ DOMAIN svclist = 1..Len(svclist)
    BY <1>1, <1>2
  <2>2. Registered' \subseteq Registered \cup {n}
    <3> SUFFICES ASSUME NEW i \in 1..Len(svclist) + 1
                 PROVE  svclist'[i] \in Registered \cup {n}
      BY <2>1 DEF Registered, ToSet
    <3>1. CASE i = 1
      BY <3>1, <1>3
    <3>2. CASE i # 1
      BY <3>2, <1>3, <1>4, <2>1 DEF Registered, ToSet
    <3> QED BY <3>1, <3>2
  <2>3. Registered \subseteq Registered'
    <3> SUFFICES ASSUME NEW i \in 1..Len(svclist)
                 PROVE  svclist[i] \in Registered'
      BY <2>1 DEF Registered, ToSet
    <3>1. i + 1 \in 2..Len(svclist) + 1 /\ svclist'[i + 1] = svclist[i]
      BY <1>3, <1>4
    <3> QED BY <2>1, <3>1, <1>4 DEF Registered, ToSet
  <2>4. n \in Registered'
    BY <1>3, <1>4, <2>1 DEF Registered, ToSet
  <2> QED BY <2>2, <2>3, <2>4
<1>8. \A m \in Names : svc'[m].handle # 0 => m \in Registered'
  BY <1>1, <1>7 DEF AddFresh, ListInv, ListOK, RefInv, TypeOK
<1> QED BY <1>2, <1>6, <1>8 DEF ListInv, ListOK

LEMMA ListInvSend ==
  ASSUME RefInv, ListInv, NEW p \in Procs, NEW r, Send(p, r)
  PROVE  ListInv'
<1>0. TypeOK
  BY DEF RefInv
<1>1. pc = "add" => cur # p
  BY DEF Send, RefInv, Serving
<1>2. pc = "add" => txn'[cur] = txn[cur]
  BY <1>0, <1>1, ServingFacts DEF Send, TypeOK
<1>3. pc' = "add" => txn'[cur'].name \in Registered
  BY <1>2 DEF Send, ListInv
<1> QED BY <1>3, SameList DEF Send

LEMMA ListInvNext ==
  ASSUME RefInv, ListInv, [Next]_vars
  PROVE  ListInv'
<1> USE DEF ListInv
<1>0. TypeOK
  BY DEF RefInv
<1>1. CASE UNCHANGED vars
  BY <1>1, SameList DEF vars
<1>2. ASSUME NEW p \in Procs, NEW r \in MayRequest[p], Send(p, r)
      PROVE  ListInv'
  BY <1>2, ListInvSend
<1>3. ASSUME NEW p \in Procs, Die(p) \/ ReadTxn(p)
      PROVE  ListInv'
  BY <1>3, SameList DEF Die, ReadTxn
<1>4. ASSUME NEW h \in Handles, ReadDead(h)
      PROVE  ListInv'
  BY <1>4, SameList DEF ReadDead
<1>5. ASSUME NEW pol \in Policies, UpdatePolicy(pol)
      PROVE  ListInv'
  BY <1>5, SameList DEF UpdatePolicy
<1>6. CASE DeadBinder
  <2>1. \A n \in Names : svc'[n].handle # 0 => svc[n].handle # 0
    BY <1>0, <1>6 DEF DeadBinder, TypeOK, SvcInfo
  <2> QED BY <1>6, <2>1, SameList DEF DeadBinder
<1>7. CASE Ping \/ BadId \/ Unknown \/ Get \/ List \/ AddReject
  <2>1. pc' = "reply" /\ UNCHANGED <<svclist, svc>>
    BY <1>7 DEF Ping, BadId, Unknown, Get, List, AddReject, Answer
  <2> QED BY <2>1, SameList
<1>8. CASE AddOverride
  <2>1. \A n \in Names : svc'[n].handle # 0 => svc[n].handle # 0
    BY <1>0, <1>8 DEF AddOverride, TypeOK, SvcInfo
  <2>2. svc[txn[cur].name].handle # 0 /\ txn[cur].name \in Names
    BY <1>8, AddFacts DEF AddOverride
  <2>3. txn[cur].name \in Registered
    BY <2>2 DEF ListOK
  <2> QED BY <1>8, <2>1, <2>3, SameList DEF AddOverride
<1>9. CASE AddTake \/ AddRevive
  <2>1. txn[cur].name \in Registered
    BY <1>9 DEF AddTake, AddRevive
  <2>2. \A n \in Names : n # txn[cur].name => svc'[n] = svc[n]
    BY <1>0, <1>9 DEF AddTake, AddRevive, TypeOK
  <2>3. svclist' = svclist /\ pc' = "link"
    BY <1>9 DEF AddTake, AddRevive
  <2> QED BY <2>1, <2>2, <2>3, SameList
<1>10. CASE AddFresh
  BY <1>10, ListInvAddFresh
<1>11. CASE AddLink
  BY <1>11, SameList DEF AddLink, Answer
<1>12. CASE SendReply
  BY <1>12, SameList DEF SendReply
<1> QED
  BY <1>1, <1>2, <1>3, <1>4, <1>5, <1>6, <1>7, <1>8, <1>9, <1>10, <1>11, <1>12
     DEF Next, Serve, svcmgr_handler
-----------------------------------------------------------------------------
LEMMA RefInvNext ==
  ASSUME RefInv, ListInv, [Next]_vars
  PROVE  RefInv'
<1>1. CASE UNCHANGED vars
  <2>1. TypeOK'
    BY <1>1 DEF RefInv, TypeOK, DriverTypeOK, vars, driverVars, seVars
  <2>2. RefCountExact'
    BY <1>1, SameHolders DEF RefInv, vars, driverVars
  <2>3. (Serving /\ Adding /\ FreeEntry /\ Notices /\ NoIdleBuffer)'
    BY <1>1 DEF RefInv, Serving, Adding, FreeEntry, Notices, NoIdleBuffer,
                vars, driverVars
  <2> QED BY <2>1, <2>2, <2>3 DEF RefInv
<1>2. ASSUME NEW p \in Procs, NEW r \in MayRequest[p], Send(p, r)
      PROVE  RefInv'
  BY <1>2, RefInvSend, ManagerAssumption
<1>3. ASSUME NEW p \in Procs, Die(p) \/ ReadTxn(p)
      PROVE  RefInv'
  BY <1>3, RefInvDie, RefInvReadTxn
<1>4. ASSUME NEW h \in Handles, ReadDead(h)
      PROVE  RefInv'
  BY <1>4, RefInvReadDead
<1>5. ASSUME NEW pol \in Policies, UpdatePolicy(pol)
      PROVE  RefInv'
  BY <1>5, RefInvUpdatePolicy
<1>6. CASE Serve
  BY <1>6, RefInvDeadBinder, RefInvReplying, RefInvAddOverride,
     RefInvAddTake, RefInvAddRevive, RefInvAddFresh, RefInvAddLink,
     RefInvSendReply
     DEF Serve, svcmgr_handler
<1> QED
  BY <1>1, <1>2, <1>3, <1>4, <1>5, <1>6 DEF Next

(* The two invariants hold together: an unlisted name is not in use, and a *)
(* handle is counted for every name in use.                                *)
THEOREM RefInvariant == Spec => [](RefInv /\ ListInv)
<1>1. Init => RefInv /\ ListInv
  BY RefInvInit, ListInvInit
<1>2. RefInv /\ ListInv /\ [Next]_vars => RefInv' /\ ListInv'
  BY RefInvNext, ListInvNext
<1> QED BY <1>1, <1>2, PTL DEF Spec

(* Every variable keeps its type; in particular the driver is never asked  *)
(* to drop a reference that is not there.                                  *)
THEOREM TypeCorrect == Spec => []TypeOK
<1>1. RefInv => TypeOK
  BY DEF RefInv
<1> QED BY <1>1, RefInvariant, PTL

(* The reference counts are exact at every step of do_add_service,         *)
(* svcinfo_death and binder_send_reply: no leak, no double release, no     *)
(* handle used after its last reference.                                   *)
THEOREM RefCountsCorrect == Spec => []RefCountExact
<1>1. RefInv => RefCountExact
  BY DEF RefInv
<1> QED BY <1>1, RefInvariant, PTL

(* One entry per name, and lookups only see listed entries.                *)
THEOREM ListCorrect == Spec => []ListOK
<1>1. ListInv => ListOK
  BY DEF ListInv
<1> QED BY <1>1, RefInvariant, PTL
-----------------------------------------------------------------------------
(* The policy that is open is the installed one unless the status says     *)
(* that it has changed.                                                    *)
StatusTells == sehandle # service_contexts => status_updated

(* What a step does to the policy.                                         *)
LEMMA PolicySteps ==
  ASSUME ~ReloadMayFail, Next
  PROVE  \/ UNCHANGED <<sehandle, service_contexts, status_updated>>
         \/ sehandle' = sehandle /\ status_updated'
         \/ Reload
<1>1. ASSUME NEW p \in Procs, \/ \E r \in MayRequest[p] : Send(p, r)
                              \/ Die(p) \/ ReadTxn(p)
      PROVE  UNCHANGED <<sehandle, service_contexts, status_updated>>
  BY <1>1 DEF Send, Die, ReadTxn, seVars
<1>2. ASSUME NEW h \in Handles, ReadDead(h)
      PROVE  UNCHANGED <<sehandle, service_contexts, status_updated>>
  BY <1>2 DEF ReadDead, seVars
<1>3. ASSUME NEW pol \in Policies, UpdatePolicy(pol)
      PROVE  sehandle' = sehandle /\ status_updated'
  BY <1>3 DEF UpdatePolicy
<1>4. CASE svcmgr_handler
  BY <1>4 DEF svcmgr_handler, Ping, BadId, Unknown, Get, List, AddReject,
              AddOverride, AddRevive, AddFresh, Handle, seVars
<1>5. CASE DeadBinder \/ AddTake \/ AddLink \/ SendReply
  BY <1>5 DEF DeadBinder, AddTake, AddLink, SendReply, seVars
<1> QED BY <1>1, <1>2, <1>3, <1>4, <1>5 DEF Next, Serve

(* A step that leads from a request to the registration itself checks it.  *)
LEMMA ChecksPolicy ==
  ASSUME Next, pc = "txn", pc' \in {"add", "link"}
  PROVE  /\ Reload
         /\ <<sehandle', "add", cur, Str8[txn[cur].name]>> \in Granted
<1>1. AddOverride \/ AddRevive \/ AddFresh
  BY DEF Next, Send, Die, UpdatePolicy, ReadTxn, ReadDead, Serve, DeadBinder,
         svcmgr_handler, Ping, BadId, Unknown, Get, List, AddReject, AddTake,
         AddLink, SendReply, Answer
<1> QED BY <1>1 DEF AddOverride, AddRevive, AddFresh, Handle, AddAllowed,
                    svc_can_register, Permitted

(* A registration is accepted by the policy installed at the time, if a    *)
(* new service_contexts can always be opened: svcmgr_handler asks for the  *)
(* status before it decides, and never loses a change.                     *)
THEOREM PolicyFollowed ==
  ASSUME ~ReloadMayFail
  PROVE  Spec => PolicyInForce
<1>1. Init => StatusTells
  BY DEF Init, StatusTells
<1>2. StatusTells /\ [Next]_vars => StatusTells'
  <2> SUFFICES ASSUME StatusTells, [Next]_vars PROVE StatusTells'
    OBVIOUS
  <2>1. CASE UNCHANGED vars
    BY <2>1 DEF StatusTells, vars, seVars
  <2>2. CASE Next
    BY <2>2, PolicySteps DEF StatusTells, Reload
  <2> QED BY <2>1, <2>2
<1>3. StatusTells /\ [Next]_vars =>
        [pc = "txn" /\ pc' \in {"add", "link"} =>
           <<service_contexts, "add", cur, Str8[txn[cur].name]>> \in Granted]_vars
  <2> SUFFICES ASSUME StatusTells, Next, pc = "txn", pc' \in {"add", "link"}
               PROVE  <<service_contexts, "add", cur, Str8[txn[cur].name]>>
                        \in Granted
    OBVIOUS
  <2>1. Reload /\ <<sehandle', "add", cur, Str8[txn[cur].name]>> \in Granted
    BY ChecksPolicy
  <2>2. sehandle' = service_contexts
    BY <2>1 DEF Reload, StatusTells
  <2> QED BY <2>1, <2>2
<1> QED BY <1>1, <1>2, <1>3, PTL DEF Spec, PolicyInForce
=============================================================================
