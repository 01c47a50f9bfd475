----------------------- MODULE ServiceManagerNotices -----------------------
(***************************************************************************)
(* Death notices, for every value of the constants.  Who owns what (Owned) *)
(* needs no hypothesis.  If a process that publishes under two names       *)
(* shares neither (NamesApart), svcinfo_death is only ever called for a    *)
(* service that has died, and Registry.tla is implemented                  *)
(* (ServiceManagerRefinement.tla).  If it publishes under one (OneName),   *)
(* a service that has died is also always on its way out.                  *)
(***************************************************************************)
EXTENDS ServiceManagerProofs

(* Requests come from MayRequest, and what is being added is an ADD that a *)
(* policy has allowed.                                                     *)
Requests ==
  /\ \A p \in Procs : txn[p] # NoTxn => txn[p] \in MayRequest[p]
  /\ pc \in {"add", "link"} => MayPublish(cur, txn[cur].name)

(* A buffer refers to its sender's object.                                 *)
BufferOwner == \A p \in Procs : bufh[p] # 0 => node[bufh[p]] = p

(* Entries and death registrations are for names their process may publish *)
(* under.                                                                  *)
EntryOwner ==
  \A n \in Names : svc[n].handle # 0 => MayPublish(node[svc[n].handle], n)

DeathOwner ==
  \A h \in Handles : death[h] # NoName =>
    node[h] # NoProc /\ MayPublish(node[h], death[h])

(* A notice is for a dead process.                                         *)
NoticeTrue == \A h \in dead : node[h] \notin alive

(* Who owns what: holds whatever the processes publish.                    *)
Owned == Requests /\ BufferOwner /\ EntryOwner /\ DeathOwner /\ NoticeTrue

CoreInv == RefInv /\ ListInv /\ Owned

(* The entry that add has just filled.                                     *)
Linking == pc = "link" => svc[txn[cur].name].handle = bufh[cur]

(* An entry in use has its death registration, or is about to ask for it.  *)
Linked ==
  \A n \in Names : svc[n].handle # 0 =>
    \/ death[svc[n].handle] = n
    \/ pc = "link" /\ txn[cur].name = n

(* The notice of a dead process with a registration is queued or being     *)
(* handled.                                                                *)
NoticeKept ==
  \A h \in Handles : death[h] # NoName /\ node[h] \notin alive =>
    \/ h \in dead
    \/ pc = "dead" /\ svc[obit].handle = h

(* While a notice is handled its process is dead, has nothing queued, and  *)
(* is the one its entry stands for.                                        *)
NoticeRead ==
  pc = "dead" =>
    /\ svc[obit].handle # 0
    /\ death[svc[obit].handle] = obit
    /\ node[svc[obit].handle] \notin alive
    /\ txn[node[svc[obit].handle]] = NoTxn

NoticeInv == Linking /\ Linked /\ NoticeKept /\ NoticeRead

Inv == CoreInv /\ NoticeInv
-----------------------------------------------------------------------------
(* A handle in use stands for an object.                                   *)
LEMMA InUse ==
  ASSUME RefInv
  PROVE  /\ \A n \in Names : svc[n].handle # 0 =>
              /\ svc[n].handle \in Handles
              /\ node[svc[n].handle] \in Procs
         /\ \A p \in Procs : bufh[p] # 0 =>
              /\ bufh[p] \in Handles
              /\ node[bufh[p]] \in Procs
<1>1. ASSUME NEW n \in Names, svc[n].handle # 0
      PROVE  svc[n].handle \in Handles /\ node[svc[n].handle] \in Procs
  <2>1. svc[n].handle \in Handles
    BY <1>1, ServingFacts DEF SvcInfo
  <2>2. Holders(svc[n].handle) # {}
    BY DEF Holders
  <2> QED BY <2>1, <2>2 DEF RefInv, RefCountExact, TypeOK, DriverTypeOK
<1>2. ASSUME NEW p \in Procs, bufh[p] # 0
      PROVE  bufh[p] \in Handles /\ node[bufh[p]] \in Procs
  <2>1. bufh[p] \in Handles
    BY <1>2 DEF RefInv, TypeOK
  <2>2. Holders(bufh[p]) # {}
    BY DEF Holders
  <2> QED BY <2>1, <2>2 DEF RefInv, RefCountExact, TypeOK, DriverTypeOK
<1> QED BY <1>1, <1>2

(* What a request leaves of everybody else's: at most a free handle is     *)
(* given to the sender's object.                                           *)
SendFacts(p, r) ==
  /\ UNCHANGED <<svc, pc, cur, obit, out, death, dead, alive>>
  /\ txn' = [txn EXCEPT ![p] = r]
  /\ \A g \in Handles : node'[g] = node[g] \/ node[g] = NoProc
  /\ \A q \in Procs : q # p => bufh'[q] = bufh[q]
  /\ bufh'[p] # 0 => node'[bufh'[p]] = p

LEMMA SendLeaves ==
  ASSUME RefInv, NEW p \in Procs, NEW r \in MayRequest[p], Send(p, r)
  PROVE  SendFacts(p, r)
<1>0. TypeOK /\ bufh[p] = 0
  BY DEF RefInv, NoIdleBuffer, Send
<1>1. CASE ~r.ref
  BY <1>0, <1>1 DEF Send, SendFacts, driverVars
<1>2. CASE r.ref
  <2> PICK h \in Handles : TakeRef(p, h) /\ bufh' = [bufh EXCEPT ![p] = h]
    BY <1>2 DEF Send
  <2> QED BY <1>0 DEF Send, SendFacts, TakeRef, HandlesFor, TypeOK, DriverTypeOK
<1> QED BY <1>1, <1>2

(* After Release(h) the handle is as it was, or free and without holders.  *)
LEMMA ReleaseLeaves ==
  ASSUME RefInv, NEW h \in Handles, Release(h), RefCountExact'
  PROVE  /\ alive' = alive
         /\ \A g \in Handles : g # h =>
              /\ node'[g] = node[g] /\ death'[g] = death[g]
              /\ g \in dead' <=> g \in dead
         /\ \/ /\ node'[h] = node[h] /\ death'[h] = death[h]
               /\ h \in dead' <=> h \in dead
            \/ /\ death'[h] = NoName /\ h \notin dead'
               /\ \A n \in Names : svc'[n].handle # h
               /\ \A p \in Procs : bufh'[p] # h
<1>1. CASE strong[h] = 1
  <2>1. node'[h] = NoProc /\ death'[h] = NoName /\ h \notin dead'
    BY <1>1 DEF RefInv, TypeOK, DriverTypeOK, Release
  <2>2. Holders(h)' = {}
    BY <2>1 DEF RefCountExact
  <2>3. /\ \A n \in Names : svc'[n].handle # h
        /\ \A p \in Procs : bufh'[p] # h
    BY <2>2 DEF Holders
  <2> QED BY <1>1, <2>1, <2>3 DEF RefInv, TypeOK, DriverTypeOK, Release
<1>2. CASE strong[h] # 1
  BY <1>2 DEF Release
<1> QED BY <1>1, <1>2

(* So a release that leaves no new holder leaves everybody what he owns.   *)
LEMMA OwnedRelease ==
  ASSUME CoreInv, NEW h \in Handles, Release(h), RefCountExact',
         \A n \in Names : svc'[n].handle # 0 => svc'[n].handle = svc[n].handle,
         \A p \in Procs : bufh'[p] # 0 => bufh'[p] = bufh[p]
  PROVE  (BufferOwner /\ EntryOwner /\ DeathOwner /\ NoticeTrue)'
<1> USE DEF CoreInv, Owned
<1>1. ASSUME NEW n \in Names, svc'[n].handle # 0
      PROVE  /\ svc'[n].handle = svc[n].handle /\ svc[n].handle # 0
             /\ node'[svc[n].handle] = node[svc[n].handle]
  BY <1>1, InUse, ReleaseLeaves
<1>2. ASSUME NEW p \in Procs, bufh'[p] # 0
      PROVE  /\ bufh'[p] = bufh[p] /\ bufh[p] # 0
             /\ node'[bufh[p]] = node[bufh[p]]
  BY <1>2, InUse, ReleaseLeaves
<1>3. BufferOwner'
  BY <1>2 DEF BufferOwner
<1>4. EntryOwner'
  BY <1>1 DEF EntryOwner, MayPublish
<1>5. DeathOwner'
  BY ReleaseLeaves DEF DeathOwner, MayPublish
<1>6. NoticeTrue'
  <2>1. dead' \subseteq dead /\ dead \subseteq Handles /\ alive' = alive
    BY ReleaseFacts DEF RefInv, TypeOK, DriverTypeOK
  <2>2. ASSUME NEW g \in dead' PROVE node'[g] \notin alive'
    <3>1. node'[g] = node[g]
      BY <2>1, <2>2, ReleaseLeaves
    <3> QED BY <2>1, <2>2, <3>1 DEF NoticeTrue
  <2> QED BY <2>2 DEF NoticeTrue
<1> QED BY <1>3, <1>4, <1>5, <1>6

LEMMA OwnedInit == Init => Owned
BY DriverAssumption
   DEF Init, DriverInit, Owned, Requests, BufferOwner, EntryOwner, DeathOwner,
       NoticeTrue

(* A step that moves on, reads a notice or composes a reply.               *)
LEMMA OwnedFrame ==
  ASSUME Owned, UNCHANGED <<svc, txn, bufh, node, death, alive>>,
         dead' \subseteq dead,
         UNCHANGED <<pc, cur>> \/ pc' \notin {"add", "link"}
  PROVE  Owned'
BY DEF Owned, Requests, BufferOwner, EntryOwner, DeathOwner, NoticeTrue,
       MayPublish

LEMMA OwnedSend ==
  ASSUME CoreInv, NEW p \in Procs, NEW r \in MayRequest[p], Send(p, r)
  PROVE  Owned'
<1> USE DEF CoreInv, Owned
<1>0. /\ TypeOK /\ bufh[p] = 0 /\ txn[p] = NoTxn /\ p \in alive
      /\ r # NoTxn
  BY ManagerAssumption DEF RefInv, NoIdleBuffer, Send
<1>1. SendFacts(p, r)
  BY SendLeaves
<1> USE DEF SendFacts
<1>2. pc \in {"add", "link"} => cur \in Procs /\ cur # p
  BY <1>0 DEF RefInv, Serving
<1>3. Requests'
  BY <1>0, <1>1, <1>2 DEF Requests, MayPublish, TypeOK
<1>4. BufferOwner'
  <2>1. ASSUME NEW q \in Procs, q # p, bufh[q] # 0
        PROVE  node'[bufh[q]] = q
    BY <1>1, <2>1, InUse, DriverAssumption DEF BufferOwner
  <2> QED BY <1>1, <2>1 DEF BufferOwner
<1>5. EntryOwner'
  <2>1. \A n \in Names : svc[n].handle # 0 =>
          node'[svc[n].handle] = node[svc[n].handle]
    BY <1>1, InUse, DriverAssumption
  <2> QED BY <1>1, <2>1 DEF EntryOwner, MayPublish
<1>6. DeathOwner'
  BY <1>1 DEF DeathOwner, MayPublish
<1>7. NoticeTrue'
  BY <1>0, <1>1 DEF NoticeTrue, RefInv, Notices, DeathOwner, TypeOK,
                    DriverTypeOK
<1> QED BY <1>3, <1>4, <1>5, <1>6, <1>7

LEMMA OwnedDie ==
  ASSUME Owned, NEW p \in Procs, Die(p)
  PROVE  Owned'
BY DEF Owned, Requests, BufferOwner, EntryOwner, DeathOwner, NoticeTrue,
       MayPublish, Die, Kill

LEMMA OwnedDeadBinder ==
  ASSUME CoreInv, DeadBinder
  PROVE  Owned'
<1> USE DEF CoreInv, Owned
<1>1. Requests'
  BY DEF DeadBinder, Requests
<1>2. CASE svc[obit].handle = 0
  <2>1. UNCHANGED <<svc, txn, bufh, driverVars>> /\ pc' = "read"
    BY <1>2 DEF DeadBinder
  <2> QED BY <2>1, OwnedFrame DEF driverVars
<1>3. CASE svc[obit].handle # 0
  <2>1. obit \in Names /\ svc[obit].handle \in Handles
    BY <1>3, ServingFacts, InUse DEF DeadBinder
  <2>2. Release(svc[obit].handle) /\ RefCountExact'
    BY <1>3, RefInvDeadBinder DEF DeadBinder, RefInv
  <2>3. \A n \in Names : svc'[n].handle # 0 => svc'[n].handle = svc[n].handle
    BY <1>3, <2>1 DEF DeadBinder, RefInv, TypeOK, SvcInfo
  <2>4. bufh' = bufh
    BY DEF DeadBinder
  <2> QED BY <1>1, <2>1, <2>2, <2>3, <2>4, OwnedRelease
<1> QED BY <1>2, <1>3

(* What do_add_service has checked.                                        *)
LEMMA AddPublishes ==
  ASSUME CoreInv, Handle("ADD"), AddAllowed, TypeOK'
  PROVE  MayPublish(cur, txn[cur].name)
<1>1. cur \in Procs /\ txn[cur] # NoTxn /\ txn[cur].code = "ADD"
  BY AddFacts, ManagerAssumption DEF CoreInv, Handle
<1>2. txn[cur] \in MayRequest[cur]
  BY <1>1 DEF CoreInv, Owned, Requests
<1>3. sehandle' \in Policies
  BY DEF TypeOK
<1> QED BY <1>1, <1>2, <1>3
        DEF AddAllowed, svc_can_register, Permitted, MayPublish

LEMMA OwnedAddOverride ==
  ASSUME CoreInv, AddOverride
  PROVE  Owned'
<1> USE DEF CoreInv, Owned
<1> DEFINE n == txn[cur].name
           h == svc[n].handle
<1>0. n \in Names /\ h \in Handles /\ h # 0 /\ Release(h)
  BY AddFacts, InUse DEF AddOverride, Handle
<1>1. TypeOK' /\ RefCountExact'
  BY RefInvAddOverride DEF RefInv
<1>2. \A m \in Names : svc'[m].handle # 0 => svc'[m].handle = svc[m].handle
  BY <1>0 DEF AddOverride, RefInv, TypeOK, SvcInfo
<1>3. Requests'
  BY <1>1, AddPublishes DEF AddOverride, Requests, MayPublish
<1>4. bufh' = bufh
  BY DEF AddOverride
<1> QED BY <1>0, <1>1, <1>2, <1>3, <1>4, OwnedRelease

(* The three ways an entry gets the handle of the request being served.    *)
LEMMA TakeFacts ==
  ASSUME CoreInv, AddTake \/ AddRevive \/ AddFresh
  PROVE  /\ cur \in Procs /\ txn[cur].name \in Names /\ bufh[cur] # 0
         /\ MayPublish(cur, txn[cur].name)
         /\ pc \in {"txn", "add"} /\ pc' = "link"
         /\ UNCHANGED <<txn, bufh, cur, obit, node, death, dead, alive>>
         /\ svc'[txn[cur].name].handle = bufh[cur]
         /\ \A m \in Names : m # txn[cur].name => svc'[m] = svc[m]
<1> USE DEF CoreInv, Owned
<1>1. CASE AddTake
  <2>1. /\ cur \in Procs /\ txn[cur].name \in Names /\ bufh[cur] # 0
        /\ MayPublish(cur, txn[cur].name)
    BY <1>1, ServingFacts DEF Requests, RefInv, Serving, Adding, AddTake
  <2>2. /\ svc'[txn[cur].name].handle = bufh[cur]
        /\ \A m \in Names : m # txn[cur].name => svc'[m] = svc[m]
    BY <1>1, <2>1 DEF AddTake, RefInv, TypeOK, SvcInfo
  <2> QED BY <1>1, <2>1, <2>2 DEF AddTake, Acquire
<1>2. CASE AddRevive \/ AddFresh
  <2>1. TypeOK'
    BY <1>2, RefInvAddRevive, RefInvAddFresh DEF RefInv
  <2>2. /\ cur \in Procs /\ txn[cur].name \in Names /\ bufh[cur] # 0
        /\ MayPublish(cur, txn[cur].name) /\ pc = "txn"
    BY <1>2, <2>1, AddFacts, AddPublishes, DriverAssumption
       DEF AddRevive, AddFresh, Handle
  <2>3. /\ svc'[txn[cur].name].handle = bufh[cur]
        /\ \A m \in Names : m # txn[cur].name => svc'[m] = svc[m]
    BY <1>2, <2>2 DEF AddRevive, AddFresh, RefInv, TypeOK, SvcInfo
  <2>4. /\ UNCHANGED <<txn, bufh, cur, obit, node, death, dead, alive>>
        /\ pc' = "link"
    BY <1>2 DEF AddRevive, AddFresh, Acquire
  <2> QED BY <2>2, <2>3, <2>4
<1> QED BY <1>1, <1>2

LEMMA OwnedAdd ==
  ASSUME CoreInv, AddTake \/ AddRevive \/ AddFresh
  PROVE  Owned'
<1> USE DEF CoreInv, Owned
<1>0. /\ cur \in Procs /\ txn[cur].name \in Names /\ bufh[cur] # 0
      /\ MayPublish(cur, txn[cur].name) /\ node[bufh[cur]] = cur
      /\ UNCHANGED <<txn, bufh, cur, node, death, dead, alive>>
      /\ svc'[txn[cur].name].handle = bufh[cur]
      /\ \A m \in Names : m # txn[cur].name => svc'[m] = svc[m]
  BY TakeFacts DEF BufferOwner
<1>1. Requests'
  BY <1>0 DEF Requests, MayPublish
<1>2. EntryOwner'
  BY <1>0 DEF EntryOwner, MayPublish
<1>3. (BufferOwner /\ DeathOwner /\ NoticeTrue)'
  BY <1>0 DEF BufferOwner, DeathOwner, NoticeTrue, MayPublish
<1> QED BY <1>1, <1>2, <1>3

LEMMA OwnedAddLink ==
  ASSUME CoreInv, AddLink
  PROVE  Owned'
<1> USE DEF CoreInv, Owned, AddLink, Answer
<1> DEFINE n == txn[cur].name
           h == bufh[cur]
<1>0. /\ cur \in Procs /\ n \in Names /\ h \in Handles
      /\ node[h] = cur /\ MayPublish(cur, n)
  BY ServingFacts DEF BufferOwner, Requests, RefInv, Adding
<1>1. CASE death[h] # NoName
  BY <1>1, OwnedFrame DEF LinkToDeath
<1>2. CASE death[h] = NoName
  <2>1. /\ death'[h] = n /\ \A g \in Handles : g # h => death'[g] = death[g]
        /\ dead' \subseteq dead \cup (IF node[h] \in alive THEN {} ELSE {h})
        /\ UNCHANGED <<node, alive>>
    BY <1>0, <1>2 DEF LinkToDeath, RefInv, TypeOK, DriverTypeOK
  <2>2. (Requests /\ BufferOwner /\ EntryOwner)'
    BY <2>1 DEF Requests, BufferOwner, EntryOwner, MayPublish
  <2>3. DeathOwner'
    BY <1>0, <2>1, DriverAssumption DEF DeathOwner, MayPublish
  <2>4. NoticeTrue'
    BY <2>1 DEF NoticeTrue
  <2> QED BY <2>2, <2>3, <2>4
<1> QED BY <1>1, <1>2

LEMMA OwnedSendReply ==
  ASSUME CoreInv, SendReply
  PROVE  Owned'
<1> USE DEF CoreInv, Owned, SendReply
<1>0. cur \in Procs /\ TypeOK
  BY ServingFacts DEF RefInv
<1>1. Requests'
  BY <1>0 DEF Requests, TypeOK
<1>2. CASE bufh[cur] = 0
  <2>1. bufh' = bufh
    BY <1>0, <1>2 DEF TypeOK
  <2>2. (BufferOwner /\ EntryOwner /\ DeathOwner /\ NoticeTrue)'
    BY <1>2, <2>1 DEF BufferOwner, EntryOwner, DeathOwner, NoticeTrue,
                      MayPublish, driverVars
  <2> QED BY <1>1, <2>2
<1>3. CASE bufh[cur] # 0
  <2>1. bufh[cur] \in Handles /\ Release(bufh[cur]) /\ RefCountExact'
    BY <1>0, <1>3, RefInvSendReply DEF RefInv, TypeOK
  <2>2. \A q \in Procs : bufh'[q] # 0 => bufh'[q] = bufh[q]
    BY <1>0 DEF TypeOK
  <2> QED BY <1>1, <2>1, <2>2, OwnedRelease
<1> QED BY <1>2, <1>3

LEMMA OwnedNext ==
  ASSUME CoreInv, [Next]_vars
  PROVE  Owned'
<1> USE DEF CoreInv
<1>1. CASE UNCHANGED vars
  BY <1>1, OwnedFrame DEF vars, driverVars
<1>2. ASSUME NEW p \in Procs, NEW r \in MayRequest[p], Send(p, r)
      PROVE  Owned'
  BY <1>2, OwnedSend
<1>3. ASSUME NEW p \in Procs, Die(p)
      PROVE  Owned'
  BY <1>3, OwnedDie
<1>4. ASSUME NEW p \in Procs, ReadTxn(p)
      PROVE  Owned'
  BY <1>4, OwnedFrame DEF ReadTxn, driverVars
<1>5. ASSUME NEW h \in Handles, ReadDead(h)
      PROVE  Owned'
  BY <1>5, OwnedFrame DEF ReadDead
<1>6. ASSUME NEW pol \in Policies, UpdatePolicy(pol)
      PROVE  Owned'
  BY <1>6, OwnedFrame DEF UpdatePolicy, driverVars
<1>7. CASE Ping \/ BadId \/ Unknown \/ Get \/ List \/ AddReject
  <2>1. UNCHANGED <<svc, txn, bufh, driverVars>> /\ pc' = "reply"
    BY <1>7 DEF Ping, BadId, Unknown, Get, List, AddReject, Answer, Handle
  <2> QED BY <2>1, OwnedFrame DEF driverVars
<1>8. CASE DeadBinder \/ AddOverride \/ AddTake \/ AddRevive \/ AddFresh
           \/ AddLink \/ SendReply
  BY <1>8, OwnedDeadBinder, OwnedAddOverride, OwnedAdd, OwnedAddLink,
     OwnedSendReply
<1> QED
  BY <1>1, <1>2, <1>3, <1>4, <1>5, <1>6, <1>7, <1>8
     DEF Next, Serve, svcmgr_handler

(* Whatever the processes publish: a buffer holds its sender's object, and *)
(* an entry or a death registration stands for a process that a policy has *)
(* allowed its name.                                                       *)
THEOREM Ownership == Spec => []CoreInv
<1>1. Init => CoreInv
  BY RefInvInit, ListInvInit, OwnedInit DEF CoreInv
<1>2. CoreInv /\ [Next]_vars => CoreInv'
  BY RefInvNext, ListInvNext, OwnedNext DEF CoreInv
<1> QED BY <1>1, <1>2, PTL DEF Spec
-----------------------------------------------------------------------------
(* Nobody else's entry can be the one a notice is read for.  The handle of *)
(* the notice is held by somebody; its process has nothing queued, so by   *)
(* an entry.  If the registration's entry has another handle, that is a    *)
(* second process with this name, the first has two, and they are shared.  *)
LEMMA NoticeOfDead ==
  ASSUME CoreInv, NamesApart, NEW h \in Handles, h \in dead,
         txn[node[h]] = NoTxn, svc[death[h]].handle # 0
  PROVE  node[svc[death[h]].handle] \notin alive
<1> USE DEF CoreInv, Owned
<1> DEFINE p == node[h]
           n == death[h]
           g == svc[n].handle
<1>1. /\ p \in Procs /\ n \in Names /\ MayPublish(p, n) /\ p \notin alive
      /\ bufh[p] = 0 /\ h # 0
  <2>1. death[h] # NoName
    BY DEF RefInv, Notices
  <2>2. p \in Procs /\ n \in Names
    BY <2>1 DEF DeathOwner, RefInv, TypeOK, DriverTypeOK
  <2> QED BY <2>1, <2>2, DriverAssumption
          DEF DeathOwner, NoticeTrue, RefInv, NoIdleBuffer
<1>2. node[g] \in Procs /\ MayPublish(node[g], n)
  BY <1>1, InUse DEF EntryOwner
<1>3. CASE g = h
  BY <1>1, <1>3
<1>4. CASE g # h
  <2>1. PICK k \in Holders(h) : TRUE
    BY <1>1, DriverAssumption DEF RefInv, RefCountExact
  <2>2. k \in Names /\ svc[k].handle = h
    BY <1>1, <2>1 DEF Holders, BufferOwner
  <2>3. k # n /\ MayPublish(p, k)
    BY <1>1, <1>4, <2>2 DEF EntryOwner
  <2>4. node[g] = p
    BY <1>1, <1>2, <2>2, <2>3 DEF NamesApart
  <2> QED BY <1>1, <2>4
<1> QED BY <1>3, <1>4

LEMMA DiedNext ==
  ASSUME CoreInv, NamesApart, DiedServiceIsDead, [Next]_vars
  PROVE  DiedServiceIsDead'
<1> USE DEF CoreInv
<1>1. CASE pc' # "dead"
  BY <1>1 DEF DiedServiceIsDead
<1>2. ASSUME pc' = pc, obit' = obit, svc' = svc, alive' \subseteq alive,
             \A n \in Names : svc[n].handle # 0 =>
               node'[svc[n].handle] = node[svc[n].handle]
      PROVE  DiedServiceIsDead'
  BY <1>2, ServingFacts DEF DiedServiceIsDead
<1>3. ASSUME NEW p \in Procs, NEW r \in MayRequest[p], Send(p, r)
      PROVE  DiedServiceIsDead'
  <2>1. SendFacts(p, r)
    BY <1>3, SendLeaves
  <2>2. \A n \in Names : svc[n].handle # 0 =>
          node'[svc[n].handle] = node[svc[n].handle]
    BY <2>1, InUse, DriverAssumption DEF SendFacts
  <2> QED BY <1>2, <2>1, <2>2 DEF SendFacts
<1>4. ASSUME NEW p \in Procs, Die(p)
      PROVE  DiedServiceIsDead'
  BY <1>2, <1>4 DEF Die, Kill
<1>5. ASSUME NEW h \in Handles, ReadDead(h)
      PROVE  DiedServiceIsDead'
  BY <1>5, NoticeOfDead DEF ReadDead, DiedServiceIsDead
<1>6. CASE (\E pol \in Policies : UpdatePolicy(pol)) \/ UNCHANGED vars
  BY <1>2, <1>6 DEF UpdatePolicy, driverVars, vars
<1>7. CASE (\E p \in Procs : ReadTxn(p)) \/ Serve
  BY <1>1, <1>7 DEF ReadTxn, Serve, DeadBinder, svcmgr_handler, Ping, BadId,
     Unknown, Get, List, AddReject, AddOverride, AddRevive, AddFresh, AddTake,
     AddLink, SendReply, Answer, Handle
<1> QED BY <1>3, <1>4, <1>5, <1>6, <1>7 DEF Next

(* svcinfo_death called from binder_parse never takes a live service off   *)
(* the list.                                                               *)
THEOREM NoticesCorrect ==
  ASSUME NamesApart
  PROVE  Spec => []DiedServiceIsDead
<1>1. Init => DiedServiceIsDead
  BY DEF Init, DiedServiceIsDead
<1>2. CoreInv /\ DiedServiceIsDead /\ [Next]_vars => DiedServiceIsDead'
  BY DiedNext
<1> QED BY <1>1, <1>2, Ownership, PTL DEF Spec
-----------------------------------------------------------------------------
LEMMA NoticeInvInit == Init => NoticeInv
BY DriverAssumption
   DEF Init, DriverInit, NoticeInv, Linking, Linked, NoticeKept, NoticeRead

(* A step that moves on to a handler or to a reply and touches nothing the *)
(* invariant is about.                                                     *)
LEMMA NoticeInvFrame ==
  ASSUME NoticeInv, UNCHANGED <<svc, txn, bufh, driverVars>>,
         \/ UNCHANGED <<pc, cur, obit>>
         \/ pc \in {"read", "txn"} /\ pc' \in {"txn", "reply"}
  PROVE  NoticeInv'
BY DEF NoticeInv, Linking, Linked, NoticeKept, NoticeRead, driverVars

LEMMA NoticeInvSend ==
  ASSUME Inv, NEW p \in Procs, NEW r \in MayRequest[p], Send(p, r)
  PROVE  NoticeInv'
<1> USE DEF Inv, CoreInv, Owned, NoticeInv
<1>0. /\ TypeOK /\ bufh[p] = 0 /\ txn[p] = NoTxn /\ p \in alive
  BY DEF RefInv, NoIdleBuffer, Send
<1>1. SendFacts(p, r)
  BY SendLeaves
<1> USE DEF SendFacts
<1>2. pc \in {"txn", "add", "link", "reply"} => cur \in Procs /\ cur # p
  BY <1>0 DEF RefInv, Serving
<1>3. \A n \in Names : svc[n].handle # 0 =>
        node'[svc[n].handle] = node[svc[n].handle]
  BY <1>1, InUse, DriverAssumption
<1>4. Linking' /\ Linked'
  BY <1>0, <1>1, <1>2 DEF Linking, Linked, TypeOK
<1>5. NoticeKept'
  BY <1>0, <1>1 DEF NoticeKept, DeathOwner
<1>6. NoticeRead'
  <2> SUFFICES ASSUME pc = "dead" PROVE NoticeRead'
    BY <1>1 DEF NoticeRead
  <2> DEFINE h == svc[obit].handle
  <2>1. obit \in Names /\ h # 0 /\ node[h] \notin alive /\ txn[node[h]] = NoTxn
        /\ node[h] \in Procs
    BY InUse, ServingFacts DEF NoticeRead
  <2>2. node'[h] = node[h] /\ node[h] # p
    BY <1>0, <1>3, <2>1
  <2> QED BY <1>0, <1>1, <2>1, <2>2 DEF NoticeRead, TypeOK
<1> QED BY <1>4, <1>5, <1>6

LEMMA NoticeInvDie ==
  ASSUME NoticeInv, NEW p \in Procs, Die(p)
  PROVE  NoticeInv'
BY DEF NoticeInv, Linking, Linked, NoticeKept, NoticeRead, Die, Kill

(* The holder of a handle whose process has nothing queued is the entry    *)
(* that handle was registered for: by RefCountExact somebody holds it, no  *)
(* buffer does, and by OneName no entry of another name does.              *)
LEMMA RegisteredEntry ==
  ASSUME Inv, OneName, NEW h \in Handles, death[h] # NoName,
         txn[node[h]] = NoTxn
  PROVE  Holders(h) = {death[h]} /\ svc[death[h]].handle = h
<1> USE DEF Inv, CoreInv, Owned
<1>1. node[h] \in Procs /\ death[h] \in Names /\ MayPublish(node[h], death[h])
  BY DEF DeathOwner, RefInv, TypeOK, DriverTypeOK
<1>2. bufh[node[h]] = 0
  BY <1>1 DEF RefInv, NoIdleBuffer
<1>3. h # 0
  BY DriverAssumption
<1>4. ASSUME NEW k \in Holders(h)
      PROVE  k = death[h]
  <2>1. CASE k \in Procs /\ bufh[k] = h
    BY <2>1, <1>2, <1>3 DEF BufferOwner
  <2>2. CASE k \in Names /\ svc[k].handle = h
    BY <2>2, <1>1, <1>3 DEF EntryOwner, OneName
  <2> QED BY <2>1, <2>2 DEF Holders
<1>5. Holders(h) # {}
  BY <1>1, DriverAssumption DEF RefInv, RefCountExact
<1>6. Holders(h) = {death[h]}
  BY <1>4, <1>5
<1> QED BY <1>1, <1>6, DriverAssumption DEF Holders

LEMMA NoticeInvReadDead ==
  ASSUME Inv, OneName, NEW h \in Handles, ReadDead(h)
  PROVE  NoticeInv'
<1> USE DEF Inv, CoreInv, Owned, NoticeInv, ReadDead
<1>0. death[h] # NoName /\ svc[death[h]].handle = h /\ h # 0
      /\ node[h] \notin alive
  BY RegisteredEntry, DriverAssumption
     DEF RefInv, Notices, NoticeTrue
<1>1. (Linking /\ Linked)'
  BY DEF Linking, Linked
<1>2. NoticeKept'
  BY <1>0 DEF NoticeKept
<1>3. NoticeRead'
  BY <1>0 DEF NoticeRead
<1> QED BY <1>1, <1>2, <1>3

(* A release outside svcinfo_death for a notice keeps every other notice.  *)
LEMMA ReleaseNotices ==
  ASSUME Inv, NEW h \in Handles, Release(h), RefCountExact',
         pc # "dead", pc' # "dead"
  PROVE  NoticeKept'
<1> USE DEF Inv, CoreInv, NoticeInv
<1>1. alive' = alive
  BY DEF Release
<1>2. ASSUME NEW g \in Handles, death'[g] # NoName, node'[g] \notin alive'
      PROVE  g \in dead'
  <2>1. /\ death'[g] = death[g] /\ node'[g] = node[g]
        /\ g \in dead' <=> g \in dead
    BY <1>2, ReleaseLeaves
  <2> QED BY <1>1, <1>2, <2>1 DEF NoticeKept
<1> QED BY <1>2 DEF NoticeKept

LEMMA NoticeInvDeadBinder ==
  ASSUME Inv, OneName, DeadBinder
  PROVE  NoticeInv'
<1> USE DEF Inv, CoreInv, NoticeInv, DeadBinder
<1> DEFINE h == svc[obit].handle
<1>0. /\ obit \in Names /\ h \in Handles /\ h # 0 /\ Release(h)
      /\ death[h] = obit /\ death[h] # NoName /\ txn[node[h]] = NoTxn
  BY ServingFacts, InUse, DriverAssumption DEF NoticeRead
<1>1. Holders(h) = {obit}
  BY <1>0, RegisteredEntry
<1>2. strong[h] = 1
  BY <1>0, <1>1, FS_Singleton DEF RefInv, RefCountExact
<1>3. /\ death' = [death EXCEPT ![h] = NoName] /\ dead' = dead \ {h}
      /\ alive' = alive /\ \A g \in Handles : g # h => node'[g] = node[g]
  BY <1>0, <1>2 DEF Release, RefInv, TypeOK, DriverTypeOK
<1>4. /\ svc'[obit].handle = 0
      /\ \A n \in Names : n # obit => svc'[n] = svc[n] /\ svc[n].handle # h
  BY <1>0, <1>1 DEF Holders, RefInv, TypeOK, SvcInfo
<1>5. Linked'
  <2>1. ASSUME NEW n \in Names, svc'[n].handle # 0
        PROVE  /\ svc'[n].handle = svc[n].handle /\ svc[n].handle # 0
               /\ death'[svc[n].handle] = death[svc[n].handle]
    <3>1. svc'[n] = svc[n] /\ svc[n].handle # h
      BY <1>4, <2>1
    <3>2. svc[n].handle \in Handles
      BY <2>1, <3>1, InUse
    <3> QED BY <1>3, <2>1, <3>1, <3>2 DEF RefInv, TypeOK, DriverTypeOK
  <2> QED BY <2>1 DEF Linked
<1>6. NoticeKept'
  BY <1>0, <1>3 DEF NoticeKept, RefInv, TypeOK, DriverTypeOK
<1>7. Linking' /\ NoticeRead'
  BY DEF Linking, NoticeRead
<1> QED BY <1>5, <1>6, <1>7

LEMMA NoticeInvAddOverride ==
  ASSUME Inv, AddOverride
  PROVE  NoticeInv'
<1> USE DEF Inv, CoreInv, NoticeInv, AddOverride
<1> DEFINE n == txn[cur].name
           h == svc[n].handle
<1>0. /\ n \in Names /\ h \in Handles /\ h # 0 /\ Release(h)
      /\ pc = "txn" /\ pc' = "add"
  BY AddFacts, InUse DEF Handle
<1>1. RefCountExact'
  BY RefInvAddOverride DEF RefInv
<1>2. /\ svc'[n].handle = 0
      /\ \A m \in Names : m # n => svc'[m] = svc[m]
  BY <1>0 DEF RefInv, TypeOK, SvcInfo
<1>3. Linking' /\ NoticeRead'
  BY <1>0 DEF Linking, NoticeRead
<1>4. Linked'
  <2>1. ASSUME NEW m \in Names, svc'[m].handle # 0
        PROVE  /\ svc'[m].handle = svc[m].handle /\ svc[m].handle # 0
               /\ death'[svc[m].handle] = death[svc[m].handle]
    <3>1. svc'[m] = svc[m]
      BY <1>2, <2>1
    <3>2. svc[m].handle \in Handles
      BY <2>1, <3>1, InUse
    <3> QED BY <1>0, <1>1, <2>1, <3>1, <3>2, ReleaseLeaves
  <2> QED BY <1>0, <2>1 DEF Linked
<1>5. NoticeKept'
  BY <1>0, <1>1, ReleaseNotices
<1> QED BY <1>3, <1>4, <1>5

LEMMA NoticeInvAdd ==
  ASSUME Inv, AddTake \/ AddRevive \/ AddFresh
  PROVE  NoticeInv'
<1> USE DEF Inv, NoticeInv
<1>1. TypeOK /\ cur \in Procs /\ txn[cur].name \in Names
  BY TakeFacts DEF CoreInv, RefInv
<1>2. Linking' /\ Linked'
  BY TakeFacts DEF Linking, Linked
<1>3. NoticeKept' /\ NoticeRead'
  BY TakeFacts DEF NoticeKept, NoticeRead
<1> QED BY <1>2, <1>3

LEMMA NoticeInvAddLink ==
  ASSUME Inv, OneName, AddLink
  PROVE  NoticeInv'
<1> USE DEF Inv, CoreInv, Owned, NoticeInv, AddLink, Answer
<1> DEFINE n == txn[cur].name
           h == bufh[cur]
<1>0. /\ cur \in Procs /\ n \in Names /\ h \in Handles /\ h # 0
      /\ node[h] = cur /\ MayPublish(cur, n) /\ svc[n].handle = h
  BY ServingFacts DEF BufferOwner, Linking, Requests, RefInv, Serving
<1>1. /\ death'[h] = n /\ \A g \in Handles : g # h => death'[g] = death[g]
      /\ dead' = dead \cup
           (IF death[h] = NoName /\ node[h] \notin alive THEN {h} ELSE {})
      /\ UNCHANGED <<node, alive>>
  <2>1. CASE death[h] = NoName
    BY <1>0, <2>1 DEF LinkToDeath, RefInv, TypeOK, DriverTypeOK
  <2>2. CASE death[h] # NoName
    <3>1. death[h] \in Names /\ MayPublish(node[h], death[h])
      BY <1>0, <2>2 DEF DeathOwner, RefInv, TypeOK, DriverTypeOK
    <3>2. death[h] = n
      BY <1>0, <3>1 DEF OneName
    <3> QED BY <2>2, <3>2 DEF LinkToDeath
  <2> QED BY <2>1, <2>2
<1>2. Linking' /\ NoticeRead'
  BY DEF Linking, NoticeRead
<1>3. Linked'
  <2> SUFFICES ASSUME NEW m \in Names, svc[m].handle # 0
               PROVE  death'[svc[m].handle] = m
    BY DEF Linked
  <2>1. CASE svc[m].handle = h
    BY <1>0, <1>1, <2>1 DEF EntryOwner, OneName
  <2>2. CASE svc[m].handle # h
    <3>1. svc[m].handle \in Handles
      BY InUse
    <3>2. m # n
      BY <1>0, <2>2
    <3> QED BY <1>1, <2>2, <3>1, <3>2 DEF Linked
  <2> QED BY <2>1, <2>2
<1>4. NoticeKept'
  BY <1>0, <1>1 DEF NoticeKept
<1> QED BY <1>2, <1>3, <1>4

LEMMA NoticeInvSendReply ==
  ASSUME Inv, SendReply
  PROVE  NoticeInv'
<1> USE DEF Inv, CoreInv, NoticeInv, SendReply
<1>0. cur \in Procs /\ TypeOK
  BY ServingFacts DEF RefInv
<1>1. Linking' /\ NoticeRead'
  BY <1>0 DEF Linking, NoticeRead, TypeOK
<1>2. CASE bufh[cur] = 0
  BY <1>1, <1>2 DEF Linked, NoticeKept, driverVars
<1>3. CASE bufh[cur] # 0
  <2> DEFINE h == bufh[cur]
  <2>1. h \in Handles /\ Release(h) /\ RefCountExact'
    BY <1>0, <1>3, RefInvSendReply DEF RefInv, TypeOK
  <2>2. Linked'
    <3>1. ASSUME NEW m \in Names, svc[m].handle # 0
          PROVE  death'[svc[m].handle] = death[svc[m].handle]
      BY <2>1, <3>1, ReleaseLeaves, InUse
    <3> QED BY <3>1 DEF Linked
  <2>3. NoticeKept'
    BY <2>1, ReleaseNotices
  <2> QED BY <1>1, <2>2, <2>3
<1> QED BY <1>2, <1>3

LEMMA NoticeInvNext ==
  ASSUME Inv, OneName, [Next]_vars
  PROVE  NoticeInv'
<1> USE DEF Inv
<1>1. CASE UNCHANGED vars
  BY <1>1, NoticeInvFrame DEF vars
<1>2. ASSUME NEW p \in Procs, NEW r \in MayRequest[p], Send(p, r)
      PROVE  NoticeInv'
  BY <1>2, NoticeInvSend
<1>3. ASSUME NEW p \in Procs, Die(p)
      PROVE  NoticeInv'
  BY <1>3, NoticeInvDie
<1>4. ASSUME NEW p \in Procs, ReadTxn(p)
      PROVE  NoticeInv'
  BY <1>4, NoticeInvFrame DEF ReadTxn
<1>5. ASSUME NEW h \in Handles, ReadDead(h)
      PROVE  NoticeInv'
  BY <1>5, NoticeInvReadDead
<1>6. ASSUME NEW pol \in Policies, UpdatePolicy(pol)
      PROVE  NoticeInv'
  BY <1>6, NoticeInvFrame DEF UpdatePolicy
<1>7. CASE Ping \/ BadId \/ Unknown \/ Get \/ List \/ AddReject
  <2>1. /\ UNCHANGED <<svc, txn, bufh, driverVars>>
        /\ pc = "txn" /\ pc' = "reply"
    BY <1>7 DEF Ping, BadId, Unknown, Get, List, AddReject, Answer, Handle
  <2> QED BY <2>1, NoticeInvFrame
<1>8. CASE DeadBinder \/ AddOverride \/ AddTake \/ AddRevive \/ AddFresh
           \/ AddLink \/ SendReply
  BY <1>8, NoticeInvDeadBinder, NoticeInvAddOverride, NoticeInvAdd,
     NoticeInvAddLink, NoticeInvSendReply
<1> QED
  BY <1>1, <1>2, <1>3, <1>4, <1>5, <1>6, <1>7, <1>8
     DEF Next, Serve, svcmgr_handler

(* The whole invariant, for processes that keep to one name.               *)
THEOREM NoticeInvariant ==
  ASSUME OneName
  PROVE  Spec => []Inv
<1>1. Init => Inv
  BY RefInvInit, ListInvInit, OwnedInit, NoticeInvInit DEF Inv, CoreInv
<1>2. Inv /\ [Next]_vars => Inv'
  BY RefInvNext, ListInvNext, OwnedNext, NoticeInvNext DEF Inv, CoreInv
<1> QED BY <1>1, <1>2, PTL DEF Spec

(* No dead service is stranded: its notice is queued, in hand, or about to *)
(* be asked for.                                                           *)
THEOREM NoticesComplete ==
  ASSUME OneName
  PROVE  Spec => []NoticeComing
<1>1. Inv => NoticeComing
  <2> SUFFICES ASSUME Inv, NEW n \in Names, svc[n].handle # 0,
                      node[svc[n].handle] \notin alive,
                      ~(pc = "link" /\ txn[cur].name = n),
                      svc[n].handle \notin dead
               PROVE  pc = "dead" /\ obit = n
    BY DEF NoticeComing
  <2> DEFINE h == svc[n].handle
  <2>1. death[h] = n /\ h \in Handles /\ n # NoName
    BY InUse, DriverAssumption DEF Inv, CoreInv, NoticeInv, Linked
  <2>2. pc = "dead" /\ svc[obit].handle = h
    BY <2>1 DEF Inv, NoticeInv, NoticeKept
  <2>3. obit = n
    BY <2>1, <2>2 DEF Inv, NoticeInv, NoticeRead
  <2> QED BY <2>2, <2>3
<1> QED BY <1>1, NoticeInvariant, PTL

(* A registration whose entry has moved on is still pinned by a request of *)
(* its owner.                                                              *)
THEOREM RegistrationsOwned ==
  ASSUME OneName
  PROVE  Spec => []RegistrationOwned
<1>1. Inv => RegistrationOwned
  <2> SUFFICES ASSUME Inv, NEW h \in Handles, death[h] # NoName
               PROVE  \/ svc[death[h]].handle = h
                      \/ bufh[node[h]] = h
    BY DEF RegistrationOwned
  <2>1. node[h] \in Procs /\ death[h] \in Names /\ MayPublish(node[h], death[h])
    BY DEF Inv, CoreInv, Owned, DeathOwner, RefInv, TypeOK, DriverTypeOK
  <2>2. PICK k \in Holders(h) : TRUE
    BY <2>1, DriverAssumption DEF Inv, CoreInv, RefInv, RefCountExact
  <2>3. CASE k \in Procs /\ bufh[k] = h
    BY <2>3, DriverAssumption DEF Inv, CoreInv, Owned, BufferOwner
  <2>4. CASE k \in Names /\ svc[k].handle = h
    BY <2>1, <2>4, DriverAssumption, OneName
       DEF Inv, CoreInv, Owned, EntryOwner, OneName
  <2> QED BY <2>2, <2>3, <2>4 DEF Holders
<1> QED BY <1>1, NoticeInvariant, PTL
=============================================================================
