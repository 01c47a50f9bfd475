---------------------- MODULE ServiceManagerRefinement ----------------------
(***************************************************************************)
(* ServiceManager.tla implements Registry.tla, for every value of the      *)
(* constants with NamesApart: every step is a step of the registry or      *)
(* leaves it unchanged.                                                    *)
(* A registration is the release of the old handle (AddOverride) or, when  *)
(* there is none, the step that fills the entry.                           *)
(***************************************************************************)
EXTENDS ServiceManagerNotices

(* A handle in a reply is one of an entry in use.                          *)
Outgoing ==
  out.handle # 0 => pc = "reply" /\ \E n \in Names : svc[n].handle = out.handle

LEMMA OutgoingInit == Init => Outgoing
BY DEF Init, Outgoing, NoReply

(* Only Get puts a handle into a reply, and no entry changes until the     *)
(* reply is sent.                                                          *)
LEMMA OutgoingNext ==
  ASSUME CoreInv, Outgoing, [Next]_vars
  PROVE  Outgoing'
<1>1. CASE UNCHANGED <<svc, pc, out>>
  BY <1>1 DEF Outgoing
<1>2. CASE out'.handle = 0
  BY <1>2 DEF Outgoing
<1>3. CASE out' = out /\ pc # "reply"
  BY <1>3 DEF Outgoing
<1>4. CASE Get
  <2>1. CASE txn[cur].name = NoName
    BY <1>4, <2>1 DEF Get, Answer, Refused, NoReply, Outgoing
  <2>2. CASE txn[cur].name # NoName
    <3>1. out'.handle = do_find_service(cur, txn[cur].name)
          /\ pc' = "reply" /\ svc' = svc
      BY <1>4, <2>2 DEF Get, Answer, NoReply
    <3> QED BY <3>1 DEF do_find_service, Outgoing
  <2> QED BY <2>1, <2>2
<1>5. CASE Ping \/ BadId \/ Unknown \/ List \/ AddReject \/ AddLink \/ SendReply
  BY <1>2, <1>5 DEF Ping, BadId, Unknown, List, AddReject, AddLink, SendReply,
                    Answer, Refused, NoReply
<1>6. CASE DeadBinder \/ AddOverride \/ AddTake \/ AddRevive \/ AddFresh
  BY <1>3, <1>6 DEF DeadBinder, AddOverride, AddTake, AddRevive, AddFresh,
                    Handle
<1>7. ASSUME NEW p \in Procs, Die(p) \/ ReadTxn(p)
      PROVE  Outgoing'
  BY <1>1, <1>3, <1>7 DEF Die, ReadTxn
<1>8. ASSUME NEW p \in Procs, NEW r \in MayRequest[p], Send(p, r)
      PROVE  Outgoing'
  BY <1>1, <1>8 DEF Send
<1>9. ASSUME NEW h \in Handles, ReadDead(h)
       PROVE  Outgoing'
  BY <1>3, <1>9 DEF ReadDead
<1>10. ASSUME NEW pol \in Policies, UpdatePolicy(pol)
       PROVE  Outgoing'
  BY <1>1, <1>10 DEF UpdatePolicy
<1>11. CASE UNCHANGED vars
  BY <1>1, <1>11 DEF vars
<1> QED
  BY <1>4, <1>5, <1>6, <1>7, <1>8, <1>9, <1>10, <1>11
     DEF Next, Serve, svcmgr_handler
-----------------------------------------------------------------------------
LEMMA RefinesInit == Init => R!Init
BY DEF Init, DriverInit, R!Init, reg, given, NodeOf, NoReply

(* Steps that leave every entry, and the object behind every handle in     *)
(* use, as they are.                                                       *)
LEMMA SameRegistry ==
  ASSUME CoreInv, Outgoing, svc' = svc,
         \A n \in Names : svc[n].handle # 0 =>
           node'[svc[n].handle] = node[svc[n].handle],
         \/ pc # "add" /\ pc' # "add"
         \/ pc = "add" /\ UNCHANGED <<pc, cur>> /\ txn'[cur] = txn[cur]
  PROVE  reg' = reg /\ (out' = out => given' = given)
BY DEF reg, given, NodeOf, Outgoing

(* Before a reply is composed nothing is given.                            *)
LEMMA NothingGiven ==
  ASSUME Outgoing
  PROVE  /\ pc # "reply" => given = NoProc
         /\ out.handle = 0 => given = NoProc
         /\ out'.handle = 0 => given' = NoProc
BY DEF Outgoing, given, NodeOf

LEMMA RefinesSend ==
  ASSUME CoreInv, Outgoing, NEW p \in Procs, NEW r \in MayRequest[p], Send(p, r)
  PROVE  UNCHANGED R!vars
<1>1. \A g \in Handles : node'[g] = node[g] \/ node[g] = NoProc
  BY DEF Send, TakeRef, HandlesFor, CoreInv, RefInv, TypeOK, DriverTypeOK,
         driverVars
<1>2. \A n \in Names : svc[n].handle # 0 =>
        node'[svc[n].handle] = node[svc[n].handle]
  BY <1>1, InUse, DriverAssumption DEF CoreInv
<1>3. pc = "add" => txn'[cur] = txn[cur]
  BY DEF Send, CoreInv, RefInv, Serving, TypeOK
<1>4. UNCHANGED <<svc, pc, cur, out, alive>>
  BY DEF Send, TakeRef, driverVars
<1>5. reg' = reg /\ given' = given
  BY <1>2, <1>3, <1>4, SameRegistry
<1> QED BY <1>4, <1>5 DEF R!vars

LEMMA RefinesDie ==
  ASSUME CoreInv, Outgoing, NEW p \in Procs, Die(p)
  PROVE  R!Die(p)
<1>1. reg' = reg /\ given' = given
  BY SameRegistry DEF Die, Kill
<1> QED BY <1>1 DEF R!Die, Die, Kill

LEMMA RefinesRead ==
  ASSUME CoreInv, Outgoing,
         \/ \E p \in Procs : ReadTxn(p)
         \/ \E h \in Handles : ReadDead(h)
         \/ \E pol \in Policies : UpdatePolicy(pol)
  PROVE  UNCHANGED R!vars
<1>1. UNCHANGED <<svc, out, node, alive>>
  BY DEF ReadTxn, ReadDead, UpdatePolicy, driverVars
<1>2. \/ pc # "add" /\ pc' # "add"
      \/ pc = "add" /\ UNCHANGED <<pc, cur>> /\ txn'[cur] = txn[cur]
  BY DEF ReadTxn, ReadDead, UpdatePolicy
<1> QED BY <1>1, <1>2, SameRegistry DEF R!vars

LEMMA RefinesReplying ==
  ASSUME CoreInv, Outgoing,
         Ping \/ BadId \/ Unknown \/ Get \/ List \/ AddReject \/ AddLink
  PROVE  [R!Next]_R!vars
<1>1. /\ UNCHANGED <<svc, node, alive>>
      /\ pc \in {"txn", "link"} /\ pc' = "reply"
  BY DEF Ping, BadId, Unknown, Get, List, AddReject, AddLink, Answer, Handle,
         LinkToDeath, driverVars
<1>2. reg' = reg
  BY <1>1, SameRegistry
<1>3. given = NoProc
  BY <1>1, NothingGiven
<1>4. CASE out'.handle = 0
  BY <1>1, <1>2, <1>3, <1>4, NothingGiven DEF R!vars
<1>5. CASE out'.handle # 0
  <2>1. Get
    BY <1>5 DEF Ping, BadId, Unknown, List, AddReject, AddLink, Answer,
                Refused, NoReply
  <2> DEFINE n == txn[cur].name
  <2>2. n \in Names /\ out'.handle = svc[n].handle
    <3>1. n # NoName
      BY <1>5, <2>1 DEF Get, Answer, Refused, NoReply
    <3>2. out'.handle = do_find_service(cur, n)
      BY <2>1, <3>1 DEF Get, Answer, NoReply
    <3> QED BY <1>5, <3>2 DEF do_find_service
  <2>3. given' = reg[n]
    BY <1>1, <1>5, <2>2 DEF reg, given, NodeOf
  <2>4. R!Lookup(n)
    BY <1>1, <1>2, <2>3 DEF R!Lookup
  <2> QED BY <2>2, <2>4 DEF R!Next
<1> QED BY <1>4, <1>5

(* svcinfo_death for a notice forgets a process that is dead.              *)
LEMMA RefinesDeadBinder ==
  ASSUME CoreInv, DiedServiceIsDead, Outgoing, DeadBinder,
         svc[obit].handle # 0
  PROVE  R!Forget(obit)
<1> USE DEF CoreInv, Owned
<1> DEFINE h == svc[obit].handle
<1>0. /\ obit \in Names /\ h \in Handles /\ h # 0 /\ Release(h)
      /\ node[h] \in Procs /\ node[h] \notin alive
  BY ServingFacts, InUse DEF DeadBinder, DiedServiceIsDead
<1>1. RefCountExact'
  BY RefInvDeadBinder DEF RefInv
<1>2. /\ svc'[obit].handle = 0
      /\ \A m \in Names : m # obit => svc'[m] = svc[m]
  BY <1>0 DEF DeadBinder, RefInv, TypeOK, SvcInfo
<1>3. ASSUME NEW m \in Names, m # obit
      PROVE  NodeOf(svc[m].handle)' = NodeOf(svc[m].handle)
  <2>1. CASE svc[m].handle = 0
    BY <1>2, <1>3, <2>1 DEF NodeOf
  <2>2. CASE svc[m].handle # 0
    <3>1. svc[m].handle \in Handles
      BY <2>2, InUse
    <3>2. node'[svc[m].handle] = node[svc[m].handle]
      BY <1>0, <1>1, <1>2, <1>3, <3>1, ReleaseLeaves
    <3> QED BY <1>2, <1>3, <2>2, <3>2 DEF NodeOf
  <2> QED BY <2>1, <2>2
<1>4. pc # "add" /\ pc' # "add"
  BY DEF DeadBinder
<1>5. reg[obit] \in Procs /\ reg[obit] \notin alive
  BY <1>0, <1>4 DEF reg, NodeOf
<1>6. reg' = [reg EXCEPT ![obit] = NoProc]
  BY <1>0, <1>2, <1>3, <1>4 DEF reg, NodeOf
<1>7. given' = given
  BY <1>4, NothingGiven DEF DeadBinder, Outgoing, given, NodeOf
<1>8. alive' = alive
  BY <1>0 DEF Release
<1> QED BY <1>5, <1>6, <1>7, <1>8, DriverAssumption DEF R!Forget

LEMMA RefinesAddOverride ==
  ASSUME CoreInv, Outgoing, AddOverride
  PROVE  R!Register(txn[cur].name, cur)
<1> USE DEF CoreInv, Owned
<1> DEFINE n == txn[cur].name
           h == svc[n].handle
<1>0. n \in Names /\ h \in Handles /\ h # 0 /\ Release(h)
      /\ pc = "txn" /\ pc' = "add"
  BY AddFacts, InUse DEF AddOverride, Handle
<1>1. RefCountExact'
  BY RefInvAddOverride DEF RefInv
<1>2. \A m \in Names : m # n => svc'[m] = svc[m]
  BY <1>0 DEF AddOverride, RefInv, TypeOK
<1>3. ASSUME NEW m \in Names, m # n
      PROVE  NodeOf(svc[m].handle)' = NodeOf(svc[m].handle)
  <2>1. CASE svc[m].handle = 0
    BY <1>2, <1>3, <2>1 DEF NodeOf
  <2>2. CASE svc[m].handle # 0
    <3>1. svc[m].handle \in Handles
      BY <2>2, InUse
    <3>2. node'[svc[m].handle] = node[svc[m].handle]
      BY <1>0, <1>1, <1>2, <1>3, <3>1, ReleaseLeaves
    <3> QED BY <1>2, <1>3, <2>2, <3>2 DEF NodeOf
  <2> QED BY <2>1, <2>2
<1>4. txn' = txn /\ cur' = cur /\ out' = out
  BY DEF AddOverride
<1>5. reg' = [reg EXCEPT ![n] = cur]
  BY <1>0, <1>3, <1>4 DEF reg
<1>6. given' = given
  BY <1>0, <1>4, NothingGiven DEF Outgoing, given, NodeOf
<1>7. alive' = alive
  BY <1>0 DEF Release
<1> QED BY <1>5, <1>6, <1>7 DEF R!Register

(* The entry that takes the handle in the buffer stands for its sender.    *)
LEMMA RefinesTake ==
  ASSUME CoreInv, Outgoing, AddTake \/ AddRevive \/ AddFresh
  PROVE  \/ UNCHANGED R!vars
         \/ R!Register(txn[cur].name, cur) /\ txn[cur].name \in Names
            /\ cur \in Procs
<1> USE DEF CoreInv, Owned
<1> DEFINE n == txn[cur].name
<1>0. cur \in Procs /\ n \in Names /\ bufh[cur] # 0 /\ node[bufh[cur]] = cur
  BY ServingFacts, AddFacts, DriverAssumption
     DEF AddTake, AddRevive, AddFresh, BufferOwner
<1>1. /\ UNCHANGED <<txn, bufh, cur, out, node, alive>> /\ pc' = "link"
      /\ pc = "add" \/ pc = "txn"
  BY DEF AddTake, AddRevive, AddFresh, Acquire, Handle
<1>2. svc'[n].handle = bufh[cur] /\ \A m \in Names : m # n => svc'[m] = svc[m]
  BY <1>0 DEF AddTake, AddRevive, AddFresh, RefInv, TypeOK, SvcInfo
<1>3. given' = given
  BY <1>1, NothingGiven DEF Outgoing, given, NodeOf
<1>4. reg'[n] = cur
  BY <1>0, <1>1, <1>2 DEF reg, NodeOf
<1>5. \A m \in Names : m # n => reg'[m] = reg[m]
  BY <1>1, <1>2 DEF reg, NodeOf
<1>6. reg' = [reg EXCEPT ![n] = cur]
  BY <1>0, <1>4, <1>5 DEF reg
<1> QED BY <1>0, <1>1, <1>3, <1>6 DEF R!Register

LEMMA RefinesSendReply ==
  ASSUME CoreInv, Outgoing, SendReply
  PROVE  R!Answered
<1> USE DEF CoreInv, Owned
<1>0. cur \in Procs
  BY ServingFacts DEF SendReply
<1>1. \A n \in Names : svc[n].handle # 0 =>
        node'[svc[n].handle] = node[svc[n].handle]
  <2>1. CASE bufh[cur] = 0
    BY <2>1 DEF SendReply, driverVars
  <2>2. CASE bufh[cur] # 0
    <3>1. bufh[cur] \in Handles /\ Release(bufh[cur]) /\ RefCountExact'
      BY <1>0, <2>2, RefInvSendReply DEF SendReply, RefInv, TypeOK
    <3>2. svc' = svc
      BY DEF SendReply
    <3> QED BY <3>1, <3>2, ReleaseLeaves, InUse
  <2> QED BY <2>1, <2>2
<1>2. reg' = reg
  BY <1>1, SameRegistry DEF SendReply
<1>3. given' = NoProc
  BY NothingGiven DEF SendReply, NoReply
<1>4. alive' = alive
  BY DEF SendReply, Release, driverVars
<1> QED BY <1>2, <1>3, <1>4 DEF R!Answered
-----------------------------------------------------------------------------
LEMMA RefinesNext ==
  ASSUME CoreInv, DiedServiceIsDead, Outgoing, [Next]_vars
  PROVE  [R!Next]_R!vars
<1>1. CASE UNCHANGED vars
  BY <1>1, SameRegistry DEF vars, driverVars, R!vars, reg, given, NodeOf
<1>2. ASSUME NEW p \in Procs, NEW r \in MayRequest[p], Send(p, r)
      PROVE  [R!Next]_R!vars
  BY <1>2, RefinesSend
<1>3. ASSUME NEW p \in Procs, Die(p)
      PROVE  [R!Next]_R!vars
  BY <1>3, RefinesDie DEF R!Next
<1>4. CASE \/ \E p \in Procs : ReadTxn(p)
           \/ \E h \in Handles : ReadDead(h)
           \/ \E pol \in Policies : UpdatePolicy(pol)
  BY <1>4, RefinesRead
<1>5. CASE Ping \/ BadId \/ Unknown \/ Get \/ List \/ AddReject \/ AddLink
  BY <1>5, RefinesReplying
<1>6. CASE DeadBinder
  <2>1. obit \in Names
    BY <1>6, ServingFacts DEF DeadBinder, CoreInv
  <2>2. CASE svc[obit].handle = 0
    <3>1. UNCHANGED <<svc, out, node, alive>> /\ pc # "add" /\ pc' # "add"
      BY <1>6, <2>2 DEF DeadBinder, driverVars
    <3> QED BY <3>1, SameRegistry DEF R!vars
  <2>3. CASE svc[obit].handle # 0
    BY <1>6, <2>1, <2>3, RefinesDeadBinder DEF R!Next
  <2> QED BY <2>2, <2>3
<1>7. CASE AddOverride
  <2>1. cur \in Procs /\ txn[cur].name \in Names
    BY <1>7, AddFacts DEF AddOverride, CoreInv
  <2> QED BY <1>7, <2>1, RefinesAddOverride DEF R!Next
<1>8. CASE AddTake \/ AddRevive \/ AddFresh
  BY <1>8, RefinesTake DEF R!Next
<1>9. CASE SendReply
  BY <1>9, RefinesSendReply DEF R!Next
<1> QED
  BY <1>1, <1>2, <1>3, <1>4, <1>5, <1>6, <1>7, <1>8, <1>9
     DEF Next, Serve, svcmgr_handler

(* The service manager keeps the registry's promise: a name stands for the *)
(* process that registered it last until that process is dead and          *)
(* forgotten, and a lookup hands out that process or nothing.              *)
THEOREM Refinement ==
  ASSUME NamesApart
  PROVE  Spec => ImplementsRegistry
<1>1. Init => Outgoing /\ R!Init
  BY OutgoingInit, RefinesInit
<1>2. CoreInv /\ Outgoing /\ [Next]_vars => Outgoing'
  BY OutgoingNext
<1>3. CoreInv /\ DiedServiceIsDead /\ Outgoing /\ [Next]_vars => [R!Next]_R!vars
  BY RefinesNext
<1> QED BY <1>1, <1>2, <1>3, Ownership, NoticesCorrect, PTL DEF Spec, ImplementsRegistry
=============================================================================
