--------------------------- MODULE ServiceManager ---------------------------
(***************************************************************************)
(* The service manager of Demos/BinderCDemo (service_manager.c over        *)
(* binder4Server.c), with the processes that call it and the driver's      *)
(* table of handles between them (BinderDriver.tla).                       *)
(*                                                                         *)
(* One step is the code between two ioctls: a process may die, send a      *)
(* request or change the policy wherever the service manager enters the    *)
(* kernel, so do_add_service is up to three steps (BC_RELEASE of the       *)
(* overridden handle, BC_ACQUIRE, BC_REQUEST_DEATH_NOTIFICATION) and       *)
(* binder_send_reply another.                                              *)
(*                                                                         *)
(* The callers are single-threaded and wait for their answer, so each has  *)
(* at most one transaction.  The queue of the service manager's process is *)
(* kept as a set, which allows more orders than the driver's FIFO; of the  *)
(* FIFO only what the code needs is kept: a process's transaction was      *)
(* queued before the notice of its death and is read first.                *)
(***************************************************************************)
EXTENDS BinderDriver, Sequences, SequencesExt

CONSTANTS
  MayRequest,     \* [Procs -> sets of requests] a process may send
  Uid,            \* [Procs -> Uids]
  BadName,        \* a string that is empty or longer than 127
  FitReply,       \* names short enough for the 256 bytes of a reply
  Str8,           \* [Names -> Labels] the 8-bit, truncated name looked up
  Labels,         \* in service_contexts
  DumpFlags,      \* bits of a dumpsys priority
  Policies,       \* versions of service_contexts
  InitialPolicy,
  Granted,        \* <<policy, perm, process, label>> that policy allows
  MayList,        \* processes the kernel policy allows to list
  ReloadMayFail,  \* whether opening the new service_contexts may fail
  MallocMayFail,
  NoTxn

Uids == {"system", "app", "isolated"}

Codes == {"PING", "BAD_ID", "ADD", "GET", "LIST", "UNKNOWN"}

(* The arguments a handler reads from the buffer.  NoName stands for a     *)
(* string that is missing, so that bio_get_string16 returns NULL; ref says *)
(* whether the buffer holds a binder object; n is the index of LIST.       *)
Request ==
  [code : Codes, name : Names \cup {NoName, BadName}, ref : BOOLEAN,
   allow_isolated : BOOLEAN, dumpsys_priority : SUBSET DumpFlags, n : Nat]

ASSUME ManagerAssumption ==
  /\ MayRequest \in [Procs -> SUBSET Request]
  /\ Uid \in [Procs -> Uids]
  /\ BadName \notin Names \cup {NoName} /\ FitReply \subseteq Names
  /\ Str8 \in [Names -> Labels]
  /\ InitialPolicy \in Policies
  /\ ReloadMayFail \in BOOLEAN /\ MallocMayFail \in BOOLEAN
  /\ NoTxn \notin Request
  /\ MayList \subseteq Procs

VARIABLES
  svclist,           \* names of the entries, the newest first
  svc,               \* the entry of each name; handle 0 is a dead entry
  txn,               \* the request of a process that is not answered yet
  bufh,              \* the handle its buffer holds a reference on, 0 if none
  pc,                \* where the service manager is
  cur,               \* the process it serves
  obit,              \* the entry a death notice was read for
  out,               \* the reply under construction
  sehandle,          \* the policy the service manager has open
  service_contexts,  \* the policy on disk
  status_updated     \* what selinux_status_updated will say

seVars == <<sehandle, service_contexts, status_updated>>
vars == <<svclist, svc, txn, bufh, pc, cur, obit, out, seVars, driverVars>>

SvcInfo ==
  [handle : Handles \cup {0}, allow_isolated : BOOLEAN,
   dumpsys_priority : SUBSET DumpFlags]

PCs == {"read", "dead", "txn", "add", "link", "reply"}

Reply ==
  [status : {0, -1}, handle : Handles \cup {0}, name : Names \cup {NoName}]

NoReply == [status |-> 0, handle |-> 0, name |-> NoName]
Refused == [NoReply EXCEPT !.status = -1]

TypeOK ==
  /\ DriverTypeOK
  /\ svclist \in Seq(Names)
  /\ svc \in [Names -> SvcInfo]
  /\ txn \in [Procs -> Request \cup {NoTxn}]
  /\ bufh \in [Procs -> Handles \cup {0}]
  /\ pc \in PCs
  /\ cur \in Procs \cup {NoProc}
  /\ obit \in Names \cup {NoName}
  /\ out \in Reply
  /\ sehandle \in Policies /\ service_contexts \in Policies
  /\ status_updated \in BOOLEAN

Init ==
  /\ DriverInit
  /\ svclist = <<>>
  /\ svc = [n \in Names |-> [handle |-> 0, allow_isolated |-> FALSE,
                             dumpsys_priority |-> {}]]
  /\ txn = [p \in Procs |-> NoTxn]
  /\ bufh = [p \in Procs |-> 0]
  /\ pc = "read" /\ cur = NoProc /\ obit = NoName /\ out = NoReply
  /\ sehandle = InitialPolicy /\ service_contexts = InitialPolicy
  /\ status_updated = FALSE
-----------------------------------------------------------------------------
(* The callers and the world around the service manager.                   *)

(* binder_call of a client or server: the driver copies the request into a *)
(* buffer of the service manager and translates the binder object in it.   *)
Send(p, r) ==
  /\ p \in alive /\ txn[p] = NoTxn
  /\ txn' = [txn EXCEPT ![p] = r]
  /\ IF r.ref
     THEN \E h \in Handles : TakeRef(p, h) /\ bufh' = [bufh EXCEPT ![p] = h]
     ELSE UNCHANGED <<bufh, driverVars>>
  /\ UNCHANGED <<svclist, svc, pc, cur, obit, out, seVars>>

(* A process ends; a transaction it sent stays queued and is answered into *)
(* the void.                                                               *)
Die(p) ==
  /\ Kill(p)
  /\ UNCHANGED <<svclist, svc, txn, bufh, pc, cur, obit, out, seVars>>

(* A new service_contexts is installed and the kernel's status page moves. *)
UpdatePolicy(pol) ==
  /\ pol # service_contexts
  /\ service_contexts' = pol /\ status_updated' = TRUE
  /\ UNCHANGED <<svclist, svc, txn, bufh, pc, cur, obit, out, sehandle,
                 driverVars>>
-----------------------------------------------------------------------------
(* binder_loop and binder_parse: one read returns one work item.           *)

ReadTxn(p) ==
  /\ pc = "read" /\ txn[p] # NoTxn
  /\ pc' = "txn" /\ cur' = p
  /\ UNCHANGED <<svclist, svc, txn, bufh, obit, out, seVars, driverVars>>

(* BR_DEAD_BINDER carries the cookie the handle was linked with, that is   *)
(* the entry, not the handle.                                              *)
ReadDead(h) ==
  /\ pc = "read" /\ h \in dead
  /\ txn[node[h]] = NoTxn
  /\ pc' = "dead" /\ obit' = death[h]
  /\ dead' = dead \ {h}
  /\ UNCHANGED <<svclist, svc, txn, bufh, cur, out, seVars,
                 node, strong, death, alive>>

(* A mutant: the entry is cleared but its handle not released.             *)
DeadBinderLeaks ==
  /\ pc = "dead" /\ pc' = "read" /\ obit' = NoName
  /\ svc' = [svc EXCEPT ![obit].handle = 0]
  /\ UNCHANGED <<svclist, txn, bufh, cur, out, seVars, driverVars>>

(* A mutant: the entry of a dead service is unlinked.                      *)
DeadBinderUnlinks ==
  /\ pc = "dead" /\ pc' = "read" /\ obit' = NoName
  /\ svclist' = SelectSeq(svclist, LAMBDA n : n # obit)
  /\ IF svc[obit].handle # 0
     THEN /\ Release(svc[obit].handle)
          /\ svc' = [svc EXCEPT ![obit].handle = 0]
     ELSE UNCHANGED <<svc, driverVars>>
  /\ UNCHANGED <<txn, bufh, cur, out, seVars>>

(* svcinfo_death called by binder_parse.                                   *)
DeadBinder ==
  /\ pc = "dead" /\ pc' = "read" /\ obit' = NoName
  /\ IF svc[obit].handle # 0
     THEN /\ Release(svc[obit].handle)
          /\ svc' = [svc EXCEPT ![obit].handle = 0]
     ELSE UNCHANGED <<svc, driverVars>>
  /\ UNCHANGED <<svclist, txn, bufh, cur, out, seVars>>
-----------------------------------------------------------------------------
(* svcmgr_handler.                                                         *)

Answer(reply) == pc' = "reply" /\ out' = reply

(* PING and a wrong interface token are answered before anything is done.  *)
Ping ==
  /\ pc = "txn" /\ txn[cur].code = "PING" /\ Answer(NoReply)
  /\ UNCHANGED <<svclist, svc, txn, bufh, cur, obit, seVars, driverVars>>

(* A mutant: a request that is refused early is not answered.              *)
BadIdUnanswered ==
  /\ pc = "txn" /\ txn[cur].code = "BAD_ID" /\ pc' = "read"
  /\ UNCHANGED <<svclist, svc, txn, bufh, cur, obit, out, seVars, driverVars>>

BadId ==
  /\ pc = "txn" /\ txn[cur].code = "BAD_ID" /\ Answer(Refused)
  /\ UNCHANGED <<svclist, svc, txn, bufh, cur, obit, seVars, driverVars>>

(* A mutant: the status is consumed and the old handle kept.               *)
NeverReload ==
  /\ sehandle' = sehandle /\ status_updated' = FALSE
  /\ UNCHANGED service_contexts

(* After the token the policy is reopened if it has changed; asking clears *)
(* the status, also when the new file cannot be opened.                    *)
Reload ==
  /\ sehandle' \in IF status_updated
                   THEN {service_contexts}
                        \cup (IF ReloadMayFail THEN {sehandle} ELSE {})
                   ELSE {sehandle}
  /\ status_updated' = FALSE
  /\ UNCHANGED service_contexts

(* The handler has read the token of a request with this code.             *)
Handle(code) == pc = "txn" /\ txn[cur].code = code /\ Reload

Unknown ==
  /\ Handle("UNKNOWN") /\ Answer(Refused)
  /\ UNCHANGED <<svclist, svc, txn, bufh, cur, obit, driverVars>>

Permitted(perm, p, name) == <<sehandle', perm, p, Str8[name]>> \in Granted

svc_can_register(p, name) == Uid[p] = "system" /\ Permitted("add", p, name)

(* do_find_service: a name no entry can have, no entry, a dead one, an     *)
(* isolated caller that the entry does not admit, or no permission all     *)
(* give handle 0.                                                          *)
do_find_service(p, name) ==
  IF /\ name \in Names /\ svc[name].handle # 0
     /\ svc[name].allow_isolated \/ Uid[p] # "isolated"
     /\ Permitted("find", p, name)
  THEN svc[name].handle
  ELSE 0

(* SVC_MGR_GET_SERVICE and SVC_MGR_CHECK_SERVICE: only a missing name is   *)
(* refused; the reply to any other has a handle, which may be 0.           *)
Get ==
  /\ Handle("GET")
  /\ LET name == txn[cur].name
     IN  Answer(IF name = NoName THEN Refused
                ELSE [NoReply EXCEPT !.handle = do_find_service(cur, name)])
  /\ UNCHANGED <<svclist, svc, txn, bufh, cur, obit, driverVars>>

(* The positions of the entries LIST counts, and the one it stops at.      *)
Listed(flags) ==
  {i \in 1..Len(svclist) : svc[svclist[i]].dumpsys_priority \cap flags # {}}

ListedAt(flags, n) ==
  {i \in Listed(flags) : Cardinality({j \in Listed(flags) : j < i}) = n}

(* What the caller reads of a name put into the reply.  Where the          *)
(* characters do not fit only the length gets there, nobody looks at the   *)
(* overflow, and the reply goes out with status 0 and no string to read.   *)
Received(name) == IF name \in FitReply THEN name ELSE NoName

(* A mutant: nothing is sent at the end of the list.                       *)
ListEndsSilently ==
  /\ Handle("LIST")
  /\ LET found == ListedAt(txn[cur].dumpsys_priority, txn[cur].n)
     IN  IF cur \in MayList /\ found # {}
         THEN \E i \in found :
                Answer([NoReply EXCEPT !.name = Received(svclist[i])])
         ELSE pc' = "read" /\ UNCHANGED out
  /\ UNCHANGED <<svclist, svc, txn, bufh, cur, obit, driverVars>>

(* SVC_MGR_LIST_SERVICES.                                                  *)
List ==
  /\ Handle("LIST")
  /\ LET found == ListedAt(txn[cur].dumpsys_priority, txn[cur].n)
     IN  IF cur \in MayList /\ found # {}
         THEN \E i \in found :
                Answer([NoReply EXCEPT !.name = Received(svclist[i])])
         ELSE Answer(Refused)
  /\ UNCHANGED <<svclist, svc, txn, bufh, cur, obit, driverVars>>
-----------------------------------------------------------------------------
(* do_add_service, SVC_MGR_ADD_SERVICE.                                    *)

Registered == ToSet(svclist)

AddAllowed ==
  /\ txn[cur].name \in Names /\ bufh[cur] # 0
  /\ svc_can_register(cur, txn[cur].name)

(* Bad arguments, no permission, or no memory for a new entry.             *)
AddReject ==
  /\ Handle("ADD") /\ Answer(Refused)
  /\ AddAllowed => MallocMayFail /\ txn[cur].name \notin Registered
  /\ UNCHANGED <<svclist, svc, txn, bufh, cur, obit, driverVars>>

(* A mutant: the overridden handle is not released.                        *)
AddOverrideLeaks ==
  /\ Handle("ADD") /\ AddAllowed
  /\ svc[txn[cur].name].handle # 0
  /\ svc' = [svc EXCEPT ![txn[cur].name].handle = 0]
  /\ pc' = "add"
  /\ UNCHANGED <<svclist, txn, bufh, cur, obit, out, driverVars>>

(* The name is taken: svcinfo_death releases the old handle.               *)
AddOverride ==
  /\ Handle("ADD") /\ AddAllowed
  /\ LET old == svc[txn[cur].name].handle
     IN  old # 0 /\ Release(old)
  /\ svc' = [svc EXCEPT ![txn[cur].name].handle = 0]
  /\ pc' = "add"
  /\ UNCHANGED <<svclist, txn, bufh, cur, obit, out>>

(* A mutant: the new handle is not acquired.                               *)
AddTakeNoAcquire ==
  /\ pc = "add" /\ pc' = "link"
  /\ svc' = [svc EXCEPT ![txn[cur].name].handle = bufh[cur]]
  /\ UNCHANGED <<svclist, txn, bufh, cur, obit, out, seVars, driverVars>>

(* si->handle = handle and binder_acquire for the entry just released.     *)
AddTake ==
  /\ pc = "add" /\ pc' = "link"
  /\ svc' = [svc EXCEPT ![txn[cur].name].handle = bufh[cur]]
  /\ Acquire(bufh[cur])
  /\ UNCHANGED <<svclist, txn, bufh, cur, obit, out, seVars>>

(* The entry of a dead service is used again, its other fields as they     *)
(* were.                                                                   *)
AddRevive ==
  /\ Handle("ADD") /\ AddAllowed
  /\ txn[cur].name \in Registered /\ svc[txn[cur].name].handle = 0
  /\ svc' = [svc EXCEPT ![txn[cur].name].handle = bufh[cur]]
  /\ Acquire(bufh[cur])
  /\ pc' = "link"
  /\ UNCHANGED <<svclist, txn, bufh, cur, obit, out>>

(* A mutant: find_svc does not see the entries of dead services.           *)
AddFreshForDead ==
  /\ Handle("ADD") /\ AddAllowed
  /\ svc[txn[cur].name].handle = 0
  /\ svclist' = <<txn[cur].name>> \o svclist
  /\ svc' = [svc EXCEPT ![txn[cur].name] =
               [handle |-> bufh[cur],
                allow_isolated |-> txn[cur].allow_isolated,
                dumpsys_priority |-> txn[cur].dumpsys_priority]]
  /\ Acquire(bufh[cur])
  /\ pc' = "link"
  /\ UNCHANGED <<txn, bufh, cur, obit, out>>

(* A new entry goes to the head of the list.                               *)
AddFresh ==
  /\ Handle("ADD") /\ AddAllowed
  /\ txn[cur].name \notin Registered
  /\ svclist' = <<txn[cur].name>> \o svclist
  /\ svc' = [svc EXCEPT ![txn[cur].name] =
               [handle |-> bufh[cur],
                allow_isolated |-> txn[cur].allow_isolated,
                dumpsys_priority |-> txn[cur].dumpsys_priority]]
  /\ Acquire(bufh[cur])
  /\ pc' = "link"
  /\ UNCHANGED <<txn, bufh, cur, obit, out>>

(* A mutant: no death notice is asked for.                                 *)
AddSkipsLink ==
  /\ pc = "link" /\ Answer(NoReply)
  /\ UNCHANGED <<svclist, svc, txn, bufh, cur, obit, seVars, driverVars>>

(* binder_link_to_death with the cookie of the entry.                      *)
AddLink ==
  /\ pc = "link"
  /\ LinkToDeath(bufh[cur], txn[cur].name)
  /\ Answer(NoReply)
  /\ UNCHANGED <<svclist, svc, txn, bufh, cur, obit, seVars>>
-----------------------------------------------------------------------------
(* A mutant: the buffer is not given back.                                 *)
SendReplyKeepsBuffer ==
  /\ pc = "reply" /\ pc' = "read"
  /\ txn' = [txn EXCEPT ![cur] = NoTxn]
  /\ bufh' = [bufh EXCEPT ![cur] = 0]
  /\ cur' = NoProc /\ out' = NoReply
  /\ UNCHANGED <<svclist, svc, obit, seVars, driverVars>>

(* binder_send_reply: BC_FREE_BUFFER, then BC_REPLY, in one write.         *)
SendReply ==
  /\ pc = "reply" /\ pc' = "read"
  /\ IF bufh[cur] # 0 THEN Release(bufh[cur]) ELSE UNCHANGED driverVars
  /\ txn' = [txn EXCEPT ![cur] = NoTxn]
  /\ bufh' = [bufh EXCEPT ![cur] = 0]
  /\ cur' = NoProc /\ out' = NoReply
  /\ UNCHANGED <<svclist, svc, obit, seVars>>

svcmgr_handler ==
  \/ Ping \/ BadId \/ Unknown \/ Get \/ List
  \/ AddReject \/ AddOverride \/ AddRevive \/ AddFresh

Serve == DeadBinder \/ svcmgr_handler \/ AddTake \/ AddLink \/ SendReply

Next ==
  \/ \E p \in Procs : \/ \E r \in MayRequest[p] : Send(p, r)
                      \/ Die(p)
                      \/ ReadTxn(p)
  \/ \E h \in Handles : ReadDead(h)
  \/ \E pol \in Policies : UpdatePolicy(pol)
  \/ Serve

(* The service manager never stops serving, and its queue is first in,     *)
(* first out: what stays queued is read.  Nobody has to send or to die.    *)
Fairness ==
  /\ WF_vars(Serve)
  /\ \A p \in Procs : SF_vars(ReadTxn(p))
  /\ \A h \in Handles : SF_vars(ReadDead(h))

Spec == Init /\ [][Next]_vars /\ Fairness
-----------------------------------------------------------------------------
(* Properties.                                                             *)

Holders(h) ==
  {n \in Names : svc[n].handle = h} \cup {p \in Procs : bufh[p] = h}

(* The driver's count of a handle is the number of entries of svclist and  *)
(* of buffers not yet given back that use it, so that no reference leaks,  *)
(* none is released twice, and no entry or queued request has a handle     *)
(* that is gone or stands for another object.  do_add_service and          *)
(* svcinfo_death are the two places that have to keep the balance.         *)
RefCountExact ==
  \A h \in Handles : /\ strong[h] = Cardinality(Holders(h))
                     /\ node[h] = NoProc <=> Holders(h) = {}

(* A process can publish its object under a name: it asks for it and a     *)
(* policy lets it have it.                                                 *)
MayPublish(p, name) ==
  /\ Uid[p] = "system"
  /\ \E r \in MayRequest[p] : r.code = "ADD" /\ r.name = name
  /\ \E pol \in Policies : <<pol, "add", p, Str8[name]>> \in Granted

(* No process can publish its object under two names.                      *)
OneName ==
  \A p \in Procs, m, n \in Names : MayPublish(p, m) /\ MayPublish(p, n) => m = n

(* A process with two names shares neither with another process.           *)
NamesApart ==
  \A p, q \in Procs, m, n \in Names :
    MayPublish(p, m) /\ MayPublish(p, n) /\ m # n /\ MayPublish(q, m) => q = p

(* What svcinfo_death logs is so: when a notice has been read for an entry *)
(* that is in use, the process the entry stands for has died.  The notice  *)
(* names the entry and not the handle, so this needs that no notice        *)
(* outlives the registration it was asked for; NamesApart is what it       *)
(* takes.                                                                  *)
DiedServiceIsDead ==
  pc = "dead" /\ svc[obit].handle # 0 => node[svc[obit].handle] \notin alive

(* The service manager is not left with a dead service for good: for an    *)
(* entry whose process has died the notice is queued, or being handled, or *)
(* about to be asked for.                                                  *)
NoticeComing ==
  \A n \in Names :
    LET h == svc[n].handle
    IN  h # 0 /\ node[h] \notin alive =>
          \/ h \in dead
          \/ pc = "dead" /\ obit = n
          \/ pc = "link" /\ txn[cur].name = n

(* A death registration for an entry that has moved on (overridden while   *)
(* its owner has a request queued) is still with an owner whose request is *)
(* read before any notice.                                                 *)
RegistrationOwned ==
  \A h \in Handles :
    death[h] # NoName => \/ svc[death[h]].handle = h
                         \/ bufh[node[h]] = h

(* The list has one entry per name, and only listed names are in use.      *)
ListOK ==
  /\ \A i, j \in 1..Len(svclist) : svclist[i] = svclist[j] => i = j
  /\ \A n \in Names : svc[n].handle # 0 => n \in Registered

(* A service that never lets isolated processes in is not handed to one    *)
(* (the comment in do_find_service).  do_add_service breaks it: it keeps   *)
(* allow_isolated of the registration it overrides.                        *)
IsolatedKeptOut ==
  pc = "reply" /\ out.handle # 0 /\ Uid[cur] = "isolated" =>
    \E r \in MayRequest[node[out.handle]] :
      r.code = "ADD" /\ r.name = txn[cur].name /\ r.allow_isolated

(* A registration is accepted by the policy that is installed when the     *)
(* request is handled, if a new policy can always be opened.               *)
PolicyInForce ==
  [][pc = "txn" /\ pc' \in {"add", "link"} =>
       <<service_contexts, "add", cur, Str8[txn[cur].name]>> \in Granted]_vars

(* What a caller can see: the registry of Registry.tla.  A registration    *)
(* counts from the moment the old handle is released.                      *)
NodeOf(h) == IF h = 0 THEN NoProc ELSE node[h]

reg == [n \in Names |-> IF pc = "add" /\ txn[cur].name = n
                        THEN cur ELSE NodeOf(svc[n].handle)]

given == NodeOf(out.handle)

R == INSTANCE Registry

(* The service manager implements the registry: steps.                     *)
ImplementsRegistry == R!Init /\ [][R!Next]_R!vars

(* And liveness: a dead service is forgotten.                              *)
DeadForgotten == R!Forgotten

(* Every call is answered: the transaction of a caller ends, whatever dies *)
(* or registers meanwhile.                                                 *)
CallsAnswered == \A p \in Procs : txn[p] # NoTxn ~> txn[p] = NoTxn
=============================================================================
