----------------------------- MODULE HelloSystem -----------------------------
(***************************************************************************)
(* The hello servers and clients of Demos/BinderCDemo at work together:    *)
(* binder_server.c and binder_client.c over binder_call, binder_parse,     *)
(* binder_loop and binder_done (binder4Server.c, binder4Client.c), the     *)
(* binder driver that carries their calls, and the service manager, which  *)
(* appears here as the registry it implements (Registry.tla).              *)
(*                                                                         *)
(* Every process has one thread.  A step is the code between two ioctls,   *)
(* or one command of binder_parse.  A process may be killed anywhere, the  *)
(* driver may refuse a transaction or interrupt a read, and the service    *)
(* manager may go down and be started again with an empty registry.        *)
(*                                                                         *)
(* A client makes one call: sayhello of binder_client.c, or sayhello_to,   *)
(* which the tutorial lists beside it and the server answers.              *)
(***************************************************************************)
EXTENDS Integers, Sequences, FiniteSets

CONSTANTS
  Servers,   \* processes that run binder_server.c
  Clients,   \* processes that run binder_client.c
  Manager,   \* handle 0
  MayAsk,    \* what the program of a client may ask of a server
  Name,      \* "hello"
  NoProc,
  Faults,    \* whether opening, transactions and reads may fail
  MaxStarts  \* bound on the times the service manager is started again

Procs == Servers \cup Clients

(* What hello_service_handler tells apart; a BAD request has an unknown    *)
(* code, or no name.                                                       *)
Requests == {"SAYHELLO", "SAYHELLO_TO", "BAD"}

ASSUME SystemAssumption ==
  /\ IsFiniteSet(Procs) /\ Servers \cap Clients = {}
  /\ Manager \notin Procs /\ NoProc \notin Procs \cup {Manager}
  /\ MayAsk \in [Clients -> SUBSET Requests]
  /\ Faults \in BOOLEAN /\ MaxStarts \in Nat

VARIABLES
  reg,       \* the registry: the process behind each name
  alive,
  pc,        \* where a process is in its program
  readbuf,   \* commands it has read and not yet parsed
  res,       \* what binder_parse will return
  io,        \* the reply of its call, a binder_io
  serving,   \* the caller a server is at work for
  g_handle,  \* the server a client has looked up
  cnt,       \* the static counters of a server, by function
  reply,     \* the reply a server has made: its status and the number in it
  ret,       \* what the call of a client to its server returned
  asks,      \* the request a client makes
  said,      \* history: the number the call of a client was given
  todo,      \* commands the driver has for a thread
  work,      \* callers whose transactions are queued for a server
  asked,     \* the transaction of a process that the manager has queued
  given,     \* of the registry: the process in the manager's answer
  mgr,       \* the client the manager is answering
  manager,   \* "down", "starting" or "up"
  starts,    \* how often it was started again
  accepted,  \* history: servers whose registration was accepted
  call,      \* the process whose reply a process waits for
  bufs,      \* buffers of a process: of requests, by caller, and its reply
  ref        \* strong references of a client on its server

helloVars == <<cnt, reply, ret, asks, said>>
progVars == <<pc, readbuf, res, io, serving, g_handle, helloVars>>
driverVars == <<todo, work, call, bufs, ref>>
lifeVars == <<manager, starts, accepted>>
mgrVars == <<reg, given, mgr, asked, lifeVars>>
vars == <<alive, progVars, mgrVars, driverVars>>

R == INSTANCE Registry WITH Names <- {Name}

(* The commands the driver returns; a reply has a status word, and perhaps *)
(* a number or a handle.                                                   *)
Command ==
  [cmd : {"COMPLETE", "REFS", "TRANSACTION", "REPLY", "FAILED", "DEAD"},
   from : Clients \cup {NoProc},
   status : {0, -1}, num : Nat, ref : Servers \cup {NoProc}]

BR(c) == [cmd |-> c, from |-> NoProc, status |-> 0, num |-> 0, ref |-> NoProc]

Transaction(c) ==
  [cmd |-> "TRANSACTION", from |-> c, status |-> 0, num |-> 0, ref |-> NoProc]
Reply(status, n, s) ==
  [cmd |-> "REPLY", from |-> NoProc, status |-> status, num |-> n, ref |-> s]

(* The reply of a call: whether it shares a buffer, and what it holds.     *)
IO == [shared : BOOLEAN, status : {0, -1}, num : Nat,
       ref : Servers \cup {NoProc}]
NoIO == [shared |-> FALSE, status |-> 0, num |-> 0, ref |-> NoProc]

(* The two counters; the values of ret besides the number: not returned,   *)
(* an exception, and what sayhello_to returns when binder_call fails.      *)
Counters == {"SAYHELLO", "SAYHELLO_TO"}
Nothing == -2
Exception == -1
Zero == 0

Waiting == {"await_publish", "await_lookup", "await_hello"}

PCs == Waiting \cup
  {"publish", "done_publish", "loop", "handler", "reply",
   "lookup", "acquire", "done_lookup", "hello", "done_hello", "exit", "dead"}

TypeOK ==
  /\ reg \in [{Name} -> Servers \cup {NoProc}]
  /\ alive \subseteq Procs
  /\ given \in Servers \cup {NoProc} /\ mgr \in Clients \cup {NoProc}
  /\ pc \in [Procs -> PCs]
  /\ readbuf \in [Procs -> Seq(Command)]
  /\ res \in [Procs -> {-1, 0, 1}]
  /\ io \in [Procs -> IO]
  /\ serving \in [Servers -> Clients \cup {NoProc}]
  /\ g_handle \in [Clients -> Servers \cup {NoProc}]
  /\ cnt \in [Servers \X Counters -> Nat]
  /\ reply \in [Servers -> [status : {0, -1}, num : Nat]]
  /\ ret \in [Clients -> Nat \cup {Nothing, Exception}]
  /\ asks \in [Clients -> Requests \cup {"none"}]
  /\ said \in [Clients -> Nat]
  /\ manager \in {"down", "starting", "up"} /\ starts \in Nat
  /\ accepted \subseteq Servers
  /\ todo \in [Procs -> Seq(Command)]
  /\ work \in [Servers -> Seq(Clients)]
  /\ asked \in [Procs -> {"none", "ADD", "CHECK"}]
  /\ call \in [Procs -> Servers \cup {Manager, NoProc}]
  /\ bufs \in [Procs -> SUBSET Procs]
  /\ ref \in [Clients -> 0..2]

Init ==
  /\ R!Init /\ mgr = NoProc
  /\ pc = [p \in Procs |-> IF p \in Servers THEN "publish" ELSE "lookup"]
  /\ readbuf = [p \in Procs |-> <<>>] /\ res = [p \in Procs |-> 1]
  /\ io = [p \in Procs |-> NoIO]
  /\ serving = [s \in Servers |-> NoProc]
  /\ g_handle = [c \in Clients |-> NoProc]
  /\ cnt = [k \in Servers \X Counters |-> 0]
  /\ reply = [s \in Servers |-> [status |-> 0, num |-> 0]]
  /\ ret = [c \in Clients |-> Nothing] /\ said = [c \in Clients |-> 0]
  /\ asks = [c \in Clients |-> "none"]
  /\ manager = "up" /\ starts = 0 /\ accepted = {}
  /\ todo = [p \in Procs |-> <<>>] /\ work = [s \in Servers |-> <<>>]
  /\ asked = [p \in Procs |-> "none"]
  /\ call = [p \in Procs |-> NoProc]
  /\ bufs = [p \in Procs |-> {}]
  /\ ref = [c \in Clients |-> 0]

Goto(p, l) == pc' = [pc EXCEPT ![p] = l]
At(p, l) == p \in alive /\ pc[p] = l

Queue(p, cmds) == todo' = [todo EXCEPT ![p] = @ \o cmds]
-----------------------------------------------------------------------------
(* binder_call, first half: BC_TRANSACTION.                                *)

(* The driver has no room for the transaction, or it goes to a handle that *)
(* the caller does not hold.                                               *)
Refused(p, why) ==
  /\ Queue(p, <<BR(why)>>)
  /\ UNCHANGED <<asked, work, call, bufs, ref>>

(* While there is no service manager its handle is dead.                   *)
CallManager(p, request) ==
  \/ manager = "down" /\ Refused(p, "DEAD")
  \/ /\ manager # "down"
     /\ asked' = [asked EXCEPT ![p] = request]
     /\ call' = [call EXCEPT ![p] = Manager]
     /\ Queue(p, IF request = "ADD" THEN <<BR("REFS"), BR("COMPLETE")>>
                                    ELSE <<BR("COMPLETE")>>)
     /\ UNCHANGED <<work, bufs, ref>>
  \/ Faults /\ Refused(p, "FAILED")

(* svcmgr_publish and svcmgr_lookup.                                       *)
Publish(s) ==
  /\ At(s, "publish") /\ Goto(s, "await_publish") /\ CallManager(s, "ADD")
  /\ UNCHANGED <<alive, reg, given, mgr, lifeVars, readbuf, res, io, serving,
                 g_handle, helloVars>>

Lookup(c) ==
  /\ At(c, "lookup") /\ Goto(c, "await_lookup") /\ CallManager(c, "CHECK")
  /\ UNCHANGED <<alive, reg, given, mgr, lifeVars, readbuf, res, io, serving,
                 g_handle, helloVars>>

(* sayhello of the client.                                                 *)
Hello(c) ==
  /\ At(c, "hello") /\ Goto(c, "await_hello")
  /\ \E r \in MayAsk[c] : asks' = [asks EXCEPT ![c] = r]
  /\ LET s == g_handle[c]
     IN  CASE ref[c] = 0 -> Refused(c, "FAILED")
           [] ref[c] # 0 /\ s \notin alive -> Refused(c, "DEAD")
           [] OTHER ->
                \/ /\ work' = [work EXCEPT ![s] = Append(@, c)]
                   /\ bufs' = [bufs EXCEPT ![s] = @ \cup {c}]
                   /\ call' = [call EXCEPT ![c] = s]
                   /\ Queue(c, <<BR("COMPLETE")>>)
                   /\ UNCHANGED <<asked, ref>>
                \/ Faults /\ Refused(c, "FAILED")
  /\ UNCHANGED <<alive, reg, given, mgr, lifeVars, readbuf, res, io, serving,
                 g_handle, cnt, reply, ret, said>>
-----------------------------------------------------------------------------
(* binder_call, second half, and binder_loop: read and parse.              *)

(* The ioctl returns what is queued for the thread, else, in the loop, one *)
(* transaction of the process.                                             *)
Read(p) ==
  /\ p \in alive /\ pc[p] \in Waiting \cup {"loop"}
  /\ readbuf[p] = <<>> /\ res[p] = 1
  /\ IF todo[p] # <<>>
     THEN /\ readbuf' = [readbuf EXCEPT ![p] = todo[p]]
          /\ todo' = [todo EXCEPT ![p] = <<>>]
          /\ UNCHANGED work
     ELSE /\ pc[p] = "loop" /\ work[p] # <<>>
          /\ readbuf' = [readbuf EXCEPT ![p] = <<Transaction(Head(work[p]))>>]
          /\ work' = [work EXCEPT ![p] = Tail(@)]
          /\ UNCHANGED todo
  /\ UNCHANGED <<alive, pc, res, io, serving, g_handle, helloVars, mgrVars,
                 call, bufs, ref>>

(* A mutant: the reply of a dead process is taken for an answer.           *)
ResAfterDead(cmd, r) ==
  CASE cmd \in {"REPLY", "DEAD"} -> 0
    [] cmd = "FAILED"            -> -1
    [] OTHER                     -> r

(* A mutant: a dead reply is skipped like BR_NOOP.                         *)
ResAfterSkipped(cmd, r) ==
  CASE cmd = "REPLY"  -> 0
    [] cmd = "FAILED" -> -1
    [] OTHER          -> r

(* What one command does to the result of binder_parse.                    *)
ResAfter(cmd, r) ==
  CASE cmd = "REPLY"              -> 0
    [] cmd \in {"FAILED", "DEAD"} -> -1
    [] OTHER                      -> r

(* binder_parse, one command.  A transaction is handed to the handler; a   *)
(* reply goes to the binder_io of binder_call, which binder_loop has not.  *)
Parse(p) ==
  /\ p \in alive /\ pc[p] \in Waiting \cup {"loop"} /\ readbuf[p] # <<>>
  /\ LET c == Head(readbuf[p])
     IN  /\ res' = [res EXCEPT ![p] = ResAfter(c.cmd, @)]
         /\ IF c.cmd = "TRANSACTION" /\ pc[p] = "loop"
            THEN /\ Goto(p, "handler")
                 /\ serving' = [serving EXCEPT ![p] = c.from]
            ELSE UNCHANGED <<pc, serving>>
         /\ IF c.cmd = "REPLY" /\ pc[p] # "loop"
            THEN io' = [io EXCEPT ![p] = 
                     [shared |-> TRUE, status |-> c.status, num |-> c.num,
                      ref |-> c.ref]]
            ELSE UNCHANGED io
  /\ readbuf' = [readbuf EXCEPT ![p] = Tail(@)]
  /\ UNCHANGED <<alive, g_handle, helloVars, mgrVars, driverVars>>

(* binder_call returns 0: on to the caller's next line.                    *)
CallDone(p) ==
  /\ p \in alive /\ pc[p] \in Waiting /\ readbuf[p] = <<>> /\ res[p] = 0
  /\ Goto(p, CASE pc[p] = "await_publish" -> "done_publish"
               [] pc[p] = "await_lookup"  -> "acquire"
               [] pc[p] = "await_hello"   -> "done_hello")
  /\ res' = [res EXCEPT ![p] = 1]
  /\ UNCHANGED <<alive, readbuf, io, serving, g_handle, helloVars, mgrVars,
                 driverVars>>

(* binder_call fails, and each of its callers gives up: svcmgr_publish and *)
(* svcmgr_lookup, and main with them, sayhello, and sayhello_to, which     *)
(* returns 0 for it.                                                       *)
GiveUp(p) ==
  /\ Goto(p, "exit") /\ io' = [io EXCEPT ![p] = NoIO]
  /\ IF pc[p] = "await_hello" THEN ret' = [ret EXCEPT ![p] = Zero]
                              ELSE UNCHANGED ret
  /\ UNCHANGED <<alive, readbuf, res, serving, g_handle, cnt, reply, asks, said,
                 mgrVars, driverVars>>

(* A reply or an error ends binder_loop, an error binder_call.             *)
ParseEnds(p) ==
  /\ p \in alive /\ readbuf[p] = <<>>
  /\ \/ pc[p] \in Waiting /\ res[p] = -1
     \/ pc[p] = "loop" /\ res[p] # 1
  /\ GiveUp(p)

(* A mutant: main goes on to its loop although svcmgr_publish failed.      *)
ReadFailsUnnoticed(p) ==
  /\ Faults /\ p \in alive /\ pc[p] \in Waiting \cup {"loop"}
  /\ readbuf[p] = <<>> /\ res[p] = 1
  /\ Goto(p, IF pc[p] = "await_publish" THEN "loop" ELSE "exit")
  /\ io' = [io EXCEPT ![p] = NoIO]
  /\ UNCHANGED <<alive, readbuf, res, serving, g_handle, helloVars, mgrVars,
                 driverVars>>

(* binder_open fails, and main ends.                                       *)
OpenFails(p) ==
  /\ Faults /\ p \in alive /\ pc[p] \in {"publish", "lookup"}
  /\ Goto(p, "exit")
  /\ UNCHANGED <<alive, readbuf, res, io, serving, g_handle, helloVars,
                 mgrVars, driverVars>>

(* The ioctl of binder_call or binder_loop fails, with the same outcome; a *)
(* transaction that was sent stays with its server.                        *)
ReadFails(p) ==
  /\ Faults /\ p \in alive /\ pc[p] \in Waiting \cup {"loop"}
  /\ readbuf[p] = <<>> /\ res[p] = 1
  /\ GiveUp(p)
-----------------------------------------------------------------------------
(* After a call.                                                           *)

(* binder_done gives the reply's buffer back, and with it the reference    *)
(* the buffer holds.                                                       *)
binder_done(p) ==
  /\ bufs' = [bufs EXCEPT ![p] = @ \ {p}]
  /\ io' = [io EXCEPT ![p] = NoIO]
  /\ IF p \in Clients /\ io[p].ref # NoProc
     THEN ref' = [ref EXCEPT ![p] = @ - 1]
     ELSE UNCHANGED ref

(* svcmgr_publish returns the status; main enters binder_loop if it is 0.  *)
PublishDone(s) ==
  /\ At(s, "done_publish") /\ binder_done(s)
  /\ Goto(s, IF io[s].status = 0 THEN "loop" ELSE "exit")
  /\ UNCHANGED <<alive, readbuf, res, serving, g_handle, helloVars, mgrVars,
                 todo, work, call>>

(* A mutant: the handle is not acquired.                                   *)
NotAcquired(c) ==
  /\ At(c, "acquire") /\ Goto(c, "done_lookup")
  /\ g_handle' = [g_handle EXCEPT ![c] = io[c].ref]
  /\ UNCHANGED <<alive, readbuf, res, io, serving, helloVars, mgrVars, driverVars>>

(* A mutant: the handle is acquired twice.                                 *)
AcquiredTwice(c) ==
  /\ At(c, "acquire") /\ Goto(c, "done_lookup")
  /\ g_handle' = [g_handle EXCEPT ![c] = io[c].ref]
  /\ IF io[c].ref # NoProc THEN ref' = [ref EXCEPT ![c] = @ + 2]
                           ELSE UNCHANGED ref
  /\ UNCHANGED <<alive, readbuf, res, io, serving, helloVars, mgrVars,
                 todo, work, call, bufs>>

(* svcmgr_lookup acquires the handle while the buffer still holds it.      *)
Acquire(c) ==
  /\ At(c, "acquire") /\ Goto(c, "done_lookup")
  /\ g_handle' = [g_handle EXCEPT ![c] = io[c].ref]
  /\ IF io[c].ref # NoProc THEN ref' = [ref EXCEPT ![c] = @ + 1]
                           ELSE UNCHANGED ref
  /\ UNCHANGED <<alive, readbuf, res, io, serving, helloVars, mgrVars,
                 todo, work, call, bufs>>

LookupDone(c) ==
  /\ At(c, "done_lookup") /\ binder_done(c)
  /\ Goto(c, IF g_handle[c] # NoProc THEN "hello" ELSE "exit")
  /\ UNCHANGED <<alive, readbuf, res, serving, g_handle, helloVars, mgrVars,
                 todo, work, call>>

(* A mutant: the number is taken for the exception.                        *)
HelloDoneSwapped(c) ==
  /\ At(c, "done_hello") /\ binder_done(c) /\ Goto(c, "exit")
  /\ ret' = [ret EXCEPT ![c] = IF io[c].num # 0 THEN Exception
                              ELSE io[c].status]
  /\ UNCHANGED <<alive, readbuf, res, serving, g_handle, cnt, reply, asks, said,
                 mgrVars, todo, work, call>>

(* sayhello has no result, which is 0 here; sayhello_to reads the          *)
(* exception and then the number.                                          *)
HelloDone(c) ==
  /\ At(c, "done_hello") /\ binder_done(c) /\ Goto(c, "exit")
  /\ ret' = [ret EXCEPT ![c] = IF io[c].status # 0 THEN Exception
                              ELSE io[c].num]
  /\ UNCHANGED <<alive, readbuf, res, serving, g_handle, cnt, reply, asks, said,
                 mgrVars, todo, work, call>>
-----------------------------------------------------------------------------
(* The server at work.                                                     *)

(* hello_service_handler, for the request given, and the reply it makes.   *)
Handler(s, request, status, num) ==
  /\ At(s, "handler") /\ asks[serving[s]] = request /\ Goto(s, "reply")
  /\ reply' = [reply EXCEPT ![s] = [status |-> status, num |-> num]]
  /\ UNCHANGED <<alive, readbuf, res, io, serving, g_handle, ret, asks,
                 mgrVars, driverVars>>

(* A mutant: the counters are not static.                                  *)
CountLocal(s, k) ==
  cnt' = cnt /\ said' = [said EXCEPT ![serving[s]] = cnt[<<s, k>>] + 1]

Count(s, k) ==
  /\ cnt' = [cnt EXCEPT ![<<s, k>>] = @ + 1]
  /\ said' = [said EXCEPT ![serving[s]] = cnt[<<s, k>>] + 1]

sayhello(s) ==
  Handler(s, "SAYHELLO", 0, 0) /\ Count(s, "SAYHELLO")

(* A mutant: the number is read before it is counted.                      *)
CountAfter(s) ==
  /\ Handler(s, "SAYHELLO_TO", 0, cnt[<<s, "SAYHELLO_TO">>])
  /\ Count(s, "SAYHELLO_TO")

(* The name is taken to fit in name[512]; what a longer one does is        *)
(* undefined, and of that only the end of the server is here (Die).        *)
sayhello_to(s) ==
  /\ Handler(s, "SAYHELLO_TO", 0, cnt[<<s, "SAYHELLO_TO">>] + 1)
  /\ Count(s, "SAYHELLO_TO")

(* A mutant: a call is counted before its name is looked for.              *)
RejectCounted(s) == Handler(s, "BAD", -1, 0) /\ Count(s, "SAYHELLO_TO")

Reject(s) == Handler(s, "BAD", -1, 0) /\ UNCHANGED <<cnt, said>>

(* The driver gives a reply to its caller, if that is still there.         *)
Deliver(p, answer, freed, done) ==
  LET there == p \in alive
  IN  /\ todo' = [q \in Procs |->
                    todo[q] \o (IF q = p /\ there THEN <<answer>> ELSE <<>>)
                            \o (IF q = done THEN <<BR("COMPLETE")>> ELSE <<>>)]
      /\ bufs' = [q \in Procs |->
                    (bufs[q] \cup (IF q = p /\ there THEN {p} ELSE {}))
                             \ (IF q = done THEN freed ELSE {})]
      /\ call' = [call EXCEPT ![p] = NoProc]

(* A mutant: the request's buffer is kept.                                 *)
SendReplyKeepsBuffer(s) ==
  /\ At(s, "reply") /\ Goto(s, "loop")
  /\ Deliver(serving[s], Reply(reply[s].status, reply[s].num, NoProc), {}, s)
  /\ serving' = [serving EXCEPT ![s] = NoProc]
  /\ UNCHANGED <<alive, readbuf, res, io, g_handle, helloVars, mgrVars, work, ref>>

(* binder_send_reply: BC_FREE_BUFFER and BC_REPLY.                         *)
SendReply(s) ==
  /\ At(s, "reply") /\ Goto(s, "loop")
  /\ Deliver(serving[s], Reply(reply[s].status, reply[s].num, NoProc), {serving[s]}, s)
  /\ serving' = [serving EXCEPT ![s] = NoProc]
  /\ UNCHANGED <<alive, readbuf, res, io, g_handle, helloVars, mgrVars, work, ref>>
-----------------------------------------------------------------------------
(* The service manager.  A status other than 0 comes as the data of a      *)
(* TF_STATUS_CODE reply, where bio_get_uint32 finds it.                    *)

Idle == manager = "up" /\ mgr = NoProc

EmptyReply(status) == Reply(0, 0, NoProc)   \* a mutant: it reads as 0

StatusReply(status) == Reply(status, 0, NoProc)

(* A mutant: a refused registration is not answered.                       *)
RefuseUnanswered(s) == UNCHANGED <<reg, given, alive, accepted, todo, bufs, call>>

(* The policy does not let s register, or there is no memory.              *)
Refuse(s) ==
  /\ Deliver(s, StatusReply(-1), {}, NoProc)
  /\ UNCHANGED <<reg, given, alive, accepted>>

(* do_add_service; its steps are those of ServiceManager.tla.              *)
Add(s) ==
  /\ Idle /\ asked[s] = "ADD"
  /\ asked' = [asked EXCEPT ![s] = "none"]
  /\ \/ /\ R!Register(Name, s) /\ accepted' = accepted \cup {s}
        /\ Deliver(s, StatusReply(0), {}, NoProc)
     \/ Refuse(s)
  /\ UNCHANGED <<progVars, mgr, manager, starts, work, ref>>

(* do_find_service and the reply with the handle, or with none, although   *)
(* there is one, if c is isolated or has no permission.                    *)
Check(c) ==
  /\ Idle /\ asked[c] = "CHECK"
  /\ asked' = [asked EXCEPT ![c] = "none"]
  /\ mgr' = c /\ (R!Lookup(Name) \/ R!Answered)
  /\ UNCHANGED <<progVars, lifeVars, driverVars>>

CheckReply ==
  /\ mgr # NoProc /\ mgr' = NoProc
  /\ R!Answered
  /\ Deliver(mgr, Reply(0, 0, given), {}, NoProc)
  /\ ref' = IF given # NoProc /\ mgr \in alive
            THEN [ref EXCEPT ![mgr] = @ + 1] ELSE ref
  /\ UNCHANGED <<progVars, lifeVars, asked, work>>

(* svcinfo_death.                                                          *)
Forget ==
  /\ Idle /\ R!Forget(Name)
  /\ UNCHANGED <<progVars, lifeVars, mgr, asked, driverVars>>

(* Nobody will answer the calls to p, and gone gets nothing any more.      *)
Abandoned(p, gone) ==
  /\ todo' = [q \in Procs |-> IF q \in gone THEN <<>>
                              ELSE IF call[q] = p THEN Append(todo[q], BR("DEAD"))
                              ELSE todo[q]]
  /\ call' = [q \in Procs |-> IF q \in gone \/ call[q] = p THEN NoProc
                              ELSE call[q]]

(* main of the service manager: it opens the driver and becomes context    *)
(* manager, with which it can be called, opens its files and goes on to    *)
(* binder_loop.  A second service manager would be refused by the driver.  *)
ManagerStarts ==
  /\ manager = "down" /\ starts < MaxStarts
  /\ manager' = "starting" /\ starts' = starts + 1
  /\ UNCHANGED <<alive, progVars, reg, given, mgr, asked, accepted, driverVars>>

ManagerReady ==
  /\ manager = "starting" /\ manager' = "up"
  /\ UNCHANGED <<alive, progVars, reg, given, mgr, asked, starts, accepted,
                 driverVars>>

(* It aborts for want of its files, or is killed: svclist is gone, and who *)
(* waits for it is told.  The servers are not.                             *)
ManagerDies ==
  /\ manager # "down" /\ manager' = "down"
  /\ reg' = [n \in {Name} |-> NoProc] /\ given' = NoProc /\ mgr' = NoProc
  /\ asked' = [p \in Procs |-> "none"]
  /\ Abandoned(Manager, {})
  /\ UNCHANGED <<alive, progVars, starts, accepted, work, bufs, ref>>

(* A process ends, at its end or by a signal; the driver takes back what   *)
(* it had and tells those who wait for it.                                 *)
Die(p) ==
  /\ R!Die(p) /\ Goto(p, "dead")
  /\ Abandoned(p, {p})
  /\ bufs' = [bufs EXCEPT ![p] = {}]
  /\ readbuf' = [readbuf EXCEPT ![p] = <<>>]
  /\ io' = [io EXCEPT ![p] = NoIO]
  /\ res' = [res EXCEPT ![p] = 1]
  /\ IF p \in Servers
     THEN /\ work' = [work EXCEPT ![p] = <<>>]
          /\ serving' = [serving EXCEPT ![p] = NoProc]
          /\ UNCHANGED <<ref, g_handle>>
     ELSE /\ ref' = [ref EXCEPT ![p] = 0]
          /\ g_handle' = [g_handle EXCEPT ![p] = NoProc]
          /\ UNCHANGED <<work, serving>>
  /\ UNCHANGED <<helloVars, mgr, lifeVars, asked>>

(* The end of main.                                                        *)
Exit(p) == At(p, "exit") /\ Die(p)
-----------------------------------------------------------------------------
CallSteps(p) == Read(p) \/ Parse(p) \/ CallDone(p) \/ ParseEnds(p) \/ Exit(p)

ServerSteps(s) ==
  \/ CallSteps(s) \/ Publish(s) \/ PublishDone(s)
  \/ sayhello(s) \/ sayhello_to(s) \/ Reject(s) \/ SendReply(s)

ClientSteps(c) ==
  \/ CallSteps(c) \/ Lookup(c) \/ Acquire(c) \/ LookupDone(c)
  \/ Hello(c) \/ HelloDone(c)

ManagerSteps ==
  ManagerReady \/ CheckReply \/ Forget \/ \E p \in Procs : Add(p) \/ Check(p)

Next ==
  \/ \E s \in Servers : ServerSteps(s)
  \/ \E c \in Clients : ClientSteps(c)
  \/ ManagerSteps \/ ManagerStarts \/ ManagerDies
  \/ \E p \in Procs : OpenFails(p) \/ ReadFails(p) \/ Die(p)

(* Every process runs, and the service manager, while it is there, works   *)
(* off what is queued.  Nobody has to start it again.                      *)
Fairness ==
  /\ \A s \in Servers : WF_vars(ServerSteps(s))
  /\ \A c \in Clients : WF_vars(ClientSteps(c))
  /\ WF_vars(ManagerSteps)

Spec == Init /\ [][Next]_vars /\ Fairness
-----------------------------------------------------------------------------
(* Properties.                                                             *)

(* A client never uses a handle it does not hold: from the moment it has   *)
(* given the reply's buffer back, the reference of binder_acquire is there.*)
HandleHeld ==
  \A c \in Clients :
    pc[c] \in {"hello", "await_hello", "done_hello"} =>
      g_handle[c] # NoProc /\ ref[c] = 1

(* Every buffer the driver has handed out is on its way to the process     *)
(* that gives it back, once: the one of a request queued, read or being    *)
(* served, the one of a reply queued, read or not yet done with.           *)
Queued(p) ==
  {i \in 1..Len(todo[p] \o readbuf[p]) :
     (todo[p] \o readbuf[p])[i].cmd = "REPLY"}

InHand(s) ==
  ({work[s][i] : i \in 1..Len(work[s])} \cup {serving[s]}
   \cup {readbuf[s][i].from : i \in 1..Len(readbuf[s])}) \ {NoProc}

BuffersReturned ==
  \A p \in Procs :
    p \in alive /\ pc[p] # "exit" =>
      /\ p \in bufs[p] <=> Queued(p) # {} \/ io[p].shared
      /\ bufs[p] \ {p} = IF p \in Servers THEN InHand(p) ELSE {}

(* svcmgr_publish returns 0 only for a registration that was accepted: a   *)
(* server serves only if the service manager let it register.              *)
PublishTruthful ==
  \A s \in Servers : pc[s] \in {"loop", "handler", "reply"} => s \in accepted

(* The hello service of HelloService.tla: a call is carried out at most    *)
(* once, whoever dies; a number the caller is told is the one its own call *)
(* was counted with, and a call that was answered with an exception was    *)
(* not and will not be counted, though one that failed (0) may be.         *)
S == INSTANCE HelloService WITH
  Callers <- Clients, Counters <- Servers \X Counters, count <- cnt, told <- ret

ImplementsHello == S!Init /\ [][S!Next]_S!vars

(* sayhello_to returns 0 for a call that failed and for no other, so where *)
(* the driver does not fail its server is gone: a server that lives gives  *)
(* every caller that waits a number, or an exception.                      *)
ZeroMeansFailed ==
  \A c \in Clients \cap alive :
    ret[c] = Zero /\ asks[c] # "SAYHELLO" /\ ~Faults => g_handle[c] \notin alive

(* A server has one thread and static counters: the numbers it gives for   *)
(* one function are all different, and none is ahead of its counter, also  *)
(* when callers die in their calls or the server is replaced meanwhile.    *)
NumbersApart ==
  \A c \in Clients \cap alive : said[c] # 0 =>
    /\ said[c] <= cnt[<<g_handle[c], asks[c]>>]
    /\ \A d \in (Clients \cap alive) \ {c} :
         g_handle[d] = g_handle[c] /\ asks[d] = asks[c] => said[d] # said[c]

(* No caller can end the loop of a server: binder_parse never reports a    *)
(* reply or an error to binder_loop, also when callers die in their calls. *)
LoopGoesOn == \A s \in Servers : pc[s] = "loop" => res[s] = 1

(* Who waits in binder_call with nothing left to read has its call with    *)
(* somebody that is there and can answer: the service manager, which has   *)
(* it queued or is answering it, or a server that is alive and still holds *)
(* the request.  Servers wait only for the service manager, so no waiting  *)
(* goes round in a circle.                                                 *)
NobodyStranded ==
  \A p \in Procs :
    p \in alive /\ pc[p] \in Waiting /\ todo[p] \o readbuf[p] = <<>> /\ res[p] = 1 =>
      \/ call[p] = Manager /\ manager # "down" /\ (asked[p] # "none" \/ mgr = p)
      \/ p \in Clients /\ call[p] \in Servers \cap alive /\ p \in InHand(call[p])

(* Every client comes to an end, whatever dies meanwhile: an unanswered    *)
(* call ends with its server.                                              *)
ClientsEnd == \A c \in Clients : <>(c \notin alive)

(* A server that runs into no fault ends up serving or refused.            *)
ServersSettle ==
  \A s \in Servers : <>(s \notin alive \/ pc[s] \in {"loop", "handler", "reply"})
=============================================================================
