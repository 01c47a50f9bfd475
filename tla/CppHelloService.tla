--------------------------- MODULE CppHelloService ---------------------------
(***************************************************************************)
(* The C++ hello service (Demos/BinderCppDemo): BnHelloService, whose      *)
(* static counters are incremented by whichever threads of the server's    *)
(* pool take the calls, BpHelloService, which reads the count from a reply *)
(* parcel without a look at the status of transact, and the programs       *)
(* BinderServer and BinderClient around them.  libbinder is external.      *)
(*                                                                         *)
(* ++count is a load and a store without a lock.  The value sayHelloTo     *)
(* returns may be read from memory again or not: that is up to the build.  *)
(***************************************************************************)
EXTENDS Integers, Sequences, FiniteSets

CONSTANTS Clients, Threads, NoClient

ASSUME ServiceAssumption == IsFiniteSet(Clients) /\ NoClient \notin Clients

SAYHELLO == 1      \* HELLO_SVR_CMD_SAYHELLO
SAYHELLO_TO == 2   \* HELLO_SVR_CMD_SAYHELLO_TO
Codes == {SAYHELLO, SAYHELLO_TO}

VARIABLES
  server,    \* "starting", "running" or "dead"
  published, \* whether the service manager has the service
  count,     \* the static counter behind each code
  queue,     \* calls no thread has taken yet: <<client, code>>
  job,       \* the call of a thread, NoJob if it is idle
  tpc, reg,  \* where a thread is in the call, and its register
  pc,        \* where a client is in main
  reply,     \* the reply parcel of a client's call, empty if it failed
  result,    \* what sayHelloTo of the proxy returned
  raced      \* history: calls of a code were under way at the same time

clientVars == <<pc, reply, result>>
threadVars == <<job, tpc, reg>>
vars == <<server, published, count, queue, threadVars, clientVars, raced>>

NoJob == <<NoClient, SAYHELLO>>

Waiting == {"await_hello", "await_hello_to"}

TypeOK ==
  /\ server \in {"starting", "running", "dead"} /\ published \in BOOLEAN
  /\ count \in [Codes -> 0..Cardinality(Clients)]
  /\ queue \in Seq(Clients \X Codes)
  /\ job \in [Threads -> (Clients \X Codes) \cup {NoJob}]
  /\ tpc \in [Threads -> {"idle", "load", "store", "return", "reply"}]
  /\ reg \in [Threads -> 0..Cardinality(Clients)]
  /\ pc \in [Clients -> Waiting \cup
                        {"start", "hello", "hello_to", "read", "done", "failed"}]
  /\ reply \in [Clients -> Seq(0..Cardinality(Clients))]
  /\ result \in [Clients -> -1..Cardinality(Clients)]
  /\ raced \in [Codes -> BOOLEAN]

Init ==
  /\ server = "starting" /\ published = FALSE
  /\ count = [n \in Codes |-> 0]
  /\ queue = <<>>
  /\ job = [t \in Threads |-> NoJob]
  /\ tpc = [t \in Threads |-> "idle"] /\ reg = [t \in Threads |-> 0]
  /\ pc = [c \in Clients |-> "start"]
  /\ reply = [c \in Clients |-> <<>>] /\ result = [c \in Clients |-> 0]
  /\ raced = [n \in Codes |-> FALSE]

Goto(c, l) == pc' = [pc EXCEPT ![c] = l]
Step(t, l) == tpc' = [tpc EXCEPT ![t] = l]
-----------------------------------------------------------------------------
(* The server.                                                             *)

(* main of BinderServer: the thread pool starts whatever addService says.  *)
Start ==
  /\ server = "starting" /\ server' = "running"
  /\ published' \in BOOLEAN
  /\ UNCHANGED <<count, queue, threadVars, clientVars, raced>>

(* A mutant: the call stays queued.                                        *)
TakeCopy(t) ==
  /\ server = "running" /\ tpc[t] = "idle" /\ queue # <<>>
  /\ job' = [job EXCEPT ![t] = Head(queue)] /\ Step(t, "load")
  /\ UNCHANGED <<server, published, count, queue, reg, clientVars, raced>>

(* A thread of the pool takes a call.                                      *)
Take(t) ==
  /\ server = "running" /\ tpc[t] = "idle" /\ queue # <<>>
  /\ job' = [job EXCEPT ![t] = Head(queue)] /\ queue' = Tail(queue)
  /\ Step(t, "load")
  /\ raced' = [raced EXCEPT ![Head(queue)[2]] =
                 @ \/ \E s \in Threads : /\ tpc[s] \notin {"idle", "reply"}
                                         /\ job[s][2] = Head(queue)[2]]
  /\ UNCHANGED <<server, published, count, reg, clientVars>>

(* ++count of sayHello and sayHelloTo: load,                               *)
Load(t) ==
  /\ tpc[t] = "load" /\ Step(t, "store")
  /\ reg' = [reg EXCEPT ![t] = count[job[t][2]]]
  /\ UNCHANGED <<server, published, count, queue, job, clientVars, raced>>

(* A mutant: sayHello and sayHelloTo share one counter.                    *)
StoreShared(t) ==
  /\ tpc[t] = "store" /\ Step(t, "return")
  /\ reg' = [reg EXCEPT ![t] = @ + 1]
  /\ count' = [n \in Codes |-> reg[t] + 1]
  /\ UNCHANGED <<server, published, queue, job, clientVars, raced>>

(* A mutant: the counters are not static.                                  *)
StoreLocal(t) ==
  /\ tpc[t] = "store" /\ Step(t, "return")
  /\ reg' = [reg EXCEPT ![t] = @ + 1]
  /\ UNCHANGED <<server, published, count, queue, job, clientVars, raced>>

(* and store.                                                              *)
Store(t) ==
  /\ tpc[t] = "store" /\ Step(t, "return")
  /\ reg' = [reg EXCEPT ![t] = @ + 1]
  /\ count' = [count EXCEPT ![job[t][2]] = reg[t] + 1]
  /\ UNCHANGED <<server, published, queue, job, clientVars, raced>>

(* A mutant: sayHelloTo returns cnt++.                                     *)
ReturnBefore(t) ==
  /\ tpc[t] = "return" /\ Step(t, "reply")
  /\ reg' = [reg EXCEPT ![t] = @ - 1]
  /\ UNCHANGED <<server, published, count, queue, job, clientVars, raced>>

(* return cnt.                                                             *)
Return(t) ==
  /\ tpc[t] = "return" /\ Step(t, "reply")
  /\ \E v \in {reg[t], count[job[t][2]]} : reg' = [reg EXCEPT ![t] = v]
  /\ UNCHANGED <<server, published, count, queue, job, clientVars, raced>>

(* A call of the proxy is over, with what it has for a reply.              *)
Answer(cs, parcel) ==
  /\ reply' = [c \in Clients |-> IF c \in cs THEN parcel ELSE reply[c]]
  /\ pc' = [c \in Clients |->
              CASE c \in cs /\ pc[c] = "await_hello"    -> "hello_to"
                [] c \in cs /\ pc[c] = "await_hello_to" -> "read"
                [] OTHER                                -> pc[c]]

(* onTransact writes no exception, and for SAYHELLO_TO the count.          *)
Reply(t) ==
  /\ tpc[t] = "reply" /\ Step(t, "idle")
  /\ Answer({job[t][1]},
            IF job[t][2] = SAYHELLO THEN <<0>> ELSE <<0, reg[t]>>)
  /\ job' = [job EXCEPT ![t] = NoJob]
  /\ UNCHANGED <<server, published, count, queue, reg, result, raced>>

(* A mutant: those who wait for the server are not told.                   *)
DieSilently ==
  /\ server = "running" /\ server' = "dead" /\ published' = FALSE
  /\ queue' = <<>>
  /\ job' = [t \in Threads |-> NoJob]
  /\ tpc' = [t \in Threads |-> "idle"] /\ reg' = [t \in Threads |-> 0]
  /\ UNCHANGED <<count, clientVars, raced>>

(* The server is killed; whoever waits for it gets an error, and an empty  *)
(* reply with it.                                                          *)
Die ==
  /\ server = "running" /\ server' = "dead" /\ published' = FALSE
  /\ queue' = <<>>
  /\ job' = [t \in Threads |-> NoJob]
  /\ tpc' = [t \in Threads |-> "idle"] /\ reg' = [t \in Threads |-> 0]
  /\ Answer({c \in Clients : pc[c] \in Waiting}, <<>>)
  /\ UNCHANGED <<count, result, raced>>
-----------------------------------------------------------------------------
(* main of BinderClient.                                                   *)

(* getService asks for some seconds, then gives up with a null pointer.    *)
GetService(c) ==
  /\ pc[c] = "start"
  /\ \/ published /\ Goto(c, "hello")
     \/ ~published /\ Goto(c, "failed")
  /\ UNCHANGED <<server, published, count, queue, threadVars, reply, result,
                 raced>>

(* transact: the call is queued, or fails at once.                         *)
Transact(c, code, next, wait) ==
  /\ reply' = [reply EXCEPT ![c] = <<>>]
  /\ IF server = "running"
     THEN queue' = Append(queue, <<c, code>>) /\ Goto(c, wait)
     ELSE queue' = queue /\ Goto(c, next)
  /\ UNCHANGED <<server, published, count, threadVars, result, raced>>

(* sayHello and sayHelloTo of the proxy.                                   *)
SayHello(c) ==
  pc[c] = "hello" /\ Transact(c, SAYHELLO, "hello_to", "await_hello")

SayHelloTo(c) ==
  pc[c] = "hello_to" /\ Transact(c, SAYHELLO_TO, "read", "await_hello_to")

(* Parcel::readInt32 gives 0 where there is nothing.                       *)
readInt32(parcel, i) == IF i \in DOMAIN parcel THEN parcel[i] ELSE 0

(* The exception, then the count.                                          *)
Read(c) ==
  /\ pc[c] = "read" /\ Goto(c, "done")
  /\ result' = [result EXCEPT ![c] =
                  IF readInt32(reply[c], 1) # 0 THEN -1
                                                ELSE readInt32(reply[c], 2)]
  /\ UNCHANGED <<server, published, count, queue, threadVars, reply, raced>>
-----------------------------------------------------------------------------
ThreadSteps(t) == Take(t) \/ Load(t) \/ Store(t) \/ Return(t) \/ Reply(t)
ClientSteps(c) == GetService(c) \/ SayHello(c) \/ SayHelloTo(c) \/ Read(c)

Next ==
  \/ Start \/ Die
  \/ \E t \in Threads : ThreadSteps(t)
  \/ \E c \in Clients : ClientSteps(c)

(* Threads that have work and clients that can go on do.                   *)
Fairness ==
  /\ \A t \in Threads : WF_vars(ThreadSteps(t))
  /\ \A c \in Clients : WF_vars(ClientSteps(c))

Spec == Init /\ [][Next]_vars /\ Fairness
-----------------------------------------------------------------------------
(* Properties.                                                             *)

Served(c) == pc[c] = "done" /\ reply[c] # <<>>

(* BpHelloService throws the status of transact away, and still its caller *)
(* can tell a failed call, also one that was being served when the server  *)
(* died: it alone returns 0.                                               *)
ZeroMeansFailed ==
  \A c \in Clients : pc[c] = "done" => (result[c] = 0 <=> reply[c] = <<>>)

(* Calls of a code begun so far.                                           *)
Begun(code) ==
  {c \in Clients :
     \/ \E t \in Threads : job[t] = <<c, code>> /\ tpc[t] \in {"return", "reply"}
     \/ pc[c] \in {"read", "done"}
     \/ code = SAYHELLO /\ pc[c] \in {"hello_to", "await_hello_to"}}

(* No interleaving counts a call twice: neither a counter nor the count a  *)
(* client is told exceeds the calls of that code there have been.          *)
NeverAhead ==
  server = "running" =>
    /\ \A code \in Codes : count[code] <= Cardinality(Begun(code))
    /\ \A c \in Clients : result[c] <= Cardinality(Begun(SAYHELLO_TO))

(* Calls of a code that were served one after the other are counted        *)
(* exactly, and no two clients are told the same count.                    *)
ExactIfApart ==
  ~raced[SAYHELLO_TO] =>
    /\ server = "running" =>
         count[SAYHELLO_TO] = Cardinality(Begun(SAYHELLO_TO))
    /\ \A c, d \in Clients :
         Served(c) /\ Served(d) /\ result[c] = result[d] => c = d

(* A client waits in transact just as long as its call is in one place, in *)
(* the queue or with one thread of a server that runs: no call is lost,    *)
(* none is taken by two threads, also when the server dies.                *)
CallInOnePlace ==
  \A c \in Clients :
    /\ Cardinality({i \in 1..Len(queue) : queue[i][1] = c})
         + Cardinality({t \in Threads : job[t][1] = c})
       = IF pc[c] \in Waiting THEN 1 ELSE 0
    /\ pc[c] \in Waiting => server = "running"

(* Every client comes to an end, although the server may die in its calls. *)
ClientsEnd == \A c \in Clients : <>(pc[c] \in {"done", "failed"})
=============================================================================
