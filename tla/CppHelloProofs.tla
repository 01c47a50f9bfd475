--------------------------- MODULE CppHelloProofs ---------------------------
(***************************************************************************)
(* Theorems about CppHelloService.tla, for any clients and any pool.       *)
(***************************************************************************)
EXTENDS CppHelloService, FiniteSetTheorems, TLAPS

(* A call that is queued or served is one its client waits for, ...        *)
Caller(code) == IF code = SAYHELLO THEN "await_hello" ELSE "await_hello_to"

JobsAwaited ==
  \A t \in Threads : tpc[t] # "idle" =>
    job[t] \in Clients \X Codes /\ pc[job[t][1]] = Caller(job[t][2])

QueueAwaited ==
  \A i \in 1..Len(queue) : pc[queue[i][1]] = Caller(queue[i][2])

(* ... and it is in one place.                                             *)
Once ==
  /\ \A t, u \in Threads :
       tpc[t] # "idle" /\ tpc[u] # "idle" /\ job[t][1] = job[u][1] => t = u
  /\ \A i, j \in 1..Len(queue) : queue[i][1] = queue[j][1] => i = j
  /\ \A t \in Threads, i \in 1..Len(queue) :
       tpc[t] # "idle" => job[t][1] # queue[i][1]

(* TypeOK without the bounds of the counts.                                *)
Shape ==
  /\ server \in {"starting", "running", "dead"} /\ published \in BOOLEAN
  /\ queue \in Seq(Clients \X Codes)
  /\ job \in [Threads -> (Clients \X Codes) \cup {NoJob}]
  /\ tpc \in [Threads -> {"idle", "load", "store", "return", "reply"}]
  /\ pc \in [Clients -> Waiting \cup
                        {"start", "hello", "hello_to", "read", "done", "failed"}]
  /\ raced \in [Codes -> BOOLEAN]

Calls == Shape /\ JobsAwaited /\ QueueAwaited /\ Once

(* Counters, registers and results, against the calls begun.               *)
N == [code \in Codes |-> Cardinality(Begun(code))]

CountBound == \A code \in Codes : count[code] <= N[code]

RegBound ==
  \A t \in Threads :
    /\ tpc[t] \in {"store", "return", "reply"} => reg[t] <= N[job[t][2]]
    /\ tpc[t] \in {"return", "reply"} => reg[t] >= 1
    /\ tpc[t] = "return" => count[job[t][2]] >= 1

ResultBound == \A c \in Clients : result[c] <= N[SAYHELLO_TO]

(* A parcel is empty, or the answer of sayHello, or one of sayHelloTo.     *)
Parcels ==
  \A c \in Clients :
    \/ reply[c] = <<>>
    \/ reply[c] = <<0>> /\ pc[c] \notin {"read", "done"}
    \/ \E v \in 1..N[SAYHELLO_TO] : reply[c] = <<0, v>>

Numbers ==
  /\ count \in [Codes -> Nat] /\ reg \in [Threads -> 0..Cardinality(Clients)]
  /\ result \in [Clients -> Nat]
  /\ reply \in [Clients -> Seq(0..Cardinality(Clients))]

Counts ==
  /\ Numbers /\ CountBound /\ RegBound /\ ResultBound /\ Parcels
  /\ ZeroMeansFailed
-----------------------------------------------------------------------------
LEMMA CallsInit == Init => Calls
<1> SUFFICES ASSUME Init PROVE Calls
  OBVIOUS
<1>1. Shape
  <2>1. queue \in Seq(Clients \X Codes)
    BY DEF Init
  <2>2. pc \in [Clients -> Waiting \cup
                  {"start", "hello", "hello_to", "read", "done", "failed"}]
    BY DEF Init
  <2> QED BY <2>1, <2>2 DEF Init, Shape
<1>2. JobsAwaited /\ QueueAwaited /\ Once
  BY DEF Init, JobsAwaited, QueueAwaited, Once
<1> QED BY <1>1, <1>2 DEF Calls

(* The head of the queue, and what is behind it.                           *)
LEMMA HeadTail ==
  ASSUME NEW S, NEW q \in Seq(S), q # <<>>
  PROVE  /\ Len(q) >= 1 /\ Head(q) = q[1] /\ Head(q) \in S
         /\ Tail(q) \in Seq(S) /\ Len(Tail(q)) = Len(q) - 1
         /\ \A i \in 1..Len(Tail(q)) : i + 1 \in 1..Len(q) /\ Tail(q)[i] = q[i + 1]
OBVIOUS

LEMMA CallsTake ==
  ASSUME Calls, NEW t \in Threads, Take(t)
  PROVE  Calls'
<1> USE DEF Calls, Take, Step, clientVars
<1>0. /\ Len(queue) >= 1 /\ Head(queue) = queue[1]
      /\ Head(queue) \in Clients \X Codes
      /\ queue' \in Seq(Clients \X Codes) /\ Len(queue') = Len(queue) - 1
      /\ \A i \in 1..Len(queue') :
           i + 1 \in 1..Len(queue) /\ queue'[i] = queue[i + 1]
  BY HeadTail DEF Shape
<1>1. Shape'
  <2>1. raced' \in [Codes -> BOOLEAN]
    BY DEF Shape
  <2> QED BY <1>0, <2>1 DEF Shape
<1>2. job'[t] = queue[1] /\ \A u \in Threads \ {t} : job'[u] = job[u] /\ tpc'[u] = tpc[u]
  BY <1>0 DEF Shape
<1>3. JobsAwaited'
  BY <1>0, <1>2 DEF JobsAwaited, QueueAwaited
<1>4. QueueAwaited'
  BY <1>0 DEF QueueAwaited
<1>5. Once'
  <2>1. 1 \in 1..Len(queue)
    BY <1>0
  <2>2. ASSUME NEW u \in Threads, NEW v \in Threads, tpc'[u] # "idle",
               tpc'[v] # "idle", job'[u][1] = job'[v][1]
        PROVE  u = v
    BY <1>2, <2>1, <2>2 DEF Once
  <2>3. ASSUME NEW i \in 1..Len(queue'), NEW j \in 1..Len(queue'),
               queue'[i][1] = queue'[j][1]
        PROVE  i = j
    BY <1>0, <2>3 DEF Once
  <2>4. ASSUME NEW u \in Threads, NEW i \in 1..Len(queue'), tpc'[u] # "idle"
        PROVE  job'[u][1] # queue'[i][1]
    <3>1. i + 1 \in 1..Len(queue) /\ i + 1 # 1 /\ queue'[i] = queue[i + 1]
      BY <1>0
    <3> QED BY <1>2, <2>1, <2>4, <3>1 DEF Once
  <2> QED BY <2>2, <2>3, <2>4 DEF Once
<1> QED BY <1>1, <1>3, <1>4, <1>5

(* Load, Store and Return stay with their call.                            *)
LEMMA CallsOnward ==
  ASSUME Calls, NEW t \in Threads, tpc[t] # "idle",
         NEW l \in {"store", "return", "reply"}, Step(t, l),
         UNCHANGED <<server, published, queue, job, pc, raced>>
  PROVE  Calls'
<1> USE DEF Calls, Step
<1>1. Shape'
  BY DEF Shape
<1>2. \A u \in Threads : tpc'[u] # "idle" => tpc[u] # "idle"
  BY DEF Shape
<1>3. JobsAwaited' /\ QueueAwaited' /\ Once'
  BY <1>2 DEF JobsAwaited, QueueAwaited, Once
<1> QED BY <1>1, <1>3

LEMMA CallsReply ==
  ASSUME Calls, NEW t \in Threads, Reply(t)
  PROVE  Calls'
<1> USE DEF Calls, Reply, Step, Answer
<1> DEFINE c == job[t][1]
<1>0. job[t] \in Clients \X Codes /\ c \in Clients
  BY DEF JobsAwaited
<1>1. Shape'
  <2>1. pc' \in [Clients -> Waiting \cup
                   {"start", "hello", "hello_to", "read", "done", "failed"}]
    BY DEF Shape
  <2> QED BY <2>1 DEF Shape
<1>2. \A d \in Clients : d # c => pc'[d] = pc[d]
  BY DEF Shape
<1>3. \A u \in Threads : tpc'[u] # "idle" =>
        u # t /\ tpc[u] # "idle" /\ job'[u] = job[u]
  BY DEF Shape
<1>4. JobsAwaited'
  BY <1>0, <1>2, <1>3 DEF JobsAwaited, Once
<1>5. QueueAwaited'
  <2>1. \A i \in 1..Len(queue) : queue[i][1] \in Clients
    BY DEF Shape
  <2> QED BY <1>2, <2>1 DEF QueueAwaited, Once
<1>6. Once'
  BY <1>3 DEF Once
<1> QED BY <1>1, <1>4, <1>5, <1>6

LEMMA CallsDie ==
  ASSUME Calls, Die
  PROVE  Calls'
<1> USE DEF Calls, Die, Answer
<1>1. Shape'
  <2>1. queue' \in Seq(Clients \X Codes)
    OBVIOUS
  <2>2. pc' \in [Clients -> Waiting \cup
                   {"start", "hello", "hello_to", "read", "done", "failed"}]
    BY DEF Shape
  <2> QED BY <2>1, <2>2 DEF Shape
<1>2. JobsAwaited' /\ QueueAwaited' /\ Once'
  BY DEF JobsAwaited, QueueAwaited, Once
<1> QED BY <1>1, <1>2

(* A client that does not wait has no call.                                *)
LEMMA CallsIdleClient ==
  ASSUME Calls, NEW c \in Clients, pc[c] \notin Waiting,
         NEW l \in Waiting \cup {"hello", "hello_to", "read", "done", "failed"},
         Goto(c, l),
         UNCHANGED <<server, published, job, tpc, raced>>,
         \/ queue' = queue
         \/ \E code \in Codes :
              queue' = Append(queue, <<c, code>>) /\ l = Caller(code)
  PROVE  Calls'
<1> USE DEF Calls, Goto
<1>1. \A d \in Clients : d # c => pc'[d] = pc[d]
  BY DEF Shape
<1>2. pc'[c] = l
  BY DEF Shape
<1>3. \A t \in Threads : tpc[t] # "idle" => job[t][1] # c /\ job[t][1] \in Clients
  BY DEF JobsAwaited, Caller, Waiting
<1>4. \A i \in 1..Len(queue) : queue[i][1] # c /\ queue[i][1] \in Clients
  BY DEF QueueAwaited, Caller, Waiting, Shape
<1>5. JobsAwaited'
  BY <1>1, <1>3 DEF JobsAwaited
<1>6. CASE queue' = queue
  <2>1. Shape'
    BY <1>6 DEF Shape
  <2>2. QueueAwaited' /\ Once'
    BY <1>1, <1>4, <1>6 DEF QueueAwaited, Once
  <2> QED BY <1>5, <2>1, <2>2
<1>7. ASSUME NEW code \in Codes, queue' = Append(queue, <<c, code>>),
             l = Caller(code)
      PROVE  Calls'
  <2>1. /\ queue' \in Seq(Clients \X Codes) /\ Len(queue') = Len(queue) + 1
        /\ Len(queue) \in Nat
        /\ queue'[Len(queue) + 1] = <<c, code>>
        /\ \A i \in 1..Len(queue) : queue'[i] = queue[i]
    BY <1>7 DEF Shape
  <2>2. Shape'
    BY <2>1 DEF Shape
  <2>3. \A i \in 1..Len(queue') : i \in 1..Len(queue) \/ i = Len(queue) + 1
    BY <2>1
  <2>4. QueueAwaited'
    BY <1>1, <1>2, <1>4, <1>7, <2>1, <2>3 DEF QueueAwaited
  <2>5. Once'
    <3>1. ASSUME NEW i \in 1..Len(queue'), NEW j \in 1..Len(queue'),
                 queue'[i][1] = queue'[j][1]
          PROVE  i = j
      BY <1>4, <2>1, <2>3, <3>1 DEF Once
    <3>2. ASSUME NEW t \in Threads, NEW i \in 1..Len(queue'), tpc'[t] # "idle"
          PROVE  job'[t][1] # queue'[i][1]
      BY <1>3, <2>1, <2>3, <3>2 DEF Once
    <3> QED BY <3>1, <3>2 DEF Once
  <2> QED BY <1>5, <2>2, <2>4, <2>5
<1> QED BY <1>6, <1>7

LEMMA CallsClient ==
  ASSUME Calls, NEW c \in Clients, ClientSteps(c)
  PROVE  Calls'
<1>1. CASE GetService(c)
  BY <1>1, CallsIdleClient DEF GetService, Waiting, threadVars
<1>2. CASE SayHello(c)
  BY <1>2, CallsIdleClient
     DEF SayHello, Transact, Waiting, Codes, Caller, threadVars
<1>3. CASE SayHelloTo(c)
  BY <1>3, CallsIdleClient
     DEF SayHelloTo, Transact, Waiting, Codes, Caller, threadVars, SAYHELLO,
         SAYHELLO_TO
<1>4. CASE Read(c)
  BY <1>4, CallsIdleClient DEF Read, Waiting, threadVars
<1> QED BY <1>1, <1>2, <1>3, <1>4 DEF ClientSteps

LEMMA CallsNext == Calls /\ [Next]_vars => Calls'
<1> SUFFICES ASSUME Calls, [Next]_vars PROVE Calls'
  OBVIOUS
<1>1. CASE UNCHANGED vars \/ Start
  BY <1>1 DEF Calls, Shape, JobsAwaited, QueueAwaited, Once, vars, threadVars,
              clientVars, Start
<1>2. ASSUME NEW t \in Threads, ThreadSteps(t) PROVE Calls'
  <2>1. CASE Load(t) \/ Store(t) \/ Return(t)
    BY <2>1, CallsOnward DEF Load, Store, Return, clientVars
  <2> QED BY <1>2, <2>1, CallsTake, CallsReply DEF ThreadSteps
<1> QED BY <1>1, <1>2, CallsDie, CallsClient DEF Next
-----------------------------------------------------------------------------
LEMMA BegunType ==
  ASSUME NEW S \in SUBSET Clients
  PROVE  /\ IsFiniteSet(S) /\ Cardinality(S) \in Nat
         /\ Cardinality(S) <= Cardinality(Clients)
         /\ Cardinality(Clients) \in Nat
BY ServiceAssumption, FS_Subset, FS_CardinalityType

(* A call that has begun stays one, also when its server dies.             *)
LEMMA BegunGrows ==
  ASSUME Calls, [Next]_vars, NEW code \in Codes
  PROVE  Begun(code) \subseteq Begun(code)'
<1> SUFFICES ASSUME NEW c \in Begun(code) PROVE c \in Begun(code)'
  OBVIOUS
<1> USE DEF Calls
<1>0. c \in Clients
  BY DEF Begun
<1>1. CASE \/ pc[c] \in {"read", "done"}
           \/ code = SAYHELLO /\ pc[c] \in {"hello_to", "await_hello_to"}
  <2> SUFFICES \/ pc'[c] \in {"read", "done"}
               \/ code = SAYHELLO /\ pc'[c] \in {"hello_to", "await_hello_to"}
    BY <1>0 DEF Begun
  <2>1. CASE UNCHANGED pc
    BY <1>1, <2>1
  <2>2. ASSUME NEW cs, NEW parcel, Answer(cs, parcel)
        PROVE  \/ pc'[c] = pc[c] \/ pc[c] = "await_hello"
               \/ pc[c] = "await_hello_to" /\ pc'[c] = "read"
    BY <1>0, <2>2 DEF Answer
  <2>3. CASE Die \/ \E t \in Threads : Reply(t)
    BY <1>1, <2>2, <2>3 DEF Die, Reply
  <2>4. ASSUME NEW d \in Clients, ClientSteps(d)
        PROVE  \/ pc'[c] = pc[c]
               \/ pc[c] = "hello_to" /\ pc'[c] \in {"await_hello_to", "read"}
               \/ pc[c] = "read" /\ pc'[c] = "done"
               \/ pc[c] \in {"start", "hello"}
    BY <1>0, <2>4
       DEF ClientSteps, GetService, SayHello, SayHelloTo, Transact, Read, Goto,
           Shape
  <2> QED BY <1>1, <2>1, <2>3, <2>4
          DEF Next, ThreadSteps, Take, Load, Store, Return, Start, vars,
              clientVars
<1>2. ASSUME NEW t \in Threads, job[t] = <<c, code>>, tpc[t] \in {"return", "reply"}
      PROVE  c \in Begun(code)'
  <2>0. pc[c] = Caller(code)
    BY <1>2 DEF JobsAwaited
  <2>1. CASE job'[t] = job[t] /\ tpc'[t] \in {"return", "reply"}
    BY <1>0, <1>2, <2>1 DEF Begun
  <2>2. CASE Die \/ Reply(t)
    <3>1. pc'[c] = IF code = SAYHELLO THEN "hello_to" ELSE "read"
      BY <1>0, <1>2, <2>0, <2>2 DEF Die, Reply, Answer, Caller, Waiting
    <3> QED BY <1>0, <3>1 DEF Begun
  <2>3. ASSUME NEW u \in Threads, ThreadSteps(u), ~Reply(t)
        PROVE  job'[t] = job[t] /\ tpc'[t] \in {"return", "reply"}
    BY <1>2, <2>3 DEF ThreadSteps, Take, Load, Store, Return, Reply, Step, Shape
  <2>4. ASSUME NEW d \in Clients, ClientSteps(d)
        PROVE  job'[t] = job[t] /\ tpc'[t] \in {"return", "reply"}
    BY <1>2, <2>4 DEF ClientSteps, GetService, SayHello, SayHelloTo, Transact,
                      Read, threadVars
  <2>5. CASE Start \/ UNCHANGED vars
    BY <1>2, <2>1, <2>5 DEF Start, vars, threadVars
  <2> QED BY <2>1, <2>2, <2>3, <2>4, <2>5 DEF Next
<1> QED BY <1>1, <1>2 DEF Begun

LEMMA Monotone ==
  ASSUME Calls, [Next]_vars
  PROVE  /\ N \in [Codes -> 0..Cardinality(Clients)]
         /\ N' \in [Codes -> 0..Cardinality(Clients)]
         /\ \A code \in Codes : N[code] <= N'[code]
<1>1. ASSUME NEW code \in Codes
      PROVE  /\ Cardinality(Begun(code)) \in 0..Cardinality(Clients)
             /\ Cardinality(Begun(code)') \in 0..Cardinality(Clients)
             /\ Cardinality(Begun(code)) <= Cardinality(Begun(code)')
  <2>1. Begun(code) \in SUBSET Clients /\ Begun(code)' \in SUBSET Clients
    BY DEF Begun
  <2> QED BY <2>1, BegunGrows, BegunType, FS_Subset
<1> QED BY <1>1 DEF N

(* A store is the first of its call.                                       *)
LEMMA StoreBegins ==
  ASSUME Calls, NEW t \in Threads, Store(t)
  PROVE  N'[job[t][2]] = N[job[t][2]] + 1
<1> USE DEF Calls
<1>0. PICK c \in Clients, code \in Codes : job[t] = <<c, code>>
  BY DEF JobsAwaited, Store
<1>1. job[t] = <<c, code>> /\ pc[c] = Caller(code)
  BY <1>0 DEF JobsAwaited, Store
<1>2. c \notin Begun(code)
  BY <1>1 DEF Begun, Once, Store, Caller, SAYHELLO, SAYHELLO_TO, Codes
<1>3. Begun(code)' = Begun(code) \cup {c}
  <2>1. tpc'[t] = "return" /\ job' = job /\ pc' = pc
    BY DEF Store, Step, Shape, clientVars
  <2>2. \A u \in Threads : u # t => tpc'[u] = tpc[u]
    BY DEF Store, Step, Shape
  <2>3. tpc[t] = "store"
    BY DEF Store
  <2> QED BY <1>1, <2>1, <2>2, <2>3 DEF Begun
<1>4. Cardinality(Begun(code) \cup {c}) = Cardinality(Begun(code)) + 1
  <2>1. Begun(code) \in SUBSET Clients
    BY DEF Begun
  <2> QED BY <1>2, <2>1, BegunType, FS_AddElement
<1>5. N'[code] = Cardinality(Begun(code)')
  BY <1>1 DEF N
<1>6. N[code] = Cardinality(Begun(code))
  BY DEF N
<1> QED BY <1>1, <1>3, <1>4, <1>5, <1>6
-----------------------------------------------------------------------------
LEMMA CountsInit == Init => Counts
<1> SUFFICES ASSUME Init PROVE Counts
  OBVIOUS
<1>1. N \in [Codes -> 0..Cardinality(Clients)]
  <2>1. \A code \in Codes : Begun(code) \in SUBSET Clients
    BY DEF Begun
  <2> QED BY <2>1, BegunType DEF N
<1>2. Cardinality(Clients) \in Nat
  BY ServiceAssumption, FS_CardinalityType
<1>3. Numbers
  BY <1>2 DEF Init, Numbers
<1>4. CountBound /\ RegBound /\ Parcels /\ ZeroMeansFailed
  BY <1>1 DEF Init, CountBound, RegBound, Parcels, ZeroMeansFailed
<1>5. ResultBound
  BY <1>1 DEF Init, ResultBound, Codes
<1> QED BY <1>3, <1>4, <1>5 DEF Counts

(* The bounds only grow, so that what keeps its number keeps its bound.    *)
LEMMA BoundsGrow ==
  ASSUME Calls, [Next]_vars, Counts
  PROVE  /\ UNCHANGED count => CountBound'
         /\ UNCHANGED result => ResultBound'
         /\ \A c \in Clients :
              \/ UNCHANGED <<pc, reply>>
              \/ reply'[c] = reply[c] /\ pc'[c] = pc[c]
              \/ reply'[c] = <<>>
              \/ reply'[c] = <<0>> /\ pc'[c] \notin {"read", "done"}
              \/ \E v \in 1..N'[SAYHELLO_TO] : reply'[c] = <<0, v>>
              \/ reply'[c] = reply[c] /\ pc[c] \in {"read", "done"}
              => \/ reply'[c] = <<>>
                 \/ reply'[c] = <<0>> /\ pc'[c] \notin {"read", "done"}
                 \/ \E v \in 1..N'[SAYHELLO_TO] : reply'[c] = <<0, v>>
<1>1. /\ N \in [Codes -> Nat] /\ N' \in [Codes -> Nat]
      /\ \A code \in Codes : N[code] <= N'[code]
      /\ SAYHELLO_TO \in Codes
  BY Monotone DEF Codes
<1>2. UNCHANGED count => CountBound'
  BY <1>1 DEF Counts, Numbers, CountBound
<1>3. UNCHANGED result => ResultBound'
  BY <1>1 DEF Counts, Numbers, ResultBound
<1>4. \A v \in 1..N[SAYHELLO_TO] : v \in 1..N'[SAYHELLO_TO]
  BY <1>1
<1> QED BY <1>2, <1>3, <1>4 DEF Counts, Parcels

(* Parcels and registers, one by one.                                      *)
LEMMA NumberFacts ==
  ASSUME Numbers
  PROVE  /\ Cardinality(Clients) \in Nat
         /\ \A t \in Threads :
              reg[t] \in Nat /\ reg[t] \in 0..Cardinality(Clients)
         /\ <<>> \in Seq(0..Cardinality(Clients))
         /\ <<0>> \in Seq(0..Cardinality(Clients))
         /\ \A v \in 0..Cardinality(Clients) :
              <<0, v>> \in Seq(0..Cardinality(Clients))
<1>1. Cardinality(Clients) \in Nat
  BY ServiceAssumption, FS_CardinalityType
<1>2. 0 \in 0..Cardinality(Clients)
  BY <1>1
<1>3. \A t \in Threads : reg[t] \in 0..Cardinality(Clients)
  BY DEF Numbers
<1> HIDE DEF Numbers
<1>4. \A t \in Threads : reg[t] \in Nat
  BY <1>1, <1>3
<1>5. <<>> \in Seq(0..Cardinality(Clients))
  OBVIOUS
<1>6. <<0>> \in Seq(0..Cardinality(Clients))
  BY <1>2
<1>7. ASSUME NEW v \in 0..Cardinality(Clients)
      PROVE  <<0, v>> \in Seq(0..Cardinality(Clients))
  BY <1>2
<1> QED BY <1>1, <1>3, <1>4, <1>5, <1>6, <1>7

(* A thread that does not move keeps its bounds.                           *)
LEMMA RegKept ==
  ASSUME Calls, [Next]_vars, Counts, NEW u \in Threads,
         reg'[u] = reg[u], tpc'[u] = tpc[u], job'[u] = job[u],
         \A code \in Codes : count[code] >= 1 => count'[code] >= 1
  PROVE  /\ tpc'[u] \in {"store", "return", "reply"} => reg'[u] <= N'[job'[u][2]]
         /\ tpc'[u] \in {"return", "reply"} => reg'[u] >= 1
         /\ tpc'[u] = "return" => count'[job'[u][2]] >= 1
<1>1. /\ N \in [Codes -> Nat] /\ N' \in [Codes -> Nat]
      /\ \A code \in Codes : N[code] <= N'[code]
  BY Monotone
<1>2. tpc[u] # "idle" => job[u][2] \in Codes
  BY DEF Calls, JobsAwaited
<1>3. reg[u] \in Nat
  BY DEF Counts, Numbers
<1> QED BY <1>1, <1>2, <1>3 DEF Counts, RegBound

LEMMA CountsOnward ==
  ASSUME Calls, Next, Counts, NEW t \in Threads,
         Take(t) \/ Load(t) \/ Return(t)
  PROVE  Counts'
<1> USE DEF Counts, Take, Load, Return, Step, clientVars
<1>0. /\ N \in [Codes -> 0..Cardinality(Clients)]
      /\ N' \in [Codes -> 0..Cardinality(Clients)]
      /\ \A code \in Codes : N[code] <= N'[code]
      /\ Cardinality(Clients) \in Nat
  BY Monotone, ServiceAssumption, FS_CardinalityType
<1>1. UNCHANGED <<count, pc, reply, result>>
  OBVIOUS
<1>2. CountBound' /\ ResultBound' /\ Parcels' /\ ZeroMeansFailed'
  BY <1>1, BoundsGrow DEF Parcels, ZeroMeansFailed
<1>3. /\ reg'[t] \in 0..Cardinality(Clients)
      /\ tpc'[t] \in {"store", "return", "reply"} => reg'[t] <= N'[job'[t][2]]
      /\ tpc'[t] \in {"return", "reply"} => reg'[t] >= 1
      /\ tpc'[t] # "return"
      /\ reg' \in [Threads -> 0..Cardinality(Clients)]
  <2>1. CASE Take(t)
    BY <2>1 DEF Calls, Shape, Numbers
  <2>2. CASE Load(t) \/ Return(t)
    <3>1. job[t][2] \in Codes
      BY <2>2 DEF Calls, JobsAwaited
    <3>2. /\ count[job[t][2]] \in Nat /\ count[job[t][2]] <= N[job[t][2]]
          /\ reg[t] \in Nat
      BY <3>1 DEF Numbers, CountBound
    <3>3. CASE Load(t)
      BY <1>0, <3>1, <3>2, <3>3 DEF Calls, Shape, Numbers
    <3>4. CASE Return(t)
      <4>1. reg[t] <= N[job[t][2]] /\ reg[t] >= 1 /\ count[job[t][2]] >= 1
        BY <3>4 DEF RegBound
      <4> QED BY <1>0, <3>1, <3>2, <3>4, <4>1 DEF Calls, Shape, Numbers
    <3> QED BY <2>2, <3>3, <3>4
  <2> QED BY <2>1, <2>2
<1>4. \A u \in Threads : u # t =>
        reg'[u] = reg[u] /\ tpc'[u] = tpc[u] /\ job'[u] = job[u]
  BY DEF Calls, Shape, Numbers
<1>5. RegBound'
  BY <1>1, <1>3, <1>4, RegKept DEF RegBound
<1>6. Numbers'
  BY <1>1, <1>3 DEF Numbers
<1> QED BY <1>2, <1>5, <1>6

LEMMA CountsStore ==
  ASSUME Calls, Next, Counts, NEW t \in Threads, Store(t)
  PROVE  Counts'
<1> USE DEF Counts, Store, Step, clientVars
<1> DEFINE k == job[t][2]
<1>0. /\ N \in [Codes -> 0..Cardinality(Clients)]
      /\ N' \in [Codes -> 0..Cardinality(Clients)]
      /\ \A code \in Codes : N[code] <= N'[code]
      /\ Cardinality(Clients) \in Nat
  BY Monotone, ServiceAssumption, FS_CardinalityType
<1>1. k \in Codes
  BY DEF Calls, JobsAwaited
<1>2. reg[t] \in Nat /\ reg[t] <= N[k] /\ N'[k] = N[k] + 1
  <2>1. reg[t] \in Nat
    BY NumberFacts
  <2> QED BY <2>1, StoreBegins DEF RegBound
<1>3. /\ reg'[t] = reg[t] + 1 /\ reg' \in [Threads -> 0..Cardinality(Clients)]
      /\ count' \in [Codes -> Nat] /\ count'[k] = reg[t] + 1
      /\ \A code \in Codes : code # k => count'[code] = count[code]
  <2>1. reg[t] + 1 \in 0..Cardinality(Clients) /\ reg[t] + 1 \in Nat
    BY <1>0, <1>1, <1>2
  <2>2. count \in [Codes -> Nat] /\ reg \in [Threads -> 0..Cardinality(Clients)]
    BY DEF Numbers
  <2> QED BY <1>1, <2>1, <2>2
<1>4. Numbers'
  BY <1>3 DEF Numbers
<1>5. CountBound'
  BY <1>0, <1>1, <1>2, <1>3 DEF CountBound, Numbers
<1>6. ResultBound' /\ Parcels' /\ ZeroMeansFailed'
  BY BoundsGrow DEF Parcels, ZeroMeansFailed
<1>7. \A code \in Codes : count[code] >= 1 => count'[code] >= 1
  BY <1>1, <1>2, <1>3 DEF Numbers
<1>8. ASSUME NEW u \in Threads
      PROVE  /\ tpc'[u] \in {"store", "return", "reply"} => reg'[u] <= N'[job'[u][2]]
             /\ tpc'[u] \in {"return", "reply"} => reg'[u] >= 1
             /\ tpc'[u] = "return" => count'[job'[u][2]] >= 1
  <2>1. CASE u = t
    BY <1>0, <1>1, <1>2, <1>3, <2>1
  <2>2. CASE u # t
    BY <1>7, <2>2, RegKept DEF Calls, Shape, Numbers
  <2> QED BY <2>1, <2>2
<1>9. RegBound'
  BY <1>8 DEF RegBound
<1> QED BY <1>4, <1>5, <1>6, <1>9

LEMMA CountsReply ==
  ASSUME Calls, Next, Counts, NEW t \in Threads, Reply(t)
  PROVE  Counts'
<1> USE DEF Counts, Reply, Step, Answer
<1> DEFINE c == job[t][1]
           k == job[t][2]
<1>0. /\ N \in [Codes -> 0..Cardinality(Clients)]
      /\ N' \in [Codes -> 0..Cardinality(Clients)]
      /\ \A code \in Codes : N[code] <= N'[code]
      /\ Cardinality(Clients) \in Nat
  BY Monotone, ServiceAssumption, FS_CardinalityType
<1>1. c \in Clients /\ k \in Codes /\ pc[c] = Caller(k)
  BY DEF Calls, JobsAwaited
<1>2. reg[t] \in 1..N[k] /\ reg[t] \in 0..Cardinality(Clients)
  <2>1. reg[t] \in Nat /\ reg[t] \in 0..Cardinality(Clients)
    BY NumberFacts
  <2> QED BY <1>0, <1>1, <2>1 DEF RegBound
<1>3. Numbers'
  <2>1. \A d \in Clients : reply'[d] \in Seq(0..Cardinality(Clients))
    BY <1>2, NumberFacts DEF Numbers
  <2>2. reply' \in [Clients -> Seq(0..Cardinality(Clients))]
    BY <2>1
  <2> QED BY <2>2 DEF Numbers
<1>4. CountBound' /\ ResultBound'
  BY BoundsGrow
<1>5. RegBound'
  <2>1. \A u \in Threads : u # t => tpc'[u] = tpc[u] /\ job'[u] = job[u]
    BY DEF Calls, Shape
  <2>2. tpc'[t] = "idle"
    BY DEF Calls, Shape
  <2> QED BY <2>1, <2>2, RegKept DEF RegBound
<1>6. \A d \in Clients : d # c => reply'[d] = reply[d] /\ pc'[d] = pc[d]
  BY DEF Calls, Shape
<1>7. /\ reply'[c] = IF k = SAYHELLO THEN <<0>> ELSE <<0, reg[t]>>
      /\ pc'[c] = IF k = SAYHELLO THEN "hello_to" ELSE "read"
  BY <1>1 DEF Caller
<1>8. Parcels'
  <2>1. CASE k = SAYHELLO
    BY <1>6, <1>7, <2>1, BoundsGrow DEF Parcels
  <2>2. CASE k = SAYHELLO_TO
    BY <1>0, <1>1, <1>2, <1>6, <1>7, <2>2, BoundsGrow
       DEF Parcels, SAYHELLO, SAYHELLO_TO
  <2> QED BY <1>1, <2>1, <2>2 DEF Codes
<1>9. ZeroMeansFailed'
  BY <1>6, <1>7 DEF ZeroMeansFailed
<1> QED BY <1>3, <1>4, <1>5, <1>8, <1>9

LEMMA CountsDie ==
  ASSUME Calls, Next, Counts, Die
  PROVE  Counts'
<1> USE DEF Counts, Die, Answer
<1>1. Numbers'
  <2>1. \A c \in Clients : reply'[c] \in Seq(0..Cardinality(Clients))
    BY NumberFacts DEF Numbers
  <2>2. reply' \in [Clients -> Seq(0..Cardinality(Clients))]
    BY <2>1
  <2> QED BY <2>2, NumberFacts DEF Numbers
<1>2. CountBound' /\ ResultBound'
  BY BoundsGrow
<1>3. RegBound'
  BY DEF RegBound
<1>4. \A c \in Clients :
        \/ reply'[c] = <<>> /\ pc'[c] # "done"
        \/ reply'[c] = reply[c] /\ pc'[c] = pc[c]
  BY DEF Waiting
<1>5. Parcels'
  BY <1>4, BoundsGrow DEF Parcels
<1>6. ZeroMeansFailed'
  BY <1>4 DEF ZeroMeansFailed
<1> QED BY <1>1, <1>2, <1>3, <1>5, <1>6

LEMMA CountsClient ==
  ASSUME Calls, Next, Counts, NEW c \in Clients, ClientSteps(c)
  PROVE  Counts'
<1> USE DEF Counts, Goto
<1>0. UNCHANGED <<count, job, tpc, reg>>
  BY DEF ClientSteps, GetService, SayHello, SayHelloTo, Transact, Read,
         threadVars
<1>1. CountBound' /\ RegBound'
  <2>1. CountBound'
    BY <1>0, BoundsGrow
  <2>2. RegBound'
    BY <1>0, RegKept DEF RegBound
  <2> QED BY <2>1, <2>2
<1>2. \A d \in Clients : d # c => pc'[d] = pc[d] /\ reply'[d] = reply[d]
                                 /\ result'[d] = result[d]
  BY DEF ClientSteps, GetService, SayHello, SayHelloTo, Transact, Read,
         Calls, Shape, Numbers
<1>3. CASE GetService(c) \/ SayHello(c) \/ SayHelloTo(c)
  <2>1. result' = result /\ pc'[c] # "done"
    BY <1>3 DEF GetService, SayHello, SayHelloTo, Transact, Calls, Shape
  <2>2. Numbers'
    <3>1. reply' = reply \/ reply' = [reply EXCEPT ![c] = <<>>]
      BY <1>3 DEF GetService, SayHello, SayHelloTo, Transact
    <3>2. reply' \in [Clients -> Seq(0..Cardinality(Clients))]
      BY <3>1, NumberFacts DEF Numbers
    <3> QED BY <1>0, <2>1, <3>2 DEF Numbers
  <2>3. \/ reply'[c] = <<>>
        \/ reply'[c] = reply[c] /\ pc'[c] \notin {"read", "done"}
    BY <1>3 DEF GetService, SayHello, SayHelloTo, Transact, Calls, Shape, Numbers
  <2>4. Parcels'
    <3>1. ASSUME NEW d \in Clients
          PROVE  \/ reply'[d] = <<>>
                 \/ reply'[d] = <<0>> /\ pc'[d] \notin {"read", "done"}
                 \/ \E v \in 1..N'[SAYHELLO_TO] : reply'[d] = <<0, v>>
      <4>1. CASE d # c
        BY <1>2, <4>1, BoundsGrow
      <4>2. CASE d = c
        <5>1. \/ reply[c] = <<>> \/ reply[c] = <<0>>
              \/ \E v \in 1..N[SAYHELLO_TO] : reply[c] = <<0, v>>
          BY DEF Parcels
        <5>2. \A v \in 1..N[SAYHELLO_TO] : v \in 1..N'[SAYHELLO_TO]
          BY Monotone DEF Codes
        <5> QED BY <4>2, <2>3, <5>1, <5>2
      <4> QED BY <4>1, <4>2
    <3> QED BY <3>1 DEF Parcels
  <2>5. ZeroMeansFailed'
    BY <1>2, <2>1 DEF ZeroMeansFailed
  <2>6. ResultBound'
    BY <2>1, BoundsGrow
  <2> QED BY <1>1, <2>2, <2>4, <2>5, <2>6
<1>4. CASE Read(c)
  <2>0. /\ N \in [Codes -> Nat] /\ N' \in [Codes -> Nat]
        /\ N[SAYHELLO_TO] <= N'[SAYHELLO_TO] /\ SAYHELLO_TO \in Codes
    BY Monotone DEF Codes
  <2>1. pc[c] = "read" /\ pc'[c] = "done" /\ reply' = reply
    BY <1>4 DEF Read, Calls, Shape
  <2>2. \/ reply[c] = <<>> /\ result'[c] = 0
        \/ \E v \in 1..N[SAYHELLO_TO] : reply[c] = <<0, v>> /\ result'[c] = v
    <3>1. CASE reply[c] = <<>>
      BY <1>4, <3>1 DEF Read, readInt32, Numbers
    <3>2. ASSUME NEW v \in 1..N[SAYHELLO_TO], reply[c] = <<0, v>>
          PROVE  result'[c] = v
      BY <1>4, <3>2 DEF Read, readInt32, Numbers
    <3> QED BY <2>1, <3>1, <3>2 DEF Parcels
  <2>3. result' \in [Clients -> Nat]
    BY <1>2, <2>0, <2>2, <1>4 DEF Numbers, Read
  <2>4. Numbers'
    BY <1>0, <2>1, <2>3 DEF Numbers
  <2>5. ResultBound'
    <3>1. ASSUME NEW d \in Clients PROVE result'[d] <= N'[SAYHELLO_TO]
      <4>1. result[d] \in Nat /\ result[d] <= N[SAYHELLO_TO]
        BY DEF ResultBound, Numbers
      <4> QED BY <1>2, <2>0, <2>2, <4>1
    <3> QED BY <3>1 DEF ResultBound
  <2>6. Parcels'
    BY <1>2, <2>1, BoundsGrow DEF Parcels
  <2>7. ZeroMeansFailed'
    BY <1>2, <2>1, <2>2 DEF ZeroMeansFailed
  <2> QED BY <1>1, <2>4, <2>5, <2>6, <2>7
<1> QED BY <1>3, <1>4 DEF ClientSteps

LEMMA CountsNext == Calls /\ Counts /\ [Next]_vars => Counts'
<1> SUFFICES ASSUME Calls, Counts, [Next]_vars PROVE Counts'
  OBVIOUS
<1>1. CASE UNCHANGED vars \/ Start
  <2>1. UNCHANGED <<count, job, tpc, reg, pc, reply, result>>
    BY <1>1 DEF vars, Start, threadVars, clientVars
  <2>2. CountBound' /\ ResultBound' /\ Parcels'
    BY <2>1, BoundsGrow DEF Parcels
  <2>3. RegBound'
    BY <2>1, RegKept DEF RegBound
  <2>4. Numbers' /\ ZeroMeansFailed'
    BY <2>1 DEF Counts, Numbers, ZeroMeansFailed
  <2> QED BY <2>2, <2>3, <2>4 DEF Counts
<1>2. CASE Next
  BY <1>1, <1>2, CountsOnward, CountsStore, CountsReply, CountsDie,
     CountsClient DEF Next, ThreadSteps
<1> QED BY <1>1, <1>2

THEOREM CountsInvariant == Spec => [](Calls /\ Counts)
<1>1. Init => Calls /\ Counts
  BY CallsInit, CountsInit
<1>2. Calls /\ Counts /\ [Next]_vars => (Calls /\ Counts)'
  BY CallsNext, CountsNext
<1> QED BY <1>1, <1>2, PTL DEF Spec

(* Every variable keeps its type; no counter, register or result exceeds   *)
(* the number of clients.                                                  *)
THEOREM TypeCorrect == Spec => []TypeOK
<1>1. Calls /\ Counts => TypeOK
  <2> SUFFICES ASSUME Calls, Counts PROVE TypeOK
    OBVIOUS
  <2>1. N \in [Codes -> 0..Cardinality(Clients)]
    <3>1. \A code \in Codes : Begun(code) \in SUBSET Clients
      BY DEF Begun
    <3> QED BY <3>1, BegunType DEF N
  <2>2. Cardinality(Clients) \in Nat
    BY NumberFacts DEF Counts
  <2>3. \A code \in Codes : count[code] \in 0..Cardinality(Clients)
    BY <2>1, <2>2 DEF Counts, Numbers, CountBound
  <2>4. \A c \in Clients : result[c] \in -1..Cardinality(Clients)
    BY <2>1, <2>2 DEF Counts, Numbers, ResultBound, Codes
  <2>5. count \in [Codes -> 0..Cardinality(Clients)]
    BY <2>3 DEF Counts, Numbers
  <2>6. result \in [Clients -> -1..Cardinality(Clients)]
    BY <2>4 DEF Counts, Numbers
  <2> QED BY <2>5, <2>6 DEF Calls, Shape, Counts, Numbers, TypeOK
<1> QED BY <1>1, CountsInvariant, PTL

(* Although BpHelloService drops the status of transact, a caller of       *)
(* sayHelloTo sees 0 exactly when its call failed: no call that is         *)
(* answered is ever given the count 0, whatever threads do to the counter. *)
THEOREM FailuresSeen == Spec => []ZeroMeansFailed
<1>1. Counts => ZeroMeansFailed
  BY DEF Counts
<1> QED BY <1>1, CountsInvariant, PTL

(* However the unlocked increments of any number of threads interleave,    *)
(* neither a counter nor a count told to a client exceeds the calls of     *)
(* that code so far.                                                       *)
THEOREM CountsBounded == Spec => []NeverAhead
<1>1. Counts => NeverAhead
  BY DEF Counts, CountBound, ResultBound, NeverAhead, N, Codes
<1> QED BY <1>1, CountsInvariant, PTL
-----------------------------------------------------------------------------
(* Who waits for an answer has its call in the queue or with a thread, and *)
(* a thread without a call is idle.                                        *)
IdleFree == \A t \in Threads : tpc[t] = "idle" => job[t] = NoJob

Somewhere(c) ==
  \/ \E i \in 1..Len(queue) : queue[i][1] = c
  \/ \E t \in Threads : job[t][1] = c

Awaiting ==
  \A c \in Clients : pc[c] \in Waiting => server = "running" /\ Somewhere(c)

LEMMA TakeAwaited ==
  ASSUME Calls, Awaiting, NEW t \in Threads, Take(t), IdleFree
  PROVE  Awaiting'
<1>1. /\ Len(queue) >= 1 /\ Head(queue) = queue[1] /\ Len(queue) \in Nat
      /\ Len(queue') = Len(queue) - 1
      /\ \A i \in 1..Len(queue') : queue'[i] = queue[i + 1]
  BY HeadTail DEF Calls, Shape, Take
<1>2. /\ job'[t] = queue[1] /\ \A u \in Threads \ {t} : job'[u] = job[u]
      /\ job[t] = NoJob /\ UNCHANGED <<pc, server>>
  BY <1>1 DEF Take, Calls, Shape, IdleFree, clientVars
<1>. SUFFICES ASSUME NEW c \in Clients, Somewhere(c)
              PROVE  Somewhere(c)'
  BY <1>2 DEF Awaiting
<1>3. ASSUME NEW i \in 1..Len(queue), queue[i][1] = c
      PROVE  Somewhere(c)'
  <2>1. CASE i = 1
    BY <1>2, <1>3, <2>1 DEF Somewhere
  <2>2. CASE i # 1
    <3>1. i - 1 \in 1..Len(queue') /\ (i - 1) + 1 = i
      BY <1>1, <2>2
    <3>2. queue'[i - 1] = queue[i]
      BY <1>1, <3>1
    <3>. QED  BY <1>3, <3>1, <3>2 DEF Somewhere
  <2>. QED  BY <2>1, <2>2
<1>4. ASSUME NEW u \in Threads, job[u][1] = c
      PROVE  Somewhere(c)'
  <2>1. u # t
    BY <1>2, <1>4, ServiceAssumption DEF NoJob
  <2>. QED  BY <1>2, <1>4, <2>1 DEF Somewhere
<1>. QED  BY <1>3, <1>4 DEF Somewhere

LEMMA ReplyAwaited ==
  ASSUME Calls, Awaiting, NEW t \in Threads, Reply(t)
  PROVE  Awaiting'
<1>1. /\ job[t] \in Clients \X Codes /\ pc[job[t][1]] = Caller(job[t][2])
      /\ UNCHANGED <<server, queue>>
  BY DEF Calls, JobsAwaited, Reply
<1>2. pc'[job[t][1]] \notin Waiting
  BY <1>1 DEF Reply, Answer, Caller, Waiting
<1>. SUFFICES ASSUME NEW c \in Clients, pc'[c] \in Waiting
              PROVE  server' = "running" /\ Somewhere(c)'
  BY DEF Awaiting
<1>3. c # job[t][1] /\ pc'[c] = pc[c]
  BY <1>2 DEF Reply, Answer
<1>4. server = "running" /\ Somewhere(c)
  BY <1>3 DEF Awaiting
<1>5. \A u \in Threads : u # t => job'[u] = job[u]
  BY DEF Reply, Calls, Shape
<1>. QED  BY <1>1, <1>3, <1>4, <1>5 DEF Somewhere

LEMMA ClientAwaited ==
  ASSUME Calls, Awaiting, NEW d \in Clients, ClientSteps(d)
  PROVE  Awaiting'
<1>1. /\ UNCHANGED <<server, job>> /\ queue \in Seq(Clients \X Codes)
      /\ \A c \in Clients : c # d => pc'[c] = pc[c]
  BY DEF ClientSteps, GetService, SayHello, SayHelloTo, Transact, Read, Goto, threadVars,
         Calls, Shape
<1>2. CASE queue' = queue /\ pc'[d] \notin Waiting
  BY <1>1, <1>2 DEF Awaiting, Somewhere
<1>3. ASSUME NEW code \in Codes, queue' = Append(queue, <<d, code>>), server = "running"
      PROVE  Awaiting'
  <2>1. /\ Len(queue') = Len(queue) + 1 /\ Len(queue) \in Nat
        /\ queue'[Len(queue) + 1] = <<d, code>>
        /\ \A i \in 1..Len(queue) : queue'[i] = queue[i]
    BY <1>1, <1>3
  <2>2. Somewhere(d)'
    <3>1. Len(queue) + 1 \in 1..Len(queue')
      BY <2>1
    <3>. QED  BY <2>1, <3>1 DEF Somewhere
  <2>3. ASSUME NEW c \in Clients, Somewhere(c)
        PROVE  Somewhere(c)'
    <3>1. \A i \in 1..Len(queue) : i \in 1..Len(queue')
      BY <2>1
    <3>. QED  BY <1>1, <2>1, <2>3, <3>1 DEF Somewhere
  <2>. QED  BY <1>1, <1>3, <2>2, <2>3 DEF Awaiting
<1>4. \/ queue' = queue /\ pc'[d] \notin Waiting
      \/ server = "running" /\ \E code \in Codes : queue' = Append(queue, <<d, code>>)
  BY DEF ClientSteps, GetService, SayHello, SayHelloTo, Transact, Read, Goto, Calls, Shape,
         Waiting, Codes
<1>. QED  BY <1>2, <1>3, <1>4

LEMMA AwaitingNext ==
  ASSUME Calls, IdleFree, Awaiting, [Next]_vars
  PROVE  IdleFree' /\ Awaiting'
<1>1. IdleFree'
  BY DEF Next, vars, threadVars, Start, Die, ThreadSteps, Take, Load, Store, Return, Reply, Step,
         ClientSteps, GetService, SayHello, SayHelloTo, Transact, Read, Calls, Shape, IdleFree
<1>2. ASSUME UNCHANGED <<queue, job, pc>>, server' = server \/ server' = "running"
      PROVE  Awaiting'
  BY <1>2 DEF Awaiting, Somewhere
<1>3. CASE UNCHANGED vars \/ Start \/ \E t \in Threads : Load(t) \/ Store(t) \/ Return(t)
  <2>1. UNCHANGED <<queue, job, pc>> /\ (server' = server \/ server' = "running")
    BY <1>3 DEF vars, threadVars, clientVars, Start, Load, Store, Return
  <2>. QED  BY <1>1, <1>2, <2>1
<1>4. CASE Die
  <2>1. \A c \in Clients : pc'[c] \notin Waiting
    BY <1>4 DEF Die, Answer, Waiting
  <2>. QED  BY <1>1, <2>1 DEF Awaiting
<1>. QED
  BY <1>1, <1>3, <1>4, TakeAwaited, ReplyAwaited, ClientAwaited DEF Next, ThreadSteps

LEMMA AtMostOne ==
  ASSUME NEW S, \A x, y \in S : x = y
  PROVE  Cardinality(S) = IF S = {} THEN 0 ELSE 1
<1>1. CASE S = {}
  BY <1>1, FS_EmptySet
<1>2. CASE S # {}
  <2>1. PICK x : S = {x}
    BY <1>2
  <2>. QED  BY <1>2, <2>1, FS_Singleton
<1>. QED  BY <1>1, <1>2

(* No call is lost and none is doubled, for any clients and any threads.   *)
THEOREM OnePlace == Spec => []CallInOnePlace
<1>1. Init => IdleFree /\ Awaiting
  BY DEF Init, IdleFree, Awaiting, Waiting
<1>2. Calls /\ IdleFree /\ Awaiting => CallInOnePlace
  <2>. SUFFICES ASSUME Calls, IdleFree, Awaiting, NEW c \in Clients
                PROVE  /\ Cardinality({i \in 1..Len(queue) : queue[i][1] = c})
                            + Cardinality({t \in Threads : job[t][1] = c})
                          = IF pc[c] \in Waiting THEN 1 ELSE 0
                       /\ pc[c] \in Waiting => server = "running"
    BY DEF CallInOnePlace
  <2>. DEFINE queued == {i \in 1..Len(queue) : queue[i][1] = c}
              served == {t \in Threads : job[t][1] = c}
  <2>1. \A t \in served : tpc[t] # "idle"
    BY ServiceAssumption DEF IdleFree, NoJob
  <2>2. \A i, j \in queued : i = j
    BY DEF Calls, Once
  <2>3. \A t, u \in served : t = u
    BY <2>1 DEF Calls, Once
  <2>4. queued = {} \/ served = {}
    BY <2>1 DEF Calls, Once
  <2>5. pc[c] \in Waiting => queued # {} \/ served # {}
    BY DEF Awaiting, Somewhere
  <2>6. queued # {} \/ served # {} => pc[c] \in Waiting
    <3>1. \A i \in queued : pc[c] \in Waiting
      BY DEF Calls, QueueAwaited, Caller, Waiting
    <3>2. \A t \in served : pc[c] \in Waiting
      BY <2>1 DEF Calls, JobsAwaited, Caller, Waiting
    <3>. QED  BY <3>1, <3>2
  <2>7. Cardinality(queued) = (IF queued = {} THEN 0 ELSE 1)
    BY <2>2, AtMostOne
  <2>8. Cardinality(served) = (IF served = {} THEN 0 ELSE 1)
    BY <2>3, AtMostOne
  <2>9. Cardinality(queued) + Cardinality(served) = IF pc[c] \in Waiting THEN 1 ELSE 0
    <3>. HIDE DEF queued, served
    <3>. QED  BY <2>4, <2>5, <2>6, <2>7, <2>8
  <2>. QED  BY <2>9 DEF Awaiting
<1>. QED  BY <1>1, <1>2, AwaitingNext, CountsInvariant, PTL DEF Spec
-----------------------------------------------------------------------------
(* Calls of SAYHELLO_TO one after the other.  A thread is counting from    *)
(* the time it takes the call until it has its number.                     *)
Counting(t) == tpc[t] \in {"load", "store", "return"} /\ job[t][2] = SAYHELLO_TO

(* The numbers given so far: in a thread about to reply, or in a parcel.   *)
Given(c, v) ==
  \/ \E t \in Threads : /\ tpc[t] \in {"return", "reply"} /\ reg[t] = v
                         /\ job[t] = <<c, SAYHELLO_TO>>
  \/ reply[c] = <<0, v>>

Apart ==
  ~raced[SAYHELLO_TO] =>
    /\ \A t, u \in Threads : Counting(t) /\ Counting(u) => t = u
    /\ \A t \in Threads :
         Counting(t) /\ tpc[t] # "load" => reg[t] = count[SAYHELLO_TO]
    /\ \A c \in Clients, v \in Nat : Given(c, v) => v <= count[SAYHELLO_TO]
    /\ \A c, d \in Clients, v \in Nat : Given(c, v) /\ Given(d, v) => c = d
    /\ server = "running" => count[SAYHELLO_TO] = N[SAYHELLO_TO]

(* Nobody gets to a call before the server runs.                           *)
NotYet ==
  server = "starting" =>
    /\ ~published /\ count[SAYHELLO_TO] = 0
    /\ \A c \in Clients : pc[c] \in {"start", "failed"}
    /\ \A t \in Threads : tpc[t] = "idle"

(* What a served client was told is what its parcel says.                  *)
Told ==
  \A c \in Clients :
    pc[c] = "done" => reply[c] = <<>> \/ reply[c] = <<0, result[c]>>

Exact == Apart /\ NotYet /\ Told

LEMMA ExactInit == Init => Exact
<1> SUFFICES ASSUME Init PROVE Exact
  OBVIOUS
<1>1. NotYet /\ Told
  BY DEF Init, NotYet, Told, Codes
<1>2. Apart
  <2>1. \A t \in Threads : ~Counting(t)
    BY DEF Init, Counting
  <2>2. \A c \in Clients, v \in Nat : ~Given(c, v)
    BY DEF Init, Given
  <2> QED BY <2>1, <2>2 DEF Apart, Init
<1> QED BY <1>1, <1>2 DEF Exact

LEMMA NotYetNext ==
  ASSUME Calls, NotYet, [Next]_vars
  PROVE  NotYet'
<1> SUFFICES ASSUME server' = "starting" PROVE NotYet'
  BY DEF NotYet
<1> USE DEF NotYet
<1>1. CASE UNCHANGED vars
  BY <1>1 DEF vars, threadVars, clientVars
<1>2. ASSUME NEW t \in Threads, ThreadSteps(t) PROVE FALSE
  BY <1>2 DEF ThreadSteps, Take, Load, Store, Return, Reply
<1>3. ASSUME NEW c \in Clients, ClientSteps(c) PROVE NotYet'
  <2>1. GetService(c) /\ server = "starting"
    BY <1>3 DEF ClientSteps, GetService, SayHello, SayHelloTo, Transact, Read
  <2> QED BY <2>1 DEF GetService, Goto, threadVars, Calls, Shape
<1> QED BY <1>1, <1>2, <1>3 DEF Next, Start, Die

LEMMA ToldNext ==
  ASSUME Calls, Counts, Told, [Next]_vars
  PROVE  Told'
<1> USE DEF Told
<1>1. CASE UNCHANGED <<pc, reply, result>>
  BY <1>1
<1>2. ASSUME NEW t \in Threads, Reply(t) PROVE Told'
  <2>1. pc[job[t][1]] \in Waiting
    BY <1>2 DEF Reply, Calls, JobsAwaited, Caller, Waiting
  <2> QED BY <1>2, <2>1 DEF Reply, Answer, Waiting
<1>3. CASE Die
  BY <1>3 DEF Die, Answer, Waiting
<1>4. ASSUME NEW c \in Clients, ClientSteps(c) PROVE Told'
  <2>1. CASE Read(c)
    <3>1. \A d \in Clients : d # c => pc'[d] = pc[d] /\ reply'[d] = reply[d]
                                     /\ result'[d] = result[d]
      BY <2>1 DEF Read, Goto, Calls, Shape, Counts, Numbers
    <3>2. CASE reply[c] = <<>>
      BY <2>1, <3>1, <3>2 DEF Read
    <3>3. ASSUME NEW v \in 1..N[SAYHELLO_TO], reply[c] = <<0, v>>
          PROVE  reply'[c] = <<0, result'[c]>>
      BY <2>1, <3>3 DEF Read, readInt32, Counts, Numbers
    <3> QED BY <2>1, <3>1, <3>2, <3>3 DEF Read, Counts, Parcels
  <2>2. CASE GetService(c) \/ SayHello(c) \/ SayHelloTo(c)
    BY <2>2 DEF GetService, SayHello, SayHelloTo, Transact, Goto, Calls, Shape,
                Counts, Numbers
  <2> QED BY <1>4, <2>1, <2>2 DEF ClientSteps
<1> QED BY <1>1, <1>2, <1>3, <1>4
        DEF Next, ThreadSteps, Take, Load, Store, Return, Start, vars, clientVars

(* A store of sayHelloTo begins a call.                                    *)
Storing(t) == Store(t) /\ job[t][2] = SAYHELLO_TO

(* While the server runs, only such a store begins one.                    *)
LEMMA BegunExact ==
  ASSUME Calls, NotYet, Next, server' = "running",
         \A t \in Threads : ~Storing(t)
  PROVE  N'[SAYHELLO_TO] = N[SAYHELLO_TO]
<1> USE DEF Calls
<1>1. ASSUME NEW c \in Clients, c \in Begun(SAYHELLO_TO)'
      PROVE  c \in Begun(SAYHELLO_TO)
  <2>1. CASE pc'[c] \in {"read", "done"}
    <3>1. CASE pc[c] \in {"read", "done"}
      BY <3>1 DEF Begun
    <3>2. ASSUME NEW t \in Threads, Reply(t), pc[c] \notin {"read", "done"}
          PROVE  job[t] = <<c, SAYHELLO_TO>> /\ tpc[t] = "reply"
      <4>1. PICK d \in Clients, code \in Codes : job[t] = <<d, code>>
        BY <3>2 DEF Reply, JobsAwaited
      <4>2. pc[d] = Caller(code) /\ tpc[t] = "reply"
        BY <3>2, <4>1 DEF Reply, JobsAwaited
      <4>3. c = d /\ pc[c] = "await_hello_to"
        BY <2>1, <3>2, <4>1 DEF Reply, Answer
      <4> QED BY <4>1, <4>2, <4>3 DEF Caller, Codes
    <3>3. ASSUME NEW d \in Clients, ClientSteps(d), pc[c] \notin {"read", "done"}
          PROVE  FALSE
      BY <2>1, <3>3 DEF ClientSteps, GetService, SayHello, SayHelloTo, Transact,
                        Read, Goto, Shape
    <3>4. CASE UNCHANGED pc
      BY <2>1, <3>1, <3>4
    <3> QED BY <3>1, <3>2, <3>3, <3>4
            DEF Next, ThreadSteps, Take, Load, Store, Return, Start, Die,
                clientVars, Begun
  <2>2. ASSUME NEW t \in Threads, job'[t] = <<c, SAYHELLO_TO>>,
               tpc'[t] \in {"return", "reply"}
        PROVE  c \in Begun(SAYHELLO_TO)
    <3>1. job[t] = job'[t] /\ tpc[t] \in {"return", "reply"}
      <4>1. CASE Store(t)
        <5>1. job[t] = <<c, SAYHELLO_TO>>
          BY <2>2, <4>1 DEF Store
        <5> QED BY <4>1, <5>1 DEF Storing
      <4>2. CASE \E u \in Threads : u # t /\ Store(u)
        BY <2>2, <4>2 DEF Store, Step, Shape
      <4>3. CASE \A u \in Threads : ~Store(u)
        BY <2>2, <4>3
           DEF Next, ThreadSteps, Take, Load, Return, Reply, Step,
               Start, Die, ClientSteps, GetService, SayHello, SayHelloTo,
               Transact, Read, threadVars, Shape
      <4> QED BY <4>1, <4>2, <4>3
    <3> QED BY <2>2, <3>1 DEF Begun
  <2> QED BY <1>1, <2>1, <2>2 DEF Begun, SAYHELLO, SAYHELLO_TO
<1>2. Begun(SAYHELLO_TO)' = Begun(SAYHELLO_TO)
  BY <1>1, BegunGrows DEF Codes, Begun
<1> QED BY <1>2 DEF N, Codes

(* What the steps do to one thread.                                        *)
LEMMA ThreadMoves ==
  ASSUME Calls, Numbers, Next, NEW t \in Threads, ~Take(t), ~Store(t),
         tpc'[t] # "idle"
  PROVE  /\ job'[t] = job[t]
         /\ \/ tpc'[t] = tpc[t] /\ reg'[t] = reg[t]
            \/ Load(t) \/ Return(t)
<1>1. ASSUME NEW u \in Threads, ThreadSteps(u)
      PROVE  /\ job'[t] = job[t]
             /\ \/ tpc'[t] = tpc[t] /\ reg'[t] = reg[t]
                \/ Load(t) \/ Return(t)
  <2>1. CASE u = t
    BY <1>1, <2>1 DEF ThreadSteps, Reply, Load, Return, Step, Calls, Shape
  <2>2. CASE u # t
    BY <1>1, <2>2 DEF ThreadSteps, Take, Load, Store, Return, Reply, Step, Calls,
                      Shape, Numbers
  <2> QED BY <2>1, <2>2
<1>2. ASSUME NEW c \in Clients, ClientSteps(c)
      PROVE  job'[t] = job[t] /\ tpc'[t] = tpc[t] /\ reg'[t] = reg[t]
  BY <1>2 DEF ClientSteps, GetService, SayHello, SayHelloTo, Transact, Read,
              threadVars
<1> QED BY <1>1, <1>2 DEF Next, Start, Die, threadVars

(* No other step gives a number.                                           *)
LEMMA GivenBefore ==
  ASSUME Calls, Counts, Apart, ~raced[SAYHELLO_TO], Next,
         NEW c \in Clients, NEW v \in Nat, Given(c, v)'
  PROVE  \/ Given(c, v)
         \/ \E t \in Threads : /\ Storing(t) /\ job[t] = <<c, SAYHELLO_TO>>
                               /\ v = reg[t] + 1
<1>1. ASSUME reply'[c] = <<0, v>>, reply[c] # <<0, v>>
      PROVE  Given(c, v)
  <2>1. PICK t \in Threads : Reply(t)
    <3>0. <<>> # <<0, v>>
      OBVIOUS
    <3>1. ASSUME Die PROVE FALSE
      <4>1. reply'[c] = <<>> \/ reply'[c] = reply[c]
        BY <3>1 DEF Die, Answer
      <4> QED BY <1>1, <3>0, <4>1
    <3>2. ASSUME NEW d \in Clients, ClientSteps(d) PROVE FALSE
      <4>1. reply' = reply \/ reply' = [reply EXCEPT ![d] = <<>>]
        BY <3>2 DEF ClientSteps, GetService, SayHello, SayHelloTo, Transact, Read
      <4>2. reply'[c] = <<>> \/ reply'[c] = reply[c]
        BY <4>1 DEF Counts, Numbers
      <4> QED BY <1>1, <3>0, <4>2
    <3> QED BY <1>1, <3>1, <3>2
            DEF Next, ThreadSteps, Take, Load, Store, Return, Start, clientVars
  <2>2. PICK d \in Clients, code \in Codes : job[t] = <<d, code>>
    BY <2>1 DEF Reply, Calls, JobsAwaited
  <2>3. c = d /\ code # SAYHELLO /\ reg[t] = v /\ tpc[t] = "reply"
    BY <1>1, <2>1, <2>2 DEF Reply, Answer
  <2> QED BY <2>2, <2>3 DEF Given, Codes
<1>2. ASSUME NEW t \in Threads, tpc'[t] \in {"return", "reply"}, reg'[t] = v,
             job'[t] = <<c, SAYHELLO_TO>>, ~Store(t)
      PROVE  Given(c, v)
  <2>1. ~Take(t) /\ ~Load(t)
    BY <1>2 DEF Take, Load, Step, Calls, Shape
  <2>2. job[t] = <<c, SAYHELLO_TO>>
    BY <1>2, <2>1, ThreadMoves DEF Counts
  <2>3. CASE Return(t)
    <3>1. Counting(t) /\ tpc[t] = "return"
      BY <2>2, <2>3 DEF Counting, Return
    <3>2. reg[t] = count[SAYHELLO_TO]
      BY <3>1 DEF Apart
    <3>3. reg[t] = v
      BY <1>2, <2>2, <2>3, <3>2 DEF Return, Counts, Numbers
    <3> QED BY <2>2, <3>1, <3>3 DEF Given
  <2>4. CASE ~Return(t)
    BY <1>2, <2>1, <2>2, <2>4, ThreadMoves DEF Given, Counts
  <2> QED BY <2>3, <2>4
<1>3. ASSUME NEW t \in Threads, reg'[t] = v, job'[t] = <<c, SAYHELLO_TO>>, Store(t)
      PROVE  Storing(t) /\ job[t] = <<c, SAYHELLO_TO>> /\ v = reg[t] + 1
  <2>1. job[t] = <<c, SAYHELLO_TO>>
    BY <1>3 DEF Store
  <2>2. v = reg[t] + 1
    BY <1>3 DEF Store, Counts, Numbers
  <2> QED BY <1>3, <2>1, <2>2 DEF Storing
<1> QED BY <1>1, <1>2, <1>3 DEF Given

(* Once calls have overlapped they have.                                   *)
LEMMA RacedStays ==
  ASSUME Calls, Next, ~raced'[SAYHELLO_TO]
  PROVE  /\ ~raced[SAYHELLO_TO]
         /\ \A t \in Threads :
              Take(t) /\ job'[t][2] = SAYHELLO_TO =>
                \A u \in Threads : ~Counting(u)
<1>1. ASSUME NEW t \in Threads, Take(t)
      PROVE  /\ ~raced[SAYHELLO_TO]
             /\ job'[t][2] = SAYHELLO_TO => \A u \in Threads : ~Counting(u)
  <2>1. SAYHELLO_TO \in Codes
    BY DEF Codes
  <2>2. job'[t] = Head(queue)
    BY <1>1 DEF Take, Calls, Shape
  <2> QED BY <1>1, <2>1, <2>2 DEF Take, Calls, Shape, Counting
<1>2. ~(\E t \in Threads : Take(t)) => raced' = raced
  BY DEF Next, ThreadSteps, Load, Store, Return, Reply, Start, Die, ClientSteps,
         GetService, SayHello, SayHelloTo, Transact, Read
<1> QED BY <1>1, <1>2

(* Who is counting was, or has just taken its call.                        *)
LEMMA CountingBefore ==
  ASSUME Calls, Numbers, Next, NEW u \in Threads, Counting(u)'
  PROVE  Counting(u) \/ Take(u)
<1>1. CASE Store(u)
  BY <1>1 DEF Counting, Store
<1>2. CASE ~Take(u) /\ ~Store(u)
  BY <1>2, ThreadMoves DEF Counting, Load, Return, Step, Calls, Shape
<1> QED BY <1>1, <1>2

LEMMA ApartNext ==
  ASSUME Calls, Counts, Apart, NotYet, Next
  PROVE  Apart'
<1> SUFFICES ASSUME ~raced'[SAYHELLO_TO] PROVE Apart'
  BY DEF Apart
<1>0. ~raced[SAYHELLO_TO] /\ SAYHELLO_TO \in Codes
  BY RacedStays DEF Codes
<1>1. ASSUME NEW t \in Threads, NEW u \in Threads, Counting(t)', Counting(u)'
      PROVE  t = u
  <2>1. CASE Counting(t) /\ Counting(u)
    BY <1>0, <2>1 DEF Apart
  <2>2. CASE Take(t)
    <3>1. ~Counting(u)
      BY <1>1, <2>2, RacedStays DEF Counting
    <3>2. Take(u)
      BY <1>1, <3>1, CountingBefore DEF Counts
    <3> QED BY <2>2, <3>2 DEF Take, Step, Calls, Shape
  <2>3. CASE Take(u)
    <3>1. ~Counting(t)
      BY <1>1, <2>3, RacedStays DEF Counting
    <3>2. Take(t)
      BY <1>1, <3>1, CountingBefore DEF Counts
    <3> QED BY <2>3, <3>2 DEF Take, Step, Calls, Shape
  <2> QED BY <1>1, <2>1, <2>2, <2>3, CountingBefore DEF Counts
<1>2. CASE \E t \in Threads : Storing(t)
  <2> PICK t \in Threads : Storing(t)
    BY <1>2
  <2>1. PICK c \in Clients : job[t] = <<c, SAYHELLO_TO>>
    BY DEF Storing, Store, Calls, JobsAwaited
  <2>2. Counting(t) /\ tpc[t] = "store"
    BY DEF Storing, Store, Counting
  <2>3. reg[t] = count[SAYHELLO_TO] /\ reg[t] \in Nat
    <3>1. reg[t] \in Nat
      BY NumberFacts DEF Counts
    <3> QED BY <1>0, <2>2, <3>1 DEF Apart
  <2>4. count'[SAYHELLO_TO] = count[SAYHELLO_TO] + 1 /\ reg'[t] = reg[t] + 1
    BY <1>0, <2>3 DEF Storing, Store, Counts, Numbers
  <2>5. \A u \in Threads : Counting(u)' => u = t
    BY <1>1, <2>2 DEF Counting, Storing, Store, Step, Calls, Shape
  <2>6. ASSUME NEW d \in Clients, NEW v \in Nat, Given(d, v)'
        PROVE  \/ Given(d, v) /\ v <= count[SAYHELLO_TO]
               \/ d = c /\ v = count[SAYHELLO_TO] + 1
    <3>1. ASSUME NEW u \in Threads, Storing(u)
          PROVE  u = t
      BY <3>1 DEF Storing, Store, Step, Calls, Shape
    <3> QED BY <1>0, <2>1, <2>3, <2>6, <3>1, GivenBefore DEF Apart
  <2>7. N'[SAYHELLO_TO] = N[SAYHELLO_TO] + 1 /\ server' = server
    BY <2>1, StoreBegins DEF Storing, Store
  <2>8. \A d, e \in Clients, v \in Nat : Given(d, v)' /\ Given(e, v)' => d = e
    BY <1>0, <2>3, <2>6 DEF Apart
  <2>9. \A d \in Clients, v \in Nat : Given(d, v)' => v <= count'[SAYHELLO_TO]
    BY <2>3, <2>4, <2>6
  <2>10. server' = "running" => count'[SAYHELLO_TO] = N'[SAYHELLO_TO]
    BY <1>0, <2>4, <2>7 DEF Apart
  <2>11. \A u \in Threads : Counting(u)' => reg'[u] = count'[SAYHELLO_TO]
    BY <2>3, <2>4, <2>5
  <2> QED BY <1>1, <2>8, <2>9, <2>10, <2>11 DEF Apart
<1>3. CASE \A t \in Threads : ~Storing(t)
  <2>1. count'[SAYHELLO_TO] = count[SAYHELLO_TO]
    <3>1. CASE \E t \in Threads : Store(t)
      BY <1>0, <1>3, <3>1 DEF Storing, Store, Counts, Numbers
    <3>2. CASE ~\E t \in Threads : Store(t)
      BY <3>2 DEF Next, ThreadSteps, Take, Load, Return, Reply, Start, Die,
                  ClientSteps, GetService, SayHello, SayHelloTo, Transact, Read
    <3> QED BY <3>1, <3>2
  <2>2. \A c \in Clients, v \in Nat : Given(c, v)' => Given(c, v)
    BY <1>0, <1>3, GivenBefore
  <2>3. ASSUME NEW u \in Threads, Counting(u)', tpc'[u] # "load"
        PROVE  reg'[u] = count'[SAYHELLO_TO]
    <3>1. ~Take(u) /\ ~Return(u)
      BY <2>3 DEF Counting, Take, Return, Step, Calls, Shape
    <3>2. ~Store(u)
      BY <1>3, <2>3 DEF Counting, Storing, Store
    <3>3. Counting(u) /\ job'[u] = job[u]
      BY <2>3, <3>1, <3>2, CountingBefore, ThreadMoves DEF Counting, Counts
    <3>4. CASE Load(u)
      BY <2>1, <3>3, <3>4 DEF Load, Counting, Counts, Numbers
    <3>5. CASE ~Load(u)
      BY <1>0, <2>1, <2>3, <3>1, <3>2, <3>3, <3>5, ThreadMoves
         DEF Apart, Counting, Counts
    <3> QED BY <3>4, <3>5
  <2>4. server' = "running" => count'[SAYHELLO_TO] = N'[SAYHELLO_TO]
    <3> SUFFICES ASSUME server' = "running"
                 PROVE  count'[SAYHELLO_TO] = N'[SAYHELLO_TO]
      OBVIOUS
    <3>1. N'[SAYHELLO_TO] = N[SAYHELLO_TO]
      BY <1>3, BegunExact
    <3>2. CASE server = "running"
      BY <1>0, <2>1, <3>1, <3>2 DEF Apart
    <3>3. CASE server # "running"
      <4>1. server = "starting"
        BY <3>3 DEF Next, Start, Die, ThreadSteps, Take, Load, Store, Return,
                    Reply, ClientSteps, GetService, SayHello, SayHelloTo,
                    Transact, Read
      <4>2. Begun(SAYHELLO_TO) = {}
        BY <4>1 DEF NotYet, Begun, SAYHELLO, SAYHELLO_TO
      <4>3. N[SAYHELLO_TO] = 0
        BY <1>0, <4>2, FS_EmptySet DEF N
      <4> QED BY <2>1, <3>1, <4>1, <4>3 DEF NotYet
    <3> QED BY <3>2, <3>3
  <2> QED BY <1>0, <1>1, <2>1, <2>2, <2>3, <2>4 DEF Apart
<1> QED BY <1>2, <1>3

(* Calls that were served one after the other are counted exactly, and no  *)
(* two clients are told the same count, whatever died later.               *)
THEOREM ExactWhenApart == Spec => []ExactIfApart
<1>1. Calls /\ Counts /\ Exact => ExactIfApart
  <2> SUFFICES ASSUME Calls, Counts, Exact, ~raced[SAYHELLO_TO]
               PROVE  ExactIfApart
    BY DEF ExactIfApart
  <2>1. server = "running" => count[SAYHELLO_TO] = Cardinality(Begun(SAYHELLO_TO))
    BY DEF Exact, Apart, N, Codes
  <2>2. ASSUME NEW c \in Clients, NEW d \in Clients,
               Served(c), Served(d), result[c] = result[d]
        PROVE  c = d
    <3>1. result[c] \in Nat
      BY DEF Counts, Numbers
    <3>2. Given(c, result[c]) /\ Given(d, result[c])
      BY <2>2 DEF Exact, Told, Served, Given
    <3> QED BY <3>1, <3>2 DEF Exact, Apart
  <2> QED BY <2>1, <2>2 DEF ExactIfApart
<1>2. Init => Exact
  BY ExactInit
<1>3. Calls /\ Counts /\ Exact /\ [Next]_vars => Exact'
  <2> SUFFICES ASSUME Calls, Counts, Exact, [Next]_vars PROVE Exact'
    OBVIOUS
  <2>1. CASE UNCHANGED vars
    BY <2>1 DEF vars, threadVars, clientVars, Exact, Apart, NotYet, Told,
                Counting, Given, N, Begun
  <2>2. CASE Next
    BY <2>2, ApartNext, NotYetNext, ToldNext DEF Exact
  <2> QED BY <2>1, <2>2
<1> QED BY <1>1, <1>2, <1>3, CountsInvariant, PTL DEF Spec
=============================================================================
