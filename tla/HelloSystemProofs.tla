-------------------------- MODULE HelloSystemProofs --------------------------
(***************************************************************************)
(* Theorems about HelloSystem.tla, for any servers, any clients, any       *)
(* number of deaths and restarts.                                          *)
(***************************************************************************)
EXTENDS HelloSystem, FiniteSetTheorems, TLAPS

(* The types, which every step keeps by itself: the range of ref comes      *)
(* later, the requests of each kind of process are needed here.            *)
ServerPCs == {"publish", "await_publish", "done_publish", "loop", "handler",
              "reply", "exit", "dead"}
ClientPCs == {"lookup", "await_lookup", "acquire", "done_lookup", "hello",
              "await_hello", "done_hello", "exit", "dead"}

PcTypes ==
  /\ pc \in [Procs -> PCs]
  /\ \A s \in Servers : pc[s] \in ServerPCs
  /\ \A c \in Clients : pc[c] \in ClientPCs

ProgTypes ==
  /\ PcTypes
  /\ readbuf \in [Procs -> Seq(Command)]
  /\ res \in [Procs -> {-1, 0, 1}]
  /\ io \in [Procs -> IO]
  /\ serving \in [Servers -> Clients \cup {NoProc}]
  /\ g_handle \in [Clients -> Servers \cup {NoProc}]

HelloTypes ==
  /\ cnt \in [Servers \X Counters -> Nat]
  /\ reply \in [Servers -> [status : {0, -1}, num : Nat]]
  /\ ret \in [Clients -> Nat \cup {Nothing, Exception}]
  /\ asks \in [Clients -> Requests \cup {"none"}]
  /\ said \in [Clients -> Nat]

MgrTypes ==
  /\ reg \in [{Name} -> Servers \cup {NoProc}] /\ alive \subseteq Procs
  /\ given \in Servers \cup {NoProc} /\ mgr \in Clients \cup {NoProc}
  /\ manager \in {"down", "starting", "up"} /\ starts \in Nat
  /\ accepted \subseteq Servers
  /\ asked \in [Procs -> {"none", "ADD", "CHECK"}]
  /\ \A p \in Procs : (asked[p] = "ADD" => p \in Servers)
                      /\ (asked[p] = "CHECK" => p \in Clients)

DriverTypes ==
  /\ todo \in [Procs -> Seq(Command)]
  /\ work \in [Servers -> Seq(Clients)]
  /\ call \in [Procs -> Servers \cup {Manager, NoProc}]
  /\ bufs \in [Procs -> SUBSET Procs]
  /\ ref \in [Clients -> Int]

Types == ProgTypes /\ HelloTypes /\ MgrTypes /\ DriverTypes

(* The commands that end a call, and where they may be in a queue.         *)
Answers == {"REPLY", "FAILED", "DEAD"}

Members(q) == {q[i] : i \in 1..Len(q)}

Calm(q) == \A m \in Members(q) : m.cmd \notin Answers
LastOnly(q) == \A i \in 1..Len(q) : q[i].cmd \in Answers => i = Len(q)

Dones == {"done_publish", "acquire", "done_lookup", "done_hello"}

(* A process is owed at most one answer, and only while it waits: it is    *)
(* with the one that is called, or the last command in todo, or the last   *)
(* in readbuf, or already in res.                                          *)
Line(p) ==
  /\ LastOnly(todo[p]) /\ LastOnly(readbuf[p])
  /\ ~Calm(todo[p]) => Calm(readbuf[p]) /\ res[p] = 1 /\ call[p] = NoProc
  /\ ~Calm(readbuf[p]) => res[p] = 1 /\ call[p] = NoProc
  /\ res[p] # 1 => call[p] = NoProc
  /\ pc[p] \notin Waiting \cup {"exit"} =>
       /\ Calm(todo[p]) /\ Calm(readbuf[p])
       /\ res[p] = 1 /\ call[p] = NoProc
  /\ io[p].shared <=> \/ pc[p] \in Waiting /\ res[p] = 0
                      \/ pc[p] \in Dones

(* What a process is reading is its own.                                   *)
Phase(p) ==
  /\ pc[p] = "dead" <=> p \notin alive
  /\ p \notin alive => todo[p] = <<>> /\ readbuf[p] = <<>>
  /\ pc[p] \in {"await_publish", "await_lookup"} => call[p] \in {Manager, NoProc}
  /\ pc[p] = "await_hello" => call[p] # Manager
  /\ \A m \in Members(todo[p]) : m.cmd # "TRANSACTION"
  /\ \A m \in Members(readbuf[p]) : m.cmd = "TRANSACTION" =>
       /\ p \in Servers /\ pc[p] \in {"loop", "exit"}
       /\ readbuf[p] = <<m>> /\ m.from \in Clients

(* Where a server, or a client, is tells what it has.                      *)
ServerPhase(s) ==
  /\ pc[s] \in {"loop", "handler", "reply"} => s \in accepted
  /\ serving[s] # NoProc <=> pc[s] \in {"handler", "reply"}

ClientPhase(c) ==
  /\ ref[c] \in 0..2
  /\ pc[c] = "lookup" \/ call[c] = Manager => ref[c] = 0
  /\ pc[c] \in {"hello", "await_hello", "done_hello"} =>
       g_handle[c] # NoProc /\ ref[c] = 1
  /\ pc[c] \notin {"exit", "dead"} => ret[c] = Nothing
  /\ pc[c] \notin {"await_hello", "done_hello", "exit", "dead"} => said[c] = 0

(* What a reply says is right for the phase its receiver is in.            *)
Refs(r) == IF r = NoProc THEN 0 ELSE 1

TrueAnswer(c, m) ==
  IF m.status = 0
  THEN /\ said[c] # 0
       /\ \/ asks[c] = "SAYHELLO" /\ m.num = 0
          \/ asks[c] = "SAYHELLO_TO" /\ m.num = said[c]
  ELSE said[c] = 0

Good(p, m) ==
  /\ p \in Servers => m.ref = NoProc /\ (m.status = 0 => p \in accepted)
  /\ pc[p] \in {"await_lookup", "acquire"} => ref[p] = Refs(m.ref)
  /\ pc[p] = "done_lookup" => m.ref = g_handle[p] /\ ref[p] = 2 * Refs(m.ref)
  /\ pc[p] \in {"await_hello", "done_hello"} =>
       m.ref = NoProc /\ TrueAnswer(p, m)

AllGood(p, q) == \A m \in Members(q) : m.cmd = "REPLY" => Good(p, m)

Goods(p) ==
  /\ AllGood(p, todo[p]) /\ AllGood(p, readbuf[p])
  /\ io[p].shared => Good(p, io[p])

Fine(p) ==
  /\ Line(p) /\ Phase(p) /\ Goods(p)
  /\ p \in Servers => ServerPhase(p)
  /\ p \in Clients => ClientPhase(p)

(* Those the service manager has queued, and the one it is answering, wait *)
(* for it.                                                                 *)
Asked ==
  /\ \A p \in Procs : asked[p] # "none" =>
       p # mgr /\ (p \in alive => call[p] = Manager)
  /\ mgr \in alive => call[mgr] = Manager

(* Where a request is: being served, read, or queued.                      *)
Place(s, c, k) ==
  \/ k = 0 /\ serving[s] = c
  \/ /\ k = 1 /\ readbuf[s] # <<>>
     /\ Head(readbuf[s]).cmd = "TRANSACTION" /\ Head(readbuf[s]).from = c
  \/ k - 1 \in 1..Len(work[s]) /\ work[s][k - 1] = c

Unique ==
  \A c \in Clients, s, u \in Servers, k, l \in Nat :
    Place(s, c, k) /\ Place(u, c, l) => s = u /\ k = l

Held(c, s, k) ==
  /\ pc[c] \in {"await_hello", "exit", "dead"}
  /\ c \in alive => call[c] = s
  /\ ret[c] \in {Nothing, Zero}
  /\ IF k = 0 /\ pc[s] = "reply" THEN TrueAnswer(c, reply[s]) ELSE said[c] = 0

Placed ==
  \A c \in Clients, s \in Servers, k \in Nat : Place(s, c, k) => Held(c, s, k)

Core == (\A p \in Procs : Fine(p)) /\ Asked /\ Unique /\ Placed

(* The buffers of a process that has not reached the end of main: that of  *)
(* a reply it has to parse or to be done with, those of its requests.      *)
HasReply(q) == \E m \in Members(q) : m.cmd = "REPLY"
Plain(q) == \A m \in Members(q) : m.cmd # "TRANSACTION" => m.from = NoProc

Active(p) == p \in alive /\ pc[p] # "exit"

ReplyBuf(p) ==
  /\ Plain(todo[p]) /\ Plain(readbuf[p])
  /\ Active(p) =>
       (p \in bufs[p] <=> (HasReply(todo[p]) \/ HasReply(readbuf[p]) \/ io[p].shared))

RequestBufs(p) ==
  Active(p) => bufs[p] \ {p} = IF p \in Servers THEN InHand(p) ELSE {}

Buffers == \A p \in Procs : ReplyBuf(p) /\ RequestBufs(p)
-----------------------------------------------------------------------------
(* Queues of commands.                                                     *)

LEMMA Commands ==
  /\ \A c \in {"COMPLETE", "REFS", "TRANSACTION", "REPLY", "FAILED", "DEAD"} :
       BR(c) \in Command /\ BR(c).cmd = c
  /\ \A c \in Clients : /\ Transaction(c) \in Command
                        /\ Transaction(c).cmd = "TRANSACTION"
                        /\ Transaction(c).from = c
  /\ \A st \in {0, -1}, n \in Nat, s \in Servers \cup {NoProc} :
       LET m == Reply(st, n, s)
       IN  /\ m \in Command
           /\ m.cmd = "REPLY" /\ m.status = st /\ m.num = n /\ m.ref = s
BY DEF BR, Transaction, Reply, Command

LEMMA MembersAdd ==
  ASSUME NEW q \in Seq(Command), NEW m \in Command
  PROVE  /\ Append(q, m) = q \o <<m>> /\ q \o <<m>> \in Seq(Command)
         /\ Members(q \o <<m>>) = Members(q) \cup {m}
<1>1. /\ Append(q, m) = q \o <<m>> /\ q \o <<m>> \in Seq(Command)
      /\ Len(q \o <<m>>) = Len(q) + 1 /\ (q \o <<m>>)[Len(q) + 1] = m
      /\ \A i \in 1..Len(q) : (q \o <<m>>)[i] = q[i]
  OBVIOUS
<1>2. \A i \in 1..(Len(q) + 1) : i \in 1..Len(q) \/ i = Len(q) + 1
  OBVIOUS
<1>3. \A x : x \in Members(q \o <<m>>) => x \in Members(q) \cup {m}
  BY <1>1, <1>2 DEF Members
<1>4. \A x : x \in Members(q) \cup {m} => x \in Members(q \o <<m>>)
  BY <1>1 DEF Members
<1>. QED  BY <1>1, <1>3, <1>4

LEMMA MembersTake ==
  ASSUME NEW q \in Seq(Command), q # <<>>
  PROVE  /\ Head(q) \in Members(q) /\ Head(q) \in Command
         /\ Tail(q) \in Seq(Command) /\ Members(Tail(q)) \subseteq Members(q)
BY DEF Members

LEMMA MembersType ==
  ASSUME NEW q \in Seq(Command)
  PROVE  Members(q) \subseteq Command
BY DEF Members

LEMMA MembersNone == Members(<<>>) = {} /\ <<>> \in Seq(Command)
BY DEF Members

(* What is added to a calm queue may be an answer, and an answer that is   *)
(* taken was the last command.                                             *)
LEMMA LastAdd ==
  ASSUME NEW q \in Seq(Command), NEW m \in Command, Calm(q)
  PROVE  LastOnly(q \o <<m>>)
BY DEF LastOnly, Calm, Members

LEMMA LastTake ==
  ASSUME NEW q \in Seq(Command), q # <<>>, LastOnly(q)
  PROVE  /\ LastOnly(Tail(q))
         /\ Head(q).cmd \in Answers => Tail(q) = <<>>
         /\ Calm(q) => Head(q).cmd \notin Answers
         /\ Head(q).cmd \notin Answers /\ Calm(Tail(q)) => Calm(q)
<1>1. \A i \in 1..Len(Tail(q)) : Tail(q)[i] = q[i + 1] /\ i + 1 \in 1..Len(q)
  OBVIOUS
<1>2. Len(Tail(q)) = Len(q) - 1 /\ Len(q) \in Nat \ {0} /\ Head(q) = q[1]
  OBVIOUS
<1>3. LastOnly(Tail(q))
  <2>. SUFFICES ASSUME NEW i \in 1..Len(Tail(q)), Tail(q)[i].cmd \in Answers
                PROVE  i = Len(Tail(q))
    BY DEF LastOnly
  <2>1. PICK j \in 1..Len(q) : j = i + 1 /\ q[j].cmd \in Answers
    BY <1>1
  <2>2. j = Len(q)
    BY <2>1 DEF LastOnly
  <2>. QED  BY <2>1, <2>2, <1>2
<1>4. Head(q).cmd \in Answers => Tail(q) = <<>>
  <2>1. PICK j \in 1..Len(q) : j = 1 /\ q[j] = Head(q)
    BY <1>2
  <2>2. Head(q).cmd \in Answers => j = Len(q)
    BY <2>1 DEF LastOnly
  <2>. QED  BY <2>1, <2>2, <1>2
<1>5. Calm(q) => Head(q).cmd \notin Answers
  BY <1>2 DEF Calm, Members
<1>6. Head(q).cmd \notin Answers /\ Calm(Tail(q)) => Calm(q)
  <2>. SUFFICES ASSUME Head(q).cmd \notin Answers, Calm(Tail(q)),
                       NEW i \in 1..Len(q)
                PROVE  q[i].cmd \notin Answers
    BY DEF Calm, Members
  <2>1. CASE i = 1
    BY <2>1, <1>2
  <2>2. CASE i # 1
    <3>1. i - 1 \in 1..Len(Tail(q)) /\ Tail(q)[i - 1] = q[i]
      BY <2>2, <1>1, <1>2
    <3>. QED  BY <3>1 DEF Calm, Members
  <2>. QED  BY <2>1, <2>2
<1>. QED  BY <1>3, <1>4, <1>5, <1>6

LEMMA LastNone == LastOnly(<<>>) /\ Calm(<<>>)
BY DEF LastOnly, Calm, Members

(* What a delivery does to each queue.                                     *)
Got(q, p, answer, freed, done) ==
  /\ q # p => call'[q] = call[q]
  /\ q = p => call'[q] = NoProc
  /\ q # p /\ q # done => todo'[q] = todo[q] /\ bufs'[q] = bufs[q]
  /\ q = p /\ p \notin alive => todo'[q] = todo[q] /\ bufs'[q] = bufs[q]
  /\ q = p /\ p \in alive =>
       todo'[q] = todo[q] \o <<answer>> /\ bufs'[q] = bufs[q] \cup {q}
  /\ q = done => /\ todo'[q] = todo[q] \o <<BR("COMPLETE")>>
                 /\ bufs'[q] = bufs[q] \ freed

LEMMA Delivered ==
  ASSUME Types, NEW p \in Procs \cup {NoProc}, NEW answer \in Command, NEW freed,
         NEW done \in Procs \cup {NoProc}, done # p, Deliver(p, answer, freed, done),
         NEW q \in Procs
  PROVE  Got(q, p, answer, freed, done)
<1>1. /\ todo[q] \o <<>> = todo[q]
      /\ (todo[q] \o <<answer>>) \o <<>> = todo[q] \o <<answer>>
  BY DEF Types, DriverTypes
<1>2. call'[q] = IF q = p THEN NoProc ELSE call[q]
  BY DEF Deliver, Types, DriverTypes
<1>3. todo'[q] = todo[q] \o (IF q = p /\ p \in alive THEN <<answer>> ELSE <<>>)
                        \o (IF q = done THEN <<BR("COMPLETE")>> ELSE <<>>)
  BY DEF Deliver
<1>4. bufs'[q] = (bufs[q] \cup (IF q = p /\ p \in alive THEN {p} ELSE {}))
                         \ (IF q = done THEN freed ELSE {})
  BY DEF Deliver
<1>. QED  BY <1>1, <1>2, <1>3, <1>4, SystemAssumption DEF Got
-----------------------------------------------------------------------------
(* Types.                                                                  *)

LEMMA DeliverTypes ==
  ASSUME Types, NEW p \in Procs \cup {NoProc}, NEW answer \in Command,
         NEW freed, NEW done \in Procs \cup {NoProc}, done # p,
         Deliver(p, answer, freed, done)
  PROVE  /\ todo' \in [Procs -> Seq(Command)] /\ bufs' \in [Procs -> SUBSET Procs]
         /\ call' \in [Procs -> Servers \cup {Manager, NoProc}]
<1>1. BR("COMPLETE") \in Command
  BY Commands
<1>2. \A q \in Procs : todo'[q] \in Seq(Command) /\ bufs'[q] \subseteq Procs
  <2>. TAKE q \in Procs
  <2>1. /\ todo[q] \in Seq(Command) /\ bufs[q] \subseteq Procs
        /\ todo[q] \o <<answer>> \in Seq(Command)
        /\ todo[q] \o <<BR("COMPLETE")>> \in Seq(Command)
    BY <1>1, MembersAdd DEF Types, DriverTypes
  <2>2. Got(q, p, answer, freed, done)
    BY Delivered
  <2>. QED  BY <2>1, <2>2 DEF Got
<1>3. todo' = [q \in Procs |-> todo'[q]] /\ bufs' = [q \in Procs |-> bufs'[q]]
  BY DEF Deliver
<1>4. call' \in [Procs -> Servers \cup {Manager, NoProc}]
  BY DEF Deliver, Types, DriverTypes
<1>. QED  BY <1>2, <1>3, <1>4

LEMMA AbandonedTypes ==
  ASSUME Types, NEW p, NEW gone, Abandoned(p, gone)
  PROVE  /\ todo' \in [Procs -> Seq(Command)]
         /\ call' \in [Procs -> Servers \cup {Manager, NoProc}]
<1>1. BR("DEAD") \in Command
  BY Commands
<1>. QED  BY <1>1, MembersAdd, MembersNone DEF Abandoned, Types, DriverTypes

LEMMA QueueTypes ==
  ASSUME Types, NEW p \in Procs,
         NEW c \in {"COMPLETE", "REFS", "TRANSACTION", "REPLY", "FAILED", "DEAD"}
  PROVE  /\ Queue(p, <<BR(c)>>) => todo' \in [Procs -> Seq(Command)]
         /\ Queue(p, <<BR("REFS"), BR("COMPLETE")>>) => todo' \in [Procs -> Seq(Command)]
<1>1. \A d \in {"COMPLETE", "REFS", "TRANSACTION", "REPLY", "FAILED", "DEAD"} :
        BR(d) \in Command
  BY Commands
<1>2. <<BR(c)>> \in Seq(Command) /\ <<BR("REFS"), BR("COMPLETE")>> \in Seq(Command)
  BY <1>1
<1>3. /\ todo[p] \o <<BR(c)>> \in Seq(Command)
      /\ todo[p] \o <<BR("REFS"), BR("COMPLETE")>> \in Seq(Command)
  BY <1>2 DEF Types, DriverTypes
<1>. QED  BY <1>3 DEF Queue, Types, DriverTypes

LEMMA CallManagerTypes ==
  ASSUME Types, NEW p \in Procs, NEW r \in {"ADD", "CHECK"}, CallManager(p, r)
  PROVE  /\ todo' \in [Procs -> Seq(Command)]
         /\ call' \in [Procs -> Servers \cup {Manager, NoProc}]
         /\ asked' \in [Procs -> {"none", "ADD", "CHECK"}]
         /\ \A q \in Procs : asked'[q] = asked[q] \/ (q = p /\ asked'[q] = r)
         /\ UNCHANGED <<work, bufs, ref>>
<1>1. \A c \in {"COMPLETE", "REFS", "TRANSACTION", "REPLY", "FAILED", "DEAD"} :
        Queue(p, <<BR(c)>>) => todo' \in [Procs -> Seq(Command)]
  BY QueueTypes
<1>2. Queue(p, <<BR("REFS"), BR("COMPLETE")>>) => todo' \in [Procs -> Seq(Command)]
  BY QueueTypes
<1>3. /\ call \in [Procs -> Servers \cup {Manager, NoProc}]
      /\ asked \in [Procs -> {"none", "ADD", "CHECK"}]
  BY DEF Types, DriverTypes, MgrTypes
<1>4. CASE \/ manager = "down" /\ Refused(p, "DEAD")
           \/ Faults /\ Refused(p, "FAILED")
  <2>1. todo' \in [Procs -> Seq(Command)]
    BY <1>4, <1>1 DEF Refused
  <2>2. UNCHANGED <<asked, work, call, bufs, ref>>
    BY <1>4 DEF Refused
  <2>. QED  BY <2>1, <2>2, <1>3
<1>5. CASE /\ asked' = [asked EXCEPT ![p] = r]
           /\ call' = [call EXCEPT ![p] = Manager]
           /\ Queue(p, IF r = "ADD" THEN <<BR("REFS"), BR("COMPLETE")>>
                                    ELSE <<BR("COMPLETE")>>)
           /\ UNCHANGED <<work, bufs, ref>>
  <2>1. todo' \in [Procs -> Seq(Command)]
    BY <1>5, <1>1, <1>2
  <2>2. /\ asked' \in [Procs -> {"none", "ADD", "CHECK"}]
        /\ call' \in [Procs -> Servers \cup {Manager, NoProc}]
    BY <1>5, <1>3
  <2>3. \A q \in Procs : asked'[q] = asked[q] \/ (q = p /\ asked'[q] = r)
    BY <1>5, <1>3
  <2>. QED  BY <1>5, <2>1, <2>2, <2>3
<1>. QED  BY <1>4, <1>5 DEF CallManager

LEMMA NoIOType == NoIO \in IO /\ NoIO.shared = FALSE
BY DEF NoIO, IO

LEMMA MayAskTypes == \A c \in Clients : MayAsk[c] \subseteq Requests
BY SystemAssumption

LEMMA TransactionType == \A c \in Clients : <<Transaction(c)>> \in Seq(Command)
BY Commands

LEMMA WorkTaken ==
  ASSUME NEW q \in Seq(Clients), q # <<>>
  PROVE  Head(q) \in Clients /\ Tail(q) \in Seq(Clients)
OBVIOUS

(* One command parsed.                                                     *)
LEMMA Parsed ==
  ASSUME NEW c \in Command, NEW r \in {-1, 0, 1}
  PROVE  /\ ResAfter(c.cmd, r) = IF c.cmd = "REPLY" THEN 0
                                 ELSE IF c.cmd \in {"FAILED", "DEAD"} THEN -1 ELSE r
         /\ ResAfter(c.cmd, r) \in {-1, 0, 1}
         /\ [shared |-> TRUE, status |-> c.status, num |-> c.num, ref |-> c.ref] \in IO
         /\ c.from \in Clients \cup {NoProc}
BY DEF ResAfter, Command, IO

LEMMA BufsTypes ==
  ASSUME Types, NEW p \in Procs, NEW c \in Procs,
         bufs' = [bufs EXCEPT ![p] = @ \ {c}] \/ bufs' = [bufs EXCEPT ![p] = @ \cup {c}]
  PROVE  bufs' \in [Procs -> SUBSET Procs]
<1>1. /\ bufs \in [Procs -> SUBSET Procs]
      /\ bufs[p] \ {c} \in SUBSET Procs /\ bufs[p] \cup {c} \in SUBSET Procs
  BY DEF Types, DriverTypes
<1>. QED  BY <1>1

LEMMA RefTypes ==
  ASSUME Types, NEW p \in Procs,
         \/ ref' = ref \/ ref' = [ref EXCEPT ![p] = @ + 1]
         \/ ref' = [ref EXCEPT ![p] = @ - 1] \/ ref' = [ref EXCEPT ![p] = 0]
  PROVE  ref' \in [Clients -> Int]
<1>1. /\ ref \in [Clients -> Int]
      /\ p \in Clients => ref[p] + 1 \in Int /\ ref[p] - 1 \in Int
  BY DEF Types, DriverTypes
<1>. QED  BY <1>1

LEMMA CountTypes ==
  ASSUME Types, NEW s \in Servers, NEW k \in Counters, Count(s, k)
  PROVE  /\ cnt' \in [Servers \X Counters -> Nat] /\ said' \in [Clients -> Nat]
         /\ cnt[<<s, k>>] \in Nat
<1>1. /\ cnt \in [Servers \X Counters -> Nat] /\ <<s, k>> \in Servers \X Counters
      /\ said \in [Clients -> Nat]
  BY DEF Types, HelloTypes
<1>2. cnt[<<s, k>>] \in Nat /\ cnt[<<s, k>>] + 1 \in Nat
  BY <1>1
<1>. QED  BY <1>1, <1>2 DEF Count

LEMMA GotoTypes ==
  ASSUME Types, NEW p \in Procs, NEW l,
         p \in Servers => l \in ServerPCs, p \in Clients => l \in ClientPCs, Goto(p, l)
  PROVE  PcTypes'
<1>1. PcTypes
  BY DEF Types, ProgTypes
<1>2. l \in PCs
  BY DEF Procs, PCs, ServerPCs, ClientPCs, Waiting
<1>3. pc' \in [Procs -> PCs] /\ pc' = [pc EXCEPT ![p] = l]
  BY <1>1, <1>2 DEF Goto, PcTypes
<1>4. \A q \in Procs : pc'[q] = IF q = p THEN l ELSE pc[q]
  BY <1>1, <1>3 DEF PcTypes
<1>5. \A s \in Servers : pc'[s] \in ServerPCs
  BY <1>1, <1>4 DEF PcTypes, Procs
<1>6. \A c \in Clients : pc'[c] \in ClientPCs
  BY <1>1, <1>4 DEF PcTypes, Procs
<1>. QED  BY <1>3, <1>5, <1>6 DEF PcTypes

LEMMA GiveUpTypes ==
  ASSUME Types, NEW p \in Procs, GiveUp(p)
  PROVE  HelloTypes'
<1>1. /\ UNCHANGED <<cnt, reply, asks, said, serving, g_handle>>
      /\ ret' = ret \/ ret' = [ret EXCEPT ![p] = Zero]
  BY DEF GiveUp
<1>2. ret' \in [Clients -> Nat \cup {Nothing, Exception}]
  BY <1>1 DEF Types, HelloTypes, Zero
<1>. QED  BY <1>1, <1>2 DEF Types, HelloTypes

LEMMA TypesKept ==
  ASSUME Types, [Next]_vars
  PROVE  Types'
<1>1. ASSUME NEW p \in Servers, Publish(p)
      PROVE  Types'
  <2>9. PcTypes'
    <3>1. p \in Procs /\ Goto(p, "await_publish")
      BY <1>1 DEF Publish, Procs
    <3>2. /\ p \in Servers => ("await_publish") \in ServerPCs
          /\ p \in Clients => ("await_publish") \in ClientPCs
      BY <1>1, SystemAssumption DEF ServerPCs, ClientPCs, Procs
    <3>. QED  BY <3>1, <3>2, GotoTypes
  <2>1. ProgTypes'
    BY <2>9, <1>1, CallManagerTypes
    DEF Types, ProgTypes, HelloTypes, MgrTypes, DriverTypes, Publish, Procs, progVars, mgrVars, driverVars, helloVars, lifeVars
  <2>2. HelloTypes'
    BY <1>1, CallManagerTypes
    DEF Types, ProgTypes, HelloTypes, MgrTypes, DriverTypes, Publish, At, Goto, PCs, ServerPCs, ClientPCs, Waiting, Procs, progVars, mgrVars, driverVars, helloVars, lifeVars
  <2>5. /\ asked' \in [Procs -> {"none", "ADD", "CHECK"}]
        /\ \A q \in Procs : asked'[q] = asked[q] \/ (q = p /\ asked'[q] = "ADD")
    <3>1. p \in Procs /\ CallManager(p, "ADD")
      BY <1>1 DEF Publish, Procs
    <3>. QED  BY <3>1, CallManagerTypes, Zenon
  <2>3. MgrTypes'
    BY <1>1, <2>5 DEF Types, MgrTypes, Publish, lifeVars
  <2>4. DriverTypes'
    BY <1>1, CallManagerTypes
    DEF Types, ProgTypes, HelloTypes, MgrTypes, DriverTypes, Publish, At, Goto, PCs, ServerPCs, ClientPCs, Waiting, Procs, progVars, mgrVars, driverVars, helloVars, lifeVars
  <2>. QED  BY <2>1, <2>2, <2>3, <2>4 DEF Types
<1>2. ASSUME NEW p \in Clients, Lookup(p)
      PROVE  Types'
  <2>9. PcTypes'
    <3>1. p \in Procs /\ Goto(p, "await_lookup")
      BY <1>2 DEF Lookup, Procs
    <3>2. /\ p \in Servers => ("await_lookup") \in ServerPCs
          /\ p \in Clients => ("await_lookup") \in ClientPCs
      BY <1>2, SystemAssumption DEF ServerPCs, ClientPCs, Procs
    <3>. QED  BY <3>1, <3>2, GotoTypes
  <2>1. ProgTypes'
    BY <2>9, <1>2, CallManagerTypes
    DEF Types, ProgTypes, HelloTypes, MgrTypes, DriverTypes, Lookup, Procs, progVars, mgrVars, driverVars, helloVars, lifeVars
  <2>2. HelloTypes'
    BY <1>2, CallManagerTypes
    DEF Types, ProgTypes, HelloTypes, MgrTypes, DriverTypes, Lookup, At, Goto, PCs, ServerPCs, ClientPCs, Waiting, Procs, progVars, mgrVars, driverVars, helloVars, lifeVars
  <2>5. /\ asked' \in [Procs -> {"none", "ADD", "CHECK"}]
        /\ \A q \in Procs : asked'[q] = asked[q] \/ (q = p /\ asked'[q] = "CHECK")
    <3>1. p \in Procs /\ CallManager(p, "CHECK")
      BY <1>2 DEF Lookup, Procs
    <3>. QED  BY <3>1, CallManagerTypes, Zenon
  <2>3. MgrTypes'
    BY <1>2, <2>5 DEF Types, MgrTypes, Lookup, lifeVars
  <2>4. DriverTypes'
    BY <1>2, CallManagerTypes
    DEF Types, ProgTypes, HelloTypes, MgrTypes, DriverTypes, Lookup, At, Goto, PCs, ServerPCs, ClientPCs, Waiting, Procs, progVars, mgrVars, driverVars, helloVars, lifeVars
  <2>. QED  BY <2>1, <2>2, <2>3, <2>4 DEF Types
<1>3. ASSUME NEW p \in Clients, Hello(p)
      PROVE  Types'
  <2>9. PcTypes'
    <3>1. p \in Procs /\ Goto(p, "await_hello")
      BY <1>3 DEF Hello, Procs
    <3>2. /\ p \in Servers => ("await_hello") \in ServerPCs
          /\ p \in Clients => ("await_hello") \in ClientPCs
      BY <1>3, SystemAssumption DEF ServerPCs, ClientPCs, Procs
    <3>. QED  BY <3>1, <3>2, GotoTypes
  <2>1. ProgTypes'
    BY <2>9, <1>3, QueueTypes, MayAskTypes
    DEF Types, ProgTypes, HelloTypes, MgrTypes, DriverTypes, Hello, Refused, Procs, progVars, mgrVars, driverVars, helloVars, lifeVars
  <2>2. HelloTypes'
    BY <1>3, MayAskTypes
    DEF Types, ProgTypes, HelloTypes, MgrTypes, DriverTypes, Hello, Refused, At, Goto, PCs, ServerPCs, ClientPCs, Waiting, Procs, progVars, mgrVars, driverVars, helloVars, lifeVars
  <2>3. MgrTypes'
    BY <1>3, QueueTypes, MayAskTypes
    DEF Types, ProgTypes, HelloTypes, MgrTypes, DriverTypes, Hello, Refused, At, Goto, PCs, ServerPCs, ClientPCs, Waiting, Procs, progVars, mgrVars, driverVars, helloVars, lifeVars
  <2>5. p \in Procs
    BY DEF Procs
  <2>4. DriverTypes'
    <3>1. ASSUME NEW why \in {"FAILED", "DEAD"}, Refused(p, why)
          PROVE  DriverTypes'
      <4>1. todo' \in [Procs -> Seq(Command)]
        BY <2>5, <3>1, QueueTypes DEF Refused
      <4>. QED  BY <3>1, <4>1 DEF Refused, Types, DriverTypes
    <3>2. CASE /\ g_handle[p] \in alive
               /\ work' = [work EXCEPT ![g_handle[p]] = Append(@, p)]
               /\ bufs' = [bufs EXCEPT ![g_handle[p]] = @ \cup {p}]
               /\ call' = [call EXCEPT ![p] = g_handle[p]]
               /\ Queue(p, <<BR("COMPLETE")>>)
               /\ UNCHANGED <<asked, ref>>
      <4>1. todo' \in [Procs -> Seq(Command)]
        BY <2>5, <3>2, QueueTypes
      <4>2. g_handle[p] \in Servers /\ g_handle[p] \in Procs
        BY <3>2, SystemAssumption DEF Types, ProgTypes, MgrTypes, Procs
      <4>3. bufs' \in [Procs -> SUBSET Procs]
        BY <2>5, <3>2, <4>2, BufsTypes
      <4>. QED  BY <3>2, <4>1, <4>2, <4>3 DEF Types, DriverTypes
    <3>. QED  BY <1>3, <3>1, <3>2 DEF Hello
  <2>. QED  BY <2>1, <2>2, <2>3, <2>4 DEF Types
<1>4. ASSUME NEW p \in Procs, Read(p)
      PROVE  Types'
  <2>6. /\ todo[p] # <<>> => todo[p] \in Seq(Command)
        /\ work[p] # <<>> /\ p \in Servers =>
             /\ <<Transaction(Head(work[p]))>> \in Seq(Command)
             /\ Tail(work[p]) \in Seq(Clients)
    BY TransactionType, WorkTaken DEF Types, DriverTypes
  <2>7. todo[p] = <<>> => work[p] # <<>> /\ p \in Servers
    BY <1>4 DEF Read, Types, ProgTypes, PcTypes, ClientPCs, Waiting, Procs
  <2>9. PcTypes'
    BY <1>4 DEF Read, Types, ProgTypes, PcTypes, progVars
  <2>1. ProgTypes'
    BY <2>9, <1>4, <2>6, <2>7, MembersNone
    DEF Types, ProgTypes, HelloTypes, MgrTypes, DriverTypes, Read, progVars, mgrVars, driverVars, helloVars, lifeVars
  <2>2. HelloTypes'
    BY <1>4, <2>6, <2>7, MembersNone
    DEF Types, ProgTypes, HelloTypes, MgrTypes, DriverTypes, Read, PCs, ServerPCs, ClientPCs, progVars, mgrVars, driverVars, helloVars, lifeVars
  <2>3. MgrTypes'
    BY <1>4, <2>6, <2>7, MembersNone
    DEF Types, ProgTypes, HelloTypes, MgrTypes, DriverTypes, Read, PCs, ServerPCs, ClientPCs, progVars, mgrVars, driverVars, helloVars, lifeVars
  <2>4. DriverTypes'
    BY <1>4, <2>6, <2>7, MembersNone
    DEF Types, ProgTypes, HelloTypes, MgrTypes, DriverTypes, Read, PCs, ServerPCs, ClientPCs, progVars, mgrVars, driverVars, helloVars, lifeVars
  <2>. QED  BY <2>1, <2>2, <2>3, <2>4 DEF Types
<1>5. ASSUME NEW p \in Procs, Parse(p)
      PROVE  Types'
  <2>6. readbuf[p] \in Seq(Command) /\ readbuf[p] # <<>> /\ res[p] \in {-1, 0, 1}
    BY <1>5 DEF Types, ProgTypes, Parse
  <2>7. Head(readbuf[p]) \in Command /\ Tail(readbuf[p]) \in Seq(Command)
    BY <2>6, MembersTake
  <2>8. LET c == Head(readbuf[p])
        IN  /\ ResAfter(c.cmd, res[p]) \in {-1, 0, 1}
            /\ [shared |-> TRUE, status |-> c.status, num |-> c.num, ref |-> c.ref] \in IO
            /\ c.from \in Clients \cup {NoProc}
    BY <2>6, <2>7, Parsed, Zenon
  <2>9. PcTypes'
    <3>1. CASE Goto(p, "handler") /\ pc[p] = "loop"
      <4>1. p \notin Clients
        BY <3>1 DEF Types, ProgTypes, PcTypes, ClientPCs
      <4>2. "handler" \in ServerPCs
        BY DEF ServerPCs
      <4>. QED  BY <3>1, <4>1, <4>2, GotoTypes
    <3>2. CASE UNCHANGED pc
      BY <3>2 DEF Types, ProgTypes, PcTypes
    <3>. QED  BY <1>5, <3>1, <3>2 DEF Parse
  <2>1. ProgTypes'
    BY <2>9, <1>5, <2>7, <2>8
    DEF Types, ProgTypes, HelloTypes, MgrTypes, DriverTypes, Parse, progVars, mgrVars, driverVars, helloVars, lifeVars
  <2>2. HelloTypes'
    BY <1>5, <2>7, <2>8
    DEF Types, ProgTypes, HelloTypes, MgrTypes, DriverTypes, Parse, Goto, PCs, ServerPCs, ClientPCs, Waiting, progVars, mgrVars, driverVars, helloVars, lifeVars
  <2>3. MgrTypes'
    BY <1>5, <2>7, <2>8
    DEF Types, ProgTypes, HelloTypes, MgrTypes, DriverTypes, Parse, Goto, PCs, ServerPCs, ClientPCs, Waiting, progVars, mgrVars, driverVars, helloVars, lifeVars
  <2>4. DriverTypes'
    BY <1>5, <2>7, <2>8
    DEF Types, ProgTypes, HelloTypes, MgrTypes, DriverTypes, Parse, Goto, PCs, ServerPCs, ClientPCs, Waiting, progVars, mgrVars, driverVars, helloVars, lifeVars
  <2>. QED  BY <2>1, <2>2, <2>3, <2>4 DEF Types
<1>6. ASSUME NEW p \in Procs, CallDone(p)
      PROVE  Types'
  <2>9. PcTypes'
    <3>. DEFINE l == CASE pc[p] = "await_publish" -> "done_publish"
                       [] pc[p] = "await_lookup"  -> "acquire"
                       [] pc[p] = "await_hello"   -> "done_hello"
    <3>1. /\ p \in Servers => pc[p] = "await_publish"
          /\ p \in Clients => pc[p] \in {"await_lookup", "await_hello"}
      BY <1>6 DEF CallDone, Waiting, Types, ProgTypes, PcTypes, ServerPCs, ClientPCs
    <3>2. /\ p \in Servers => l \in ServerPCs
          /\ p \in Clients => l \in ClientPCs
      BY <3>1 DEF ServerPCs, ClientPCs
    <3>3. Goto(p, l)
      BY <1>6 DEF CallDone
    <3>. QED  BY <3>2, <3>3, GotoTypes
  <2>1. ProgTypes'
    BY <2>9, <1>6
    DEF Types, ProgTypes, HelloTypes, MgrTypes, DriverTypes, CallDone, progVars, mgrVars, driverVars, helloVars, lifeVars
  <2>2. HelloTypes'
    BY <1>6
    DEF Types, ProgTypes, HelloTypes, MgrTypes, DriverTypes, CallDone, Goto, PCs, ServerPCs, ClientPCs, Waiting, progVars, mgrVars, driverVars, helloVars, lifeVars
  <2>3. MgrTypes'
    BY <1>6
    DEF Types, ProgTypes, HelloTypes, MgrTypes, DriverTypes, CallDone, Goto, PCs, ServerPCs, ClientPCs, Waiting, progVars, mgrVars, driverVars, helloVars, lifeVars
  <2>4. DriverTypes'
    BY <1>6
    DEF Types, ProgTypes, HelloTypes, MgrTypes, DriverTypes, CallDone, Goto, PCs, ServerPCs, ClientPCs, Waiting, progVars, mgrVars, driverVars, helloVars, lifeVars
  <2>. QED  BY <2>1, <2>2, <2>3, <2>4 DEF Types
<1>7. ASSUME NEW p \in Procs, ParseEnds(p)
      PROVE  Types'
  <2>9. PcTypes'
    <3>1. p \in Procs /\ Goto(p, "exit")
      BY <1>7 DEF ParseEnds, GiveUp, Procs
    <3>2. /\ p \in Servers => ("exit") \in ServerPCs
          /\ p \in Clients => ("exit") \in ClientPCs
      BY <1>7, SystemAssumption DEF ServerPCs, ClientPCs, Procs
    <3>. QED  BY <3>1, <3>2, GotoTypes
  <2>1. ProgTypes'
    BY <2>9, <1>7, NoIOType
    DEF Types, ProgTypes, HelloTypes, MgrTypes, DriverTypes, ParseEnds, GiveUp, progVars, mgrVars, driverVars, helloVars, lifeVars
  <2>2. HelloTypes'
    BY <1>7, GiveUpTypes DEF ParseEnds
  <2>3. MgrTypes'
    BY <1>7, NoIOType
    DEF Types, ProgTypes, HelloTypes, MgrTypes, DriverTypes, ParseEnds, GiveUp, Goto, PCs, ServerPCs, ClientPCs, progVars, mgrVars, driverVars, helloVars, lifeVars
  <2>4. DriverTypes'
    BY <1>7, NoIOType
    DEF Types, ProgTypes, HelloTypes, MgrTypes, DriverTypes, ParseEnds, GiveUp, Goto, PCs, ServerPCs, ClientPCs, progVars, mgrVars, driverVars, helloVars, lifeVars
  <2>. QED  BY <2>1, <2>2, <2>3, <2>4 DEF Types
<1>8. ASSUME NEW p \in Procs, OpenFails(p)
      PROVE  Types'
  <2>9. PcTypes'
    <3>1. p \in Procs /\ Goto(p, "exit")
      BY <1>8 DEF OpenFails, Procs
    <3>2. /\ p \in Servers => ("exit") \in ServerPCs
          /\ p \in Clients => ("exit") \in ClientPCs
      BY <1>8, SystemAssumption DEF ServerPCs, ClientPCs, Procs
    <3>. QED  BY <3>1, <3>2, GotoTypes
  <2>1. ProgTypes'
    BY <2>9, <1>8
    DEF Types, ProgTypes, HelloTypes, MgrTypes, DriverTypes, OpenFails, progVars, mgrVars, driverVars, helloVars, lifeVars
  <2>2. HelloTypes'
    BY <1>8
    DEF Types, ProgTypes, HelloTypes, MgrTypes, DriverTypes, OpenFails, Goto, PCs, ServerPCs, ClientPCs, progVars, mgrVars, driverVars, helloVars, lifeVars
  <2>3. MgrTypes'
    BY <1>8
    DEF Types, ProgTypes, HelloTypes, MgrTypes, DriverTypes, OpenFails, Goto, PCs, ServerPCs, ClientPCs, progVars, mgrVars, driverVars, helloVars, lifeVars
  <2>4. DriverTypes'
    BY <1>8
    DEF Types, ProgTypes, HelloTypes, MgrTypes, DriverTypes, OpenFails, Goto, PCs, ServerPCs, ClientPCs, progVars, mgrVars, driverVars, helloVars, lifeVars
  <2>. QED  BY <2>1, <2>2, <2>3, <2>4 DEF Types
<1>9. ASSUME NEW p \in Procs, ReadFails(p)
      PROVE  Types'
  <2>9. PcTypes'
    <3>1. p \in Procs /\ Goto(p, "exit")
      BY <1>9 DEF ReadFails, GiveUp, Procs
    <3>2. /\ p \in Servers => ("exit") \in ServerPCs
          /\ p \in Clients => ("exit") \in ClientPCs
      BY <1>9, SystemAssumption DEF ServerPCs, ClientPCs, Procs
    <3>. QED  BY <3>1, <3>2, GotoTypes
  <2>1. ProgTypes'
    BY <2>9, <1>9, NoIOType
    DEF Types, ProgTypes, HelloTypes, MgrTypes, DriverTypes, ReadFails, GiveUp, progVars, mgrVars, driverVars, helloVars, lifeVars
  <2>2. HelloTypes'
    BY <1>9, GiveUpTypes DEF ReadFails
  <2>3. MgrTypes'
    BY <1>9, NoIOType
    DEF Types, ProgTypes, HelloTypes, MgrTypes, DriverTypes, ReadFails, GiveUp, Goto, PCs, ServerPCs, ClientPCs, progVars, mgrVars, driverVars, helloVars, lifeVars
  <2>4. DriverTypes'
    BY <1>9, NoIOType
    DEF Types, ProgTypes, HelloTypes, MgrTypes, DriverTypes, ReadFails, GiveUp, Goto, PCs, ServerPCs, ClientPCs, progVars, mgrVars, driverVars, helloVars, lifeVars
  <2>. QED  BY <2>1, <2>2, <2>3, <2>4 DEF Types
<1>10. ASSUME NEW p \in Servers, PublishDone(p)
      PROVE  Types'
  <2>9. PcTypes'
    <3>1. p \in Procs /\ Goto(p, IF io[p].status = 0 THEN "loop" ELSE "exit")
      BY <1>10 DEF PublishDone, Procs
    <3>2. /\ p \in Servers => (IF io[p].status = 0 THEN "loop" ELSE "exit") \in ServerPCs
          /\ p \in Clients => (IF io[p].status = 0 THEN "loop" ELSE "exit") \in ClientPCs
      BY <1>10, SystemAssumption DEF ServerPCs, ClientPCs, Procs
    <3>. QED  BY <3>1, <3>2, GotoTypes
  <2>1. ProgTypes'
    BY <2>9, <1>10, NoIOType
    DEF Types, ProgTypes, HelloTypes, MgrTypes, DriverTypes, PublishDone, binder_done, Procs, progVars, mgrVars, driverVars, helloVars, lifeVars
  <2>2. HelloTypes'
    BY <1>10, NoIOType
    DEF Types, ProgTypes, HelloTypes, MgrTypes, DriverTypes, PublishDone, binder_done, At, Goto, PCs, ServerPCs, ClientPCs, Procs, progVars, mgrVars, driverVars, helloVars, lifeVars
  <2>3. MgrTypes'
    BY <1>10, NoIOType
    DEF Types, ProgTypes, HelloTypes, MgrTypes, DriverTypes, PublishDone, binder_done, At, Goto, PCs, ServerPCs, ClientPCs, Procs, progVars, mgrVars, driverVars, helloVars, lifeVars
  <2>4. DriverTypes'
    BY <1>10, BufsTypes, RefTypes
    DEF Types, DriverTypes, PublishDone, binder_done, Procs
  <2>. QED  BY <2>1, <2>2, <2>3, <2>4 DEF Types
<1>11. ASSUME NEW p \in Clients, Acquire(p)
      PROVE  Types'
  <2>9. PcTypes'
    <3>1. p \in Procs /\ Goto(p, "done_lookup")
      BY <1>11 DEF Acquire, Procs
    <3>2. /\ p \in Servers => ("done_lookup") \in ServerPCs
          /\ p \in Clients => ("done_lookup") \in ClientPCs
      BY <1>11, SystemAssumption DEF ServerPCs, ClientPCs, Procs
    <3>. QED  BY <3>1, <3>2, GotoTypes
  <2>1. ProgTypes'
    BY <2>9, <1>11
    DEF Types, ProgTypes, HelloTypes, MgrTypes, DriverTypes, Acquire, Procs, IO, progVars, mgrVars, driverVars, helloVars, lifeVars
  <2>2. HelloTypes'
    BY <1>11
    DEF Types, ProgTypes, HelloTypes, MgrTypes, DriverTypes, Acquire, At, Goto, PCs, ServerPCs, ClientPCs, Procs, IO, progVars, mgrVars, driverVars, helloVars, lifeVars
  <2>3. MgrTypes'
    BY <1>11
    DEF Types, ProgTypes, HelloTypes, MgrTypes, DriverTypes, Acquire, At, Goto, PCs, ServerPCs, ClientPCs, Procs, IO, progVars, mgrVars, driverVars, helloVars, lifeVars
  <2>4. DriverTypes'
    BY <1>11, RefTypes
    DEF Types, DriverTypes, Acquire, Procs
  <2>. QED  BY <2>1, <2>2, <2>3, <2>4 DEF Types
<1>12. ASSUME NEW p \in Clients, LookupDone(p)
      PROVE  Types'
  <2>9. PcTypes'
    <3>1. p \in Procs /\ Goto(p, IF g_handle[p] # NoProc THEN "hello" ELSE "exit")
      BY <1>12 DEF LookupDone, Procs
    <3>2. /\ p \in Servers => (IF g_handle[p] # NoProc THEN "hello" ELSE "exit") \in ServerPCs
          /\ p \in Clients => (IF g_handle[p] # NoProc THEN "hello" ELSE "exit") \in ClientPCs
      BY <1>12, SystemAssumption DEF ServerPCs, ClientPCs, Procs
    <3>. QED  BY <3>1, <3>2, GotoTypes
  <2>1. ProgTypes'
    BY <2>9, <1>12, NoIOType
    DEF Types, ProgTypes, HelloTypes, MgrTypes, DriverTypes, LookupDone, binder_done, Procs, progVars, mgrVars, driverVars, helloVars, lifeVars
  <2>2. HelloTypes'
    BY <1>12, NoIOType
    DEF Types, ProgTypes, HelloTypes, MgrTypes, DriverTypes, LookupDone, binder_done, At, Goto, PCs, ServerPCs, ClientPCs, Procs, progVars, mgrVars, driverVars, helloVars, lifeVars
  <2>3. MgrTypes'
    BY <1>12, NoIOType
    DEF Types, ProgTypes, HelloTypes, MgrTypes, DriverTypes, LookupDone, binder_done, At, Goto, PCs, ServerPCs, ClientPCs, Procs, progVars, mgrVars, driverVars, helloVars, lifeVars
  <2>4. DriverTypes'
    BY <1>12, BufsTypes, RefTypes
    DEF Types, DriverTypes, LookupDone, binder_done, Procs
  <2>. QED  BY <2>1, <2>2, <2>3, <2>4 DEF Types
<1>13. ASSUME NEW p \in Clients, HelloDone(p)
      PROVE  Types'
  <2>9. PcTypes'
    <3>1. p \in Procs /\ Goto(p, "exit")
      BY <1>13 DEF HelloDone, Procs
    <3>2. /\ p \in Servers => ("exit") \in ServerPCs
          /\ p \in Clients => ("exit") \in ClientPCs
      BY <1>13, SystemAssumption DEF ServerPCs, ClientPCs, Procs
    <3>. QED  BY <3>1, <3>2, GotoTypes
  <2>1. ProgTypes'
    BY <2>9, <1>13, NoIOType
    DEF Types, ProgTypes, HelloTypes, MgrTypes, DriverTypes, HelloDone, binder_done, Procs, IO, progVars, mgrVars, driverVars, helloVars, lifeVars
  <2>2. HelloTypes'
    BY <1>13, NoIOType
    DEF Types, ProgTypes, HelloTypes, MgrTypes, DriverTypes, HelloDone, binder_done, At, Goto, PCs, ServerPCs, ClientPCs, Procs, IO, progVars, mgrVars, driverVars, helloVars, lifeVars
  <2>3. MgrTypes'
    BY <1>13, NoIOType
    DEF Types, ProgTypes, HelloTypes, MgrTypes, DriverTypes, HelloDone, binder_done, At, Goto, PCs, ServerPCs, ClientPCs, Procs, IO, progVars, mgrVars, driverVars, helloVars, lifeVars
  <2>4. DriverTypes'
    BY <1>13, BufsTypes, RefTypes
    DEF Types, DriverTypes, HelloDone, binder_done, Procs
  <2>. QED  BY <2>1, <2>2, <2>3, <2>4 DEF Types
<1>14. ASSUME NEW p \in Servers, sayhello(p)
      PROVE  Types'
  <2>9. PcTypes'
    <3>1. p \in Procs /\ Goto(p, "reply")
      BY <1>14 DEF sayhello, Handler, Procs
    <3>2. /\ p \in Servers => ("reply") \in ServerPCs
          /\ p \in Clients => ("reply") \in ClientPCs
      BY <1>14, SystemAssumption DEF ServerPCs, ClientPCs, Procs
    <3>. QED  BY <3>1, <3>2, GotoTypes
  <2>1. ProgTypes'
    BY <2>9, <1>14
    DEF Types, ProgTypes, HelloTypes, MgrTypes, DriverTypes, sayhello, Handler, Count, Procs, Counters, progVars, mgrVars, driverVars, helloVars, lifeVars
  <2>2. HelloTypes'
    BY <1>14, CountTypes
    DEF Types, HelloTypes, sayhello, Handler, Counters
  <2>3. MgrTypes'
    BY <1>14
    DEF Types, ProgTypes, HelloTypes, MgrTypes, DriverTypes, sayhello, Handler, Count, At, Goto, PCs, ServerPCs, ClientPCs, Procs, Counters, progVars, mgrVars, driverVars, helloVars, lifeVars
  <2>4. DriverTypes'
    BY <1>14
    DEF Types, ProgTypes, HelloTypes, MgrTypes, DriverTypes, sayhello, Handler, Count, At, Goto, PCs, ServerPCs, ClientPCs, Procs, Counters, progVars, mgrVars, driverVars, helloVars, lifeVars
  <2>. QED  BY <2>1, <2>2, <2>3, <2>4 DEF Types
<1>15. ASSUME NEW p \in Servers, sayhello_to(p)
      PROVE  Types'
  <2>6. /\ cnt' \in [Servers \X Counters -> Nat] /\ said' \in [Clients -> Nat]
        /\ cnt[<<p, "SAYHELLO_TO">>] + 1 \in Nat
    <3>1. "SAYHELLO_TO" \in Counters /\ Count(p, "SAYHELLO_TO")
      BY <1>15 DEF sayhello_to, Counters
    <3>2. cnt[<<p, "SAYHELLO_TO">>] \in Nat
      BY <3>1, CountTypes
    <3>. QED  BY <3>1, <3>2, CountTypes
  <2>9. PcTypes'
    <3>1. p \in Procs /\ Goto(p, "reply")
      BY <1>15 DEF sayhello_to, Handler, Procs
    <3>2. /\ p \in Servers => ("reply") \in ServerPCs
          /\ p \in Clients => ("reply") \in ClientPCs
      BY <1>15, SystemAssumption DEF ServerPCs, ClientPCs, Procs
    <3>. QED  BY <3>1, <3>2, GotoTypes
  <2>1. ProgTypes'
    BY <2>9, <1>15
    DEF Types, ProgTypes, HelloTypes, MgrTypes, DriverTypes, sayhello_to, Handler, Count, Procs, Counters, progVars, mgrVars, driverVars, helloVars, lifeVars
  <2>2. HelloTypes'
    BY <1>15, <2>6
    DEF Types, HelloTypes, sayhello_to, Handler, Counters
  <2>3. MgrTypes'
    BY <1>15
    DEF Types, ProgTypes, HelloTypes, MgrTypes, DriverTypes, sayhello_to, Handler, Count, At, Goto, PCs, ServerPCs, ClientPCs, Procs, Counters, progVars, mgrVars, driverVars, helloVars, lifeVars
  <2>4. DriverTypes'
    BY <1>15
    DEF Types, ProgTypes, HelloTypes, MgrTypes, DriverTypes, sayhello_to, Handler, Count, At, Goto, PCs, ServerPCs, ClientPCs, Procs, Counters, progVars, mgrVars, driverVars, helloVars, lifeVars
  <2>. QED  BY <2>1, <2>2, <2>3, <2>4 DEF Types
<1>16. ASSUME NEW p \in Servers, Reject(p)
      PROVE  Types'
  <2>9. PcTypes'
    <3>1. p \in Procs /\ Goto(p, "reply")
      BY <1>16 DEF Reject, Handler, Procs
    <3>2. /\ p \in Servers => ("reply") \in ServerPCs
          /\ p \in Clients => ("reply") \in ClientPCs
      BY <1>16, SystemAssumption DEF ServerPCs, ClientPCs, Procs
    <3>. QED  BY <3>1, <3>2, GotoTypes
  <2>1. ProgTypes'
    BY <2>9, <1>16
    DEF Types, ProgTypes, HelloTypes, MgrTypes, DriverTypes, Reject, Handler, Procs, progVars, mgrVars, driverVars, helloVars, lifeVars
  <2>2. HelloTypes'
    BY <1>16
    DEF Types, ProgTypes, HelloTypes, MgrTypes, DriverTypes, Reject, Handler, At, Goto, PCs, ServerPCs, ClientPCs, Procs, progVars, mgrVars, driverVars, helloVars, lifeVars
  <2>3. MgrTypes'
    BY <1>16
    DEF Types, ProgTypes, HelloTypes, MgrTypes, DriverTypes, Reject, Handler, At, Goto, PCs, ServerPCs, ClientPCs, Procs, progVars, mgrVars, driverVars, helloVars, lifeVars
  <2>4. DriverTypes'
    BY <1>16
    DEF Types, ProgTypes, HelloTypes, MgrTypes, DriverTypes, Reject, Handler, At, Goto, PCs, ServerPCs, ClientPCs, Procs, progVars, mgrVars, driverVars, helloVars, lifeVars
  <2>. QED  BY <2>1, <2>2, <2>3, <2>4 DEF Types
<1>17. ASSUME NEW p \in Servers, SendReply(p)
      PROVE  Types'
  <2>1. serving[p] \in Procs \cup {NoProc} /\ serving[p] # p
    BY SystemAssumption DEF Types, ProgTypes, Procs
  <2>2. Reply(reply[p].status, reply[p].num, NoProc) \in Command
    BY Commands DEF Types, HelloTypes
  <2>3. p \in Procs
    BY DEF Procs
  <2>9. PcTypes'
    <3>1. p \in Procs /\ Goto(p, "loop")
      BY <1>17 DEF SendReply, Procs
    <3>2. /\ p \in Servers => ("loop") \in ServerPCs
          /\ p \in Clients => ("loop") \in ClientPCs
      BY <1>17, SystemAssumption DEF ServerPCs, ClientPCs, Procs
    <3>. QED  BY <3>1, <3>2, GotoTypes
  <2>4. ProgTypes'
    BY <2>9, <1>17, <2>1, <2>2, <2>3, DeliverTypes
    DEF Types, ProgTypes, HelloTypes, MgrTypes, DriverTypes, SendReply, progVars, mgrVars, driverVars, helloVars, lifeVars
  <2>5. HelloTypes'
    BY <1>17, <2>1, <2>2, <2>3, DeliverTypes
    DEF Types, ProgTypes, HelloTypes, MgrTypes, DriverTypes, SendReply, At, Goto, PCs, ServerPCs, ClientPCs, progVars, mgrVars, driverVars, helloVars, lifeVars
  <2>6. MgrTypes'
    BY <1>17, <2>1, <2>2, <2>3, DeliverTypes
    DEF Types, ProgTypes, HelloTypes, MgrTypes, DriverTypes, SendReply, At, Goto, PCs, ServerPCs, ClientPCs, progVars, mgrVars, driverVars, helloVars, lifeVars
  <2>7. DriverTypes'
    BY <1>17, <2>1, <2>2, <2>3, DeliverTypes
    DEF Types, ProgTypes, HelloTypes, MgrTypes, DriverTypes, SendReply, At, Goto, PCs, ServerPCs, ClientPCs, progVars, mgrVars, driverVars, helloVars, lifeVars
  <2>. QED  BY <2>4, <2>5, <2>6, <2>7 DEF Types
<1>18. ASSUME NEW p \in Procs, Add(p)
      PROVE  Types'
  <2>1. p \in Servers
    BY <1>18 DEF Types, MgrTypes, Add
  <2>2. StatusReply(0) \in Command /\ StatusReply(-1) \in Command
    BY Commands DEF StatusReply
  <2>3. NoProc # p
    BY SystemAssumption
  <2>9. PcTypes'
    BY <1>18 DEF Add, Types, ProgTypes, PcTypes, progVars
  <2>4. ProgTypes'
    BY <2>9, <1>18, <2>1, <2>2, <2>3, DeliverTypes
    DEF Types, ProgTypes, HelloTypes, MgrTypes, DriverTypes, Add, Refuse, R!Register, progVars, mgrVars, driverVars, helloVars, lifeVars
  <2>5. HelloTypes'
    BY <1>18, <2>1, <2>2, <2>3, DeliverTypes
    DEF Types, ProgTypes, HelloTypes, MgrTypes, DriverTypes, Add, Refuse, R!Register, progVars, mgrVars, driverVars, helloVars, lifeVars
  <2>6. MgrTypes'
    BY <1>18, <2>1, <2>2, <2>3, DeliverTypes
    DEF Types, ProgTypes, HelloTypes, MgrTypes, DriverTypes, Add, Refuse, R!Register, progVars, mgrVars, driverVars, helloVars, lifeVars
  <2>7. DriverTypes'
    BY <1>18, <2>1, <2>2, <2>3, DeliverTypes
    DEF Types, ProgTypes, HelloTypes, MgrTypes, DriverTypes, Add, Refuse, R!Register, progVars, mgrVars, driverVars, helloVars, lifeVars
  <2>. QED  BY <2>4, <2>5, <2>6, <2>7 DEF Types
<1>19. ASSUME NEW p \in Procs, Check(p)
      PROVE  Types'
  <2>9. PcTypes'
    BY <1>19 DEF Check, Types, ProgTypes, PcTypes, progVars
  <2>1. ProgTypes'
    BY <2>9, <1>19
    DEF Types, ProgTypes, HelloTypes, MgrTypes, DriverTypes, Check, Idle, R!Lookup, R!Answered, progVars, mgrVars, driverVars, helloVars, lifeVars
  <2>2. HelloTypes'
    BY <1>19
    DEF Types, ProgTypes, HelloTypes, MgrTypes, DriverTypes, Check, Idle, R!Lookup, R!Answered, progVars, mgrVars, driverVars, helloVars, lifeVars
  <2>3. MgrTypes'
    BY <1>19
    DEF Types, ProgTypes, HelloTypes, MgrTypes, DriverTypes, Check, Idle, R!Lookup, R!Answered, progVars, mgrVars, driverVars, helloVars, lifeVars
  <2>4. DriverTypes'
    BY <1>19
    DEF Types, ProgTypes, HelloTypes, MgrTypes, DriverTypes, Check, Idle, R!Lookup, R!Answered, progVars, mgrVars, driverVars, helloVars, lifeVars
  <2>. QED  BY <2>1, <2>2, <2>3, <2>4 DEF Types
<1>20. ASSUME NEW p \in Procs, Die(p)
      PROVE  Types'
  <2>9. PcTypes'
    <3>1. p \in Procs /\ Goto(p, "dead")
      BY <1>20 DEF Die, Procs
    <3>2. /\ p \in Servers => ("dead") \in ServerPCs
          /\ p \in Clients => ("dead") \in ClientPCs
      BY <1>20, SystemAssumption DEF ServerPCs, ClientPCs, Procs
    <3>. QED  BY <3>1, <3>2, GotoTypes
  <2>1. ProgTypes'
    BY <2>9, <1>20, AbandonedTypes, NoIOType, MembersNone
    DEF Types, ProgTypes, HelloTypes, MgrTypes, DriverTypes, Die, R!Die, Procs, progVars, mgrVars, driverVars, helloVars, lifeVars
  <2>2. HelloTypes'
    BY <1>20, AbandonedTypes, NoIOType, MembersNone
    DEF Types, ProgTypes, HelloTypes, MgrTypes, DriverTypes, Die, Goto, R!Die, PCs, ServerPCs, ClientPCs, Procs, progVars, mgrVars, driverVars, helloVars, lifeVars
  <2>3. MgrTypes'
    BY <1>20, AbandonedTypes, NoIOType, MembersNone
    DEF Types, ProgTypes, HelloTypes, MgrTypes, DriverTypes, Die, Goto, R!Die, PCs, ServerPCs, ClientPCs, Procs, progVars, mgrVars, driverVars, helloVars, lifeVars
  <2>5. /\ todo' \in [Procs -> Seq(Command)]
        /\ call' \in [Procs -> Servers \cup {Manager, NoProc}]
    BY <1>20, AbandonedTypes, Zenon DEF Die
  <2>6. ref' \in [Clients -> Int]
    BY <1>20, RefTypes DEF Die
  <2>7. work' \in [Servers -> Seq(Clients)]
    <3>1. <<>> \in Seq(Clients)
      OBVIOUS
    <3>. QED  BY <1>20, <3>1 DEF Die, Types, DriverTypes
  <2>4. DriverTypes'
    BY <1>20, <2>5, <2>6, <2>7 DEF Types, DriverTypes, Die
  <2>. QED  BY <2>1, <2>2, <2>3, <2>4 DEF Types
<1>21. ASSUME CheckReply
      PROVE  Types'
  <2>1. mgr \in Procs /\ NoProc \in Procs \cup {NoProc} /\ mgr # NoProc
    BY <1>21 DEF CheckReply, Types, MgrTypes, Procs
  <2>2. Reply(0, 0, given) \in Command
    BY Commands DEF Types, MgrTypes
  <2>9. PcTypes'
    BY <1>21 DEF CheckReply, Types, ProgTypes, PcTypes, progVars
  <2>3. ProgTypes'
    BY <2>9, <1>21, <2>1, <2>2, DeliverTypes
    DEF Types, ProgTypes, HelloTypes, MgrTypes, DriverTypes, CheckReply, R!Answered, progVars, mgrVars, driverVars, helloVars, lifeVars
  <2>4. HelloTypes'
    BY <1>21, <2>1, <2>2, DeliverTypes
    DEF Types, ProgTypes, HelloTypes, MgrTypes, DriverTypes, CheckReply, R!Answered, progVars, mgrVars, driverVars, helloVars, lifeVars
  <2>5. MgrTypes'
    BY <1>21, <2>1, <2>2, DeliverTypes
    DEF Types, ProgTypes, HelloTypes, MgrTypes, DriverTypes, CheckReply, R!Answered, progVars, mgrVars, driverVars, helloVars, lifeVars
  <2>6. DriverTypes'
    BY <1>21, <2>1, <2>2, DeliverTypes
    DEF Types, ProgTypes, HelloTypes, MgrTypes, DriverTypes, CheckReply, R!Answered, progVars, mgrVars, driverVars, helloVars, lifeVars
  <2>. QED  BY <2>3, <2>4, <2>5, <2>6 DEF Types
<1>22. ASSUME Forget
      PROVE  Types'
  <2>9. PcTypes'
    BY <1>22 DEF Forget, Types, ProgTypes, PcTypes, progVars
  <2>1. ProgTypes'
    BY <2>9, <1>22
    DEF Types, ProgTypes, HelloTypes, MgrTypes, DriverTypes, Forget, Idle, R!Forget, progVars, mgrVars, driverVars, helloVars, lifeVars
  <2>2. HelloTypes'
    BY <1>22
    DEF Types, ProgTypes, HelloTypes, MgrTypes, DriverTypes, Forget, Idle, R!Forget, progVars, mgrVars, driverVars, helloVars, lifeVars
  <2>3. MgrTypes'
    BY <1>22
    DEF Types, ProgTypes, HelloTypes, MgrTypes, DriverTypes, Forget, Idle, R!Forget, progVars, mgrVars, driverVars, helloVars, lifeVars
  <2>4. DriverTypes'
    BY <1>22
    DEF Types, ProgTypes, HelloTypes, MgrTypes, DriverTypes, Forget, Idle, R!Forget, progVars, mgrVars, driverVars, helloVars, lifeVars
  <2>. QED  BY <2>1, <2>2, <2>3, <2>4 DEF Types
<1>23. ASSUME ManagerStarts
      PROVE  Types'
  <2>9. PcTypes'
    BY <1>23 DEF ManagerStarts, Types, ProgTypes, PcTypes, progVars
  <2>1. ProgTypes'
    BY <2>9, <1>23
    DEF Types, ProgTypes, HelloTypes, MgrTypes, DriverTypes, ManagerStarts, progVars, mgrVars, driverVars, helloVars, lifeVars
  <2>2. HelloTypes'
    BY <1>23
    DEF Types, ProgTypes, HelloTypes, MgrTypes, DriverTypes, ManagerStarts, progVars, mgrVars, driverVars, helloVars, lifeVars
  <2>3. MgrTypes'
    BY <1>23
    DEF Types, ProgTypes, HelloTypes, MgrTypes, DriverTypes, ManagerStarts, progVars, mgrVars, driverVars, helloVars, lifeVars
  <2>4. DriverTypes'
    BY <1>23
    DEF Types, ProgTypes, HelloTypes, MgrTypes, DriverTypes, ManagerStarts, progVars, mgrVars, driverVars, helloVars, lifeVars
  <2>. QED  BY <2>1, <2>2, <2>3, <2>4 DEF Types
<1>24. ASSUME ManagerReady
      PROVE  Types'
  <2>9. PcTypes'
    BY <1>24 DEF ManagerReady, Types, ProgTypes, PcTypes, progVars
  <2>1. ProgTypes'
    BY <2>9, <1>24
    DEF Types, ProgTypes, HelloTypes, MgrTypes, DriverTypes, ManagerReady, progVars, mgrVars, driverVars, helloVars, lifeVars
  <2>2. HelloTypes'
    BY <1>24
    DEF Types, ProgTypes, HelloTypes, MgrTypes, DriverTypes, ManagerReady, progVars, mgrVars, driverVars, helloVars, lifeVars
  <2>3. MgrTypes'
    BY <1>24
    DEF Types, ProgTypes, HelloTypes, MgrTypes, DriverTypes, ManagerReady, progVars, mgrVars, driverVars, helloVars, lifeVars
  <2>4. DriverTypes'
    BY <1>24
    DEF Types, ProgTypes, HelloTypes, MgrTypes, DriverTypes, ManagerReady, progVars, mgrVars, driverVars, helloVars, lifeVars
  <2>. QED  BY <2>1, <2>2, <2>3, <2>4 DEF Types
<1>25. ASSUME ManagerDies
      PROVE  Types'
  <2>9. PcTypes'
    BY <1>25 DEF ManagerDies, Types, ProgTypes, PcTypes, progVars
  <2>1. ProgTypes'
    BY <2>9, <1>25, AbandonedTypes
    DEF Types, ProgTypes, HelloTypes, MgrTypes, DriverTypes, ManagerDies, progVars, mgrVars, driverVars, helloVars, lifeVars
  <2>2. HelloTypes'
    BY <1>25, AbandonedTypes
    DEF Types, ProgTypes, HelloTypes, MgrTypes, DriverTypes, ManagerDies, progVars, mgrVars, driverVars, helloVars, lifeVars
  <2>3. MgrTypes'
    BY <1>25, AbandonedTypes
    DEF Types, ProgTypes, HelloTypes, MgrTypes, DriverTypes, ManagerDies, progVars, mgrVars, driverVars, helloVars, lifeVars
  <2>4. DriverTypes'
    BY <1>25, AbandonedTypes
    DEF Types, ProgTypes, HelloTypes, MgrTypes, DriverTypes, ManagerDies, progVars, mgrVars, driverVars, helloVars, lifeVars
  <2>. QED  BY <2>1, <2>2, <2>3, <2>4 DEF Types
<1>26. ASSUME UNCHANGED vars
      PROVE  Types'
  <2>1. ProgTypes'
    BY <1>26
    DEF Types, PcTypes, ProgTypes, HelloTypes, MgrTypes, DriverTypes, vars, progVars, mgrVars, driverVars, helloVars, lifeVars
  <2>2. HelloTypes'
    BY <1>26
    DEF Types, PcTypes, ProgTypes, HelloTypes, MgrTypes, DriverTypes, vars, progVars, mgrVars, driverVars, helloVars, lifeVars
  <2>3. MgrTypes'
    BY <1>26
    DEF Types, PcTypes, ProgTypes, HelloTypes, MgrTypes, DriverTypes, vars, progVars, mgrVars, driverVars, helloVars, lifeVars
  <2>4. DriverTypes'
    BY <1>26
    DEF Types, PcTypes, ProgTypes, HelloTypes, MgrTypes, DriverTypes, vars, progVars, mgrVars, driverVars, helloVars, lifeVars
  <2>. QED  BY <2>1, <2>2, <2>3, <2>4 DEF Types
<1>. QED
  BY <1>1, <1>2, <1>3, <1>4, <1>5, <1>6, <1>7, <1>8, <1>9, <1>10, <1>11, <1>12, <1>13, <1>14, <1>15, <1>16, <1>17, <1>18, <1>19, <1>20, <1>21, <1>22, <1>23, <1>24, <1>25, <1>26
  DEF Next, ServerSteps, ClientSteps, CallSteps, ManagerSteps, Exit, Procs
-----------------------------------------------------------------------------
(* The invariant, process by process.                                      *)

(* Nothing of q changes, but that its registration may be accepted.        *)
Same(q) ==
  /\ pc'[q] = pc[q] /\ readbuf'[q] = readbuf[q] /\ res'[q] = res[q]
  /\ io'[q] = io[q] /\ todo'[q] = todo[q] /\ call'[q] = call[q]
  /\ q \in alive' <=> q \in alive
  /\ q \in accepted => q \in accepted'
  /\ q \in Servers => serving'[q] = serving[q]
  /\ q \in Clients => /\ g_handle'[q] = g_handle[q] /\ ref'[q] = ref[q]
                      /\ ret'[q] = ret[q] /\ asks'[q] = asks[q]
                      /\ said'[q] = said[q]

LEMMA SameFine ==
  ASSUME Types, NEW q \in Procs, Fine(q), Same(q)
  PROVE  Fine(q)'
<1>1. Line(q)'
  BY DEF Fine, Line, Same
<1>2. Phase(q)'
  BY DEF Fine, Phase, Same
<1>3. ASSUME NEW m, Good(q, m)
      PROVE  Good(q, m)'
  <2>1. CASE q \in Clients
    BY <1>3, <2>1, SystemAssumption DEF Good, TrueAnswer, Same
  <2>2. CASE q \in Servers
    <3>1. q \notin Clients
      BY <2>2, SystemAssumption
    <3>2. pc[q] \notin {"await_lookup", "acquire", "done_lookup", "await_hello",
                        "done_hello"}
      BY <2>2 DEF Types, ProgTypes, PcTypes, ServerPCs
    <3>. QED  BY <1>3, <2>2, <3>2 DEF Good, Same
  <2>. QED  BY <2>1, <2>2 DEF Procs
<1>4. Goods(q)'
  BY <1>3 DEF Fine, Goods, AllGood, Same
<1>5. q \in Servers => ServerPhase(q)'
  BY DEF Fine, ServerPhase, Same
<1>6. q \in Clients => ClientPhase(q)'
  BY DEF Fine, ClientPhase, Same
<1>. QED  BY <1>1, <1>2, <1>4, <1>5, <1>6 DEF Fine

LEMMA LastCalm ==
  ASSUME NEW q, Calm(q)
  PROVE  LastOnly(q)
BY DEF Calm, LastOnly, Members

(* Nobody owes q an answer, or it has not come yet.                        *)
LEMMA CalmLine ==
  ASSUME NEW q, Calm(todo'[q]), Calm(readbuf'[q]), res'[q] = 1,
         pc'[q] \in Waiting \cup {"exit"} \/ call'[q] = NoProc,
         io'[q].shared <=> pc'[q] \in Dones
  PROVE  Line(q)' /\ AllGood(q, todo[q])' /\ AllGood(q, readbuf[q])'
<1>1. LastOnly(todo'[q]) /\ LastOnly(readbuf'[q])
  BY LastCalm
<1>2. AllGood(q, todo[q])' /\ AllGood(q, readbuf[q])'
  BY DEF AllGood, Calm, Answers
<1>3. Dones \cap Waiting = {} /\ "exit" \notin Dones
  BY DEF Dones, Waiting
<1>. QED  BY <1>1, <1>2, <1>3 DEF Line

(* The answer comes.                                                       *)
LEMMA Told ==
  ASSUME Types, NEW q \in Procs, NEW m \in Command, m.cmd \in Answers,
         Calm(todo[q]), Calm(readbuf[q]), Phase(q), q \in alive',
         todo'[q] = todo[q] \o <<m>>, readbuf'[q] = readbuf[q], call'[q] = NoProc,
         res'[q] = 1, ~ io'[q].shared, pc'[q] \in Waiting \cup {"exit"},
         pc[q] \in {"loop", "exit"} => pc'[q] = pc[q],
         m.cmd = "REPLY" => Good(q, m)'
  PROVE  Line(q)' /\ Phase(q)' /\ Goods(q)'
<1>1. todo[q] \in Seq(Command)
  BY DEF Types, DriverTypes
<1>2. /\ LastOnly(todo'[q]) /\ LastOnly(readbuf'[q])
      /\ Members(todo'[q]) = Members(todo[q]) \cup {m}
  BY <1>1, LastAdd, LastCalm, MembersAdd
<1>3. Dones \cap (Waiting \cup {"exit"}) = {} /\ "dead" \notin Waiting \cup {"exit"}
  BY DEF Dones, Waiting
<1>4. Line(q)'
  BY <1>2, <1>3 DEF Line
<1>5. Phase(q)'
  BY <1>2, <1>3, SystemAssumption DEF Phase, Answers
<1>6. Goods(q)'
  BY <1>2 DEF Goods, AllGood, Calm, Answers
<1>. QED  BY <1>4, <1>5, <1>6

(* A call that is taken, and one that is refused.                          *)
LEMMA CallFine ==
  ASSUME Types, NEW p \in Procs, Fine(p), p \in alive,
         pc[p] \in {"publish", "lookup", "hello"}, NEW w \in Waiting, Goto(p, w),
         UNCHANGED <<alive, readbuf, res, io>>,
         \/ \E why \in {"DEAD", "FAILED"} : Refused(p, why)
         \/ /\ Queue(p, <<BR("COMPLETE")>>) \/ Queue(p, <<BR("REFS"), BR("COMPLETE")>>)
            /\ \E x \in Servers \cup {Manager} :
                 /\ call' = [call EXCEPT ![p] = x]
                 /\ w = "await_hello" <=> x # Manager
  PROVE  Line(p)' /\ Phase(p)' /\ Goods(p)'
<1>1. /\ Calm(todo[p]) /\ Calm(readbuf[p]) /\ res[p] = 1 /\ call[p] = NoProc
      /\ ~ io[p].shared /\ Phase(p) /\ pc[p] \notin Waiting \cup {"exit"}
  BY DEF Fine, Line, Waiting, Dones
<1>2. pc'[p] = w /\ p \in alive' /\ readbuf'[p] = readbuf[p] /\ res'[p] = 1 /\ io'[p] = io[p]
  BY <1>1 DEF Goto, Types, ProgTypes, PcTypes
<1>3. todo[p] \in Seq(Command) /\ todo \in [Procs -> Seq(Command)]
      /\ call \in [Procs -> Servers \cup {Manager, NoProc}]
  BY DEF Types, DriverTypes
<1>4. ASSUME NEW why \in {"DEAD", "FAILED"}, Refused(p, why)
      PROVE  Line(p)' /\ Phase(p)' /\ Goods(p)'
  <2>1. /\ BR(why) \in Command /\ BR(why).cmd = why
        /\ why \in Answers /\ why # "REPLY"
    BY Commands DEF Answers
  <2>2. todo'[p] = todo[p] \o <<BR(why)>> /\ call'[p] = NoProc
    BY <1>1, <1>3, <1>4 DEF Refused, Queue
  <2>3. BR(why).cmd = "REPLY" => Good(p, BR(why))'
    BY <2>1
  <2>. QED  BY <1>1, <1>2, <2>1, <2>2, <2>3, Told
<1>5. ASSUME NEW x \in Servers \cup {Manager}, call' = [call EXCEPT ![p] = x],
             w = "await_hello" <=> x # Manager,
             Calm(todo'[p]), \A m \in Members(todo'[p]) : m.cmd # "TRANSACTION"
      PROVE  Line(p)' /\ Phase(p)' /\ Goods(p)'
  <2>1. call'[p] = x
    BY <1>3, <1>5
  <2>2. w \notin Dones \cup {"dead"} /\ pc[p] \notin {"loop", "exit", "dead"}
    BY <1>1 DEF Dones, Waiting
  <2>3. Line(p)' /\ AllGood(p, todo[p])' /\ AllGood(p, readbuf[p])'
    BY <1>1, <1>2, <1>5, <2>2, CalmLine
  <2>4. Phase(p)'
    BY <1>1, <1>2, <1>5, <2>1, <2>2 DEF Phase, Waiting
  <2>. QED  BY <1>1, <1>2, <2>3, <2>4 DEF Goods
<1>6. BR("COMPLETE") \in Command /\ BR("REFS") \in Command
      /\ BR("COMPLETE").cmd = "COMPLETE" /\ BR("REFS").cmd = "REFS"
  BY Commands
<1>7. ASSUME \/ todo'[p] = todo[p] \o <<BR("COMPLETE")>>
             \/ todo'[p] = (todo[p] \o <<BR("REFS")>>) \o <<BR("COMPLETE")>>
      PROVE  Calm(todo'[p]) /\ \A m \in Members(todo'[p]) : m.cmd # "TRANSACTION"
  <2>1. Members(todo'[p]) \subseteq Members(todo[p]) \cup {BR("REFS"), BR("COMPLETE")}
    <3>1. /\ todo[p] \o <<BR("REFS")>> \in Seq(Command)
          /\ Members(todo[p] \o <<BR("REFS")>>) = Members(todo[p]) \cup {BR("REFS")}
          /\ Members(todo[p] \o <<BR("COMPLETE")>>)
               = Members(todo[p]) \cup {BR("COMPLETE")}
      BY <1>3, <1>6, MembersAdd
    <3>2. Members((todo[p] \o <<BR("REFS")>>) \o <<BR("COMPLETE")>>)
            = Members(todo[p] \o <<BR("REFS")>>) \cup {BR("COMPLETE")}
      BY <1>6, <3>1, MembersAdd
    <3>. QED  BY <1>7, <3>1, <3>2
  <2>. QED  BY <1>1, <1>6, <2>1 DEF Calm, Answers, Phase
<1>8. <<BR("REFS"), BR("COMPLETE")>> = <<BR("REFS")>> \o <<BR("COMPLETE")>>
      /\ todo[p] \o (<<BR("REFS")>> \o <<BR("COMPLETE")>>)
           = (todo[p] \o <<BR("REFS")>>) \o <<BR("COMPLETE")>>
  BY <1>3, <1>6
<1>9. Queue(p, <<BR("COMPLETE")>>) \/ Queue(p, <<BR("REFS"), BR("COMPLETE")>>)
        => \/ todo'[p] = todo[p] \o <<BR("COMPLETE")>>
           \/ todo'[p] = (todo[p] \o <<BR("REFS")>>) \o <<BR("COMPLETE")>>
  BY <1>3, <1>8 DEF Queue
<1>. QED  BY <1>4, <1>5, <1>7, <1>9

(* What a step of p by itself leaves alone.                                *)
Alone(p) == \A q \in Procs : q # p => Same(q)

LEMMA StepsAlone ==
  ASSUME Types, NEW p \in Procs,
         \/ p \in Servers /\ (Publish(p) \/ PublishDone(p))
         \/ p \in Clients /\ (Lookup(p) \/ Acquire(p) \/ LookupDone(p))
         \/ p \in Clients /\ (Hello(p) \/ HelloDone(p))
         \/ Read(p) \/ Parse(p) \/ CallDone(p) \/ ParseEnds(p)
         \/ OpenFails(p) \/ ReadFails(p)
  PROVE  Alone(p)
<1>. USE DEF Alone, Same, Types, ProgTypes, PcTypes, HelloTypes, MgrTypes, DriverTypes
<1>1. ASSUME p \in Servers, Publish(p)
      PROVE  Alone(p)
  BY <1>1 DEF Publish, CallManager, Refused, Queue, Goto, lifeVars, helloVars
<1>2. ASSUME p \in Clients, Lookup(p)
      PROVE  Alone(p)
  BY <1>2 DEF Lookup, CallManager, Refused, Queue, Goto, lifeVars, helloVars
<1>3. ASSUME p \in Clients, Hello(p)
      PROVE  Alone(p)
  BY <1>3 DEF Hello, Refused, Queue, Goto, lifeVars
<1>4. ASSUME Read(p)
      PROVE  Alone(p)
  BY <1>4 DEF Read, helloVars, mgrVars, lifeVars
<1>5. ASSUME Parse(p)
      PROVE  Alone(p)
  BY <1>5 DEF Parse, Goto, helloVars, mgrVars, driverVars, lifeVars
<1>6. ASSUME CallDone(p)
      PROVE  Alone(p)
  BY <1>6 DEF CallDone, Goto, helloVars, mgrVars, driverVars, lifeVars
<1>7. ASSUME ParseEnds(p)
      PROVE  Alone(p)
  BY <1>7 DEF ParseEnds, GiveUp, Goto, helloVars, mgrVars, driverVars, lifeVars
<1>8. ASSUME OpenFails(p)
      PROVE  Alone(p)
  BY <1>8 DEF OpenFails, Goto, helloVars, mgrVars, driverVars, lifeVars
<1>9. ASSUME ReadFails(p)
      PROVE  Alone(p)
  BY <1>9 DEF ReadFails, GiveUp, Goto, helloVars, mgrVars, driverVars, lifeVars
<1>10. ASSUME p \in Servers, PublishDone(p)
      PROVE  Alone(p)
  BY <1>10 DEF PublishDone, binder_done, Goto, helloVars, mgrVars, lifeVars
<1>11. ASSUME p \in Clients, Acquire(p)
      PROVE  Alone(p)
  BY <1>11 DEF Acquire, Goto, helloVars, mgrVars, lifeVars
<1>12. ASSUME p \in Clients, LookupDone(p)
      PROVE  Alone(p)
  BY <1>12 DEF LookupDone, binder_done, Goto, helloVars, mgrVars, lifeVars
<1>13. ASSUME p \in Clients, HelloDone(p)
      PROVE  Alone(p)
  BY <1>13 DEF HelloDone, binder_done, Goto, mgrVars, lifeVars
<1>. QED  BY <1>1, <1>2, <1>3, <1>4, <1>5, <1>6, <1>7, <1>8, <1>9, <1>10, <1>11, <1>12, <1>13

LEMMA CallsFine ==
  ASSUME Types, Types', NEW p \in Procs, Fine(p),
         \/ p \in Servers /\ Publish(p)
         \/ p \in Clients /\ (Lookup(p) \/ Hello(p))
  PROVE  Fine(p)'
<1>1. "await_publish" \in Waiting /\ "await_lookup" \in Waiting /\ "await_hello" \in Waiting
  BY DEF Waiting
<1>2. ASSUME NEW l \in {"publish", "lookup"}, NEW w \in {"await_publish", "await_lookup"},
             NEW r \in {"ADD", "CHECK"}, At(p, l), Goto(p, w), CallManager(p, r),
             UNCHANGED <<alive, readbuf, res, io>>
      PROVE  Line(p)' /\ Phase(p)' /\ Goods(p)'
  <2>1. \/ \E why \in {"DEAD", "FAILED"} : Refused(p, why)
        \/ /\ Queue(p, <<BR("COMPLETE")>>) \/ Queue(p, <<BR("REFS"), BR("COMPLETE")>>)
           /\ \E x \in Servers \cup {Manager} :
                /\ call' = [call EXCEPT ![p] = x]
                /\ w = "await_hello" <=> x # Manager
    BY <1>2 DEF CallManager
  <2>. QED  BY <1>1, <1>2, <2>1, CallFine DEF At
<1>3. CASE p \in Servers /\ Publish(p)
  <2>1. Line(p)' /\ Phase(p)' /\ Goods(p)'
    BY <1>2, <1>3 DEF Publish
  <2>2. ServerPhase(p)'
    BY <1>3 DEF Publish, At, Goto, Fine, ServerPhase, Types, ProgTypes, PcTypes, Procs
  <2>3. p \notin Clients
    BY <1>3, SystemAssumption
  <2>. QED  BY <2>1, <2>2, <2>3 DEF Fine
<1>4. CASE p \in Clients /\ Lookup(p)
  <2>1. Line(p)' /\ Phase(p)' /\ Goods(p)'
    BY <1>2, <1>4 DEF Lookup
  <2>2. ref' = ref
    BY <1>4 DEF Lookup, CallManager, Refused
  <2>3. ClientPhase(p)'
    BY <1>4, <2>2
    DEF Lookup, At, Goto, Fine, ClientPhase, Types, ProgTypes, PcTypes, Procs, helloVars
  <2>4. p \notin Servers
    BY <1>4, SystemAssumption
  <2>. QED  BY <2>1, <2>3, <2>4 DEF Fine
<1>5. CASE p \in Clients /\ Hello(p)
  <2>1. \/ \E why \in {"DEAD", "FAILED"} : Refused(p, why)
        \/ /\ Queue(p, <<BR("COMPLETE")>>)
           /\ call' = [call EXCEPT ![p] = g_handle[p]]
           /\ g_handle[p] \in alive
    BY <1>5 DEF Hello
  <2>2. g_handle[p] \in alive => g_handle[p] \in Servers \cup {Manager}
                                 /\ g_handle[p] # Manager
    BY <1>5, SystemAssumption DEF Types, ProgTypes, MgrTypes, Procs
  <2>3. /\ p \in alive /\ pc[p] = "hello" /\ Goto(p, "await_hello")
        /\ UNCHANGED <<alive, readbuf, res, io, g_handle, ret, said>>
    BY <1>5 DEF Hello, At
  <2>4. Line(p)' /\ Phase(p)' /\ Goods(p)'
    BY <1>1, <2>1, <2>2, <2>3, CallFine
  <2>5. /\ ref' = ref
        /\ call'[p] = call[p] \/ call'[p] # Manager
    BY <1>5, <2>2, <2>1 DEF Hello, Refused, Types, DriverTypes
  <2>6. call[p] # Manager
    BY <2>3, SystemAssumption DEF Fine, Line, Waiting
  <2>7. ClientPhase(p)'
    BY <1>5, <2>3, <2>5, <2>6
    DEF Goto, Fine, ClientPhase, Types, ProgTypes, PcTypes, Procs
  <2>8. p \notin Servers
    BY <1>5, SystemAssumption
  <2>. QED  BY <2>4, <2>7, <2>8 DEF Fine
<1>. QED  BY <1>3, <1>4, <1>5

LEMMA ReadFine ==
  ASSUME Types, NEW p \in Procs, Fine(p), Read(p)
  PROVE  Fine(p)'
<1>1. /\ p \in alive /\ pc[p] \in Waiting \cup {"loop"} /\ readbuf[p] = <<>> /\ res[p] = 1
      /\ UNCHANGED <<alive, pc, res, io, call, ref, serving, accepted>>
      /\ UNCHANGED helloVars /\ UNCHANGED g_handle
  BY DEF Read, mgrVars, lifeVars
<1>2. Calm(readbuf[p]) /\ LastOnly(<<>>) /\ Calm(<<>>) /\ Members(<<>>) = {}
  BY <1>1, LastNone, MembersNone
<1>3. CASE /\ todo[p] # <<>> /\ readbuf'[p] = todo[p] /\ todo'[p] = <<>>
  <2>1. Line(p)'
    BY <1>1, <1>2, <1>3 DEF Fine, Line
  <2>2. Phase(p)'
    BY <1>1, <1>2, <1>3 DEF Fine, Phase
  <2>3. \A m : Good(p, m) => Good(p, m)'
    BY <1>1 DEF Good, TrueAnswer, helloVars
  <2>4. Goods(p)'
    BY <1>1, <1>2, <1>3, <2>3 DEF Fine, Goods, AllGood
  <2>. QED  BY <1>1, <2>1, <2>2, <2>4 DEF Fine, ServerPhase, ClientPhase, helloVars
<1>4. CASE /\ pc[p] = "loop" /\ work[p] # <<>> /\ todo[p] = <<>>
           /\ readbuf'[p] = <<Transaction(Head(work[p]))>> /\ todo' = todo
  <2>1. p \in Servers
    BY <1>4 DEF Types, ProgTypes, PcTypes, ClientPCs, Procs
  <2>2. Head(work[p]) \in Clients
    BY <1>4, <2>1, WorkTaken DEF Types, DriverTypes
  <2>3. /\ Transaction(Head(work[p])).cmd = "TRANSACTION"
        /\ Transaction(Head(work[p])).from \in Clients
        /\ Transaction(Head(work[p])) \in Command
    BY <2>2, Commands
  <2>4. Members(readbuf'[p]) = {Transaction(Head(work[p]))}
    BY <1>4 DEF Members
  <2>5. Calm(readbuf'[p]) /\ Calm(todo'[p])
    BY <1>2, <1>4, <2>3, <2>4 DEF Calm, Answers
  <2>6. Line(p)' /\ AllGood(p, todo[p])' /\ AllGood(p, readbuf[p])'
    <3>1. call'[p] = NoProc /\ res'[p] = 1 /\ (io'[p].shared <=> pc'[p] \in Dones)
      BY <1>1, <1>4 DEF Fine, Line, Waiting
    <3>. QED  BY <2>5, <3>1, CalmLine
  <2>7. Phase(p)'
    BY <1>1, <1>4, <2>1, <2>3, <2>4 DEF Fine, Phase
  <2>8. Goods(p)'
    BY <1>1, <1>4, <2>6 DEF Fine, Goods, Line, Waiting, Dones
  <2>. QED  BY <1>1, <2>6, <2>7, <2>8 DEF Fine, ServerPhase, ClientPhase, helloVars
<1>. QED  BY <1>3, <1>4 DEF Read, Types, ProgTypes, DriverTypes

LEMMA ParseFine ==
  ASSUME Types, NEW p \in Procs, Fine(p), Parse(p)
  PROVE  Fine(p)'
<1>. DEFINE c == Head(readbuf[p])
<1>1. /\ p \in alive /\ pc[p] \in Waiting \cup {"loop"} /\ readbuf[p] # <<>>
      /\ readbuf'[p] = Tail(readbuf[p]) /\ todo' = todo /\ call' = call
      /\ res'[p] = ResAfter(c.cmd, res[p])
      /\ UNCHANGED <<alive, g_handle, ref, accepted>> /\ UNCHANGED helloVars
  BY DEF Parse, driverVars, mgrVars, lifeVars, Types, ProgTypes
<1>2. readbuf[p] \in Seq(Command) /\ res[p] \in {-1, 0, 1}
  BY DEF Types, ProgTypes
<1>3. /\ c \in Members(readbuf[p]) /\ c \in Command
      /\ Members(Tail(readbuf[p])) \subseteq Members(readbuf[p])
  BY <1>1, <1>2, MembersTake
<1>4. /\ LastOnly(Tail(readbuf[p]))
      /\ c.cmd \in Answers => Tail(readbuf[p]) = <<>>
      /\ Calm(readbuf[p]) => c.cmd \notin Answers
      /\ c.cmd \notin Answers /\ Calm(Tail(readbuf[p])) => Calm(readbuf[p])
  BY <1>1, <1>2, LastTake DEF Fine, Line
<1>5. /\ c.cmd = "REPLY" => res'[p] = 0
      /\ c.cmd \in {"FAILED", "DEAD"} => res'[p] = -1
      /\ c.cmd \notin Answers => res'[p] = res[p]
  BY <1>1, <1>2, <1>3, Parsed DEF Answers
<1>6. pc[p] = "loop" => /\ c.cmd \notin Answers /\ Calm(readbuf[p]) /\ Calm(todo[p])
                        /\ res[p] = 1 /\ call[p] = NoProc /\ ~ io[p].shared
  BY <1>4 DEF Fine, Line, Waiting, Dones
<1>7. Calm(Tail(readbuf[p])) \/ (c.cmd \notin Answers /\ ~Calm(readbuf[p]))
  BY <1>3, <1>4, LastNone DEF Calm
<1>8. \/ /\ c.cmd = "TRANSACTION" /\ pc[p] = "loop"
         /\ pc'[p] = "handler" /\ (p \in Servers => serving'[p] = c.from)
      \/ /\ ~(c.cmd = "TRANSACTION" /\ pc[p] = "loop")
         /\ UNCHANGED <<pc, serving>>
  BY DEF Parse, Goto, Types, ProgTypes, PcTypes
<1>9. IF c.cmd = "REPLY" /\ pc[p] # "loop"
      THEN /\ io'[p].shared /\ io'[p].status = c.status
           /\ io'[p].num = c.num /\ io'[p].ref = c.ref
      ELSE io' = io
  BY DEF Parse, Types, ProgTypes
<1>10. "handler" \notin Waiting \cup {"exit", "dead"} \cup Dones /\ "loop" \notin Waiting
       /\ Waiting \cap Dones = {} /\ "exit" \notin Waiting /\ "dead" \notin Waiting
  BY DEF Waiting, Dones
<1>11. /\ Calm(readbuf[p]) => Calm(readbuf'[p])
       /\ c.cmd \in Answers => Calm(readbuf'[p]) /\ Calm(todo[p]) /\ res[p] = 1 /\ call[p] = NoProc
  <2>1. c.cmd \in Answers => ~Calm(readbuf[p])
    BY <1>4
  <2>. QED  BY <1>1, <1>3, <1>4, <2>1, LastNone DEF Calm, Fine, Line
<1>12. Line(p)'
  <2>1. CASE c.cmd \in Answers
    <3>1. pc'[p] = pc[p] /\ pc[p] \in Waiting
      BY <1>1, <1>6, <1>8, <2>1
    <3>2. res'[p] # 1 /\ (io'[p].shared <=> res'[p] = 0)
      <4>1. ~ io[p].shared
        BY <1>10, <1>11, <2>1, <3>1 DEF Fine, Line
      <4>. QED  BY <1>5, <1>9, <1>10, <2>1, <3>1, <4>1 DEF Answers
    <3>. QED
      BY <1>1, <1>4, <1>10, <1>11, <2>1, <3>1, <3>2 DEF Fine, Line
  <2>2. CASE c.cmd \notin Answers
    <3>1. res'[p] = res[p] /\ io' = io /\ (pc'[p] = pc[p] \/ (pc[p] = "loop" /\ pc'[p] = "handler"))
      BY <1>5, <1>8, <1>9, <2>2 DEF Answers
    <3>2. ~Calm(readbuf'[p]) => ~Calm(readbuf[p])
      BY <1>11
    <3>3. "loop" \notin Waiting \cup {"exit"} \cup Dones
      BY DEF Waiting, Dones
    <3>. QED
      BY <1>1, <1>4, <1>6, <1>10, <1>11, <3>1, <3>2, <3>3 DEF Fine, Line
  <2>. QED  BY <2>1, <2>2
<1>13. Phase(p)'
  <2>1. ASSUME NEW m \in Members(readbuf'[p]), m.cmd = "TRANSACTION"
        PROVE  FALSE
    <3>1. m \in Members(readbuf[p])
      BY <1>1, <1>3, <2>1
    <3>2. readbuf[p] = <<m>>
      BY <2>1, <3>1 DEF Fine, Phase
    <3>3. readbuf'[p] = <<>>
      BY <1>1, <1>2, <3>2
    <3>. QED  BY <2>1, <3>3, MembersNone
  <2>. QED  BY <1>1, <1>8, <1>10, <2>1 DEF Fine, Phase
<1>14. \A m : Good(p, m) => Good(p, m)'
  <2>1. pc'[p] = pc[p] \/ pc'[p] = "handler"
    BY <1>8
  <2>. QED  BY <1>1, <2>1 DEF Good, TrueAnswer, helloVars
<1>15. io'[p].shared => Good(p, io[p])'
  <2>1. CASE c.cmd = "REPLY" /\ pc[p] # "loop"
    <3>1. PICK m \in Members(readbuf[p]) : m = c
      BY <1>3
    <3>2. Good(p, m)'
      BY <1>14, <2>1, <3>1 DEF Fine, Goods, AllGood
    <3>. QED  BY <1>9, <2>1, <3>1, <3>2 DEF Good, TrueAnswer
  <2>2. CASE ~(c.cmd = "REPLY" /\ pc[p] # "loop")
    BY <1>9, <1>14, <2>2 DEF Fine, Goods
  <2>. QED  BY <2>1, <2>2
<1>16. Goods(p)'
  BY <1>1, <1>3, <1>14, <1>15 DEF Fine, Goods, AllGood
<1>17. p \in Servers => ServerPhase(p)'
  <2>1. c.cmd = "TRANSACTION" => c.from # NoProc
    BY <1>3, SystemAssumption DEF Fine, Phase, Procs
  <2>. QED  BY <1>1, <1>8, <2>1 DEF Fine, ServerPhase
<1>18. p \in Clients => ClientPhase(p)'
  <2>1. p \in Clients => pc'[p] = pc[p]
    BY <1>8 DEF Types, ProgTypes, PcTypes, ClientPCs
  <2>. QED  BY <1>1, <2>1 DEF Fine, ClientPhase, helloVars
<1>. QED  BY <1>12, <1>13, <1>16, <1>17, <1>18 DEF Fine

(* Main ends early, without or after an error.                             *)
LEMMA EndsFine ==
  ASSUME Types, NEW p \in Procs, Fine(p), ParseEnds(p) \/ OpenFails(p) \/ ReadFails(p)
  PROVE  Fine(p)'
<1>1. /\ p \in alive /\ pc'[p] = "exit" /\ pc[p] # "dead"
      /\ UNCHANGED <<alive, readbuf, res, serving, g_handle, todo, call, ref, accepted>>
      /\ UNCHANGED <<cnt, reply, asks, said>>
  BY DEF ParseEnds, GiveUp, OpenFails, ReadFails, Goto, Types, ProgTypes, PcTypes, Waiting,
         driverVars, mgrVars, lifeVars, helloVars
<1>2. ~ io'[p].shared
  BY NoIOType
  DEF ParseEnds, GiveUp, OpenFails, ReadFails, Types, ProgTypes, Fine, Line, Waiting, Dones
<1>3. "exit" \notin Waiting \cup Dones
  BY DEF Waiting, Dones
<1>4. Line(p)'
  BY <1>1, <1>2, <1>3 DEF Fine, Line
<1>5. Phase(p)'
  BY <1>1, <1>3 DEF Fine, Phase
<1>6. \A m : Good(p, m) => Good(p, m)'
  BY <1>1 DEF Good, TrueAnswer
<1>7. Goods(p)'
  BY <1>1, <1>2, <1>6 DEF Fine, Goods, AllGood
<1>8. p \in Servers => ServerPhase(p)'
  <2>1. p \in Servers => serving[p] = NoProc
    BY DEF ParseEnds, GiveUp, OpenFails, ReadFails, Waiting, Fine, ServerPhase
  <2>. QED  BY <1>1, <2>1 DEF Fine, ServerPhase
<1>9. p \in Clients => ClientPhase(p)'
  BY <1>1 DEF Fine, ClientPhase
<1>. QED  BY <1>4, <1>5, <1>7, <1>8, <1>9 DEF Fine

LEMMA CallDoneFine ==
  ASSUME Types, NEW p \in Procs, Fine(p), CallDone(p)
  PROVE  Fine(p)'
<1>1. /\ p \in alive /\ pc[p] \in Waiting /\ readbuf[p] = <<>> /\ res[p] = 0
      /\ pc'[p] = CASE pc[p] = "await_publish" -> "done_publish"
                    [] pc[p] = "await_lookup"  -> "acquire"
                    [] pc[p] = "await_hello"   -> "done_hello"
      /\ res'[p] = 1
      /\ UNCHANGED <<alive, readbuf, io, serving, g_handle, todo, call, ref, accepted>>
      /\ UNCHANGED helloVars
  BY DEF CallDone, Goto, Types, ProgTypes, PcTypes, driverVars, mgrVars, lifeVars
<1>2. \/ pc[p] = "await_publish" /\ pc'[p] = "done_publish"
      \/ pc[p] = "await_lookup" /\ pc'[p] = "acquire"
      \/ pc[p] = "await_hello" /\ pc'[p] = "done_hello"
  BY <1>1 DEF Waiting
<1>3. Calm(todo[p]) /\ Calm(readbuf[p]) /\ call[p] = NoProc /\ io[p].shared
  BY <1>1 DEF Fine, Line
<1>4. Line(p)' /\ AllGood(p, todo[p])' /\ AllGood(p, readbuf[p])'
  BY <1>1, <1>2, <1>3, CalmLine DEF Dones
<1>5. Phase(p)'
  BY <1>1, <1>2, MembersNone DEF Fine, Phase
<1>6. Good(p, io[p])'
  BY <1>1, <1>2, <1>3 DEF Fine, Goods, Good, TrueAnswer, helloVars
<1>7. p \in Servers => ServerPhase(p)'
  BY <1>1, <1>2 DEF Fine, ServerPhase
<1>8. p \in Clients => ClientPhase(p)'
  BY <1>1, <1>2 DEF Fine, ClientPhase, helloVars
<1>. QED  BY <1>4, <1>5, <1>6, <1>7, <1>8 DEF Fine, Goods

(* What is done with a reply.                                              *)
LEMMA DonesFine ==
  ASSUME Types, NEW p \in Procs, Fine(p),
         \/ p \in Servers /\ PublishDone(p)
         \/ p \in Clients /\ (Acquire(p) \/ LookupDone(p) \/ HelloDone(p))
  PROVE  Fine(p)'
<1>1. /\ p \in alive /\ pc[p] \in Dones
      /\ UNCHANGED <<alive, readbuf, todo, call, res, serving, accepted, asks, said>>
  BY DEF PublishDone, Acquire, LookupDone, HelloDone, At, Dones, helloVars, mgrVars, lifeVars,
         driverVars
<1>2. pc[p] \notin Waiting \cup {"exit"} /\ pc[p] \notin {"loop", "exit"}
  BY <1>1 DEF Dones, Waiting
<1>3. /\ Calm(todo[p]) /\ Calm(readbuf[p]) /\ res[p] = 1 /\ call[p] = NoProc
      /\ io[p].shared /\ Good(p, io[p]) /\ Phase(p)
      /\ \A m \in Members(readbuf[p]) : m.cmd # "TRANSACTION"
  BY <1>1, <1>2 DEF Fine, Line, Goods, Phase
<1>4. ASSUME pc'[p] \notin {"dead", "await_publish", "await_lookup", "await_hello"}
      PROVE  Phase(p)'
  BY <1>1, <1>3, <1>4 DEF Phase
<1>5. ASSUME io'[p].shared <=> pc'[p] \in Dones
      PROVE  Line(p)' /\ AllGood(p, todo[p])' /\ AllGood(p, readbuf[p])'
  BY <1>1, <1>3, <1>5, CalmLine
<1>6. CASE p \in Servers /\ PublishDone(p)
  <2>1. /\ pc[p] = "done_publish"
        /\ \/ io[p].status = 0 /\ pc'[p] = "loop"
           \/ pc'[p] = "exit"
        /\ ~ io'[p].shared
    BY <1>6, NoIOType
    DEF PublishDone, binder_done, Goto, At, Types, ProgTypes, PcTypes
  <2>2. Line(p)' /\ Phase(p)' /\ AllGood(p, todo[p])' /\ AllGood(p, readbuf[p])'
    BY <1>4, <1>5, <2>1 DEF Dones
  <2>3. ServerPhase(p)'
    BY <1>1, <1>3, <1>6, <2>1 DEF Fine, ServerPhase, Good
  <2>4. p \notin Clients
    BY <1>6, SystemAssumption
  <2>. QED  BY <2>1, <2>2, <2>3, <2>4 DEF Fine, Goods
<1>7. CASE p \in Clients /\ Acquire(p)
  <2>1. /\ pc[p] = "acquire" /\ pc'[p] = "done_lookup" /\ io' = io
        /\ g_handle'[p] = io[p].ref /\ ret' = ret
        /\ io[p].ref = NoProc => ref'[p] = ref[p]
        /\ io[p].ref # NoProc => ref'[p] = ref[p] + 1
    BY <1>7 DEF Acquire, Goto, At, Types, ProgTypes, PcTypes, DriverTypes, helloVars
  <2>2. Line(p)' /\ Phase(p)' /\ AllGood(p, todo[p])' /\ AllGood(p, readbuf[p])'
    BY <1>3, <1>4, <1>5, <2>1 DEF Dones
  <2>3. ref[p] = Refs(io[p].ref) /\ ref'[p] = 2 * Refs(io[p].ref)
    BY <1>3, <2>1 DEF Good, Refs
  <2>4. p \notin Servers
    BY <1>7, SystemAssumption
  <2>5. Good(p, io[p])'
    BY <2>1, <2>3, <2>4 DEF Good
  <2>6. ClientPhase(p)'
    <3>1. ref'[p] \in 0..2 /\ call[p] # Manager
      BY <1>3, <2>3, SystemAssumption DEF Refs
    <3>. QED  BY <1>1, <1>7, <2>1, <3>1 DEF Fine, ClientPhase
  <2>. QED  BY <2>1, <2>2, <2>4, <2>5, <2>6 DEF Fine, Goods
<1>8. CASE p \in Clients /\ LookupDone(p)
  <2>1. /\ pc[p] = "done_lookup" /\ ~ io'[p].shared /\ ret' = ret /\ g_handle' = g_handle
        /\ \/ g_handle[p] # NoProc /\ pc'[p] = "hello"
           \/ pc'[p] = "exit"
        /\ io[p].ref = NoProc => ref'[p] = ref[p]
        /\ io[p].ref # NoProc => ref'[p] = ref[p] - 1
    BY <1>8, NoIOType DEF LookupDone, binder_done, Goto, At, Types, ProgTypes, PcTypes,
                          DriverTypes, helloVars
  <2>2. Line(p)' /\ Phase(p)' /\ AllGood(p, todo[p])' /\ AllGood(p, readbuf[p])'
    BY <1>4, <1>5, <2>1 DEF Dones
  <2>3. ref'[p] = Refs(g_handle[p])
    BY <1>3, <2>1 DEF Good, Refs
  <2>4. p \notin Servers
    BY <1>8, SystemAssumption
  <2>5. ClientPhase(p)'
    <3>1. ref'[p] \in 0..2 /\ call[p] # Manager /\ (g_handle[p] # NoProc => ref'[p] = 1)
      BY <1>3, <2>3, SystemAssumption DEF Refs
    <3>. QED  BY <1>1, <1>8, <2>1, <3>1 DEF Fine, ClientPhase
  <2>. QED  BY <2>1, <2>2, <2>4, <2>5 DEF Fine, Goods
<1>9. CASE p \in Clients /\ HelloDone(p)
  <2>1. /\ pc[p] = "done_hello" /\ ~ io'[p].shared /\ g_handle' = g_handle
        /\ pc'[p] = "exit"
        /\ io[p].ref = NoProc => ref'[p] = ref[p]
    BY <1>9, NoIOType DEF HelloDone, binder_done, Goto, At, Types, ProgTypes, PcTypes,
                          DriverTypes
  <2>2. Line(p)' /\ Phase(p)' /\ AllGood(p, todo[p])' /\ AllGood(p, readbuf[p])'
    BY <1>4, <1>5, <2>1 DEF Dones
  <2>3. p \notin Servers
    BY <1>9, SystemAssumption
  <2>4. ClientPhase(p)'
    <3>1. io[p].ref = NoProc /\ call[p] # Manager
      BY <1>3, <2>1, SystemAssumption DEF Good
    <3>. QED  BY <1>1, <1>9, <2>1, <3>1 DEF Fine, ClientPhase
  <2>. QED  BY <2>1, <2>2, <2>3, <2>4 DEF Fine, Goods
<1>. QED  BY <1>6, <1>7, <1>8, <1>9

(* The handler changes what its caller was given.                          *)
LEMMA HandlerFine ==
  ASSUME Types, Core, NEW s \in Servers, sayhello(s) \/ sayhello_to(s) \/ Reject(s)
  PROVE  \A q \in Procs : Fine(q)'
<1>1. /\ s \in alive /\ pc[s] = "handler" /\ pc' = [pc EXCEPT ![s] = "reply"]
      /\ UNCHANGED <<alive, readbuf, res, io, serving, g_handle, ret, asks, todo, call,
                     ref, accepted>>
      /\ \A c \in Clients : said'[c] = said[c] \/ c = serving[s]
  BY DEF sayhello, sayhello_to, Reject, Handler, Count, Goto, At, Types, HelloTypes,
         driverVars, mgrVars, lifeVars
<1>2. s \in Procs /\ pc'[s] = "reply" /\ \A q \in Procs : q # s => pc'[q] = pc[q]
  BY <1>1 DEF Types, ProgTypes, PcTypes, Procs
<1>3. Fine(s)'
  <2>1. Fine(s)
    BY <1>2 DEF Core
  <2>2. /\ Calm(todo[s]) /\ Calm(readbuf[s]) /\ res[s] = 1 /\ call[s] = NoProc
        /\ ~ io[s].shared /\ \A m \in Members(readbuf[s]) : m.cmd # "TRANSACTION"
    BY <1>1, <2>1 DEF Fine, Line, Phase, Waiting, Dones
  <2>3. Line(s)' /\ AllGood(s, todo[s])' /\ AllGood(s, readbuf[s])'
    <3>1. "reply" \notin Dones
      BY DEF Dones
    <3>. QED  BY <1>1, <1>2, <2>2, <3>1, CalmLine
  <2>4. Phase(s)'
    BY <1>1, <1>2, <2>1, <2>2 DEF Fine, Phase
  <2>5. ServerPhase(s)'
    BY <1>1, <1>2, <2>1 DEF Fine, ServerPhase
  <2>6. s \notin Clients
    BY SystemAssumption
  <2>. QED  BY <1>1, <2>2, <2>3, <2>4, <2>5, <2>6 DEF Fine, Goods
<1>4. ASSUME NEW q \in Procs, q # s, q # serving[s]
      PROVE  Fine(q)'
  <2>1. Same(q)
    BY <1>1, <1>2, <1>4 DEF Same
  <2>. QED  BY <2>1, SameFine DEF Core
<1>5. ASSUME NEW q \in Procs, q = serving[s]
      PROVE  Fine(q)'
  <2>1. q \in Clients /\ q \notin Servers /\ q # s
    BY <1>5, SystemAssumption DEF Types, ProgTypes, Procs
  <2>2. Held(q, s, 0) /\ Fine(q)
    BY <1>5, <2>1 DEF Core, Placed, Place
  <2>3. pc[q] \in {"await_hello", "exit", "dead"} /\ pc'[q] = pc[q]
        /\ (q \in alive => call[q] = s)
    BY <1>2, <2>1, <2>2 DEF Held
  <2>4. s # NoProc /\ (q \notin alive => Calm(todo[q]) /\ Calm(readbuf[q]))
    BY <2>2, SystemAssumption, LastNone DEF Procs, Fine, Phase
  <2>5. Calm(todo[q]) /\ Calm(readbuf[q]) /\ ~ io[q].shared
    <3>1. q \in alive => res[q] = 1
      BY <2>2, <2>3, <2>4 DEF Fine, Line
    <3>2. q \notin alive => pc[q] = "dead"
      BY <2>2 DEF Fine, Phase
    <3>. QED  BY <2>2, <2>3, <2>4, <3>1, <3>2 DEF Fine, Line, Waiting, Dones
  <2>6. Goods(q)'
    BY <1>1, <2>5 DEF Goods, AllGood, Calm, Answers
  <2>7. Line(q)' /\ Phase(q)'
    BY <1>1, <2>2, <2>3 DEF Fine, Line, Phase
  <2>8. ClientPhase(q)'
    BY <1>1, <2>1, <2>2, <2>3 DEF Fine, ClientPhase
  <2>. QED  BY <2>1, <2>6, <2>7, <2>8 DEF Fine
<1>. QED  BY <1>3, <1>4, <1>5

(* The answer to a process that waits for it, and nothing else.            *)
LEMMA AnswerFine ==
  ASSUME Types, NEW q \in Procs, Fine(q), NEW m \in Command, m.cmd \in Answers,
         q \in alive, call[q] # NoProc, q \in alive',
         todo'[q] = todo[q] \o <<m>>, call'[q] = NoProc,
         pc'[q] = pc[q], readbuf'[q] = readbuf[q], res'[q] = res[q], io'[q] = io[q],
         m.cmd = "REPLY" => Good(q, m)',
         q \in Servers => /\ q \in accepted => q \in accepted'
                          /\ serving'[q] = serving[q],
         q \in Clients => /\ g_handle'[q] = g_handle[q] /\ ret'[q] = ret[q]
                          /\ said'[q] = said[q]
                          /\ \/ ref'[q] = ref[q]
                             \/ /\ ref'[q] \in 0..2
                                /\ pc[q] \notin {"lookup", "hello", "await_hello", "done_hello"}
  PROVE  Fine(q)'
<1>1. /\ Calm(todo[q]) /\ Calm(readbuf[q]) /\ res[q] = 1 /\ Phase(q)
      /\ pc[q] \in Waiting \cup {"exit"} /\ ~ io[q].shared
  BY DEF Fine, Line, Waiting, Dones
<1>2. Line(q)' /\ Phase(q)' /\ Goods(q)'
  BY <1>1, Told
<1>3. q \in Servers => ServerPhase(q)'
  BY DEF Fine, ServerPhase
<1>4. q \in Clients => ClientPhase(q)'
  <2>1. NoProc # Manager
    BY SystemAssumption
  <2>. QED  BY <2>1 DEF Fine, ClientPhase
<1>. QED  BY <1>2, <1>3, <1>4 DEF Fine

LEMMA SendReplyFine ==
  ASSUME Types, Core, NEW s \in Servers, SendReply(s)
  PROVE  \A q \in Procs : Fine(q)'
<1>. DEFINE c == serving[s]
<1>1. /\ s \in Procs /\ s \in alive /\ pc[s] = "reply" /\ pc'[s] = "loop"
      /\ \A q \in Procs : q # s => pc'[q] = pc[q]
      /\ UNCHANGED <<alive, readbuf, res, io, g_handle, ref, accepted>> /\ UNCHANGED helloVars
      /\ serving'[s] = NoProc /\ \A u \in Servers : u # s => serving'[u] = serving[u]
  BY DEF SendReply, At, Goto, Types, ProgTypes, PcTypes, Procs, mgrVars, lifeVars
<1>2. Fine(s) /\ c \in Clients /\ c \in Procs /\ c # s
  <2>1. Fine(s)
    BY <1>1 DEF Core
  <2>. QED  BY <1>1, <2>1, SystemAssumption DEF Fine, ServerPhase, Types, ProgTypes, Procs
<1>3. PICK m \in Command : /\ m = Reply(reply[s].status, reply[s].num, NoProc)
                           /\ m.cmd = "REPLY" /\ m.ref = NoProc
                           /\ m.status = reply[s].status /\ m.num = reply[s].num
  <2>1. reply[s].status \in {0, -1} /\ reply[s].num \in Nat
    BY DEF Types, HelloTypes
  <2>. QED  BY <2>1, Commands
<1>4. \A q \in Procs : Got(q, c, m, {c}, s)
  <2>1. Deliver(c, m, {c}, s)
    BY <1>3 DEF SendReply
  <2>. QED  BY <1>1, <1>2, <2>1, Delivered
<1>5. Fine(s)'
  <2>1. /\ todo'[s] = todo[s] \o <<BR("COMPLETE")>> /\ call'[s] = call[s]
        /\ Calm(todo[s]) /\ Calm(readbuf[s]) /\ res[s] = 1 /\ call[s] = NoProc
        /\ ~ io[s].shared /\ \A n \in Members(readbuf[s]) : n.cmd # "TRANSACTION"
    BY <1>1, <1>2, <1>4 DEF Got, Fine, Line, Phase, Waiting, Dones
  <2>2. BR("COMPLETE") \in Command /\ BR("COMPLETE").cmd = "COMPLETE"
    BY Commands
  <2>3. Members(todo'[s]) = Members(todo[s]) \cup {BR("COMPLETE")}
    BY <1>1, <2>1, <2>2, MembersAdd DEF Types, DriverTypes
  <2>4. Calm(todo'[s])
    BY <2>1, <2>2, <2>3 DEF Calm, Answers
  <2>5. Line(s)' /\ AllGood(s, todo[s])' /\ AllGood(s, readbuf[s])'
    <3>1. "loop" \notin Dones
      BY DEF Dones
    <3>. QED  BY <1>1, <2>1, <2>4, <3>1, CalmLine
  <2>6. Phase(s)'
    BY <1>1, <1>2, <2>1, <2>2, <2>3 DEF Fine, Phase
  <2>7. ServerPhase(s)'
    BY <1>1, <1>2 DEF Fine, ServerPhase
  <2>8. s \notin Clients
    BY SystemAssumption
  <2>. QED  BY <1>1, <2>1, <2>5, <2>6, <2>7, <2>8 DEF Fine, Goods
<1>6. ASSUME NEW q \in Procs, q # s, q # c
      PROVE  Fine(q)'
  <2>1. Same(q)
    BY <1>1, <1>4, <1>6 DEF Same, Got, helloVars
  <2>. QED  BY <2>1, SameFine DEF Core
<1>7. ASSUME NEW q \in Procs, q = c
      PROVE  Fine(q)'
  <2>1. q \in Clients /\ q \notin Servers /\ Fine(q) /\ Held(q, s, 0)
    BY <1>2, <1>7, SystemAssumption DEF Core, Placed, Place
  <2>2. CASE q \notin alive
    <3>1. call'[q] = call[q]
      BY <1>1, <1>4, <1>7, <2>1, <2>2 DEF Got, Fine, Line, Phase, Waiting
    <3>2. Same(q)
      BY <1>1, <1>2, <1>4, <1>7, <2>1, <2>2, <3>1 DEF Same, Got, helloVars
    <3>. QED  BY <2>1, <3>2, SameFine
  <2>3. CASE q \in alive
    <3>1. /\ call[q] # NoProc /\ todo'[q] = todo[q] \o <<m>> /\ call'[q] = NoProc
          /\ q # s
      <4>1. call[q] = s /\ s # NoProc
        BY <1>1, <2>1, <2>3, SystemAssumption DEF Held
      <4>2. Got(q, q, m, {q}, s)
        BY <1>4, <1>7
      <4>. QED  BY <1>2, <1>7, <2>3, <4>1, <4>2 DEF Got
    <3>2. TrueAnswer(q, reply[s]) /\ pc[q] \in {"await_hello", "exit", "dead"}
      BY <1>1, <2>1 DEF Held
    <3>3. Good(q, m)'
      BY <1>1, <1>3, <2>1, <3>1, <3>2 DEF Good, TrueAnswer, helloVars
    <3>. QED  BY <1>1, <1>3, <2>1, <2>3, <3>1, <3>3, AnswerFine DEF Answers, helloVars
  <2>. QED  BY <2>2, <2>3
<1>. QED  BY <1>5, <1>6, <1>7

LEMMA AddFine ==
  ASSUME Types, Core, NEW s \in Procs, Add(s)
  PROVE  \A q \in Procs : Fine(q)'
<1>1. /\ s \in Servers /\ s \notin Clients /\ s # NoProc /\ asked[s] = "ADD"
      /\ UNCHANGED <<alive, ref>> /\ UNCHANGED progVars
  BY SystemAssumption DEF Add, Refuse, R!Register, Types, MgrTypes, Procs
<1>2. PICK st \in {0, -1} : /\ Deliver(s, StatusReply(st), {}, NoProc)
                            /\ \/ st = 0 /\ accepted' = accepted \cup {s}
                               \/ st # 0 /\ accepted' = accepted
  BY DEF Add, Refuse
<1>3. PICK m \in Command : /\ m = StatusReply(st) /\ m.cmd = "REPLY" /\ m.ref = NoProc
                           /\ m.status = st
  BY Commands DEF StatusReply
<1>4. \A q \in Procs : Got(q, s, m, {}, NoProc)
  BY <1>1, <1>2, <1>3, Delivered
<1>5. ASSUME NEW q \in Procs, q # s \/ s \notin alive
      PROVE  Fine(q)'
  <2>1. Fine(q)
    BY DEF Core
  <2>2. q # NoProc
    BY SystemAssumption DEF Procs
  <2>3. call'[q] = call[q]
    BY <1>4, <1>5, <2>1 DEF Got, Fine, Line, Phase, Waiting
  <2>4. Same(q)
    BY <1>1, <1>2, <1>4, <1>5, <2>2, <2>3 DEF Same, Got, progVars, helloVars
  <2>. QED  BY <2>1, <2>4, SameFine
<1>6. CASE s \in alive
  <2>1. Fine(s) /\ call[s] # NoProc
    BY <1>1, <1>6, SystemAssumption DEF Core, Asked
  <2>2. todo'[s] = todo[s] \o <<m>> /\ call'[s] = NoProc
    BY <1>4, <1>6 DEF Got
  <2>3. Good(s, m)'
    <3>1. pc'[s] \in ServerPCs
      BY <1>1 DEF Types, ProgTypes, PcTypes, progVars
    <3>. QED  BY <1>1, <1>2, <1>3, <3>1 DEF Good, ServerPCs
  <2>4. Fine(s)'
    BY <1>1, <1>2, <1>3, <1>6, <2>1, <2>2, <2>3, AnswerFine DEF Answers, progVars
  <2>. QED  BY <1>5, <2>4
<1>. QED  BY <1>5, <1>6

LEMMA CheckReplyFine ==
  ASSUME Types, Core, CheckReply
  PROVE  \A q \in Procs : Fine(q)'
<1>1. /\ mgr \in Clients /\ mgr \in Procs /\ mgr # NoProc
      /\ Deliver(mgr, Reply(0, 0, given), {}, NoProc)
      /\ ref' = IF given # NoProc /\ mgr \in alive
                THEN [ref EXCEPT ![mgr] = @ + 1] ELSE ref
      /\ UNCHANGED <<alive, accepted>> /\ UNCHANGED progVars
  BY DEF CheckReply, R!Answered, Types, MgrTypes, Procs, lifeVars
<1>2. PICK c \in Clients : c = mgr /\ c \in Procs
  BY <1>1
<1>3. PICK m \in Command : /\ m = Reply(0, 0, given) /\ m.cmd = "REPLY" /\ m.ref = given
  BY Commands DEF Types, MgrTypes
<1>4. \A q \in Procs : Got(q, c, m, {}, NoProc)
  BY <1>1, <1>2, <1>3, Delivered
<1>5. ASSUME NEW q \in Procs, q # c \/ c \notin alive
      PROVE  Fine(q)'
  <2>1. Fine(q)
    BY DEF Core
  <2>2. q # NoProc
    BY SystemAssumption DEF Procs
  <2>3. call'[q] = call[q]
    BY <1>4, <1>5, <2>1 DEF Got, Fine, Line, Phase, Waiting
  <2>4. q \in Clients => ref'[q] = ref[q]
    BY <1>1, <1>2, <1>5 DEF Types, DriverTypes
  <2>5. Same(q)
    BY <1>1, <1>4, <1>5, <2>2, <2>3, <2>4 DEF Same, Got, progVars, helloVars
  <2>. QED  BY <2>1, <2>5, SameFine
<1>6. CASE c \in alive
  <2>1. Fine(c) /\ call[c] = Manager /\ call[c] # NoProc /\ c \notin Servers
    BY <1>2, <1>6, SystemAssumption DEF Core, Asked
  <2>2. todo'[c] = todo[c] \o <<m>> /\ call'[c] = NoProc
    BY <1>2, <1>4, <1>6 DEF Got
  <2>3. ref[c] = 0
    BY <1>2, <2>1 DEF Fine, ClientPhase
  <2>4. ref'[c] = Refs(given)
    BY <1>1, <1>2, <1>6, <2>3 DEF Refs, Types, DriverTypes
  <2>5. pc[c] \in {"await_lookup", "exit"}
    BY <1>2, <1>6, <2>1 DEF Fine, Line, Phase, Waiting, Types, ProgTypes, PcTypes, ClientPCs
  <2>6. Good(c, m)'
    BY <1>1, <1>3, <2>1, <2>4, <2>5 DEF Good, progVars
  <2>7. ref'[c] \in 0..2
    BY <2>4 DEF Refs
  <2>8. Fine(c)'
    BY <1>1, <1>2, <1>3, <1>6, <2>1, <2>2, <2>5, <2>6, <2>7, AnswerFine
    DEF Answers, progVars, helloVars
  <2>. QED  BY <1>5, <2>8
<1>. QED  BY <1>5, <1>6

(* Everybody who waits for p is told that it is dead.                      *)
LEMMA AbandonedFine ==
  ASSUME Types, Core, NEW p \in Procs \cup {Manager}, Abandoned(p, {p} \cap Procs),
         alive' = alive \ {p},
         \A q \in Procs : q # p =>
           /\ pc'[q] = pc[q] /\ readbuf'[q] = readbuf[q] /\ res'[q] = res[q]
           /\ io'[q] = io[q]
           /\ q \in Servers => serving'[q] = serving[q]
           /\ q \in Clients => g_handle'[q] = g_handle[q] /\ ref'[q] = ref[q],
         UNCHANGED accepted, UNCHANGED helloVars,
         NEW q \in Procs, q # p
  PROVE  Fine(q)'
<1>1. /\ Fine(q) /\ p # NoProc /\ (q \in alive' <=> q \in alive)
      /\ todo[q] \in Seq(Command)
  BY SystemAssumption DEF Core, Types, DriverTypes
<1>2. BR("DEAD") \in Command /\ BR("DEAD").cmd = "DEAD"
  BY Commands
<1>3. CASE call[q] = p
  <2>1. todo'[q] = todo[q] \o <<BR("DEAD")>> /\ call'[q] = NoProc
    BY <1>1, <1>2, <1>3, MembersAdd DEF Abandoned
  <2>2. q \in alive
    BY <1>1, <1>3 DEF Fine, Line, Phase, Waiting
  <2>. QED
    BY <1>1, <1>2, <1>3, <2>1, <2>2, AnswerFine DEF Answers, helloVars
<1>4. CASE call[q] # p
  <2>1. todo'[q] = todo[q] /\ call'[q] = call[q]
    BY <1>4 DEF Abandoned
  <2>2. Same(q)
    BY <1>1, <2>1 DEF Same, helloVars
  <2>. QED  BY <1>1, <2>2, SameFine
<1>. QED  BY <1>3, <1>4

LEMMA DeathFine ==
  ASSUME Types, Types', Core, NEW p \in Procs, Die(p)
  PROVE  \A q \in Procs : Fine(q)'
<1>1. /\ alive' = alive \ {p} /\ p \in alive /\ Abandoned(p, {p} \cap Procs)
      /\ UNCHANGED accepted /\ UNCHANGED helloVars
  <2>1. {p} \cap Procs = {p}
    OBVIOUS
  <2>. QED  BY <2>1 DEF Die, R!Die, lifeVars
<1>2. \A q \in Procs : q # p =>
           /\ pc'[q] = pc[q] /\ readbuf'[q] = readbuf[q] /\ res'[q] = res[q]
           /\ io'[q] = io[q]
           /\ q \in Servers => serving'[q] = serving[q]
           /\ q \in Clients => g_handle'[q] = g_handle[q] /\ ref'[q] = ref[q]
  BY DEF Die, Goto, Types, ProgTypes, PcTypes, DriverTypes
<1>3. ASSUME NEW q \in Procs, q # p
      PROVE  Fine(q)'
  BY <1>1, <1>2, <1>3, AbandonedFine
<1>4. /\ pc'[p] = "dead" /\ readbuf'[p] = <<>> /\ todo'[p] = <<>> /\ res'[p] = 1
      /\ io'[p] = NoIO /\ call'[p] = NoProc
      /\ p \in Servers => serving'[p] = NoProc
      /\ p \in Clients => ref'[p] = 0
  BY SystemAssumption
  DEF Die, Goto, Abandoned, Types, ProgTypes, PcTypes, DriverTypes, Procs
<1>5. Fine(p)'
  <2>1. Line(p)' /\ AllGood(p, todo[p])' /\ AllGood(p, readbuf[p])'
    <3>1. "dead" \notin Dones
      BY DEF Dones
    <3>. QED  BY <1>4, <3>1, LastNone, NoIOType, CalmLine
  <2>2. Phase(p)'
    BY <1>1, <1>4, MembersNone DEF Phase
  <2>4. p \in Clients => ClientPhase(p)'
    BY <1>4 DEF ClientPhase
  <2>5. p \in Servers => ServerPhase(p)'
    BY <1>4 DEF ServerPhase
  <2>. QED  BY <1>4, <2>1, <2>2, <2>4, <2>5, NoIOType DEF Fine, Goods
<1>. QED  BY <1>3, <1>5

LEMMA ManagerDiesFine ==
  ASSUME Types, Core, ManagerDies
  PROVE  \A q \in Procs : Fine(q)'
<1>1. Manager \notin Procs /\ {Manager} \cap Procs = {} /\ alive' = alive /\ alive \ {Manager} = alive
  BY SystemAssumption DEF ManagerDies, Types, MgrTypes
<1>2. /\ Abandoned(Manager, {Manager} \cap Procs) /\ UNCHANGED accepted
      /\ UNCHANGED helloVars
      /\ UNCHANGED <<pc, readbuf, res, io, serving, g_handle, ref>>
  BY <1>1 DEF ManagerDies, progVars
<1>. QED  BY <1>1, <1>2, AbandonedFine

LEMMA FineKept ==
  ASSUME Types, Types', Core, [Next]_vars
  PROVE  \A q \in Procs : Fine(q)'
<1>1. ASSUME NEW p \in Procs,
             \/ p \in Servers /\ (Publish(p) \/ PublishDone(p))
             \/ p \in Clients /\ (Lookup(p) \/ Acquire(p) \/ LookupDone(p))
             \/ p \in Clients /\ (Hello(p) \/ HelloDone(p))
             \/ Read(p) \/ Parse(p) \/ CallDone(p) \/ ParseEnds(p)
             \/ OpenFails(p) \/ ReadFails(p)
      PROVE  \A q \in Procs : Fine(q)'
  <2>1. Alone(p)
    BY <1>1, StepsAlone
  <2>2. Fine(p)
    BY DEF Core
  <2>3. Fine(p)'
    BY <1>1, <2>2, CallsFine, ReadFine, ParseFine, EndsFine, CallDoneFine, DonesFine
  <2>. QED  BY <2>1, <2>3, SameFine DEF Alone, Core
<1>2. ASSUME NEW s \in Servers, sayhello(s) \/ sayhello_to(s) \/ Reject(s) \/ SendReply(s)
      PROVE  \A q \in Procs : Fine(q)'
  BY <1>2, HandlerFine, SendReplyFine
<1>3. ASSUME NEW p \in Procs, Add(p) \/ Die(p)
      PROVE  \A q \in Procs : Fine(q)'
  BY <1>3, AddFine, DeathFine
<1>4. CASE CheckReply \/ ManagerDies
  BY <1>4, CheckReplyFine, ManagerDiesFine
<1>5. CASE \/ Forget \/ ManagerStarts \/ ManagerReady \/ UNCHANGED vars
           \/ \E p \in Procs : Check(p)
  <2>1. UNCHANGED progVars /\ UNCHANGED driverVars /\ UNCHANGED <<alive, accepted>>
    BY <1>5 DEF Forget, R!Forget, ManagerStarts, ManagerReady, Check, R!Lookup,
                R!Answered, vars,
                mgrVars, lifeVars
  <2>2. \A q \in Procs : Same(q)
    BY <2>1 DEF Same, progVars, driverVars, helloVars
  <2>. QED  BY <2>2, SameFine DEF Core
<1>. QED
  BY <1>1, <1>2, <1>3, <1>4, <1>5
  DEF Next, ServerSteps, ClientSteps, CallSteps, ManagerSteps, Exit, Procs
-----------------------------------------------------------------------------
(* The service manager's callers.                                          *)

LEMMA AskedKept ==
  ASSUME Types, Core, [Next]_vars
  PROVE  Asked'
<1>1. /\ Asked /\ Manager # NoProc /\ Manager \notin Procs /\ NoProc \notin Procs
      /\ alive \subseteq Procs
  BY SystemAssumption DEF Core, Types, MgrTypes
<1>2. \A p \in Procs : p \in alive /\ pc[p] \notin Waiting \cup {"exit"} => call[p] = NoProc
  BY DEF Core, Fine, Line
<1>3. ASSUME UNCHANGED <<asked, mgr, call>>, alive' \subseteq alive
      PROVE  Asked'
  BY <1>1, <1>3 DEF Asked
<1>4. ASSUME NEW p \in Procs, p \in alive, call[p] = NoProc,
             NEW x \in Servers \cup {Manager, NoProc}, call' = [call EXCEPT ![p] = x],
             \/ asked' = asked
             \/ \E r \in {"ADD", "CHECK"} : asked' = [asked EXCEPT ![p] = r] /\ x = Manager,
             UNCHANGED <<mgr, alive>>
      PROVE  Asked'
  <2>1. p # mgr /\ asked[p] = "none"
    BY <1>1, <1>4 DEF Asked, Types, MgrTypes
  <2>2. \A q \in Procs : q # p => asked'[q] = asked[q] /\ call'[q] = call[q]
    BY <1>4 DEF Types, MgrTypes, DriverTypes
  <2>3. asked'[p] # "none" => call'[p] = Manager
    BY <1>4, <2>1 DEF Types, MgrTypes, DriverTypes
  <2>. QED  BY <1>1, <1>4, <2>1, <2>2, <2>3 DEF Asked
<1>5. ASSUME NEW p \in Procs,
             \/ p \in Servers /\ Publish(p)
             \/ p \in Clients /\ (Lookup(p) \/ Hello(p))
      PROVE  Asked'
  <2>1. p \in alive /\ call[p] = NoProc /\ UNCHANGED <<mgr, alive>>
    BY <1>2, <1>5 DEF Publish, Lookup, Hello, At, Waiting
  <2>2. ASSUME NEW r \in {"ADD", "CHECK"}, CallManager(p, r)
        PROVE  Asked'
    <3>1. \/ UNCHANGED <<asked, call>>
          \/ asked' = [asked EXCEPT ![p] = r] /\ call' = [call EXCEPT ![p] = Manager]
      BY <2>2 DEF CallManager, Refused
    <3>. QED  BY <1>3, <1>4, <2>1, <3>1
  <2>3. ASSUME p \in Clients, Hello(p)
        PROVE  Asked'
    <3>1. \/ UNCHANGED <<asked, call>>
          \/ asked' = asked /\ call' = [call EXCEPT ![p] = g_handle[p]]
      BY <2>3 DEF Hello, Refused
    <3>2. g_handle[p] \in Servers \cup {Manager, NoProc}
      BY <2>3 DEF Types, ProgTypes
    <3>. QED  BY <1>3, <1>4, <2>1, <3>1, <3>2
  <2>. QED  BY <1>5, <2>2, <2>3 DEF Publish, Lookup
<1>6. ASSUME NEW p \in Procs,
             \/ p \in Servers /\ PublishDone(p)
             \/ p \in Clients /\ (Acquire(p) \/ LookupDone(p) \/ HelloDone(p))
             \/ Read(p) \/ Parse(p) \/ CallDone(p) \/ ParseEnds(p)
             \/ OpenFails(p) \/ ReadFails(p)
             \/ sayhello(p) \/ sayhello_to(p) \/ Reject(p)
      PROVE  Asked'
  <2>1. UNCHANGED <<asked, mgr, call, alive>>
    BY <1>6 DEF PublishDone, Acquire, LookupDone, HelloDone, Read, Parse, CallDone, ParseEnds,
                GiveUp,
                OpenFails, ReadFails, sayhello, sayhello_to, Reject, Handler, mgrVars,
                driverVars
  <2>. QED  BY <1>3, <2>1
<1>7. ASSUME NEW s \in Servers, SendReply(s)
      PROVE  Asked'
  <2>1. /\ call' = [call EXCEPT ![serving[s]] = NoProc] /\ UNCHANGED <<asked, mgr, alive>>
        /\ s \in Procs /\ pc[s] = "reply"
    BY <1>7 DEF SendReply, Deliver, At, mgrVars, Procs
  <2>2. serving[s] \in Clients
    BY <2>1 DEF Core, Fine, ServerPhase, Types, ProgTypes
  <2>3. serving[s] \in alive => call[serving[s]] = s
    BY <2>2 DEF Core, Placed, Place, Held
  <2>4. \A q \in Procs : q # serving[s] => call'[q] = call[q]
    BY <2>1 DEF Types, DriverTypes
  <2>. QED  BY <1>1, <2>1, <2>3, <2>4, SystemAssumption DEF Asked, Procs
<1>8. ASSUME NEW s \in Procs, Add(s)
      PROVE  Asked'
  <2>1. /\ asked' = [asked EXCEPT ![s] = "none"] /\ mgr' = mgr /\ mgr = NoProc
        /\ call' = [call EXCEPT ![s] = NoProc] /\ alive' = alive
    BY <1>8 DEF Add, Refuse, R!Register, Deliver, Idle
  <2>2. \A q \in Procs : q # s => call'[q] = call[q] /\ asked'[q] = asked[q]
    BY <2>1 DEF Types, DriverTypes, MgrTypes
  <2>3. asked'[s] = "none"
    BY <2>1 DEF Types, MgrTypes
  <2>. QED  BY <1>1, <2>1, <2>2, <2>3 DEF Asked
<1>9. ASSUME NEW c \in Procs, Check(c)
      PROVE  Asked'
  <2>1. /\ asked' = [asked EXCEPT ![c] = "none"] /\ mgr' = c /\ asked[c] = "CHECK"
        /\ call' = call /\ alive' = alive /\ mgr = NoProc
    BY <1>9 DEF Check, R!Lookup, R!Answered, Idle, driverVars
  <2>2. asked'[c] = "none" /\ \A q \in Procs : q # c => asked'[q] = asked[q]
    BY <2>1 DEF Types, MgrTypes
  <2>. QED  BY <1>1, <2>1, <2>2 DEF Asked
<1>10. CASE CheckReply
  <2>1. /\ asked' = asked /\ mgr' = NoProc /\ alive' = alive
        /\ call' = [call EXCEPT ![mgr] = NoProc]
    BY <1>10 DEF CheckReply, R!Answered, Deliver
  <2>2. \A q \in Procs : q # mgr => call'[q] = call[q]
    BY <2>1 DEF Types, DriverTypes
  <2>. QED  BY <1>1, <2>1, <2>2 DEF Asked
<1>11. CASE ManagerDies
  <2>1. mgr' = NoProc /\ alive' = alive /\ \A p \in Procs : asked'[p] = "none"
    BY <1>11 DEF ManagerDies
  <2>. QED  BY <1>1, <2>1 DEF Asked
<1>12. ASSUME NEW p \in Procs, Die(p)
      PROVE  Asked'
  <2>1. /\ asked' = asked /\ mgr' = mgr /\ alive' = alive \ {p}
        /\ \A q \in Procs : call'[q] = IF q = p \/ call[q] = p THEN NoProc ELSE call[q]
    BY <1>12 DEF Die, R!Die, Abandoned
  <2>. QED  BY <1>1, <2>1 DEF Asked
<1>13. CASE Forget \/ ManagerStarts \/ ManagerReady \/ UNCHANGED vars
  <2>1. UNCHANGED <<asked, mgr, call, alive>>
    BY <1>13 DEF Forget, R!Forget, ManagerStarts, ManagerReady, vars, driverVars, mgrVars
  <2>. QED  BY <1>3, <2>1
<1>. QED
  BY <1>5, <1>6, <1>7, <1>8, <1>9, <1>10, <1>11, <1>12, <1>13
  DEF Next, ServerSteps, ClientSteps, CallSteps, ManagerSteps, Exit, Procs
-----------------------------------------------------------------------------
(* Requests, each in one place.                                            *)

LEMMA PlacesStay ==
  ASSUME Core,
         \A c \in Clients, s \in Servers, k \in Nat :
           Place(s, c, k)' => Place(s, c, k) /\ (Held(c, s, k) => Held(c, s, k)')
  PROVE  Unique' /\ Placed'
<1>1. Unique'
  BY DEF Core, Unique
<1>2. Placed'
  BY DEF Core, Placed
<1>. QED  BY <1>1, <1>2

LEMMA PlaceSame ==
  ASSUME NEW s, NEW c, NEW k, serving'[s] = serving[s], readbuf'[s] = readbuf[s],
         work'[s] = work[s]
  PROVE  Place(s, c, k)' <=> Place(s, c, k)
BY DEF Place

LEMMA HeldSame ==
  ASSUME NEW c \in Clients, NEW s \in Servers, NEW k \in Nat, Held(c, s, k),
         pc'[c] = pc[c] \/ pc'[c] \in {"exit", "dead"},
         c \in alive' => c \in alive /\ call'[c] = call[c],
         ret'[c] \in {ret[c], Zero}, said'[c] = said[c], asks'[c] = asks[c],
         k = 0 => reply'[s] = reply[s] /\ (pc'[s] = "reply" <=> pc[s] = "reply")
  PROVE  Held(c, s, k)'
BY DEF Held, TrueAnswer

LEMMA PlacesAlone ==
  ASSUME Types, Core, NEW p \in Procs, Alone(p),
         UNCHANGED <<alive, reply, work, readbuf, serving>>,
         p \in Servers => pc[p] \notin {"handler", "reply"} /\ pc'[p] # "reply",
         p \in Clients =>
           \/ pc[p] \notin {"await_hello", "exit", "dead"}
           \/ pc[p] = "await_hello" /\ p \in alive /\ call[p] = NoProc
           \/ /\ pc'[p] = "exit" /\ call'[p] = call[p] /\ ret'[p] \in {ret[p], Zero}
              /\ said'[p] = said[p] /\ asks'[p] = asks[p]
  PROVE  Unique' /\ Placed'
<1>. SUFFICES ASSUME NEW c \in Clients, NEW s \in Servers, NEW k \in Nat, Place(s, c, k)
              PROVE  Held(c, s, k)'
  BY PlacesStay, PlaceSame
<1>1. Held(c, s, k) /\ c \in Procs /\ s \in Procs /\ s # NoProc /\ c \notin Servers
  BY SystemAssumption DEF Core, Placed, Procs
<1>2. k = 0 => serving[s] = c /\ c # NoProc
  BY SystemAssumption DEF Place, Procs
<1>3. k = 0 => pc[s] \in {"handler", "reply"}
  BY <1>1, <1>2 DEF Core, Fine, ServerPhase
<1>4. k = 0 => (pc'[s] = "reply" <=> pc[s] = "reply")
  BY <1>1, <1>3 DEF Alone, Same
<1>5. CASE c # p
  BY <1>1, <1>4, <1>5, HeldSame DEF Alone, Same
<1>6. CASE c = p
  <2>1. /\ pc[c] \in {"await_hello", "exit", "dead"}
        /\ ~(pc[c] = "await_hello" /\ c \in alive /\ call[c] = NoProc)
    BY <1>1 DEF Held
  <2>. QED  BY <1>1, <1>4, <1>6, <2>1, HeldSame
<1>. QED  BY <1>5, <1>6

LEMMA HandlerPlaces ==
  ASSUME Types, Core, NEW s \in Servers, sayhello(s) \/ sayhello_to(s) \/ Reject(s)
  PROVE  Unique' /\ Placed'
<1>. DEFINE c == serving[s]
<1>1. /\ s \in Procs /\ s \in alive /\ pc[s] = "handler" /\ pc'[s] = "reply"
      /\ \A q \in Procs : q # s => pc'[q] = pc[q]
      /\ \A u \in Servers : u # s => reply'[u] = reply[u]
      /\ UNCHANGED <<alive, readbuf, serving, ret, asks, work, call>>
  BY DEF sayhello, sayhello_to, Reject, Handler, Goto, At, Types, ProgTypes, PcTypes, HelloTypes,
         driverVars, Procs
<1>2. c \in Clients /\ Place(s, c, 0)
  BY <1>1 DEF Core, Fine, ServerPhase, Types, ProgTypes, Place
<1>3. Held(c, s, 0) /\ said[c] = 0
  BY <1>1, <1>2 DEF Core, Placed, Held
<1>4. /\ \A d \in Clients : d # c => said'[d] = said[d]
      /\ \/ /\ said'[c] # 0 /\ reply'[s].status = 0
            /\ \/ asks[c] = "SAYHELLO" /\ reply'[s].num = 0
               \/ asks[c] = "SAYHELLO_TO" /\ reply'[s].num = said'[c]
         \/ said'[c] = 0 /\ reply'[s].status = -1
  <2>1. said \in [Clients -> Nat] /\ reply \in [Servers -> [status : {0, -1}, num : Nat]]
    BY DEF Types, HelloTypes
  <2>2. \A k \in Counters : cnt[<<s, k>>] \in Nat /\ cnt[<<s, k>>] + 1 # 0
    <3>1. \A k \in Counters : cnt[<<s, k>>] \in Nat
      BY DEF Types, HelloTypes
    <3>. QED  BY <3>1
  <2>3. CASE sayhello(s)
    BY <1>2, <2>1, <2>2, <2>3 DEF sayhello, Handler, Count, Counters
  <2>4. CASE sayhello_to(s)
    BY <1>2, <2>1, <2>2, <2>4 DEF sayhello_to, Handler, Count, Counters
  <2>5. CASE Reject(s)
    BY <1>2, <1>3, <2>1, <2>5 DEF Reject, Handler
  <2>. QED  BY <2>3, <2>4, <2>5
<1>5. ASSUME NEW d \in Clients, NEW u \in Servers, NEW k \in Nat, Place(u, d, k),
             Held(d, u, k)
      PROVE  Held(d, u, k)'
  <2>1. d \in Procs /\ d # s /\ u \in Procs
    BY SystemAssumption DEF Procs
  <2>2. CASE d # c
    <3>1. k = 0 => u # s
      BY <1>5, <2>2 DEF Place
    <3>. QED  BY <1>1, <1>4, <1>5, <2>1, <2>2, <3>1, HeldSame
  <2>3. CASE d = c
    <3>1. u = s /\ k = 0
      BY <1>2, <1>5, <2>3 DEF Core, Unique
    <3>2. TrueAnswer(d, reply[s])'
      BY <1>1, <1>4, <2>3 DEF TrueAnswer
    <3>. QED  BY <1>1, <1>5, <2>1, <3>1, <3>2 DEF Held
  <2>. QED  BY <2>2, <2>3
<1>6. \A d \in Clients, u \in Servers, k \in Nat : Place(u, d, k)' <=> Place(u, d, k)
  BY <1>1, PlaceSame
<1>. QED  BY <1>5, <1>6, PlacesStay

(* A request that moves: where it was, and where it is now.                *)
LEMMA PlacesMove ==
  ASSUME Core, NEW s \in Servers, NEW g \in [Nat -> Nat],
         \A k, l \in Nat : g[k] = g[l] => k = l,
         \A c \in Clients, k \in Nat :
           Place(s, c, k)' => Place(s, c, g[k]) /\ (Held(c, s, g[k]) => Held(c, s, k)'),
         \A c \in Clients, u \in Servers, k \in Nat : u # s =>
           (Place(u, c, k)' => Place(u, c, k) /\ (Held(c, u, k) => Held(c, u, k)'))
  PROVE  Unique' /\ Placed'
<1>1. \A k \in Nat : g[k] \in Nat
  OBVIOUS
<1>2. Unique'
  <2>. SUFFICES ASSUME NEW c \in Clients, NEW t \in Servers, NEW u \in Servers,
                       NEW k \in Nat, NEW l \in Nat, Place(t, c, k)', Place(u, c, l)'
                PROVE  t = u /\ k = l
    BY DEF Unique
  <2>1. CASE t = s /\ u = s
    BY <1>1, <2>1 DEF Core, Unique
  <2>2. CASE t = s /\ u # s
    BY <1>1, <2>2 DEF Core, Unique
  <2>3. CASE t # s /\ u = s
    BY <1>1, <2>3 DEF Core, Unique
  <2>4. CASE t # s /\ u # s
    BY <2>4 DEF Core, Unique
  <2>. QED  BY <2>1, <2>2, <2>3, <2>4
<1>3. Placed'
  <2>. SUFFICES ASSUME NEW c \in Clients, NEW u \in Servers, NEW k \in Nat, Place(u, c, k)'
                PROVE  Held(c, u, k)'
    BY DEF Placed
  <2>. QED  BY <1>1 DEF Core, Placed
<1>. QED  BY <1>2, <1>3

LEMMA ReadPlaces ==
  ASSUME Types, Core, NEW p \in Procs, Read(p)
  PROVE  Unique' /\ Placed'
<1>1. /\ UNCHANGED <<alive, pc, serving, ret, said, asks, reply, call>>
      /\ \A q \in Procs : q # p => readbuf'[q] = readbuf[q]
      /\ readbuf[p] = <<>> /\ pc[p] \in Waiting \cup {"loop"} /\ p \in alive
  BY DEF Read, helloVars, Types, ProgTypes
<1>2. \A c \in Clients, s \in Servers, k, l \in Nat :
        (k = 0 <=> l = 0) /\ Held(c, s, k) => Held(c, s, l)'
  BY <1>1 DEF Held, TrueAnswer
<1>3. CASE /\ todo[p] # <<>> /\ readbuf'[p] = todo[p] /\ work' = work
  <2>1. ASSUME NEW c \in Clients, NEW s \in Servers, NEW k \in Nat, Place(s, c, k)'
        PROVE  Place(s, c, k)
    <3>1. CASE s # p
      BY <1>1, <1>3, <2>1, <3>1, PlaceSame DEF Procs
    <3>2. CASE s = p
      <4>1. todo[p] \in Seq(Command) /\ Fine(p)
        BY DEF Types, DriverTypes, Core
      <4>2. Head(todo[p]) \in Members(todo[p])
        BY <1>3, <4>1, MembersTake
      <4>3. Head(readbuf'[p]).cmd # "TRANSACTION"
        BY <1>3, <4>1, <4>2 DEF Fine, Phase
      <4>. QED  BY <1>1, <1>3, <2>1, <3>2, <4>3 DEF Place
    <3>. QED  BY <3>1, <3>2
  <2>. QED  BY <1>2, <2>1, PlacesStay
<1>4. CASE /\ pc[p] = "loop" /\ work[p] # <<>>
           /\ readbuf'[p] = <<Transaction(Head(work[p]))>>
           /\ work' = [work EXCEPT ![p] = Tail(@)]
  <2>1. p \in Servers
    BY <1>4 DEF Types, ProgTypes, PcTypes, ClientPCs, Procs
  <2>2. /\ work[p] \in Seq(Clients) /\ work'[p] = Tail(work[p])
        /\ \A s \in Servers : s # p => work'[s] = work[s]
    BY <1>4, <2>1 DEF Types, DriverTypes
  <2>3. serving[p] = NoProc
    BY <1>4, <2>1 DEF Core, Fine, ServerPhase
  <2>4. PICK g \in [Nat -> Nat] : \A k \in Nat : g[k] = k + 1
    <3>1. [k \in Nat |-> k + 1] \in [Nat -> Nat]
      OBVIOUS
    <3>. QED  BY <3>1
  <2>5. ASSUME NEW c \in Clients, NEW k \in Nat, Place(p, c, k)'
        PROVE  k # 0 /\ Place(p, c, k + 1)
    <3>1. c # NoProc /\ k # 0
      BY <1>1, <1>4, <2>3, <2>5, SystemAssumption DEF Place, Procs
    <3>2. CASE k = 1
      <4>1. Head(readbuf'[p]).from = c
        BY <2>5, <3>2 DEF Place
      <4>2. Head(readbuf'[p]) = Transaction(Head(work[p]))
        BY <1>4
      <4>3. Head(work[p]) = c
        BY <4>1, <4>2 DEF Transaction
      <4>4. Head(work[p]) = work[p][1] /\ 1 \in 1..Len(work[p])
        BY <1>4, <2>2
      <4>. QED  BY <3>2, <4>3, <4>4 DEF Place
    <3>3. CASE k # 1
      <4>1. k - 1 \in 1..Len(Tail(work[p])) /\ Tail(work[p])[k - 1] = c
        BY <2>2, <2>5, <3>1, <3>3 DEF Place
      <4>2. k \in 1..Len(work[p]) /\ work[p][k] = c
        BY <1>4, <2>2, <4>1
      <4>3. (k + 1) - 1 = k
        OBVIOUS
      <4>. QED  BY <3>1, <4>2, <4>3 DEF Place
    <3>. QED  BY <3>1, <3>2, <3>3
  <2>6. \A c \in Clients, k \in Nat : Place(p, c, k)' =>
          Place(p, c, g[k]) /\ (Held(c, p, g[k]) => Held(c, p, k)')
    <3>. SUFFICES ASSUME NEW c \in Clients, NEW k \in Nat, Place(p, c, k)'
                  PROVE  Place(p, c, g[k]) /\ (Held(c, p, g[k]) => Held(c, p, k)')
      OBVIOUS
    <3>1. g[k] = k + 1 /\ g[k] \in Nat /\ g[k] # 0 /\ k # 0 /\ Place(p, c, g[k])
      BY <2>4, <2>5
    <3>. QED  BY <1>2, <2>1, <3>1
  <2>7. \A c \in Clients, u \in Servers, k \in Nat : u # p =>
          (Place(u, c, k)' => Place(u, c, k) /\ (Held(c, u, k) => Held(c, u, k)'))
    BY <1>1, <1>2, <2>2, PlaceSame DEF Procs
  <2>8. \A k, l \in Nat : g[k] = g[l] => k = l
    BY <2>4
  <2>. QED  BY <2>1, <2>6, <2>7, <2>8, PlacesMove
<1>. QED  BY <1>3, <1>4 DEF Read, Types, ProgTypes, DriverTypes

LEMMA ParsePlaces ==
  ASSUME Types, Core, NEW p \in Procs, Parse(p)
  PROVE  Unique' /\ Placed'
<1>. DEFINE m == Head(readbuf[p])
<1>1. /\ UNCHANGED <<alive, ret, said, asks, reply, call, work>>
      /\ \A q \in Procs : q # p => readbuf'[q] = readbuf[q] /\ pc'[q] = pc[q]
      /\ \A q \in Servers : q # p => serving'[q] = serving[q]
      /\ readbuf[p] # <<>> /\ readbuf'[p] = Tail(readbuf[p]) /\ p \in alive
      /\ pc[p] \in Waiting \cup {"loop"} /\ readbuf[p] \in Seq(Command)
  BY DEF Parse, helloVars, driverVars, Goto, Types, ProgTypes, PcTypes
<1>2. Fine(p) /\ m \in Members(readbuf[p]) /\ Members(Tail(readbuf[p])) \subseteq Members(readbuf[p])
  BY <1>1, MembersTake DEF Core
<1>3. readbuf'[p] # <<>> => Head(readbuf'[p]).cmd # "TRANSACTION"
  <2>. SUFFICES ASSUME readbuf'[p] # <<>>, Head(readbuf'[p]).cmd = "TRANSACTION"
                PROVE  FALSE
    OBVIOUS
  <2>1. Head(Tail(readbuf[p])) \in Members(Tail(readbuf[p]))
    BY <1>1, MembersTake
  <2>2. PICK n \in Members(readbuf[p]) : n = Head(readbuf'[p])
    BY <1>1, <1>2, <2>1
  <2>3. readbuf[p] = <<n>>
    BY <1>2, <2>2 DEF Fine, Phase
  <2>. QED  BY <1>1, <2>3
<1>4. CASE ~(m.cmd = "TRANSACTION" /\ pc[p] = "loop")
  <2>1. UNCHANGED <<pc, serving>>
    BY <1>4 DEF Parse
  <2>2. \A c \in Clients, s \in Servers, k \in Nat : Held(c, s, k) => Held(c, s, k)'
    BY <1>1, <2>1 DEF Held, TrueAnswer
  <2>3. ASSUME NEW c \in Clients, NEW s \in Servers, NEW k \in Nat, Place(s, c, k)'
        PROVE  Place(s, c, k)
    <3>1. CASE s # p
      BY <1>1, <2>1, <2>3, <3>1, PlaceSame DEF Procs
    <3>2. CASE s = p
      BY <1>1, <1>3, <2>1, <2>3, <3>2 DEF Place
    <3>. QED  BY <3>1, <3>2
  <2>. QED  BY <2>2, <2>3, PlacesStay
<1>5. CASE m.cmd = "TRANSACTION" /\ pc[p] = "loop"
  <2>1. p \in Servers /\ pc'[p] = "handler" /\ serving'[p] = m.from
    BY <1>2, <1>5 DEF Parse, Goto, Fine, Phase, Types, ProgTypes, PcTypes
  <2>2. p \notin Clients /\ serving[p] = NoProc /\ readbuf'[p] = <<>>
    <3>1. PICK n \in Members(readbuf[p]) : n = m
      BY <1>2
    <3>2. readbuf[p] = <<n>>
      BY <1>2, <1>5, <3>1 DEF Fine, Phase
    <3>3. readbuf'[p] = <<>>
      BY <1>1, <3>2
    <3>. QED  BY <1>2, <1>5, <2>1, <3>3, SystemAssumption DEF Fine, ServerPhase
  <2>3. PICK g \in [Nat -> Nat] : \A k \in Nat : g[k] = IF k = 0 THEN 1 ELSE IF k = 1 THEN 0 ELSE k
    <3>1. [k \in Nat |-> IF k = 0 THEN 1 ELSE IF k = 1 THEN 0 ELSE k] \in [Nat -> Nat]
      OBVIOUS
    <3>. QED  BY <3>1
  <2>4. \A k, l \in Nat : g[k] = g[l] => k = l
    BY <2>3
  <2>5. \A c \in Clients : pc'[c] = pc[c]
    BY <1>1, <2>2 DEF Procs
  <2>6. ASSUME NEW c \in Clients, NEW k \in Nat, Place(p, c, k)'
        PROVE  Place(p, c, g[k]) /\ (Held(c, p, g[k]) => Held(c, p, k)')
    <3>1. k # 1
      <4>1. k = 1 => k - 1 \notin 1..Len(work'[p]) /\ k # 0
        OBVIOUS
      <4>. QED  BY <2>2, <2>6, <4>1 DEF Place
    <3>2. CASE k = 0
      <4>1. g[k] = 1 /\ m.from = c
        BY <1>1, <2>1, <2>3, <2>6, <3>2 DEF Place
      <4>2. Place(p, c, 1)
        BY <1>1, <1>5, <4>1 DEF Place
      <4>. QED  BY <1>1, <2>1, <2>5, <3>2, <4>1, <4>2 DEF Held
    <3>3. CASE k # 0
      <4>1. g[k] = k
        BY <2>3, <3>1, <3>3
      <4>2. Place(p, c, k)
        BY <1>1, <2>2, <2>6, <3>3 DEF Place
      <4>. QED  BY <1>1, <2>5, <3>3, <4>1, <4>2 DEF Held
    <3>. QED  BY <3>2, <3>3
  <2>7. ASSUME NEW c \in Clients, NEW u \in Servers, NEW k \in Nat, u # p, Place(u, c, k)'
        PROVE  Place(u, c, k) /\ (Held(c, u, k) => Held(c, u, k)')
    <3>1. Place(u, c, k)
      BY <1>1, <2>7, PlaceSame DEF Procs
    <3>2. Held(c, u, k) => Held(c, u, k)'
      BY <1>1, <2>5, <2>7, HeldSame DEF Procs
    <3>. QED  BY <3>1, <3>2
  <2>. QED  BY <2>1, <2>4, <2>6, <2>7, PlacesMove
<1>. QED  BY <1>4, <1>5

LEMMA HelloPlaces ==
  ASSUME Types, Core, NEW p \in Clients, Hello(p)
  PROVE  Unique' /\ Placed'
<1>1. /\ p \in Procs /\ p \notin Servers /\ p \in alive /\ pc[p] = "hello"
      /\ pc'[p] = "await_hello" /\ Alone(p)
      /\ UNCHANGED <<alive, readbuf, serving, reply, ret, said>>
  BY SystemAssumption, StepsAlone
  DEF Hello, At, Goto, Types, ProgTypes, PcTypes, Procs
<1>2. CASE UNCHANGED work
  BY <1>1, <1>2, PlacesAlone
<1>3. ASSUME NEW s \in Servers, work' = [work EXCEPT ![s] = Append(@, p)],
             call' = [call EXCEPT ![p] = s]
      PROVE  Unique' /\ Placed'
  <2>1. /\ work[s] \in Seq(Clients) /\ work'[s] = Append(work[s], p) /\ call'[p] = s
        /\ \A u \in Servers : u # s => work'[u] = work[u]
        /\ s \in Procs /\ s # p
    BY <1>1, <1>3 DEF Types, DriverTypes, Procs
  <2>2. \A u \in Servers, k \in Nat : ~Place(u, p, k)
    BY <1>1 DEF Core, Placed, Held
  <2>3. ASSUME NEW c \in Clients, NEW u \in Servers, NEW k \in Nat, Place(u, c, k)', c # p
        PROVE  Place(u, c, k)
    <3>1. CASE u # s
      BY <1>1, <2>1, <2>3, <3>1, PlaceSame
    <3>2. CASE u = s
      <4>1. ASSUME k - 1 \in 1..Len(work'[s]), work'[s][k - 1] = c
            PROVE  k - 1 \in 1..Len(work[s]) /\ work[s][k - 1] = c
        BY <2>1, <2>3, <4>1
      <4>. QED  BY <1>1, <2>3, <3>2, <4>1 DEF Place
    <3>. QED  BY <3>1, <3>2
  <2>4. ASSUME NEW u \in Servers, NEW k \in Nat, Place(u, p, k)'
        PROVE  u = s /\ k = Len(work[s]) + 2
    <3>1. u = s
      BY <1>1, <2>1, <2>2, <2>4, PlaceSame
    <3>2. ASSUME k - 1 \in 1..Len(work'[s]), work'[s][k - 1] = p, k # Len(work[s]) + 2
          PROVE  k - 1 \in 1..Len(work[s]) /\ work[s][k - 1] = p
      <4>1. Len(work'[s]) = Len(work[s]) + 1 /\ Len(work[s]) \in Nat
        BY <2>1
      <4>2. k - 1 \in 1..Len(work[s])
        BY <3>2, <4>1
      <4>. QED  BY <2>1, <3>2, <4>2
    <3>3. k # Len(work[s]) + 2 => Place(s, p, k)
      BY <1>1, <2>4, <3>1, <3>2 DEF Place
    <3>. QED  BY <2>2, <3>1, <3>3
  <2>5. Unique'
    <3>. SUFFICES ASSUME NEW c \in Clients, NEW t \in Servers, NEW u \in Servers,
                         NEW k \in Nat, NEW l \in Nat, Place(t, c, k)', Place(u, c, l)'
                  PROVE  t = u /\ k = l
      BY DEF Unique
    <3>1. CASE c = p
      BY <2>4, <3>1
    <3>2. CASE c # p
      BY <2>3, <3>2 DEF Core, Unique
    <3>. QED  BY <3>1, <3>2
  <2>6. Placed'
    <3>. SUFFICES ASSUME NEW c \in Clients, NEW u \in Servers, NEW k \in Nat, Place(u, c, k)'
                  PROVE  Held(c, u, k)'
      BY DEF Placed
    <3>1. CASE c = p
      <4>1. u = s /\ k # 0
        BY <2>1, <2>4, <3>1
      <4>2. said[p] = 0 /\ ret[p] = Nothing
        BY <1>1 DEF Core, Fine, ClientPhase
      <4>. QED  BY <1>1, <2>1, <3>1, <4>1, <4>2 DEF Held
    <3>2. CASE c # p
      <4>1. Held(c, u, k) /\ c \in Procs /\ u \in Procs /\ u # p
        BY <1>1, <2>3, <3>2 DEF Core, Placed, Procs
      <4>. QED  BY <1>1, <3>2, <4>1, HeldSame DEF Alone, Same
    <3>. QED  BY <3>1, <3>2
  <2>. QED  BY <2>5, <2>6
<1>4. g_handle[p] \in alive => g_handle[p] \in Servers
  BY SystemAssumption DEF Types, ProgTypes, MgrTypes, Procs
<1>. QED  BY <1>2, <1>3, <1>4 DEF Hello, Refused

LEMMA SendReplyPlaces ==
  ASSUME Types, Core, NEW s \in Servers, SendReply(s)
  PROVE  Unique' /\ Placed'
<1>1. /\ s \in Procs /\ s \in alive /\ pc[s] = "reply"
      /\ \A q \in Procs : q # s => pc'[q] = pc[q]
      /\ UNCHANGED <<alive, readbuf, work, reply, ret, said, asks>>
      /\ serving'[s] = NoProc /\ \A u \in Servers : u # s => serving'[u] = serving[u]
      /\ \A q \in Procs : q # serving[s] => call'[q] = call[q]
  BY DEF SendReply, Deliver, At, Goto, Types, ProgTypes, PcTypes, DriverTypes, Procs, helloVars
<1>2. serving[s] \in Clients /\ Place(s, serving[s], 0)
  BY <1>1 DEF Core, Fine, ServerPhase, Types, ProgTypes, Place
<1>3. ASSUME NEW c \in Clients, NEW u \in Servers, NEW k \in Nat, Place(u, c, k)'
      PROVE  Place(u, c, k) /\ (Held(c, u, k) => Held(c, u, k)')
  <2>1. c # NoProc /\ c \in Procs /\ c # s /\ u \in Procs
    BY SystemAssumption DEF Procs
  <2>2. Place(u, c, k) /\ ~(u = s /\ k = 0)
    <3>1. CASE u # s
      BY <1>1, <1>3, <3>1, PlaceSame
    <3>2. CASE u = s
      BY <1>1, <1>3, <2>1, <3>2 DEF Place
    <3>. QED  BY <3>1, <3>2
  <2>3. c # serving[s]
    BY <1>2, <2>2 DEF Core, Unique
  <2>4. k = 0 => (pc'[u] = "reply" <=> pc[u] = "reply")
    BY <1>1, <2>1, <2>2
  <2>. QED  BY <1>1, <2>1, <2>2, <2>3, <2>4, HeldSame
<1>. QED  BY <1>3, PlacesStay

(* Steps that leave every request where it is and every caller waiting.    *)
LEMMA QuietPlaces ==
  ASSUME Types, Core, UNCHANGED <<pc, readbuf, serving, reply, ret, said, asks, work>>,
         alive' = alive, \A c \in Clients : call'[c] # call[c] => c \notin alive \/ call[c] = Manager
  PROVE  Unique' /\ Placed'
<1>1. ASSUME NEW c \in Clients, NEW s \in Servers, NEW k \in Nat
      PROVE  Place(s, c, k)' => Place(s, c, k) /\ (Held(c, s, k) => Held(c, s, k)')
  <2>1. s # Manager
    BY SystemAssumption DEF Procs
  <2>2. Held(c, s, k) => (c \in alive' => call'[c] = call[c])
    BY <2>1 DEF Held
  <2>3. Held(c, s, k) => Held(c, s, k)'
    BY <2>2, HeldSame
  <2>. QED  BY <2>3, PlaceSame
<1>. QED  BY <1>1, PlacesStay

LEMMA DeathPlaces ==
  ASSUME Types, Core, NEW p \in Procs, Die(p)
  PROVE  Unique' /\ Placed'
<1>1. /\ alive' = alive \ {p} /\ UNCHANGED <<reply, ret, said, asks>>
      /\ pc'[p] = "dead" /\ readbuf'[p] = <<>>
      /\ \A q \in Procs : q # p => pc'[q] = pc[q] /\ readbuf'[q] = readbuf[q]
      /\ \A q \in Procs : call'[q] = IF q = p \/ call[q] = p THEN NoProc ELSE call[q]
      /\ \A s \in Servers : s # p => serving'[s] = serving[s] /\ work'[s] = work[s]
      /\ p \in Servers => serving'[p] = NoProc /\ work'[p] = <<>>
  BY DEF Die, R!Die, Abandoned, Goto, helloVars, Types, ProgTypes, PcTypes, DriverTypes
<1>2. ASSUME NEW c \in Clients, NEW s \in Servers, NEW k \in Nat, Place(s, c, k)'
      PROVE  Place(s, c, k) /\ (Held(c, s, k) => Held(c, s, k)')
  <2>1. c \in Procs /\ s \in Procs /\ c # NoProc /\ c # s
    BY SystemAssumption DEF Procs
  <2>2. s # p
    <3>1. ~(k - 1 \in 1..Len(<<>>))
      OBVIOUS
    <3>. QED  BY <1>1, <1>2, <2>1, <3>1 DEF Place
  <2>3. Place(s, c, k)
    BY <1>1, <1>2, <2>1, <2>2, PlaceSame
  <2>4. Held(c, s, k) => Held(c, s, k)'
    <3>. SUFFICES ASSUME Held(c, s, k)
                  PROVE  Held(c, s, k)'
      OBVIOUS
    <3>1. pc'[c] = pc[c] \/ pc'[c] \in {"exit", "dead"}
      BY <1>1, <2>1
    <3>2. c \in alive' => c \in alive /\ call'[c] = call[c]
      BY <1>1, <2>1, <2>2 DEF Held
    <3>. QED  BY <1>1, <2>1, <2>2, <3>1, <3>2, HeldSame
  <2>. QED  BY <2>3, <2>4
<1>. QED  BY <1>2, PlacesStay

LEMMA PlacesKept ==
  ASSUME Types, Core, [Next]_vars
  PROVE  Unique' /\ Placed'
<1>1. ASSUME NEW p \in Procs,
             \/ p \in Servers /\ (Publish(p) \/ PublishDone(p))
             \/ p \in Clients /\ (Lookup(p) \/ Acquire(p) \/ LookupDone(p) \/ HelloDone(p))
             \/ CallDone(p) \/ ParseEnds(p) \/ OpenFails(p) \/ ReadFails(p)
      PROVE  Unique' /\ Placed'
  <2>1. Alone(p)
    BY <1>1, StepsAlone
  <2>2. Fine(p) /\ (p \in Servers => p \notin Clients)
    BY SystemAssumption DEF Core
  <2>3. CASE p \in Servers /\ Publish(p)
    <3>1. UNCHANGED work
      BY <2>3 DEF Publish, CallManager, Refused
    <3>. QED  BY <2>1, <2>2, <2>3, <3>1, PlacesAlone
      DEF Publish, At, Goto, helloVars, Types, ProgTypes, PcTypes
  <2>4. CASE p \in Clients /\ Lookup(p)
    <3>1. UNCHANGED work
      BY <2>4 DEF Lookup, CallManager, Refused
    <3>. QED  BY <2>1, <2>2, <2>4, <3>1, PlacesAlone
      DEF Lookup, At, helloVars
  <2>5. CASE \/ p \in Servers /\ PublishDone(p)
             \/ p \in Clients /\ (Acquire(p) \/ LookupDone(p) \/ HelloDone(p))
    <3>1. UNCHANGED <<alive, reply, work, readbuf, serving>>
      BY <2>5 DEF PublishDone, Acquire, LookupDone, HelloDone, helloVars
    <3>2. p \in Servers => pc[p] \notin {"handler", "reply"} /\ pc'[p] # "reply"
      BY <2>2, <2>5 DEF PublishDone, At, Goto, Types, ProgTypes, PcTypes
    <3>3. p \in Clients => pc[p] \notin {"await_hello", "exit", "dead"}
      BY <2>2, <2>5 DEF Acquire, LookupDone, HelloDone, At
    <3>. QED  BY <2>1, <3>1, <3>2, <3>3, PlacesAlone
  <2>6. CASE CallDone(p) \/ ParseEnds(p) \/ OpenFails(p) \/ ReadFails(p)
    <3>1. /\ UNCHANGED <<alive, reply, work, readbuf, serving, call, said, asks>>
          /\ p \in Clients => ret'[p] \in {ret[p], Zero}
      BY <2>6 DEF CallDone, ParseEnds, GiveUp, OpenFails, ReadFails, helloVars, driverVars,
                  Types, HelloTypes
    <3>2. pc[p] \notin {"handler", "reply"} /\ pc'[p] # "reply" /\ p \in alive
      BY <2>6 DEF CallDone, ParseEnds,
                  GiveUp, OpenFails, ReadFails, Goto, Waiting, Types, ProgTypes,
                  PcTypes
    <3>3. CASE pc'[p] = "exit"
      BY <2>1, <3>1, <3>2, <3>3, PlacesAlone
    <3>4. CASE CallDone(p)
      <4>1. call[p] = NoProc /\ pc[p] \in Waiting
        BY <2>2, <3>4 DEF CallDone, Fine, Line
      <4>. QED  BY <2>1, <3>1, <3>2, <4>1, PlacesAlone DEF Waiting
    <3>5. ~CallDone(p) => pc'[p] = "exit"
      BY <2>6 DEF ParseEnds, GiveUp, OpenFails, ReadFails, Goto, Types, ProgTypes, PcTypes
    <3>. QED  BY <3>3, <3>4, <3>5
  <2>. QED  BY <1>1, <2>3, <2>4, <2>5, <2>6
<1>2. ASSUME NEW p \in Procs, Read(p) \/ Parse(p) \/ Die(p) \/ (p \in Clients /\ Hello(p))
      PROVE  Unique' /\ Placed'
  BY <1>2, ReadPlaces, ParsePlaces, DeathPlaces, HelloPlaces
<1>3. ASSUME NEW s \in Servers, sayhello(s) \/ sayhello_to(s) \/ Reject(s) \/ SendReply(s)
      PROVE  Unique' /\ Placed'
  BY <1>3, HandlerPlaces, SendReplyPlaces
<1>4. CASE \/ CheckReply \/ ManagerDies \/ Forget \/ ManagerStarts \/ ManagerReady
           \/ UNCHANGED vars \/ \E p \in Procs : Add(p) \/ Check(p)
  <2>1. /\ UNCHANGED <<pc, readbuf, serving, reply, ret, said, asks, work, alive>>
    BY <1>4 DEF CheckReply, R!Answered, ManagerDies, Forget, R!Forget, ManagerStarts,
                ManagerReady, vars, Add, Refuse, R!Register, Check, R!Lookup, progVars, helloVars,
                driverVars
  <2>2. \A c \in Clients : call'[c] # call[c] => c \notin alive \/ call[c] = Manager
    <3>1. CASE CheckReply
      <4>1. \A c \in Clients : c # mgr => call'[c] = call[c]
        BY <3>1 DEF CheckReply, Deliver, Types, DriverTypes, Procs
      <4>. QED  BY <4>1 DEF Core, Asked
    <3>2. CASE ManagerDies
      BY <3>2 DEF ManagerDies, Abandoned, Procs
    <3>3. ASSUME NEW p \in Procs, Add(p)
          PROVE  \A c \in Clients : call'[c] = call[c]
      <4>1. p \in Servers /\ call' = [call EXCEPT ![p] = NoProc]
        BY <3>3 DEF Add, Refuse, Deliver, Types, MgrTypes
      <4>. QED  BY <4>1, SystemAssumption DEF Types, DriverTypes, Procs
    <3>4. CASE \/ Forget \/ ManagerStarts \/ ManagerReady \/ UNCHANGED vars
               \/ \E p \in Procs : Check(p)
      BY <3>4 DEF Forget, ManagerStarts, ManagerReady, vars, Check, driverVars
    <3>. QED  BY <1>4, <3>1, <3>2, <3>3, <3>4
  <2>. QED  BY <2>1, <2>2, QuietPlaces
<1>. QED
  BY <1>1, <1>2, <1>3, <1>4
  DEF Next, ServerSteps, ClientSteps, CallSteps, ManagerSteps, Exit, Procs
-----------------------------------------------------------------------------
(* Buffers.                                                                *)

LEMMA MembersJoin ==
  ASSUME NEW q \in Seq(Command), NEW x \in Seq(Command)
  PROVE  Members(q \o x) = Members(q) \cup Members(x)
<1>1. /\ Len(q \o x) = Len(q) + Len(x) /\ Len(q) \in Nat /\ Len(x) \in Nat
      /\ \A i \in 1..Len(q) : (q \o x)[i] = q[i]
      /\ \A i \in 1..Len(x) : (q \o x)[i + Len(q)] = x[i]
  OBVIOUS
<1>2. ASSUME NEW i \in 1..Len(q \o x)
      PROVE  (q \o x)[i] \in Members(q) \cup Members(x)
  <2>1. CASE i \in 1..Len(q)
    BY <1>1, <2>1 DEF Members
  <2>2. CASE i \notin 1..Len(q)
    <3>1. i - Len(q) \in 1..Len(x) /\ (i - Len(q)) + Len(q) = i
      BY <1>1, <1>2, <2>2
    <3>2. (q \o x)[i] = x[i - Len(q)]
      BY <1>1, <3>1
    <3>. QED  BY <3>1, <3>2 DEF Members
  <2>. QED  BY <2>1, <2>2
<1>3. Members(q) \subseteq Members(q \o x)
  <2>1. \A i \in 1..Len(q) : i \in 1..Len(q \o x)
    BY <1>1
  <2>. QED  BY <1>1, <2>1 DEF Members
<1>4. Members(x) \subseteq Members(q \o x)
  <2>1. \A i \in 1..Len(x) : i + Len(q) \in 1..Len(q \o x)
    BY <1>1
  <2>. QED  BY <1>1, <2>1 DEF Members
<1>. QED  BY <1>2, <1>3, <1>4 DEF Members

(* Commands that a driver's answer to a call is made of.                   *)
LEMMA PlainCommands ==
  /\ \A why \in {"DEAD", "FAILED", "COMPLETE"} :
       /\ <<BR(why)>> \in Seq(Command) /\ Plain(<<BR(why)>>) /\ ~HasReply(<<BR(why)>>)
  /\ LET x == <<BR("REFS"), BR("COMPLETE")>>
     IN  x \in Seq(Command) /\ Plain(x) /\ ~HasReply(x)
  /\ <<>> \in Seq(Command) /\ Plain(<<>>) /\ ~HasReply(<<>>)
<1>1. ASSUME NEW why \in {"DEAD", "FAILED", "COMPLETE"}
      PROVE  /\ <<BR(why)>> \in Seq(Command) /\ Plain(<<BR(why)>>) /\ ~HasReply(<<BR(why)>>)
  <2>1. BR(why) \in Command /\ BR(why).cmd = why /\ BR(why).from = NoProc
    BY Commands DEF BR
  <2>2. Members(<<BR(why)>>) = {BR(why)}
    BY DEF Members
  <2>. QED  BY <2>1, <2>2 DEF Plain, HasReply
<1>2. ASSUME NEW x, x = <<BR("REFS"), BR("COMPLETE")>>
      PROVE  x \in Seq(Command) /\ Plain(x) /\ ~HasReply(x)
  <2>1. /\ BR("REFS") \in Command /\ BR("REFS").cmd = "REFS" /\ BR("REFS").from = NoProc
        /\ BR("COMPLETE") \in Command /\ BR("COMPLETE").cmd = "COMPLETE"
        /\ BR("COMPLETE").from = NoProc
    BY Commands DEF BR
  <2>2. x \in Seq(Command) /\ Members(x) \subseteq {BR("REFS"), BR("COMPLETE")}
    BY <1>2, <2>1 DEF Members
  <2>. QED  BY <2>1, <2>2 DEF Plain, HasReply
<1>. QED  BY <1>1, <1>2, MembersNone DEF Plain, HasReply

(* Commands are added to what q has to read.                               *)
LEMMA ReplyBufGrows ==
  ASSUME Types, NEW q \in Procs, ReplyBuf(q), NEW x \in Seq(Command), Plain(x),
         todo'[q] = todo[q] \o x, readbuf'[q] = readbuf[q], io'[q] = io[q],
         Active(q)' => Active(q) /\ (q \in bufs'[q] <=> (q \in bufs[q] \/ HasReply(x)))
  PROVE  ReplyBuf(q)'
<1>1. Members(todo'[q]) = Members(todo[q]) \cup Members(x)
  BY MembersJoin DEF Types, DriverTypes
<1>. QED  BY <1>1 DEF ReplyBuf, Plain, HasReply

LEMMA ReplyBufSame ==
  ASSUME Types, NEW q \in Procs, ReplyBuf(q),
         todo'[q] = todo[q], readbuf'[q] = readbuf[q], io'[q] = io[q],
         Active(q)' => Active(q) /\ (q \in bufs'[q] <=> q \in bufs[q])
  PROVE  ReplyBuf(q)'
BY DEF ReplyBuf

(* Nobody comes back from the end of main.                                 *)
LEMMA ActiveBefore ==
  ASSUME Types, Core, [Next]_vars, NEW q \in Procs, Active(q)'
  PROVE  Active(q)
<1>1. ASSUME NEW p \in Procs,
             \/ p \in Servers /\ (Publish(p) \/ PublishDone(p))
             \/ p \in Clients /\ (Lookup(p) \/ Acquire(p) \/ LookupDone(p))
             \/ p \in Clients /\ (Hello(p) \/ HelloDone(p))
             \/ Read(p) \/ Parse(p) \/ CallDone(p) \/ ParseEnds(p)
             \/ OpenFails(p) \/ ReadFails(p)
      PROVE  Active(q)
  <2>1. Alone(p)
    BY <1>1, StepsAlone
  <2>2. Active(p)
    BY <1>1 DEF Publish, PublishDone, Lookup, Acquire, LookupDone, Hello, HelloDone, Read, Parse,
                CallDone, ParseEnds, GiveUp, OpenFails, ReadFails, At, Active, Waiting
  <2>. QED  BY <2>1, <2>2 DEF Alone, Same, Active
<1>2. ASSUME NEW s \in Servers, sayhello(s) \/ sayhello_to(s) \/ Reject(s) \/ SendReply(s)
      PROVE  Active(q)
  <2>1. Active(s) /\ UNCHANGED alive
    BY <1>2 DEF sayhello, sayhello_to, Reject, SendReply, Handler, At, Active
  <2>2. q # s => pc'[q] = pc[q]
    BY <1>2 DEF sayhello, sayhello_to, Reject, SendReply, Handler, Goto, Types, ProgTypes, PcTypes
  <2>. QED  BY <2>1, <2>2 DEF Active
<1>3. ASSUME NEW p \in Procs, Die(p)
      PROVE  Active(q)
  BY <1>3 DEF Die, R!Die, Goto, Active, Types, ProgTypes, PcTypes
<1>4. CASE \/ CheckReply \/ ManagerDies \/ Forget \/ ManagerStarts \/ ManagerReady
           \/ UNCHANGED vars \/ \E p \in Procs : Add(p) \/ Check(p)
  <2>1. UNCHANGED <<pc, alive>>
    BY <1>4 DEF CheckReply, R!Answered, ManagerDies, Forget, R!Forget, ManagerStarts,
                ManagerReady, vars, Add, Refuse, R!Register, Check, R!Lookup, progVars
  <2>. QED  BY <2>1 DEF Active
<1>. QED
  BY <1>1, <1>2, <1>3, <1>4
  DEF Next, ServerSteps, ClientSteps, CallSteps, ManagerSteps, Exit, Procs

LEMMA DeliverBuf ==
  ASSUME Types, NEW q \in Procs, ReplyBuf(q), NEW p \in Procs, NEW m \in Command,
         m.cmd = "REPLY", m.from = NoProc, NEW done \in Procs \cup {NoProc}, done # p,
         NEW freed, q \notin freed \/ q # done, Got(q, p, m, freed, done),
         readbuf'[q] = readbuf[q], io'[q] = io[q], Active(q)' => Active(q)
  PROVE  ReplyBuf(q)'
<1>1. CASE q = p /\ p \in alive
  <2>1. Members(<<m>>) = {m} /\ <<m>> \in Seq(Command)
    BY DEF Members
  <2>2. Plain(<<m>>) /\ HasReply(<<m>>)
    BY <2>1 DEF Plain, HasReply
  <2>3. todo'[q] = todo[q] \o <<m>> /\ q \in bufs'[q]
    BY <1>1 DEF Got
  <2>. QED  BY <2>1, <2>2, <2>3, ReplyBufGrows
<1>2. CASE q = p /\ p \notin alive
  BY <1>2, ReplyBufSame DEF Got, Active
<1>3. CASE q # p /\ q = done
  <2>1. PICK x \in Seq(Command) : x = <<BR("COMPLETE")>> /\ Plain(x) /\ ~HasReply(x)
    BY PlainCommands
  <2>2. todo'[q] = todo[q] \o x /\ (q \in bufs'[q] <=> q \in bufs[q])
    BY <1>3, <2>1 DEF Got
  <2>. QED  BY <2>1, <2>2, ReplyBufGrows
<1>4. CASE q # p /\ q # done
  BY <1>4, ReplyBufSame DEF Got
<1>. QED  BY <1>1, <1>2, <1>3, <1>4

LEMMA CallBuf ==
  ASSUME Types, NEW p \in Procs, ReplyBuf(p), Active(p)' => Active(p),
         \/ p \in Servers /\ Publish(p)
         \/ p \in Clients /\ (Lookup(p) \/ Hello(p))
  PROVE  ReplyBuf(p)'
<1>. DEFINE Xs == {<<BR("DEAD")>>, <<BR("FAILED")>>, <<BR("COMPLETE")>>,
                   <<BR("REFS"), BR("COMPLETE")>>}
<1>1. /\ \E x \in Xs : Queue(p, x)
      /\ UNCHANGED <<readbuf, io>>
  BY DEF Publish, Lookup, Hello, CallManager, Refused
<1>2. bufs'[p] = bufs[p]
  <2>1. p \in Clients => g_handle[p] # p
    BY SystemAssumption DEF Types, ProgTypes
  <2>. QED
    BY <2>1 DEF Publish, Lookup, Hello, CallManager, Refused, Types, DriverTypes
<1>3. PICK x \in Xs : Queue(p, x)
  BY <1>1
<1>4. x \in Seq(Command) /\ Plain(x) /\ ~HasReply(x)
  BY PlainCommands
<1>5. todo'[p] = todo[p] \o x
  BY <1>3 DEF Queue, Types, DriverTypes
<1>. QED  BY <1>1, <1>2, <1>4, <1>5, ReplyBufGrows

LEMMA ReadBuf ==
  ASSUME Types, NEW p \in Procs, ReplyBuf(p), Read(p)
  PROVE  ReplyBuf(p)'
<1>1. UNCHANGED <<alive, pc, io, bufs>> /\ readbuf[p] = <<>>
  BY DEF Read
<1>2. CASE todo[p] # <<>>
  <2>1. readbuf'[p] = todo[p] /\ todo'[p] = <<>>
    BY <1>2 DEF Read, Types, ProgTypes, DriverTypes
  <2>. QED  BY <1>1, <2>1, PlainCommands DEF ReplyBuf, Active
<1>3. CASE todo[p] = <<>>
  <2>1. readbuf'[p] = <<Transaction(Head(work[p]))>> /\ todo'[p] = <<>>
    BY <1>3 DEF Read, Types, ProgTypes
  <2>2. Members(readbuf'[p]) = {Transaction(Head(work[p]))}
    BY <2>1 DEF Members
  <2>3. Plain(readbuf'[p]) /\ ~HasReply(readbuf'[p])
    BY <2>2 DEF Plain, HasReply, Transaction
  <2>. QED  BY <1>1, <1>3, <2>1, <2>3, PlainCommands DEF ReplyBuf, Active
<1>. QED  BY <1>2, <1>3

(* A reply that is parsed goes to the binder_io of the call.               *)
LEMMA ParseBuf ==
  ASSUME Types, Core, NEW p \in Procs, ReplyBuf(p), Parse(p)
  PROVE  ReplyBuf(p)'
<1>1. /\ readbuf[p] \in Seq(Command) /\ readbuf[p] # <<>> /\ readbuf'[p] = Tail(readbuf[p])
      /\ pc[p] \in Waiting \cup {"loop"} /\ p \in alive /\ Fine(p)
      /\ UNCHANGED <<alive, todo, bufs>>
  BY DEF Parse, Types, ProgTypes, Core, driverVars
<1>2. PICK m \in Command : m = Head(readbuf[p]) /\ m \in Members(readbuf[p])
  BY <1>1, MembersTake
<1>3. Members(readbuf[p]) = {m} \cup Members(Tail(readbuf[p]))
  <2>1. readbuf[p] = <<m>> \o Tail(readbuf[p]) /\ <<m>> \in Seq(Command)
        /\ Tail(readbuf[p]) \in Seq(Command)
    BY <1>1, <1>2
  <2>2. Members(<<m>>) = {m}
    BY DEF Members
  <2>. QED  BY <2>1, <2>2, MembersJoin
<1>4. Plain(readbuf'[p])
  BY <1>1, <1>3 DEF ReplyBuf, Plain
<1>5. CASE m.cmd = "REPLY"
  <2>1. pc[p] # "loop"
    BY <1>1, <1>2, <1>5 DEF Fine, Line, Calm, Answers, Waiting
  <2>2. io'[p].shared
    BY <1>2, <1>5, <2>1 DEF Parse, Types, ProgTypes
  <2>3. Active(p) /\ HasReply(readbuf[p])
    BY <1>1, <1>2, <1>5 DEF Active, HasReply, Waiting
  <2>. QED  BY <1>1, <1>4, <2>2, <2>3 DEF ReplyBuf
<1>6. CASE m.cmd # "REPLY"
  <2>1. io'[p] = io[p]
    BY <1>2, <1>6 DEF Parse
  <2>2. HasReply(readbuf'[p]) <=> HasReply(readbuf[p])
    BY <1>1, <1>3, <1>6 DEF HasReply
  <2>3. Active(p)
    BY <1>1 DEF Active, Waiting
  <2>. QED  BY <1>1, <1>4, <2>1, <2>2, <2>3 DEF ReplyBuf
<1>. QED  BY <1>5, <1>6

(* binder_done comes when nothing more is on its way.                      *)
LEMMA DoneBuf ==
  ASSUME Types, Core, NEW p \in Procs, ReplyBuf(p), binder_done(p),
         pc[p] \in Dones, UNCHANGED <<readbuf, todo>>
  PROVE  ReplyBuf(p)'
<1>1. Calm(todo[p]) /\ Calm(readbuf[p])
  BY DEF Core, Fine, Line, Waiting, Dones
<1>2. ~HasReply(todo[p]) /\ ~HasReply(readbuf[p])
  BY <1>1 DEF Calm, HasReply, Answers
<1>3. p \notin bufs'[p] /\ ~io'[p].shared
  BY NoIOType DEF binder_done, Types, ProgTypes, DriverTypes
<1>. QED  BY <1>2, <1>3 DEF ReplyBuf

LEMMA ReplyBufKept ==
  ASSUME Types, Core, [Next]_vars, \A q \in Procs : ReplyBuf(q), NEW q \in Procs
  PROVE  ReplyBuf(q)'
<1>1. ReplyBuf(q) /\ (Active(q)' => Active(q)) /\ q # NoProc
  BY ActiveBefore, SystemAssumption DEF Procs
<1>2. ASSUME NEW p \in Procs, q # p,
             \/ p \in Servers /\ (Publish(p) \/ PublishDone(p))
             \/ p \in Clients /\ (Lookup(p) \/ Acquire(p) \/ LookupDone(p))
             \/ p \in Clients /\ (Hello(p) \/ HelloDone(p))
             \/ Read(p) \/ Parse(p) \/ CallDone(p) \/ ParseEnds(p)
             \/ OpenFails(p) \/ ReadFails(p)
      PROVE  ReplyBuf(q)'
  <2>1. Same(q)
    BY <1>2, StepsAlone DEF Alone
  <2>2. q \in bufs'[q] <=> q \in bufs[q]
    BY <1>2 DEF Publish, PublishDone, Lookup, Acquire, LookupDone, Hello, HelloDone, Read, Parse,
                CallDone, ParseEnds,
                GiveUp, OpenFails, ReadFails, CallManager, Refused, binder_done,
                driverVars, Types, DriverTypes
  <2>. QED  BY <1>1, <2>1, <2>2, ReplyBufSame DEF Same
<1>3. CASE \/ q \in Servers /\ Publish(q)
           \/ q \in Clients /\ (Lookup(q) \/ Hello(q))
  BY <1>1, <1>3, CallBuf
<1>4. CASE Read(q) \/ Parse(q)
  BY <1>1, <1>4, ReadBuf, ParseBuf
<1>5. CASE \/ q \in Servers /\ PublishDone(q)
           \/ q \in Clients /\ (LookupDone(q) \/ HelloDone(q))
  BY <1>1, <1>5, DoneBuf DEF PublishDone, LookupDone, HelloDone, At, Dones
<1>6. CASE CallDone(q) \/ (q \in Clients /\ Acquire(q))
  BY <1>1, <1>6, ReplyBufSame DEF CallDone, Acquire, driverVars
<1>7. CASE ParseEnds(q) \/ OpenFails(q) \/ ReadFails(q)
  <2>1. UNCHANGED <<todo, readbuf>> /\ pc'[q] = "exit"
    BY <1>7 DEF ParseEnds,
                GiveUp, OpenFails, ReadFails, Goto, driverVars, Types, ProgTypes, PcTypes
  <2>. QED  BY <1>1, <2>1 DEF ReplyBuf, Active
<1>8. ASSUME NEW s \in Servers, sayhello(s) \/ sayhello_to(s) \/ Reject(s)
      PROVE  ReplyBuf(q)'
  <2>1. UNCHANGED <<todo, readbuf, io, bufs>>
    BY <1>8 DEF sayhello, sayhello_to, Reject, Handler, driverVars
  <2>. QED  BY <1>1, <2>1, ReplyBufSame
<1>9. ASSUME NEW s \in Servers, SendReply(s)
      PROVE  ReplyBuf(q)'
  <2>1. /\ serving[s] \in Clients /\ serving[s] \in Procs /\ s \in Procs /\ s # serving[s]
        /\ UNCHANGED <<readbuf, io>>
    BY <1>9, SystemAssumption
    DEF SendReply, At, Core, Fine, ServerPhase, Types, ProgTypes, Procs
  <2>2. PICK m \in Command : /\ m = Reply(reply[s].status, reply[s].num, NoProc)
                             /\ m.cmd = "REPLY" /\ m.from = NoProc
    <3>1. reply[s].status \in {0, -1} /\ reply[s].num \in Nat
      BY DEF Types, HelloTypes
    <3>2. LET m == Reply(reply[s].status, reply[s].num, NoProc)
          IN  m \in Command /\ m.cmd = "REPLY" /\ m.from = NoProc
      BY <3>1, Commands DEF Reply
    <3>. QED  BY <3>2
  <2>3. Got(q, serving[s], m, {serving[s]}, s)
    BY <1>9, <2>1, <2>2, Delivered DEF SendReply
  <2>. QED  BY <1>1, <2>1, <2>2, <2>3, DeliverBuf
<1>10. ASSUME NEW p \in Procs, NEW m \in Command, m.cmd = "REPLY", m.from = NoProc,
              Deliver(p, m, {}, NoProc), UNCHANGED <<readbuf, io>>
       PROVE  ReplyBuf(q)'
  <2>1. NoProc # p
    BY SystemAssumption DEF Procs
  <2>2. Got(q, p, m, {}, NoProc)
    BY <1>10, <2>1, Delivered
  <2>. QED  BY <1>1, <1>10, <2>1, <2>2, DeliverBuf
<1>11. ASSUME NEW p \in Procs, Add(p)
       PROVE  ReplyBuf(q)'
  <2>1. PICK st \in {0, -1} : Deliver(p, StatusReply(st), {}, NoProc)
    BY <1>11 DEF Add, Refuse
  <2>2. StatusReply(st) \in Command /\ StatusReply(st).cmd = "REPLY"
        /\ StatusReply(st).from = NoProc
    BY Commands DEF StatusReply, Reply
  <2>3. UNCHANGED <<readbuf, io>>
    BY <1>11 DEF Add, progVars
  <2>. QED  BY <1>10, <2>1, <2>2, <2>3
<1>12. CASE CheckReply
  <2>1. mgr \in Procs /\ Deliver(mgr, Reply(0, 0, given), {}, NoProc) /\ UNCHANGED <<readbuf, io>>
    BY <1>12 DEF CheckReply, Types, MgrTypes, Procs, progVars
  <2>2. Reply(0, 0, given) \in Command /\ Reply(0, 0, given).cmd = "REPLY"
        /\ Reply(0, 0, given).from = NoProc
    BY Commands DEF Types, MgrTypes, Reply
  <2>. QED  BY <1>10, <2>1, <2>2
<1>13. ASSUME NEW p, NEW gone, Abandoned(p, gone), q \notin gone,
              readbuf'[q] = readbuf[q], io'[q] = io[q], bufs'[q] = bufs[q]
       PROVE  ReplyBuf(q)'
  <2>1. PICK x \in Seq(Command) : x = <<BR("DEAD")>> /\ Plain(x) /\ ~HasReply(x)
    BY PlainCommands
  <2>2. BR("DEAD") \in Command
    BY Commands
  <2>3. todo'[q] = todo[q] \/ todo'[q] = todo[q] \o x
    BY <1>13, <2>1, <2>2, MembersAdd DEF Abandoned, Types, DriverTypes
  <2>. QED  BY <1>1, <1>13, <2>1, <2>3, ReplyBufSame, ReplyBufGrows
<1>14. CASE ManagerDies
  BY <1>13, <1>14 DEF ManagerDies, progVars
<1>15. ASSUME NEW p \in Procs, Die(p)
       PROVE  ReplyBuf(q)'
  <2>1. CASE q # p
    <3>1. Abandoned(p, {p}) /\ q \notin {p}
      BY <1>15, <2>1 DEF Die
    <3>2. readbuf'[q] = readbuf[q] /\ io'[q] = io[q] /\ bufs'[q] = bufs[q]
      BY <1>15, <2>1 DEF Die, Types, ProgTypes, DriverTypes
    <3>. QED  BY <1>13, <3>1, <3>2
  <2>2. CASE q = p
    <3>1. todo'[q] = <<>> /\ readbuf'[q] = <<>> /\ q \notin alive'
      BY <1>15, <2>2 DEF Die, R!Die, Abandoned, Types, ProgTypes, DriverTypes
    <3>. QED  BY <3>1, PlainCommands DEF ReplyBuf, Active
  <2>. QED  BY <2>1, <2>2
<1>16. CASE \/ Forget \/ ManagerStarts \/ ManagerReady \/ UNCHANGED vars
            \/ \E p \in Procs : Check(p)
  <2>1. UNCHANGED <<todo, readbuf, io, bufs>>
    BY <1>16 DEF Forget, ManagerStarts, ManagerReady, Check, vars, progVars, driverVars
  <2>. QED  BY <1>1, <2>1, ReplyBufSame
<1>. QED
  BY <1>2, <1>3, <1>4, <1>5, <1>6, <1>7, <1>8, <1>9, <1>11, <1>12, <1>14, <1>15, <1>16
  DEF Next, ServerSteps, ClientSteps, CallSteps, ManagerSteps, Exit, Procs

(* The callers a server has in hand.                                       *)
Senders(q) == {m.from : m \in Members(q)}

LEMMA WorkMembers ==
  ASSUME NEW w \in Seq(Clients)
  PROVE  /\ \A c \in Clients : Members(Append(w, c)) = Members(w) \cup {c}
         /\ w # <<>> => Members(w) = {Head(w)} \cup Members(Tail(w))
<1>1. ASSUME NEW c \in Clients
      PROVE  Members(Append(w, c)) = Members(w) \cup {c}
  <2>1. /\ Len(Append(w, c)) = Len(w) + 1 /\ Append(w, c)[Len(w) + 1] = c
        /\ \A i \in 1..Len(w) : Append(w, c)[i] = w[i]
        /\ \A i \in 1..(Len(w) + 1) : i \in 1..Len(w) \/ i = Len(w) + 1
    OBVIOUS
  <2>. QED  BY <2>1 DEF Members
<1>2. ASSUME w # <<>>
      PROVE  Members(w) = {Head(w)} \cup Members(Tail(w))
  <2>1. /\ Len(Tail(w)) = Len(w) - 1 /\ Len(w) \in Nat \ {0} /\ Head(w) = w[1]
        /\ \A i \in 1..Len(Tail(w)) : Tail(w)[i] = w[i + 1]
    BY <1>2
  <2>2. Members(Tail(w)) \subseteq Members(w) /\ Head(w) \in Members(w)
    <3>1. \A i \in 1..Len(Tail(w)) : i + 1 \in 1..Len(w)
      BY <2>1
    <3>. QED  BY <2>1, <3>1 DEF Members
  <2>3. ASSUME NEW i \in 1..Len(w)
        PROVE  w[i] \in {Head(w)} \cup Members(Tail(w))
    <3>1. CASE i = 1
      BY <2>1, <3>1
    <3>2. CASE i # 1
      <4>1. i - 1 \in 1..Len(Tail(w)) /\ (i - 1) + 1 = i
        BY <2>1, <3>2
      <4>2. Tail(w)[i - 1] = w[i]
        BY <2>1, <4>1
      <4>. QED  BY <4>1, <4>2 DEF Members
    <3>. QED  BY <3>1, <3>2
  <2>4. \A x \in Members(w) : x \in {Head(w)} \cup Members(Tail(w))
    BY <2>3 DEF Members
  <2>. QED  BY <2>2, <2>4
<1>. QED  BY <1>1, <1>2

LEMMA InHandIs ==
  ASSUME NEW s
  PROVE  /\ InHand(s) = (Members(work[s]) \cup {serving[s]} \cup Senders(readbuf[s])) \ {NoProc}
         /\ InHand(s)' =
              (Members(work'[s]) \cup {serving'[s]} \cup Senders(readbuf'[s])) \ {NoProc}
<1>1. ASSUME NEW r
      PROVE  {r[i].from : i \in 1..Len(r)} = Senders(r)
  BY DEF Senders, Members
<1>. QED  BY <1>1 DEF InHand, Members

LEMMA InHandSame ==
  ASSUME NEW s, work'[s] = work[s], serving'[s] = serving[s], readbuf'[s] = readbuf[s]
  PROVE  InHand(s)' = InHand(s)
BY InHandIs

LEMMA RequestsSame ==
  ASSUME NEW q \in Procs, RequestBufs(q), Active(q)' => Active(q),
         Active(q)' => bufs'[q] \ {q} = bufs[q] \ {q},
         q \in Servers => InHand(q)' = InHand(q)
  PROVE  RequestBufs(q)'
BY DEF RequestBufs

(* What matters is which callers there are, not where.                     *)
LEMMA InHandMoves ==
  ASSUME NEW s,
         \A x : x # NoProc =>
           (x \in Members(work'[s]) \cup {serving'[s]} \cup Senders(readbuf'[s])
            <=> x \in Members(work[s]) \cup {serving[s]} \cup Senders(readbuf[s]))
  PROVE  InHand(s)' = InHand(s)
BY InHandIs

LEMMA ReadHand ==
  ASSUME Types, Core, NEW s \in Servers, ReplyBuf(s), Read(s)
  PROVE  InHand(s)' = InHand(s)
<1>1. /\ s \in Procs /\ readbuf[s] = <<>> /\ serving' = serving /\ Fine(s)
      /\ Senders(<<>>) = {} /\ work[s] \in Seq(Clients)
  BY MembersNone DEF Read, Procs, Core, Senders, Types, DriverTypes
<1>2. CASE todo[s] # <<>>
  <2>1. readbuf'[s] = todo[s] /\ work' = work
    BY <1>1, <1>2 DEF Read, Types, ProgTypes
  <2>2. \A m \in Members(todo[s]) : m.from = NoProc
    BY <1>1 DEF Fine, Phase, ReplyBuf, Plain
  <2>3. Senders(readbuf'[s]) \subseteq {NoProc}
    BY <2>1, <2>2 DEF Senders
  <2>4. Senders(readbuf[s]) = {}
    BY <1>1
  <2>. QED  BY <1>1, <2>1, <2>3, <2>4, InHandMoves
<1>3. CASE todo[s] = <<>>
  <2>1. /\ readbuf'[s] = <<Transaction(Head(work[s]))>> /\ work[s] # <<>>
        /\ work'[s] = Tail(work[s])
    BY <1>1, <1>3 DEF Read, Types, ProgTypes, DriverTypes
  <2>2. Members(readbuf'[s]) = {Transaction(Head(work[s]))}
    BY <2>1 DEF Members
  <2>3. Senders(readbuf'[s]) = {Head(work[s])}
    BY <2>2 DEF Senders, Transaction
  <2>4. Members(work[s]) = {Head(work[s])} \cup Members(work'[s])
    BY <1>1, <2>1, WorkMembers
  <2>5. Senders(readbuf[s]) = {}
    BY <1>1
  <2>. QED  BY <1>1, <2>3, <2>4, <2>5, InHandMoves
<1>. QED  BY <1>2, <1>3

LEMMA ParseHand ==
  ASSUME Types, Core, NEW s \in Servers, ReplyBuf(s), Parse(s)
  PROVE  InHand(s)' = InHand(s)
<1>1. /\ s \in Procs /\ readbuf[s] \in Seq(Command) /\ readbuf[s] # <<>>
      /\ readbuf'[s] = Tail(readbuf[s]) /\ pc[s] \in Waiting \cup {"loop"}
      /\ UNCHANGED work /\ Fine(s)
  BY DEF Parse, Types, ProgTypes, Core, driverVars, Procs
<1>2. PICK m \in Command : m = Head(readbuf[s]) /\ m \in Members(readbuf[s])
  BY <1>1, MembersTake
<1>3. CASE m.cmd = "TRANSACTION"
  <2>1. pc[s] = "loop" /\ readbuf[s] = <<m>>
    BY <1>1, <1>2, <1>3 DEF Fine, Phase, Waiting
  <2>2. readbuf'[s] = <<>> /\ serving'[s] = m.from /\ serving[s] = NoProc
    BY <1>1, <1>2, <1>3, <2>1 DEF Parse, Types, ProgTypes, Fine, ServerPhase
  <2>3. Senders(readbuf[s]) = {m.from} /\ Senders(readbuf'[s]) = {}
    <3>1. Members(readbuf[s]) = {m} /\ Members(readbuf'[s]) = {}
      BY <2>1, <2>2 DEF Members
    <3>. QED  BY <3>1 DEF Senders
  <2>. QED  BY <1>1, <2>2, <2>3, InHandMoves
<1>4. CASE m.cmd # "TRANSACTION"
  <2>1. serving'[s] = serving[s] /\ m.from = NoProc
    BY <1>2, <1>4 DEF Parse, ReplyBuf, Plain
  <2>2. Members(readbuf[s]) = {m} \cup Members(Tail(readbuf[s]))
    <3>1. readbuf[s] = <<m>> \o Tail(readbuf[s]) /\ <<m>> \in Seq(Command)
          /\ Tail(readbuf[s]) \in Seq(Command)
      BY <1>1, <1>2
    <3>2. Members(<<m>>) = {m}
      BY DEF Members
    <3>. QED  BY <3>1, <3>2, MembersJoin
  <2>3. Senders(readbuf[s]) \ {NoProc} = Senders(readbuf'[s]) \ {NoProc}
    BY <1>1, <2>1, <2>2 DEF Senders
  <2>. QED  BY <1>1, <2>1, <2>3, InHandMoves
<1>. QED  BY <1>3, <1>4

(* The request that is answered is nowhere else.                           *)
LEMMA SendReplyHand ==
  ASSUME Types, Core, NEW s \in Servers, ReplyBuf(s), SendReply(s)
  PROVE  InHand(s)' = InHand(s) \ {serving[s]}
<1>1. /\ s \in Procs /\ Fine(s) /\ pc[s] = "reply" /\ serving[s] \in Clients
      /\ serving'[s] = NoProc /\ UNCHANGED <<readbuf, work>>
  BY DEF SendReply, At, Core, Fine, ServerPhase, Types, ProgTypes, Procs
<1>2. serving[s] # NoProc
  BY <1>1 DEF Fine, ServerPhase
<1>3. serving[s] \notin Members(work[s])
  <2>. SUFFICES ASSUME NEW i \in 1..Len(work[s]), work[s][i] = serving[s]
                PROVE  FALSE
    BY DEF Members
  <2>1. work[s] \in Seq(Clients) /\ i \in Nat /\ i + 1 \in Nat /\ (i + 1) - 1 = i /\ i + 1 # 0
    BY DEF Types, DriverTypes
  <2>2. Place(s, serving[s], 0) /\ Place(s, serving[s], i + 1)
    BY <2>1 DEF Place
  <2>. QED  BY <1>1, <2>1, <2>2 DEF Core, Unique
<1>4. serving[s] \notin Senders(readbuf[s])
  <2>1. \A m \in Members(readbuf[s]) : m.from = NoProc
    BY <1>1 DEF Fine, Phase, ReplyBuf, Plain
  <2>. QED  BY <1>2, <2>1 DEF Senders
<1>. QED  BY <1>1, <1>3, <1>4, InHandIs

LEMMA RequestBufsKept ==
  ASSUME Types, Core, [Next]_vars, Buffers, NEW q \in Procs
  PROVE  RequestBufs(q)'
<1>1. /\ RequestBufs(q) /\ (Active(q)' => Active(q)) /\ q # NoProc
      /\ (q \in Servers => q \notin Clients)
  BY ActiveBefore, SystemAssumption DEF Procs, Buffers
<1>2. ASSUME NEW p \in Procs,
             \/ p \in Servers /\ (Publish(p) \/ PublishDone(p))
             \/ p \in Clients /\ (Lookup(p) \/ Acquire(p) \/ LookupDone(p) \/ HelloDone(p))
             \/ CallDone(p) \/ ParseEnds(p) \/ OpenFails(p) \/ ReadFails(p)
      PROVE  RequestBufs(q)'
  <2>1. UNCHANGED <<work, serving, readbuf>>
    BY <1>2 DEF Publish, PublishDone, Lookup, Acquire, LookupDone, HelloDone, CallDone, ParseEnds,
                GiveUp,
                OpenFails, ReadFails, CallManager, Refused, driverVars
  <2>2. bufs'[q] \ {q} = bufs[q] \ {q}
    BY <1>2 DEF Publish, PublishDone, Lookup, Acquire, LookupDone, HelloDone, CallDone, ParseEnds,
                GiveUp,
                OpenFails, ReadFails, CallManager, Refused, driverVars, binder_done, Types,
                DriverTypes
  <2>. QED  BY <1>1, <2>1, <2>2, InHandSame, RequestsSame
<1>3. ASSUME NEW p \in Procs, Read(p) \/ Parse(p)
      PROVE  RequestBufs(q)'
  <2>1. UNCHANGED bufs
    BY <1>3 DEF Read, Parse, driverVars
  <2>2. CASE q = p
    <3>1. q \in Servers => InHand(q)' = InHand(q)
      BY <1>3, <2>2, ReadHand, ParseHand DEF Buffers
    <3>. QED  BY <1>1, <2>1, <3>1, RequestsSame
  <2>3. CASE q # p
    <3>1. Same(q)
      BY <1>3, <2>3, StepsAlone DEF Alone
    <3>2. q \in Servers => work'[q] = work[q]
      BY <1>3, <2>3 DEF Read, Parse, driverVars, Types, DriverTypes
    <3>3. q \in Servers => InHand(q)' = InHand(q)
      BY <3>1, <3>2, InHandSame DEF Same
    <3>. QED  BY <1>1, <2>1, <3>3, RequestsSame
  <2>. QED  BY <2>2, <2>3
<1>4. ASSUME NEW p \in Clients, Hello(p)
      PROVE  RequestBufs(q)'
  <2>1. UNCHANGED <<serving, readbuf>> /\ p # NoProc /\ p \in Procs
    BY <1>4, SystemAssumption DEF Hello, Procs
  <2>2. CASE UNCHANGED <<work, bufs>>
    BY <1>1, <2>1, <2>2, InHandSame, RequestsSame
  <2>3. CASE /\ q = g_handle[p] /\ q \in alive
             /\ work' = [work EXCEPT ![q] = Append(@, p)]
             /\ bufs' = [bufs EXCEPT ![q] = @ \cup {p}]
    <3>1. q \in Servers /\ q # p
      BY <2>3, <1>1, SystemAssumption DEF Types, ProgTypes
    <3>2. /\ work[q] \in Seq(Clients) /\ work'[q] = Append(work[q], p)
          /\ bufs'[q] = bufs[q] \cup {p}
      BY <2>3, <3>1 DEF Types, DriverTypes
    <3>3. Members(work'[q]) = Members(work[q]) \cup {p}
      BY <3>2, WorkMembers
    <3>4. InHand(q)' = InHand(q) \cup {p}
      BY <2>1, <3>3, InHandIs
    <3>5. Active(q)' => bufs'[q] \ {q} = (bufs[q] \ {q}) \cup {p}
      BY <3>1, <3>2
    <3>. QED  BY <1>1, <3>1, <3>4, <3>5 DEF RequestBufs
  <2>4. CASE \E s \in Servers : /\ q # s
                                /\ work' = [work EXCEPT ![s] = Append(@, p)]
                                /\ bufs' = [bufs EXCEPT ![s] = @ \cup {p}]
    <3>1. bufs'[q] = bufs[q] /\ (q \in Servers => work'[q] = work[q])
      BY <2>4 DEF Types, DriverTypes
    <3>. QED  BY <1>1, <2>1, <3>1, InHandSame, RequestsSame
  <2>5. g_handle[p] \in alive => g_handle[p] \in Servers
    BY SystemAssumption DEF Types, ProgTypes, MgrTypes, Procs
  <2>. QED  BY <1>4, <2>2, <2>3, <2>4, <2>5 DEF Hello, Refused
<1>5. ASSUME NEW s \in Servers, sayhello(s) \/ sayhello_to(s) \/ Reject(s)
      PROVE  RequestBufs(q)'
  <2>1. UNCHANGED <<work, serving, readbuf, bufs>>
    BY <1>5 DEF sayhello, sayhello_to, Reject, Handler, driverVars
  <2>. QED  BY <1>1, <2>1, InHandSame, RequestsSame
<1>6. ASSUME NEW s \in Servers, SendReply(s)
      PROVE  RequestBufs(q)'
  <2>1. /\ serving[s] \in Clients /\ serving[s] \in Procs /\ s \in Procs /\ s # serving[s]
        /\ UNCHANGED <<readbuf, work>> /\ serving' = [serving EXCEPT ![s] = NoProc]
    BY <1>6, SystemAssumption
    DEF SendReply, At, Core, Fine, ServerPhase, Types, ProgTypes, Procs
  <2>2. PICK m \in Command : m = Reply(reply[s].status, reply[s].num, NoProc)
    <3>1. reply[s].status \in {0, -1} /\ reply[s].num \in Nat
      BY DEF Types, HelloTypes
    <3>. QED  BY <3>1, Commands
  <2>3. Got(q, serving[s], m, {serving[s]}, s)
    BY <1>6, <2>1, <2>2, Delivered DEF SendReply
  <2>4. CASE q = s
    <3>1. bufs'[q] = bufs[q] \ {serving[s]}
      BY <2>1, <2>3, <2>4 DEF Got
    <3>2. InHand(q)' = InHand(q) \ {serving[s]}
      BY <1>6, <2>4, SendReplyHand DEF Buffers
    <3>3. bufs'[q] \ {q} = (bufs[q] \ {q}) \ {serving[s]}
      BY <3>1
    <3>. QED  BY <1>1, <2>4, <3>2, <3>3 DEF RequestBufs
  <2>5. CASE q # s
    <3>1. bufs'[q] \ {q} = bufs[q] \ {q}
      BY <2>3, <2>5 DEF Got
    <3>2. q \in Servers => serving'[q] = serving[q]
      BY <2>1, <2>5 DEF Types, ProgTypes
    <3>3. q \in Servers => InHand(q)' = InHand(q)
      BY <2>1, <3>2, InHandSame
    <3>. QED  BY <1>1, <3>1, <3>3, RequestsSame
  <2>. QED  BY <2>4, <2>5
<1>7. ASSUME NEW p \in Procs, NEW m \in Command, Deliver(p, m, {}, NoProc),
             UNCHANGED <<readbuf, work, serving>>
      PROVE  RequestBufs(q)'
  <2>1. NoProc # p
    BY SystemAssumption DEF Procs
  <2>2. Got(q, p, m, {}, NoProc)
    BY <1>7, <2>1, Delivered
  <2>3. bufs'[q] \ {q} = bufs[q] \ {q}
    BY <1>1, <2>2 DEF Got
  <2>. QED  BY <1>1, <1>7, <2>3, InHandSame, RequestsSame
<1>8. ASSUME NEW p \in Procs, Add(p)
      PROVE  RequestBufs(q)'
  <2>1. PICK st \in {0, -1} : Deliver(p, StatusReply(st), {}, NoProc)
    BY <1>8 DEF Add, Refuse
  <2>2. StatusReply(st) \in Command /\ UNCHANGED <<readbuf, work, serving>>
    BY <1>8, Commands DEF StatusReply, Add, progVars
  <2>. QED  BY <1>7, <2>1, <2>2
<1>9. CASE CheckReply
  <2>1. /\ mgr \in Procs /\ Deliver(mgr, Reply(0, 0, given), {}, NoProc)
        /\ UNCHANGED <<readbuf, work, serving>>
    BY <1>9 DEF CheckReply, Types, MgrTypes, Procs, progVars
  <2>2. Reply(0, 0, given) \in Command
    BY Commands DEF Types, MgrTypes
  <2>. QED  BY <1>7, <2>1, <2>2
<1>10. ASSUME NEW p \in Procs, Die(p)
       PROVE  RequestBufs(q)'
  <2>1. CASE q # p
    <3>1. /\ readbuf'[q] = readbuf[q] /\ bufs'[q] = bufs[q]
          /\ q \in Servers => work'[q] = work[q] /\ serving'[q] = serving[q]
      BY <1>10, <2>1 DEF Die, Types, ProgTypes, DriverTypes
    <3>. QED  BY <1>1, <3>1, InHandSame, RequestsSame
  <2>2. CASE q = p
    BY <1>10, <2>2 DEF Die, R!Die, RequestBufs, Active
  <2>. QED  BY <2>1, <2>2
<1>11. CASE \/ ManagerDies \/ Forget \/ ManagerStarts \/ ManagerReady \/ UNCHANGED vars
            \/ \E p \in Procs : Check(p)
  <2>1. UNCHANGED <<work, serving, readbuf, bufs>>
    BY <1>11 DEF ManagerDies, Forget, ManagerStarts, ManagerReady, Check, vars, progVars,
                 driverVars
  <2>. QED  BY <1>1, <2>1, InHandSame, RequestsSame
<1>. QED
  BY <1>2, <1>3, <1>4, <1>5, <1>6, <1>8, <1>9, <1>10, <1>11
  DEF Next, ServerSteps, ClientSteps, CallSteps, ManagerSteps, Exit, Procs

LEMMA InitBuffers == Init => Buffers
<1>. SUFFICES ASSUME Init, NEW p \in Procs
              PROVE  ReplyBuf(p) /\ RequestBufs(p)
  BY DEF Buffers
<1>1. /\ todo[p] = <<>> /\ readbuf[p] = <<>> /\ ~io[p].shared /\ bufs[p] = {}
      /\ p \in Servers => work[p] = <<>> /\ serving[p] = NoProc
  BY NoIOType DEF Init
<1>2. ReplyBuf(p)
  BY <1>1, PlainCommands DEF ReplyBuf
<1>3. p \in Servers => InHand(p) = {}
  <2>1. Members(<<>>) = {} /\ Senders(<<>>) = {}
    BY MembersNone DEF Senders
  <2>. QED  BY <1>1, <2>1, InHandIs
<1>. QED  BY <1>1, <1>2, <1>3 DEF RequestBufs
-----------------------------------------------------------------------------
(* Nobody waits in vain.                                                   *)

(* Who waits is owed an answer or has it, and who is owed one has its call *)
(* with somebody that is there.                                            *)
Owed(p) ==
  p \in alive /\ pc[p] \in Waiting =>
    call[p] # NoProc \/ res[p] # 1 \/ ~Calm(todo[p]) \/ ~Calm(readbuf[p])

Backed(p) ==
  /\ call[p] = Manager => manager # "down" /\ (asked[p] # "none" \/ mgr = p)
  /\ call[p] \in Servers =>
       p \in Clients /\ call[p] \in alive /\ p \in InHand(call[p])

Backing == \A p \in Procs : Owed(p) /\ Backed(p)

LEMMA OwedSame ==
  ASSUME NEW q \in Procs, Owed(q), q \in alive' => q \in alive,
         pc'[q] = pc[q], res'[q] = res[q], todo'[q] = todo[q],
         readbuf'[q] = readbuf[q], call'[q] = call[q]
  PROVE  Owed(q)'
BY DEF Owed

LEMMA OwedAnswered ==
  ASSUME Types, NEW q \in Procs, NEW m \in Command, m.cmd \in Answers,
         todo'[q] = todo[q] \o <<m>>
  PROVE  Owed(q)'
<1>1. m \in Members(todo'[q])
  BY MembersAdd DEF Types, DriverTypes
<1>. QED  BY <1>1 DEF Owed, Calm

LEMMA CallOwed ==
  ASSUME Types, NEW p \in Procs, NEW r \in {"ADD", "CHECK"}, CallManager(p, r)
  PROVE  Owed(p)'
<1>1. ASSUME NEW why \in {"DEAD", "FAILED"}, Refused(p, why)
      PROVE  Owed(p)'
  <2>1. BR(why) \in Command /\ BR(why).cmd \in Answers
    BY Commands DEF Answers
  <2>2. todo'[p] = todo[p] \o <<BR(why)>>
    BY <1>1 DEF Refused, Queue, Types, DriverTypes
  <2>. QED  BY <2>1, <2>2, OwedAnswered
<1>2. CASE call' = [call EXCEPT ![p] = Manager]
  <2>1. call'[p] # NoProc
    BY <1>2, SystemAssumption DEF Types, DriverTypes
  <2>. QED  BY <2>1 DEF Owed
<1>. QED  BY <1>1, <1>2 DEF CallManager

LEMMA HelloOwed ==
  ASSUME Types, NEW p \in Clients, Hello(p)
  PROVE  Owed(p)'
<1>1. p \in Procs
  BY DEF Procs
<1>2. ASSUME NEW why \in {"DEAD", "FAILED"}, Refused(p, why)
      PROVE  Owed(p)'
  <2>1. BR(why) \in Command /\ BR(why).cmd \in Answers
    BY Commands DEF Answers
  <2>2. todo'[p] = todo[p] \o <<BR(why)>>
    BY <1>1, <1>2 DEF Refused, Queue, Types, DriverTypes
  <2>. QED  BY <1>1, <2>1, <2>2, OwedAnswered
<1>3. CASE g_handle[p] \in alive /\ call' = [call EXCEPT ![p] = g_handle[p]]
  <2>1. g_handle[p] # NoProc
    BY <1>3, SystemAssumption DEF Types, MgrTypes, Procs
  <2>2. call'[p] # NoProc
    BY <1>1, <1>3, <2>1 DEF Types, DriverTypes
  <2>. QED  BY <2>2 DEF Owed
<1>. QED  BY <1>2, <1>3 DEF Hello

(* An answer that is read, or parsed, is still there.                      *)
LEMMA ReadOwed ==
  ASSUME Types, NEW p \in Procs, Read(p), Owed(p)
  PROVE  Owed(p)'
<1>1. /\ readbuf[p] = <<>> /\ UNCHANGED <<alive, pc, res, call>>
      /\ pc[p] \in Waiting \cup {"loop"}
  BY DEF Read, driverVars
<1>2. CASE todo[p] # <<>>
  <2>1. readbuf'[p] = todo[p]
    BY <1>2 DEF Read, Types, ProgTypes
  <2>. QED  BY <1>1, <2>1, LastNone DEF Owed
<1>3. CASE todo[p] = <<>>
  BY <1>1, <1>3 DEF Read, Owed, Waiting
<1>. QED  BY <1>2, <1>3

LEMMA ParseOwed ==
  ASSUME Types, Core, NEW p \in Procs, Parse(p), Owed(p)
  PROVE  Owed(p)'
<1>. SUFFICES ASSUME p \in alive', pc'[p] \in Waiting
              PROVE  \/ call'[p] # NoProc \/ res'[p] # 1
                     \/ ~Calm(todo'[p]) \/ ~Calm(readbuf'[p])
  BY DEF Owed
<1>1. /\ readbuf[p] \in Seq(Command) /\ readbuf[p] # <<>> /\ readbuf'[p] = Tail(readbuf[p])
      /\ res[p] \in {-1, 0, 1} /\ res'[p] = ResAfter(Head(readbuf[p]).cmd, res[p])
      /\ UNCHANGED <<call, todo, alive>>
  BY DEF Parse, Types, ProgTypes, driverVars
<1>2. PICK m \in Command : m = Head(readbuf[p])
  BY <1>1, MembersTake
<1>3. pc[p] \in Waiting
  BY DEF Parse, Goto, Waiting, Types, ProgTypes, PcTypes
<1>4. res'[p] = IF m.cmd = "REPLY" THEN 0
                ELSE IF m.cmd \in {"FAILED", "DEAD"} THEN -1 ELSE res[p]
  BY <1>1, <1>2, Parsed
<1>5. LastOnly(readbuf[p])
  BY DEF Core, Fine, Line
<1>6. CASE m.cmd \in Answers
  BY <1>4, <1>6 DEF Answers
<1>7. CASE m.cmd \notin Answers
  <2>1. res'[p] = res[p]
    BY <1>4, <1>7 DEF Answers
  <2>2. Calm(readbuf'[p]) => Calm(readbuf[p])
    BY <1>1, <1>2, <1>5, <1>7, LastTake
  <2>. QED  BY <1>1, <1>3, <2>1, <2>2 DEF Owed
<1>. QED  BY <1>6, <1>7

(* Who is given a reply has it, and for the others nothing changes.        *)
LEMMA DeliverOwed ==
  ASSUME Types, NEW p \in Procs, NEW m \in Command, m.cmd = "REPLY", NEW freed,
         NEW done \in Procs \cup {NoProc}, done # p, Deliver(p, m, freed, done),
         UNCHANGED <<alive, readbuf, res>>,
         NEW q \in Procs, q # done, pc'[q] = pc[q], Owed(q)
  PROVE  Owed(q)'
<1>1. Got(q, p, m, freed, done)
  BY Delivered
<1>2. CASE q = p /\ p \in alive
  <2>1. todo'[q] = todo[q] \o <<m>>
    BY <1>1, <1>2 DEF Got
  <2>. QED  BY <2>1, OwedAnswered DEF Answers
<1>3. CASE q = p /\ p \notin alive
  BY <1>3 DEF Owed
<1>4. CASE q # p
  <2>1. todo'[q] = todo[q] /\ call'[q] = call[q]
    BY <1>1, <1>4 DEF Got
  <2>. QED  BY <2>1, OwedSame
<1>. QED  BY <1>2, <1>3, <1>4

LEMMA AbandonedOwed ==
  ASSUME Types, NEW p, NEW gone, Abandoned(p, gone), NEW q \in Procs, q \notin gone,
         q \in alive' => q \in alive, pc'[q] = pc[q], readbuf'[q] = readbuf[q],
         res'[q] = res[q], Owed(q)
  PROVE  Owed(q)'
<1>1. CASE call[q] = p
  <2>1. BR("DEAD") \in Command /\ BR("DEAD").cmd \in Answers
    BY Commands DEF Answers
  <2>2. todo'[q] = todo[q] \o <<BR("DEAD")>>
    BY <1>1, <2>1, MembersAdd DEF Abandoned, Types, DriverTypes
  <2>. QED  BY <2>1, <2>2, OwedAnswered
<1>2. CASE call[q] # p
  <2>1. todo'[q] = todo[q] /\ call'[q] = call[q]
    BY <1>2 DEF Abandoned
  <2>. QED  BY <2>1, OwedSame
<1>. QED  BY <1>1, <1>2

LEMMA OwedKept ==
  ASSUME Types, Core, [Next]_vars, NEW q \in Procs, Owed(q)
  PROVE  Owed(q)'
<1>1. ASSUME NEW p \in Procs,
             \/ p \in Servers /\ (Publish(p) \/ PublishDone(p))
             \/ p \in Clients /\ (Lookup(p) \/ Acquire(p) \/ LookupDone(p))
             \/ p \in Clients /\ (Hello(p) \/ HelloDone(p))
             \/ Read(p) \/ Parse(p) \/ CallDone(p) \/ ParseEnds(p)
             \/ OpenFails(p) \/ ReadFails(p)
      PROVE  Owed(q)'
  <2>1. CASE q # p
    BY <1>1, <2>1, StepsAlone, OwedSame DEF Alone, Same
  <2>2. CASE q = p /\ \/ p \in Servers /\ Publish(p)
                      \/ p \in Clients /\ (Lookup(p) \/ Hello(p))
    BY <2>2, CallOwed, HelloOwed DEF Publish, Lookup
  <2>3. CASE q = p /\ (Read(p) \/ Parse(p))
    BY <2>3, ReadOwed, ParseOwed
  <2>4. CASE q = p /\ \/ p \in Servers /\ PublishDone(p)
                      \/ p \in Clients /\ (Acquire(p) \/ LookupDone(p) \/ HelloDone(p))
                      \/ CallDone(p) \/ ParseEnds(p) \/ OpenFails(p) \/ ReadFails(p)
    <3>1. pc'[p] \notin Waiting
      BY <2>4 DEF PublishDone, Acquire, LookupDone, HelloDone, CallDone, ParseEnds,
                  GiveUp, OpenFails,
                  ReadFails, Goto, Waiting, Types, ProgTypes, PcTypes
    <3>. QED  BY <2>4, <3>1 DEF Owed
  <2>. QED  BY <1>1, <2>1, <2>2, <2>3, <2>4
<1>2. ASSUME NEW s \in Servers, sayhello(s) \/ sayhello_to(s) \/ Reject(s)
      PROVE  Owed(q)'
  <2>1. /\ UNCHANGED <<alive, readbuf, res, todo, call>> /\ Goto(s, "reply") /\ s \in Procs
    BY <1>2 DEF sayhello, sayhello_to, Reject, Handler, driverVars, Procs
  <2>2. pc'[q] = IF q = s THEN "reply" ELSE pc[q]
    BY <2>1 DEF Goto, Types, ProgTypes, PcTypes
  <2>. QED  BY <2>1, <2>2, OwedSame DEF Owed, Waiting
<1>3. ASSUME NEW s \in Servers, SendReply(s)
      PROVE  Owed(q)'
  <2>1. /\ serving[s] \in Clients /\ serving[s] \in Procs /\ s \in Procs /\ s # serving[s]
        /\ UNCHANGED <<alive, readbuf, res>> /\ Goto(s, "loop")
    BY <1>3, SystemAssumption
    DEF SendReply, At, Core, Fine, ServerPhase, Types, ProgTypes, Procs
  <2>2. PICK m \in Command : /\ m = Reply(reply[s].status, reply[s].num, NoProc)
                             /\ m.cmd = "REPLY"
    <3>1. reply[s].status \in {0, -1} /\ reply[s].num \in Nat
      BY DEF Types, HelloTypes
    <3>. QED  BY <3>1, Commands
  <2>3. pc'[q] = IF q = s THEN "loop" ELSE pc[q]
    BY <2>1 DEF Goto, Types, ProgTypes, PcTypes
  <2>4. Deliver(serving[s], m, {serving[s]}, s)
    BY <1>3, <2>2 DEF SendReply
  <2>5. CASE q = s
    BY <2>3, <2>5 DEF Owed, Waiting
  <2>6. CASE q # s
    BY <2>1, <2>2, <2>3, <2>4, <2>6, DeliverOwed
  <2>. QED  BY <2>5, <2>6
<1>4. ASSUME NEW p \in Procs, Add(p)
      PROVE  Owed(q)'
  <2>1. PICK st \in {0, -1} : Deliver(p, StatusReply(st), {}, NoProc)
    BY <1>4 DEF Add, Refuse
  <2>2. StatusReply(st) \in Command /\ StatusReply(st).cmd = "REPLY"
    BY Commands DEF StatusReply
  <2>3. UNCHANGED <<alive, readbuf, res, pc>> /\ NoProc \notin Procs
    BY <1>4, SystemAssumption DEF Add, Refuse, R!Register, progVars, Procs
  <2>. QED  BY <2>1, <2>2, <2>3, DeliverOwed
<1>5. CASE CheckReply
  <2>1. /\ mgr \in Procs /\ Deliver(mgr, Reply(0, 0, given), {}, NoProc)
        /\ UNCHANGED <<alive, readbuf, res, pc>> /\ NoProc \notin Procs
    BY <1>5, SystemAssumption
    DEF CheckReply, R!Answered, Types, MgrTypes, Procs, progVars
  <2>2. Reply(0, 0, given) \in Command /\ Reply(0, 0, given).cmd = "REPLY"
    BY Commands DEF Types, MgrTypes
  <2>. QED  BY <2>1, <2>2, DeliverOwed
<1>6. CASE ManagerDies
  BY <1>6, AbandonedOwed DEF ManagerDies, progVars
<1>7. ASSUME NEW p \in Procs, Die(p)
      PROVE  Owed(q)'
  <2>1. CASE q = p
    BY <1>7, <2>1 DEF Die, R!Die, Owed
  <2>2. CASE q # p
    <3>1. /\ Abandoned(p, {p}) /\ (q \in alive' => q \in alive)
          /\ pc'[q] = pc[q] /\ readbuf'[q] = readbuf[q] /\ res'[q] = res[q]
      BY <1>7, <2>2 DEF Die, R!Die, Goto, Types, ProgTypes, PcTypes
    <3>. QED  BY <2>2, <3>1, AbandonedOwed
  <2>. QED  BY <2>1, <2>2
<1>8. CASE \/ Forget \/ ManagerStarts \/ ManagerReady \/ UNCHANGED vars
           \/ \E p \in Procs : Check(p)
  <2>1. UNCHANGED <<alive, pc, res, todo, readbuf, call>>
    BY <1>8 DEF Forget, R!Forget, ManagerStarts, ManagerReady, Check, R!Lookup,
                R!Answered, vars, progVars,
                driverVars
  <2>. QED  BY <2>1, OwedSame
<1>. QED
  BY <1>1, <1>2, <1>3, <1>4, <1>5, <1>6, <1>7, <1>8
  DEF Next, ServerSteps, ClientSteps, CallSteps, ManagerSteps, Exit, Procs

(* A request stays in the server's hands until it is answered.             *)
LEMMA HandKept ==
  ASSUME Types, Core, Buffers, [Next]_vars, NEW s \in Servers, ~Die(s)
  PROVE  \/ InHand(s) \subseteq InHand(s)'
         \/ SendReply(s) /\ InHand(s)' = InHand(s) \ {serving[s]}
<1>1. s \in Procs
  BY DEF Procs
<1>2. ASSUME work'[s] = work[s], serving'[s] = serving[s], readbuf'[s] = readbuf[s]
      PROVE  InHand(s) \subseteq InHand(s)'
  BY <1>2, InHandSame
<1>3. ASSUME NEW p \in Procs,
             \/ p \in Servers /\ (Publish(p) \/ PublishDone(p))
             \/ p \in Clients /\ (Lookup(p) \/ Acquire(p) \/ LookupDone(p) \/ HelloDone(p))
             \/ CallDone(p) \/ ParseEnds(p) \/ OpenFails(p) \/ ReadFails(p)
      PROVE  InHand(s) \subseteq InHand(s)'
  <2>1. UNCHANGED <<work, serving, readbuf>>
    BY <1>3 DEF Publish, PublishDone, Lookup, Acquire, LookupDone, HelloDone, CallDone, ParseEnds,
                GiveUp,
                OpenFails, ReadFails, CallManager, Refused, driverVars
  <2>. QED  BY <1>2, <2>1
<1>4. ASSUME NEW p \in Procs, Read(p) \/ Parse(p)
      PROVE  InHand(s) \subseteq InHand(s)'
  <2>1. CASE s = p
    BY <1>4, <2>1, ReadHand, ParseHand DEF Buffers
  <2>2. CASE s # p
    <3>1. Same(s)
      BY <1>1, <1>4, <2>2, StepsAlone DEF Alone
    <3>2. work'[s] = work[s]
      BY <1>4, <2>2 DEF Read, Parse, driverVars, Types, DriverTypes
    <3>. QED  BY <1>2, <3>1, <3>2 DEF Same
  <2>. QED  BY <2>1, <2>2
<1>5. ASSUME NEW p \in Clients, Hello(p)
      PROVE  InHand(s) \subseteq InHand(s)'
  <2>1. UNCHANGED <<serving, readbuf>> /\ work[s] \in Seq(Clients)
    BY <1>5 DEF Hello, Types, DriverTypes
  <2>2. work'[s] = work[s] \/ work'[s] = Append(work[s], p)
    BY <1>5 DEF Hello, Refused, Types, DriverTypes
  <2>3. Members(work[s]) \subseteq Members(work'[s])
    <3>1. Members(Append(work[s], p)) = Members(work[s]) \cup {p}
      BY <2>1, WorkMembers
    <3>. QED  BY <2>2, <3>1
  <2>. QED  BY <2>1, <2>3, InHandIs
<1>6. ASSUME NEW t \in Servers, sayhello(t) \/ sayhello_to(t) \/ Reject(t)
      PROVE  InHand(s) \subseteq InHand(s)'
  <2>1. UNCHANGED <<work, serving, readbuf>>
    BY <1>6 DEF sayhello, sayhello_to, Reject, Handler, driverVars
  <2>. QED  BY <1>2, <2>1
<1>7. ASSUME NEW t \in Servers, t # s, SendReply(t)
      PROVE  InHand(s) \subseteq InHand(s)'
  <2>1. work' = work /\ readbuf' = readbuf /\ serving'[s] = serving[s]
    BY <1>7 DEF SendReply, Types, ProgTypes
  <2>. QED  BY <1>2, <2>1
<1>8. ASSUME SendReply(s)
      PROVE  InHand(s)' = InHand(s) \ {serving[s]}
  BY <1>1, <1>8, SendReplyHand DEF Buffers
<1>9. ASSUME NEW p \in Procs, p # s, Die(p)
      PROVE  InHand(s) \subseteq InHand(s)'
  <2>1. work'[s] = work[s] /\ readbuf'[s] = readbuf[s] /\ serving'[s] = serving[s]
    BY <1>1, <1>9 DEF Die, Types, ProgTypes, DriverTypes
  <2>. QED  BY <1>2, <2>1
<1>10. CASE \/ CheckReply \/ ManagerDies \/ Forget \/ ManagerStarts \/ ManagerReady
            \/ UNCHANGED vars \/ \E p \in Procs : Add(p) \/ Check(p)
  <2>1. UNCHANGED <<work, serving, readbuf>>
    BY <1>10 DEF CheckReply, ManagerDies, Forget, ManagerStarts, ManagerReady, Add, Check, vars,
                 progVars, driverVars
  <2>. QED  BY <1>2, <2>1
<1>. QED
  BY <1>3, <1>4, <1>5, <1>6, <1>7, <1>8, <1>9, <1>10
  DEF Next, ServerSteps, ClientSteps, CallSteps, ManagerSteps, Exit, Procs

LEMMA BackedSame ==
  ASSUME NEW q \in Procs, Backed(q), call'[q] \in {call[q], NoProc},
         call'[q] = Manager =>
           /\ manager # "down" => manager' # "down"
           /\ asked[q] # "none" \/ mgr = q => asked'[q] # "none" \/ mgr' = q,
         \A s \in Servers : call'[q] = s =>
           (s \in alive => s \in alive') /\ (q \in InHand(s) => q \in InHand(s)')
  PROVE  Backed(q)'
<1>1. NoProc # Manager /\ NoProc \notin Servers
  BY SystemAssumption DEF Procs
<1>2. call'[q] = Manager => manager' # "down" /\ (asked'[q] # "none" \/ mgr' = q)
  BY <1>1 DEF Backed
<1>3. ASSUME NEW s \in Servers, call'[q] = s
      PROVE  q \in Clients /\ s \in alive' /\ q \in InHand(s)'
  BY <1>1, <1>3 DEF Backed
<1>4. call'[q] \in Servers => q \in Clients /\ call'[q] \in alive' /\ q \in InHand(call[q])'
  BY <1>3
<1>. QED  BY <1>2, <1>4 DEF Backed

LEMMA BackedKept ==
  ASSUME Types, Core, Buffers, [Next]_vars, NEW q \in Procs, Backed(q)
  PROVE  Backed(q)'
<1>1. /\ Manager # NoProc /\ Manager \notin Procs /\ NoProc \notin Procs
      /\ q # NoProc /\ q # Manager
  BY SystemAssumption DEF Procs
<1>2. ASSUME NEW s \in Servers, call'[q] = call[q], call[q] = s, ~Die(s)
      PROVE  q \in InHand(s) => q \in InHand(s)'
  <2>1. ASSUME SendReply(s)
        PROVE  q # serving[s]
    <3>1. call' = [call EXCEPT ![serving[s]] = NoProc]
      BY <2>1 DEF SendReply, Deliver
    <3>. QED  BY <1>1, <1>2, <3>1 DEF Types, DriverTypes, Procs
  <2>. QED  BY <1>2, <2>1, HandKept
<1>3. ASSUME call'[q] \in {call[q], NoProc}, alive \subseteq alive',
             call'[q] = Manager =>
               /\ manager # "down" => manager' # "down"
               /\ asked[q] # "none" \/ mgr = q => asked'[q] # "none" \/ mgr' = q
      PROVE  Backed(q)'
  <2>1. \A s \in Servers : ~Die(s)
    BY <1>3 DEF R!Die, Die
  <2>2. ASSUME NEW s \in Servers, call'[q] = s
        PROVE  (s \in alive => s \in alive') /\ (q \in InHand(s) => q \in InHand(s)')
    <3>1. call'[q] = call[q]
      BY <1>1, <1>3, <2>2 DEF Procs
    <3>. QED  BY <1>2, <1>3, <2>1, <2>2, <3>1
  <2>. QED  BY <1>3, <2>2, BackedSame
<1>4. ASSUME NEW p \in Procs, NEW r \in {"ADD", "CHECK"}, CallManager(p, r),
             UNCHANGED <<alive, manager, mgr>>
      PROVE  Backed(q)'
  <2>1. CASE UNCHANGED <<asked, call>>
    BY <1>3, <1>4, <2>1
  <2>2. CASE /\ manager # "down" /\ asked' = [asked EXCEPT ![p] = r]
             /\ call' = [call EXCEPT ![p] = Manager]
    <3>1. CASE q = p
      <4>1. call'[q] = Manager /\ asked'[q] # "none" /\ manager' # "down"
        BY <1>4, <2>2, <3>1 DEF Types, MgrTypes, DriverTypes
      <4>2. Manager \notin Servers
        BY <1>1 DEF Procs
      <4>. QED  BY <4>1, <4>2 DEF Backed
    <3>2. CASE q # p
      <4>1. call'[q] = call[q] /\ asked'[q] = asked[q]
        BY <2>2, <3>2 DEF Types, MgrTypes, DriverTypes
      <4>. QED  BY <1>3, <1>4, <4>1
    <3>. QED  BY <3>1, <3>2
  <2>. QED  BY <1>4, <2>1, <2>2 DEF CallManager, Refused
<1>5. ASSUME NEW p \in Clients, Hello(p)
      PROVE  Backed(q)'
  <2>1. UNCHANGED <<alive, manager, mgr>> /\ p \in Procs
    BY <1>5 DEF Hello, lifeVars, Procs
  <2>2. CASE UNCHANGED <<asked, call>>
    BY <1>3, <2>1, <2>2
  <2>3. CASE /\ g_handle[p] \in alive /\ call' = [call EXCEPT ![p] = g_handle[p]]
             /\ work' = [work EXCEPT ![g_handle[p]] = Append(@, p)] /\ asked' = asked
    <3>1. PICK s \in Servers : s = g_handle[p]
      BY <1>1, <1>5, <2>3 DEF Types, ProgTypes, MgrTypes
    <3>2. CASE q = p
      <4>1. call'[q] = s /\ s \in alive' /\ s # Manager
        BY <1>1, <2>1, <2>3, <3>1, <3>2 DEF Types, DriverTypes, Procs
      <4>2. work[s] \in Seq(Clients) /\ work'[s] = Append(work[s], p)
        BY <2>3, <3>1 DEF Types, DriverTypes
      <4>3. p \in Members(work'[s])
        BY <4>2, WorkMembers
      <4>4. q \in InHand(s)'
        BY <1>1, <3>2, <4>3, InHandIs
      <4>. QED  BY <1>5, <3>2, <4>1, <4>4 DEF Backed
    <3>3. CASE q # p
      <4>1. call'[q] = call[q]
        BY <2>3, <3>3 DEF Types, DriverTypes
      <4>. QED  BY <1>3, <2>1, <2>3, <4>1
    <3>. QED  BY <3>2, <3>3
  <2>. QED  BY <1>5, <2>2, <2>3 DEF Hello, Refused
<1>6. ASSUME NEW p \in Procs,
             \/ p \in Servers /\ PublishDone(p)
             \/ p \in Clients /\ (Acquire(p) \/ LookupDone(p) \/ HelloDone(p))
             \/ Read(p) \/ Parse(p) \/ CallDone(p) \/ ParseEnds(p)
             \/ OpenFails(p) \/ ReadFails(p)
             \/ sayhello(p) \/ sayhello_to(p) \/ Reject(p)
      PROVE  Backed(q)'
  <2>1. UNCHANGED <<asked, mgr, call, alive, manager>>
    BY <1>6 DEF PublishDone, Acquire, LookupDone, HelloDone, Read, Parse, CallDone, ParseEnds,
                GiveUp,
                OpenFails, ReadFails, sayhello, sayhello_to, Reject, Handler, mgrVars, lifeVars,
                driverVars
  <2>. QED  BY <1>3, <2>1
<1>7. ASSUME NEW s \in Servers, SendReply(s)
      PROVE  Backed(q)'
  <2>1. /\ call' = [call EXCEPT ![serving[s]] = NoProc]
        /\ UNCHANGED <<asked, mgr, alive, manager>>
    BY <1>7 DEF SendReply, Deliver, mgrVars, lifeVars
  <2>2. call'[q] \in {call[q], NoProc}
    BY <2>1 DEF Types, DriverTypes
  <2>. QED  BY <1>3, <2>1, <2>2
<1>8. ASSUME NEW s \in Procs, Add(s)
      PROVE  Backed(q)'
  <2>1. /\ asked' = [asked EXCEPT ![s] = "none"] /\ UNCHANGED <<mgr, alive, manager>>
        /\ call' = [call EXCEPT ![s] = NoProc]
    BY <1>8 DEF Add, Refuse, R!Register, Deliver
  <2>2. IF q = s THEN call'[q] = NoProc ELSE call'[q] = call[q] /\ asked'[q] = asked[q]
    BY <2>1 DEF Types, DriverTypes, MgrTypes
  <2>. QED  BY <1>1, <1>3, <2>1, <2>2
<1>9. ASSUME NEW c \in Procs, Check(c)
      PROVE  Backed(q)'
  <2>1. /\ asked' = [asked EXCEPT ![c] = "none"] /\ mgr' = c /\ mgr = NoProc
        /\ UNCHANGED <<call, alive, manager>>
    BY <1>9 DEF Check, R!Lookup, R!Answered, Idle, driverVars, lifeVars
  <2>2. q # c => asked'[q] = asked[q]
    BY <2>1 DEF Types, MgrTypes
  <2>. QED  BY <1>1, <1>3, <2>1, <2>2
<1>10. CASE CheckReply
  <2>1. /\ UNCHANGED <<asked, alive, manager>> /\ mgr' = NoProc
        /\ call' = [call EXCEPT ![mgr] = NoProc]
    BY <1>10 DEF CheckReply, R!Answered, Deliver, lifeVars
  <2>2. IF q = mgr THEN call'[q] = NoProc ELSE call'[q] = call[q]
    BY <2>1 DEF Types, DriverTypes
  <2>. QED  BY <1>1, <1>3, <2>1, <2>2
<1>11. CASE ManagerDies
  <2>1. alive' = alive /\ call'[q] = IF call[q] = Manager THEN NoProc ELSE call[q]
    BY <1>11 DEF ManagerDies, Abandoned
  <2>. QED  BY <1>1, <1>3, <2>1
<1>12. ASSUME NEW p \in Procs, Die(p)
       PROVE  Backed(q)'
  <2>1. /\ UNCHANGED <<asked, mgr, manager>> /\ alive' = alive \ {p}
        /\ call'[q] = IF q = p \/ call[q] = p THEN NoProc ELSE call[q]
    BY <1>12 DEF Die, R!Die, Abandoned, lifeVars
  <2>2. ASSUME NEW s \in Servers, call'[q] = s
        PROVE  (s \in alive => s \in alive') /\ (q \in InHand(s) => q \in InHand(s)')
    <3>1. s # p /\ s # NoProc /\ call'[q] = call[q]
      BY <1>1, <2>1, <2>2 DEF Procs
    <3>2. ~Die(s)
      <4>1. Die(s) => s \notin alive'
        BY DEF Die, R!Die
      <4>2. Die(s) => s \in alive
        BY DEF Die, R!Die
      <4>. QED  BY <2>1, <3>1, <4>1, <4>2
    <3>. QED  BY <1>2, <2>1, <2>2, <3>1, <3>2
  <2>. QED  BY <1>1, <2>1, <2>2, BackedSame
<1>13. CASE Forget \/ ManagerStarts \/ ManagerReady \/ UNCHANGED vars
  <2>1. /\ UNCHANGED <<asked, mgr, call, alive>>
        /\ manager # "down" => manager' # "down"
    BY <1>13 DEF Forget, R!Forget, ManagerStarts, ManagerReady, vars, driverVars, mgrVars,
                 lifeVars
  <2>. QED  BY <1>3, <2>1
<1>14. ASSUME NEW p \in Procs, (p \in Servers /\ Publish(p)) \/ (p \in Clients /\ Lookup(p))
       PROVE  Backed(q)'
  <2>1. UNCHANGED <<alive, manager, mgr>> /\ (CallManager(p, "ADD") \/ CallManager(p, "CHECK"))
    BY <1>14 DEF Publish, Lookup, lifeVars
  <2>. QED  BY <1>4, <2>1
<1>. QED
  BY <1>5, <1>6, <1>7, <1>8, <1>9, <1>10, <1>11, <1>12, <1>13, <1>14
  DEF Next, ServerSteps, ClientSteps, CallSteps, ManagerSteps, Exit, Procs
-----------------------------------------------------------------------------
(* The hello service that the callers see.                                 *)
(* A server that carries a call out gives its number to a caller that has  *)
(* none yet and was told nothing, unless that it had given up.             *)
LEMMA ServesOnce ==
  ASSUME Types, Core, NEW s \in Servers, At(s, "handler")
  PROVE  /\ serving[s] \in Clients
         /\ said[serving[s]] = 0 /\ ret[serving[s]] \in {Nothing, Zero}
<1>1. serving[s] \in Clients /\ Place(s, serving[s], 0)
  BY DEF At, Core, Fine, ServerPhase, Types, ProgTypes, Procs, Place
<1>2. Held(serving[s], s, 0)
  BY <1>1 DEF Core, Placed
<1>. QED  BY <1>1, <1>2 DEF Held, At

LEMMA CountGreets ==
  ASSUME Types, Core, NEW s \in Servers, NEW k \in Counters, At(s, "handler"),
         Count(s, k), UNCHANGED ret
  PROVE  S!Next
<1>. DEFINE c == serving[s]
<1>1. c \in Clients /\ said[c] = 0 /\ ret[c] \in {Nothing, Zero}
  BY ServesOnce
<1>2. <<s, k>> \in Servers \X Counters
  OBVIOUS
<1>3. S!Greet(c, <<s, k>>)
  BY <1>1 DEF S!Greet, Count, Nothing, Zero, S!Nothing, S!Zero
<1>. QED  BY <1>1, <1>2, <1>3 DEF S!Next

(* Whose call was answered is told its own number or the exception; whose  *)
(* call has no result, 0.                                                  *)
LEMMA DoneTells ==
  ASSUME Types, Core, NEW c \in Clients, HelloDone(c)
  PROVE  S!Next
<1>1. /\ c \in Procs /\ pc[c] = "done_hello" /\ io[c] \in IO /\ Fine(c)
      /\ UNCHANGED <<cnt, said>>
      /\ ret' = [ret EXCEPT ![c] = IF io[c].status # 0 THEN Exception ELSE io[c].num]
  BY DEF HelloDone, At, Types, ProgTypes, Procs, Core
<1>2. TrueAnswer(c, io[c]) /\ ret[c] = Nothing
  BY <1>1 DEF Fine, Line, Goods, Good, ClientPhase, Waiting, Dones
<1>3. CASE io[c].status = 0 /\ asks[c] = "SAYHELLO"
  <2>1. ret' = [ret EXCEPT ![c] = S!Zero]
    BY <1>1, <1>2, <1>3 DEF TrueAnswer, S!Zero
  <2>. QED  BY <1>1, <1>2, <2>1 DEF S!Next, S!Tell, Nothing, S!Nothing
<1>4. CASE ~(io[c].status = 0 /\ asks[c] = "SAYHELLO")
  <2>1. ret' = [ret EXCEPT ![c] = IF said[c] # 0 THEN said[c] ELSE S!Exception]
    BY <1>1, <1>2, <1>4 DEF TrueAnswer, Exception, S!Exception
  <2>. QED  BY <1>1, <1>2, <2>1 DEF S!Next, S!Answer, S!Tell, Nothing, S!Nothing
<1>. QED  BY <1>3, <1>4

(* Whose call failed is told 0.                                            *)
LEMMA GivingUpTells ==
  ASSUME Types, Core, NEW p \in Procs, ParseEnds(p) \/ ReadFails(p)
  PROVE  [S!Next]_S!vars
<1>1. UNCHANGED <<cnt, said>>
  BY DEF ParseEnds, ReadFails, GiveUp
<1>2. CASE pc[p] = "await_hello"
  <2>1. p \in Clients /\ ret[p] = Nothing
    BY <1>2 DEF Core, Fine, ClientPhase, Types, ProgTypes, PcTypes, ServerPCs, Procs
  <2>2. ret' = [ret EXCEPT ![p] = S!Zero]
    BY <1>2 DEF ParseEnds, ReadFails, GiveUp, Zero, S!Zero
  <2>. QED  BY <1>1, <2>1, <2>2 DEF S!Next, S!Tell, Nothing, S!Nothing
<1>3. CASE pc[p] # "await_hello"
  <2>1. UNCHANGED ret
    BY <1>3 DEF ParseEnds, ReadFails, GiveUp
  <2>. QED  BY <1>1, <2>1 DEF S!vars
<1>. QED  BY <1>2, <1>3

LEMMA StepImplements ==
  ASSUME Types, Core, [Next]_vars
  PROVE  [S!Next]_S!vars
<1>1. ASSUME NEW s \in Servers, sayhello(s) \/ sayhello_to(s)
      PROVE  S!Next
  <2>1. At(s, "handler") /\ UNCHANGED ret
    BY <1>1 DEF sayhello, sayhello_to, Handler
  <2>2. PICK k \in Counters : Count(s, k)
    BY <1>1 DEF sayhello, sayhello_to, Counters
  <2>. QED  BY <2>1, <2>2, CountGreets
<1>2. ASSUME UNCHANGED <<cnt, ret, said>>
      PROVE  UNCHANGED S!vars
  BY <1>2 DEF S!vars
<1>3. ASSUME NEW p \in Procs,
             Read(p) \/ Parse(p) \/ CallDone(p) \/ OpenFails(p) \/ Die(p)
      PROVE  UNCHANGED <<cnt, ret, said>>
  BY <1>3 DEF Read, Parse, CallDone, OpenFails, Die, helloVars
<1>4. ASSUME NEW p \in Procs,
             \/ Publish(p) \/ PublishDone(p) \/ Reject(p) \/ SendReply(p)
             \/ Lookup(p) \/ Acquire(p) \/ LookupDone(p) \/ Hello(p)
      PROVE  UNCHANGED <<cnt, ret, said>>
  BY <1>4 DEF Publish, PublishDone, Reject, Handler, SendReply, Lookup, Acquire, LookupDone,
              Hello, helloVars
<1>5. ASSUME ManagerSteps \/ ManagerStarts \/ ManagerDies \/ UNCHANGED vars
      PROVE  UNCHANGED <<cnt, ret, said>>
  BY <1>5 DEF ManagerSteps, ManagerStarts, ManagerDies, ManagerReady, CheckReply, Forget, Add,
              Check, vars, progVars, helloVars
<1>. QED
  BY <1>1, <1>2, <1>3, <1>4, <1>5, DoneTells, GivingUpTells
  DEF Next, ServerSteps, ClientSteps, CallSteps, Exit, Procs
-----------------------------------------------------------------------------
(* The numbers a server gives.                                             *)

(* A client calls the server whose handle it has, and it was given its     *)
(* number by that server.                                                  *)
Chosen == \A c \in Clients : call[c] \in Servers => call[c] = g_handle[c]

Numbered ==
  \A c \in Clients \cap alive :
    said[c] # 0 => g_handle[c] \in Servers /\ asks[c] \in Counters

Numbering == Chosen /\ Numbered /\ NumbersApart

LEMMA NumbersStay ==
  ASSUME Numbered, NumbersApart, UNCHANGED <<cnt, said>>, alive' \subseteq alive,
         \A c \in Clients \cap alive' :
           said[c] # 0 => g_handle'[c] = g_handle[c] /\ asks'[c] = asks[c]
  PROVE  Numbered' /\ NumbersApart'
<1>1. Numbered'
  BY DEF Numbered
<1>2. ASSUME NEW c \in Clients \cap alive', said[c] # 0
      PROVE  said[c] <= cnt[<<g_handle'[c], asks'[c]>>]
  BY <1>2 DEF NumbersApart
<1>3. ASSUME NEW c \in Clients \cap alive', said[c] # 0,
             NEW d \in (Clients \cap alive') \ {c},
             g_handle'[d] = g_handle'[c], asks'[d] = asks'[c]
      PROVE  said[d] # said[c]
  <2>1. CASE said[d] = 0
    BY <1>3, <2>1
  <2>2. CASE said[d] # 0
    BY <1>3, <2>2 DEF NumbersApart
  <2>. QED  BY <2>1, <2>2
<1>. QED  BY <1>1, <1>2, <1>3 DEF NumbersApart

LEMMA CountNumbers ==
  ASSUME Types, Core, Numbering, NEW s \in Servers, NEW k \in Counters, At(s, "handler"),
         asks[serving[s]] = k, Count(s, k), UNCHANGED <<alive, g_handle, asks>>
  PROVE  Numbered' /\ NumbersApart'
<1>. DEFINE b == serving[s]
            n == cnt[<<s, k>>]
<1>1. b \in Clients /\ n \in Nat /\ cnt \in [Servers \X Counters -> Nat]
  BY ServesOnce DEF Types, HelloTypes
<1>2. b \in alive => g_handle[b] = s
  <2>1. Place(s, b, 0)
    BY DEF Place
  <2>2. b \in alive => call[b] = s
    BY <1>1, <2>1 DEF Core, Placed, Held
  <2>. QED  BY <1>1, <2>2 DEF Numbering, Chosen
<1>3. /\ said'[b] = n + 1
      /\ \A c \in Clients : c # b => said'[c] = said[c]
      /\ \A c \in Clients : said[c] \in Nat
  BY <1>1 DEF Count, Types, HelloTypes
<1>4. \A u \in Servers, j \in Counters :
        /\ cnt[<<u, j>>] \in Nat
        /\ cnt'[<<u, j>>] = IF u = s /\ j = k THEN n + 1 ELSE cnt[<<u, j>>]
  <2>. SUFFICES ASSUME NEW u \in Servers, NEW j \in Counters
                PROVE  /\ cnt[<<u, j>>] \in Nat
                       /\ cnt'[<<u, j>>] = IF u = s /\ j = k THEN n + 1 ELSE cnt[<<u, j>>]
    OBVIOUS
  <2>1. <<u, j>> \in Servers \X Counters /\ (<<u, j>> = <<s, k>> <=> u = s /\ j = k)
    OBVIOUS
  <2>. QED  BY <1>1, <2>1 DEF Count
<1>5. Numbered'
  BY <1>1, <1>2, <1>3 DEF Numbering, Numbered
<1>6. \A c \in Clients \cap alive : c # b /\ said[c] # 0 =>
        /\ g_handle[c] \in Servers /\ asks[c] \in Counters
        /\ said[c] <= cnt[<<g_handle[c], asks[c]>>]
  BY DEF Numbering, Numbered, NumbersApart
<1>. HIDE DEF b, n
<1>7. ASSUME NEW c \in Clients \cap alive, said'[c] # 0
      PROVE  said'[c] <= cnt'[<<g_handle[c], asks[c]>>]
  <2>1. CASE c = b
    <3>1. asks[c] = k /\ g_handle[c] = s
      BY <1>2, <2>1 DEF b
    <3>2. cnt'[<<s, k>>] = n + 1
      BY <1>4
    <3>. QED  BY <1>1, <1>3, <2>1, <3>1, <3>2
  <2>2. CASE c # b
    <3>1. said'[c] = said[c]
      BY <1>3, <2>2
    <3>2. PICK u \in Servers, j \in Counters : u = g_handle[c] /\ j = asks[c]
      BY <1>6, <1>7, <2>2, <3>1
    <3>3. said[c] <= cnt[<<u, j>>]
      BY <1>6, <1>7, <2>2, <3>1, <3>2
    <3>4. cnt[<<u, j>>] \in Nat /\ cnt'[<<u, j>>] \in Nat /\ cnt[<<u, j>>] <= cnt'[<<u, j>>]
      <4>1. CASE u = s /\ j = k
        <5>1. cnt[<<u, j>>] = n
          BY <4>1 DEF n
        <5>. QED  BY <1>1, <1>4, <4>1, <5>1
      <4>2. CASE ~(u = s /\ j = k)
        BY <1>4, <4>2
      <4>. QED  BY <4>1, <4>2
    <3>5. said[c] \in Nat
      BY <1>3
    <3>6. said[c] <= cnt'[<<u, j>>]
      BY <3>3, <3>4, <3>5
    <3>. QED  BY <3>1, <3>2, <3>6
  <2>. QED  BY <2>1, <2>2
(* A number given before is behind the counter, the new one is not.        *)
<1>8. ASSUME NEW d \in Clients \cap alive, d # b, said[d] # 0, g_handle[d] = s, asks[d] = k
      PROVE  said[d] # n + 1
  <2>1. said[d] <= n
    BY <1>6, <1>8 DEF n
  <2>. QED  BY <1>1, <1>3, <2>1
<1>9. ASSUME NEW c \in Clients \cap alive, said'[c] # 0,
             NEW d \in (Clients \cap alive) \ {c}, g_handle[d] = g_handle[c], asks[d] = asks[c]
      PROVE  said'[d] # said'[c]
  <2>1. CASE c = b
    <3>1. /\ asks[d] = k /\ g_handle[d] = s /\ d # b
          /\ said'[c] = n + 1 /\ said'[d] = said[d]
      BY <1>2, <1>3, <1>9, <2>1 DEF b
    <3>2. n + 1 # 0
      BY <1>1
    <3>. QED  BY <1>8, <1>9, <3>1, <3>2
  <2>2. CASE d = b
    <3>1. /\ asks[c] = k /\ g_handle[c] = s /\ c # b
          /\ said'[d] = n + 1 /\ said'[c] = said[c]
      BY <1>2, <1>3, <1>9, <2>2 DEF b
    <3>. QED  BY <1>8, <1>9, <3>1
  <2>3. CASE c # b /\ d # b
    BY <1>3, <1>9, <2>3 DEF Numbering, NumbersApart
  <2>. QED  BY <2>1, <2>2, <2>3
<1>10. NumbersApart'
  BY <1>7, <1>9 DEF NumbersApart
<1>. QED  BY <1>5, <1>10

LEMMA ChosenKept ==
  ASSUME Types, Core, [Next]_vars, Chosen
  PROVE  Chosen'
<1>1. Manager \notin Servers /\ NoProc \notin Servers
  BY SystemAssumption DEF Procs
<1>2. ASSUME UNCHANGED g_handle, \A c \in Clients : call'[c] \in {call[c], Manager, NoProc}
      PROVE  Chosen'
  BY <1>1, <1>2 DEF Chosen
<1>3. ASSUME NEW p \in Procs,
             \/ Publish(p) \/ (p \in Clients /\ Lookup(p)) \/ PublishDone(p)
             \/ (p \in Clients /\ (LookupDone(p) \/ HelloDone(p)))
             \/ Read(p) \/ Parse(p) \/ CallDone(p) \/ ParseEnds(p)
             \/ OpenFails(p) \/ ReadFails(p)
             \/ sayhello(p) \/ sayhello_to(p) \/ Reject(p) \/ Add(p) \/ Check(p)
      PROVE  Chosen'
  <2>1. UNCHANGED g_handle
    BY <1>3 DEF Publish, Lookup, PublishDone, LookupDone, HelloDone, Read, Parse, CallDone,
                ParseEnds,
                GiveUp, OpenFails, ReadFails, sayhello, sayhello_to, Reject, Handler, Add,
                Check, progVars
  <2>2. call' = call \/ \E x \in {Manager, NoProc} : call' = [call EXCEPT ![p] = x]
    BY <1>3 DEF Publish, Lookup, CallManager, Refused, PublishDone, LookupDone, HelloDone, Read,
                Parse, CallDone, ParseEnds,
                GiveUp, OpenFails, ReadFails, sayhello, sayhello_to, Reject,
                Handler, Add, Refuse, Deliver, Check, driverVars
  <2>3. \A c \in Clients : call'[c] \in {call[c], Manager, NoProc}
    BY <2>2 DEF Types, DriverTypes, Procs
  <2>. QED  BY <1>2, <2>1, <2>3
<1>4. ASSUME NEW p \in Clients, Acquire(p)
      PROVE  Chosen'
  <2>1. /\ call' = call /\ call[p] = NoProc
        /\ \A c \in Clients : c # p => g_handle'[c] = g_handle[c]
    BY <1>4 DEF Acquire, At, Core, Fine, Line, Waiting, Types, ProgTypes, Procs
  <2>. QED  BY <1>1, <2>1 DEF Chosen
<1>5. ASSUME NEW p \in Clients, Hello(p)
      PROVE  Chosen'
  <2>1. call' = call \/ call' = [call EXCEPT ![p] = g_handle[p]]
    BY <1>5 DEF Hello, Refused
  <2>2. UNCHANGED g_handle /\ p \in Procs /\ call \in [Procs -> Servers \cup {Manager, NoProc}]
    BY <1>5 DEF Hello, Procs, Types, DriverTypes
  <2>3. call'[p] \in {call[p], g_handle[p]} /\ \A c \in Clients : c # p => call'[c] = call[c]
    BY <2>1, <2>2 DEF Procs
  <2>. QED  BY <2>2, <2>3 DEF Chosen
<1>6. CASE CheckReply \/ \E s \in Servers : SendReply(s)
  <2>1. UNCHANGED g_handle /\ \E x : call' = [call EXCEPT ![x] = NoProc]
    BY <1>6 DEF CheckReply, SendReply, Deliver, progVars
  <2>2. \A c \in Clients : call'[c] \in {call[c], Manager, NoProc}
    BY <2>1 DEF Types, DriverTypes, Procs
  <2>. QED  BY <1>2, <2>1, <2>2
<1>7. CASE \/ ManagerDies \/ Forget \/ ManagerStarts \/ ManagerReady \/ UNCHANGED vars
  <2>1. UNCHANGED g_handle
    BY <1>7 DEF ManagerDies, Forget, ManagerStarts, ManagerReady, vars, progVars
  <2>2. \A c \in Clients : call'[c] \in {call[c], Manager, NoProc}
    BY <1>7 DEF ManagerDies, Abandoned, Forget, ManagerStarts, ManagerReady, vars, driverVars, Procs
  <2>. QED  BY <1>2, <2>1, <2>2
<1>8. ASSUME NEW p \in Procs, Die(p)
      PROVE  Chosen'
  <2>1. \A c \in Clients : call'[c] = IF c = p \/ call[c] = p THEN NoProc ELSE call[c]
    BY <1>8 DEF Die, Abandoned, Procs
  <2>2. \A c \in Clients : c # p => g_handle'[c] = g_handle[c]
    BY <1>8 DEF Die, Types, ProgTypes
  <2>. QED  BY <1>1, <2>1, <2>2 DEF Chosen
<1>. QED
  BY <1>3, <1>4, <1>5, <1>6, <1>7, <1>8
  DEF Next, ServerSteps, ClientSteps, CallSteps, ManagerSteps, Exit, Procs

LEMMA NumbersKept ==
  ASSUME Types, Core, [Next]_vars, Numbering
  PROVE  Numbered' /\ NumbersApart'
<1>1. Numbered /\ NumbersApart
  BY DEF Numbering
<1>2. ASSUME NEW s \in Servers, sayhello(s)
      PROVE  Numbered' /\ NumbersApart'
  BY <1>2, CountNumbers DEF sayhello, Handler, Counters
<1>3. ASSUME NEW s \in Servers, sayhello_to(s)
      PROVE  Numbered' /\ NumbersApart'
  BY <1>3, CountNumbers DEF sayhello_to, Handler, Counters
<1>4. ASSUME NEW p \in Clients, Hello(p) \/ Acquire(p)
      PROVE  Numbered' /\ NumbersApart'
  <2>1. said[p] = 0
    BY <1>4 DEF Hello, Acquire, At, Core, Fine, ClientPhase, Procs
  <2>2. UNCHANGED <<cnt, said, alive>>
    BY <1>4 DEF Hello, Acquire, helloVars
  <2>3. \A c \in Clients : c # p => g_handle'[c] = g_handle[c] /\ asks'[c] = asks[c]
    BY <1>4 DEF Hello, Acquire, helloVars, Types, ProgTypes, HelloTypes
  <2>. QED  BY <1>1, <2>1, <2>2, <2>3, NumbersStay
<1>5. ASSUME NEW p \in Procs, Die(p)
      PROVE  Numbered' /\ NumbersApart'
  <2>1. UNCHANGED <<cnt, said, asks>> /\ alive' = alive \ {p}
    BY <1>5 DEF Die, R!Die, helloVars
  <2>2. \A c \in Clients : c # p => g_handle'[c] = g_handle[c]
    BY <1>5 DEF Die, Types, ProgTypes
  <2>. QED  BY <1>1, <2>1, <2>2, NumbersStay
<1>6. ASSUME NEW p \in Procs,
             \/ Publish(p) \/ (p \in Clients /\ Lookup(p)) \/ PublishDone(p)
             \/ (p \in Clients /\ (LookupDone(p) \/ HelloDone(p)))
             \/ Read(p) \/ Parse(p) \/ CallDone(p) \/ ParseEnds(p)
             \/ OpenFails(p) \/ ReadFails(p)
             \/ Reject(p) \/ SendReply(p) \/ Add(p) \/ Check(p)
      PROVE  Numbered' /\ NumbersApart'
  <2>1. UNCHANGED <<cnt, said, asks, g_handle, alive>>
    BY <1>6 DEF Publish, Lookup, PublishDone, LookupDone, HelloDone, Read, Parse, CallDone,
                ParseEnds,
                GiveUp, OpenFails, ReadFails, Reject, Handler, SendReply, Add, Refuse,
                R!Register, Check, R!Lookup, R!Answered, helloVars, progVars
  <2>. QED  BY <1>1, <2>1, NumbersStay
<1>7. CASE \/ CheckReply \/ ManagerDies \/ Forget \/ ManagerStarts \/ ManagerReady
           \/ UNCHANGED vars
  <2>1. UNCHANGED <<cnt, said, asks, g_handle, alive>>
    BY <1>7 DEF CheckReply, R!Answered, ManagerDies, Forget, R!Forget, ManagerStarts,
                ManagerReady, vars, helloVars, progVars
  <2>. QED  BY <1>1, <2>1, NumbersStay
<1>. QED
  BY <1>2, <1>3, <1>4, <1>5, <1>6, <1>7
  DEF Next, ServerSteps, ClientSteps, CallSteps, ManagerSteps, Exit, Procs
-----------------------------------------------------------------------------
(* Who is told 0.                                                          *)

(* A call fails by an error that is read or to be read; where the driver   *)
(* does not fail, the server that was called is gone then.                 *)
Failing(q) == \E m \in Members(q) : m.cmd \in {"FAILED", "DEAD"}

Failed(c) ==
  pc[c] = "await_hello" /\ (Failing(todo[c]) \/ Failing(readbuf[c]) \/ res[c] = -1)

ToldZero(c) == ret[c] = Zero /\ asks[c] # "SAYHELLO"

Excused(c) == c \in alive /\ (Failed(c) \/ ToldZero(c)) => g_handle[c] \notin alive

Excuses == ~Faults => \A c \in Clients : Excused(c)

LEMMA ExcusedSame ==
  ASSUME NEW c \in Clients, Excused(c), alive' \subseteq alive,
         pc'[c] = pc[c], readbuf'[c] = readbuf[c], res'[c] = res[c],
         g_handle'[c] = g_handle[c], ret'[c] = ret[c], asks'[c] = asks[c],
         pc[c] = "await_hello" /\ Failing(todo'[c]) => Failing(todo[c])
  PROVE  Excused(c)'
<1>1. Failed(c)' => Failed(c)
  BY DEF Failed
<1>2. ToldZero(c)' <=> ToldZero(c)
  BY DEF ToldZero
<1>. QED  BY <1>1, <1>2 DEF Excused

LEMMA FailingAdd ==
  ASSUME NEW q \in Seq(Command), NEW m \in Command
  PROVE  Failing(q \o <<m>>) <=> (Failing(q) \/ m.cmd \in {"FAILED", "DEAD"})
<1>1. Members(q \o <<m>>) = Members(q) \cup {m}
  BY MembersAdd
<1>. QED  BY <1>1 DEF Failing

LEMMA DeliverExcused ==
  ASSUME Types, NEW p \in Procs, NEW m \in Command, m.cmd = "REPLY", NEW freed,
         NEW done \in Procs \cup {NoProc}, done # p, Deliver(p, m, freed, done),
         UNCHANGED <<alive, readbuf, res, g_handle, ret, asks>>,
         NEW c \in Clients, c # done, pc'[c] = pc[c], Excused(c)
  PROVE  Excused(c)'
<1>1. c \in Procs /\ todo[c] \in Seq(Command)
  BY DEF Procs, Types, DriverTypes
<1>2. Got(c, p, m, freed, done)
  BY <1>1, Delivered
<1>3. todo'[c] = todo[c] \/ todo'[c] = todo[c] \o <<m>>
  BY <1>2 DEF Got
<1>4. Failing(todo'[c]) => Failing(todo[c])
  BY <1>1, <1>3, FailingAdd
<1>. QED  BY <1>4, ExcusedSame

(* The driver refuses a client's call to a dead server, and no other.      *)
LEMMA HelloExcused ==
  ASSUME Types, Core, ~Faults, NEW c \in Clients, Hello(c)
  PROVE  Excused(c)'
<1>1. /\ c \in Procs /\ pc[c] = "hello" /\ Fine(c)
      /\ UNCHANGED <<alive, readbuf, res, g_handle, ret>>
      /\ todo[c] \in Seq(Command)
  BY DEF Hello, At, Core, Procs, Types, DriverTypes
<1>2. /\ ref[c] = 1 /\ ret[c] = Nothing /\ res[c] = 1
      /\ Calm(todo[c]) /\ Calm(readbuf[c])
  BY <1>1 DEF Fine, Line, ClientPhase, Waiting
<1>3. ~Failing(todo[c]) /\ ~Failing(readbuf[c])
  BY <1>2 DEF Failing, Calm, Answers
<1>4. ~ToldZero(c)'
  BY <1>1, <1>2 DEF ToldZero, Nothing, Zero
<1>5. CASE g_handle[c] \notin alive
  BY <1>1, <1>5 DEF Excused
<1>6. CASE g_handle[c] \in alive
  <2>1. Queue(c, <<BR("COMPLETE")>>)
    BY <1>2, <1>6 DEF Hello
  <2>2. todo'[c] = todo[c] \o <<BR("COMPLETE")>>
    BY <1>1, <2>1 DEF Queue, Types, DriverTypes
  <2>3. BR("COMPLETE") \in Command /\ BR("COMPLETE").cmd = "COMPLETE"
    BY Commands
  <2>4. ~Failing(todo'[c])
    BY <1>1, <1>3, <2>2, <2>3, FailingAdd
  <2>5. ~Failed(c)'
    BY <1>1, <1>2, <1>3, <2>4 DEF Failed
  <2>. QED  BY <1>4, <2>5 DEF Excused
<1>. QED  BY <1>5, <1>6

LEMMA ReadExcused ==
  ASSUME Types, NEW c \in Clients, Read(c), Excused(c)
  PROVE  Excused(c)'
<1>1. /\ c \in Procs /\ readbuf[c] = <<>> /\ res[c] = 1
      /\ UNCHANGED <<alive, pc, res, g_handle, ret, asks>>
  BY DEF Read, helloVars, Procs
<1>2. ToldZero(c)' <=> ToldZero(c)
  BY <1>1 DEF ToldZero
<1>3. CASE todo[c] # <<>>
  <2>1. readbuf'[c] = todo[c] /\ todo'[c] = <<>>
    BY <1>1, <1>3 DEF Read, Types, ProgTypes, DriverTypes
  <2>2. ~Failing(<<>>)
    BY MembersNone DEF Failing
  <2>3. Failed(c)' => Failed(c)
    BY <1>1, <2>1, <2>2 DEF Failed
  <2>. QED  BY <1>1, <1>2, <2>3 DEF Excused
<1>4. CASE todo[c] = <<>>
  <2>1. pc[c] = "loop"
    BY <1>4 DEF Read
  <2>. QED  BY <1>1, <2>1 DEF Types, ProgTypes, PcTypes, ClientPCs
<1>. QED  BY <1>3, <1>4

LEMMA ParseExcused ==
  ASSUME Types, NEW c \in Clients, Parse(c), Excused(c)
  PROVE  Excused(c)'
<1>1. /\ c \in Procs /\ readbuf[c] \in Seq(Command) /\ readbuf[c] # <<>>
      /\ readbuf'[c] = Tail(readbuf[c])
      /\ res[c] \in {-1, 0, 1} /\ res'[c] = ResAfter(Head(readbuf[c]).cmd, res[c])
      /\ UNCHANGED <<todo, alive, g_handle, ret, asks>>
  BY DEF Parse, Types, ProgTypes, driverVars, helloVars, Procs
<1>2. PICK m \in Command : m = Head(readbuf[c]) /\ m \in Members(readbuf[c])
  BY <1>1, MembersTake
<1>3. pc[c] \in Waiting /\ (pc'[c] = "await_hello" => pc[c] = "await_hello")
  BY DEF Parse, Goto, Waiting, Types, ProgTypes, PcTypes, ClientPCs, Procs
<1>4. res'[c] = -1 => (m.cmd \in {"FAILED", "DEAD"} \/ res[c] = -1)
  <2>1. res'[c] = IF m.cmd = "REPLY" THEN 0
                  ELSE IF m.cmd \in {"FAILED", "DEAD"} THEN -1 ELSE res[c]
    BY <1>1, <1>2, Parsed
  <2>. QED  BY <2>1
<1>5. res'[c] = -1 => Failing(readbuf[c]) \/ res[c] = -1
  BY <1>2, <1>4 DEF Failing
<1>6. Failing(readbuf'[c]) => Failing(readbuf[c])
  BY <1>1, MembersTake DEF Failing
<1>7. Failed(c)' => Failed(c)
  BY <1>1, <1>3, <1>5, <1>6 DEF Failed
<1>8. ToldZero(c)' <=> ToldZero(c)
  BY <1>1 DEF ToldZero
<1>. QED  BY <1>1, <1>7, <1>8 DEF Excused

(* Who gives up at a call that failed is excused; an answer excuses nobody.*)
LEMMA EndExcused ==
  ASSUME Types, Core, ~Faults, NEW c \in Clients, Excused(c),
         \/ Lookup(c) \/ Acquire(c) \/ LookupDone(c) \/ HelloDone(c)
         \/ CallDone(c) \/ ParseEnds(c) \/ OpenFails(c) \/ ReadFails(c)
  PROVE  Excused(c)'
<1>1. c \in Procs /\ Fine(c) /\ pc[c] \in ClientPCs /\ pc \in [Procs -> PCs]
  BY DEF Procs, Core, Types, ProgTypes, PcTypes
<1>2. UNCHANGED alive /\ ~Failed(c)'
  BY <1>1
  DEF Lookup, Acquire, LookupDone, HelloDone, CallDone, ParseEnds, GiveUp, OpenFails,
      ReadFails, Goto, Failed, Waiting
<1>3. CASE Acquire(c)
  <2>1. UNCHANGED ret /\ ret[c] = Nothing
    BY <1>1, <1>3 DEF Acquire, At, helloVars, Fine, ClientPhase
  <2>. QED  BY <1>2, <2>1 DEF Excused, ToldZero, Nothing, Zero
<1>4. CASE HelloDone(c)
  <2>1. /\ pc[c] = "done_hello" /\ io[c] \in IO /\ UNCHANGED asks
        /\ ret'[c] = IF io[c].status # 0 THEN Exception ELSE io[c].num
    BY <1>1, <1>4 DEF HelloDone, At, Types, ProgTypes, HelloTypes
  <2>2. TrueAnswer(c, io[c])
    BY <1>1, <2>1 DEF Fine, Line, Goods, Good, Waiting, Dones
  <2>3. ~ToldZero(c)'
    BY <2>1, <2>2 DEF ToldZero, TrueAnswer, Exception, Zero
  <2>. QED  BY <1>2, <2>3 DEF Excused
<1>5. CASE ParseEnds(c)
  <2>1. UNCHANGED <<asks, g_handle>> /\ c \in alive
    BY <1>5 DEF ParseEnds, GiveUp
  <2>2. CASE pc[c] = "await_hello"
    <3>1. Failed(c)
      BY <1>5, <2>2 DEF ParseEnds, Waiting, Failed
    <3>. QED  BY <1>2, <2>1, <3>1 DEF Excused
  <2>3. CASE pc[c] # "await_hello"
    <3>1. UNCHANGED ret
      BY <1>5, <2>3 DEF ParseEnds, GiveUp
    <3>. QED  BY <1>2, <2>1, <3>1 DEF Excused, ToldZero
  <2>. QED  BY <2>2, <2>3
<1>6. CASE Lookup(c) \/ LookupDone(c) \/ CallDone(c)
  <2>1. UNCHANGED <<ret, asks, g_handle>>
    BY <1>6 DEF Lookup, LookupDone, CallDone, helloVars
  <2>. QED  BY <1>2, <2>1 DEF Excused, ToldZero
<1>7. ~OpenFails(c) /\ ~ReadFails(c)
  BY DEF OpenFails, ReadFails
<1>. QED  BY <1>3, <1>4, <1>5, <1>6, <1>7

LEMMA DeathExcused ==
  ASSUME Types, Core, Chosen, NEW p \in Procs, Die(p), NEW c \in Clients, Excused(c)
  PROVE  Excused(c)'
<1>1. c \in Procs /\ alive' = alive \ {p} /\ UNCHANGED <<ret, asks>>
  BY DEF Die, R!Die, helloVars, Procs
<1>2. CASE c = p
  BY <1>1, <1>2 DEF Excused
<1>3. CASE c # p
  <2>1. /\ pc'[c] = pc[c] /\ readbuf'[c] = readbuf[c] /\ res'[c] = res[c]
        /\ g_handle'[c] = g_handle[c]
        /\ todo'[c] = IF call[c] = p THEN Append(todo[c], BR("DEAD")) ELSE todo[c]
    BY <1>1, <1>3 DEF Die, Abandoned, Goto, Types, ProgTypes, PcTypes
  <2>2. CASE call[c] = p /\ pc[c] = "await_hello"
    <3>1. p \in Servers
      BY <1>1, <2>2, SystemAssumption DEF Types, DriverTypes, Procs
    <3>2. g_handle'[c] = p
      BY <2>1, <2>2, <3>1 DEF Chosen
    <3>. QED  BY <1>1, <3>2 DEF Excused
  <2>3. CASE ~(call[c] = p /\ pc[c] = "await_hello")
    BY <1>1, <2>1, <2>3, ExcusedSame
  <2>. QED  BY <2>2, <2>3
<1>. QED  BY <1>2, <1>3

LEMMA ExcusedKept ==
  ASSUME Types, Core, Chosen, ~Faults, [Next]_vars, NEW c \in Clients, Excused(c)
  PROVE  Excused(c)'
<1>1. c \in Procs /\ c \notin Servers
  BY SystemAssumption DEF Procs
<1>2. ASSUME NEW p \in Procs,
             \/ p \in Servers /\ (Publish(p) \/ PublishDone(p))
             \/ p \in Clients /\ (Lookup(p) \/ Acquire(p) \/ LookupDone(p))
             \/ p \in Clients /\ (Hello(p) \/ HelloDone(p))
             \/ Read(p) \/ Parse(p) \/ CallDone(p) \/ ParseEnds(p)
             \/ OpenFails(p) \/ ReadFails(p)
      PROVE  Excused(c)'
  <2>1. UNCHANGED alive
    BY <1>2 DEF Publish, PublishDone, Lookup, Acquire, LookupDone, Hello, HelloDone, Read, Parse,
                CallDone, ParseEnds, ReadFails, GiveUp, OpenFails
  <2>2. CASE c # p
    BY <1>1, <1>2, <2>1, <2>2, StepsAlone, ExcusedSame DEF Alone, Same
  <2>3. CASE c = p
    BY <1>1, <1>2, <2>3, HelloExcused, ReadExcused, ParseExcused, EndExcused
  <2>. QED  BY <2>2, <2>3
<1>3. ASSUME NEW s \in Servers, sayhello(s) \/ sayhello_to(s) \/ Reject(s)
      PROVE  Excused(c)'
  <2>1. /\ UNCHANGED <<alive, readbuf, res, g_handle, ret, asks, todo>> /\ Goto(s, "reply")
    BY <1>3 DEF sayhello, sayhello_to, Reject, Handler, driverVars
  <2>2. pc'[c] = pc[c]
    BY <1>1, <2>1 DEF Goto, Types, ProgTypes, PcTypes
  <2>. QED  BY <2>1, <2>2, ExcusedSame
<1>4. ASSUME NEW s \in Servers, SendReply(s)
      PROVE  Excused(c)'
  <2>1. /\ serving[s] \in Procs /\ s \in Procs /\ s # serving[s]
        /\ UNCHANGED <<alive, readbuf, res, g_handle, ret, asks>> /\ Goto(s, "loop")
    BY <1>4, SystemAssumption
    DEF SendReply, At, Core, Fine, ServerPhase, Types, ProgTypes, Procs, helloVars
  <2>2. PICK m \in Command : /\ m = Reply(reply[s].status, reply[s].num, NoProc)
                             /\ m.cmd = "REPLY"
    <3>1. reply[s].status \in {0, -1} /\ reply[s].num \in Nat
      BY DEF Types, HelloTypes
    <3>. QED  BY <3>1, Commands
  <2>3. pc'[c] = pc[c] /\ c # s
    BY <1>1, <2>1 DEF Goto, Types, ProgTypes, PcTypes
  <2>4. Deliver(serving[s], m, {serving[s]}, s)
    BY <1>4, <2>2 DEF SendReply
  <2>. QED  BY <2>1, <2>2, <2>3, <2>4, DeliverExcused
<1>5. ASSUME NEW p \in Procs, Add(p)
      PROVE  Excused(c)'
  <2>1. PICK st \in {0, -1} : Deliver(p, StatusReply(st), {}, NoProc)
    BY <1>5 DEF Add, Refuse
  <2>2. StatusReply(st) \in Command /\ StatusReply(st).cmd = "REPLY"
    BY Commands DEF StatusReply
  <2>3. UNCHANGED <<alive, readbuf, res, pc, g_handle, ret, asks>> /\ NoProc \notin Procs
    BY <1>5, SystemAssumption DEF Add, Refuse, R!Register, progVars, helloVars, Procs
  <2>. QED  BY <1>1, <2>1, <2>2, <2>3, DeliverExcused
<1>6. CASE CheckReply
  <2>1. /\ mgr \in Procs /\ Deliver(mgr, Reply(0, 0, given), {}, NoProc)
        /\ UNCHANGED <<alive, readbuf, res, pc, g_handle, ret, asks>> /\ NoProc \notin Procs
    BY <1>6, SystemAssumption
    DEF CheckReply, R!Answered, Types, MgrTypes, Procs, progVars, helloVars
  <2>2. Reply(0, 0, given) \in Command /\ Reply(0, 0, given).cmd = "REPLY"
    BY Commands DEF Types, MgrTypes
  <2>. QED  BY <1>1, <2>1, <2>2, DeliverExcused
<1>7. CASE ManagerDies
  <2>1. /\ UNCHANGED <<alive, progVars>>
        /\ todo'[c] = IF call[c] = Manager THEN Append(todo[c], BR("DEAD")) ELSE todo[c]
    BY <1>1, <1>7 DEF ManagerDies, Abandoned
  <2>2. pc[c] = "await_hello" => call[c] # Manager
    BY <1>1 DEF Core, Fine, Phase
  <2>. QED  BY <2>1, <2>2, ExcusedSame DEF progVars, helloVars
<1>8. CASE \/ Forget \/ ManagerStarts \/ ManagerReady \/ UNCHANGED vars
           \/ \E p \in Procs : Check(p)
  <2>1. UNCHANGED <<alive, progVars, todo>>
    BY <1>8 DEF Forget, R!Forget, ManagerStarts, ManagerReady, Check, R!Lookup, R!Answered,
                vars, driverVars
  <2>. QED  BY <2>1, ExcusedSame DEF progVars, helloVars
<1>9. ASSUME NEW p \in Procs, Die(p)
      PROVE  Excused(c)'
  BY <1>9, DeathExcused
<1>. QED
  BY <1>2, <1>3, <1>4, <1>5, <1>6, <1>7, <1>8, <1>9
  DEF Next, ServerSteps, ClientSteps, CallSteps, ManagerSteps, Exit, Procs
-----------------------------------------------------------------------------
(* The theorems.                                                           *)

LEMMA InitTypes == Init => Types
<1>1. <<>> \in Seq(Command) /\ <<>> \in Seq(Clients)
  OBVIOUS
<1>. QED
  BY <1>1, NoIOType, SystemAssumption
  DEF Init, R!Init, Types, ProgTypes, PcTypes, HelloTypes, MgrTypes, DriverTypes, PCs, ServerPCs,
      ClientPCs, Procs

LEMMA InitCore == Init => Core
<1>. SUFFICES ASSUME Init
              PROVE  Core
  OBVIOUS
<1>1. \A p \in Procs :
        /\ todo[p] = <<>> /\ readbuf[p] = <<>> /\ res[p] = 1 /\ call[p] = NoProc
        /\ io[p] = NoIO /\ p \in alive /\ pc[p] \in {"publish", "lookup"}
        /\ asked[p] = "none"
  BY DEF Init, R!Init
<1>2. ASSUME NEW p \in Procs
      PROVE  Fine(p)
  <2>1. Line(p) /\ Phase(p) /\ Goods(p)
    BY <1>1, LastNone, MembersNone, NoIOType
    DEF Line, Phase, Goods, AllGood, Waiting, Dones
  <2>2. p \in Servers => ServerPhase(p)
    BY <1>1 DEF Init, ServerPhase
  <2>3. p \in Clients => ClientPhase(p)
    BY <1>1 DEF Init, ClientPhase
  <2>. QED  BY <2>1, <2>2, <2>3 DEF Fine
<1>3. Asked
  BY <1>1, SystemAssumption DEF Init, R!Init, Asked
<1>4. ASSUME NEW c \in Clients, NEW s \in Servers, NEW k \in Nat
      PROVE  ~Place(s, c, k)
  <2>1. ~(k - 1 \in 1..Len(<<>>))
    OBVIOUS
  <2>. QED  BY <1>1, <2>1, SystemAssumption DEF Init, Place, Procs
<1>. QED  BY <1>2, <1>3, <1>4 DEF Core, Unique, Placed

LEMMA CoreInvariant == Spec => [](Types /\ Core)
<1>1. Init => Types /\ Core
  BY InitTypes, InitCore
<1>2. Types /\ Core /\ [Next]_vars => (Types /\ Core)'
  <2>. SUFFICES ASSUME Types, Core, [Next]_vars
                PROVE  Types' /\ Core'
    OBVIOUS
  <2>1. Types'
    BY TypesKept
  <2>2. Core'
    BY <2>1, FineKept, AskedKept, PlacesKept DEF Core
  <2>. QED  BY <2>1, <2>2
<1>. QED  BY <1>1, <1>2, PTL DEF Spec

LEMMA BuffersInvariant == Spec => [](Types /\ Core /\ Buffers)
<1>1. Init => Types /\ Core /\ Buffers
  BY InitTypes, InitCore, InitBuffers
<1>2. Types /\ Core /\ Buffers /\ [Next]_vars => Buffers'
  <2>. SUFFICES ASSUME Types, Core, Buffers, [Next]_vars, NEW q \in Procs
                PROVE  ReplyBuf(q)' /\ RequestBufs(q)'
    BY DEF Buffers
  <2>. QED  BY ReplyBufKept, RequestBufsKept DEF Buffers
<1>. QED  BY <1>1, <1>2, CoreInvariant, PTL DEF Spec

(* Every variable keeps its type; in particular the driver never counts    *)
(* more than two references of a client on its server, nor fewer than none.*)
THEOREM TypeCorrect == Spec => []TypeOK
<1>1. Types /\ Core => TypeOK
  <2>. SUFFICES ASSUME Types, Core
                PROVE  TypeOK
    OBVIOUS
  <2>1. \A c \in Clients : ref[c] \in 0..2
    BY DEF Core, Fine, ClientPhase, Procs
  <2>2. ref \in [Clients -> 0..2]
    BY <2>1 DEF Types, DriverTypes
  <2>. QED
    BY <2>2 DEF TypeOK, Types, ProgTypes, PcTypes, HelloTypes, MgrTypes, DriverTypes
<1>. QED  BY <1>1, CoreInvariant, PTL

(* A client never uses a handle it does not hold, however the lookups, the *)
(* deaths and the service manager's restarts interleave.                   *)
THEOREM HandlesHeld == Spec => []HandleHeld
<1>1. Types /\ Core => HandleHeld
  BY DEF Core, Fine, ClientPhase, HandleHeld, Procs
<1>. QED  BY <1>1, CoreInvariant, PTL

(* A server serves only if its registration was accepted.                  *)
THEOREM RegistrationsTruthful == Spec => []PublishTruthful
<1>1. Types /\ Core => PublishTruthful
  BY DEF Core, Fine, ServerPhase, PublishTruthful, Procs
<1>. QED  BY <1>1, CoreInvariant, PTL

(* No caller can end the loop of a server.                                 *)
THEOREM LoopsGoOn == Spec => []LoopGoesOn
<1>1. Types /\ Core => LoopGoesOn
  BY DEF Core, Fine, Line, Waiting, LoopGoesOn, Procs
<1>. QED  BY <1>1, CoreInvariant, PTL

(* Every buffer is given back, once: a process has the buffers of exactly  *)
(* the requests it has still to answer and of the reply it has still to be *)
(* done with.                                                              *)
THEOREM BuffersGoBack == Spec => []BuffersReturned
<1>1. Types /\ Buffers => BuffersReturned
  <2>. SUFFICES ASSUME Types, Buffers, NEW p \in Procs, Active(p)
                PROVE  (Queued(p) # {}) <=> (HasReply(todo[p]) \/ HasReply(readbuf[p]))
    BY DEF BuffersReturned, Buffers, ReplyBuf, RequestBufs, Active
  <2>1. /\ todo[p] \o readbuf[p] \in Seq(Command)
        /\ Members(todo[p] \o readbuf[p]) = Members(todo[p]) \cup Members(readbuf[p])
    BY MembersJoin DEF Types, ProgTypes, DriverTypes
  <2>2. (Queued(p) # {}) <=> HasReply(todo[p] \o readbuf[p])
    BY DEF Queued, HasReply, Members
  <2>. QED  BY <2>1, <2>2 DEF HasReply
<1>. QED  BY <1>1, BuffersInvariant, PTL

(* Nobody is stranded: who waits in binder_call with nothing left to read  *)
(* has its call with a service manager that is up and has it, or with a    *)
(* live server that still holds the request.  Servers wait only for the    *)
(* service manager, so that nobody waits in a circle.                      *)
THEOREM NoneStranded == Spec => []NobodyStranded
<1>1. Init => Backing
  <2>. SUFFICES ASSUME Init, NEW p \in Procs
                PROVE  Owed(p) /\ Backed(p)
    BY DEF Backing
  <2>1. call[p] = NoProc /\ pc[p] \notin Waiting
    BY DEF Init, Waiting
  <2>. QED  BY <2>1, SystemAssumption DEF Owed, Backed, Procs
<1>2. Types /\ Core /\ Buffers /\ Backing /\ [Next]_vars => Backing'
  <2>. SUFFICES ASSUME Types, Core, Buffers, Backing, [Next]_vars, NEW q \in Procs
                PROVE  Owed(q)' /\ Backed(q)'
    BY DEF Backing
  <2>. QED  BY OwedKept, BackedKept DEF Backing
<1>3. Types /\ Backing => NobodyStranded
  <2>. SUFFICES ASSUME Types, Backing, NEW p \in Procs, p \in alive, pc[p] \in Waiting,
                       todo[p] \o readbuf[p] = <<>>, res[p] = 1
                PROVE  \/ /\ call[p] = Manager /\ manager # "down"
                          /\ asked[p] # "none" \/ mgr = p
                       \/ /\ p \in Clients /\ call[p] \in Servers \cap alive
                          /\ p \in InHand(call[p])
    BY DEF NobodyStranded
  <2>1. todo[p] = <<>> /\ readbuf[p] = <<>>
    BY DEF Types, ProgTypes, DriverTypes
  <2>2. call[p] # NoProc
    BY <2>1, LastNone DEF Backing, Owed
  <2>3. call[p] \in Servers \cup {Manager}
    BY <2>2 DEF Types, DriverTypes
  <2>. QED  BY <2>3 DEF Backing, Backed
<1>. QED  BY <1>1, <1>2, <1>3, BuffersInvariant, PTL DEF Spec

LEMMA NumberingInvariant == Spec => []Numbering
<1>1. Init => Numbering
  <2>. SUFFICES ASSUME Init
                PROVE  Numbering
    OBVIOUS
  <2>1. \A c \in Clients : said[c] = 0 /\ call[c] = NoProc /\ NoProc \notin Servers
    BY SystemAssumption DEF Init, Procs
  <2>. QED  BY <2>1 DEF Numbering, Chosen, Numbered, NumbersApart
<1>2. Types /\ Core /\ Numbering /\ [Next]_vars => Numbering'
  BY ChosenKept, NumbersKept DEF Numbering
<1>. QED  BY <1>1, <1>2, CoreInvariant, PTL DEF Spec

(* The numbers one server gives for one function are all different, and    *)
(* none is ahead of its counter, whoever dies, fails or comes back.        *)
THEOREM NumbersDiffer == Spec => []NumbersApart
<1>1. Numbering => NumbersApart
  BY DEF Numbering
<1>. QED  BY <1>1, NumberingInvariant, PTL

(* Where the driver fails no call, sayhello_to returns 0 only to a caller  *)
(* whose server has died: every other caller gets a number, or the         *)
(* exception.                                                              *)
THEOREM ZerosMeanFailed == Spec => []ZeroMeansFailed
<1>1. Init => Excuses
  BY DEF Init, Excuses, Excused, Failed, ToldZero, Nothing, Zero, Procs
<1>2. Types /\ Core /\ Numbering /\ Excuses /\ [Next]_vars => Excuses'
  BY ExcusedKept DEF Excuses, Numbering
<1>3. Excuses => ZeroMeansFailed
  BY DEF Excuses, Excused, ToldZero, ZeroMeansFailed
<1>. QED  BY <1>1, <1>2, <1>3, CoreInvariant, NumberingInvariant, PTL DEF Spec

(* The servers, their clients and the binder calls between them implement  *)
(* the hello service: no call is carried out twice, and no caller gets the *)
(* answer to another's call, or a number for a call that failed.           *)
THEOREM HelloImplemented == Spec => ImplementsHello
<1>1. Init => S!Init
  BY DEF Init, S!Init, Nothing, S!Nothing
<1>2. Types /\ Core /\ [Next]_vars => [S!Next]_S!vars
  BY StepImplements
<1>. QED  BY <1>1, <1>2, CoreInvariant, PTL DEF Spec, ImplementsHello
=============================================================================
