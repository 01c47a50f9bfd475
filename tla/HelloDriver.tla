----------------------------- MODULE HelloDriver -----------------------------
(***************************************************************************)
(* The hello driver (Demos/HelloDriver/hello_drv.c) and the programs that  *)
(* use it (hello_drv_test.c).  The module is loaded and unloaded, each of  *)
(* its registrations may fail, and any number of processes write a string  *)
(* to its one buffer or print what they read there.  The driver has no     *)
(* lock: the copies of two calls mix byte by byte.                         *)
(*                                                                         *)
(* A user writes a string of its own letter, so a byte of the buffer is    *)
(* the user who wrote it, or Nul.                                          *)
(***************************************************************************)
EXTENDS Integers, Sequences

CONSTANTS
  Users,     \* runs of hello_drv_test
  Nul,       \* '\0'
  Mixed,
  BufSize,   \* 1024, of kernel_buf and of the program's buf
  Lens,      \* lengths of the strings to write
  MaxLoads   \* bound on the times the module is loaded

ASSUME DriverAssumption ==
  /\ Nul \notin Users /\ Mixed \notin Users \cup {Nul} /\ BufSize \in Nat \ {0}
  /\ Lens \subseteq Nat /\ MaxLoads \in Nat

READ == -1   \* the argument -r

VARIABLES
  loads,        \* how often the module was loaded
  loaded,       \* whether hello_init returned 0
  chrdev,       \* what is registered: the character device,
  class,        \* the class,
  node,         \* and /dev/hello, by the major it leads to
  major,        \* 1, or -1 for an error of register_chrdev
  kernel_buf,
  argv,         \* the length of a user's string, or READ
  pc,           \* where a user is in main
  k,            \* how many bytes the call of a user has copied
  buf,          \* what a reader has copied
  printed,      \* what a reader has printed
  alone,        \* history: no other call was in the way of this user's call,
  last          \* and who wrote last, Nul for nobody, Mixed for several

modVars == <<loads, loaded, chrdev, class, node, major>>
userVars == <<argv, pc, k, buf, printed>>
history == <<alone, last>>
vars == <<modVars, kernel_buf, userVars, history>>

NoNode == 0
Bytes == 1..BufSize
Zeros == [i \in Bytes |-> Nul]

TypeOK ==
  /\ loads \in Nat /\ loaded \in BOOLEAN
  /\ chrdev \in BOOLEAN /\ class \in BOOLEAN
  /\ node \in {NoNode, -1, 1} /\ major \in {0, -1, 1}
  /\ kernel_buf \in [Bytes -> Users \cup {Nul}]
  /\ argv \in [Users -> Lens \cup {READ}]
  /\ pc \in [Users -> {"start", "open", "call", "close", "done"}]
  /\ k \in [Users -> 0..BufSize]
  /\ buf \in [Users -> [Bytes -> Users \cup {Nul}]]
  /\ printed \in [Users -> Seq(Users)]
  /\ alone \in [Users -> BOOLEAN] /\ last \in Users \cup {Nul, Mixed}

Init ==
  /\ loads = 0 /\ loaded = FALSE /\ chrdev = FALSE /\ class = FALSE
  /\ node = NoNode /\ major = 0 /\ kernel_buf = Zeros
  /\ argv \in [Users -> Lens \cup {READ}]
  /\ pc = [u \in Users |-> "start"]
  /\ k = [u \in Users |-> 0]
  /\ buf = [u \in Users |-> Zeros]
  /\ printed = [u \in Users |-> <<>>]
  /\ alone = [u \in Users |-> FALSE] /\ last = Nul
-----------------------------------------------------------------------------
(* Loading and unloading.  Nobody can open the device before its node is   *)
(* there, nor while the module is unloaded, so each is one step.           *)

(* A mutant: a failed class_create leaves the device registered.           *)
hello_init_keeps ==
  /\ ~loaded /\ loads < MaxLoads /\ loads' = loads + 1
  /\ \E registered, created, added \in BOOLEAN :
       /\ major' = IF registered THEN 1 ELSE -1
       /\ chrdev' = (chrdev \/ registered)
       /\ class' = created /\ loaded' = created
       /\ node' = IF created /\ added THEN major' ELSE NoNode
  /\ kernel_buf' = Zeros /\ last' = Nul
  /\ UNCHANGED <<userVars, alone>>

(* hello_init: register_chrdev and device_create may fail unnoticed; when  *)
(* class_create fails the device is unregistered and the module not        *)
(* loaded.                                                                 *)
hello_init ==
  /\ ~loaded /\ loads < MaxLoads /\ loads' = loads + 1
  /\ \E registered, created, added \in BOOLEAN :
       /\ major' = IF registered THEN 1 ELSE -1
       /\ chrdev' = (registered /\ created)
       /\ class' = created /\ loaded' = created
       /\ node' = IF created /\ added THEN major' ELSE NoNode
  /\ kernel_buf' = Zeros /\ last' = Nul
  /\ UNCHANGED <<userVars, alone>>

Open(u) == pc[u] \in {"open", "call", "close"}

(* hello_exit; an open file keeps the module loaded.  unregister_chrdev    *)
(* finds nothing under a negative major.                                   *)
hello_exit ==
  /\ loaded /\ \A u \in Users : ~Open(u)
  /\ loaded' = FALSE
  /\ node' = IF node = major THEN NoNode ELSE node
  /\ class' = FALSE
  /\ chrdev' = (chrdev /\ major # 1)
  /\ UNCHANGED <<loads, major, kernel_buf, userVars, history>>
-----------------------------------------------------------------------------
(* hello_drv_test.                                                         *)

Goto(u, l) == pc' = [pc EXCEPT ![u] = l]

(* What opening /dev/hello takes.                                          *)
Reachable == node = 1 /\ chrdev

(* open and hello_drv_open.                                                *)
open(u) ==
  /\ pc[u] = "start"
  /\ Goto(u, IF Reachable THEN "open" ELSE "done")
  /\ UNCHANGED <<modVars, kernel_buf, argv, k, buf, printed, history>>

Writer(u) == argv[u] # READ

(* read or write is called; two calls are in each other's way if one of    *)
(* them writes.                                                            *)
call(u) ==
  /\ pc[u] = "open" /\ Goto(u, "call")
  /\ LET others == {v \in Users : pc[v] = "call" /\ (Writer(u) \/ Writer(v))}
     IN  alone' = [v \in Users |-> IF v = u THEN others = {}
                                   ELSE alone[v] /\ v \notin others]
  /\ UNCHANGED <<modVars, kernel_buf, argv, k, buf, printed, last>>

Least(a, b) == IF a < b THEN a ELSE b

LenNoNul(n) == Least(n, BufSize)   \* a mutant: the terminator is left out

(* How many bytes the program writes for a string of length n.             *)
WriteLen(n) == Least(n + 1, BufSize)

(* How many bytes a call copies: MIN(1024, size).                          *)
Count(u) == IF argv[u] = READ THEN BufSize ELSE Least(BufSize, WriteLen(argv[u]))

(* copy_from_user in hello_drv_write, the next byte.                       *)
hello_drv_write(u) ==
  /\ pc[u] = "call" /\ Writer(u) /\ k[u] < Count(u)
  /\ LET i == k[u] + 1
     IN  kernel_buf' = [kernel_buf EXCEPT ![i] = IF i <= argv[u] THEN u ELSE Nul]
  /\ k' = [k EXCEPT ![u] = @ + 1]
  /\ UNCHANGED <<modVars, argv, pc, buf, printed, history>>

(* copy_to_user in hello_drv_read, the next byte.                          *)
hello_drv_read(u) ==
  /\ pc[u] = "call" /\ ~Writer(u) /\ k[u] < Count(u)
  /\ LET i == k[u] + 1
     IN  buf' = [buf EXCEPT ![u][i] = kernel_buf[i]]
  /\ k' = [k EXCEPT ![u] = @ + 1]
  /\ UNCHANGED <<modVars, kernel_buf, argv, pc, printed, history>>

(* The call returns.                                                       *)
return(u) ==
  /\ pc[u] = "call" /\ k[u] = Count(u) /\ Goto(u, "close")
  /\ last' = IF ~Writer(u) THEN last ELSE IF alone[u] THEN u ELSE Mixed
  /\ UNCHANGED <<modVars, kernel_buf, argv, k, buf, printed, alone>>

TextAll(b) == b   \* a mutant: printed by its size, not as a string

(* What printf prints of a buffer: all before the first Nul.               *)
Text(b) ==
  LET n == CHOOSE n \in 0..BufSize :
             /\ \A i \in 1..n : b[i] # Nul
             /\ n < BufSize => b[n + 1] = Nul
  IN  [i \in 1..n |-> b[i]]

NotTerminated(b) == b   \* a mutant: buf[1023] is left as it was read

(* buf[1023] = '\0'.                                                       *)
Terminated(b) == [b EXCEPT ![BufSize] = Nul]

(* A reader prints; the program closes the device (hello_drv_close).       *)
close(u) ==
  /\ pc[u] = "close" /\ Goto(u, "done")
  /\ printed' = IF ~Writer(u)
                THEN [printed EXCEPT ![u] = Text(Terminated(buf[u]))]
                ELSE printed
  /\ UNCHANGED <<modVars, kernel_buf, argv, k, buf, history>>
-----------------------------------------------------------------------------
test(u) ==
  \/ open(u) \/ call(u) \/ hello_drv_write(u) \/ hello_drv_read(u)
  \/ return(u) \/ close(u)

Next == hello_init \/ hello_exit \/ \E u \in Users : test(u)

Spec == Init /\ [][Next]_vars
-----------------------------------------------------------------------------
(* Properties.                                                             *)

(* An unloaded module leaves nothing registered, whichever registration    *)
(* failed: hello_exit undoes what a hello_init that overlooked a failure   *)
(* did, and hello_init what it did itself.                                 *)
NothingLeft == ~loaded => ~chrdev /\ ~class /\ node = NoNode

(* Who reads while nobody writes gets the string of the last writer, cut   *)
(* to fit, if nobody wrote at the same time: also a shorter string that    *)
(* does not cover the one before it, and the empty one after loading.      *)
Written(n) == Least(n, BufSize - 1)

ReadsLastWrite ==
  \A u \in Users :
    /\ pc[u] = "call" /\ ~Writer(u) /\ k[u] = Count(u) /\ alone[u]
    /\ last # Mixed
    => Text(Terminated(buf[u])) =
         IF last = Nul THEN <<>> ELSE [i \in 1..Written(argv[last]) |-> last]

(* However the copies mix, what a reader prints ends within its buffer,    *)
(* and each character stood at that place in the string of its writer.     *)
CharsWritten ==
  \A u \in Users :
    /\ Len(printed[u]) < BufSize
    /\ \A i \in 1..Len(printed[u]) :
         printed[u][i] \in Users /\ i <= argv[printed[u][i]]

(* A module that is loaded can be used through /dev/hello: the comment at  *)
(* the end of hello_init (line 82).                                        *)
LoadedReachable == loaded => Reachable
=============================================================================
