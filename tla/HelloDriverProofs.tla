-------------------------- MODULE HelloDriverProofs --------------------------
(***************************************************************************)
(* Proofs about HelloDriver: for any number of users, any strings and any  *)
(* size of the buffer, what readers print was written at that place, and   *)
(* an unloaded module leaves nothing behind.                               *)
(***************************************************************************)
EXTENDS HelloDriver, WellFoundedInduction, TLAPS

(* What a buffer of the driver or of a reader may hold: characters at a    *)
(* place within the string of their writer.                                *)
Stems(b) == \A i \in Bytes : b[i] # Nul => i <= argv[b[i]]

(* What is registered is registered by the module that is loaded, under    *)
(* its major.                                                              *)
Registration ==
  /\ chrdev => loaded /\ major = 1
  /\ class => loaded
  /\ node # NoNode => loaded /\ node = major

Inv ==
  /\ TypeOK /\ Registration
  /\ Stems(kernel_buf) /\ \A u \in Users : Stems(buf[u])
  /\ CharsWritten

(* A buffer that ends in Nul has a first Nul, and printf stops there.      *)
LEMMA TextStops ==
  ASSUME NEW b \in [Bytes -> Users \cup {Nul}], b[BufSize] = Nul
  PROVE  /\ Text(b) \in Seq(Users)
         /\ Len(Text(b)) < BufSize
         /\ \A i \in 1..Len(Text(b)) : i \in Bytes /\ Text(b)[i] = b[i]
  <1> DEFINE N == {n \in Nat : n < BufSize /\ b[n + 1] = Nul}
             Stop(n) == /\ \A i \in 1..n : b[i] # Nul
                        /\ n < BufSize => b[n + 1] = Nul
             n0 == CHOOSE n \in 0..BufSize : Stop(n)
  <1>1. BufSize - 1 \in N
    BY DriverAssumption
  <1>2. PICK m \in N : \A n \in N : m <= n
    <2>1. PICK m \in N : \A n \in N : ~ <<n, m>> \in OpToRel(<, Nat)
      BY <1>1, NatLessThanWellFounded, WFMin
    <2>2. \A n \in N : ~ n < m
      BY <2>1 DEF OpToRel
    <2> QED
      BY <2>2
  <1>3. m \in 0..BufSize /\ Stop(m)
    <2>1. ASSUME NEW i \in 1..m PROVE b[i] # Nul
      <3>1. i - 1 \in Nat /\ i - 1 < m /\ i - 1 < BufSize /\ (i - 1) + 1 = i
        BY DriverAssumption
      <3> QED
        BY <1>2, <3>1
    <2> QED
      BY <2>1, DriverAssumption
  <1> HIDE DEF Stop
  <1>4. n0 \in 0..BufSize /\ Stop(n0)
    BY <1>3
  <1> HIDE DEF n0
  <1>5. n0 < BufSize
    BY <1>4, DriverAssumption DEF Stop
  <1>6. Text(b) = [i \in 1..n0 |-> b[i]]
    BY DEF Text, n0, Stop
  <1>7. \A i \in 1..n0 : i \in Bytes /\ b[i] \in Users
    BY <1>4, <1>5, DriverAssumption DEF Stop, Bytes
  <1> QED
    BY <1>4, <1>5, <1>6, <1>7

(* What the program reads ends in Nul before it is printed.                *)
LEMMA PrintedStems ==
  ASSUME Inv, NEW u \in Users
  PROVE  /\ Text(Terminated(buf[u])) \in Seq(Users)
         /\ Len(Text(Terminated(buf[u]))) < BufSize
         /\ \A i \in 1..Len(Text(Terminated(buf[u]))) :
              LET c == Text(Terminated(buf[u]))[i]
              IN  c \in Users /\ i <= argv[c]
  <1> DEFINE b == Terminated(buf[u])
  <1>1. b \in [Bytes -> Users \cup {Nul}] /\ b[BufSize] = Nul
    BY DriverAssumption DEF Inv, TypeOK, Terminated, Bytes
  <1>2. Stems(b)
    BY DEF Inv, TypeOK, Stems, Terminated, Bytes
  <1> HIDE DEF b
  <1>3. /\ Text(b) \in Seq(Users)
        /\ Len(Text(b)) < BufSize
        /\ \A i \in 1..Len(Text(b)) : i \in Bytes /\ Text(b)[i] = b[i]
    BY <1>1, TextStops
  <1>4. \A i \in 1..Len(Text(b)) : Text(b)[i] \in Users /\ i <= argv[Text(b)[i]]
    BY <1>2, <1>3, DriverAssumption DEF Stems
  <1> QED
    BY <1>3, <1>4 DEF b

(* Nothing is registered and all buffers are zero at the start.            *)
LEMMA InitInv == Init => Inv
  <1> SUFFICES ASSUME Init PROVE Inv
    OBVIOUS
  <1>1. TypeOK
    <2>1. 0 \in 0..BufSize /\ Zeros \in [Bytes -> Users \cup {Nul}]
          /\ <<>> \in Seq(Users)
      BY DriverAssumption DEF Zeros
    <2> QED
      BY <2>1 DEF Init, TypeOK, NoNode
  <1>2. Registration
    BY DEF Init, Registration
  <1>3. Stems(kernel_buf) /\ \A u \in Users : Stems(buf[u])
    BY DEF Init, Stems, Zeros
  <1>4. CharsWritten
    <2>1. \A u \in Users : printed[u] = <<>>
      BY DEF Init
    <2>2. Len(<<>>) < BufSize /\ 1..Len(<<>>) = {}
      BY DriverAssumption
    <2> QED
      BY <2>1, <2>2 DEF CharsWritten
  <1> QED
    BY <1>1, <1>2, <1>3, <1>4 DEF Inv

(* One step per action.                                                    *)
LEMMA NextInv == Inv /\ [Next]_vars => Inv'
  <1> SUFFICES ASSUME Inv, [Next]_vars PROVE Inv'
    OBVIOUS
  <1> USE DriverAssumption
  <1>1. CASE hello_init
    <2>1. TypeOK'
      BY <1>1 DEF hello_init, Inv, TypeOK, userVars, NoNode, Zeros
    <2>2. Registration'
      BY <1>1 DEF hello_init, Registration, NoNode
    <2>3. Stems(kernel_buf)' /\ \A u \in Users : Stems(buf[u])'
      BY <1>1 DEF hello_init, Inv, Stems, userVars, Zeros
    <2>4. CharsWritten'
      BY <1>1 DEF hello_init, Inv, CharsWritten, userVars
    <2> QED
      BY <2>1, <2>2, <2>3, <2>4 DEF Inv
  <1>2. CASE hello_exit
    <2>1. TypeOK'
      BY <1>2 DEF hello_exit, Inv, TypeOK, userVars, history, NoNode
    <2>2. Registration'
      BY <1>2 DEF hello_exit, Inv, Registration, NoNode
    <2>3. Stems(kernel_buf)' /\ \A u \in Users : Stems(buf[u])'
      BY <1>2 DEF hello_exit, Inv, Stems, userVars
    <2>4. CharsWritten'
      BY <1>2 DEF hello_exit, Inv, CharsWritten, userVars
    <2> QED
      BY <2>1, <2>2, <2>3, <2>4 DEF Inv
  <1>3. ASSUME NEW u \in Users, open(u) \/ call(u) \/ return(u) PROVE Inv'
    <2>1. TypeOK'
      BY <1>3 DEF open, call, return, Goto, Inv, TypeOK, modVars, history
    <2>2. Registration'
      BY <1>3 DEF open, call, return, Inv, Registration, modVars
    <2>3. Stems(kernel_buf)' /\ \A v \in Users : Stems(buf[v])'
      BY <1>3 DEF open, call, return, Inv, Stems
    <2>4. CharsWritten'
      BY <1>3 DEF open, call, return, Inv, CharsWritten
    <2> QED
      BY <2>1, <2>2, <2>3, <2>4 DEF Inv
  <1>4. ASSUME NEW u \in Users, hello_drv_write(u) PROVE Inv'
    <2>1. k[u] + 1 \in Bytes /\ argv[u] \in Nat
      <3>1. argv[u] \in Nat
        BY <1>4 DEF hello_drv_write, Writer, Inv, TypeOK
      <3>2. Count(u) \in Nat /\ Count(u) <= BufSize
        BY <3>1 DEF Count, WriteLen, Least
      <3>3. k[u] \in Nat /\ k[u] < Count(u)
        BY <1>4 DEF hello_drv_write, Inv, TypeOK
      <3> QED
        BY <3>1, <3>2, <3>3 DEF Bytes
    <2>2. TypeOK'
      BY <1>4, <2>1 DEF hello_drv_write, Inv, TypeOK, modVars, history, Bytes
    <2>3. Registration'
      BY <1>4 DEF hello_drv_write, Inv, Registration, modVars
    <2>4. Stems(kernel_buf)'
      BY <1>4, <2>1 DEF hello_drv_write, Inv, TypeOK, Stems
    <2>5. \A v \in Users : Stems(buf[v])'
      BY <1>4 DEF hello_drv_write, Inv, Stems
    <2>6. CharsWritten'
      BY <1>4 DEF hello_drv_write, Inv, CharsWritten
    <2> QED
      BY <2>2, <2>3, <2>4, <2>5, <2>6 DEF Inv
  <1>5. ASSUME NEW u \in Users, hello_drv_read(u) PROVE Inv'
    <2>1. k[u] + 1 \in Bytes
      BY <1>5 DEF hello_drv_read, Writer, Count, Inv, TypeOK, Bytes
    <2>2. TypeOK'
      BY <1>5, <2>1 DEF hello_drv_read, Inv, TypeOK, modVars, history, Bytes
    <2>3. Registration'
      BY <1>5 DEF hello_drv_read, Inv, Registration, modVars
    <2>4. Stems(kernel_buf)'
      BY <1>5 DEF hello_drv_read, Inv, Stems
    <2>5. \A v \in Users : Stems(buf[v])'
      BY <1>5, <2>1 DEF hello_drv_read, Inv, TypeOK, Stems
    <2>6. CharsWritten'
      BY <1>5 DEF hello_drv_read, Inv, CharsWritten
    <2> QED
      BY <2>2, <2>3, <2>4, <2>5, <2>6 DEF Inv
  <1>6. ASSUME NEW u \in Users, close(u) PROVE Inv'
    <2> DEFINE t == Text(Terminated(buf[u]))
    <2>1. /\ t \in Seq(Users) /\ Len(t) < BufSize
          /\ \A i \in 1..Len(t) : t[i] \in Users /\ i <= argv[t[i]]
      BY PrintedStems
    <2>2. \/ printed' = [printed EXCEPT ![u] = t]
          \/ printed' = printed
      BY <1>6 DEF close
    <2> HIDE DEF t
    <2>3. TypeOK'
      BY <1>6, <2>1, <2>2 DEF close, Goto, Inv, TypeOK, modVars, history
    <2>4. Registration'
      BY <1>6 DEF close, Inv, Registration, modVars
    <2>5. Stems(kernel_buf)' /\ \A v \in Users : Stems(buf[v])'
      BY <1>6 DEF close, Inv, Stems
    <2>6. CharsWritten'
      BY <1>6, <2>1, <2>2 DEF close, Inv, TypeOK, CharsWritten
    <2> QED
      BY <2>3, <2>4, <2>5, <2>6 DEF Inv
  <1>7. CASE UNCHANGED vars
    BY <1>7 DEF vars, modVars, userVars, history, Inv, TypeOK, Registration,
                Stems, CharsWritten
  <1> QED
    BY <1>1, <1>2, <1>3, <1>4, <1>5, <1>6, <1>7 DEF Next, test

(* The invariant holds throughout.                                         *)
THEOREM InvHolds == Spec => []Inv
  BY InitInv, NextInv, PTL DEF Spec

(* The state keeps its types; in particular no call copies past the end of *)
(* either buffer.                                                          *)
THEOREM TypeCorrect == Spec => []TypeOK
  <1>1. Inv => TypeOK
    BY DEF Inv
  <1> QED
    BY InvHolds, <1>1, PTL

(* Whatever calls mix in kernel_buf, readers print characters at the place *)
(* where their writers wrote them, and end within their buffer.            *)
THEOREM PrintsCharsWritten == Spec => []CharsWritten
  <1>1. Inv => CharsWritten
    BY DEF Inv
  <1> QED
    BY InvHolds, <1>1, PTL

(* An unloaded module leaves nothing registered, whatever failed.          *)
THEOREM UnloadLeavesNothing == Spec => []NothingLeft
  <1>1. Inv => NothingLeft
    BY DEF Inv, Registration, NothingLeft
  <1> QED
    BY InvHolds, <1>1, PTL
-----------------------------------------------------------------------------
(* What a reader finds when nobody is in the way.                          *)

(* The first m bytes of b are those of the string that w wrote; Nul wrote  *)
(* the empty one, on loading.                                              *)
Shows(b, w, m) ==
  \A i \in 1..m : IF w = Nul THEN i = 1 => b[i] = Nul
                  ELSE /\ i <= argv[w] => b[i] = w
                       /\ i = argv[w] + 1 => b[i] = Nul

InCall(u) == pc[u] = "call"

(* A call that is alone runs beside no other that writes, if it writes     *)
(* beside no other at all.                                                 *)
Alone ==
  \A u, v \in Users :
    InCall(u) /\ InCall(v) /\ u # v /\ alone[u] => ~Writer(u) /\ ~Writer(v)

(* kernel_buf shows the last string unless somebody writes, or two did at  *)
(* once; it shows what a writer that is alone has copied so far; and the   *)
(* buffer of a reader that is alone shows what it has copied so far.       *)
LastWrite ==
  /\ \A u \in Users : (Open(u) => loaded) /\ (pc[u] \in {"start", "open"} => k[u] = 0)
  /\ last \in Users => Writer(last)
  /\ Alone
  /\ last # Mixed /\ (\A u \in Users : InCall(u) => ~Writer(u)) =>
       Shows(kernel_buf, last, BufSize)
  /\ \A u \in Users : InCall(u) /\ alone[u] =>
       IF Writer(u) THEN Shows(kernel_buf, u, k[u])
                    ELSE last # Mixed => Shows(buf[u], last, k[u])

(* The first Nul is where printf stops.                                    *)
LEMMA TextIs ==
  ASSUME NEW b \in [Bytes -> Users \cup {Nul}], NEW n \in 0..(BufSize - 1),
         \A i \in 1..n : b[i] # Nul, b[n + 1] = Nul
  PROVE  Text(b) = [i \in 1..n |-> b[i]]
  <1> DEFINE Stop(m) == /\ \A i \in 1..m : b[i] # Nul
                        /\ m < BufSize => b[m + 1] = Nul
             n0 == CHOOSE m \in 0..BufSize : Stop(m)
  <1>1. n \in 0..BufSize /\ Stop(n)
    BY DriverAssumption
  <1>2. ASSUME NEW m \in 0..BufSize, Stop(m)
        PROVE  m = n
    <2>1. ~(m < n)
      <3>1. m < n => m + 1 \in 1..n
        OBVIOUS
      <3> QED
        BY <1>2, <3>1, DriverAssumption
    <2>2. ~(n < m)
      <3>1. n < m => n + 1 \in 1..m
        OBVIOUS
      <3> QED
        BY <1>2, <3>1
    <2> QED
      BY <2>1, <2>2
  <1> HIDE DEF Stop
  <1>3. n0 = n
    BY <1>1, <1>2
  <1>4. Text(b) = [i \in 1..n0 |-> b[i]]
    BY DEF Text, n0, Stop
  <1> HIDE DEF n0
  <1> QED
    BY <1>3, <1>4

(* How much a call copies.                                                 *)
LEMMA Counts ==
  ASSUME Inv, NEW u \in Users
  PROVE  /\ ~Writer(u) => Count(u) = BufSize
         /\ Writer(u) => /\ argv[u] \in Nat /\ Count(u) \in Nat /\ Count(u) <= BufSize
                         /\ Count(u) = BufSize \/ Count(u) = argv[u] + 1
         /\ k[u] \in Nat /\ Count(u) \in Nat
  <1>1. k[u] \in Nat /\ BufSize \in Nat \ {0}
    BY DriverAssumption DEF Inv, TypeOK
  <1>2. Writer(u) => argv[u] \in Nat
    BY DriverAssumption DEF Writer, Inv, TypeOK
  <1>3. ASSUME NEW n \in Nat
        PROVE  LET m == Least(BufSize, WriteLen(n))
               IN  m \in Nat /\ m <= BufSize /\ (m = BufSize \/ m = n + 1)
    BY <1>1 DEF Least, WriteLen
  <1>4. Writer(u) => Count(u) = Least(BufSize, WriteLen(argv[u]))
    BY DEF Writer, Count
  <1>5. ~Writer(u) => Count(u) = BufSize
    BY DEF Writer, Count
  <1> QED
    BY <1>1, <1>2, <1>3, <1>4, <1>5

LEMMA InitLastWrite == Init => LastWrite
  <1> SUFFICES ASSUME Init PROVE LastWrite
    OBVIOUS
  <1>1. \A u \in Users : ~Open(u) /\ ~InCall(u) /\ k[u] = 0
    BY DEF Init, Open, InCall
  <1>2. last = Nul /\ Shows(kernel_buf, Nul, BufSize)
    BY DriverAssumption DEF Init, Shows, Zeros, Bytes
  <1> QED
    BY <1>1, <1>2, DriverAssumption DEF LastWrite, Alone

LEMMA NextLastWrite == Inv /\ LastWrite /\ [Next]_vars => LastWrite'
  <1> SUFFICES ASSUME Inv, LastWrite, [Next]_vars PROVE LastWrite'
    OBVIOUS
  <1> USE DriverAssumption
  <1>1. CASE hello_init
    <2>1. \A u \in Users : /\ ~Open(u)' /\ ~InCall(u)'
                           /\ pc'[u] \in {"start", "open"} => k'[u] = 0
      BY <1>1 DEF hello_init, LastWrite, userVars, Open, InCall
    <2>2. last' = Nul /\ Shows(kernel_buf, last, BufSize)'
      BY <1>1 DEF hello_init, Shows, Zeros, Bytes
    <2>3. last' \notin Users /\ Alone'
      BY <2>1, <2>2 DEF Alone
    <2> QED
      BY <2>1, <2>2, <2>3 DEF LastWrite
  <1>2. CASE hello_exit
    BY <1>2 DEF hello_exit, LastWrite, Alone, Shows, Open, InCall, Writer, userVars, history
  <1>3. ASSUME NEW u \in Users, open(u) PROVE LastWrite'
    <2>1. pc[u] = "start" /\ pc'[u] \in {"open", "done"} /\ (pc'[u] = "open" => loaded)
          /\ \A v \in Users : v # u => pc'[v] = pc[v]
      BY <1>3 DEF open, Goto, Reachable, Inv, TypeOK, Registration
    <2>2. UNCHANGED <<loaded, kernel_buf, argv, k, buf, alone, last>>
      BY <1>3 DEF open, modVars, history
    <2>3. \A v \in Users : InCall(v)' <=> InCall(v)
      BY <2>1 DEF InCall
    <2>4. \A v \in Users : (Open(v)' => loaded') /\ (pc'[v] \in {"start", "open"} => k'[v] = 0)
      BY <2>1, <2>2 DEF LastWrite, Open
    <2> QED
      BY <2>2, <2>3, <2>4 DEF LastWrite, Alone, Shows, Writer
  <1>4. ASSUME NEW u \in Users, close(u) PROVE LastWrite'
    <2>1. pc[u] = "close" /\ pc'[u] = "done"
          /\ \A v \in Users : v # u => pc'[v] = pc[v]
      BY <1>4 DEF close, Goto, Inv, TypeOK
    <2>2. UNCHANGED <<loaded, kernel_buf, argv, k, buf, alone, last>>
      BY <1>4 DEF close, modVars, history
    <2>3. \A v \in Users : InCall(v)' <=> InCall(v)
      BY <2>1 DEF InCall
    <2>4. \A v \in Users : (Open(v)' => loaded') /\ (pc'[v] \in {"start", "open"} => k'[v] = 0)
      BY <2>1, <2>2 DEF LastWrite, Open
    <2> QED
      BY <2>2, <2>3, <2>4 DEF LastWrite, Alone, Shows, Writer
  <1>5. ASSUME NEW u \in Users, call(u) PROVE LastWrite'
    <2>1. pc[u] = "open" /\ pc'[u] = "call" /\ \A v \in Users : v # u => pc'[v] = pc[v]
      BY <1>5 DEF call, Goto, Inv, TypeOK
    <2>2. /\ UNCHANGED <<loaded, kernel_buf, argv, k, buf, last>>
          /\ alone'[u] <=> \A v \in Users : InCall(v) => ~Writer(u) /\ ~Writer(v)
          /\ \A v \in Users : v # u =>
               (alone'[v] <=> alone[v] /\ ~(InCall(v) /\ (Writer(u) \/ Writer(v))))
      BY <1>5 DEF call, modVars, InCall
    <2>3. \A v \in Users : (Open(v)' => loaded') /\ (pc'[v] \in {"start", "open"} => k'[v] = 0)
      BY <2>1, <2>2 DEF LastWrite, Open
    <2>4. Alone'
      BY <2>1, <2>2 DEF LastWrite, Alone, InCall, Writer
    <2>5. \A v \in Users : InCall(v) => InCall(v)'
      BY <2>1 DEF InCall
    <2>6. k[u] = 0
      BY <2>1 DEF LastWrite
    <2> QED
      BY <2>1, <2>2, <2>3, <2>4, <2>5, <2>6 DEF LastWrite, Shows, Writer, InCall
  <1>6. ASSUME NEW u \in Users, hello_drv_write(u) PROVE LastWrite'
    <2>1. /\ pc[u] = "call" /\ Writer(u) /\ k[u] < Count(u)
          /\ kernel_buf' = [kernel_buf EXCEPT
                              ![k[u] + 1] = IF k[u] + 1 <= argv[u] THEN u ELSE Nul]
          /\ k'[u] = k[u] + 1 /\ \A v \in Users : v # u => k'[v] = k[v]
          /\ UNCHANGED <<loaded, argv, pc, buf, alone, last>>
      BY <1>6 DEF hello_drv_write, modVars, history, Inv, TypeOK
    <2>2. k[u] \in Nat /\ k[u] + 1 \in Bytes /\ argv[u] \in Nat
      BY <2>1, Counts DEF Bytes
    <2>3. kernel_buf'[k[u] + 1] = (IF k[u] + 1 <= argv[u] THEN u ELSE Nul)
          /\ \A i \in 1..k[u] : kernel_buf'[i] = kernel_buf[i]
      BY <2>1, <2>2 DEF Inv, TypeOK, Bytes
    <2>4. alone[u] => Shows(kernel_buf, u, k[u])'
      <3>1. \A i \in 1..(k[u] + 1) : i \in 1..k[u] \/ i = k[u] + 1
        BY <2>2
      <3>2. alone[u] => Shows(kernel_buf, u, k[u])
        BY <2>1 DEF LastWrite, InCall
      <3> QED
        BY <2>1, <2>2, <2>3, <3>1, <3>2 DEF Shows
    <2>5. ASSUME NEW v \in Users, InCall(v), alone[v], v # u
          PROVE  FALSE
      BY <2>1, <2>5 DEF LastWrite, Alone, InCall
    <2>6. \A v \in Users : (Open(v)' => loaded') /\ (pc'[v] \in {"start", "open"} => k'[v] = 0)
      BY <2>1 DEF LastWrite, Open
    <2> QED
      BY <2>1, <2>4, <2>5, <2>6 DEF LastWrite, Alone, InCall, Writer
  <1>7. ASSUME NEW u \in Users, hello_drv_read(u) PROVE LastWrite'
    <2>1. /\ pc[u] = "call" /\ ~Writer(u) /\ k[u] < Count(u)
          /\ buf' = [buf EXCEPT ![u] = [buf[u] EXCEPT ![k[u] + 1] = kernel_buf[k[u] + 1]]]
          /\ k'[u] = k[u] + 1 /\ \A v \in Users : v # u => k'[v] = k[v]
          /\ UNCHANGED <<loaded, argv, pc, kernel_buf, alone, last>>
      BY <1>7 DEF hello_drv_read, modVars, history, Inv, TypeOK
    <2>2. k[u] \in Nat /\ k[u] + 1 \in Bytes
      BY <2>1, Counts DEF Bytes
    <2>3. /\ buf'[u][k[u] + 1] = kernel_buf[k[u] + 1]
          /\ \A i \in 1..k[u] : buf'[u][i] = buf[u][i]
          /\ \A v \in Users : v # u => buf'[v] = buf[v]
      BY <2>1, <2>2 DEF Inv, TypeOK, Bytes
    <2>4. alone[u] /\ last # Mixed => Shows(buf[u], last, k[u])'
      <3>1. \A i \in 1..(k[u] + 1) : i \in 1..k[u] \/ i = k[u] + 1
        BY <2>2
      <3>2. alone[u] /\ last # Mixed => Shows(buf[u], last, k[u])
        BY <2>1 DEF LastWrite, InCall
      <3>3. alone[u] => \A v \in Users : InCall(v) => ~Writer(v)
        BY <2>1 DEF LastWrite, Alone, InCall
      <3>4. alone[u] /\ last # Mixed => Shows(kernel_buf, last, BufSize)
        BY <3>3 DEF LastWrite
      <3> QED
        BY <2>1, <2>2, <2>3, <3>1, <3>2, <3>4 DEF Shows, Bytes
    <2>5. \A v \in Users : (Open(v)' => loaded') /\ (pc'[v] \in {"start", "open"} => k'[v] = 0)
      BY <2>1 DEF LastWrite, Open
    <2>6. \A v \in Users : v # u /\ InCall(v) /\ alone[v] =>
            IF Writer(v) THEN Shows(kernel_buf, v, k[v])'
                         ELSE last # Mixed => Shows(buf[v], last, k[v])'
      BY <2>1, <2>3 DEF LastWrite, Shows
    <2> QED
      BY <2>1, <2>4, <2>5, <2>6 DEF LastWrite, Alone, InCall, Writer, Shows
  <1>8. ASSUME NEW u \in Users, return(u) PROVE LastWrite'
    <2>1. /\ pc[u] = "call" /\ pc'[u] = "close" /\ \A v \in Users : v # u => pc'[v] = pc[v]
          /\ k[u] = Count(u)
          /\ last' = IF ~Writer(u) THEN last ELSE IF alone[u] THEN u ELSE Mixed
          /\ UNCHANGED <<loaded, argv, kernel_buf, k, buf, alone>>
      BY <1>8 DEF return, Goto, modVars, Inv, TypeOK
    <2>2. \A v \in Users : InCall(v)' <=> InCall(v) /\ v # u
      BY <2>1 DEF InCall
    <2>3. \A v \in Users : (Open(v)' => loaded') /\ (pc'[v] \in {"start", "open"} => k'[v] = 0)
      BY <2>1 DEF LastWrite, Open
    <2>4. Alone' /\ (last' \in Users => Writer(last)')
      BY <2>1, <2>2 DEF LastWrite, Alone, Writer
    <2>5. CASE ~Writer(u)
      BY <2>1, <2>2, <2>3, <2>4, <2>5 DEF LastWrite, Shows, Writer
    <2>6. CASE Writer(u)
      <3>1. \A v \in Users : InCall(v) /\ v # u => ~alone[v]
        BY <2>1, <2>6 DEF LastWrite, Alone, InCall
      <3>2. alone[u] => Shows(kernel_buf, u, BufSize)
        <4>1. alone[u] => Shows(kernel_buf, u, Count(u))
          BY <2>1, <2>6 DEF LastWrite, InCall
        <4>2. /\ argv[u] \in Nat /\ Count(u) \in Nat /\ Count(u) <= BufSize
              /\ (Count(u) = BufSize \/ Count(u) = argv[u] + 1)
          BY <2>6, Counts
        <4>3. \A i \in 1..BufSize : i \in 1..Count(u) \/ i > argv[u] + 1
          BY <4>2
        <4> QED
          BY <4>1, <4>2, <4>3 DEF Shows
      <3>3. last' # Mixed => last' = u /\ Shows(kernel_buf, last, BufSize)'
        BY <2>1, <2>6, <3>2 DEF Shows
      <3> QED
        BY <2>1, <2>2, <2>3, <2>4, <3>1, <3>3 DEF LastWrite
    <2> QED
      BY <2>5, <2>6
  <1>9. CASE UNCHANGED vars
    BY <1>9 DEF vars, modVars, userVars, history, LastWrite, Alone, Shows, Open, InCall, Writer
  <1> QED
    BY <1>1, <1>2, <1>3, <1>4, <1>5, <1>6, <1>7, <1>8, <1>9 DEF Next, test

(* Who reads while nobody writes prints the string of the last writer, cut *)
(* to fit, unless writers were in each other's way.                        *)
THEOREM ReadersSeeLastWrite == Spec => []ReadsLastWrite
  <1>1. Inv /\ LastWrite => ReadsLastWrite
    <2> SUFFICES ASSUME Inv, LastWrite, NEW u \in Users, pc[u] = "call", ~Writer(u),
                        k[u] = Count(u), alone[u], last # Mixed
                 PROVE  Text(Terminated(buf[u])) =
                          IF last = Nul THEN <<>> ELSE [i \in 1..Written(argv[last]) |-> last]
      BY DEF ReadsLastWrite
    <2> USE DriverAssumption
    <2>1. Shows(buf[u], last, BufSize)
      BY Counts DEF LastWrite, InCall
    <2> DEFINE b == Terminated(buf[u])
    <2>2. /\ b \in [Bytes -> Users \cup {Nul}] /\ b[BufSize] = Nul
          /\ \A i \in 1..(BufSize - 1) : b[i] = buf[u][i]
      BY DEF Inv, TypeOK, Terminated, Bytes
    <2> HIDE DEF b
    <2>3. CASE last = Nul
      <3>1. b[0 + 1] = Nul /\ 0 \in 0..(BufSize - 1)
        BY <2>1, <2>2, <2>3 DEF Shows
      <3>2. Text(b) = [i \in 1..0 |-> b[i]]
        BY <2>2, <3>1, TextIs
      <3> QED
        BY <2>3, <3>2 DEF b
    <2>4. CASE last # Nul
      <3> DEFINE n == Written(argv[last])
      <3>1. last \in Users /\ argv[last] \in Nat
        BY <2>4, Counts DEF LastWrite, Inv, TypeOK
      <3>2. n \in 0..(BufSize - 1) /\ n <= argv[last] /\ (n = argv[last] \/ n + 1 = BufSize)
        BY <3>1 DEF Written, Least
      <3> HIDE DEF n
      <3>3. \A i \in 1..n : b[i] = last
        BY <2>1, <2>2, <2>4, <3>1, <3>2 DEF Shows
      <3>4. b[n + 1] = Nul
        BY <2>1, <2>2, <2>4, <3>1, <3>2 DEF Shows
      <3>5. Text(b) = [i \in 1..n |-> b[i]]
        BY <2>2, <2>4, <3>1, <3>2, <3>3, <3>4, TextIs
      <3>6. [i \in 1..n |-> b[i]] = [i \in 1..n |-> last]
        BY <3>3
      <3> QED
        BY <2>4, <3>5, <3>6 DEF b, n
    <2> QED
      BY <2>3, <2>4
  <1>2. Spec => []LastWrite
    BY InitLastWrite, NextLastWrite, InvHolds, PTL DEF Spec
  <1> QED
    BY <1>1, <1>2, InvHolds, PTL
=============================================================================
