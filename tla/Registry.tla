------------------------------ MODULE Registry ------------------------------
(***************************************************************************)
(* What the service manager promises its callers, with no handles, no      *)
(* reference counts and no death notices: a name stands for the process    *)
(* that registered it last, until that process is dead and has been        *)
(* forgotten, and a lookup hands out that process or nothing.              *)
(* ServiceManager.tla is shown to implement this module.                   *)
(***************************************************************************)
CONSTANTS Names, Procs, NoProc

VARIABLES
  reg,     \* the process registered under each name, NoProc if there is none
  given,   \* the process handed to the caller that is being answered
  alive

vars == <<reg, given, alive>>

Init ==
  /\ reg = [n \in Names |-> NoProc]
  /\ given = NoProc
  /\ alive = Procs

(* The last registration of a name wins, whoever held it before.           *)
Register(n, p) ==
  /\ reg' = [reg EXCEPT ![n] = p]
  /\ UNCHANGED <<given, alive>>

(* Only a dead process loses its name without a new registration.          *)
Forget(n) ==
  /\ reg[n] # NoProc /\ reg[n] \notin alive
  /\ reg' = [reg EXCEPT ![n] = NoProc]
  /\ UNCHANGED <<given, alive>>

Lookup(n) ==
  /\ given' = reg[n]
  /\ UNCHANGED <<reg, alive>>

Answered ==
  /\ given' = NoProc
  /\ UNCHANGED <<reg, alive>>

Die(p) ==
  /\ p \in alive
  /\ alive' = alive \ {p}
  /\ UNCHANGED <<reg, given>>

Next ==
  \/ \E n \in Names : Forget(n) \/ Lookup(n)
  \/ \E n \in Names, p \in Procs : Register(n, p)
  \/ \E p \in Procs : Die(p)
  \/ Answered

(* A name does not stay with a dead process.                               *)
Forgotten ==
  \A n \in Names, p \in Procs :
    (reg[n] = p /\ p \notin alive) ~> (reg[n] # p)

Spec == Init /\ [][Next]_vars /\ Forgotten
=============================================================================
