---------------------------- MODULE HelloService ----------------------------
(***************************************************************************)
(* What the hello service promises to those who call it, with no processes *)
(* that die, no buffers and no commands: a call is carried out at most     *)
(* once, and is counted when it is; a caller that is answered gets the     *)
(* number of its own call, or an exception for a call that is never        *)
(* carried out.  Who is told 0 knows nothing: its call failed, and may     *)
(* have been carried out, may still be, or never; or it has no result.     *)
(* HelloSystem.tla is checked to implement this module.                    *)
(***************************************************************************)
EXTENDS Integers

CONSTANTS
  Callers,   \* each with one call
  Counters

(* What a caller is told that is no number.                                *)
Nothing == -2
Exception == -1
Zero == 0

VARIABLES
  count,   \* how far each counter is
  said,    \* the number a call was given, 0 if it was not carried out
  told     \* what its caller was told

vars == <<count, said, told>>

Init ==
  /\ count = [k \in Counters |-> 0]
  /\ said = [c \in Callers |-> 0]
  /\ told = [c \in Callers |-> Nothing]

Greet(c, k) ==
  /\ said[c] = 0 /\ told[c] \in {Nothing, Zero}
  /\ count' = [count EXCEPT ![k] = @ + 1]
  /\ said' = [said EXCEPT ![c] = count[k] + 1]
  /\ UNCHANGED told

Tell(c, answer) ==
  /\ told[c] = Nothing
  /\ told' = [told EXCEPT ![c] = answer]
  /\ UNCHANGED <<count, said>>

Answer(c) == Tell(c, IF said[c] # 0 THEN said[c] ELSE Exception)

Next ==
  \E c \in Callers :
    Answer(c) \/ Tell(c, Zero) \/ \E k \in Counters : Greet(c, k)

Spec == Init /\ [][Next]_vars
=============================================================================
