--------------------------- MODULE MCListServices ---------------------------
(* Instances of ListServices for TLC.                                      *)
EXTENDS ListServices

CONSTANTS s1, s2, l, x, y, v1

Add(name, flags) ==
  [code |-> "ADD", name |-> name, ref |-> TRUE, allow_isolated |-> FALSE,
   dumpsys_priority |-> flags, n |-> 0]

AllSystem == [p \in Procs |-> "system"]
OwnLabel == [n \in Names |-> n]
AllGranted == Policies \X {"add", "find"} \X Procs \X Names

(* s1 has x; s2 has y, which is too long for a reply, and takes x, with    *)
(* flags that do not match; whose flags x has depends on who was first.    *)
ListRequests ==
  (s1 :> {Add(x, {"default"})})
  @@ (s2 :> {Add(y, {"default", "high"}), Add(x, {"high"})}) @@ (l :> {})
=============================================================================
