-------------------------- MODULE MCServiceManager --------------------------
(* Instances of ServiceManager for TLC.                                    *)
EXTENDS ServiceManager

CONSTANTS s1, s2, s3, c1, x, y, v1, v2

Req(code, name) ==
  [code |-> code, name |-> name, ref |-> code = "ADD",
   allow_isolated |-> FALSE, dumpsys_priority |-> {"default"}, n |-> 0]

Add(name) == Req("ADD", name)
Open(name) == [Add(name) EXCEPT !.allow_isolated = TRUE]

(* Everybody is trusted; the names keep their own labels.                  *)
AllSystem == [p \in Procs |-> "system"]
OwnLabel == [n \in Names |-> n]
AllGranted == Policies \X {"add", "find"} \X Procs \X Names

(* s1 and s2 fight over x, which policy v1 gives to s1 and v2 to s2; s3    *)
(* has y; c1 asks.                                                         *)
MCRequests ==
  (s1 :> {Add(x)}) @@ (s2 :> {Add(x)}) @@ (s3 :> {Add(y)})
  @@ (c1 :> {Req("GET", x)})

MCGranted ==
  {<<v1, "add", s1, x>>, <<v2, "add", s2, x>>,
   <<v1, "add", s3, y>>, <<v2, "add", s3, y>>, <<v2, "find", c1, x>>}

(* x changes hands while its owners die; s2 may also send no object; c1 is *)
(* an app, asks for x, among other things, and is never let register.      *)
LiveRequests ==
  (s1 :> {Add(x)})
  @@ (s2 :> {Add(x), [Add(x) EXCEPT !.ref = FALSE]})
  @@ (c1 :> {Req("GET", x), Req("GET", NoName), Req("GET", BadName), Req("PING", NoName),
             Req("BAD_ID", NoName), Req("UNKNOWN", NoName), Req("LIST", NoName),
             Add(x)})

LiveUids == (s1 :> "system") @@ (s2 :> "system") @@ (c1 :> "app")

(* s1 lets isolated processes use x and s2 does not.                       *)
IsolatedRequests ==
  (s1 :> {Open(x)}) @@ (s2 :> {Add(x)}) @@ (c1 :> {Req("GET", x)})

IsolatedUids == (s1 :> "system") @@ (s2 :> "system") @@ (c1 :> "isolated")

(* s1 publishes one object under two names; s2 takes one of them over.     *)
AliasRequests == (s1 :> {Add(x), Add(y)}) @@ (s2 :> {Add(x)})
=============================================================================
