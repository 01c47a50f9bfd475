------------------------- MODULE MCCppHelloService -------------------------
(* Instances of CppHelloService for TLC.                                   *)
EXTENDS CppHelloService

CONSTANTS c1, c2, c3, t1, t2
=============================================================================
