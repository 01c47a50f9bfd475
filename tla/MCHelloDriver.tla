---------------------------- MODULE MCHelloDriver ----------------------------
(* Instances of HelloDriver for TLC.                                       *)
EXTENDS HelloDriver, TLC

CONSTANTS u1, u2, u3

(* Only their names tell users apart; their arguments are chosen by Init.  *)
UserSymmetry == Permutations(Users)
=============================================================================
