--------------------------- MODULE MCHelloSystem ---------------------------
(* Instances of HelloSystem for TLC.                                       *)
EXTENDS HelloSystem, TLC

CONSTANTS s1, s2, c1, c2

(* Clients that want a number, and clients that ask for anything.          *)
SayHelloTo == [c \in Clients |-> {"SAYHELLO_TO"}]
AnyRequest == [c \in Clients |-> Requests]

(* Only their names tell the clients, and the servers, apart.              *)
SystemSymmetry == Permutations(Clients) \cup Permutations(Servers)
=============================================================================
