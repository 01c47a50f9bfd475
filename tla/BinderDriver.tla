---------------------------- MODULE BinderDriver ----------------------------
(***************************************************************************)
(* The part of the binder driver that the service manager of               *)
(* Demos/BinderCDemo works against: the table of references ("handles")    *)
(* that the driver keeps for the service manager's process.  The driver is *)
(* not in the repository; what is modelled is what the C library asks of   *)
(* it through BINDER_WRITE_READ (binder4Server.c) and what the programs    *)
(* rely on:                                                                *)
(*                                                                         *)
(*  - a binder object that reaches the service manager in a transaction is *)
(*    translated to a handle, and the transaction's buffer holds one       *)
(*    strong reference on it until BC_FREE_BUFFER;                         *)
(*  - BC_ACQUIRE and BC_RELEASE count strong references, and a handle      *)
(*    whose count drops to zero is gone, with its death registration and   *)
(*    any death notice not yet delivered; its number may then be reused;   *)
(*  - BC_REQUEST_DEATH_NOTIFICATION registers one cookie per handle.  A    *)
(*    second request on the same handle is refused.                        *)
(*                                                                         *)
(* Every process publishes one binder object, so an object is named by its *)
(* process.  The cookie of a death registration is the address of the      *)
(* svcinfo.death of an entry of svclist; there is one svcinfo per name, so *)
(* the cookie is the name.                                                 *)
(***************************************************************************)
EXTENDS Integers, FiniteSets

CONSTANTS
  Procs,    \* processes other than the service manager, one per incarnation
  Names,    \* service names
  Handles,  \* handle numbers, 0 is the service manager itself
  NoProc,
  NoName

ASSUME DriverAssumption ==
  /\ IsFiniteSet(Procs) /\ NoProc \notin Procs
  /\ IsFiniteSet(Names) /\ NoName \notin Names
  /\ Procs \cap Names = {}
  /\ Handles \subseteq Nat \ {0}

VARIABLES
  node,     \* the object a handle stands for, NoProc if the handle is free
  strong,   \* strong references on a handle
  death,    \* cookie of the death registration, NoName if there is none
  dead,     \* handles whose death notice waits to be delivered
  alive     \* processes that run

driverVars == <<node, strong, death, dead, alive>>

DriverTypeOK ==
  /\ node \in [Handles -> Procs \cup {NoProc}]
  /\ strong \in [Handles -> Nat]
  /\ death \in [Handles -> Names \cup {NoName}]
  /\ dead \subseteq Handles
  /\ alive \subseteq Procs

DriverInit ==
  /\ node = [h \in Handles |-> NoProc]
  /\ strong = [h \in Handles |-> 0]
  /\ death = [h \in Handles |-> NoName]
  /\ dead = {}
  /\ alive = Procs
-----------------------------------------------------------------------------
(* The handles an object of p can be given: the one it has, else a free    *)
(* number.  Which free number the driver picks is left open.               *)
HandlesFor(p) ==
  LET known == {h \in Handles : node[h] = p}
  IN  IF known # {} THEN known ELSE {h \in Handles : node[h] = NoProc}

(* An object of p arrives as handle h in a new transaction buffer.         *)
TakeRef(p, h) ==
  /\ h \in HandlesFor(p)
  /\ node' = [node EXCEPT ![h] = p]
  /\ strong' = [strong EXCEPT ![h] = @ + 1]
  /\ UNCHANGED <<death, dead, alive>>

(* BC_ACQUIRE, sent by binder_acquire.                                     *)
Acquire(h) ==
  /\ strong' = [strong EXCEPT ![h] = @ + 1]
  /\ UNCHANGED <<node, death, dead, alive>>

(* BC_RELEASE, sent by binder_release, and the share of BC_FREE_BUFFER     *)
(* that concerns the object in the buffer.  The last reference takes the   *)
(* death registration and a notice still queued with it.                   *)
Release(h) ==
  /\ strong' = [strong EXCEPT ![h] = @ - 1]
  /\ IF strong[h] = 1
     THEN /\ node' = [node EXCEPT ![h] = NoProc]
          /\ death' = [death EXCEPT ![h] = NoName]
          /\ dead' = dead \ {h}
     ELSE UNCHANGED <<node, death, dead>>
  /\ UNCHANGED alive

(* BC_REQUEST_DEATH_NOTIFICATION, sent by binder_link_to_death: refused if *)
(* the handle has a registration; if the process is dead already its       *)
(* notice is queued at once.                                               *)
LinkToDeath(h, cookie) ==
  /\ IF death[h] = NoName
     THEN /\ death' = [death EXCEPT ![h] = cookie]
          /\ dead' = IF node[h] \in alive THEN dead ELSE dead \cup {h}
     ELSE UNCHANGED <<death, dead>>
  /\ UNCHANGED <<node, strong, alive>>

(* Process p ends: the driver queues the notices registered on its object. *)
Kill(p) ==
  /\ p \in alive
  /\ alive' = alive \ {p}
  /\ dead' = dead \cup {h \in Handles : node[h] = p /\ death[h] # NoName}
  /\ UNCHANGED <<node, strong, death>>
=============================================================================
