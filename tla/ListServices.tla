---------------------------- MODULE ListServices ----------------------------
(***************************************************************************)
(* A process that lists the services of ServiceManager.tla while others    *)
(* register and die.  SVC_MGR_LIST_SERVICES gives one name per call, the   *)
(* n-th that matches the flags, so the caller asks for 0, 1, 2 and so on   *)
(* until it is refused.  The caller is not in the repository; it is what   *)
(* the request is made for (listServices of libbinder).                    *)
(***************************************************************************)
EXTENDS ServiceManager

CONSTANTS
  Lister,   \* the process that lists
  Flags     \* the priorities it asks for

ASSUME ListerAssumption ==
  /\ Lister \in MayList /\ MayRequest[Lister] = {}
  /\ Flags \subseteq DumpFlags

VARIABLES
  stage,    \* "start", "listing" or "done"
  listed,   \* what it was given: names, and NoName for a null string
  before    \* history: the names that matched when it began

listVars == <<stage, listed, before>>

Matching == {svclist[i] : i \in Listed(Flags)}

ListInit == Init /\ stage = "start" /\ listed = <<>> /\ before = {}

(* The next index is the number of answers it has.                         *)
Ask ==
  /\ stage # "done" /\ stage' = "listing"
  /\ Send(Lister, [code |-> "LIST", name |-> NoName, ref |-> FALSE,
                   allow_isolated |-> FALSE, dumpsys_priority |-> Flags,
                   n |-> Len(listed)])
  /\ before' = IF stage = "start" THEN Matching ELSE before
  /\ UNCHANGED listed

(* Its answer arrives; a null string is kept as one more, nameless entry.  *)
Told ==
  /\ cur = Lister /\ SendReply
  /\ IF out.status = 0
     THEN listed' = Append(listed, out.name) /\ UNCHANGED stage
     ELSE stage' = "done" /\ UNCHANGED listed
  /\ UNCHANGED before

Others ==
  /\ ~(pc = "reply" /\ cur = Lister) /\ Next
  /\ UNCHANGED listVars

ListNext == Ask \/ Told \/ Others

(* The lister goes on, the service manager serves, and reads what the      *)
(* lister has sent; nothing else has to happen for a listing to end.       *)
ListFairness ==
  /\ WF_<<vars, listVars>>(Ask)
  /\ WF_<<vars, listVars>>(Told \/ (Serve /\ Others))
  /\ SF_<<vars, listVars>>(ReadTxn(Lister) /\ Others)

ListSpec == ListInit /\ [][ListNext]_<<vars, listVars>> /\ ListFairness
-----------------------------------------------------------------------------
(* Properties.                                                             *)

(* The walk through svclist starts anew for each index, and entries move   *)
(* up as others are put in front; still no service is left out that was    *)
(* there when the listing began and whose name fits a reply, also when     *)
(* null strings take up answers in between.  This needs the entries of     *)
(* dead services to stay in the list.                                      *)
NothingMissed ==
  stage = "done" => before \cap FitReply \subseteq ToSet(listed)

(* An answer tells no new name, because it repeats one or has none, only   *)
(* for an entry that was put in front meanwhile or whose name does not     *)
(* fit, and once for each such entry.                                      *)
RepeatsAccounted ==
  Len(listed) - Cardinality(ToSet(listed) \ {NoName})
    <= Cardinality(Matching \ (before \cap FitReply))

(* No more answers are given than names match: the index cannot run away   *)
(* from the list, so the caller's loop is bounded by the names there are.  *)
ListingBounded == Len(listed) <= Cardinality(Matching)

(* A listing comes to its end, although the list may grow under it.        *)
ListingEnds ==
  stage = "listing" ~> stage = "done" \/ Lister \notin alive
=============================================================================
