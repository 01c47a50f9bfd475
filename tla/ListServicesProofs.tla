-------------------------- MODULE ListServicesProofs --------------------------
(***************************************************************************)
(* Theorems about ListServices.tla: for any processes, names, requests and *)
(* flags, a listing misses nothing that stays, and accounts for what it    *)
(* repeats.                                                                *)
(***************************************************************************)
EXTENDS ListServices, ServiceManagerProofs, NaturalsInduction, WellFoundedInduction

(* The place of an entry among those that match is how many are ahead.     *)
Ahead(i) == {j \in Listed(Flags) : j < i}
Rank(i) == Cardinality(Ahead(i))

(* An index of k or more will give n.                                      *)
ToCome(n, k) == \E i \in Listed(Flags) : svclist[i] = n /\ Rank(i) >= k

(* The answers: names, and null strings.  What they must contain.          *)
Strings == Names \cup {NoName}
Due == before \cap FitReply
ToldNames(l) == ToSet(l) \ {NoName}

(* Who has the answers l and goes on with the index Len(l) misses nothing. *)
Covers(l) ==
  /\ \A n \in Due : n \in ToSet(l) \/ ToCome(n, Len(l))
  /\ Len(l) <= Cardinality(Listed(Flags))

(* The answers the lister has, with the one it is about to get.            *)
Answering == pc = "reply" /\ cur = Lister
Known == IF Answering /\ out.status = 0 THEN Append(listed, out.name) ELSE listed

(* The question the lister may have queued.                                *)
Question ==
  [code |-> "LIST", name |-> NoName, ref |-> FALSE, allow_isolated |-> FALSE,
   dumpsys_priority |-> Flags, n |-> Len(listed)]

Asking ==
  /\ listed \in Seq(Strings)
  /\ txn[Lister] # NoTxn => txn[Lister] = Question
  /\ pc \in {"add", "link"} => cur # Lister
  /\ Answering /\ out.status = 0 => out.name \in Strings

Complete ==
  stage = "done" \/ (Answering /\ out.status # 0) => Due \subseteq ToSet(listed)

Listing == Asking /\ Covers(Known) /\ Complete
Base == RefInv /\ ListInv
-----------------------------------------------------------------------------
(* Positions and ranks.                                                    *)

LEMMA ListedFinite ==
  ASSUME svclist \in Seq(Names)
  PROVE  /\ Listed(Flags) \subseteq 1..Len(svclist) /\ IsFiniteSet(Listed(Flags))
         /\ Cardinality(Listed(Flags)) \in Nat
         /\ \A i : IsFiniteSet(Ahead(i)) /\ Rank(i) \in Nat
                   /\ Rank(i) <= Cardinality(Listed(Flags))
<1>1. IsFiniteSet(1..Len(svclist)) /\ Listed(Flags) \subseteq 1..Len(svclist)
  BY FS_Interval DEF Listed
<1>2. IsFiniteSet(Listed(Flags))
  BY <1>1, FS_Subset
<1>3. \A i : Ahead(i) \in SUBSET Listed(Flags)
  BY DEF Ahead
<1>4. ASSUME NEW i
      PROVE  /\ IsFiniteSet(Ahead(i)) /\ Rank(i) \in Nat
             /\ Rank(i) <= Cardinality(Listed(Flags))
  BY <1>2, <1>3, FS_Subset, FS_CardinalityType DEF Rank
<1> QED BY <1>1, <1>2, <1>4, FS_CardinalityType

(* An entry has one more ahead of it than any that is ahead of it.         *)
LEMMA RankGrows ==
  ASSUME svclist \in Seq(Names), NEW i \in Listed(Flags), NEW j \in Listed(Flags), j < i
  PROVE  Rank(j) + 1 <= Rank(i)
<1>1. /\ IsFiniteSet(Ahead(j)) /\ IsFiniteSet(Ahead(i)) /\ Rank(j) \in Nat
      /\ i \in Int /\ j \in Int
  BY ListedFinite
<1>2. j \notin Ahead(j) /\ Ahead(j) \cup {j} \in SUBSET Ahead(i)
  BY <1>1, ListedFinite DEF Ahead
<1>3. Cardinality(Ahead(j) \cup {j}) = Rank(j) + 1
  BY <1>1, <1>2, FS_AddElement DEF Rank
<1> QED BY <1>1, <1>2, <1>3, FS_Subset DEF Rank

LEMMA LeastOf ==
  ASSUME NEW T \in SUBSET Nat, T # {}
  PROVE  \E m \in T : \A n \in T : m <= n
<1>1. PICK m \in T : \A n \in T : ~ <<n, m>> \in OpToRel(<, Nat)
  BY NatLessThanWellFounded, WFMin
<1>2. \A n \in T : ~ n < m
  BY <1>1 DEF OpToRel
<1> QED BY <1>2

(* The ranks have no gap: if the list goes on, it goes on at the index.    *)
LEMMA NoGap ==
  ASSUME svclist \in Seq(Names), NEW k \in Nat,
         NEW i \in Listed(Flags), Rank(i) >= k
  PROVE  \E j \in Listed(Flags) : Rank(j) = k
<1> DEFINE T == {j \in Listed(Flags) : Rank(j) >= k}
<1>1. T \in SUBSET Nat /\ T # {}
  BY ListedFinite
<1>2. PICK m \in T : \A n \in T : m <= n
  BY <1>1, LeastOf
<1>3. m \in Listed(Flags) /\ m \in Nat /\ Rank(m) \in Nat /\ Rank(m) >= k
  BY <1>1, ListedFinite
<1>4. CASE Ahead(m) = {}
  <2>1. Cardinality(Ahead(m)) = 0
    BY <1>4, FS_EmptySet
  <2>2. Rank(m) = k
    BY <1>3, <2>1 DEF Rank
  <2> QED BY <1>3, <2>2
<1>5. CASE Ahead(m) # {}
  <2> DEFINE B == {Len(svclist) - j : j \in Ahead(m)}
  <2>1. B \in SUBSET Nat /\ B # {}
    BY <1>5, ListedFinite DEF Ahead
  <2>2. PICK b \in B : \A n \in B : b <= n
    BY <2>1, LeastOf
  <2>3. PICK j \in Ahead(m) : b = Len(svclist) - j
    BY <2>2
  <2>4. j \in Listed(Flags) /\ j \in 1..Len(svclist) /\ j < m
    BY <2>3, ListedFinite DEF Ahead
  <2>5. \A l \in Ahead(m) : l \in 1..Len(svclist) /\ l <= j
    <3> SUFFICES ASSUME NEW l \in Ahead(m) PROVE l \in 1..Len(svclist) /\ l <= j
      OBVIOUS
    <3>1. l \in 1..Len(svclist) /\ Len(svclist) - l \in B
      BY ListedFinite DEF Ahead
    <3>2. Len(svclist) - j <= Len(svclist) - l
      BY <2>2, <2>3, <3>1
    <3> QED BY <3>1, <3>2, <2>4
  <2>6. Ahead(m) = Ahead(j) \cup {j} /\ j \notin Ahead(j)
    <3>1. \A l \in Listed(Flags) : l \in 1..Len(svclist) /\ l \in Int
      BY ListedFinite
    <3>2. \A l \in Listed(Flags) : l < m => l <= j
      BY <2>5 DEF Ahead
    <3>3. \A l \in Listed(Flags) : l < m <=> (l < j \/ l = j)
      BY <3>1, <3>2, <2>4, <1>3
    <3>4. j \notin Ahead(j)
      BY <3>1, <2>4 DEF Ahead
    <3>5. \A l : l \in Ahead(m) <=> l \in Ahead(j) \/ l = j
      BY <3>3, <2>4 DEF Ahead
    <3> QED BY <3>4, <3>5
  <2>7. Rank(m) = Rank(j) + 1 /\ Rank(j) \in Nat
    BY <2>6, ListedFinite, FS_AddElement DEF Rank
  <2>8. ~(Rank(j) >= k)
    BY <1>2, <1>3, <2>4
  <2> QED BY <1>3, <2>7, <2>8
<1> QED BY <1>4, <1>5
-----------------------------------------------------------------------------
(* What the answer to index k adds.                                        *)
LEMMA AnswerCovers ==
  ASSUME Base, NEW l \in Seq(Strings), Covers(l),
         NEW i \in ListedAt(Flags, Len(l))
  PROVE  /\ Covers(Append(l, Received(svclist[i])))
         /\ Received(svclist[i]) \in Strings
<1> DEFINE n0 == Received(svclist[i])
           l1 == Append(l, n0)
<1>1. svclist \in Seq(Names)
  BY DEF Base, RefInv, TypeOK
<1>2. i \in Listed(Flags) /\ Rank(i) = Len(l) /\ Len(l) \in Nat
  BY DEF ListedAt, Rank, Ahead
<1>3. n0 \in Strings /\ (svclist[i] \in FitReply => n0 = svclist[i])
  BY <1>1, <1>2, ListedFinite DEF Received, Strings
<1> HIDE DEF n0
<1>4. Len(l1) = Len(l) + 1 /\ \A n \in ToSet(l) \cup {n0} : n \in ToSet(l1)
  <2>1. Len(l1) = Len(l) + 1 /\ DOMAIN l1 = 1..Len(l) + 1 /\ DOMAIN l = 1..Len(l)
    BY <1>3
  <2>2. \A x \in 1..Len(l) : l1[x] = l[x]
    BY <1>3
  <2>3. l1[Len(l) + 1] = n0
    BY <1>3
  <2> QED BY <2>1, <2>2, <2>3, <1>2 DEF ToSet
<1>5. Len(l1) <= Cardinality(Listed(Flags))
  <2>1. i \notin Ahead(i) /\ Ahead(i) \cup {i} \in SUBSET Listed(Flags)
    BY <1>1, <1>2, ListedFinite DEF Ahead
  <2>2. Cardinality(Ahead(i) \cup {i}) = Rank(i) + 1
    BY <1>1, <2>1, ListedFinite, FS_AddElement DEF Rank
  <2> QED BY <1>1, <1>2, <1>4, <2>1, <2>2, ListedFinite, FS_Subset
<1>6. ASSUME NEW n \in Due
      PROVE  n \in ToSet(l1) \/ ToCome(n, Len(l1))
  <2>1. CASE n \in ToSet(l)
    BY <2>1, <1>4
  <2>2. CASE ToCome(n, Len(l))
    <3>1. PICK j \in Listed(Flags) : svclist[j] = n /\ Rank(j) >= Len(l)
      BY <2>2 DEF ToCome
    <3>2. i \in Int /\ j \in Int /\ Rank(j) \in Nat
      BY <1>1, <1>2, ListedFinite
    <3>3. CASE j = i
      BY <3>3, <3>1, <1>3, <1>4 DEF Due
    <3>4. CASE j < i
      BY <3>1, <3>2, <3>4, <1>1, <1>2, RankGrows
    <3>5. CASE i < j
      <4>1. Rank(i) + 1 <= Rank(j)
        BY <3>5, <1>1, <1>2, RankGrows
      <4> QED BY <4>1, <3>1, <3>2, <1>2, <1>4 DEF ToCome
    <3> QED BY <3>2, <3>3, <3>4, <3>5
  <2> QED BY <2>1, <2>2 DEF Covers
<1> QED BY <1>3, <1>5, <1>6 DEF Covers, n0

(* When there is no such index nothing is missing.                         *)
LEMMA RefusalComplete ==
  ASSUME svclist \in Seq(Names), NEW l \in Seq(Strings), Covers(l),
         ListedAt(Flags, Len(l)) = {}
  PROVE  Due \subseteq ToSet(l)
<1> SUFFICES ASSUME NEW n \in Due, ToCome(n, Len(l)) PROVE FALSE
  BY DEF Covers
<1>1. PICK i \in Listed(Flags) : Rank(i) >= Len(l)
  BY DEF ToCome
<1>2. PICK j \in Listed(Flags) : Rank(j) = Len(l)
  BY <1>1, NoGap
<1> QED BY <1>2 DEF ListedAt, Rank, Ahead

LEMMA UnionBound ==
  ASSUME NEW A, NEW B, IsFiniteSet(A), IsFiniteSet(B)
  PROVE  /\ IsFiniteSet(A \cup B)
         /\ Cardinality(A \cup B) <= Cardinality(A) + Cardinality(B)
<1>1. IsFiniteSet(A \cap B)
  BY FS_Intersection
<1>2. /\ Cardinality(A \cap B) \in Nat
      /\ Cardinality(A) \in Nat /\ Cardinality(B) \in Nat
  BY <1>1, FS_CardinalityType
<1>3. /\ IsFiniteSet(A \cup B)
      /\ Cardinality(A \cup B) =
           Cardinality(A) + Cardinality(B) - Cardinality(A \cap B)
  BY FS_Union, Zenon
<1> QED BY <1>2, <1>3

(* Answers that tell no new name are paid for by entries that matched only *)
(* later or have no name to tell.                                          *)
LEMMA Accounted ==
  ASSUME Base, NEW l \in Seq(Strings), Covers(l)
  PROVE  /\ Len(l) <= Cardinality(ToldNames(l)) + Cardinality(Matching \ Due)
         /\ IsFiniteSet(ToldNames(l)) /\ IsFiniteSet(Matching \ Due)
<1>1. svclist \in Seq(Names) /\ Len(l) \in Nat
  BY DEF Base, RefInv, TypeOK
<1>2. IsFiniteSet(ToldNames(l)) /\ IsFiniteSet(Matching \ Due)
  <2>1. ToldNames(l) \in SUBSET Names /\ Matching \ Due \in SUBSET Names
    BY <1>1, ListedFinite DEF ToSet, Matching, ToldNames, Strings
  <2> QED BY <2>1, DriverAssumption, FS_Subset
<1> DEFINE F == {j \in Listed(Flags) : Rank(j) < Len(l)}
           U == ToldNames(l) \cup (Matching \ Due)
           T == {j \in Listed(Flags) : Rank(j) >= Len(l)}
<1>3. Cardinality(F) >= Len(l) /\ IsFiniteSet(F) /\ Cardinality(F) \in Nat
  <2>1. F \in SUBSET Listed(Flags) /\ IsFiniteSet(F) /\ Cardinality(F) \in Nat
    BY <1>1, ListedFinite, FS_Subset, FS_CardinalityType
  <2>2. CASE T = {}
    <3>1. F = Listed(Flags)
      BY <2>2, <1>1, ListedFinite
    <3> QED BY <3>1, <2>1, <1>1 DEF Covers
  <2>3. CASE T # {}
    <3>1. T \in SUBSET Nat
      BY <1>1, ListedFinite
    <3>2. PICK m \in T : \A n \in T : m <= n
      BY <2>3, <3>1, LeastOf
    <3>3. \A j \in Listed(Flags) : j \in Nat /\ Rank(j) \in Nat
      BY <1>1, ListedFinite
    <3>4. Ahead(m) \in SUBSET F
      <4> SUFFICES ASSUME NEW j \in Listed(Flags), j < m PROVE Rank(j) < Len(l)
        BY DEF Ahead
      <4>1. m \in Nat /\ j \in Nat /\ j \notin T
        BY <3>1, <3>2, <3>3
      <4> QED BY <4>1, <3>3, <1>1
    <3>5. Cardinality(Ahead(m)) <= Cardinality(F)
      BY <3>4, <2>1, FS_Subset
    <3>6. Rank(m) >= Len(l) /\ Rank(m) \in Nat
      BY <1>1, ListedFinite
    <3> QED BY <2>1, <3>5, <3>6, <1>1 DEF Rank
  <2> QED BY <2>1, <2>2, <2>3
<1> DEFINE f == [j \in F |-> svclist[j]]
<1>4. f \in Injection(F, U)
  <2>1. ASSUME NEW j \in F PROVE svclist[j] \in U
    <3>1. svclist[j] \in Matching /\ j \in Listed(Flags) /\ j \in 1..Len(svclist)
      BY <1>1, ListedFinite DEF Matching
    <3>2. CASE svclist[j] \in Due /\ ToCome(svclist[j], Len(l))
      <4>1. PICK i \in Listed(Flags) : svclist[i] = svclist[j] /\ Rank(i) >= Len(l)
        BY <3>2 DEF ToCome
      <4>2. i \in 1..Len(svclist)
        BY <1>1, ListedFinite
      <4>3. i = j
        BY <3>1, <4>1, <4>2 DEF Base, ListInv, ListOK
      <4> QED BY <4>1, <4>3, <1>1, ListedFinite
    <3>3. svclist[j] # NoName
      BY <1>1, <3>1, DriverAssumption
    <3> QED BY <3>1, <3>2, <3>3 DEF Covers, ToldNames
  <2>2. \A i, j \in F : f[i] = f[j] => i = j
    BY <1>1, ListedFinite DEF Base, ListInv, ListOK
  <2> HIDE DEF F, U
  <2>3. f \in [F -> U]
    BY <2>1
  <2> QED BY <2>2, <2>3 DEF Injection, IsInjective
<1>5. /\ IsFiniteSet(U)
      /\ Cardinality(U) <= Cardinality(ToldNames(l)) + Cardinality(Matching \ Due)
  BY <1>2, UnionBound
<1>6. Cardinality(F) <= Cardinality(U) /\ Cardinality(U) \in Nat
  BY <1>4, <1>5, FS_Injection, FS_CardinalityType
<1> QED
  BY <1>1, <1>2, <1>3, <1>5, <1>6, FS_CardinalityType
-----------------------------------------------------------------------------
(* The steps.                                                              *)

SameEntries ==
  /\ svclist' = svclist
  /\ \A n \in Names : svc'[n].dumpsys_priority = svc[n].dumpsys_priority

LEMMA ListerFacts ==
  ASSUME Base, Asking
  PROVE  /\ Lister \in Procs /\ Question \in Request /\ NoTxn \notin Request
         /\ txn \in [Procs -> Request \cup {NoTxn}] /\ out \in Reply
         /\ svclist \in Seq(Names) /\ svc \in [Names -> SvcInfo]
         /\ pc \in {"txn", "add", "link", "reply"} =>
              cur \in Procs /\ txn[cur] # NoTxn
         /\ pc \in {"txn", "reply"} /\ cur = Lister => txn[cur] = Question
<1>1. Lister \in Procs /\ NoTxn \notin Request /\ Flags \subseteq DumpFlags
  BY ListerAssumption, ManagerAssumption
<1>2. Question \in Request
  BY <1>1 DEF Question, Request, Codes, Asking
<1> QED BY <1>1, <1>2 DEF Base, RefInv, TypeOK, Serving, Asking

LEMMA AskIs ==
  ASSUME Ask
  PROVE  Send(Lister, Question) /\ stage # "done" /\ stage' = "listing"
         /\ before' = (IF stage = "start" THEN Matching ELSE before)
         /\ listed' = listed
BY DEF Ask, Question

LEMMA BaseNext ==
  ASSUME Base, Asking, [ListNext]_<<vars, listVars>>
  PROVE  Base'
<1>1. CASE Ask
  BY <1>1, AskIs, ListerFacts, RefInvSend, ListInvSend DEF Base
<1>2. CASE Told \/ Others \/ UNCHANGED <<vars, listVars>>
  <2>1. [Next]_vars
    BY <1>2 DEF Told, Others, Next, Serve
  <2> QED BY <2>1, RefInvNext, ListInvNext DEF Base
<1> QED BY <1>1, <1>2 DEF ListNext

(* What a step of somebody else is to the lister.                          *)
LEMMA OtherSteps ==
  ASSUME Base, Asking, Others
  PROVE  /\ listed' = listed /\ stage' = stage /\ before' = before
         /\ txn'[Lister] = txn[Lister]
         /\ pc' \in {"add", "link"} => cur' # Lister
         /\ \/ SameEntries /\ pc' = pc /\ cur' = cur /\ out' = out
            \/ SameEntries /\ ~Answering /\ ~Answering'
            \/ AddFresh /\ ~Answering /\ ~Answering'
            \/ List /\ cur = Lister
<1>0. ~Answering /\ Next /\ listed' = listed /\ stage' = stage /\ before' = before
  BY DEF Others, listVars, Answering
<1> USE ListerFacts DEF SameEntries
<1>1. ASSUME NEW p \in Procs, NEW r \in MayRequest[p], Send(p, r)
      PROVE  /\ SameEntries /\ pc' = pc /\ cur' = cur /\ out' = out
             /\ txn'[Lister] = txn[Lister]
  BY <1>1, ListerAssumption DEF Send
<1>2. ASSUME NEW p \in Procs, Die(p) \/ ReadTxn(p)
      PROVE  /\ SameEntries /\ txn' = txn
             /\ \/ pc' = pc /\ cur' = cur /\ out' = out
                \/ pc' = "txn"
  BY <1>2 DEF Die, ReadTxn
<1>3. ASSUME NEW h \in Handles, ReadDead(h)
      PROVE  SameEntries /\ txn' = txn /\ pc' = "dead"
  BY <1>3 DEF ReadDead
<1>4. ASSUME NEW pol \in Policies, UpdatePolicy(pol)
      PROVE  SameEntries /\ txn' = txn /\ pc' = pc /\ cur' = cur /\ out' = out
  BY <1>4 DEF UpdatePolicy
<1>5. CASE DeadBinder
  <2>1. svclist' = svclist /\ txn' = txn /\ pc' = "read"
    BY <1>5 DEF DeadBinder
  <2>2. svc' = svc \/ svc' = [svc EXCEPT ![obit].handle = 0]
    BY <1>5 DEF DeadBinder
  <2>3. ASSUME NEW n \in Names
        PROVE  svc'[n].dumpsys_priority = svc[n].dumpsys_priority
    BY <2>2 DEF SvcInfo
  <2>4. SameEntries
    BY <2>1, <2>3
  <2> QED BY <1>0, <2>1, <2>4 DEF Answering
<1>6. CASE Ping \/ BadId \/ Unknown \/ Get \/ AddReject
  <2>1. SameEntries /\ txn' = txn /\ cur' = cur /\ pc' = "reply"
    BY <1>6 DEF Ping, BadId, Unknown, Get, AddReject, Answer
  <2>2. pc = "txn" /\ txn[cur].code # "LIST"
    BY <1>6 DEF Ping, BadId, Unknown, Get, AddReject, Handle
  <2> QED BY <1>0, <2>1, <2>2 DEF Question, Answering
<1>7. CASE List
  BY <1>0, <1>7 DEF List, Answer, Answering
<1>8. CASE AddOverride \/ AddTake \/ AddRevive \/ AddFresh
  <2>1. cur # Lister
    <3>1. CASE AddTake
      BY <3>1 DEF AddTake, Asking
    <3>2. CASE AddOverride \/ AddRevive \/ AddFresh
      BY <3>2 DEF AddOverride, AddRevive, AddFresh, Handle, Question
    <3> QED BY <1>8, <3>1, <3>2
  <2>2. txn' = txn /\ cur' = cur /\ pc' \in {"add", "link"}
    BY <1>8 DEF AddOverride, AddTake, AddRevive, AddFresh
  <2>3. SameEntries \/ AddFresh
    BY <1>8 DEF AddOverride, AddTake, AddRevive, SvcInfo
  <2> QED BY <1>0, <2>1, <2>2, <2>3 DEF Answering
<1>9. CASE AddLink
  BY <1>0, <1>9 DEF AddLink, Answer, Asking, Answering
<1>10. CASE SendReply
  BY <1>0, <1>10 DEF SendReply, Answering
<1> HIDE DEF SameEntries
<1>11. ASSUME \/ \E p \in Procs : \/ \E r \in MayRequest[p] : Send(p, r)
                                 \/ Die(p) \/ ReadTxn(p)
              \/ \E h \in Handles : ReadDead(h)
              \/ \E pol \in Policies : UpdatePolicy(pol)
       PROVE  /\ SameEntries /\ txn'[Lister] = txn[Lister]
              /\ \/ pc' = pc /\ cur' = cur /\ out' = out
                 \/ pc' \in {"txn", "dead"}
  BY <1>1, <1>2, <1>3, <1>4, <1>11
<1>12. ASSUME \/ \E p \in Procs : \/ \E r \in MayRequest[p] : Send(p, r)
                                 \/ Die(p) \/ ReadTxn(p)
              \/ \E h \in Handles : ReadDead(h)
              \/ \E pol \in Policies : UpdatePolicy(pol)
       PROVE  /\ txn'[Lister] = txn[Lister]
              /\ pc' \in {"add", "link"} => cur' # Lister
              /\ \/ SameEntries /\ pc' = pc /\ cur' = cur /\ out' = out
                 \/ SameEntries /\ ~Answering /\ ~Answering'
  BY <1>0, <1>11, <1>12 DEF Asking, Answering
<1> QED
  BY <1>0, <1>12, <1>5, <1>6, <1>7, <1>8, <1>9, <1>10
     DEF Next, Serve, svcmgr_handler

LEMMA SameCovers ==
  ASSUME svclist \in Seq(Names), SameEntries, before' = before,
         NEW l, Covers(l)
  PROVE  Covers(l)'
<1>1. Listed(Flags)' = Listed(Flags)
  BY ListedFinite DEF Listed, SameEntries
<1>2. \A i : Ahead(i)' = Ahead(i)
  BY <1>1 DEF Ahead
<1>3. \A i : Rank(i)' = Rank(i)
  BY <1>2 DEF Rank
<1> QED BY <1>1, <1>3 DEF Covers, ToCome, SameEntries, Due

LEMMA Shifted ==
  ASSUME NEW A \in SUBSET Nat, NEW B, IsFiniteSet(B), \A j \in A : j + 1 \in B
  PROVE  Cardinality(A) <= Cardinality(B)
<1> DEFINE f == [j \in A |-> j + 1]
<1>1. f \in [A -> B] /\ \A i, j \in A : f[i] = f[j] => i = j
  OBVIOUS
<1>2. f \in Injection(A, B)
  BY <1>1 DEF Injection, IsInjective
<1> QED BY <1>2, FS_Injection

(* An entry put in front only moves the others away from the lister's      *)
(* index.                                                                  *)
LEMMA FreshCovers ==
  ASSUME Base, AddFresh, before' = before, NEW l \in Seq(Strings), Covers(l)
  PROVE  Covers(l)'
<1> DEFINE n0 == txn[cur].name
<1>1. /\ n0 \in Names /\ svclist \in Seq(Names) /\ svc \in [Names -> SvcInfo]
      /\ n0 \notin Registered /\ svclist' = <<n0>> \o svclist
  BY AddFacts DEF AddFresh, Base, RefInv, TypeOK
<1>2. /\ Len(svclist) \in Nat /\ Len(svclist') = Len(svclist) + 1
      /\ \A i \in 1..Len(svclist) : svclist'[i + 1] = svclist[i] /\ svclist[i] # n0
  <2>1. \A i \in 1..Len(svclist) : svclist[i] # n0
    BY <1>1 DEF Registered, ToSet
  <2> QED BY <1>1, <2>1
<1>3. \A n \in Names : n # n0 => svc'[n] = svc[n]
  BY <1>1 DEF AddFresh
<1>4. ASSUME NEW i \in Listed(Flags)
      PROVE  i + 1 \in Listed(Flags)' /\ svclist'[i + 1] = svclist[i] /\ i \in Nat
  <2>1. i \in 1..Len(svclist) /\ svc[svclist[i]].dumpsys_priority \cap Flags # {}
    BY DEF Listed
  <2>2. svclist[i] \in Names /\ svc'[svclist[i]] = svc[svclist[i]]
    BY <1>1, <1>2, <1>3, <2>1
  <2>3. i + 1 \in 1..Len(svclist')
    BY <1>2, <2>1
  <2> QED BY <1>2, <2>1, <2>2, <2>3 DEF Listed
<1>5. IsFiniteSet(Listed(Flags)') /\ \A i : IsFiniteSet(Ahead(i)')
  <2>1. Listed(Flags)' \in SUBSET (1..Len(svclist')) /\ IsFiniteSet(1..Len(svclist'))
    BY <1>2, FS_Interval DEF Listed
  <2>2. \A i : Ahead(i)' \in SUBSET (Listed(Flags)')
    BY DEF Ahead
  <2> QED BY <2>1, <2>2, FS_Subset
<1>6. Cardinality(Listed(Flags)) <= Cardinality(Listed(Flags)')
  <2>1. Listed(Flags) \in SUBSET Nat /\ \A j \in Listed(Flags) : j + 1 \in Listed(Flags)'
    BY <1>4
  <2> QED BY <1>5, <2>1, Shifted
<1>7. ASSUME NEW i \in Listed(Flags) PROVE Rank(i) <= Rank(i + 1)'
  <2>1. Ahead(i) \in SUBSET Nat /\ \A j \in Ahead(i) : j + 1 \in Ahead(i + 1)'
    BY <1>4 DEF Ahead
  <2> QED BY <1>5, <2>1, Shifted DEF Rank
<1>8. /\ Cardinality(Listed(Flags)) \in Nat /\ Cardinality(Listed(Flags)') \in Nat
      /\ \A i : Rank(i) \in Nat /\ Rank(i)' \in Nat
  BY <1>1, <1>5, ListedFinite, FS_CardinalityType DEF Rank
<1>9. Len(l) \in Nat
  OBVIOUS
<1>10. ASSUME NEW n, ToCome(n, Len(l)) PROVE ToCome(n, Len(l))'
  <2>1. PICK i \in Listed(Flags) : svclist[i] = n /\ Rank(i) >= Len(l)
    BY <1>10 DEF ToCome
  <2>2. Rank(i + 1)' >= Len(l)
    BY <1>7, <1>8, <1>9, <2>1
  <2> QED BY <1>4, <2>1, <2>2 DEF ToCome
<1> QED BY <1>6, <1>8, <1>9, <1>10 DEF Covers, Due

LEMMA SameKnown ==
  ASSUME listed' = listed, pc' = pc /\ cur' = cur /\ out' = out
  PROVE  Known' = Known /\ (Answering' <=> Answering)
BY DEF Known, Answering

LEMMA NamesTyped ==
  ASSUME Asking
  PROVE  Known \in Seq(Strings) /\ Len(listed) \in Nat
BY DEF Asking, Known

(* From Covers of a fixed sequence to that of the names in the next state. *)
LEMMA CoversNext ==
  ASSUME NEW l, Covers(l)', Known' = l
  PROVE  Covers(Known)'
BY DEF Covers, ToCome, Due

LEMMA OthersListing ==
  ASSUME Base, Listing, Others
  PROVE  Listing'
<1>0. Asking /\ Covers(Known) /\ Complete
  BY DEF Listing
<1>1. /\ listed' = listed /\ stage' = stage /\ before' = before
      /\ txn'[Lister] = txn[Lister]
      /\ pc' \in {"add", "link"} => cur' # Lister
  BY <1>0, OtherSteps
<1>2. svclist \in Seq(Names) /\ Known \in Seq(Strings)
  BY <1>0, NamesTyped, ListerFacts
<1>3. Question' = Question
  BY <1>1 DEF Question
<1> PICK l \in Seq(Strings) : l = Known
  BY <1>2
<1>4. CASE SameEntries /\ pc' = pc /\ cur' = cur /\ out' = out
  <2>1. Known' = l /\ (Answering' <=> Answering)
    BY <1>1, <1>4, SameKnown
  <2>2. Covers(l)'
    BY <1>0, <1>1, <1>2, <1>4, SameCovers
  <2>3. Asking'
    BY <1>0, <1>1, <1>3, <1>4, <2>1 DEF Asking
  <2>4. Complete'
    BY <1>0, <1>1, <1>4, <2>1 DEF Complete, Due
  <2> QED BY <2>1, <2>2, <2>3, <2>4, CoversNext DEF Listing
<1>5. CASE ~Answering /\ ~Answering' /\ (SameEntries \/ AddFresh)
  <2>1. Known = listed /\ Known' = l
    BY <1>1, <1>5 DEF Known
  <2>2. Covers(l)'
    BY <1>0, <1>1, <1>2, <1>5, SameCovers, FreshCovers
  <2>3. Asking'
    BY <1>0, <1>1, <1>3, <1>5 DEF Asking
  <2>4. Complete'
    BY <1>0, <1>1, <1>5 DEF Complete, Due
  <2> QED BY <2>1, <2>2, <2>3, <2>4, CoversNext DEF Listing
<1>6. CASE List /\ cur = Lister
  <2>1. /\ txn[cur] = Question /\ ~Answering /\ Lister \in MayList
        /\ SameEntries /\ cur' = cur /\ pc' = "reply"
    BY <1>0, <1>6, ListerFacts, ListerAssumption
       DEF List, Handle, Answer, Answering, SameEntries
  <2>2. l = listed /\ listed \in Seq(Strings)
    BY <1>0, <2>1 DEF Known, Asking
  <2>3. Answering'
    BY <1>6, <2>1 DEF Answering
  <2>4. Asking' /\ Covers(Known)' /\ Complete'
    <3>1. CASE ListedAt(Flags, Len(l)) = {}
      <4>1. out' = Refused
        BY <1>6, <2>1, <2>2, <3>1 DEF List, Answer, Question
      <4>2. Known' = l /\ out'.status # 0
        BY <1>1, <2>2, <4>1 DEF Known, Refused, NoReply
      <4>3. Covers(l)'
        BY <1>0, <1>1, <1>2, <2>1, SameCovers
      <4>4. Due' \subseteq ToSet(listed')
        BY <1>0, <1>1, <1>2, <2>2, <3>1, RefusalComplete DEF Due
      <4>5. Asking'
        BY <1>0, <1>1, <1>3, <2>1, <4>2 DEF Asking
      <4> QED BY <4>2, <4>3, <4>4, <4>5, CoversNext DEF Complete, Due
    <3>2. CASE ListedAt(Flags, Len(l)) # {}
      <4>1. PICK i \in ListedAt(Flags, Len(l)) :
                 out' = [NoReply EXCEPT !.name = Received(svclist[i])]
        BY <1>6, <2>1, <2>2, <3>2 DEF List, Answer, Question
      <4>2. out'.status = 0 /\ out'.name = Received(svclist[i])
        BY <4>1 DEF NoReply
      <4>3. /\ Covers(Append(l, Received(svclist[i])))
            /\ Received(svclist[i]) \in Strings
        BY <1>0, AnswerCovers
      <4>4. Known' = Append(l, Received(svclist[i]))
        BY <1>1, <2>2, <2>3, <4>2 DEF Known
      <4> PICK k : k = Append(l, Received(svclist[i]))
        OBVIOUS
      <4>5. Covers(k)'
        BY <1>1, <1>2, <2>1, <4>3, SameCovers
      <4>6. Asking'
        BY <1>0, <1>1, <1>3, <2>1, <4>2, <4>3 DEF Asking
      <4>7. Complete'
        BY <1>0, <1>1, <2>1, <4>2 DEF Complete, Due
      <4> QED BY <4>4, <4>5, <4>6, <4>7, CoversNext
    <3> QED BY <3>1, <3>2
  <2> QED BY <2>4 DEF Listing
<1> QED BY <1>0, <1>4, <1>5, <1>6, OtherSteps

LEMMA ToldListing ==
  ASSUME Base, Listing, Told
  PROVE  Listing'
<1>0. Asking /\ Covers(Known) /\ Complete
  BY DEF Listing
<1>1. /\ Answering /\ pc' = "read" /\ cur' = NoProc
      /\ svclist' = svclist /\ svc' = svc /\ before' = before
      /\ txn' = [txn EXCEPT ![Lister] = NoTxn]
      /\ SameEntries
  BY DEF Told, SendReply, Answering, SameEntries
<1>2. /\ listed' = Known /\ listed' \in Seq(Strings)
      /\ IF out.status = 0 THEN stage' = stage ELSE listed' = listed
  BY <1>0, <1>1, NamesTyped DEF Told, Known
<1>3. ~Answering'
  BY <1>1 DEF Answering
<1>4. Known' = listed'
  BY <1>3 DEF Known
<1>5. txn'[Lister] = NoTxn
  BY <1>0, <1>1, ListerFacts
<1> PICK l \in Seq(Strings) : l = Known
  BY <1>0, NamesTyped
<1>6. Covers(l)'
  BY <1>0, <1>1, ListerFacts, SameCovers
<1>7. Asking'
  BY <1>1, <1>2, <1>3, <1>5 DEF Asking
<1>8. Complete'
  <2>1. CASE out.status = 0 /\ stage # "done"
    BY <1>2, <1>3, <2>1 DEF Complete, Due
  <2>2. CASE out.status = 0 /\ stage = "done"
    <3>1. Due \subseteq ToSet(listed)
      BY <1>0, <2>2 DEF Complete, Due
    <3>2. ToSet(listed) \subseteq ToSet(listed')
      <4>1. listed' = Append(listed, out.name) /\ listed \in Seq(Strings)
        BY <1>0, <1>1, <1>2, <2>2 DEF Known, Asking
      <4> QED BY <4>1 DEF ToSet
    <3> QED BY <1>1, <3>1, <3>2 DEF Complete, Due
  <2>3. CASE out.status # 0
    BY <1>0, <1>1, <1>2, <2>3 DEF Complete, Due
  <2> QED BY <2>1, <2>2, <2>3
<1> QED BY <1>2, <1>4, <1>6, <1>7, <1>8, CoversNext DEF Listing

LEMMA AskListing ==
  ASSUME Base, Listing, Ask, stage = "start" => listed = <<>>
  PROVE  Listing'
<1>0. Asking /\ Covers(Known) /\ Complete
  BY DEF Listing
<1>1. /\ txn[Lister] = NoTxn /\ txn' = [txn EXCEPT ![Lister] = Question]
      /\ UNCHANGED <<svclist, svc, pc, cur, out, listed>>
      /\ SameEntries
  BY AskIs DEF Send, SameEntries
<1>2. ~Answering /\ ~Answering'
  BY <1>0, <1>1, ListerFacts DEF Answering
<1>3. Known = listed /\ Known' = listed
  BY <1>1, <1>2 DEF Known
<1>4. Asking'
  BY <1>0, <1>1, <1>2, ListerFacts DEF Asking, Question
<1>5. Complete'
  BY <1>2, AskIs DEF Complete, Due
<1>6. CASE stage = "start"
  <2>1. before' = Matching /\ listed = <<>> /\ svclist \in Seq(Names)
    BY <1>0, <1>6, AskIs, ListerFacts
  <2>2. ASSUME NEW n \in Due' PROVE ToCome(n, 0)'
    <3>1. PICK i \in Listed(Flags) : svclist[i] = n
      BY <2>1 DEF Matching, Due
    <3>2. Listed(Flags)' = Listed(Flags)
      BY <1>1 DEF Listed
    <3>3. Rank(i)' = Rank(i)
      BY <3>2 DEF Rank, Ahead
    <3>4. Rank(i) >= 0
      BY <2>1, ListedFinite
    <3> QED BY <1>1, <3>1, <3>2, <3>3, <3>4 DEF ToCome
  <2>3. Cardinality(Listed(Flags)') >= 0
    <3>1. Listed(Flags)' = Listed(Flags)
      BY <1>1 DEF Listed
    <3> QED BY <2>1, <3>1, ListedFinite
  <2>4. Covers(<<>>)'
    BY <2>2, <2>3 DEF Covers
  <2> PICK l : l = <<>>
    OBVIOUS
  <2>5. Covers(l)'
    BY <2>4
  <2> QED BY <1>3, <1>4, <1>5, <2>1, <2>5, CoversNext DEF Listing
<1>7. CASE stage # "start"
  <2> PICK l : l = listed
    OBVIOUS
  <2>1. before' = before
    BY <1>7, AskIs
  <2>2. Covers(l)'
    BY <1>0, <1>1, <1>3, <2>1, ListerFacts, SameCovers
  <2> QED BY <1>3, <1>4, <1>5, <2>2, CoversNext DEF Listing
<1> QED BY <1>6, <1>7

(* Before it begins the lister has asked nothing.                          *)
Fresh == stage = "start" => listed = <<>> /\ txn[Lister] = NoTxn

LEMMA FreshNext ==
  ASSUME Base, Asking, Fresh, [ListNext]_<<vars, listVars>>
  PROVE  Fresh'
<1>1. CASE Ask
  BY <1>1, AskIs DEF Fresh
<1>2. CASE Told
  <2>1. cur = Lister /\ pc = "reply" /\ txn[Lister] # NoTxn
    BY <1>2, ListerFacts DEF Told, SendReply
  <2> QED BY <1>2, <2>1 DEF Told, Fresh
<1>3. CASE Others
  BY <1>3, OtherSteps DEF Fresh
<1>4. CASE UNCHANGED <<vars, listVars>>
  BY <1>4 DEF Fresh, vars, listVars
<1> QED BY <1>1, <1>2, <1>3, <1>4 DEF ListNext

LEMMA ListingInit == ListInit => Base /\ Listing /\ Fresh
<1> SUFFICES ASSUME ListInit PROVE Base /\ Listing /\ Fresh
  OBVIOUS
<1>1. Init /\ stage = "start" /\ listed = <<>> /\ before = {}
  BY DEF ListInit
<1>2. Base
  BY <1>1, RefInvInit, ListInvInit DEF Base
<1>3. /\ svclist = <<>> /\ pc = "read" /\ txn[Lister] = NoTxn
  BY <1>1, ListerAssumption, ManagerAssumption DEF Init
<1>4. Cardinality(Listed(Flags)) \in Nat
  BY <1>2, ListedFinite DEF Base, RefInv, TypeOK
<1>5. ~Answering /\ Known = <<>>
  BY <1>1, <1>3 DEF Answering, Known
<1>6. Covers(Known)
  BY <1>1, <1>4, <1>5 DEF Covers, Due
<1> QED BY <1>1, <1>2, <1>3, <1>5, <1>6 DEF Listing, Asking, Complete, Fresh

LEMMA ListingNext ==
  ASSUME Base, Listing, Fresh, [ListNext]_<<vars, listVars>>
  PROVE  Base' /\ Listing' /\ Fresh'
<1>1. Base' /\ Fresh'
  BY BaseNext, FreshNext DEF Listing
<1> SUFFICES Listing'
  BY <1>1
<1>2. CASE UNCHANGED <<vars, listVars>>
  BY <1>2 DEF Listing, Due, Asking, Question, Covers, ToCome, Rank, Ahead, Listed,
     Known, Answering, Complete, vars, listVars
<1>3. CASE Ask
  BY <1>3, AskListing DEF Fresh
<1>4. CASE Told \/ Others
  BY <1>4, ToldListing, OthersListing
<1> QED BY <1>1, <1>2, <1>3, <1>4 DEF ListNext

(* The lister has seen, or has still to come to, everything that was there *)
(* when it began.                                                          *)
THEOREM ListingInvariant == ListSpec => [](Base /\ Listing /\ Fresh)
BY ListingInit, ListingNext, PTL DEF ListSpec

(* No service that was registered when the listing began under a name that *)
(* fits a reply is left out, whatever registers, takes names over and dies *)
(* meanwhile, and however many names are lost on the way.                  *)
THEOREM NoneMissed == ListSpec => []NothingMissed
<1>1. Listing => NothingMissed
  BY DEF Listing, Complete, NothingMissed, Due
<1> QED BY <1>1, ListingInvariant, PTL

(* An answer only repeats a name, or tells none, for an entry that was put *)
(* in front since or whose name does not fit.                              *)
THEOREM RepeatsExplained == ListSpec => []RepeatsAccounted
<1>1. ASSUME Base, Listing PROVE RepeatsAccounted
  <2>0. Asking /\ Covers(Known)
    BY <1>1 DEF Listing
  <2>1. Known \in Seq(Strings) /\ listed \in Seq(Strings)
    BY <2>0, NamesTyped DEF Asking
  <2>2. /\ Len(Known) <= Cardinality(ToldNames(Known)) + Cardinality(Matching \ Due)
        /\ IsFiniteSet(ToldNames(Known)) /\ IsFiniteSet(Matching \ Due)
    BY <1>1, <2>0, <2>1, Accounted
  <2>3. ASSUME Len(listed) <= Cardinality(ToldNames(listed)) + Cardinality(Matching \ Due),
               IsFiniteSet(ToldNames(listed))
        PROVE  RepeatsAccounted
    BY <2>1, <2>2, <2>3, FS_CardinalityType DEF RepeatsAccounted, ToldNames, Due
  <2>4. CASE Known = listed
    BY <2>2, <2>3, <2>4
  <2>5. CASE Known # listed
    <3>1. Known = Append(listed, out.name) /\ out.name \in Strings
      BY <2>0, <2>5 DEF Known, Asking
    <3>2. /\ ToSet(Known) = ToSet(listed) \cup {out.name}
          /\ Len(Known) = Len(listed) + 1 /\ Len(listed) \in Nat
      BY <2>1, <3>1 DEF ToSet
    <3>3. /\ ToldNames(Known) \in SUBSET (ToldNames(listed) \cup {out.name})
          /\ ToldNames(listed) \in SUBSET ToldNames(Known)
      BY <3>2 DEF ToldNames
    <3>4. /\ IsFiniteSet(ToldNames(listed)) /\ IsFiniteSet(ToldNames(listed) \cup {out.name})
          /\ Cardinality(ToldNames(listed)) \in Nat
      BY <2>2, <3>3, FS_Subset, FS_AddElement, FS_CardinalityType
    <3>5. Cardinality(ToldNames(listed) \cup {out.name}) <= Cardinality(ToldNames(listed)) + 1
      BY <3>4, FS_AddElement
    <3>6. /\ Cardinality(ToldNames(Known)) <= Cardinality(ToldNames(listed) \cup {out.name})
          /\ Cardinality(ToldNames(listed) \cup {out.name}) \in Nat
          /\ Cardinality(ToldNames(Known)) \in Nat
          /\ Cardinality(Matching \ Due) \in Nat
      BY <2>2, <3>3, <3>4, FS_Subset, FS_CardinalityType
    <3> QED BY <2>2, <2>3, <3>2, <3>4, <3>5, <3>6
  <2> QED BY <2>4, <2>5
<1> QED BY <1>1, ListingInvariant, PTL

(* No listing takes more answers than there are matching names, and no     *)
(* more than there are names, which is why it ends if it is answered.      *)
THEOREM ListingsBounded ==
  ListSpec => [](ListingBounded /\ Len(listed) <= Cardinality(Names))
<1>1. ASSUME Base, Listing
      PROVE  ListingBounded /\ Len(listed) <= Cardinality(Names)
  <2>0. Asking /\ Covers(Known)
    BY <1>1 DEF Listing
  <2>1. /\ svclist \in Seq(Names) /\ listed \in Seq(Strings)
        /\ Known \in Seq(Strings)
    BY <1>1, <2>0, NamesTyped DEF Asking, Base, RefInv, TypeOK
  <2>2. Len(listed) <= Len(Known)
    BY <2>1 DEF Known
  <2>3. IsFiniteSet(Listed(Flags)) /\ Cardinality(Listed(Flags)) \in Nat
    BY <2>1, ListedFinite
  <2>4. Matching \in SUBSET Names
    BY <2>1, ListedFinite DEF Matching
  <2>5. /\ IsFiniteSet(Matching) /\ Cardinality(Matching) \in Nat
        /\ Cardinality(Matching) <= Cardinality(Names)
        /\ Cardinality(Names) \in Nat
    BY <2>4, DriverAssumption, FS_Subset, FS_CardinalityType
  <2> DEFINE f == [i \in Listed(Flags) |-> svclist[i]]
  <2>6. f \in Injection(Listed(Flags), Matching)
    <3>1. f \in [Listed(Flags) -> Matching]
      BY DEF Matching
    <3>2. \A i, j \in Listed(Flags) : f[i] = f[j] => i = j
      BY <1>1, <2>1, ListedFinite DEF Base, ListInv, ListOK
    <3> QED BY <3>1, <3>2 DEF Injection, IsInjective
  <2>7. Cardinality(Listed(Flags)) <= Cardinality(Matching)
    BY <2>5, <2>6, FS_Injection
  <2>8. Len(Known) <= Cardinality(Listed(Flags))
    BY <2>0 DEF Covers
  <2>9. Len(listed) \in Nat /\ Len(Known) \in Nat
    BY <2>1
  <2> QED BY <2>2, <2>3, <2>5, <2>7, <2>8, <2>9 DEF ListingBounded
<1> QED BY <1>1, ListingInvariant, PTL
=============================================================================
