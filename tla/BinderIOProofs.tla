--------------------------- MODULE BinderIOProofs ---------------------------
(***************************************************************************)
(* Proofs about BinderIO: for buffers, objects and messages of every size, *)
(* what is put stays in the space that bio_init set apart for it, and is   *)
(* read in order or not at all.                                            *)
(***************************************************************************)
EXTENDS BinderIO, TLAPS

(* The builds in which binder_size_t is no wider than size_t.              *)
OffsetsFit == OffT <= SizeT

(* The entries used, at the size they have, fit into what bio_init has     *)
(* reserved at the size of a size_t.                                       *)
EntriesFit == Len(bio.offs) * OffT <= MaxOffs * SizeT

(* What every operation of the sender keeps: no more entries are used and  *)
(* left than were asked for, their space is in front of the data, and the  *)
(* bytes used and those left behind it.                                    *)
Layout(b) ==
  /\ Len(b.offs) + b.offs_avail <= MaxOffs
  /\ b.data0 = MaxOffs * SizeT \/ Len(b.offs) + b.offs_avail = 0
  /\ b.data0 <= b.data
  /\ b.data + b.data_avail <= MaxData

Inv == TypeOK /\ Layout(bio)

(* A rounded size is a size.                                               *)
LEMMA RoundType == \A size \in Nat : Round4(size) \in Nat
  <1> SUFFICES ASSUME NEW size \in Nat PROVE Round4(size) \in Nat
    OBVIOUS
  <1>1. (size + 3) % SizeMod \in Nat
    BY SizeAssumption
  <1> QED
    BY <1>1 DEF Round4

(* bio_alloc moves data and data_avail together, or not at all.            *)
LEMMA AllocKeeps ==
  ASSUME NEW b \in Bio, Layout(b), NEW size \in Nat, NEW cell \in Cells
  PROVE  LET c == bio_alloc(b, size, cell)
         IN  /\ c \in Bio /\ Layout(c)
             /\ c.offs = b.offs /\ c.offs_avail = b.offs_avail
             /\ c.data0 = b.data0
  <1>1. Round4(size) \in Nat
    BY RoundType
  <1>2. CASE Round4(size) > b.data_avail
    BY <1>2 DEF bio_alloc, Bio, Layout
  <1>3. CASE ~(Round4(size) > b.data_avail)
    <2> DEFINE c == bio_alloc(b, size, cell)
    <2>1. c = [b EXCEPT !.data = @ + Round4(size),
                        !.data_avail = @ - Round4(size),
                        !.mem = @ \cup {<<b.data, cell>>}]
      BY <1>3 DEF bio_alloc
    <2>2. /\ b.data + Round4(size) \in Nat
          /\ b.data_avail - Round4(size) \in Nat
          /\ b.mem \cup {<<b.data, cell>>} \in SUBSET (Nat \X Cells)
      BY <1>1, <1>3 DEF Bio
    <2>3. /\ c \in Bio
          /\ c.data = b.data + Round4(size)
          /\ c.data_avail = b.data_avail - Round4(size)
          /\ c.offs = b.offs /\ c.offs_avail = b.offs_avail
          /\ c.data0 = b.data0
      <3> HIDE DEF c
      <3> QED
        BY <2>1, <2>2 DEF Bio
    <2>4. b.data \in Nat /\ b.data_avail \in Nat /\ b.data0 \in Nat
          /\ MaxData \in Nat
      BY SizeAssumption DEF Bio
    <2>5. Layout(c)
      <3> HIDE DEF c
      <3> QED
        BY <1>1, <2>3, <2>4 DEF Layout
    <2> QED
      BY <2>3, <2>5
  <1> QED
    BY <1>2, <1>3

(* bio_alloc_obj takes one entry for one object.                           *)
LEMMA AllocObjKeeps ==
  ASSUME NEW b \in Bio, Layout(b), NEW cell \in Cells
  PROVE  /\ bio_alloc_obj(b, cell) \in Bio
         /\ Layout(bio_alloc_obj(b, cell))
  <1> DEFINE c == bio_alloc(b, ObjSize, cell)
             d == bio_alloc(b, ObjSize, Junk)
  <1>0. ObjSize \in Nat /\ OffT \in Nat /\ Junk \in Cells
    BY SizeAssumption DEF Junk, Cells
  <1>1. c \in Bio /\ Layout(c) /\ c.offs = b.offs
        /\ c.offs_avail = b.offs_avail /\ c.data0 = b.data0
    BY <1>0, AllocKeeps
  <1>2. d \in Bio /\ Layout(d)
    BY <1>0, AllocKeeps
  <1>3. CASE Round4(ObjSize) <= b.data_avail /\ b.offs_avail > 0
    <2> DEFINE e == [c EXCEPT !.offs = Append(@, b.data - b.data0),
                              !.offs_avail = @ - 1]
    <2> HIDE DEF c
    <2>1. b.data - b.data0 \in Nat
      BY DEF Bio, Layout
    <2>0. /\ Append(b.offs, b.data - b.data0) \in Seq(Nat)
          /\ Len(Append(b.offs, b.data - b.data0)) = Len(b.offs) + 1
          /\ b.offs_avail - 1 \in Nat
      BY <1>3, <2>1 DEF Bio
    <2>2. /\ e \in Bio /\ e.offs = Append(b.offs, b.data - b.data0)
          /\ e.offs_avail = b.offs_avail - 1 /\ e.data0 = b.data0
          /\ e.data = c.data /\ e.data_avail = c.data_avail
      BY <1>1, <2>0 DEF Bio
    <2>3. (Len(b.offs) + 1) + (b.offs_avail - 1)
            = Len(b.offs) + b.offs_avail
      BY DEF Bio
    <2>4. Layout(e)
      BY <1>1, <2>0, <2>2, <2>3 DEF Layout
    <2> QED
      BY <1>3, <2>2, <2>4 DEF bio_alloc_obj, c
  <1>4. CASE ~(Round4(ObjSize) <= b.data_avail /\ b.offs_avail > 0)
    <2> HIDE DEF d
    <2>1. [d EXCEPT !.overflow = TRUE] \in Bio
          /\ Layout([d EXCEPT !.overflow = TRUE])
      BY <1>2 DEF Bio, Layout
    <2> QED
      BY <1>4, <2>1 DEF bio_alloc_obj, d
  <1> QED
    BY <1>3, <1>4

(* So does every bio_put_*.                                                *)
LEMMA PutKeeps ==
  ASSUME NEW b \in Bio, Layout(b), NEW i \in Item
  PROVE  PutInto(b, i) \in Bio /\ Layout(PutInto(b, i))
  <1>0. i.v \in Nat /\ ObjSize \in Nat /\ NullLen \in Nat
        /\ i.kind \in {"uint32", "string16", "null", "obj", "ref"}
    BY SizeAssumption DEF Item
  <1>1. \A n \in Nat : Word(n) \in Cells /\ Chars(n) \in Cells
                       /\ Obj(n) \in Cells
    BY DEF Word, Chars, Obj, Cells
  <1>2. \A n \in Nat : bio_put_uint32(b, n) \in Bio
                       /\ Layout(bio_put_uint32(b, n))
    BY <1>1, AllocKeeps DEF bio_put_uint32
  <1>3. CASE i.kind = "uint32"
    BY <1>0, <1>2, <1>3 DEF PutInto
  <1>4. CASE i.kind = "string16"
    <2>1. (i.v + 1) * 2 \in Nat
      BY <1>0
    <2>2. bio_put_string16(b, i.v) \in Bio /\ Layout(bio_put_string16(b, i.v))
      BY <1>0, <1>1, <1>2, <2>1, AllocKeeps DEF bio_put_string16
    <2> QED
      BY <1>4, <2>2 DEF PutInto
  <1>5. CASE i.kind = "null"
    BY <1>0, <1>2, <1>5 DEF PutInto
  <1>6. CASE i.kind = "obj"
    BY <1>0, <1>1, <1>6, AllocObjKeeps DEF PutInto, bio_put_obj
  <1>7. CASE i.kind = "ref"
    <2>1. CASE i.v # 0
      BY <1>0, <1>1, <1>7, <2>1, AllocObjKeeps DEF PutInto, bio_put_ref
    <2>2. CASE i.v = 0
      BY <1>0, <1>1, <1>7, <2>2, AllocKeeps DEF PutInto, bio_put_ref
    <2> QED
      BY <2>1, <2>2
  <1> QED
    BY <1>0, <1>3, <1>4, <1>5, <1>6, <1>7

(* Reading counts down, to zero at the least.                              *)
LEMMA SkipType ==
  ASSUME NEW m \in [data : Nat, data_avail : Nat], NEW size \in Nat
  PROVE  bio_skip(m, size) \in [data : Nat, data_avail : Nat]
  <1>1. Round4(size) \in Nat
    BY RoundType
  <1> QED
    BY <1>1 DEF bio_skip

(* bio_init sets the space of the entries apart.                           *)
LEMMA InitInv ==
  ASSUME Init
  PROVE  Inv
  <1>1. MaxOffs * SizeT \in Nat /\ MaxOffs \in Nat
    BY SizeAssumption
  <1>2. bio_init \in Bio /\ Layout(bio_init)
    BY <1>1, SizeAssumption DEF bio_init, Bio, Layout
  <1> QED
    BY <1>2 DEF Init, Inv, TypeOK

(* What is read is a cell of the message or no pointer.                    *)
LEMMA GetType ==
  ASSUME TypeOK, NEW m \in [data : Nat, data_avail : Nat], NEW size \in Nat
  PROVE  bio_get(m, size) \in Cells \cup {Null, Empty}
  <1> DEFINE here == {w \in bio.mem : w[1] = bio.data0 + m.data}
  <1>1. here \subseteq Nat \X Cells
    BY DEF TypeOK, Bio
  <1>2. here # {} => (CHOOSE w \in here : TRUE) \in here
    OBVIOUS
  <1>3. here # {} => (CHOOSE w \in here : TRUE)[2] \in Cells
    BY <1>1, <1>2
  <1>4. Junk \in Cells
    BY DEF Junk, Cells
  <1> HIDE DEF here
  <1> QED
    BY <1>3, <1>4 DEF bio_get, here

(* What is not a word reads as the number 0.                               *)
LEMMA Uint32Type ==
  ASSUME TypeOK, NEW m \in [data : Nat, data_avail : Nat]
  PROVE  Uint32(m) \in Nat
  <1>1. bio_get(m, 4) \in Cells \cup {Null, Empty}
    BY GetType
  <1> QED
    BY <1>1 DEF Uint32, Cells, Null, Empty

(* One step per action: every put and get, a call and a reply.             *)
LEMMA NextInv == Inv /\ [Next]_vars => Inv'
  <1> SUFFICES ASSUME Inv, [Next]_vars PROVE Inv'
    OBVIOUS
  <1> USE DEF Inv, TypeOK
  <1>1. ASSUME NEW i \in Items, Put(i) PROVE Inv'
    <2>1. i \in Item
      BY SizeAssumption
    <2>2. bio' \in Bio /\ Layout(bio')
      BY <1>1, <2>1, PutKeeps DEF Put
    <2>3. sent' \in Seq(Item) /\ Len(sent') = Len(sent) + 1
      BY <1>1, <2>1 DEF Put
    <2> QED
      BY <1>1, <2>2, <2>3 DEF Put
  <1>2. bio.data - bio.data0 \in Nat
    BY DEF Layout, Bio
  <1>3. CASE Call
    BY <1>2, <1>3 DEF Call, bio_init_from_txn
  <1>4. CASE SendReply
    BY <1>2, <1>4 DEF SendReply, bio_init_from_txn
  <1>5. CASE Get
    <2>1. UNCHANGED <<bio, sent, phase>> /\ Len(got) < Len(sent)
      BY <1>5 DEF Get
    <2>2. CASE GetUint32
      BY <2>1, <2>2, SkipType DEF GetUint32
    <2>3. CASE GetString16
      <3> DEFINE rest == bio_skip(msg, 4)
                 size == ((Uint32(msg) + 1) * 2) % SizeMod
      <3>1. size \in Nat
        BY Uint32Type, SizeAssumption
      <3>2. msg' = bio_skip(rest, size) /\ rest \in [data : Nat, data_avail : Nat]
        BY <2>3, SkipType DEF GetString16
      <3>3. msg' \in [data : Nat, data_avail : Nat]
        BY <3>1, <3>2, SkipType
      <3> QED
        BY <2>1, <2>3, <3>3 DEF GetString16
    <2>4. CASE GetRef
      <3>1. ObjSize \in Nat
        BY SizeAssumption
      <3>2. msg' \in [data : Nat, data_avail : Nat]
        BY <2>4, <3>1, SkipType DEF GetRef
      <3> QED
        BY <2>1, <2>4, <3>2 DEF GetRef
    <2> QED
      BY <1>5, <2>2, <2>3, <2>4 DEF Get
  <1>6. CASE UNCHANGED vars
    BY <1>6 DEF vars
  <1> QED
    BY <1>1, <1>3, <1>4, <1>5, <1>6 DEF Next

(* The layout says where the entries are, EntriesFit how long they are.    *)
LEMMA InvImplies == EntriesFit /\ Inv => OffsetsReserved
  <1> SUFFICES ASSUME EntriesFit, Inv PROVE OffsetsReserved
    OBVIOUS
  <1>1. Len(bio.offs) \in Nat /\ bio.offs_avail \in Nat /\ bio.data0 \in Nat
        /\ OffT \in Nat
    BY SizeAssumption DEF Inv, TypeOK, Bio
  <1>2. Len(bio.offs) * OffT <= bio.data0
    <2>1. CASE bio.data0 = MaxOffs * SizeT
      BY <2>1 DEF EntriesFit
    <2>2. CASE Len(bio.offs) + bio.offs_avail = 0
      BY <1>1, <2>2
    <2> QED
      BY <2>1, <2>2 DEF Inv, Layout
  <1> QED
    BY <1>2 DEF Inv, Layout, OffsetsReserved

(* The invariant holds throughout.                                         *)
THEOREM InvHolds == Spec => []Inv
  <1>1. Init => Inv
    BY InitInv
  <1> QED
    BY <1>1, NextInv, PTL DEF Spec

(* The state of a message keeps its types; in particular no count of what  *)
(* is left, of bytes, of entries or of bytes to read, goes below zero.     *)
THEOREM TypeCorrect == Spec => []TypeOK
  <1>1. Inv => TypeOK
    BY DEF Inv
  <1> QED
    BY InvHolds, <1>1, PTL

(* In any build no offset entry is stored where data is, and no data       *)
(* behind the buffer, as long as the entries used have room in what        *)
(* bio_init reserved: with 8-byte entries and a 4-byte size_t, as long as  *)
(* a message has half the objects it was made for.                         *)
THEOREM FewObjectsFit == Spec => [](EntriesFit => OffsetsReserved)
  <1>1. Inv => (EntriesFit => OffsetsReserved)
    BY InvImplies
  <1> QED
    BY InvHolds, <1>1, PTL

(* That room is all that can be missing: the promise of bio_init, whatever *)
(* is put, where binder_size_t is not wider than size_t.                   *)
THEOREM OffsetsCorrect ==
  ASSUME OffsetsFit
  PROVE  Spec => []OffsetsReserved
  <1>1. Inv => EntriesFit
    <2> SUFFICES ASSUME Inv PROVE EntriesFit
      OBVIOUS
    <2>1. Len(bio.offs) \in Nat /\ Len(bio.offs) <= MaxOffs
      BY SizeAssumption DEF Inv, TypeOK, Bio, Layout
    <2>2. /\ OffT \in {4, 8} /\ SizeT \in {4, 8} /\ OffT <= SizeT
          /\ MaxOffs \in Nat
      BY SizeAssumption DEF OffsetsFit
    <2>3. Len(bio.offs) * OffT <= MaxOffs * SizeT
      BY <2>1, <2>2
    <2> QED
      BY <2>3 DEF EntriesFit
  <1>2. Inv => OffsetsReserved
    BY <1>1, InvImplies
  <1> QED
    BY InvHolds, <1>2, PTL
-----------------------------------------------------------------------------
(* What the receiver finds.                                                *)

(* Sizes that do not wrap, except that of the null string, which is out of *)
(* reach: true where a size_t is wider than a uint32_t.                    *)
WideSizes ==
  /\ SizeMod > 7 /\ SizeMod > ObjSize + 3
  /\ \A i \in Items : i.kind = "string16" => (i.v + 1) * 2 + 3 < SizeMod
  /\ Round4(((NullLen + 1) * 2) % SizeMod) > MaxData

(* The bytes of the message, and those from an offset to the end of the    *)
(* buffer, used or not.                                                    *)
Used(b) == b.data - b.data0
Room(b, a) == b.data + b.data_avail - b.data0 - a

Holds(b, a, cell) ==
  {w \in b.mem : w[1] = b.data0 + a} = {<<b.data0 + a, cell>>}

(* How an item lies between the offsets a and z: there it is, or it did    *)
(* not fit and whoever looks for it finds too few bytes or no entry.       *)
CharBytes(i) == Round4((i.v + 1) * 2)
WordOf(i) == IF i.kind = "null" THEN NullLen ELSE i.v

WordLaid(b, i, a, z) ==
  \/ z = a + 4 /\ Holds(b, a, Word(WordOf(i)))
  \/ z = a /\ b.overflow /\ Room(b, a) < 4

StringLaid(b, i, a, z) ==
  \/ /\ z = a + 4 + CharBytes(i)
     /\ Holds(b, a, Word(i.v)) /\ Holds(b, a + 4, Chars(i.v))
  \/ z = a /\ b.overflow /\ Room(b, a) < 4
  \/ /\ z = a + 4 /\ Holds(b, a, Word(i.v))
     /\ b.overflow /\ Room(b, a + 4) < CharBytes(i)

NoEntry(b, a, z) ==
  /\ a \notin ToSet(b.offs)
  /\ \/ z = a /\ Room(b, a) < ObjSize
     \/ z = a + ObjSize

ObjLaid(b, i, a, z) ==
  \/ /\ z = a + ObjSize /\ Holds(b, a, Obj(i.v))
     /\ a \in ToSet(b.offs)
  \/ NoEntry(b, a, z) /\ (b.overflow \/ (i.kind = "ref" /\ i.v = 0))

Laid(b, i, a, z) ==
  /\ i.kind \in {"uint32", "null"} => WordLaid(b, i, a, z)
  /\ i.kind = "string16" => StringLaid(b, i, a, z)
  /\ i.kind \in {"obj", "ref"} => ObjLaid(b, i, a, z)

(* What is stored is stored before the place of the next item.             *)
Below(b) ==
  /\ \A w \in b.mem : w[1] < b.data
  /\ \A o \in ToSet(b.offs) : o < Used(b)

Chain(b, s, at) ==
  /\ at \in [1..Len(s) + 1 -> Nat]
  /\ at[1] = 0 /\ at[Len(s) + 1] = Used(b)
  /\ \A k \in 1..Len(s) + 1 : at[k] <= Used(b)
  /\ \A k \in 1..Len(s) : Laid(b, s[k], at[k], at[k + 1])

(* A receiver that has everything so far, and one that finds no more.      *)
Going(at) ==
  /\ \A i \in 1..Len(got) : Same(i)
  /\ msg.data = at[Len(got) + 1]
  /\ msg.data_avail = Used(bio) - at[Len(got) + 1]

Ended ==
  /\ msg.data_avail = 0
  /\ \E k \in 0..Len(got) :
       /\ \A i \in 1..Len(got) : IF i <= k THEN Same(i)
                                           ELSE got[i] = Nothing(sent[i])
       /\ phase = "call" => k >= 1 /\ Void(sent[k])

Message ==
  /\ sent \in Seq(Items) /\ got \in Seq(Cells \cup {Null})
  /\ Below(bio)
  /\ phase = "call" => ~bio.overflow
  /\ phase \in {"put", "failed"} => got = <<>>
  /\ \E at \in [1..Len(sent) + 1 -> Nat] :
       /\ Chain(bio, sent, at)
       /\ phase \in {"call", "reply"} => Going(at) \/ Ended

(* What a put does to what is there already.                               *)
Grows(b, c) ==
  /\ c.data0 = b.data0 /\ c.data + c.data_avail = b.data + b.data_avail
  /\ b.data <= c.data /\ (b.overflow => c.overflow)
  /\ b.mem \subseteq c.mem /\ \A w \in c.mem : w \in b.mem \/ w[1] >= b.data
  /\ ToSet(b.offs) \subseteq ToSet(c.offs)
  /\ \A o \in ToSet(c.offs) :
       o \in ToSet(b.offs) \/ (o >= Used(b) /\ Room(b, o) >= ObjSize)

LEMMA Rounds ==
  ASSUME WideSizes
  PROVE  /\ Round4(4) = 4 /\ Round4(ObjSize) = ObjSize /\ ObjSize >= 4
         /\ Round4(2) = 4
         /\ \A i \in Items : i.kind = "string16" =>
              /\ CharBytes(i) \in Nat /\ CharBytes(i) >= 4
              /\ ((i.v + 1) * 2) % SizeMod = (i.v + 1) * 2
<1>1. \A n \in Nat : n < SizeMod => n % SizeMod = n
  BY SizeAssumption
<1>2. Round4(4) = 4 /\ Round4(2) = 4
  <2>1. (4 + 3) % SizeMod = 7 /\ (2 + 3) % SizeMod = 5
    BY <1>1, SizeAssumption DEF WideSizes
  <2> QED BY <2>1 DEF Round4
<1>3. Round4(ObjSize) = ObjSize /\ ObjSize >= 4
  <2>1. /\ (ObjSize + 3) % SizeMod = ObjSize + 3
        /\ ObjSize \in Nat /\ ObjSize % 4 = 0 /\ ObjSize # 0
    BY <1>1, SizeAssumption DEF WideSizes
  <2> QED BY <2>1 DEF Round4
<1>4. ASSUME NEW i \in Items, i.kind = "string16"
      PROVE  /\ CharBytes(i) \in Nat /\ CharBytes(i) >= 4
             /\ ((i.v + 1) * 2) % SizeMod = (i.v + 1) * 2
  <2>1. i.v \in Nat /\ (i.v + 1) * 2 + 3 < SizeMod /\ SizeMod \in Nat
    BY <1>4, SizeAssumption DEF WideSizes, Item
  <2>2. ((i.v + 1) * 2 + 3) % SizeMod = (i.v + 1) * 2 + 3
    BY <1>1, <2>1
  <2>3. CharBytes(i) = (((i.v + 1) * 2 + 3) \div 4) * 4
    BY <2>2 DEF CharBytes, Round4
  <2>4. CharBytes(i) \in Nat /\ CharBytes(i) >= 4
    BY <2>1, <2>3
  <2>5. ((i.v + 1) * 2) % SizeMod = (i.v + 1) * 2
    BY <1>1, <2>1
  <2> QED BY <2>4, <2>5
<1> QED BY <1>2, <1>3, <1>4

LEMMA GrowsTrans ==
  ASSUME NEW b \in Bio, NEW c \in Bio, NEW d \in Bio, Grows(b, c), Grows(c, d)
  PROVE  Grows(b, d)
<1>1. /\ b.data \in Nat /\ b.data0 \in Nat /\ b.data_avail \in Nat
      /\ c.data \in Nat /\ c.data0 \in Nat /\ c.data_avail \in Nat
      /\ d.data \in Nat /\ d.data0 \in Nat /\ d.data_avail \in Nat
      /\ d.mem \subseteq Nat \X Cells /\ ObjSize \in Nat
      /\ b.offs \in Seq(Nat) /\ c.offs \in Seq(Nat) /\ d.offs \in Seq(Nat)
  BY SizeAssumption DEF Bio
<1>2. \A w \in d.mem : w \in b.mem \/ w[1] >= b.data
  BY <1>1 DEF Grows
<1>3. \A o \in ToSet(d.offs) : o \in Nat
  BY <1>1 DEF ToSet
<1>4. ASSUME NEW o \in ToSet(d.offs)
      PROVE  o \in ToSet(b.offs) \/ (o >= Used(b) /\ Room(b, o) >= ObjSize)
  <2>1. CASE o \in ToSet(c.offs)
    BY <2>1 DEF Grows
  <2>2. CASE o >= Used(c) /\ Room(c, o) >= ObjSize
    <3>1. /\ c.data0 = b.data0 /\ b.data <= c.data
          /\ c.data + c.data_avail = b.data + b.data_avail
      BY DEF Grows
    <3>2. o \in Nat
      BY <1>3
    <3>3. o >= c.data - c.data0 /\ c.data + c.data_avail - c.data0 - o >= ObjSize
      BY <2>2 DEF Used, Room
    <3>4. /\ o >= b.data - b.data0
          /\ b.data + b.data_avail - b.data0 - o >= ObjSize
      <4>1. /\ b.data \in Nat /\ b.data0 \in Nat /\ b.data_avail \in Nat
            /\ c.data \in Nat /\ c.data0 \in Nat /\ c.data_avail \in Nat
            /\ ObjSize \in Nat
        BY <1>1
      <4> QED BY <4>1, <3>1, <3>2, <3>3
    <3> QED BY <3>4 DEF Used, Room
  <2> QED BY <1>4, <2>1, <2>2 DEF Grows
<1>5. b.data <= d.data /\ d.data + d.data_avail = b.data + b.data_avail
  BY <1>1 DEF Grows
<1>6. b.mem \subseteq d.mem /\ ToSet(b.offs) \subseteq ToSet(d.offs)
  BY DEF Grows
<1> QED BY <1>2, <1>4, <1>5, <1>6 DEF Grows

(* Items that are there stay there.                                        *)
LEMMA GrowsKeeps ==
  ASSUME NEW b \in Bio, NEW c \in Bio, Grows(b, c),
         NEW a \in Nat, b.data0 + a < b.data, NEW cell, Holds(b, a, cell)
  PROVE  Holds(c, a, cell)
<1>1. \A w \in c.mem : w[1] = b.data0 + a => w \in b.mem
  BY DEF Grows, Bio
<1>2. {w \in c.mem : w[1] = b.data0 + a} = {w \in b.mem : w[1] = b.data0 + a}
  BY <1>1 DEF Grows
<1> QED BY <1>2 DEF Holds, Grows

LEMMA LaidKeeps ==
  ASSUME WideSizes, NEW b \in Bio, NEW c \in Bio, Grows(b, c),
         NEW i \in Items, NEW a \in Nat, NEW z \in Nat, z <= Used(b),
         Laid(b, i, a, z)
  PROVE  Laid(c, i, a, z)
<1>1. /\ b.data \in Nat /\ b.data0 \in Nat /\ b.data_avail \in Nat
      /\ c.data \in Nat /\ c.data0 \in Nat /\ c.data_avail \in Nat
  BY DEF Bio
<1>2. \A x \in Nat : Room(c, x) = Room(b, x)
  BY <1>1 DEF Room, Grows
<1>3. \A x \in Nat : \A cell : x < Used(b) /\ Holds(b, x, cell) => Holds(c, x, cell)
  BY <1>1, GrowsKeeps DEF Used
<1>4. (b.overflow => c.overflow) /\ ObjSize \in Nat /\ ObjSize >= 4
  BY Rounds, SizeAssumption DEF Grows
<1>5. CASE i.kind \in {"uint32", "null"}
  BY <1>1, <1>2, <1>3, <1>4, <1>5 DEF Laid, WordLaid, Used
<1>6. CASE i.kind = "string16"
  <2>1. CharBytes(i) \in Nat /\ CharBytes(i) >= 4 /\ a + 4 \in Nat
    BY <1>6, Rounds
  <2> QED BY <1>1, <1>2, <1>3, <1>4, <1>6, <2>1 DEF Laid, StringLaid, Used
<1>7. CASE i.kind \in {"obj", "ref"}
  <2>1. ToSet(b.offs) \subseteq ToSet(c.offs)
    BY DEF Grows
  <2>2. NoEntry(b, a, z) => NoEntry(c, a, z)
    <3> SUFFICES ASSUME NoEntry(b, a, z) PROVE NoEntry(c, a, z)
      OBVIOUS
    <3>1. a < Used(b) \/ Room(b, a) < ObjSize
      BY <1>1, <1>4 DEF NoEntry, Used
    <3>2. Used(b) \in Int /\ Room(b, a) \in Int
      BY <1>1 DEF Used, Room
    <3>3. a \notin ToSet(c.offs)
      BY <1>4, <3>1, <3>2 DEF NoEntry, Grows
    <3> QED BY <1>2, <3>3 DEF NoEntry
  <2> QED BY <1>1, <1>3, <1>4, <1>7, <2>1, <2>2 DEF Laid, ObjLaid, Used
<1> QED BY <1>5, <1>6, <1>7, SizeAssumption DEF Item

(* What bio_alloc changes.                                                 *)
LEMMA AllocIs ==
  ASSUME NEW b \in Bio, NEW size, NEW cell, NEW c, c = bio_alloc(b, size, cell)
  PROVE  /\ c.data0 = b.data0 /\ c.offs = b.offs
         /\ Round4(size) > b.data_avail =>
              /\ c.overflow /\ c.data = b.data
              /\ c.data_avail = b.data_avail /\ c.mem = b.mem
         /\ ~(Round4(size) > b.data_avail) =>
              /\ c.overflow = b.overflow /\ c.data = b.data + Round4(size)
              /\ c.data_avail = b.data_avail - Round4(size)
              /\ c.mem = b.mem \cup {<<b.data, cell>>}
<1>1. CASE Round4(size) > b.data_avail
  <2>1. c = [b EXCEPT !.overflow = TRUE]
    BY <1>1 DEF bio_alloc
  <2> QED BY <1>1, <2>1 DEF Bio
<1>2. CASE ~(Round4(size) > b.data_avail)
  <2>1. c = [b EXCEPT !.data = @ + Round4(size), !.data_avail = @ - Round4(size),
                      !.mem = @ \cup {<<b.data, cell>>}]
    BY <1>2 DEF bio_alloc
  <2> QED BY <1>2, <2>1 DEF Bio
<1> QED BY <1>1, <1>2

(* It lays the cell behind what is there, or there is no room for it.      *)
LEMMA AllocLays ==
  ASSUME NEW b \in Bio, Layout(b), Below(b), NEW size \in Nat, NEW cell,
         Round4(size) > 0, NEW c, c = bio_alloc(b, size, cell)
  PROVE  /\ Grows(b, c) /\ Below(c) /\ c.offs = b.offs
         /\ \/ /\ Used(c) = Used(b) + Round4(size)
               /\ Room(b, Used(b)) >= Round4(size) /\ Holds(c, Used(b), cell)
            \/ /\ Used(c) = Used(b) /\ c.overflow
               /\ Room(b, Used(b)) < Round4(size)
<1>1. /\ b.data \in Nat /\ b.data0 \in Nat /\ b.data_avail \in Nat
      /\ b.mem \subseteq Nat \X Cells /\ b.offs \in Seq(Nat)
      /\ b.overflow \in BOOLEAN /\ Round4(size) \in Nat /\ b.data0 <= b.data
  BY RoundType DEF Bio, Layout
<1>2. Room(b, Used(b)) = b.data_avail /\ b.data0 + Used(b) = b.data
  BY <1>1 DEF Room, Used
<1>3. c.data0 = b.data0 /\ c.offs = b.offs
  BY AllocIs
<1>4. CASE Round4(size) > b.data_avail
  <2>1. /\ c.overflow /\ c.data = b.data
        /\ c.data_avail = b.data_avail /\ c.mem = b.mem
    BY <1>4, AllocIs
  <2>2. Grows(b, c) /\ Used(c) = Used(b)
    BY <1>1, <1>3, <2>1 DEF Grows, Used
  <2>3. Below(c)
    BY <1>3, <2>1, <2>2 DEF Below
  <2> QED BY <1>1, <1>2, <1>3, <1>4, <2>1, <2>2, <2>3
<1>5. CASE ~(Round4(size) > b.data_avail)
  <2>1. /\ c.overflow = b.overflow /\ c.data = b.data + Round4(size)
        /\ c.data_avail = b.data_avail - Round4(size)
        /\ c.mem = b.mem \cup {<<b.data, cell>>}
    BY <1>5, AllocIs
  <2>2. Used(c) = Used(b) + Round4(size) /\ Used(c) > Used(b)
    BY <1>1, <1>3, <2>1 DEF Used
  <2>3. Grows(b, c)
    BY <1>1, <1>3, <2>1 DEF Grows
  <2>4. Below(c)
    <3>1. \A w \in c.mem : w[1] < c.data
      BY <1>1, <2>1 DEF Below
    <3>2. \A o \in ToSet(c.offs) : o \in Nat /\ o < Used(b)
      BY <1>1, <1>3 DEF Below, ToSet
    <3>3. Used(b) \in Int /\ Used(c) \in Int
      BY <1>1, <2>2 DEF Used
    <3> QED BY <2>2, <3>1, <3>2, <3>3 DEF Below
  <2>5. {w \in c.mem : w[1] = b.data} = {<<b.data, cell>>}
    BY <1>1, <2>1 DEF Below
  <2>6. Holds(c, Used(b), cell)
    BY <1>2, <1>3, <2>5 DEF Holds
  <2> QED BY <1>1, <1>2, <1>3, <1>5, <2>2, <2>3, <2>4, <2>6
<1> QED BY <1>4, <1>5

(* No item changes where the buffer ends.                                  *)
LEMMA SameRoom ==
  ASSUME NEW b, NEW c, Grows(b, c), NEW a \in Nat,
         b.data \in Nat, b.data0 \in Nat, b.data_avail \in Nat,
         c.data \in Nat, c.data_avail \in Nat
  PROVE  Room(c, a) = Room(b, a)
<1>1. c.data0 = b.data0 /\ c.data + c.data_avail = b.data + b.data_avail
  BY DEF Grows
<1>2. c.data + c.data_avail - b.data0 = b.data + b.data_avail - b.data0
  BY <1>1
<1> QED BY <1>1, <1>2 DEF Room

LEMMA ToSetAppend ==
  ASSUME NEW S, NEW s \in Seq(S), NEW e \in S
  PROVE  ToSet(Append(s, e)) = ToSet(s) \cup {e}
<1>1. /\ DOMAIN Append(s, e) = DOMAIN s \cup {Len(s) + 1}
      /\ \A k \in DOMAIN s : Append(s, e)[k] = s[k]
      /\ Append(s, e)[Len(s) + 1] = e
  OBVIOUS
<1> QED BY <1>1 DEF ToSet

(* bio_alloc_obj lays an object only where it can enter its offset.        *)
LEMMA AllocObjLays ==
  ASSUME WideSizes, NEW b \in Bio, Layout(b), Below(b), NEW cell \in Cells,
         NEW c, c = bio_alloc_obj(b, cell)
  PROVE  /\ Grows(b, c) /\ Below(c)
         /\ \/ /\ Used(c) = Used(b) + ObjSize /\ Holds(c, Used(b), cell)
               /\ Used(b) \in ToSet(c.offs)
            \/ c.overflow /\ NoEntry(c, Used(b), Used(c))
<1>1. Round4(ObjSize) = ObjSize /\ ObjSize \in Nat /\ ObjSize > 0
  BY Rounds, SizeAssumption
<1>2. /\ b.data \in Nat /\ b.data0 \in Nat /\ b.data_avail \in Nat
      /\ b.offs \in Seq(Nat) /\ b.data0 <= b.data
  BY DEF Bio, Layout
<1>3. Used(b) \in Nat /\ Room(b, Used(b)) = b.data_avail
  BY <1>2 DEF Used, Room
<1>4. CASE Round4(ObjSize) <= b.data_avail /\ b.offs_avail > 0
  <2>1. PICK d : d = bio_alloc(b, ObjSize, cell)
    OBVIOUS
  <2>2. d \in Bio
    BY <1>1, <2>1, AllocKeeps
  <2>3. /\ Grows(b, d) /\ Below(d) /\ d.offs = b.offs
        /\ Used(d) = Used(b) + ObjSize /\ Holds(d, Used(b), cell)
    <3>1. /\ Grows(b, d) /\ Below(d) /\ d.offs = b.offs
          /\ \/ Used(d) = Used(b) + ObjSize /\ Holds(d, Used(b), cell)
             \/ Room(b, Used(b)) < ObjSize
      BY <1>1, <2>1, AllocLays
    <3> QED BY <1>1, <1>2, <1>3, <1>4, <3>1
  <2>4. c = [d EXCEPT !.offs = Append(@, b.data - b.data0), !.offs_avail = @ - 1]
    BY <1>4, <2>1 DEF bio_alloc_obj
  <2>5. /\ c.data0 = d.data0 /\ c.data = d.data /\ c.data_avail = d.data_avail
        /\ c.mem = d.mem /\ c.overflow = d.overflow
        /\ c.offs = Append(b.offs, Used(b))
    BY <2>2, <2>3, <2>4 DEF Bio, Used
  <2>6. ToSet(c.offs) = ToSet(b.offs) \cup {Used(b)}
    BY <1>2, <1>3, <2>5, ToSetAppend
  <2>7. Used(c) = Used(d) /\ Holds(c, Used(b), cell)
    BY <2>3, <2>5 DEF Used, Holds
  <2>8. Grows(b, c)
    BY <1>1, <1>2, <1>3, <1>4, <2>3, <2>5, <2>6 DEF Grows
  <2>9. Below(c)
    <3>1. \A o \in ToSet(b.offs) : o < Used(d)
      BY <2>3 DEF Below
    <3>2. Used(b) < Used(d)
      BY <1>1, <1>3, <2>3
    <3> QED BY <2>3, <2>5, <2>6, <2>7, <3>1, <3>2 DEF Below
  <2> QED BY <2>3, <2>6, <2>7, <2>8, <2>9
<1>5. CASE ~(Round4(ObjSize) <= b.data_avail /\ b.offs_avail > 0)
  <2>1. PICK d : d = bio_alloc(b, ObjSize, Junk)
    OBVIOUS
  <2>2. d \in Bio
    BY <1>1, <2>1, AllocKeeps DEF Junk, Cells
  <2>3. /\ Grows(b, d) /\ Below(d) /\ d.offs = b.offs
        /\ \/ Used(d) = Used(b) + ObjSize
           \/ Used(d) = Used(b) /\ Room(b, Used(b)) < ObjSize
    BY <1>1, <2>1, AllocLays
  <2>4. c = [d EXCEPT !.overflow = TRUE]
    BY <1>5, <2>1 DEF bio_alloc_obj
  <2>5. /\ c.data0 = d.data0 /\ c.data = d.data /\ c.data_avail = d.data_avail
        /\ c.mem = d.mem /\ c.overflow /\ c.offs = b.offs
    BY <2>2, <2>3, <2>4 DEF Bio
  <2>6. Used(c) = Used(d)
    BY <2>5 DEF Used
  <2>7. Grows(b, c) /\ Below(c)
    BY <2>3, <2>5, <2>6 DEF Grows, Below
  <2>8. Room(c, Used(b)) = Room(b, Used(b))
    BY <1>3, <2>2, <2>5, <2>7, SameRoom DEF Bio
  <2>9. Used(b) \notin ToSet(b.offs)
    BY <1>3 DEF Below
  <2> QED BY <2>3, <2>5, <2>6, <2>7, <2>8, <2>9 DEF NoEntry
<1> QED BY <1>4, <1>5

(* Every item is laid behind those before it.                              *)
LEMMA PutLays ==
  ASSUME WideSizes, NEW b \in Bio, Layout(b), Below(b), NEW i \in Items,
         NEW c, c = PutInto(b, i)
  PROVE  /\ Grows(b, c) /\ Below(c) /\ Laid(c, i, Used(b), Used(c))
<1>0. /\ i.kind \in {"uint32", "string16", "null", "obj", "ref"} /\ i.v \in Nat
      /\ NullLen \in Nat /\ ObjSize \in Nat /\ ObjSize > 0
  BY SizeAssumption DEF Item
<1>1. \A n \in Nat : Word(n) \in Cells /\ Chars(n) \in Cells /\ Obj(n) \in Cells
  BY DEF Word, Chars, Obj, Cells
<1>2. b.data \in Nat /\ b.data0 \in Nat /\ b.data_avail \in Nat /\ Used(b) \in Nat
  BY DEF Bio, Layout, Used
<1>3. c \in Bio /\ Layout(c)
  BY PutKeeps, SizeAssumption
<1>4. Grows(b, c) => \A a \in Nat : Room(c, a) = Room(b, a)
  BY <1>2, <1>3, SameRoom DEF Bio
<1>5. ASSUME NEW n \in Nat, NEW d, d = bio_put_uint32(b, n)
      PROVE  /\ d \in Bio /\ Layout(d) /\ Grows(b, d) /\ Below(d)
             /\ \/ /\ Used(d) = Used(b) + 4 /\ Room(b, Used(b)) >= 4
                   /\ Holds(d, Used(b), Word(n))
                \/ Used(d) = Used(b) /\ d.overflow /\ Room(b, Used(b)) < 4
  <2>1. d = bio_alloc(b, 4, Word(n)) /\ Round4(4) = 4 /\ Word(n) \in Cells
    BY <1>1, <1>5, Rounds DEF bio_put_uint32
  <2> QED BY <2>1, AllocKeeps, AllocLays
<1>6. CASE i.kind \in {"uint32", "null"}
  <2>1. c = bio_put_uint32(b, WordOf(i)) /\ WordOf(i) \in Nat
    BY <1>0, <1>6 DEF PutInto, WordOf
  <2>2. Grows(b, c) /\ Below(c)
    BY <1>5, <2>1
  <2>3. WordLaid(c, i, Used(b), Used(c))
    BY <1>2, <1>4, <1>5, <2>1, <2>2 DEF WordLaid
  <2> QED BY <1>6, <2>2, <2>3 DEF Laid
<1>7. CASE i.kind = "string16"
  <2>1. PICK d : d = bio_put_uint32(b, i.v)
    OBVIOUS
  <2>2. /\ d \in Bio /\ Layout(d) /\ Grows(b, d) /\ Below(d)
        /\ \/ /\ Used(d) = Used(b) + 4 /\ Room(b, Used(b)) >= 4
              /\ Holds(d, Used(b), Word(i.v))
           \/ Used(d) = Used(b) /\ d.overflow /\ Room(b, Used(b)) < 4
    BY <1>0, <1>5, <2>1
  <2>3. c = bio_alloc(d, (i.v + 1) * 2, Chars(i.v))
    BY <1>7, <2>1 DEF PutInto, bio_put_string16
  <2>4. CharBytes(i) \in Nat /\ CharBytes(i) >= 4 /\ (i.v + 1) * 2 \in Nat
    BY <1>0, <1>7, Rounds
  <2>5. /\ Grows(d, c) /\ Below(c)
        /\ \/ /\ Used(c) = Used(d) + CharBytes(i)
              /\ Room(d, Used(d)) >= CharBytes(i) /\ Holds(c, Used(d), Chars(i.v))
           \/ /\ Used(c) = Used(d) /\ c.overflow
              /\ Room(d, Used(d)) < CharBytes(i)
    BY <2>2, <2>3, <2>4, AllocLays DEF CharBytes
  <2>6. Grows(b, c)
    BY <1>3, <2>2, <2>5, GrowsTrans
  <2>7. /\ d.data \in Nat /\ d.data_avail \in Nat /\ c.overflow \in BOOLEAN
        /\ d.data0 \in Nat
    BY <1>3, <2>2 DEF Bio
  <2>8. \A a \in Nat : Room(d, a) = Room(b, a) /\ Room(c, a) = Room(b, a)
    BY <1>2, <1>4, <2>2, <2>6, <2>7, SameRoom
  <2>9. CASE Used(d) = Used(b) + 4 /\ Holds(d, Used(b), Word(i.v))
    <3>1. Holds(c, Used(b), Word(i.v))
      <4>1. d.data0 + Used(b) < d.data
        BY <1>2, <2>7, <2>9 DEF Used
      <4> QED BY <1>2, <1>3, <2>2, <2>5, <2>9, <4>1, GrowsKeeps
    <3>2. Used(b) + 4 \in Nat /\ Room(c, Used(b) + 4) = Room(d, Used(d))
      BY <1>2, <2>8, <2>9
    <3>3. StringLaid(c, i, Used(b), Used(c))
      BY <1>2, <2>4, <2>5, <2>9, <3>1, <3>2 DEF StringLaid
    <3> QED BY <1>7, <2>5, <2>6, <3>3 DEF Laid
  <2>10. CASE Used(d) = Used(b) /\ d.overflow /\ Room(b, Used(b)) < 4
    <3>1. Room(d, Used(d)) < 4 /\ Room(d, Used(d)) = Room(c, Used(b))
      BY <1>2, <2>8, <2>10
    <3>2. Room(d, Used(d)) \in Int
      BY <1>2, <2>7, <2>10 DEF Room
    <3>3. c.overflow /\ Used(c) = Used(b)
      BY <2>4, <2>5, <2>10, <3>1, <3>2
    <3>4. StringLaid(c, i, Used(b), Used(c))
      BY <3>1, <3>3 DEF StringLaid
    <3> QED BY <1>7, <2>5, <2>6, <3>4 DEF Laid
  <2> QED BY <2>2, <2>9, <2>10
<1>8. CASE i.kind = "obj" \/ (i.kind = "ref" /\ i.v # 0)
  <2>1. c = bio_alloc_obj(b, Obj(i.v)) /\ Obj(i.v) \in Cells
    BY <1>0, <1>1, <1>8 DEF PutInto, bio_put_obj, bio_put_ref
  <2>2. /\ Grows(b, c) /\ Below(c)
        /\ \/ /\ Used(c) = Used(b) + ObjSize /\ Holds(c, Used(b), Obj(i.v))
              /\ Used(b) \in ToSet(c.offs)
           \/ c.overflow /\ NoEntry(c, Used(b), Used(c))
    BY <2>1, AllocObjLays
  <2>3. ObjLaid(c, i, Used(b), Used(c))
    BY <2>2 DEF ObjLaid
  <2> QED BY <1>8, <2>2, <2>3 DEF Laid
<1>9. CASE i.kind = "ref" /\ i.v = 0
  <2>1. c = bio_alloc(b, ObjSize, Obj(i.v)) /\ Round4(ObjSize) = ObjSize
    BY <1>9, Rounds DEF PutInto, bio_put_ref
  <2>2. /\ Grows(b, c) /\ Below(c) /\ c.offs = b.offs
        /\ \/ Used(c) = Used(b) + ObjSize
           \/ Used(c) = Used(b) /\ Room(b, Used(b)) < ObjSize
    BY <1>0, <2>1, AllocLays
  <2>3. Used(b) \notin ToSet(c.offs)
    BY <1>2, <2>2 DEF Below
  <2>4. Room(c, Used(b)) = Room(b, Used(b))
    BY <1>2, <1>4, <2>2
  <2>5. ObjLaid(c, i, Used(b), Used(c))
    BY <1>9, <2>2, <2>3, <2>4 DEF ObjLaid, NoEntry
  <2> QED BY <1>9, <2>2, <2>5 DEF Laid
<1> QED BY <1>0, <1>6, <1>7, <1>8, <1>9

(* The message before anything is read, and with one more item.            *)
LEMMA MessageInit == Init => Message
<1> SUFFICES ASSUME Init PROVE Message
  OBVIOUS
<1>1. /\ bio.mem = {} /\ bio.offs = <<>> /\ Used(bio) = 0
      /\ sent = <<>> /\ got = <<>> /\ phase = "put"
  BY SizeAssumption DEF Init, bio_init, Used
<1>2. Below(bio)
  BY <1>1 DEF Below, ToSet
<1> DEFINE at == [k \in 1..Len(sent) + 1 |-> 0]
<1>3. Chain(bio, sent, at)
  BY <1>1 DEF Chain
<1>4. at \in [1..Len(sent) + 1 -> Nat]
  OBVIOUS
<1> HIDE DEF at
<1> QED BY <1>1, <1>2, <1>3, <1>4 DEF Message

LEMMA MessagePut ==
  ASSUME WideSizes, Inv, Message, NEW i \in Items, Put(i)
  PROVE  Message'
<1>1. /\ phase = "put" /\ got = <<>> /\ phase' = phase /\ got' = got
      /\ bio' = PutInto(bio, i) /\ sent' = Append(sent, i)
      /\ sent \in Seq(Items) /\ Below(bio) /\ bio \in Bio /\ Layout(bio)
  BY DEF Put, Message, Inv, TypeOK
<1>2. PICK at \in [1..Len(sent) + 1 -> Nat] : Chain(bio, sent, at)
  BY DEF Message
<1>3. PICK c : c = bio'
  OBVIOUS
<1>4. /\ c \in Bio /\ Layout(c) /\ Grows(bio, c) /\ Below(c)
      /\ Laid(c, i, Used(bio), Used(c))
  BY <1>1, <1>3, PutKeeps, PutLays, SizeAssumption
<1>5. /\ Used(bio) \in Nat /\ Used(c) \in Nat /\ Used(bio) <= Used(c)
      /\ Len(sent) \in Nat /\ Len(sent') = Len(sent) + 1
  <2>1. /\ bio.data0 \in Nat /\ bio.data \in Nat /\ c.data \in Nat
        /\ bio.data0 <= bio.data
    BY <1>1, <1>4 DEF Bio, Layout
  <2>2. c.data0 = bio.data0 /\ bio.data <= c.data
    BY <1>4 DEF Grows
  <2>3. Len(sent) \in Nat /\ Len(sent') = Len(sent) + 1
    BY <1>1
  <2> QED BY <2>1, <2>2, <2>3 DEF Used
<1> DEFINE more == [k \in 1..Len(sent) + 2 |->
                      IF k = Len(sent) + 2 THEN Used(c) ELSE at[k]]
<1>6. more \in [1..Len(sent') + 1 -> Nat]
  BY <1>5
<1>7. /\ \A k \in 1..Len(sent) + 1 : more[k] = at[k]
      /\ more[Len(sent) + 2] = Used(c)
  BY <1>5
<1> HIDE DEF more
<1>8. Chain(c, sent', more)
  <2>1. more[1] = 0 /\ more[Len(sent') + 1] = Used(c)
    BY <1>2, <1>5, <1>7 DEF Chain
  <2>2. \A k \in 1..Len(sent') + 1 : more[k] <= Used(c)
    <3>1. \A k \in 1..Len(sent) + 1 : at[k] \in Nat /\ at[k] <= Used(bio)
      BY <1>2 DEF Chain
    <3> QED BY <1>5, <1>7, <3>1
  <2>3. ASSUME NEW k \in 1..Len(sent')
        PROVE  Laid(c, sent'[k], more[k], more[k + 1])
    <3>1. CASE k = Len(sent')
      <4>1. sent'[k] = i
        BY <1>1, <1>5, <3>1
      <4>2. more[k] = Used(bio) /\ more[k + 1] = Used(c)
        BY <1>2, <1>5, <1>7, <3>1 DEF Chain
      <4> QED BY <1>4, <4>1, <4>2
    <3>2. CASE k # Len(sent')
      <4>1. k \in 1..Len(sent) /\ sent'[k] = sent[k] /\ sent[k] \in Items
        BY <1>1, <1>5, <3>2
      <4>2. /\ more[k] = at[k] /\ more[k + 1] = at[k + 1]
            /\ at[k] \in Nat /\ at[k + 1] \in Nat /\ at[k + 1] <= Used(bio)
        BY <1>2, <1>5, <1>7, <4>1 DEF Chain
      <4>3. Laid(bio, sent[k], at[k], at[k + 1])
        BY <1>2, <4>1 DEF Chain
      <4> QED BY <1>1, <1>4, <4>1, <4>2, <4>3, LaidKeeps
    <3> QED BY <3>1, <3>2
  <2> QED BY <1>6, <2>1, <2>2, <2>3 DEF Chain
<1>9. sent' \in Seq(Items)
  BY <1>1
<1>10. \E m \in [1..Len(sent') + 1 -> Nat] : Chain(bio', sent', m)
  BY <1>3, <1>6, <1>8
<1>11. Below(bio')
  BY <1>3, <1>4
<1> QED
  <2>1. got' \in Seq(Cells \cup {Null}) /\ got' = <<>> /\ phase' = "put"
    BY <1>1 DEF Message
  <2> QED BY <1>9, <1>10, <1>11, <2>1 DEF Message

(* A message under way, of which nothing is read.                          *)
LEMMA MessageCall ==
  ASSUME Inv, Message, Call \/ SendReply
  PROVE  Message'
<1>1. /\ phase = "put" /\ got = <<>> /\ got' = got /\ bio' = bio /\ sent' = sent
      /\ phase' \in {"call", "reply", "failed"}
      /\ phase' # "failed" => msg' = [data |-> 0, data_avail |-> Used(bio)]
      /\ phase' = "call" => ~bio.overflow
  BY DEF Call, SendReply, Message, bio_init_from_txn, Used
<1>2. PICK at \in [1..Len(sent) + 1 -> Nat] : Chain(bio, sent, at)
  BY DEF Message
<1>3. Used(bio) \in Nat /\ at[1] = 0
  BY <1>2 DEF Chain, Inv, TypeOK, Bio, Layout, Used
<1>4. phase' # "failed" => Going(at)'
  BY <1>1, <1>3 DEF Going
<1>5. Below(bio)' /\ Chain(bio, sent, at)'
  BY <1>1, <1>2 DEF Message, Below, Chain, Used
<1> QED BY <1>1, <1>2, <1>4, <1>5 DEF Message
-----------------------------------------------------------------------------
(* One read.                                                               *)

LEMMA Finds ==
  ASSUME NEW m \in [data : Nat, data_avail : Nat], NEW size \in Nat, NEW cell,
         Round4(size) > 0, Round4(size) <= m.data_avail, Holds(bio, m.data, cell)
  PROVE  /\ bio_get(m, size) = cell
         /\ bio_skip(m, size) = [data |-> m.data + Round4(size),
                                 data_avail |-> m.data_avail - Round4(size)]
<1>1. Round4(size) \in Nat /\ m.data_avail \in Nat
  BY RoundType
<1>2. ~(m.data_avail < Round4(size)) /\ Round4(size) # 0
  BY <1>1
<1> DEFINE here == {w \in bio.mem : w[1] = bio.data0 + m.data}
<1>3. here = {<<bio.data0 + m.data, cell>>}
  BY DEF Holds
<1>4. bio_get(m, size) = IF here = {} THEN Junk ELSE (CHOOSE w \in here : TRUE)[2]
  BY <1>2 DEF bio_get
<1> HIDE DEF here
<1>5. here # {} /\ (CHOOSE w \in here : TRUE) = <<bio.data0 + m.data, cell>>
  BY <1>3
<1>6. bio_get(m, size) = cell
  <2>1. PICK w : w = CHOOSE x \in here : TRUE
    OBVIOUS
  <2>2. w = <<bio.data0 + m.data, cell>>
    BY <1>5, <2>1
  <2>3. bio_get(m, size) = w[2]
    BY <1>4, <1>5, <2>1
  <2> QED BY <2>2, <2>3
<1> QED BY <1>2, <1>6 DEF bio_skip

LEMMA TooFew ==
  ASSUME NEW m \in [data : Nat, data_avail : Nat], NEW size,
         m.data_avail < Round4(size)
  PROVE  bio_get(m, size) = Null /\ bio_skip(m, size).data_avail = 0
BY DEF bio_get, bio_skip

(* When there is nothing left every read returns nothing, and 0 is what    *)
(* the length of a string reads as.                                        *)
LEMMA ReadsNothing ==
  ASSUME WideSizes, NEW m \in [data : Nat, data_avail : Nat], m.data_avail < 4
  PROVE  /\ Uint32(m) = 0 /\ bio_skip(m, 4).data_avail = 0
         /\ LET rest == bio_skip(m, 4)
                size == ((Uint32(m) + 1) * 2) % SizeMod
            IN  bio_get(rest, size) = Null /\ bio_skip(rest, size).data_avail = 0
<1>1. Round4(4) = 4 /\ Round4(2) = 4
  BY Rounds
<1>2. bio_get(m, 4) = Null /\ bio_skip(m, 4).data_avail = 0
  BY <1>1, TooFew
<1>3. Uint32(m) = 0
  BY <1>2 DEF Uint32, Null
<1>4. ((0 + 1) * 2) % SizeMod = 2
  BY SizeAssumption DEF WideSizes
<1>5. bio_skip(m, 4) \in [data : Nat, data_avail : Nat]
  BY SkipType
<1>6. bio_get(bio_skip(m, 4), 2) = Null /\ bio_skip(bio_skip(m, 4), 2).data_avail = 0
  BY <1>1, <1>2, <1>5, TooFew
<1> QED BY <1>2, <1>3, <1>4, <1>6

(* What a read may return, and what it says of the message.                *)
Goes(i, z) ==
  /\ got' = Append(got, Expected(i))
  /\ msg' = [data |-> z, data_avail |-> Used(bio) - z]

Stops(i) ==
  /\ msg'.data_avail = 0
  /\ \/ got' = Append(got, Expected(i)) /\ Void(i)
     \/ got' = Append(got, Nothing(i)) /\ phase # "call"

LEMMA Typed ==
  ASSUME WideSizes, Inv
  PROVE  /\ msg \in [data : Nat, data_avail : Nat] /\ bio \in Bio
         /\ bio.data \in Nat /\ bio.data0 \in Nat /\ bio.data_avail \in Nat
         /\ Used(bio) \in Nat /\ Used(bio) <= MaxData /\ MaxData \in Nat
         /\ NullLen \in Nat /\ SizeMod \in Nat \ {0} /\ Round4(4) = 4
         /\ ObjSize \in Nat /\ ObjSize > 0 /\ Round4(ObjSize) = ObjSize
         /\ \A i \in Items : i.v \in Nat
<1>1. Round4(4) = 4 /\ Round4(ObjSize) = ObjSize
  BY Rounds
<1>2. /\ msg \in [data : Nat, data_avail : Nat] /\ bio \in Bio
      /\ bio.data \in Nat /\ bio.data0 \in Nat /\ bio.data_avail \in Nat
      /\ bio.data0 <= bio.data /\ bio.data + bio.data_avail <= MaxData
  BY DEF Inv, TypeOK, Bio, Layout
<1>3. /\ NullLen \in Nat /\ SizeMod \in Nat \ {0} /\ MaxData \in Nat
      /\ ObjSize \in Nat /\ ObjSize > 0
  BY SizeAssumption
<1>4. \A i \in Items : i.v \in Nat
  BY SizeAssumption DEF Item
<1> QED BY <1>1, <1>2, <1>3, <1>4 DEF Used

LEMMA GetWord ==
  ASSUME WideSizes, Inv, Message, NEW i \in Items, NEW a \in Nat, NEW z \in Nat,
         z <= Used(bio), i.kind = "uint32", Laid(bio, i, a, z),
         msg.data = a, msg.data_avail = Used(bio) - a, GetUint32
  PROVE  Goes(i, z) \/ Stops(i)
<1>1. /\ msg \in [data : Nat, data_avail : Nat] /\ bio \in Bio
      /\ bio.data \in Nat /\ bio.data0 \in Nat /\ bio.data_avail \in Nat
      /\ Used(bio) \in Nat /\ i.v \in Nat /\ Round4(4) = 4
  BY Typed
<1>2. Expected(i) = Word(i.v) /\ Nothing(i) = Word(0) /\ WordOf(i) = i.v
  BY DEF Expected, Nothing, WordOf
<1>3. CASE z = a + 4 /\ Holds(bio, a, Word(i.v))
  <2>1. /\ bio_get(msg, 4) = Word(i.v)
        /\ bio_skip(msg, 4) = [data |-> a + 4, data_avail |-> Used(bio) - a - 4]
    BY <1>1, <1>3, Finds
  <2>2. Uint32(msg) = i.v
    BY <2>1 DEF Uint32, Word
  <2> QED BY <1>1, <1>2, <1>3, <2>1, <2>2 DEF Goes, GetUint32
<1>4. CASE z = a /\ bio.overflow /\ Room(bio, a) < 4
  <2>1. msg.data_avail < 4
    BY <1>1, <1>4 DEF Room, Used
  <2>2. phase # "call"
    BY <1>4 DEF Message
  <2> QED BY <1>1, <1>2, <2>1, <2>2, ReadsNothing DEF Stops, GetUint32
<1> QED BY <1>2, <1>3, <1>4 DEF Laid, WordLaid

LEMMA GetNull ==
  ASSUME WideSizes, Inv, Message, NEW i \in Items, NEW a \in Nat, NEW z \in Nat,
         z <= Used(bio), i.kind = "null", Laid(bio, i, a, z),
         msg.data = a, msg.data_avail = Used(bio) - a, GetString16
  PROVE  Stops(i)
<1>1. /\ msg \in [data : Nat, data_avail : Nat] /\ bio \in Bio
      /\ bio.data \in Nat /\ bio.data0 \in Nat /\ bio.data_avail \in Nat
      /\ Used(bio) \in Nat /\ Used(bio) <= MaxData /\ MaxData \in Nat
      /\ NullLen \in Nat /\ SizeMod \in Nat \ {0} /\ Round4(4) = 4
  BY Typed
<1>2. Expected(i) = Null /\ Nothing(i) = Null /\ Void(i) /\ WordOf(i) = NullLen
  BY DEF Expected, Nothing, Void, WordOf
<1> DEFINE rest == bio_skip(msg, 4)
           size == ((Uint32(msg) + 1) * 2) % SizeMod
<1>3. got' = Append(got, bio_get(rest, size)) /\ msg' = bio_skip(rest, size)
  BY DEF GetString16
<1>4. bio_get(rest, size) = Null /\ bio_skip(rest, size).data_avail = 0
  <2>1. CASE z = a + 4 /\ Holds(bio, a, Word(NullLen))
    <3>1. /\ bio_get(msg, 4) = Word(NullLen)
          /\ rest = [data |-> a + 4, data_avail |-> Used(bio) - a - 4]
      <4>1. 4 <= msg.data_avail
        BY <1>1, <2>1
      <4> QED BY <1>1, <2>1, <4>1, Finds
    <3>2. Uint32(msg) = NullLen
      BY <3>1 DEF Uint32, Word
    <3>3. Round4(size) > MaxData /\ size \in Nat /\ Round4(size) \in Nat
      BY <1>1, <3>2, RoundType DEF WideSizes
    <3>4. /\ rest \in [data : Nat, data_avail : Nat]
          /\ rest.data_avail < Round4(size)
      <4> HIDE DEF rest, size
      <4> QED BY <1>1, <2>1, <3>1, <3>3
    <3> HIDE DEF rest, size
    <3> QED BY <3>4, TooFew
  <2>2. CASE z = a /\ bio.overflow /\ Room(bio, a) < 4
    <3>1. msg.data_avail < 4
      BY <1>1, <2>2 DEF Room, Used
    <3> QED BY <1>1, <3>1, ReadsNothing
  <2> QED BY <1>2, <2>1, <2>2 DEF Laid, WordLaid
<1> QED BY <1>2, <1>3, <1>4 DEF Stops

LEMMA GetString ==
  ASSUME WideSizes, Inv, Message, NEW i \in Items, NEW a \in Nat, NEW z \in Nat,
         z <= Used(bio), i.kind = "string16", Laid(bio, i, a, z),
         msg.data = a, msg.data_avail = Used(bio) - a, GetString16
  PROVE  Goes(i, z) \/ Stops(i)
<1>1. /\ msg \in [data : Nat, data_avail : Nat] /\ bio \in Bio
      /\ bio.data \in Nat /\ bio.data0 \in Nat /\ bio.data_avail \in Nat
      /\ Used(bio) \in Nat /\ i.v \in Nat /\ Round4(4) = 4
  BY Typed
<1>2. /\ CharBytes(i) \in Nat /\ CharBytes(i) >= 4
      /\ ((i.v + 1) * 2) % SizeMod = (i.v + 1) * 2
  BY Rounds
<1>3. Expected(i) = Chars(i.v) /\ Nothing(i) = Null
  BY DEF Expected, Nothing
<1> DEFINE rest == bio_skip(msg, 4)
           size == ((Uint32(msg) + 1) * 2) % SizeMod
<1>4. got' = Append(got, bio_get(rest, size)) /\ msg' = bio_skip(rest, size)
  BY DEF GetString16
<1>5. ASSUME Holds(bio, a, Word(i.v)), a + 4 <= Used(bio)
      PROVE  /\ rest = [data |-> a + 4, data_avail |-> Used(bio) - a - 4]
             /\ rest \in [data : Nat, data_avail : Nat]
             /\ size = (i.v + 1) * 2 /\ Round4(size) = CharBytes(i)
  <2>1. 4 <= msg.data_avail
    BY <1>1, <1>5
  <2>2. /\ bio_get(msg, 4) = Word(i.v)
        /\ rest = [data |-> msg.data + Round4(4),
                   data_avail |-> msg.data_avail - Round4(4)]
    <3>1. /\ Round4(4) > 0 /\ Round4(4) <= msg.data_avail
          /\ Holds(bio, msg.data, Word(i.v))
      BY <1>1, <1>5, <2>1
    <3> HIDE DEF size
    <3> QED BY <1>1, <3>1, Finds
  <2>3. Uint32(msg) = i.v
    BY <2>2 DEF Uint32, Word
  <2>4. a + 4 \in Nat /\ Used(bio) - a - 4 \in Nat
    BY <1>1, <1>5
  <2>5. size = (i.v + 1) * 2
    BY <1>2, <2>3
  <2>6. rest = [data |-> a + 4, data_avail |-> Used(bio) - a - 4]
    BY <1>1, <2>2
  <2>7. Round4(size) = CharBytes(i)
    BY <2>5 DEF CharBytes
  <2> HIDE DEF rest, size
  <2> QED BY <2>4, <2>5, <2>6, <2>7
<1>6. (phase = "call" => ~bio.overflow) /\ (Room(bio, a) < 4 => msg.data_avail < 4)
  BY <1>1 DEF Message, Room, Used
<1>7. CASE /\ z = a + 4 + CharBytes(i)
           /\ Holds(bio, a, Word(i.v)) /\ Holds(bio, a + 4, Chars(i.v))
  <2>1. /\ rest = [data |-> a + 4, data_avail |-> Used(bio) - a - 4]
        /\ rest \in [data : Nat, data_avail : Nat]
        /\ size = (i.v + 1) * 2 /\ Round4(size) = CharBytes(i)
    BY <1>1, <1>2, <1>5, <1>7
  <2>2. size \in Nat /\ Round4(size) > 0
    BY <1>1, <1>2, <2>1
  <2> HIDE DEF rest, size
  <2>3. Round4(size) <= rest.data_avail
    BY <1>1, <1>2, <1>7, <2>1
  <2>4. /\ bio_get(rest, size) = Chars(i.v)
        /\ bio_skip(rest, size) = [data |-> rest.data + Round4(size),
                                   data_avail |-> rest.data_avail - Round4(size)]
    BY <1>7, <2>1, <2>2, <2>3, Finds
  <2>5. /\ rest.data + Round4(size) = z
        /\ rest.data_avail - Round4(size) = Used(bio) - z
    BY <1>1, <1>2, <1>7, <2>1
  <2> QED BY <1>3, <1>4, <2>4, <2>5 DEF Goes
<1>8. CASE z = a /\ bio.overflow /\ Room(bio, a) < 4
  <2>1. bio_get(rest, size) = Null /\ bio_skip(rest, size).data_avail = 0
    BY <1>1, <1>6, <1>8, ReadsNothing
  <2> QED BY <1>3, <1>4, <1>6, <1>8, <2>1 DEF Stops
<1>9. CASE /\ z = a + 4 /\ Holds(bio, a, Word(i.v))
           /\ bio.overflow /\ Room(bio, a + 4) < CharBytes(i)
  <2>1. /\ rest = [data |-> a + 4, data_avail |-> Used(bio) - a - 4]
        /\ rest \in [data : Nat, data_avail : Nat]
        /\ Round4(size) = CharBytes(i)
    BY <1>5, <1>9
  <2> HIDE DEF rest, size
  <2>2. rest.data_avail < Round4(size)
    BY <1>1, <1>2, <1>9, <2>1 DEF Room, Used
  <2>3. bio_get(rest, size) = Null /\ bio_skip(rest, size).data_avail = 0
    BY <2>1, <2>2, TooFew
  <2> QED BY <1>3, <1>4, <1>6, <1>9, <2>3 DEF Stops
<1> QED BY <1>7, <1>8, <1>9 DEF Laid, StringLaid

LEMMA GetObject ==
  ASSUME OffsetsFit, WideSizes, Inv, Message,
         NEW i \in Items, NEW a \in Nat, NEW z \in Nat,
         z <= Used(bio), i.kind \in {"obj", "ref"}, Laid(bio, i, a, z),
         msg.data = a, msg.data_avail = Used(bio) - a, GetRef
  PROVE  Goes(i, z) \/ Stops(i)
<1>1. /\ msg \in [data : Nat, data_avail : Nat] /\ bio \in Bio
      /\ Used(bio) \in Nat /\ i.v \in Nat
      /\ ObjSize \in Nat /\ ObjSize > 0 /\ Round4(ObjSize) = ObjSize
  BY Typed
<1>2. Expected(i) = Obj(i.v) /\ Nothing(i) = Obj(0)
  BY DEF Expected, Nothing
<1>3. HasOffset(a) = IF a \in ToSet(bio.offs) THEN {TRUE} ELSE {FALSE}
  <2>1. ~(SizeT < OffT)
    BY SizeAssumption DEF OffsetsFit
  <2> QED BY <2>1, Zenon DEF HasOffset
<1>4. CASE /\ z = a + ObjSize /\ Holds(bio, a, Obj(i.v))
           /\ a \in ToSet(bio.offs)
  <2>1. ObjSize <= msg.data_avail
    BY <1>1, <1>4
  <2>2. /\ bio_get(msg, ObjSize) = Obj(i.v)
        /\ bio_skip(msg, ObjSize) = [data |-> a + ObjSize,
                                     data_avail |-> Used(bio) - a - ObjSize]
    BY <1>1, <1>4, <2>1, Finds
  <2>3. Obj(i.v) # Null
    BY DEF Obj, Null
  <2>4. got' = Append(got, Obj(i.v)) /\ msg' = bio_skip(msg, ObjSize)
    BY <1>3, <1>4, <2>2, <2>3 DEF GetRef
  <2>5. Used(bio) - a - ObjSize = Used(bio) - z
    BY <1>1, <1>4
  <2> QED BY <1>2, <1>4, <2>2, <2>4, <2>5 DEF Goes
<1>5. CASE NoEntry(bio, a, z) /\ (bio.overflow \/ (i.kind = "ref" /\ i.v = 0))
  <2>1. a \notin ToSet(bio.offs)
    BY <1>5 DEF NoEntry
  <2>2. got' = Append(got, Obj(0)) /\ msg' = [msg EXCEPT !.data_avail = 0]
    BY <1>3, <2>1 DEF GetRef
  <2>3. msg'.data_avail = 0
    BY <1>1, <2>2
  <2>4. CASE bio.overflow
    BY <1>2, <2>2, <2>3, <2>4 DEF Stops, Message
  <2>5. CASE i.kind = "ref" /\ i.v = 0
    BY <1>2, <2>2, <2>3, <2>5 DEF Stops, Void
  <2> QED BY <1>5, <2>4, <2>5
<1> QED BY <1>4, <1>5 DEF Laid, ObjLaid

(* A receiver at the end stays there.                                      *)
LEMMA GetAtEnd ==
  ASSUME WideSizes, Inv, msg.data_avail = 0, NEW i \in Items,
         \/ i.kind = "uint32" /\ GetUint32
         \/ i.kind \in {"string16", "null"} /\ GetString16
         \/ i.kind \in {"obj", "ref"} /\ GetRef
  PROVE  got' = Append(got, Nothing(i)) /\ msg'.data_avail = 0
<1>1. /\ msg \in [data : Nat, data_avail : Nat] /\ msg.data_avail < 4
      /\ ObjSize > 0 /\ Round4(ObjSize) = ObjSize /\ ObjSize \in Nat
  BY Typed
<1>2. CASE i.kind = "uint32" /\ GetUint32
  BY <1>1, <1>2, ReadsNothing DEF GetUint32, Nothing
<1>3. CASE i.kind \in {"string16", "null"} /\ GetString16
  BY <1>1, <1>3, ReadsNothing DEF GetString16, Nothing
<1>4. CASE i.kind \in {"obj", "ref"} /\ GetRef
  <2>1. bio_get(msg, ObjSize) = Null /\ bio_skip(msg, ObjSize).data_avail = 0
    BY <1>1, TooFew
  <2>2. got' = Append(got, Obj(0))
    BY <1>4, <2>1 DEF GetRef
  <2>3. msg'.data_avail = 0
    BY <1>1, <1>4, <2>1 DEF GetRef
  <2> QED BY <1>4, <2>2, <2>3 DEF Nothing
<1> QED BY <1>2, <1>3, <1>4

LEMMA GetGoing ==
  ASSUME OffsetsFit, WideSizes, Inv, Message, Get,
         NEW at \in [1..Len(sent) + 1 -> Nat], Chain(bio, sent, at), Going(at)
  PROVE  Goes(sent[Len(got) + 1], at[Len(got) + 2]) \/ Stops(sent[Len(got) + 1])
<1> DEFINE n == Len(got) + 1
           i == sent[n]
<1>1. /\ n \in 1..Len(sent) /\ n \in 1..Len(sent) + 1 /\ n + 1 \in 1..Len(sent) + 1
      /\ n + 1 = Len(got) + 2 /\ sent \in Seq(Items)
  BY DEF Get, Message
<1>2. i \in Items
  BY <1>1
<1>3. /\ at[n] \in Nat /\ at[n + 1] \in Nat /\ at[n + 1] <= Used(bio)
      /\ Laid(bio, i, at[n], at[n + 1])
  BY <1>1 DEF Chain
<1>4. msg.data = at[n] /\ msg.data_avail = Used(bio) - at[n]
  BY DEF Going
<1>5. \/ i.kind = "uint32" /\ GetUint32
      \/ i.kind \in {"string16", "null"} /\ GetString16
      \/ i.kind \in {"obj", "ref"} /\ GetRef
  BY DEF Get
<1> HIDE DEF n, i
<1>6. Goes(i, at[n + 1]) \/ Stops(i)
  <2>1. CASE i.kind = "uint32" /\ GetUint32
    BY <1>2, <1>3, <1>4, <2>1, GetWord
  <2>2. CASE i.kind = "string16" /\ GetString16
    BY <1>2, <1>3, <1>4, <2>2, GetString
  <2>3. CASE i.kind = "null" /\ GetString16
    BY <1>2, <1>3, <1>4, <2>3, GetNull
  <2>4. CASE i.kind \in {"obj", "ref"} /\ GetRef
    BY <1>2, <1>3, <1>4, <2>4, GetObject
  <2> QED BY <1>5, <2>1, <2>2, <2>3, <2>4
<1> QED BY <1>1, <1>6 DEF n, i

LEMMA Values ==
  ASSUME NEW i \in Items
  PROVE  Expected(i) \in Cells \cup {Null} /\ Nothing(i) \in Cells \cup {Null}
<1>1. i.kind \in {"uint32", "string16", "null", "obj", "ref"} /\ i.v \in Nat
  BY SizeAssumption DEF Item
<1>2. /\ Word(i.v) \in Cells /\ Chars(i.v) \in Cells /\ Obj(i.v) \in Cells
      /\ Word(0) \in Cells /\ Obj(0) \in Cells
  BY <1>1 DEF Word, Chars, Obj, Cells
<1> QED BY <1>1, <1>2 DEF Expected, Nothing

LEMMA MessageGet ==
  ASSUME OffsetsFit, WideSizes, Inv, Message, Get
  PROVE  Message'
<1> DEFINE n == Len(got) + 1
<1>1. /\ n \in 1..Len(sent) /\ sent \in Seq(Items) /\ Len(got) \in Nat
      /\ got \in Seq(Cells \cup {Null}) /\ phase \in {"call", "reply"}
      /\ bio' = bio /\ sent' = sent /\ phase' = phase
  BY DEF Get, Message
<1>2. PICK at \in [1..Len(sent) + 1 -> Nat] :
        Chain(bio, sent, at) /\ (Going(at) \/ Ended)
  BY <1>1 DEF Message
<1>3. ASSUME NEW x, x \in {Expected(sent[n]), Nothing(sent[n])}, got' = Append(got, x)
      PROVE  /\ got' \in Seq(Cells \cup {Null}) /\ Len(got') = n
             /\ \A k \in 1..Len(got) : got'[k] = got[k]
             /\ got'[n] = x
  <2>1. sent[n] \in Items
    BY <1>1
  <2>2. x \in Cells \cup {Null}
    BY <1>3, <2>1, Values
  <2> QED BY <1>1, <1>3, <2>2
<1>4. CASE Going(at) /\ Goes(sent[n], at[n + 1])
  <2>1. /\ got' \in Seq(Cells \cup {Null}) /\ Len(got') = n
        /\ \A k \in 1..Len(got) : got'[k] = got[k]
        /\ got'[n] = Expected(sent[n])
    BY <1>3, <1>4 DEF Goes
  <2>2. \A k \in 1..Len(got') : got'[k] = Expected(sent[k])
    <3>1. \A k \in 1..Len(got) : got[k] = Expected(sent[k])
      BY <1>4 DEF Going, Same
    <3> QED BY <1>1, <2>1, <3>1
  <2>3. msg'.data = at[n + 1] /\ msg'.data_avail = Used(bio) - at[n + 1]
    BY <1>4 DEF Goes
  <2>4. Going(at)'
    BY <1>1, <2>1, <2>2, <2>3 DEF Going, Same
  <2> QED BY <1>1, <1>2, <2>1, <2>4 DEF Message
<1>5. CASE Going(at) /\ Stops(sent[n])
  <2>1. \A k \in 1..Len(got) : got[k] = Expected(sent[k])
    BY <1>5 DEF Going, Same
  <2>2. CASE got' = Append(got, Expected(sent[n])) /\ Void(sent[n])
    <3>1. /\ got' \in Seq(Cells \cup {Null}) /\ Len(got') = n
          /\ \A k \in 1..Len(got) : got'[k] = got[k]
          /\ got'[n] = Expected(sent[n])
      BY <1>3, <2>2
    <3>2. \A k \in 1..Len(got') : got'[k] = Expected(sent[k])
      BY <1>1, <2>1, <3>1
    <3>3. Ended'
      <4>1. n \in 0..Len(got') /\ n >= 1
        BY <1>1, <3>1
      <4>2. \A k \in 1..Len(got') : k <= n
        BY <3>1
      <4> QED BY <1>1, <1>5, <2>2, <3>2, <4>1, <4>2 DEF Ended, Same, Stops
    <3> QED BY <1>1, <1>2, <3>1, <3>3 DEF Message
  <2>3. CASE got' = Append(got, Nothing(sent[n])) /\ phase # "call"
    <3>1. /\ got' \in Seq(Cells \cup {Null}) /\ Len(got') = n
          /\ \A k \in 1..Len(got) : got'[k] = got[k]
          /\ got'[n] = Nothing(sent[n])
      BY <1>3, <2>3
    <3>2. \A k \in 1..Len(got') :
            IF k <= Len(got) THEN got'[k] = Expected(sent[k])
                             ELSE got'[k] = Nothing(sent[k])
      BY <1>1, <2>1, <3>1
    <3>3. Ended'
      <4>1. Len(got) \in 0..Len(got')
        BY <1>1, <3>1
      <4> QED BY <1>1, <1>5, <2>3, <3>2, <4>1 DEF Ended, Same, Stops
    <3> QED BY <1>1, <1>2, <3>1, <3>3 DEF Message
  <2> QED BY <1>5, <2>2, <2>3 DEF Stops
<1>6. CASE Ended
  <2>1. got' = Append(got, Nothing(sent[n])) /\ msg'.data_avail = 0
    <3>1. sent[n] \in Items /\ msg.data_avail = 0
      BY <1>1, <1>6 DEF Ended
    <3> QED BY <3>1, GetAtEnd DEF Get
  <2>2. /\ got' \in Seq(Cells \cup {Null}) /\ Len(got') = n
        /\ \A k \in 1..Len(got) : got'[k] = got[k]
        /\ got'[n] = Nothing(sent[n])
    BY <1>3, <2>1
  <2>3. PICK k \in 0..Len(got) :
          /\ \A j \in 1..Len(got) : IF j <= k THEN Same(j)
                                              ELSE got[j] = Nothing(sent[j])
          /\ phase = "call" => k >= 1 /\ Void(sent[k])
    BY <1>6 DEF Ended
  <2>4. \A j \in 1..Len(got') : IF j <= k THEN got'[j] = Expected(sent[j])
                                          ELSE got'[j] = Nothing(sent[j])
    BY <1>1, <2>2, <2>3 DEF Same
  <2>5. k \in 0..Len(got')
    BY <1>1, <2>2
  <2>6. Ended'
    BY <1>1, <2>1, <2>3, <2>4, <2>5 DEF Ended, Same
  <2> QED BY <1>1, <1>2, <2>2, <2>6 DEF Message
<1>7. Going(at) => Goes(sent[n], at[n + 1]) \/ Stops(sent[n])
  <2>1. n + 1 = Len(got) + 2
    BY <1>1
  <2> QED BY <1>2, <2>1, GetGoing
<1> QED BY <1>2, <1>4, <1>5, <1>6, <1>7
-----------------------------------------------------------------------------
(* What is read follows from where everything lies.                        *)
LEMMA MessageHolds ==
  ASSUME OffsetsFit, WideSizes
  PROVE  Spec => [](Inv /\ Message)
<1>1. Init => Inv /\ Message
  BY InitInv, MessageInit
<1>2. Inv /\ Message /\ [Next]_vars => (Inv /\ Message)'
  <2> SUFFICES ASSUME Inv, Message, [Next]_vars PROVE Inv' /\ Message'
    OBVIOUS
  <2>1. Inv'
    BY NextInv
  <2>2. CASE \E i \in Items : Put(i)
    BY <2>1, <2>2, MessagePut
  <2>3. CASE Call \/ SendReply
    BY <2>1, <2>3, MessageCall
  <2>4. CASE Get
    BY <2>1, <2>4, MessageGet
  <2>5. CASE UNCHANGED vars
    BY <2>1, <2>5 DEF vars, Message, Below, Chain, Going, Ended, Same
  <2> QED BY <2>2, <2>3, <2>4, <2>5 DEF Next
<1> QED BY <1>1, <1>2, PTL DEF Spec

(* Whatever fitted and whatever did not, for any buffer and any items: the *)
(* receiver reads what was put up to some item and from there on nothing,  *)
(* and never one item for another.  A size must not wrap: see WideSizes.   *)
THEOREM ReadsPrefix ==
  ASSUME OffsetsFit, WideSizes
  PROVE  Spec => []PrefixThenNothing
<1>1. Inv /\ Message => PrefixThenNothing
  <2> SUFFICES ASSUME Inv, Message PROVE PrefixThenNothing
    OBVIOUS
  <2>1. Len(got) \in Nat
    BY DEF Message
  <2>2. CASE got = <<>>
    BY <2>2 DEF PrefixThenNothing
  <2>3. CASE \A i \in 1..Len(got) : Same(i)
    <3>1. Len(got) \in 0..Len(got) /\ \A i \in 1..Len(got) : i <= Len(got)
      BY <2>1
    <3> QED BY <2>3, <3>1 DEF PrefixThenNothing
  <2>4. CASE Ended
    BY <2>4 DEF Ended, PrefixThenNothing
  <2>5. phase \in {"put", "failed"} \/ phase \in {"call", "reply"}
    BY DEF Inv, TypeOK
  <2> QED BY <2>2, <2>3, <2>4, <2>5 DEF Message, Going
<1> QED BY <1>1, MessageHolds, PTL

(* A message that binder_call sends arrives complete, up to the null       *)
(* string or the handle 0 that the receiver takes for the end.             *)
THEOREM CallsArrive ==
  ASSUME OffsetsFit, WideSizes
  PROVE  Spec => []CallComplete
<1>1. Message => CallComplete
  <2> SUFFICES ASSUME Message, phase = "call"
               PROVE  \A i \in 1..Len(got) :
                        Same(i) \/ \E j \in 1..i - 1 : Void(sent[j])
    BY DEF CallComplete
  <2>1. Len(got) \in Nat
    BY DEF Message
  <2>2. CASE \A i \in 1..Len(got) : Same(i)
    BY <2>2
  <2>3. CASE Ended
    BY <2>1, <2>3 DEF Ended
  <2> QED BY <2>2, <2>3 DEF Message, Going
<1> QED BY <1>1, MessageHolds, PTL
=============================================================================
