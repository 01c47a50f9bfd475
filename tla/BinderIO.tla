------------------------------ MODULE BinderIO ------------------------------
(***************************************************************************)
(* binder_io, the messages of the C binder library (binder4Server.c and    *)
(* its copy binder4Client.c): a sender lays items out in a buffer whose    *)
(* front is reserved for the offsets of its objects, the driver copies     *)
(* both parts, and the receiver takes the items out in the same order.     *)
(*                                                                         *)
(* Sizes are in bytes and as in C; what an item holds is one cell at the   *)
(* address where it starts.  The driver checks and translates the objects  *)
(* that have an offset; a handle and the object it stands for are one      *)
(* number here.  Strings of 2^29 characters and more do not occur.         *)
(***************************************************************************)
EXTENDS Integers, Sequences, SequencesExt

CONSTANTS
  MaxData,   \* maxdata and maxoffs of bio_init
  MaxOffs,
  SizeT,     \* sizeof(size_t)
  OffT,      \* sizeof(binder_size_t)
  ObjSize,   \* sizeof(struct flat_binder_object)
  SizeMod,   \* a size_t counts modulo SizeMod
  NullLen,   \* the length word of the null string, 0xffffffff
  Items,     \* what may be put
  MaxItems   \* bound on the items of a message

(* A uint32, a string of v characters, the null string, an object of the   *)
(* sender, a handle of the sender (0 for none).                            *)
Item == [kind : {"uint32", "string16", "null", "obj", "ref"}, v : Nat]

ASSUME SizeAssumption ==
  /\ MaxData \in Nat /\ MaxData % 4 = 0
  /\ MaxOffs \in Nat /\ SizeT \in {4, 8} /\ OffT \in {4, 8}
  /\ ObjSize \in Nat \ {0} /\ ObjSize % 4 = 0
  /\ SizeMod \in Nat \ {0} /\ NullLen \in Nat
  /\ Items \subseteq Item /\ MaxItems \in Nat

VARIABLES
  bio,       \* the message of the sender
  sent,      \* what was put, whether it fitted or not
  phase,     \* "put", then "call" or "reply" when it is under way, or "failed"
  msg,       \* the receiver's position: bytes read and bytes left
  got        \* what the receiver has read

vars == <<bio, sent, phase, msg, got>>

(* What an address holds, and what a read returns.                         *)
Word(n) == <<"word", n>>
Chars(len) == <<"chars", len>>
Obj(h) == <<"obj", h>>
Junk == <<"junk", 0>>    \* never written
Null == <<"null", 0>>    \* no pointer
Empty == <<"empty", 0>>  \* a pointer to zero bytes

Cells == {"word", "chars", "obj", "junk"} \X Nat

Bio ==
  [data0 : Nat, data : Nat, data_avail : Nat, offs : Seq(Nat),
   offs_avail : Nat, overflow : BOOLEAN, mem : SUBSET (Nat \X Cells)]

TypeOK ==
  /\ bio \in Bio
  /\ sent \in Seq(Item)
  /\ phase \in {"put", "call", "reply", "failed"}
  /\ msg \in [data : Nat, data_avail : Nat]
  /\ Len(got) <= Len(sent)

(* bio_init.                                                               *)
bio_init ==
  LET n == MaxOffs * SizeT
      fits == n <= MaxData
  IN  [data0 |-> IF fits THEN n ELSE 0, data |-> IF fits THEN n ELSE 0,
       data_avail |-> IF fits THEN MaxData - n ELSE 0,
       offs |-> <<>>, offs_avail |-> IF fits THEN MaxOffs ELSE 0,
       overflow |-> ~fits, mem |-> {}]

Init ==
  /\ bio = bio_init
  /\ sent = <<>> /\ got = <<>> /\ phase = "put"
  /\ msg = [data |-> 0, data_avail |-> 0]
-----------------------------------------------------------------------------
(* The sender.                                                             *)

Round4(size) == (((size + 3) % SizeMod) \div 4) * 4

(* A mutant: the bytes left are not looked at.                             *)
bio_alloc_unbounded(b, size, cell) ==
  [b EXCEPT !.data = @ + Round4(size), !.data_avail = @ - Round4(size),
            !.mem = @ \cup {<<b.data, cell>>}]

(* bio_alloc, and the store into what it returns.                          *)
bio_alloc(b, size, cell) ==
  IF Round4(size) > b.data_avail
  THEN [b EXCEPT !.overflow = TRUE]
  ELSE [b EXCEPT !.data = @ + Round4(size), !.data_avail = @ - Round4(size),
                 !.mem = @ \cup {<<b.data, cell>>}]

(* A mutant: the offset entries left are not looked at.                    *)
bio_alloc_obj_unchecked(b, cell) ==
  IF Round4(ObjSize) <= b.data_avail
  THEN [bio_alloc(b, ObjSize, cell) EXCEPT
          !.offs = Append(@, b.data - b.data0),
          !.offs_avail = IF @ = 0 THEN 0 ELSE @ - 1]
  ELSE [bio_alloc(b, ObjSize, Junk) EXCEPT !.overflow = TRUE]

(* bio_alloc_obj: without an entry for its offset an object still takes    *)
(* its space.                                                              *)
bio_alloc_obj(b, cell) ==
  IF Round4(ObjSize) <= b.data_avail /\ b.offs_avail > 0
  THEN [bio_alloc(b, ObjSize, cell) EXCEPT
          !.offs = Append(@, b.data - b.data0), !.offs_avail = @ - 1]
  ELSE [bio_alloc(b, ObjSize, Junk) EXCEPT !.overflow = TRUE]

bio_put_uint32(b, n) == bio_alloc(b, 4, Word(n))

(* bio_put_string16 and bio_put_string16_x: the length goes in even if the *)
(* characters then do not fit.                                             *)
bio_put_string16(b, len) ==
  bio_alloc(bio_put_uint32(b, len), (len + 1) * 2, Chars(len))

bio_put_obj(b, o) == bio_alloc_obj(b, Obj(o))

(* Handle 0 has no offset, so the driver does not look at it.              *)
bio_put_ref(b, h) ==
  IF h # 0 THEN bio_alloc_obj(b, Obj(h)) ELSE bio_alloc(b, ObjSize, Obj(h))

PutInto(b, i) ==
  CASE i.kind = "uint32"   -> bio_put_uint32(b, i.v)
    [] i.kind = "string16" -> bio_put_string16(b, i.v)
    [] i.kind = "null"     -> bio_put_uint32(b, NullLen)
    [] i.kind = "obj"      -> bio_put_obj(b, i.v)
    [] i.kind = "ref"      -> bio_put_ref(b, i.v)

Put(i) ==
  /\ phase = "put" /\ Len(sent) < MaxItems
  /\ bio' = PutInto(bio, i) /\ sent' = Append(sent, i)
  /\ UNCHANGED <<phase, msg, got>>

(* bio_init_from_txn on the copy the driver made.                          *)
bio_init_from_txn ==
  msg' = [data |-> 0, data_avail |-> bio.data - bio.data0]

(* A mutant: the overflow flag is not looked at.                           *)
CallUnchecked ==
  /\ phase = "put" /\ phase' = "call" /\ bio_init_from_txn
  /\ UNCHANGED <<bio, sent, got>>

(* binder_call sends no message that did not fit.                          *)
Call ==
  /\ phase = "put"
  /\ IF bio.overflow THEN phase' = "failed" /\ UNCHANGED msg
                     ELSE phase' = "call" /\ bio_init_from_txn
  /\ UNCHANGED <<bio, sent, got>>

(* binder_send_reply sends what there is.                                  *)
SendReply ==
  /\ phase = "put" /\ phase' = "reply" /\ bio_init_from_txn
  /\ UNCHANGED <<bio, sent, got>>
-----------------------------------------------------------------------------
(* The receiver.                                                           *)

(* A mutant: a read that fails leaves what is left.                        *)
bio_skip_forgiving(m, size) ==
  IF m.data_avail < Round4(size)
  THEN m
  ELSE [data |-> m.data + Round4(size),
        data_avail |-> m.data_avail - Round4(size)]

(* bio_get, its effect: a read that fails is the last that finds anything. *)
bio_skip(m, size) ==
  IF m.data_avail < Round4(size)
  THEN [m EXCEPT !.data_avail = 0]
  ELSE [data |-> m.data + Round4(size),
        data_avail |-> m.data_avail - Round4(size)]

(* bio_get, what the pointer it returns shows.                             *)
bio_get(m, size) ==
  IF m.data_avail < Round4(size) THEN Null
  ELSE IF Round4(size) = 0 THEN Empty
  ELSE LET here == {w \in bio.mem : w[1] = bio.data0 + m.data}
       IN  IF here = {} THEN Junk ELSE (CHOOSE w \in here : TRUE)[2]

(* bio_get_uint32 gives 0 when nothing is left.                            *)
Uint32(m) == IF bio_get(m, 4)[1] = "word" THEN bio_get(m, 4)[2] ELSE 0

GetUint32 == got' = Append(got, Word(Uint32(msg))) /\ msg' = bio_skip(msg, 4)

(* bio_get_string16: the size is computed as a size_t.                     *)
GetString16 ==
  LET rest == bio_skip(msg, 4)
      size == ((Uint32(msg) + 1) * 2) % SizeMod
  IN  /\ got' = Append(got, bio_get(rest, size))
      /\ msg' = bio_skip(rest, size)

(* _bio_get_obj looks through the offsets, which it counts in size_t; in   *)
(* what lies behind them anything can be found.                            *)
HasOffset(off) ==
  IF off \in ToSet(bio.offs) THEN {TRUE}
  ELSE IF SizeT < OffT /\ bio.offs # <<>> THEN BOOLEAN ELSE {FALSE}

(* bio_get_ref gives 0 for what is not an object.                          *)
GetRef ==
  \E found \in HasOffset(msg.data) :
    LET o == IF found THEN bio_get(msg, ObjSize) ELSE Null
    IN  /\ got' = Append(got, IF o = Null THEN Obj(0) ELSE o)
        /\ msg' = IF found THEN bio_skip(msg, ObjSize)
                           ELSE [msg EXCEPT !.data_avail = 0]

(* The receiver takes the items in the order of the sender.                *)
Get ==
  /\ phase \in {"call", "reply"} /\ Len(got) < Len(sent)
  /\ LET kind == sent[Len(got) + 1].kind
     IN  \/ kind = "uint32" /\ GetUint32
         \/ kind \in {"string16", "null"} /\ GetString16
         \/ kind \in {"obj", "ref"} /\ GetRef
  /\ UNCHANGED <<bio, sent, phase>>

Next == (\E i \in Items : Put(i)) \/ Call \/ SendReply \/ Get

Spec == Init /\ [][Next]_vars
-----------------------------------------------------------------------------
(* Properties.                                                             *)

(* What a receiver should get for an item, and what it gets when there is  *)
(* nothing left.                                                           *)
Expected(i) ==
  CASE i.kind = "uint32"         -> Word(i.v)
    [] i.kind = "string16"       -> Chars(i.v)
    [] i.kind = "null"           -> Null
    [] i.kind \in {"obj", "ref"} -> Obj(i.v)

Nothing(i) ==
  CASE i.kind = "uint32"               -> Word(0)
    [] i.kind \in {"string16", "null"} -> Null
    [] i.kind \in {"obj", "ref"}       -> Obj(0)

Void(i) == Expected(i) = Nothing(i) /\ i.kind # "uint32"

Same(i) == got[i] = Expected(sent[i])

(* A receiver never takes one item for another: what it reads is what was  *)
(* sent up to some item, and from there on only zeros and null pointers.   *)
(* The length of a string is in the message even if the string did not fit *)
(* (bio_put_string16), and bio_get must then let nothing more be read.     *)
PrefixThenNothing ==
  \E k \in 0..Len(got) :
    \A i \in 1..Len(got) : IF i <= k THEN Same(i)
                                     ELSE got[i] = Nothing(sent[i])

(* A message that binder_call sends arrives complete, except behind a null *)
(* string or a null handle, which the receiver cannot tell from the end.   *)
CallComplete ==
  phase = "call" =>
    \A i \in 1..Len(got) : Same(i) \/ \E j \in 1..i - 1 : Void(sent[j])

(* The receiver takes out what the sender put in, in that order, as the    *)
(* tutorials say of binder_io; here for a reply.  A reply whose last       *)
(* string does not fit its buffer is sent without it.                      *)
ReplyInOrder == phase = "reply" => \A i \in 1..Len(got) : Same(i)

(* bio_init reserves the space of the offset entries it was asked for (the *)
(* comment at bio_init in binder4Server.h): no entry lies where the data   *)
(* is, and the data stays in the buffer.                                   *)
OffsetsReserved ==
  /\ Len(bio.offs) * OffT <= bio.data0
  /\ bio.data0 <= bio.data /\ bio.data + bio.data_avail <= MaxData
=============================================================================
