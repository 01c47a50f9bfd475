----------------------------- MODULE MCBinderIO -----------------------------
(* Instances of BinderIO for TLC.  Widths are scaled down: a uint32_t has  *)
(* 12 bits and the size_t of a 64-bit build 24.                            *)
EXTENDS BinderIO

An(kind, v) == [kind |-> kind, v |-> v]

(* Everything a caller of the library can put, in a buffer where two       *)
(* objects or a longer string soon are too much.                           *)
AllItems ==
  {An("uint32", 5), An("string16", 1), An("string16", 12), An("null", 0),
   An("obj", 1), An("ref", 2), An("ref", 0)}

(* What the replies of svcmgr_handler hold: a status, a handle, or a name  *)
(* of up to 127 characters.                                                *)
ReplyItems ==
  {An("uint32", 0), An("ref", 1), An("string16", 5), An("string16", 127)}
=============================================================================
