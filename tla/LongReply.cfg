\* The reply buffer of binder_parse.
SPECIFICATION Spec
CONSTANTS
  MaxData = 256
  MaxOffs = 4
  SizeT = 8
  OffT = 8
  ObjSize = 24
  SizeMod = 16777216
  NullLen = 4095
  Items <- ReplyItems
  MaxItems = 1
\* A message has been read.
CHECK_DEADLOCK FALSE
INVARIANTS ReplyInOrder
