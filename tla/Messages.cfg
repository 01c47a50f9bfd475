\* A 64-bit build and a small buffer.
SPECIFICATION Spec
CONSTANTS
  MaxData = 84
  MaxOffs = 1
  SizeT = 8
  OffT = 8
  ObjSize = 24
  SizeMod = 16777216
  NullLen = 4095
  Items <- AllItems
  MaxItems = 5
\* A message has been read.
CHECK_DEADLOCK FALSE
INVARIANTS TypeOK PrefixThenNothing CallComplete OffsetsReserved
