CONSTANTS
  MaxWriteOps = 3
  NULL = NULL
  Buffers = {b1, b2}
  MaxSize = 2
SPECIFICATION Spec
INVARIANTS
  TypeOK
  RingShape
  FindLocatesEveryByte
PROPERTY
  KeepsMostRecent
