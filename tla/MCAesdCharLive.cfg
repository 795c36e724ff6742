CONSTANTS
  a = a
  nl = nl
  NULL = NULL
  Nobody = Nobody
  Newline = nl
  Bytes = {a, nl}
  Threads = {t1, t2}
  Files = {f1}
  Blocks = {b1, b2, b3}
  MaxWriteOps = 1
  MaxAlloc = 2
  Counts = {1}
  MaxSeek = 0
  LoadFaults = {"chrdev_region", "circular_buffer"}
  Chunks <- Pieces
SPECIFICATION FairSpec
PROPERTY
  CallsReturn
