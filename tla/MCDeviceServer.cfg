CONSTANTS
  a = a
  z = z
  nl = nl
  NULL = NULL
  Nobody = Nobody
  Newline = nl
  Bytes = {a, z, nl}
  Threads = {t1, t2}
  Files = {t1, t2}
  Blocks = {b1, b2, b3}
  MaxWriteOps = 1
  MaxAlloc = 6
  Counts = {1}
  MaxSeek = 0
  LoadFaults = {}
  SeekArgs = {0, 1, 7, 8, 16}
  UINT32_MAX = 7
  ULONG_MAX = 15
  ConnBufSize = 1
  MaxConnections = 2
  Chunks <- SomeLines
SPECIFICATION DeviceFairSpec
PROPERTIES
  UndisturbedReply
  SeekStartsReply
  HandlersFinish
CHECK_DEADLOCK FALSE
