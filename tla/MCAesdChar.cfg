CONSTANTS
  a = a
  nl = nl
  NULL = NULL
  Nobody = Nobody
  Newline = nl
  Bytes = {a, nl}
  Threads = {t1, t2}
  Files = {f1}
  Blocks = {b1, b2, b3, b4}
  MaxWriteOps = 2
  MaxAlloc = 3
  Counts = {1, 2}
  MaxSeek = 1
  LoadFaults = {}
  Chunks <- MorePieces
SYMMETRY Symmetry
SPECIFICATION Spec
INVARIANTS
  TypeOK
  OneOwner
  BlocksAccounted
  EntriesDescribeBlocks
  ReaderKeepsItsEntry
  SeekToFindsCommand
PROPERTIES
  ImplementsCommandLog
  ReadsAtPosition
  FailedCallsChangeNothing
