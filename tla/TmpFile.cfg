CONSTANTS
  Handlers = {h1, h2}
  Timer = Timer
  Nobody = Nobody
  MaxPacket = 2
  DateSize = 2
  ConnBufSize = 2
  MaxStamps = 1
SPECIFICATION FairSpec
INVARIANTS
  PacketsUnmixed
  ReplyHoldsPacket
PROPERTY
  WaitersGetMutex
CHECK_DEADLOCK FALSE
