CONSTANTS
  Chars = {a, b}
  MaxLength = 4
  Strings <- ShortStrings
  MaxFd = 5
  Threads = {t1, t2}
  Nobody = Nobody
  Waits = {1, 5, 17}
  NsPerMs = 4
  NsPerSec = 20
  IntBits = 6
  Codes = {0, 1, 2, 126, 127, 255}
  Signals = {9, 15, 134}
  Stdouts = {"caller", "free"}
SPECIFICATION ProgramsSpec
INVARIANTS
  OldOrPrefix
  DoneMeansWritten
  AcceptsOnSocket
  DaemonDescriptors
  SuccessMeansBound
  DataLivesWithThread
  ExitCodeDecides
  TrueAfterChild
  OnlyCommandRedirected
PROPERTY
  ReturnsOrMutexLost
CHECK_DEADLOCK FALSE
