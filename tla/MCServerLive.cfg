CONSTANTS
  NULL = NULL
  Signals = {"SIGTERM", "SIGINT", "SIGALRM"}
  Cells = {c1, c2}
  Backlog = 1
  Creates = {TRUE}
SPECIFICATION FairSpec
PROPERTY
  SignalEndsServer
CHECK_DEADLOCK FALSE
