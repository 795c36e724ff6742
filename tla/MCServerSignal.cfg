CONSTANTS
  NULL = NULL
  Signals = {"SIGTERM", "SIGINT", "SIGALRM"}
  Cells = {c1}
  Backlog = 1
  Creates = {TRUE}
SPECIFICATION FairSpec
PROPERTY
  StopsOnSignal
CHECK_DEADLOCK FALSE
