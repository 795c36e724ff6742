CONSTANTS
  NULL = NULL
  Signals = {"SIGTERM", "SIGINT", "SIGALRM"}
  Cells = {c1, c2}
  Backlog = 1
  Creates = {TRUE}
SPECIFICATION Spec
INVARIANT
  AllJoinedAtExit
CHECK_DEADLOCK FALSE
