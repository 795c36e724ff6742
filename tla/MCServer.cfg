CONSTANTS
  NULL = NULL
  Signals = {"SIGTERM"}
  Cells = {c1, c2, c3}
  Backlog = 1
  Creates = {TRUE, FALSE}
SYMMETRY Symmetry
SPECIFICATION Spec
INVARIANTS
  TypeOK
  ListIsSound
  HandlersOwnTheirCells
  JoinLoopPointers
PROPERTY
  FreedAfterExit
CHECK_DEADLOCK FALSE
