CONSTANTS
  Newline = Newline
  Nul = Nul
  Junk = Junk
  Text = {a, b}
  Bytes = {a, b, Newline, Nul}
  Stack = {Nul}
  ReadBufSize = 2
  MaxStream = 4
  Streams <- BoundedStreams
SPECIFICATION Spec
INVARIANT
  ReturnsTheLine
CHECK_DEADLOCK FALSE
