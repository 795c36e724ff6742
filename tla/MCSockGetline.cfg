CONSTANTS
  Newline = Newline
  Nul = Nul
  Junk = Junk
  Text = {a, b, Nul}
  Bytes = {a, b, Newline, Nul}
  Stack = {a, b, Newline, Nul}
  ReadBufSize = 2
  MaxStream = 5
  Streams <- BoundedStreams
SPECIFICATION Spec
INVARIANTS
  LengthFitsBlock
  StopsAtNewline
  FilledPiecesGiveTheLine
CHECK_DEADLOCK FALSE
