----------------------------- MODULE SockGetline -----------------------------
(***************************************************************************)
(* sock_getline of server/src/socket.c: the bytes of a client's stream,    *)
(* which recv delivers in pieces of any size, are collected into a block   *)
(* until a newline is found.                                               *)
(*                                                                         *)
(* The piece lies in a buffer on the stack that is neither cleared nor     *)
(* terminated after the bytes received: strchr and strcpy run on to what   *)
(* earlier pieces, or whatever was on the stack, left there, up to a NUL.  *)
(***************************************************************************)
EXTENDS Integers, Sequences, SequencesExt

CONSTANTS
  ReadBufSize,   \* SOCK_READBUFSIZE (64 in the code)
  Streams,       \* what a client may send: sequences of bytes
  Bytes,
  Stack,         \* the bytes the buffer may contain before the first recv
  Newline, Nul,
  Junk           \* a byte of the block that was never written

ASSUME SockGetlineAssumption ==
  /\ ReadBufSize \in Nat \ {0}
  /\ \A s \in Streams : s \in Seq(Bytes)
  /\ Newline # Nul /\ Nul \in Bytes /\ Stack \subseteq Bytes

VARIABLES
  pc,            \* "recv", or how the call ended
  stream,        \* the bytes the client sends
  closed,        \* whether it has closed the connection after them
  buffer,        \* the bytes of the stack buffer before the constant NUL
  string,        \* the allocated block
  capacity,
  length,
  overrun,       \* whether strcpy wrote past the end of the block
  filled         \* whether every piece before the last filled the buffer

vars == <<pc, stream, closed, buffer, string, capacity, length, overrun, filled>>

Block(size) == [i \in 1 .. size |-> Junk]

Init ==
  /\ pc = "recv"
  /\ stream \in Streams /\ closed = FALSE
  /\ buffer \in [1 .. ReadBufSize -> Stack]
  /\ string = Block(ReadBufSize + 1)
  /\ capacity = ReadBufSize /\ length = 0
  /\ overrun = FALSE /\ filled = TRUE

-----------------------------------------------------------------------------
(* recv of n bytes: they overwrite the start of the buffer.                *)
Fill(n) ==
  [i \in 1 .. ReadBufSize |-> IF i <= n THEN stream[length + i] ELSE buffer[i]]

(* The string the buffer holds: what precedes the first NUL.               *)
CString(buf) ==
  LET nuls == {i \in 1 .. ReadBufSize : buf[i] = Nul}
      end  == CHOOSE i \in nuls : \A j \in nuls : i <= j
  IN  IF nuls = {} THEN buf ELSE SubSeq(buf, 1, end - 1)

(* strchr: the position of the first newline of a string, 0 for none.      *)
NewlinePosAtEnd(text) ==
  IF text # << >> /\ Last(text) = Newline THEN Len(text) ELSE 0

NewlinePos(text) == SelectInSeq(text, LAMBDA c : c = Newline)

(* The bytes strcpy appends, without the NUL that follows them.            *)
AppendedDropsNewline(text) ==
  IF NewlinePos(text) > 0 THEN SubSeq(text, 1, NewlinePos(text) - 1) ELSE text

Appended(text) ==
  IF NewlinePos(text) > 0 THEN SubSeq(text, 1, NewlinePos(text)) ELSE text

(* strcpy to string + tail; what does not fit goes to other memory.        *)
Strcpy(block, tail, text) ==
  LET bytes == Append(text, Nul)
  IN  [i \in 1 .. Len(block) |->
         IF i - tail \in 1 .. Len(bytes) THEN bytes[i - tail] ELSE block[i]]

(* The block doubles when what has been received does not fit.             *)
GrowsLate(new_length) == length > capacity

Grows(new_length) == new_length > capacity

(* One iteration in which recv returned n bytes.  The length counts what   *)
(* was received, not what strcpy appended.                                 *)
Receive(n) ==
  LET text  == CString(Fill(n))
      grown == Grows(length + n)
      block == IF grown THEN string \o Block(2 * capacity - Len(string)) ELSE string
  IN  /\ pc = "recv"
      /\ buffer' = [i \in 1 .. ReadBufSize |->
                      IF NewlinePos(text) > 0 /\ i = NewlinePos(text) + 1
                      THEN Nul ELSE Fill(n)[i]]
      /\ capacity' = IF grown THEN 2 * capacity ELSE capacity
      /\ string' = Strcpy(block, length, Appended(text))
      /\ overrun' = (overrun \/ length + Len(Appended(text)) + 1 > Len(block))
      /\ length' = length + n
      /\ pc' = IF NewlinePos(text) > 0 THEN "done" ELSE "recv"
      /\ filled' = (filled /\ (n = ReadBufSize \/ pc' = "done"))
      /\ UNCHANGED <<stream, closed>>

(* recv delivers a part of what is left, or the end of the stream as 0.    *)
ReceivePiece ==
  \E n \in 1 .. ReadBufSize : length + n <= Len(stream) /\ Receive(n)

ReceiveEnd == closed /\ Receive(0)

(* recv fails, or realloc does: the block is freed and NULL returned.      *)
ReceiveFails ==
  /\ pc = "recv"
  /\ pc' = "failed"
  /\ string' = << >>
  /\ UNCHANGED <<stream, closed, buffer, capacity, length, overrun, filled>>

(* After strcpy has written outside the block the allocator may abort.     *)
HeapAborts ==
  /\ pc = "recv" /\ overrun
  /\ pc' = "crashed"
  /\ UNCHANGED <<stream, closed, buffer, string, capacity, length, overrun, filled>>

(* The client has nothing more to send (external).                         *)
Close ==
  /\ length = Len(stream)
  /\ closed' = TRUE
  /\ UNCHANGED <<pc, stream, buffer, string, capacity, length, overrun, filled>>

Next == ReceivePiece \/ ReceiveEnd \/ ReceiveFails \/ HeapAborts \/ Close

Spec == Init /\ [][Next]_vars

(* Data and the end of the stream reach a reader that waits for them.      *)
FairSpec == Spec /\ WF_vars(ReceivePiece) /\ WF_vars(ReceiveEnd) /\ WF_vars(Close)

-----------------------------------------------------------------------------
Received == SubSeq(stream, 1, length)

(***************************************************************************)
(* conn_handler writes length bytes of the block to the file: they are     *)
(* inside it.  One doubling is enough because a piece is never longer than *)
(* the capacity.                                                           *)
(***************************************************************************)
LengthFitsBlock ==
  pc \in {"recv", "done"} => length <= capacity /\ capacity <= Len(string)

(***************************************************************************)
(* A NUL less than a buffer before byte i can be in the same piece, where  *)
(* it ends the string that strchr searches and strcpy copies.              *)
(***************************************************************************)
BehindNul(i) == \E j \in 1 .. i - 1 : i - j < ReadBufSize /\ stream[j] = Nul

(***************************************************************************)
(* The loop goes on after a newline only if a NUL shortly before it hid it *)
(* from strchr, however the stream was cut into pieces and whatever lies   *)
(* behind them in the buffer.                                              *)
(***************************************************************************)
StopsAtNewline ==
  pc = "recv" => \A i \in 1 .. length : stream[i] = Newline => BehindNul(i)

(***************************************************************************)
(* A line that arrives in pieces which fill the buffer, but for the last   *)
(* one, which ends with the newline, is returned byte for byte, except     *)
(* that strcpy may lose the bytes shortly behind a NUL.                    *)
(***************************************************************************)
FilledPiecesGiveTheLine ==
  pc = "done" /\ filled /\ NewlinePos(Received) = length
    => \A i \in 1 .. length : string[i] = stream[i] \/ BehindNul(i)

-----------------------------------------------------------------------------
(***************************************************************************)
(* The comment of sock_getline: it "Reads characters from socket until a   *)
(* newline is found" and returns "a dynamically allocated string           *)
(* containing the line".                                                   *)
(***************************************************************************)
ReturnsTheLine ==
  pc = "done" =>
    LET line == SubSeq(stream, 1, NewlinePos(stream))
    IN  NewlinePos(stream) > 0 /\ SubSeq(string, 1, length) = line

(***************************************************************************)
(* The comments "Reallocate if updated lenght" and "one after last valid   *)
(* char in string": what is appended fits the block.                       *)
(***************************************************************************)
CopyFitsBlock == ~overrun

(***************************************************************************)
(* The comment of sock_getline: "On failure, returns a NULL pointer"; a    *)
(* stream that ends without a newline is such a failure.                   *)
(***************************************************************************)
EndOfStreamReturns == closed ~> pc # "recv"

(***************************************************************************)
(* The same comment: it reads "until a newline is found".  The byte before *)
(* it may be a NUL.                                                        *)
(***************************************************************************)
NewlineSeen == pc = "recv" => Newline \notin Range(Received)
=============================================================================
