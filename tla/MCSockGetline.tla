---------------------------- MODULE MCSockGetline ----------------------------
(* Streams of at most MaxStream bytes, of text, NULs and newlines.         *)
EXTENDS SockGetline

CONSTANTS Text, MaxStream

BoundedStreams == BoundedSeq(Text \cup {Newline}, MaxStream)
=============================================================================
