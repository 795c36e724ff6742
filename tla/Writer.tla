------------------------------- MODULE Writer -------------------------------
(***************************************************************************)
(* finder-app/writer.c: the program that replaces the content of a file by *)
(* its second argument.  write may take any part of what it is given, so   *)
(* the program goes on with the rest until count is 0.                     *)
(***************************************************************************)
EXTENDS Integers, Sequences

CONSTANTS
  Chars,
  Strings        \* the arguments and the former contents of the file

ASSUME WriterAssumption == Strings \subseteq Seq(Chars)

VARIABLES
  pc,
  str,           \* argv[2]
  writestr,      \* how many of its characters the pointer has passed
  count,
  old,           \* the content of the file before
  file,          \* the content now
  offset         \* the file offset of fd

vars == <<pc, str, writestr, count, old, file, offset>>

Init ==
  /\ pc = "args"
  /\ str \in Strings /\ old \in Strings
  /\ writestr = 0 /\ count = 0
  /\ file = old /\ offset = 0

(* exit(1): wrong arguments, or open or write returned -1.                 *)
Fail ==
  /\ pc \in {"args", "open", "write"}
  /\ pc = "write" => count > 0
  /\ pc' = "failed"
  /\ UNCHANGED <<str, writestr, count, old, file, offset>>

CheckArgs ==
  /\ pc = "args"
  /\ pc' = "open"
  /\ UNCHANGED <<str, writestr, count, old, file, offset>>

(* The content that open leaves: O_TRUNC.                                  *)
NotTruncated == file
Truncated == << >>

Open ==
  /\ pc = "open"
  /\ file' = Truncated
  /\ count' = Len(str)
  /\ pc' = "write"
  /\ UNCHANGED <<str, writestr, old, offset>>

(* The content after nr characters from the pointer were written.          *)
Written(nr) ==
  [i \in 1 .. IF offset + nr > Len(file) THEN offset + nr ELSE Len(file) |->
     IF i \in offset + 1 .. offset + nr THEN str[writestr + i - offset] ELSE file[i]]

(* Where the pointer goes.                                                 *)
NotAdvanced(nr) == writestr
Advanced(nr) == writestr + nr

Write(nr) ==
  /\ pc = "write" /\ count > 0
  /\ file' = Written(nr)
  /\ offset' = offset + nr
  /\ count' = count - nr
  /\ writestr' = Advanced(nr)
  /\ UNCHANGED <<pc, str, old>>

(* The end of the loop; that close fails is only logged.                   *)
Close ==
  /\ pc = "write" /\ count = 0
  /\ pc' = "done"
  /\ UNCHANGED <<str, writestr, count, old, file, offset>>

Next == Fail \/ CheckArgs \/ Open \/ (\E nr \in 0 .. count : Write(nr)) \/ Close

Spec == Init /\ [][Next]_vars

-----------------------------------------------------------------------------
PrefixOf(s, t) == Len(s) <= Len(t) /\ \A i \in 1 .. Len(s) : s[i] = t[i]

(***************************************************************************)
(* Whatever parts write takes and wherever the program fails, from open on *)
(* the file holds a prefix of the string, and before that its old content: *)
(* never a mixture of the two, nor a part of the string twice.             *)
(***************************************************************************)
OldOrPrefix == file = old \/ PrefixOf(file, str)

(***************************************************************************)
(* The program ends with 0 only when the file holds the whole string.      *)
(***************************************************************************)
DoneMeansWritten == pc = "done" => file = str
=============================================================================
