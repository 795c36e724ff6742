---------------------------- MODULE RecentWrites ----------------------------
(***************************************************************************)
(* What the circular buffer promises: it keeps the most recent Limit       *)
(* entries in the order they were added, and the adder is handed the       *)
(* buffer of the entry that had to make room, so that it can free it.      *)
(***************************************************************************)
EXTENDS Integers, Sequences

CONSTANTS
  Limit,         \* how many entries are kept
  Entries,       \* what may be added
  NoBuffer       \* handed back when nothing had to make room

VARIABLES
  recent,        \* the entries kept, oldest first
  evicted        \* what the last addition handed back

vars == <<recent, evicted>>

Init ==
  /\ recent = << >>
  /\ evicted = NoBuffer

Add(e) ==
  \/ /\ Len(recent) < Limit
     /\ recent' = Append(recent, e)
     /\ evicted' = NoBuffer
  \/ /\ Len(recent) = Limit
     /\ recent' = Append(Tail(recent), e)
     /\ evicted' = Head(recent).buffptr

Next == \E e \in Entries : Add(e)

Spec == Init /\ [][Next]_vars
=============================================================================
