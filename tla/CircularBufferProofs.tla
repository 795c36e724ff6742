------------------------ MODULE CircularBufferProofs ------------------------
(***************************************************************************)
(* The circular buffer, for every MaxWriteOps, every set of buffers and    *)
(* every bound on the entry size: its type and shape are invariant, the    *)
(* search finds every character, and the buffer implements the log of the  *)
(* most recent entries.                                                    *)
(***************************************************************************)
EXTENDS CircularBufferSpec, CircularBufferLemmas

(***************************************************************************)
(* TypeOK and RingShape are inductive together: what add_entry overwrites  *)
(* and where out_offs goes depends on the shape.                           *)
(***************************************************************************)
RingInv == TypeOK /\ RingShape

(* The entries a caller adds are entries with a buffer.                     *)
LEMMA NewEntriesAreEntries ==
  ASSUME NEW e \in NewEntries
  PROVE  e \in BufferEntry(Buffers) /\ e.buffptr # NULL
BY BuffersAssumption, MaxSizeAssumption DEF NewEntries, BufferEntry

(* The zeroed structure is a well-shaped ring.                             *)
LEMMA RingInvInit == Init => RingInv
BY EmptyBufferFacts DEF Init, RingInv, TypeOK, RingShape

(* add_entry keeps the type and the shape.                                 *)
LEMMA RingInvNext == RingInv /\ [Next]_vars => RingInv'
<1> SUFFICES ASSUME RingInv, [Next]_vars PROVE RingInv'
  OBVIOUS
<1>1. CASE Next
  <2> PICK e \in NewEntries : Add(e)
    BY <1>1 DEF Next
  <2>1. buffer' \in CircularBufferType(Buffers)
    BY NewEntriesAreEntries, AddEntryFields DEF Add, RingInv, TypeOK
  <2>2. removed' \in Buffers \cup {NULL}
    BY DEF Add, RingInv, TypeOK, RemovedBuffptr, CircularBufferType, BufferEntry
  <2>3. RingShape'
    BY NewEntriesAreEntries, AddEntryShape DEF Add, RingInv, TypeOK, RingShape
  <2> QED BY <2>1, <2>2, <2>3 DEF RingInv, TypeOK
<1>2. CASE UNCHANGED vars
  BY <1>2 DEF vars, RingInv, TypeOK, RingShape
<1> QED BY <1>1, <1>2

(***************************************************************************)
(* The offsets of the struct stay inside the array and agree with the full *)
(* flag and with the slots in use, however many entries are added.         *)
(***************************************************************************)
THEOREM RingCorrect == Spec => []RingShape
<1>1. RingInv => RingShape
  BY DEF RingInv
<1> QED BY RingInvInit, RingInvNext, <1>1, PTL DEF Spec

(***************************************************************************)
(* in_offs and out_offs are slots after every add_entry: no access of the  *)
(* buffer's functions leaves the array.                                    *)
(***************************************************************************)
THEOREM RingTypeOK == Spec => []TypeOK
<1>1. RingInv => TypeOK
  BY DEF RingInv
<1> QED BY RingInvInit, RingInvNext, <1>1, PTL DEF Spec

(***************************************************************************)
(* The positions of the characters, entry by entry: what the entries are   *)
(* concatenated from.                                                      *)
(***************************************************************************)
Positions ==
  [i \in 1 .. Count(buffer) |->
     LET s == SlotOf(buffer, i - 1)
     IN  [k \in 1 .. buffer.entry[s].size |-> <<s, k - 1>>]]

(* Each live entry contributes as many positions as it has characters.     *)
LEMMA PositionsOfEntries ==
  ASSUME RingInv
  PROVE  /\ Positions \in [1 .. Count(buffer) -> Seq(Slots \X Nat)]
         /\ \A i \in 1 .. Count(buffer) :
              /\ Len(Positions[i]) = buffer.entry[SlotOf(buffer, i - 1)].size
              /\ \A k \in 1 .. Len(Positions[i]) :
                   Positions[i][k] = <<SlotOf(buffer, i - 1), k - 1>>
<1>1. buffer \in CircularBufferType(Buffers) /\ WellShaped(buffer)
  BY DEF RingInv, TypeOK, RingShape
<1>2. Count(buffer) \in 0 .. MaxWriteOps
  BY <1>1, LiveLength
<1>3. ASSUME NEW i \in 1 .. Count(buffer)
      PROVE  /\ Positions[i] \in Seq(Slots \X Nat)
             /\ Len(Positions[i]) = buffer.entry[SlotOf(buffer, i - 1)].size
             /\ \A k \in 1 .. Len(Positions[i]) :
                  Positions[i][k] = <<SlotOf(buffer, i - 1), k - 1>>
  <2> DEFINE s == SlotOf(buffer, i - 1)
             n == buffer.entry[s].size
  <2>1. i - 1 \in Slots
    BY <1>2, MaxWriteOpsAssumption DEF Slots
  <2>2. s \in Slots
    BY <1>1, <2>1, SlotOfIsSlot
  <2>3. n \in Nat
    BY <1>1, <2>2 DEF CircularBufferType, BufferEntry
  <2>4. Positions[i] = [k \in 1 .. n |-> <<s, k - 1>>]
    BY DEF Positions
  <2> HIDE DEF s, n
  <2>5. \A k \in 1 .. n : <<s, k - 1>> \in Slots \X Nat
    BY <2>2, <2>3
  <2>6. [k \in 1 .. n |-> <<s, k - 1>>] \in Seq(Slots \X Nat)
    BY <2>3, <2>5
  <2>7. Len([k \in 1 .. n |-> <<s, k - 1>>]) = n
    BY <2>3
  <2> QED BY <2>4, <2>6, <2>7 DEF s, n
<1>4. Positions = [i \in 1 .. Count(buffer) |-> Positions[i]]
  BY DEF Positions
<1> QED BY <1>3, <1>4

(* The search and the concatenation agree on every position.               *)
LEMMA FindAgreesWithConcatenation == RingInv => FindLocatesEveryByte
<1> SUFFICES ASSUME RingInv PROVE FindLocatesEveryByte
  OBVIOUS
<1> DEFINE flat == FlattenSeq(Positions)
<1>1. buffer \in CircularBufferType(Buffers) /\ WellShaped(buffer)
  BY DEF RingInv, TypeOK, RingShape
<1>2. Concatenated = flat
  BY DEF Concatenated, Positions
<1>3. /\ Len(flat) = BufferSize(buffer)
      /\ Placed(buffer, Positions, flat)
  <2>1. EntryData(buffer, Positions, Slots \X Nat)
    BY PositionsOfEntries DEF EntryData
  <2> QED BY <1>1, <2>1, LiveFlattened
<1>4. BufferSize(buffer) \in Nat
  BY <1>1, SizeIsNat
<1>5. ASSUME NEW off \in 0 .. BufferSize(buffer) - 1
      PROVE  <<FindEntry(buffer, off).slot, FindEntry(buffer, off).offset>> = flat[off + 1]
  <2>1. off \in Nat /\ off < BufferSize(buffer)
    BY <1>4
  <2>2. PICK j \in 0 .. Count(buffer) - 1 :
          /\ AccLength(buffer)[j] <= off /\ off < AccLength(buffer)[j + 1]
          /\ FindEntry(buffer, off) = [slot |-> SlotOf(buffer, j),
                                       offset |-> off - AccLength(buffer)[j]]
    BY <1>1, <2>1, FindEntryLive
  <2>3. /\ j \in Slots /\ j \in 0 .. MaxWriteOps
        /\ j + 1 \in 1 .. Count(buffer) /\ (j + 1) - 1 = j
    BY <1>1, <2>2, LiveLength, MaxWriteOpsAssumption DEF Slots
  <2> DEFINE base == AccLength(buffer)[j]
             n    == Len(Positions[j + 1])
             k    == off - base + 1
  <2>4. base \in Nat /\ AccLength(buffer)[j + 1] = base + buffer.entry[SlotOf(buffer, j)].size
    BY <1>1, <2>3, AccLengthFacts
  <2>5. n = buffer.entry[SlotOf(buffer, j)].size
    BY <2>3, PositionsOfEntries
  <2>6. n \in Nat
    BY <1>1, <2>3, <2>5, SlotOfIsSlot DEF CircularBufferType, BufferEntry
  <2>7. k \in 1 .. n /\ base + k = off + 1 /\ k - 1 = off - base
    <3>1. base <= off /\ off < base + n
      BY <2>2, <2>4, <2>5
    <3> HIDE DEF base, n
    <3> QED BY <2>1, <2>4, <2>6, <3>1
  <2>8. Positions[j + 1][k] = <<SlotOf(buffer, j), k - 1>>
    BY <2>3, <2>7, PositionsOfEntries
  <2>9. flat[base + k] = Positions[j + 1][k]
    BY <1>3, <2>3, <2>7 DEF Placed
  <2> HIDE DEF flat, k, base, n
  <2>10. FindEntry(buffer, off).slot = SlotOf(buffer, j) /\ FindEntry(buffer, off).offset = k - 1
    BY <2>2, <2>7 DEF base
  <2> QED BY <2>7, <2>8, <2>9, <2>10
<1>6. ASSUME NEW off \in BufferSize(buffer) .. BufferSize(buffer) + MaxSize
      PROVE  FindEntry(buffer, off).slot = NULL
  <2>1. off \in Nat /\ BufferSize(buffer) <= off
    BY <1>4
  <2> QED BY <1>1, <2>1, FindEntryPast
<1> HIDE DEF flat
<1> QED BY <1>2, <1>3, <1>5, <1>6 DEF FindLocatesEveryByte

(***************************************************************************)
(* aesd_circular_buffer_find_entry_offset_for_fpos finds every character   *)
(* of the concatenated entries and nothing past their end, for rings of    *)
(* any length, wrapped or not, and entries of any size, 0 included.        *)
(***************************************************************************)
THEOREM FindLocatesAlways == Spec => []FindLocatesEveryByte
BY RingInvInit, RingInvNext, FindAgreesWithConcatenation, PTL DEF Spec

(***************************************************************************)
(* aesd_circular_buffer_add_entry implements "append to the log of the     *)
(* MaxWriteOps most recent entries and hand back the buffer of the one     *)
(* that dropped out": every step of the buffer is a step of that log.      *)
(***************************************************************************)
THEOREM RingImplementsRecentWrites == Spec => KeepsMostRecent
<1>1. Init => Recent!Init
  BY EmptyBufferFacts DEF Init, Recent!Init
<1>2. RingInv /\ [Next]_vars => [Recent!Next]_(Recent!vars)
  <2> SUFFICES ASSUME RingInv, [Next]_vars PROVE [Recent!Next]_(Recent!vars)
    OBVIOUS
  <2>1. CASE Next
    <3> PICK e \in NewEntries : Add(e)
      BY <2>1 DEF Next
    <3>1. /\ ~buffer.full => /\ Len(LiveEntries(buffer)) < MaxWriteOps
                             /\ LiveEntries(buffer)' = Append(LiveEntries(buffer), e)
                             /\ removed' = NULL
          /\ buffer.full  => /\ Len(LiveEntries(buffer)) = MaxWriteOps
                             /\ LiveEntries(buffer)' = Append(Tail(LiveEntries(buffer)), e)
                             /\ removed' = Head(LiveEntries(buffer)).buffptr
      BY NewEntriesAreEntries, AddEntryLive DEF Add, RingInv, TypeOK, RingShape
    <3>2. Recent!Add(e)
      BY <3>1 DEF Recent!Add
    <3> QED BY <3>2 DEF Recent!Next
  <2>2. CASE UNCHANGED vars
    BY <2>2 DEF vars, Recent!vars
  <2> QED BY <2>1, <2>2
<1> QED BY RingInvInit, RingInvNext, <1>1, <1>2, PTL DEF Spec, KeepsMostRecent, Recent!Spec
=============================================================================
