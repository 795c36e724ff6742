------------------------- MODULE CircularBufferSpec -------------------------
(***************************************************************************)
(* The circular buffer on its own, driven by one caller that adds entries. *)
(* The driver only adds entries whose buffer it has allocated, so no entry *)
(* added has a null buffptr.                                               *)
(***************************************************************************)
EXTENDS CircularBuffer, SequencesExt

CONSTANTS
  Buffers,       \* the buffers a caller may hand over
  MaxSize        \* a bound on the size of an entry

ASSUME BuffersAssumption == NULL \notin Buffers

ASSUME MaxSizeAssumption == MaxSize \in Nat

VARIABLES
  buffer,        \* the struct aesd_circular_buffer
  removed        \* what the last aesd_circular_buffer_add_entry returned

vars == <<buffer, removed>>

NewEntries == [buffptr : Buffers, size : 0 .. MaxSize]

Init ==
  /\ buffer = EmptyBuffer
  /\ removed = NULL

Add(e) ==
  /\ removed' = RemovedBuffptr(buffer)
  /\ buffer' = AddEntry(buffer, e)

Next == \E e \in NewEntries : Add(e)

Spec == Init /\ [][Next]_vars

-----------------------------------------------------------------------------
(* The state of the buffer: the offsets are slots, the entries entries.    *)
TypeOK ==
  /\ buffer \in CircularBufferType(Buffers)
  /\ removed \in Buffers \cup {NULL}

(***************************************************************************)
(* The offsets, the full flag and the slots in use always agree: add_entry *)
(* relies on it to find the oldest entry under in_offs, and the readers to *)
(* walk the entries from out_offs without meeting an unused slot first.    *)
(***************************************************************************)
RingShape == WellShaped(buffer)

(***************************************************************************)
(* The byte positions of the entries concatenated end to end, as pairs of  *)
(* the entry's slot and an offset in it: what find_entry_offset_for_fpos   *)
(* searches according to its description.                                  *)
(***************************************************************************)
Concatenated ==
  FlattenSeq([i \in 1 .. Count(buffer) |->
                LET s == SlotOf(buffer, i - 1)
                IN  [k \in 1 .. buffer.entry[s].size |-> <<s, k - 1>>]])

(***************************************************************************)
(* aesd_circular_buffer_find_entry_offset_for_fpos locates every character *)
(* of the concatenation, also across the wrap and past entries of size 0,  *)
(* finds nothing beyond its end, and aesd_circular_buffer_size is its      *)
(* length.                                                                 *)
(***************************************************************************)
FindLocatesEveryByte ==
  LET flat == Concatenated
      Found(off) == LET r == FindEntry(buffer, off) IN <<r.slot, r.offset>>
  IN  /\ BufferSize(buffer) = Len(flat)
      /\ \A off \in 0 .. Len(flat) - 1 : Found(off) = flat[off + 1]
      /\ \A off \in Len(flat) .. Len(flat) + MaxSize :
           FindEntry(buffer, off).slot = NULL

(***************************************************************************)
(* The buffer implements a log of the MaxWriteOps most recent entries, and *)
(* add_entry returns the buffer of the entry that dropped out of it, which *)
(* is what lets aesd_write free it.                                        *)
(***************************************************************************)
Recent == INSTANCE RecentWrites WITH
            Limit    <- MaxWriteOps,
            Entries  <- NewEntries,
            NoBuffer <- NULL,
            recent   <- LiveEntries(buffer),
            evicted  <- removed

KeepsMostRecent == Recent!Spec
=============================================================================
