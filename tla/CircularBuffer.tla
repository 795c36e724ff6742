--------------------------- MODULE CircularBuffer ---------------------------
(***************************************************************************)
(* The circular buffer of aesd-char-driver/aesd-circular-buffer.{c,h}: a   *)
(* fixed array of entries, the slot the next write goes to (in_offs), the  *)
(* slot reading starts at (out_offs) and a flag that is set when the array *)
(* first wraps and never cleared.                                          *)
(*                                                                         *)
(* The operators are pure: each takes the value of a                       *)
(* struct aesd_circular_buffer.  Locking is the caller's business.         *)
(***************************************************************************)
EXTENDS Integers, Sequences

CONSTANTS
  MaxWriteOps,   \* AESDCHAR_MAX_WRITE_OPERATIONS_SUPPORTED (10 in the code)
  NULL           \* the null pointer

(***************************************************************************)
(* in_offs, out_offs and every loop index are uint8_t, and in_offs is      *)
(* incremented to MaxWriteOps before it is compared with it.               *)
(***************************************************************************)
ASSUME MaxWriteOpsAssumption == MaxWriteOps \in 1 .. 255

Slots == 0 .. MaxWriteOps - 1

(* The address of an element of the array is never the null pointer.       *)
ASSUME NullAssumption == NULL \notin Slots

(* struct aesd_buffer_entry over a set of pointers.                        *)
BufferEntry(Ptrs) == [buffptr : Ptrs \cup {NULL}, size : Nat]

ZeroEntry == [buffptr |-> NULL, size |-> 0]

(* struct aesd_circular_buffer over a set of pointers.                     *)
CircularBufferType(Ptrs) ==
  [entry    : [Slots -> BufferEntry(Ptrs)],
   in_offs  : Slots,
   out_offs : Slots,
   full     : BOOLEAN]

(* aesd_circular_buffer_init: memset to zero.                              *)
EmptyBuffer ==
  [entry    |-> [s \in Slots |-> ZeroEntry],
   in_offs  |-> 0,
   out_offs |-> 0,
   full     |-> FALSE]

(* The slot of the i-th entry in reading order, i counted from 0.          *)
SlotOf(b, i) == (b.out_offs + i) % MaxWriteOps

(* The bytes held by the first i entries in reading order.                 *)
AccLength(b) ==
  LET acc[i \in 0 .. MaxWriteOps] ==
        IF i = 0 THEN 0 ELSE acc[i - 1] + b.entry[SlotOf(b, i - 1)].size
  IN  acc

(* aesd_circular_buffer_size.                                              *)
BufferSize(b) == AccLength(b)[MaxWriteOps]

(* The position just past an entry counted as its own.                     *)
FindEntryInclusive(b, char_offset) ==
  LET acc  == AccLength(b)
      hits == {i \in Slots : acc[i + 1] >= char_offset}
      first == CHOOSE i \in hits : \A j \in hits : i <= j
  IN  IF hits = {}
      THEN [slot |-> NULL, offset |-> 0]
      ELSE [slot |-> SlotOf(b, first), offset |-> char_offset - acc[first]]

(***************************************************************************)
(* aesd_circular_buffer_find_entry_offset_for_fpos: the first entry, in    *)
(* reading order, whose bytes reach past char_offset, with the offset      *)
(* inside it; slot NULL when there is none.                                *)
(***************************************************************************)
FindEntry(b, char_offset) ==
  LET acc     == AccLength(b)
      Past(i) == acc[i + 1] > char_offset
      hits    == {i \in Slots : Past(i)}
      first   == CHOOSE i \in hits : \A j \in hits : i <= j
  IN  IF hits = {}
      THEN [slot |-> NULL, offset |-> 0]
      ELSE [slot |-> SlotOf(b, first), offset |-> char_offset - acc[first]]

(***************************************************************************)
(* aesd_circular_buffer_add_entry returns the pointer it overwrote ...     *)
(***************************************************************************)
RemovedOldest(b) == b.entry[b.out_offs].buffptr

RemovedBuffptr(b) == b.entry[b.in_offs].buffptr

(* in_offs is compared with the limit before it is incremented, and        *)
(* out_offs does not follow in_offs.                                       *)
AddEntryLateWrap(b, e) ==
  LET wraps == b.in_offs = MaxWriteOps
      in    == IF wraps THEN 0 ELSE b.in_offs + 1
      full  == b.full \/ wraps
  IN  [entry    |-> [b.entry EXCEPT ![b.in_offs] = e],
       in_offs  |-> in,
       out_offs |-> IF full THEN in ELSE b.out_offs,
       full     |-> full]

AddEntryOutStays(b, e) ==
  LET wraps == b.in_offs + 1 = MaxWriteOps
  IN  [entry    |-> [b.entry EXCEPT ![b.in_offs] = e],
       in_offs  |-> IF wraps THEN 0 ELSE b.in_offs + 1,
       out_offs |-> b.out_offs,
       full     |-> b.full \/ wraps]

(* ... and advances in_offs, and out_offs once the buffer is full.         *)
AddEntry(b, e) ==
  LET wraps == b.in_offs + 1 = MaxWriteOps
      in    == IF wraps THEN 0 ELSE b.in_offs + 1
      full  == b.full \/ wraps
  IN  [entry    |-> [b.entry EXCEPT ![b.in_offs] = e],
       in_offs  |-> in,
       out_offs |-> IF full THEN in ELSE b.out_offs,
       full     |-> full]

-----------------------------------------------------------------------------
(* How many entries the buffer holds, and the entries in reading order:    *)
(* the reference the specifications compare the buffer with.               *)
Count(b) == IF b.full THEN MaxWriteOps ELSE b.in_offs

LiveEntries(b) == [i \in 1 .. Count(b) |-> b.entry[SlotOf(b, i - 1)]]

(***************************************************************************)
(* Before the first wrap reading starts at slot 0 and exactly the slots    *)
(* below in_offs are in use; afterwards reading starts where the next      *)
(* write goes and every slot is in use.                                    *)
(***************************************************************************)
WellShaped(b) ==
  IF b.full
  THEN /\ b.out_offs = b.in_offs
       /\ \A s \in Slots : b.entry[s].buffptr # NULL
  ELSE /\ b.out_offs = 0
       /\ \A s \in Slots : IF s < b.in_offs
                           THEN b.entry[s].buffptr # NULL
                           ELSE b.entry[s] = ZeroEntry
=============================================================================
