------------------------ MODULE CircularBufferLemmas ------------------------
(***************************************************************************)
(* What the operators on the circular buffer return and preserve, for      *)
(* every MaxWriteOps.  The proofs of the buffer and of the driver rest on  *)
(* these facts.                                                            *)
(***************************************************************************)
EXTENDS CircularBuffer, SequencesExt, SequenceTheorems, Induction

(* Two offsets below the array's length add up to less than twice it, so   *)
(* the remainder SlotOf takes is at most one subtraction.                  *)
LEMMA WrapOnce ==
  ASSUME NEW a \in Slots, NEW i \in Slots
  PROVE  /\ (a + i) % MaxWriteOps \in Slots
         /\ a + i < MaxWriteOps => (a + i) % MaxWriteOps = a + i
         /\ a + i >= MaxWriteOps => (a + i) % MaxWriteOps = a + i - MaxWriteOps
BY MaxWriteOpsAssumption DEF Slots

(* The fields of the buffer that add_entry leaves.                         *)
LEMMA AddEntryFields ==
  ASSUME NEW Ptrs, NEW b \in CircularBufferType(Ptrs), NEW e \in BufferEntry(Ptrs)
  PROVE  LET c == AddEntry(b, e)
         IN  /\ c \in CircularBufferType(Ptrs)
             /\ \A s \in Slots : c.entry[s] = IF s = b.in_offs THEN e ELSE b.entry[s]
             /\ b.in_offs + 1 = MaxWriteOps =>
                  c.in_offs = 0 /\ c.out_offs = 0 /\ c.full
             /\ b.in_offs + 1 # MaxWriteOps =>
                  /\ c.in_offs = b.in_offs + 1
                  /\ c.full <=> b.full
                  /\ c.out_offs = IF b.full THEN b.in_offs + 1 ELSE b.out_offs
<1> DEFINE wraps == b.in_offs + 1 = MaxWriteOps
           in    == IF wraps THEN 0 ELSE b.in_offs + 1
           full  == b.full \/ wraps
           ent   == [b.entry EXCEPT ![b.in_offs] = e]
           out   == IF full THEN in ELSE b.out_offs
<1>1. /\ b.entry \in [Slots -> BufferEntry(Ptrs)]
      /\ b.in_offs \in Slots
      /\ b.out_offs \in Slots
      /\ b.full \in BOOLEAN
  BY DEF CircularBufferType
<1>2. AddEntry(b, e) = [entry |-> ent, in_offs |-> in, out_offs |-> out, full |-> full]
  BY DEF AddEntry
<1>3. ent \in [Slots -> BufferEntry(Ptrs)]
  BY <1>1
<1>4. in \in Slots
  BY <1>1, MaxWriteOpsAssumption DEF Slots
<1>5. out \in Slots
  BY <1>1, <1>4
<1>6. full \in BOOLEAN
  OBVIOUS
<1>7. \A s \in Slots : ent[s] = IF s = b.in_offs THEN e ELSE b.entry[s]
  BY <1>1
<1> HIDE DEF ent, in, out, full
<1>8. AddEntry(b, e) \in CircularBufferType(Ptrs)
  BY <1>2, <1>3, <1>4, <1>5, <1>6 DEF CircularBufferType
<1>9. /\ AddEntry(b, e).entry = ent
      /\ AddEntry(b, e).in_offs = in
      /\ AddEntry(b, e).out_offs = out
      /\ AddEntry(b, e).full = full
  BY <1>2
<1> QED
  BY <1>1, <1>7, <1>8, <1>9 DEF in, out, full

(* A new buffer is well typed, well shaped and holds nothing.              *)
LEMMA EmptyBufferFacts ==
  ASSUME NEW Ptrs
  PROVE  /\ EmptyBuffer \in CircularBufferType(Ptrs)
         /\ WellShaped(EmptyBuffer)
         /\ LiveEntries(EmptyBuffer) = << >>
<1>1. EmptyBuffer \in CircularBufferType(Ptrs)
  BY MaxWriteOpsAssumption
     DEF EmptyBuffer, ZeroEntry, CircularBufferType, BufferEntry, Slots
<1>2. WellShaped(EmptyBuffer)
  BY MaxWriteOpsAssumption DEF EmptyBuffer, WellShaped, Slots
<1>3. Count(EmptyBuffer) = 0
  BY DEF EmptyBuffer, Count
<1>4. LiveEntries(EmptyBuffer) = << >>
  BY <1>3 DEF LiveEntries
<1> QED BY <1>1, <1>2, <1>4

(* add_entry keeps the shape when it is given an allocated buffer.         *)
LEMMA AddEntryShape ==
  ASSUME NEW Ptrs, NEW b \in CircularBufferType(Ptrs), NEW e \in BufferEntry(Ptrs),
         WellShaped(b), e.buffptr # NULL
  PROVE  WellShaped(AddEntry(b, e))
<1> DEFINE c == AddEntry(b, e)
<1>1. /\ b.in_offs \in Slots
      /\ b.full \in BOOLEAN
  BY DEF CircularBufferType
<1>2. /\ \A s \in Slots : c.entry[s] = IF s = b.in_offs THEN e ELSE b.entry[s]
      /\ b.in_offs + 1 = MaxWriteOps =>
           c.in_offs = 0 /\ c.out_offs = 0 /\ c.full
      /\ b.in_offs + 1 # MaxWriteOps =>
           /\ c.in_offs = b.in_offs + 1
           /\ c.full <=> b.full
           /\ c.out_offs = IF b.full THEN b.in_offs + 1 ELSE b.out_offs
  BY AddEntryFields
<1> SUFFICES WellShaped(c)
  OBVIOUS
<1> HIDE DEF c
<1>3. CASE b.in_offs + 1 = MaxWriteOps
  BY <1>1, <1>2, <1>3, MaxWriteOpsAssumption DEF WellShaped, Slots
<1>4. CASE b.in_offs + 1 # MaxWriteOps
  BY <1>1, <1>2, <1>4, MaxWriteOpsAssumption DEF WellShaped, Slots
<1> QED BY <1>3, <1>4

(* The live entries, one by one.                                           *)
LEMMA LiveEntriesSeq ==
  ASSUME NEW Ptrs, NEW b \in CircularBufferType(Ptrs), WellShaped(b)
  PROVE  /\ Count(b) \in 0 .. MaxWriteOps
         /\ LiveEntries(b) \in Seq(BufferEntry(Ptrs))
         /\ Len(LiveEntries(b)) = Count(b)
         /\ Count(b) = MaxWriteOps <=> b.full
         /\ \A i \in 1 .. Count(b) :
              LiveEntries(b)[i] =
                b.entry[IF b.out_offs + (i - 1) < MaxWriteOps
                        THEN b.out_offs + (i - 1)
                        ELSE b.out_offs + (i - 1) - MaxWriteOps]
<1>1. /\ b.entry \in [Slots -> BufferEntry(Ptrs)]
      /\ b.in_offs \in Slots
      /\ b.out_offs \in Slots
      /\ b.full \in BOOLEAN
  BY DEF CircularBufferType
<1>2. Count(b) \in 0 .. MaxWriteOps /\ (Count(b) = MaxWriteOps <=> b.full)
  BY <1>1, MaxWriteOpsAssumption DEF Count, Slots
<1>3. \A i \in 1 .. Count(b) :
        /\ SlotOf(b, i - 1) \in Slots
        /\ SlotOf(b, i - 1) = IF b.out_offs + (i - 1) < MaxWriteOps
                              THEN b.out_offs + (i - 1)
                              ELSE b.out_offs + (i - 1) - MaxWriteOps
  <2> TAKE i \in 1 .. Count(b)
  <2>1. i - 1 \in Slots
    BY <1>2, MaxWriteOpsAssumption DEF Slots
  <2>2. b.out_offs \in Int /\ i - 1 \in Int /\ MaxWriteOps \in Int
    BY <1>1, <2>1, MaxWriteOpsAssumption DEF Slots
  <2> QED
    BY <1>1, <2>1, <2>2, WrapOnce DEF SlotOf
<1>4. \A i \in 1 .. Count(b) : b.entry[SlotOf(b, i - 1)] \in BufferEntry(Ptrs)
  BY <1>1, <1>3
<1>5. LiveEntries(b) \in [1 .. Count(b) -> BufferEntry(Ptrs)]
  BY <1>4 DEF LiveEntries
<1>6. LiveEntries(b) \in Seq(BufferEntry(Ptrs)) /\ Len(LiveEntries(b)) = Count(b)
  BY <1>2, <1>5
<1>7. \A i \in 1 .. Count(b) : LiveEntries(b)[i] = b.entry[SlotOf(b, i - 1)]
  BY DEF LiveEntries
<1> QED BY <1>2, <1>3, <1>6, <1>7

(***************************************************************************)
(* What add_entry does to the live entries: it appends to them, and once   *)
(* there are MaxWriteOps it drops the oldest and returns its buffer.       *)
(***************************************************************************)
LEMMA AddEntryLive ==
  ASSUME NEW Ptrs, NEW b \in CircularBufferType(Ptrs), NEW e \in BufferEntry(Ptrs),
         WellShaped(b), e.buffptr # NULL
  PROVE  /\ ~b.full => /\ Len(LiveEntries(b)) < MaxWriteOps
                       /\ LiveEntries(AddEntry(b, e)) = Append(LiveEntries(b), e)
                       /\ RemovedBuffptr(b) = NULL
         /\ b.full  => /\ Len(LiveEntries(b)) = MaxWriteOps
                       /\ LiveEntries(AddEntry(b, e)) = Append(Tail(LiveEntries(b)), e)
                       /\ RemovedBuffptr(b) = Head(LiveEntries(b)).buffptr
<1> DEFINE c == AddEntry(b, e)
           L == LiveEntries(b)
           M == LiveEntries(c)
           Place(x, i) == IF x.out_offs + (i - 1) < MaxWriteOps
                          THEN x.out_offs + (i - 1)
                          ELSE x.out_offs + (i - 1) - MaxWriteOps
<1>1. /\ b.in_offs \in Slots
      /\ b.out_offs \in Slots
      /\ b.full \in BOOLEAN
      /\ MaxWriteOps \in Nat \ {0}
  BY MaxWriteOpsAssumption DEF CircularBufferType
<1>2. /\ c \in CircularBufferType(Ptrs)
      /\ \A s \in Slots : c.entry[s] = IF s = b.in_offs THEN e ELSE b.entry[s]
      /\ b.in_offs + 1 = MaxWriteOps =>
           c.in_offs = 0 /\ c.out_offs = 0 /\ c.full
      /\ b.in_offs + 1 # MaxWriteOps =>
           /\ c.in_offs = b.in_offs + 1
           /\ c.full <=> b.full
           /\ c.out_offs = IF b.full THEN b.in_offs + 1 ELSE b.out_offs
  BY AddEntryFields
<1>3. /\ Count(b) \in 0 .. MaxWriteOps
      /\ L \in Seq(BufferEntry(Ptrs))
      /\ Len(L) = Count(b)
      /\ Count(b) = MaxWriteOps <=> b.full
      /\ \A i \in 1 .. Count(b) : L[i] = b.entry[Place(b, i)]
  BY LiveEntriesSeq
<1>4. WellShaped(c)
  BY AddEntryShape
<1>5. /\ M \in Seq(BufferEntry(Ptrs))
      /\ Len(M) = Count(c)
      /\ \A i \in 1 .. Count(c) : M[i] = c.entry[Place(c, i)]
  BY <1>2, <1>4, LiveEntriesSeq
<1> HIDE DEF c, L, M
<1>6. ASSUME ~b.full
      PROVE  /\ Len(L) < MaxWriteOps
             /\ M = Append(L, e)
             /\ RemovedBuffptr(b) = NULL
  <2>1. b.out_offs = 0 /\ Count(b) = b.in_offs
    BY <1>6 DEF WellShaped, Count
  <2>2. Count(c) = b.in_offs + 1 /\ c.out_offs = 0
    BY <1>1, <1>2, <1>6, <2>1 DEF Count
  <2>3. RemovedBuffptr(b) = NULL
    BY <1>1, <1>6 DEF WellShaped, RemovedBuffptr, ZeroEntry, Slots
  <2>4. \A i \in 1 .. b.in_offs + 1 : M[i] = Append(L, e)[i]
    <3> TAKE i \in 1 .. b.in_offs + 1
    <3>1. i - 1 \in Slots /\ Place(c, i) = i - 1
      BY <1>1, <2>2 DEF Slots
    <3>2. M[i] = IF i - 1 = b.in_offs THEN e ELSE b.entry[i - 1]
      BY <1>2, <1>5, <2>2, <3>1
    <3>3. i # b.in_offs + 1 => L[i] = b.entry[i - 1]
      BY <1>1, <1>3, <2>1 DEF Slots
    <3> QED BY <1>1, <1>3, <2>1, <3>2, <3>3, AppendProperties, SMTT(30) DEF Slots
  <2>5. M = Append(L, e)
    <3>1. Append(L, e) \in Seq(BufferEntry(Ptrs)) /\ Len(Append(L, e)) = b.in_offs + 1
      BY <1>3, <2>1, AppendProperties
    <3>2. Len(M) = b.in_offs + 1
      BY <1>5, <2>2
    <3>3. \A i \in 1 .. Len(M) : M[i] = Append(L, e)[i]
      BY <2>4, <3>2
    <3> QED BY <1>5, <3>1, <3>2, <3>3, SeqEqual
  <2> QED BY <1>1, <1>3, <2>1, <2>3, <2>5 DEF Slots
<1>7. ASSUME b.full
      PROVE  /\ Len(L) = MaxWriteOps
             /\ M = Append(Tail(L), e)
             /\ RemovedBuffptr(b) = Head(L).buffptr
  <2>1. b.out_offs = b.in_offs /\ Count(b) = MaxWriteOps
    BY <1>7 DEF WellShaped, Count
  <2>2. Count(c) = MaxWriteOps /\ c.out_offs = IF b.in_offs + 1 = MaxWriteOps THEN 0 ELSE b.in_offs + 1
    BY <1>1, <1>2, <1>7 DEF Count
  <2>3. Head(L) = b.entry[b.in_offs]
    BY <1>1, <1>3, <2>1 DEF Slots
  <2>4. /\ Tail(L) \in Seq(BufferEntry(Ptrs))
        /\ Len(Tail(L)) = MaxWriteOps - 1
        /\ \A i \in 1 .. MaxWriteOps - 1 : Tail(L)[i] = L[i + 1]
    BY <1>1, <1>3, <2>1, HeadTailProperties
  <2>5. /\ Append(Tail(L), e) \in Seq(BufferEntry(Ptrs))
        /\ Len(Append(Tail(L), e)) = MaxWriteOps
        /\ \A i \in 1 .. MaxWriteOps - 1 : Append(Tail(L), e)[i] = L[i + 1]
        /\ Append(Tail(L), e)[MaxWriteOps] = e
    BY <1>1, <2>4, AppendProperties
  <2>6. \A i \in 1 .. MaxWriteOps : M[i] = Append(Tail(L), e)[i]
    <3> TAKE i \in 1 .. MaxWriteOps
    <3>1. M[i] = c.entry[Place(c, i)] /\ Place(c, i) \in Slots
      BY <1>1, <1>5, <2>2, SMTT(30) DEF Slots
    <3>2. CASE i = MaxWriteOps
      <4>1. Place(c, i) = b.in_offs
        BY <1>1, <2>2, <3>2 DEF Slots
      <4> QED BY <1>2, <2>5, <3>1, <3>2, <4>1
    <3>3. CASE i # MaxWriteOps
      <4>1. Place(c, i) = Place(b, i + 1) /\ Place(c, i) # b.in_offs
        BY <1>1, <2>1, <2>2, <3>3 DEF Slots
      <4>2. L[i + 1] = b.entry[Place(b, i + 1)]
        BY <1>1, <1>3, <2>1, <3>3
      <4> QED BY <1>2, <2>5, <3>1, <3>3, <4>1, <4>2
    <3> QED BY <3>2, <3>3
  <2>7. M = Append(Tail(L), e)
    BY <1>5, <2>2, <2>5, <2>6, SeqEqual
  <2> QED BY <1>3, <2>1, <2>3, <2>7 DEF RemovedBuffptr
<1> QED BY <1>6, <1>7 DEF c, L, M

-----------------------------------------------------------------------------
(* A slot in reading order is a slot.                                      *)
LEMMA SlotOfIsSlot ==
  ASSUME NEW Ptrs, NEW b \in CircularBufferType(Ptrs), NEW i \in Slots
  PROVE  SlotOf(b, i) \in Slots
<1>1. b.out_offs \in Slots
  BY DEF CircularBufferType
<1> QED BY <1>1, WrapOnce DEF SlotOf

(* The sum of the sizes, entry by entry in reading order.                  *)
LEMMA AccLengthFacts ==
  ASSUME NEW Ptrs, NEW b \in CircularBufferType(Ptrs)
  PROVE  /\ AccLength(b) \in [0 .. MaxWriteOps -> Nat]
         /\ AccLength(b)[0] = 0
         /\ \A i \in Slots : AccLength(b)[i + 1] = AccLength(b)[i] + b.entry[SlotOf(b, i)].size
<1> DEFINE N == MaxWriteOps
           size == [i \in Slots |-> b.entry[SlotOf(b, i)].size]
           G == [i \in 1 .. N |-> [v \in Nat |-> v + size[i - 1]]]
           Sums(acc) == acc = [i \in 0 .. N |->
                                 IF i = 0 THEN 0
                                 ELSE acc[i - 1] + b.entry[SlotOf(b, i - 1)].size]
<1>1. N \in Nat /\ Slots = 0 .. N - 1
  BY MaxWriteOpsAssumption DEF Slots
<1>2. size \in [Slots -> Nat]
  <2> SUFFICES ASSUME NEW i \in Slots PROVE b.entry[SlotOf(b, i)].size \in Nat
    OBVIOUS
  <2>1. SlotOf(b, i) \in Slots
    BY SlotOfIsSlot
  <2> QED BY <2>1 DEF CircularBufferType, BufferEntry
<1>3. \A i \in 1 .. N : i - 1 \in Slots /\ size[i - 1] = b.entry[SlotOf(b, i - 1)].size
  BY <1>1
<1> HIDE DEF size, N
<1>4. /\ G \in [1 .. N -> [Nat -> Nat]]
      /\ \A i \in 1 .. N : \A v \in Nat : G[i][v] = v + size[i - 1]
  BY <1>2, <1>3
<1> HIDE DEF G
<1>5. PICK f \in [0 .. N -> Nat] : Follows(f, N, 0, G)
  <2>1. 0 \in Nat /\ G \in [1 .. N -> [Nat -> Nat]]
    BY <1>4
  <2> QED BY <1>1, <2>1, RecursionExists, Zenon
<1>6. \A i \in 1 .. N : f[i] = f[i - 1] + b.entry[SlotOf(b, i - 1)].size
  <2> TAKE i \in 1 .. N
  <2>1. i - 1 \in 0 .. N /\ f[i - 1] \in Nat
    BY <1>1
  <2> QED BY <1>3, <1>4, <1>5, <2>1 DEF Follows
<1>7. Sums(f)
  BY <1>1, <1>5, <1>6 DEF Follows
<1>8. AccLength(b) = CHOOSE acc : Sums(acc)
  BY DEF AccLength, N
<1>9. Sums(AccLength(b))
  <2> HIDE DEF Sums
  <2> QED BY <1>7, <1>8
<1>10. /\ AccLength(b)[0] = 0
       /\ \A i \in 1 .. N : AccLength(b)[i] = AccLength(b)[i - 1] + b.entry[SlotOf(b, i - 1)].size
  BY <1>1, <1>9
<1>11. \A i \in Slots : AccLength(b)[i + 1] = AccLength(b)[i] + size[i]
  <2> TAKE i \in Slots
  <2>1. i + 1 \in 1 .. N /\ (i + 1) - 1 = i
    BY <1>1
  <2> QED BY <1>3, <1>10, <2>1
<1>12. AccLength(b) \in [0 .. N -> Nat]
  <2> DEFINE S == {i \in 0 .. N : AccLength(b)[i] \in Nat}
  <2>1. 0 \in S
    BY <1>1, <1>10
  <2>2. \A i \in 0 .. N - 1 : i \in S => i + 1 \in S
    BY <1>1, <1>2, <1>11, SMTT(30)
  <2> HIDE DEF S
  <2>3. 0 .. N \subseteq S
    BY <1>1, <2>1, <2>2, BoundedInduction
  <2>4. AccLength(b) = [i \in 0 .. N |-> AccLength(b)[i]]
    BY <1>9
  <2> QED BY <2>3, <2>4 DEF S
<1> QED BY <1>10, <1>11, <1>12 DEF N, size

(* The sums never decrease.                                                *)
LEMMA AccLengthGrows ==
  ASSUME NEW Ptrs, NEW b \in CircularBufferType(Ptrs),
         NEW i \in 0 .. MaxWriteOps, NEW j \in i .. MaxWriteOps
  PROVE  AccLength(b)[i] <= AccLength(b)[j]
<1> DEFINE N == MaxWriteOps
           acc == AccLength(b)
           S == {k \in 0 .. N : i <= k => acc[i] <= acc[k]}
<1>1. N \in Nat /\ Slots = 0 .. N - 1 /\ i \in 0 .. N /\ j \in 0 .. N /\ i <= j
  BY MaxWriteOpsAssumption DEF Slots
<1>2. /\ acc \in [0 .. N -> Nat] /\ acc[0] = 0
      /\ \A k \in Slots : acc[k + 1] = acc[k] + b.entry[SlotOf(b, k)].size
  BY AccLengthFacts
<1>3. \A k \in Slots : b.entry[SlotOf(b, k)].size \in Nat
  BY SlotOfIsSlot DEF CircularBufferType, BufferEntry
<1> HIDE DEF acc, N
<1>4. 0 \in S
  BY <1>1, <1>2
<1>5. ASSUME NEW k \in 0 .. N - 1, k \in S PROVE k + 1 \in S
  <2>1. /\ k + 1 \in 0 .. N /\ k \in 0 .. N /\ acc[k] \in Nat /\ acc[k + 1] \in Nat
        /\ acc[i] \in Nat /\ acc[k] <= acc[k + 1]
    <3>1. k + 1 \in 0 .. N /\ k \in 0 .. N /\ k \in Slots
      BY <1>1
    <3>2. acc[k] \in Nat /\ acc[k + 1] \in Nat /\ acc[i] \in Nat
      BY <1>1, <1>2, <3>1
    <3>3. acc[k + 1] = acc[k] + b.entry[SlotOf(b, k)].size /\ b.entry[SlotOf(b, k)].size \in Nat
      BY <1>2, <1>3, <3>1
    <3> QED BY <3>1, <3>2, <3>3
  <2>2. CASE i <= k
    BY <1>5, <2>1, <2>2
  <2>3. CASE ~(i <= k)
    <3>1. i <= k + 1 => i = k + 1
      BY <1>1, <2>3
    <3> QED BY <2>1, <3>1
  <2> QED BY <2>2, <2>3
<1> HIDE DEF S
<1>6. 0 .. N \subseteq S
  BY <1>1, <1>4, <1>5, BoundedInduction
<1> QED BY <1>1, <1>6 DEF S, acc, N

(* The entry an offset lies in.                                            *)
LEMMA FindEntryAt ==
  ASSUME NEW Ptrs, NEW b \in CircularBufferType(Ptrs), NEW i \in Slots, NEW off \in Nat,
         AccLength(b)[i] <= off, off < AccLength(b)[i + 1]
  PROVE  FindEntry(b, off) = [slot |-> SlotOf(b, i), offset |-> off - AccLength(b)[i]]
<1> DEFINE acc   == AccLength(b)
           hits  == {k \in Slots : acc[k + 1] > off}
           first == CHOOSE k \in hits : \A j \in hits : k <= j
<1>1. MaxWriteOps \in Nat /\ Slots = 0 .. MaxWriteOps - 1 /\ i \in Nat
  BY MaxWriteOpsAssumption DEF Slots
<1>2. acc \in [0 .. MaxWriteOps -> Nat]
  BY AccLengthFacts
<1>3. i \in hits
  BY <1>1, <1>2
<1>4. ASSUME NEW k \in hits PROVE i <= k
  <2>1. SUFFICES ASSUME k < i PROVE FALSE
    BY <1>1
  <2>2. k + 1 \in 0 .. MaxWriteOps /\ i \in k + 1 .. MaxWriteOps
    BY <1>1, <2>1
  <2>3. acc[k + 1] <= acc[i]
    BY <2>2, AccLengthGrows
  <2>4. acc[k + 1] \in Nat /\ acc[i] \in Nat /\ acc[k + 1] > off
    BY <1>1, <1>2, <2>2
  <2> QED BY <2>3, <2>4
<1>5. first = i
  <2>1. first \in hits /\ \A j \in hits : first <= j
    <3> HIDE DEF hits
    <3> QED BY <1>3, <1>4
  <2>2. first \in Slots
    BY <2>1
  <2> HIDE DEF first
  <2>3. first <= i /\ i <= first
    BY <1>3, <1>4, <2>1
  <2> QED BY <1>1, <2>2, <2>3
<1>6. hits # {}
  BY <1>3
<1>7. FindEntry(b, off) = IF hits = {} THEN [slot |-> NULL, offset |-> 0]
                          ELSE [slot |-> SlotOf(b, first), offset |-> off - acc[first]]
  BY DEF FindEntry
<1> HIDE DEF hits, first
<1> QED BY <1>5, <1>6, <1>7

(* There is none at or past the end ...                                    *)
LEMMA FindEntryPast ==
  ASSUME NEW Ptrs, NEW b \in CircularBufferType(Ptrs), NEW off \in Nat, BufferSize(b) <= off
  PROVE  FindEntry(b, off).slot = NULL
<1> DEFINE acc == AccLength(b)
<1>1. MaxWriteOps \in Nat /\ Slots = 0 .. MaxWriteOps - 1
  BY MaxWriteOpsAssumption DEF Slots
<1>2. acc \in [0 .. MaxWriteOps -> Nat]
  BY AccLengthFacts
<1>3. ASSUME NEW k \in Slots PROVE ~(acc[k + 1] > off)
  <2>1. k + 1 \in 0 .. MaxWriteOps /\ MaxWriteOps \in k + 1 .. MaxWriteOps
    BY <1>1
  <2>2. acc[k + 1] <= acc[MaxWriteOps]
    BY <2>1, AccLengthGrows
  <2>3. acc[k + 1] \in Nat /\ acc[MaxWriteOps] \in Nat
    BY <1>2, <2>1
  <2> QED BY <2>2, <2>3 DEF BufferSize
<1>4. {k \in Slots : acc[k + 1] > off} = {}
  BY <1>3
<1> QED BY <1>4 DEF FindEntry

(* ... and one before it.                                                  *)
LEMMA FindEntryBefore ==
  ASSUME NEW Ptrs, NEW b \in CircularBufferType(Ptrs), NEW off \in Nat, off < BufferSize(b)
  PROVE  \E i \in Slots : AccLength(b)[i] <= off /\ off < AccLength(b)[i + 1]
<1> DEFINE acc  == AccLength(b)
           hits == {k \in 0 .. MaxWriteOps : acc[k] > off}
<1>1. MaxWriteOps \in Nat /\ Slots = 0 .. MaxWriteOps - 1
  BY MaxWriteOpsAssumption DEF Slots
<1>2. acc \in [0 .. MaxWriteOps -> Nat] /\ acc[0] = 0
  BY AccLengthFacts
<1>3. hits # {} /\ hits \subseteq Nat
  BY <1>1, <1>2 DEF BufferSize
<1>4. PICK k \in hits : \A j \in hits : k <= j
  <2> HIDE DEF hits
  <2> QED BY <1>3, Least
<1>5. k # 0 /\ k \in 1 .. MaxWriteOps
  BY <1>1, <1>2, <1>4
<1>6. k - 1 \in Slots /\ k - 1 \in 0 .. MaxWriteOps /\ (k - 1) + 1 = k /\ k - 1 \notin hits
  BY <1>1, <1>4, <1>5
<1>7. acc[k - 1] <= off
  BY <1>2, <1>6
<1> QED BY <1>4, <1>6, <1>7

-----------------------------------------------------------------------------
(* acc[i] is how many elements the first i of N sequences have.            *)
Sums(acc, N, seqs) ==
  acc[0] = 0 /\ \A i \in 1 .. N : acc[i] = acc[i - 1] + Len(seqs[i])

(***************************************************************************)
(* g is the first n of some sequences put one after the other.             *)
(***************************************************************************)
Joined(g, n, seqs, acc) ==
  /\ Len(g) = acc[n]
  /\ \A i \in 0 .. n : acc[i] <= acc[n]
  /\ \A i \in 1 .. n : \A k \in 1 .. Len(seqs[i]) : g[acc[i - 1] + k] = seqs[i][k]

(* The next one is put behind them.                                        *)
LEMMA JoinedNext ==
  ASSUME NEW S, NEW N \in Nat, NEW seqs \in [1 .. N -> Seq(S)],
         NEW acc \in [0 .. N -> Nat], Sums(acc, N, seqs),
         NEW n \in 0 .. N - 1, NEW g \in Seq(S), Joined(g, n, seqs, acc)
  PROVE  g \o seqs[n + 1] \in Seq(S) /\ Joined(g \o seqs[n + 1], n + 1, seqs, acc)
<1> DEFINE t == seqs[n + 1]
           h == g \o t
<1>1. n \in Nat /\ n + 1 \in 1 .. N /\ n \in 0 .. N /\ (n + 1) - 1 = n /\ n + 1 \in 0 .. N
  OBVIOUS
<1>2. t \in Seq(S) /\ Len(t) \in Nat /\ acc[n] \in Nat /\ acc[n + 1] \in Nat
      /\ Len(g) \in Nat
  BY <1>1, LenProperties
<1>3. acc[n + 1] = acc[n] + Len(t) /\ Len(g) = acc[n]
  BY <1>1 DEF Joined, Sums
<1>4. /\ h \in Seq(S) /\ Len(h) = Len(g) + Len(t)
      /\ \A i \in 1 .. Len(g) + Len(t) : h[i] = IF i <= Len(g) THEN g[i] ELSE t[i - Len(g)]
  <2> HIDE DEF t
  <2> QED BY <1>2, ConcatProperties
<1> HIDE DEF t, h
<1>5. Len(h) = acc[n + 1]
  BY <1>3, <1>4
<1>6. \A i \in 0 .. n + 1 : acc[i] <= acc[n + 1]
  <2> TAKE i \in 0 .. n + 1
  <2>1. CASE i = n + 1
    BY <1>2, <2>1
  <2>2. CASE i # n + 1
    <3>1. i \in 0 .. n /\ i \in 0 .. N
      BY <1>1, <2>2
    <3>2. acc[i] <= acc[n] /\ acc[i] \in Nat
      BY <3>1 DEF Joined
    <3> QED BY <1>2, <1>3, <3>2, SMTT(30)
  <2> QED BY <2>1, <2>2
<1>7. ASSUME NEW i \in 1 .. n + 1, NEW k \in 1 .. Len(seqs[i])
      PROVE  h[acc[i - 1] + k] = seqs[i][k]
  <2>1. CASE i = n + 1
    <3>1. i - 1 = n /\ seqs[i] = t /\ k \in 1 .. Len(t)
      BY <1>1, <2>1 DEF t
    <3>2. acc[n] + k \in 1 .. Len(g) + Len(t) /\ ~(acc[n] + k <= Len(g)) /\ (acc[n] + k) - Len(g) = k
      <4>1. PICK G \in Nat, T \in Nat : G = Len(g) /\ T = Len(t)
        BY <1>2
      <4>2. k \in 1 .. T /\ acc[n] = G
        BY <1>3, <3>1, <4>1
      <4>3. G + k \in 1 .. G + T /\ ~(G + k <= G) /\ (G + k) - G = k
        BY <4>2
      <4> QED BY <4>1, <4>2, <4>3
    <3>3. h[acc[n] + k] = t[k]
      BY <1>4, <3>2
    <3> QED BY <3>1, <3>3
  <2>2. CASE i # n + 1
    <3>1. i \in 1 .. n /\ i \in 1 .. N /\ i \in 0 .. n /\ i - 1 \in 0 .. N /\ i \in 0 .. N
      BY <1>1, <2>2
    <3>2. /\ acc[i] = acc[i - 1] + Len(seqs[i]) /\ acc[i] <= acc[n] /\ acc[i - 1] \in Nat
          /\ Len(seqs[i]) \in Nat
      BY <3>1, LenProperties DEF Joined, Sums
    <3>3. acc[i - 1] + k \in 1 .. Len(g) + Len(t) /\ acc[i - 1] + k <= Len(g)
      <4>1. PICK x \in Nat, l \in Nat, y \in Nat :
              x = acc[i - 1] /\ l = Len(seqs[i]) /\ y = acc[n]
        BY <1>2, <3>2
      <4>2. k \in 1 .. l /\ x + l <= y /\ Len(g) = y /\ Len(t) \in Nat
        BY <1>2, <1>3, <3>2, <4>1
      <4>3. x + k \in 1 .. y + Len(t) /\ x + k <= y
        BY <4>2
      <4> QED BY <4>1, <4>2, <4>3
    <3>4. g[acc[i - 1] + k] = seqs[i][k]
      BY <3>1 DEF Joined
    <3> QED BY <1>4, <3>3, <3>4
  <2> QED BY <2>1, <2>2
<1>8. Joined(h, n + 1, seqs, acc)
  BY <1>5, <1>6, <1>7 DEF Joined
<1> QED BY <1>4, <1>8 DEF h, t

(* FlattenSeq puts all of them one after the other.                        *)
LEMMA FlattenJoins ==
  ASSUME NEW S, NEW N \in Nat, NEW seqs \in [1 .. N -> Seq(S)],
         NEW acc \in [0 .. N -> Nat], Sums(acc, N, seqs)
  PROVE  FlattenSeq(seqs) \in Seq(S) /\ Joined(FlattenSeq(seqs), N, seqs, acc)
<1>1. Len(seqs) = N /\ seqs \in Seq(Seq(S))
  OBVIOUS
<1>2. CASE N = 0
  <2>1. FlattenSeq(seqs) = seqs /\ seqs = << >>
    BY <1>1, <1>2 DEF FlattenSeq
  <2> QED BY <1>2, <2>1 DEF Joined, Sums
<1>3. CASE N # 0
  <2> DEFINE V == Seq(S)
             G == [i \in 1 .. N |-> [v \in V |-> v \o seqs[i]]]
             Flattens(f) == f = [i \in 1 .. N |-> IF i = 1 THEN seqs[i] ELSE f[i - 1] \o seqs[i]]
             fl == CHOOSE f : Flattens(f)
  <2>1. \A i \in 1 .. N : \A v \in V : v \o seqs[i] \in V
    BY ConcatProperties
  <2>2. << >> \in V /\ (<< >> \o seqs[1]) = seqs[1]
    <3>1. seqs[1] \in Seq(S)
      BY <1>3
    <3> QED BY <3>1, ConcatEmptySeq
  <2> HIDE DEF V
  <2>3. /\ G \in [1 .. N -> [V -> V]]
        /\ \A i \in 1 .. N : \A v \in V : G[i][v] = v \o seqs[i]
    BY <2>1
  <2> HIDE DEF G
  <2>4. PICK f \in [0 .. N -> V] : Follows(f, N, << >>, G)
    BY <2>2, <2>3, RecursionExists, Zenon
  <2>5. \A i \in 1 .. N : f[i] = f[i - 1] \o seqs[i]
    <3> TAKE i \in 1 .. N
    <3>1. i - 1 \in 0 .. N /\ f[i - 1] \in V
      OBVIOUS
    <3> QED BY <2>3, <2>4, <3>1 DEF Follows
  <2>6. f[0] = << >>
    BY <2>4 DEF Follows
  <2> DEFINE e == [i \in 1 .. N |-> f[i]]
  <2>7. Flattens(e)
    <3>1. ASSUME NEW i \in 1 .. N PROVE f[i] = IF i = 1 THEN seqs[i] ELSE e[i - 1] \o seqs[i]
      <4>1. CASE i = 1
        <5>1. 1 \in 1 .. N /\ 1 - 1 = 0
          BY <1>3
        <5>2. f[1] = f[0] \o seqs[1]
          BY <2>5, <5>1
        <5> QED BY <2>2, <2>6, <4>1, <5>2
      <4>2. CASE i # 1
        <5>1. i - 1 \in 1 .. N
          BY <4>2
        <5> QED BY <2>5, <4>2, <5>1
      <4> QED BY <4>1, <4>2
    <3> QED BY <3>1
  <2>8. Flattens(fl)
    <3> HIDE DEF Flattens, e
    <3> QED BY <2>7
  <2>9. FlattenSeq(seqs) = fl[N]
    BY <1>1, <1>3 DEF FlattenSeq
  <2> HIDE DEF fl
  <2>10. fl[1] = seqs[1] /\ \A i \in 1 .. N : i # 1 => fl[i] = fl[i - 1] \o seqs[i]
    <3>1. 1 \in 1 .. N
      BY <1>3
    <3>2. ASSUME NEW i \in 1 .. N
          PROVE  fl[i] = IF i = 1 THEN seqs[i] ELSE fl[i - 1] \o seqs[i]
      BY <2>8, Zenon
    <3> HIDE DEF Flattens, e
    <3> QED BY <3>1, <3>2
  <2> HIDE DEF e, Flattens
  <2> DEFINE P == {n \in 0 .. N : n # 0 => fl[n] \in Seq(S) /\ Joined(fl[n], n, seqs, acc)}
  <2>11. 0 \in P
    OBVIOUS
  <2>12. ASSUME NEW n \in 0 .. N - 1, n \in P PROVE n + 1 \in P
    <3>1. n + 1 \in 1 .. N /\ n + 1 \in 0 .. N /\ (n + 1) - 1 = n
      OBVIOUS
    <3>2. CASE n = 0
      <4>1. << >> \in Seq(S) /\ Joined(<< >>, 0, seqs, acc)
        BY DEF Joined, Sums
      <4>2. << >> \o seqs[n + 1] \in Seq(S) /\ Joined(<< >> \o seqs[n + 1], n + 1, seqs, acc)
        BY <3>2, <4>1, JoinedNext
      <4>3. fl[n + 1] = << >> \o seqs[n + 1]
        BY <2>2, <2>10, <3>2
      <4> QED BY <3>1, <4>2, <4>3
    <3>3. CASE n # 0
      <4>1. fl[n] \in Seq(S) /\ Joined(fl[n], n, seqs, acc)
        BY <2>12, <3>3
      <4>2. fl[n] \o seqs[n + 1] \in Seq(S) /\ Joined(fl[n] \o seqs[n + 1], n + 1, seqs, acc)
        BY <4>1, JoinedNext
      <4>3. fl[n + 1] = fl[n] \o seqs[n + 1]
        <5>1. n + 1 # 1
          BY <3>3
        <5> QED BY <2>10, <3>1, <5>1
      <4> QED BY <3>1, <4>2, <4>3
    <3> QED BY <3>2, <3>3
  <2> HIDE DEF P
  <2>13. 0 .. N \subseteq P
    BY <2>11, <2>12, BoundedInduction
  <2> QED BY <1>3, <2>9, <2>13 DEF P
<1> QED BY <1>2, <1>3

(* Unused slots add nothing: the live entries hold all the bytes.          *)
LEMMA LiveLength ==
  ASSUME NEW Ptrs, NEW b \in CircularBufferType(Ptrs), WellShaped(b)
  PROVE  /\ Count(b) \in 0 .. MaxWriteOps
         /\ \A j \in Count(b) .. MaxWriteOps : AccLength(b)[j] = BufferSize(b)
<1> DEFINE N == MaxWriteOps
           C == Count(b)
           acc == AccLength(b)
           S == {j \in 0 .. N : C <= j => acc[j] = acc[C]}
<1>1. N \in Nat /\ Slots = 0 .. N - 1 /\ b.in_offs \in Slots /\ b.full \in BOOLEAN
  BY MaxWriteOpsAssumption DEF Slots, CircularBufferType
<1>2. C \in 0 .. N
  BY <1>1 DEF Count
<1>3. ASSUME NEW j \in Slots, C <= j PROVE b.entry[SlotOf(b, j)].size = 0
  <2>1. ~b.full /\ C = b.in_offs
    BY <1>1, <1>3 DEF Count
  <2>2. b.out_offs = 0 /\ (\A s \in Slots : ~(s < b.in_offs) => b.entry[s] = ZeroEntry)
    BY <2>1 DEF WellShaped
  <2>3. SlotOf(b, j) = j
    <3>1. 0 \in Slots /\ 0 + j < MaxWriteOps /\ 0 + j = j
      BY <1>1
    <3> QED BY <2>2, <3>1, WrapOnce DEF SlotOf
  <2>4. ~(j < b.in_offs)
    BY <1>1, <1>3, <2>1
  <2> QED BY <2>2, <2>3, <2>4 DEF ZeroEntry
<1>4. /\ acc \in [0 .. N -> Nat]
      /\ \A k \in Slots : acc[k + 1] = acc[k] + b.entry[SlotOf(b, k)].size
  BY AccLengthFacts
<1> HIDE DEF N, C, acc
<1>5. 0 \in S
  BY <1>1, <1>2
<1>6. ASSUME NEW j \in 0 .. N - 1, j \in S PROVE j + 1 \in S
  <2>1. j + 1 \in 0 .. N /\ j \in Slots /\ j \in 0 .. N
    BY <1>1
  <2>2. CASE C <= j
    <3>1. acc[j + 1] = acc[j] + 0 /\ acc[j] \in Nat
      BY <1>3, <1>4, <2>1, <2>2
    <3>2. acc[j] = acc[C]
      BY <1>6, <2>2
    <3> QED BY <2>1, <3>1, <3>2
  <2>3. CASE ~(C <= j)
    <3>1. C <= j + 1 => C = j + 1
      BY <1>2, <2>1, <2>3
    <3> QED BY <2>1, <3>1
  <2> QED BY <2>2, <2>3
<1> HIDE DEF S
<1>7. 0 .. N \subseteq S
  BY <1>1, <1>5, <1>6, BoundedInduction
<1>8. \A j \in C .. N : acc[j] = acc[C]
  BY <1>1, <1>2, <1>7 DEF S
<1>9. N \in C .. N
  BY <1>1, <1>2
<1> QED BY <1>2, <1>8, <1>9 DEF BufferSize, N, C, acc

(* An offset before the end lies in a live entry, which FindEntry returns. *)
LEMMA FindEntryLive ==
  ASSUME NEW Ptrs, NEW b \in CircularBufferType(Ptrs), WellShaped(b),
         NEW off \in Nat, off < BufferSize(b)
  PROVE  \E i \in 0 .. Count(b) - 1 :
           /\ AccLength(b)[i] <= off /\ off < AccLength(b)[i + 1]
           /\ FindEntry(b, off) = [slot |-> SlotOf(b, i), offset |-> off - AccLength(b)[i]]
<1>1. PICK i \in Slots : AccLength(b)[i] <= off /\ off < AccLength(b)[i + 1]
  BY FindEntryBefore
<1>2. /\ Count(b) \in 0 .. MaxWriteOps /\ MaxWriteOps \in Nat /\ i \in 0 .. MaxWriteOps - 1
      /\ \A j \in Count(b) .. MaxWriteOps : AccLength(b)[j] = BufferSize(b)
  BY LiveLength, MaxWriteOpsAssumption DEF Slots
<1>3. BufferSize(b) \in Nat
  <2>1. AccLength(b) \in [0 .. MaxWriteOps -> Nat]
    BY AccLengthFacts
  <2> QED BY <1>2, <2>1 DEF BufferSize
<1>4. i \in 0 .. Count(b) - 1
  <2>1. SUFFICES ASSUME ~(i < Count(b)) PROVE FALSE
    BY <1>2
  <2>2. i \in Count(b) .. MaxWriteOps
    BY <1>2, <2>1
  <2>3. AccLength(b)[i] = BufferSize(b)
    BY <1>2, <2>2
  <2> QED BY <1>1, <1>3, <2>3
<1>5. FindEntry(b, off) = [slot |-> SlotOf(b, i), offset |-> off - AccLength(b)[i]]
  BY <1>1, FindEntryAt
<1> QED BY <1>1, <1>4, <1>5

(* The entries in use come first in reading order.                         *)
LEMMA LiveSlots ==
  ASSUME NEW Ptrs, NEW b \in CircularBufferType(Ptrs), WellShaped(b), NEW i \in Slots
  PROVE  b.entry[SlotOf(b, i)].buffptr # NULL <=> i < Count(b)
<1>1. /\ b.in_offs \in Slots /\ b.out_offs \in Slots /\ b.full \in BOOLEAN
      /\ MaxWriteOps \in Nat \ {0} /\ Slots = 0 .. MaxWriteOps - 1
  BY MaxWriteOpsAssumption DEF CircularBufferType, Slots
<1>2. SlotOf(b, i) \in Slots
  BY SlotOfIsSlot
<1>3. CASE b.full
  BY <1>1, <1>2, <1>3 DEF WellShaped, Count
<1>4. CASE ~b.full
  <2>1. SlotOf(b, i) = i
    <3>1. b.out_offs = 0
      BY <1>4 DEF WellShaped
    <3>2. b.out_offs + i = i /\ i < MaxWriteOps /\ 0 \in Slots
      BY <1>1, <3>1
    <3>3. (b.out_offs + i) % MaxWriteOps = b.out_offs + i
      BY <1>1, <3>2, WrapOnce
    <3> QED BY <3>2, <3>3 DEF SlotOf
  <2>2. Count(b) = b.in_offs /\ ZeroEntry.buffptr = NULL
    BY <1>4 DEF Count, ZeroEntry
  <2> QED BY <1>4, <2>1, <2>2 DEF WellShaped
<1> QED BY <1>1, <1>3, <1>4

(* aesd_circular_buffer_size is a natural number.                          *)
LEMMA SizeIsNat ==
  ASSUME NEW Ptrs, NEW b \in CircularBufferType(Ptrs)
  PROVE  BufferSize(b) \in Nat
<1>1. MaxWriteOps \in 0 .. MaxWriteOps
  BY MaxWriteOpsAssumption
<1>2. AccLength(b) \in [0 .. MaxWriteOps -> Nat]
  BY AccLengthFacts
<1> QED BY <1>1, <1>2 DEF BufferSize

(* A live entry is the entry of a slot, and has a buffer.                  *)
LEMMA LivePointers ==
  ASSUME NEW Ptrs, NEW b \in CircularBufferType(Ptrs), WellShaped(b), NEW i \in 1 .. Count(b)
  PROVE  \E s \in Slots : LiveEntries(b)[i] = b.entry[s] /\ b.entry[s].buffptr # NULL
<1>1. i - 1 \in Slots /\ i - 1 < Count(b)
  BY LiveLength, MaxWriteOpsAssumption DEF Slots
<1>2. SlotOf(b, i - 1) \in Slots /\ b.entry[SlotOf(b, i - 1)].buffptr # NULL
  BY <1>1, SlotOfIsSlot, LiveSlots
<1>3. LiveEntries(b)[i] = b.entry[SlotOf(b, i - 1)]
  BY DEF LiveEntries
<1> QED BY <1>2, <1>3

(***************************************************************************)
(* seqs gives the characters of each live entry, in reading order, and     *)
(* flat has them one after the other.                                      *)
(***************************************************************************)
EntryData(b, seqs, S) ==
  /\ seqs \in [1 .. Count(b) -> Seq(S)]
  /\ \A i \in 1 .. Count(b) : Len(seqs[i]) = b.entry[SlotOf(b, i - 1)].size

Placed(b, seqs, flat) ==
  \A i \in 1 .. Count(b) : \A k \in 1 .. Len(seqs[i]) :
    flat[AccLength(b)[i - 1] + k] = seqs[i][k]

(* What the live entries stand for, one after the other.                   *)
LEMMA LiveFlattened ==
  ASSUME NEW Ptrs, NEW b \in CircularBufferType(Ptrs), WellShaped(b),
         NEW S, NEW seqs, EntryData(b, seqs, S)
  PROVE  /\ FlattenSeq(seqs) \in Seq(S)
         /\ Len(FlattenSeq(seqs)) = BufferSize(b)
         /\ Placed(b, seqs, FlattenSeq(seqs))
<1> DEFINE C == Count(b)
           acc == [i \in 0 .. C |-> AccLength(b)[i]]
<1>1. /\ C \in 0 .. MaxWriteOps /\ MaxWriteOps \in Nat /\ C \in Nat
      /\ Slots = 0 .. MaxWriteOps - 1
      /\ \A j \in C .. MaxWriteOps : AccLength(b)[j] = BufferSize(b)
  BY LiveLength, MaxWriteOpsAssumption DEF Slots
<1>2. /\ AccLength(b) \in [0 .. MaxWriteOps -> Nat] /\ AccLength(b)[0] = 0
      /\ \A i \in Slots : AccLength(b)[i + 1] = AccLength(b)[i] + b.entry[SlotOf(b, i)].size
  BY AccLengthFacts
<1> HIDE DEF C
<1>3. acc \in [0 .. C -> Nat] /\ \A i \in 0 .. C : acc[i] = AccLength(b)[i]
  BY <1>1, <1>2
<1> HIDE DEF acc
<1>4. Sums(acc, C, seqs)
  <2>1. acc[0] = 0
    BY <1>1, <1>2, <1>3
  <2>2. ASSUME NEW i \in 1 .. C PROVE acc[i] = acc[i - 1] + Len(seqs[i])
    <3>1. i \in 0 .. C /\ i - 1 \in 0 .. C /\ i - 1 \in Slots /\ (i - 1) + 1 = i
      BY <1>1
    <3>2. AccLength(b)[i] = AccLength(b)[i - 1] + b.entry[SlotOf(b, i - 1)].size
      BY <1>2, <3>1
    <3>3. Len(seqs[i]) = b.entry[SlotOf(b, i - 1)].size
      BY DEF C, EntryData
    <3> QED BY <1>3, <3>1, <3>2, <3>3
  <2> QED BY <2>1, <2>2 DEF Sums
<1>5. FlattenSeq(seqs) \in Seq(S) /\ Joined(FlattenSeq(seqs), C, seqs, acc)
  <2>1. seqs \in [1 .. C -> Seq(S)]
    BY DEF C, EntryData
  <2> QED BY <1>1, <1>3, <1>4, <2>1, FlattenJoins, Zenon
<1>6. Len(FlattenSeq(seqs)) = BufferSize(b)
  <2>1. C \in C .. MaxWriteOps /\ C \in 0 .. C
    BY <1>1
  <2>2. acc[C] = BufferSize(b)
    BY <1>1, <1>3, <2>1
  <2> QED BY <1>5, <2>2 DEF Joined
<1>7. ASSUME NEW i \in 1 .. C, NEW k \in 1 .. Len(seqs[i])
      PROVE  FlattenSeq(seqs)[AccLength(b)[i - 1] + k] = seqs[i][k]
  <2>1. i - 1 \in 0 .. C
    BY <1>1
  <2>2. acc[i - 1] = AccLength(b)[i - 1]
    BY <1>3, <2>1
  <2>3. FlattenSeq(seqs)[acc[i - 1] + k] = seqs[i][k]
    BY <1>5 DEF Joined
  <2> QED BY <2>2, <2>3
<1> QED BY <1>5, <1>6, <1>7 DEF C, Placed
=============================================================================
