--------------------------- MODULE AesdCharProofs ---------------------------
(***************************************************************************)
(* The driver, for any number of threads, files, blocks and ring entries.  *)
(* Memory: no block is owned twice, none but those of faulting writes is   *)
(* lost, every entry describes its block.  Calls: a reader's entry stays   *)
(* while it copies, reads deliver the bytes at their position, a seek      *)
(* finds its command, a failed call changes nothing.  Together: the driver *)
(* implements the command log.  Last the device build of the server, whose *)
(* handlers are the driver's threads: its replies are complete unless the  *)
(* device forgot commands meanwhile, and start where a seek command says.  *)
(***************************************************************************)
EXTENDS DeviceServer, CircularBufferLemmas

Places == {"user", "read", "read_copy", "write", "write_copy", "return"}

(* The part of TypeOK the memory depends on: positions are left out.       *)
HeapType ==
  /\ buffer \in CircularBufferType(Blocks)
  /\ wip \in BufferEntry(Blocks)
  /\ lock \in Threads \cup {Nobody}
  /\ alloc \subseteq Blocks /\ leaked \subseteq Blocks
  /\ content \in [Blocks -> Seq(Bytes)]
  /\ pc \in [Threads -> Places]
  /\ req \in [Threads -> [count : Nat, bytes : Seq(Bytes)]]
  /\ file \in [Threads -> Files \cup {NoFile}]
  /\ loc = [t \in Threads |-> loc[t]]

(* The mutex is held exactly by the thread that sleeps in a copy.          *)
MutexHeld ==
  \A t \in Threads : pc[t] \in {"read_copy", "write_copy"} <=> lock = t

(* A call keeps its file open, and an open file keeps the module.          *)
CallsHoldFiles == \A t \in Threads : pc[t] # "user" => file[t] \in open

(* The block a write fills starts with the working entry.                  *)
FillingStarted ==
  \A t \in Threads : pc[t] = "write_copy" =>
    /\ loc[t].ptr \in Blocks
    /\ Len(content[loc[t].ptr]) = wip.size

HeapInv ==
  /\ HeapType
  /\ MutexHeld
  /\ CallsHoldFiles
  /\ FillingStarted
  /\ OneOwner
  /\ BlocksAccounted
  /\ EntriesDescribeBlocks

-----------------------------------------------------------------------------
(* The freshly loaded device owns no block.                                *)
LEMMA HeapInvInit == Init => HeapInv
<1> SUFFICES ASSUME Init PROVE HeapInv
  OBVIOUS
<1> USE DEF Init
<1>1. /\ buffer \in CircularBufferType(Blocks)
      /\ WellShaped(buffer)
  BY EmptyBufferFacts
<1>2. \A s \in Slots : buffer.entry[s] = ZeroEntry
  BY DEF EmptyBuffer
<1>3. ZeroEntry.buffptr = NULL /\ ZeroEntry.size = 0
  BY DEF ZeroEntry
<1>4. /\ << >> \in Seq(Bytes)
      /\ NoReq \in [count : Nat, bytes : Seq(Bytes)]
  BY DEF NoReq
<1>5. HeapType
  BY <1>1, <1>4 DEF HeapType, ZeroEntry, BufferEntry, Places
<1>6. MutexHeld /\ CallsHoldFiles /\ FillingStarted
  BY AesdCharAssumption DEF MutexHeld, CallsHoldFiles, FillingStarted
<1>7. RingBlocks = {} /\ WipBlock = {} /\ Filling = {}
  BY <1>2, <1>3 DEF RingBlocks, WipBlock, Filling
<1>8. OneOwner
  BY <1>2, <1>3, <1>7 DEF OneOwner
<1>9. BlocksAccounted
  BY <1>7 DEF BlocksAccounted
<1>10. EntriesDescribeBlocks
  BY <1>1, <1>2, <1>3 DEF EntriesDescribeBlocks, Describes
<1> QED BY <1>5, <1>6, <1>8, <1>9, <1>10 DEF HeapInv

(***************************************************************************)
(* A step that touches neither the blocks nor what points to them.         *)
(***************************************************************************)
LEMMA QuietStep ==
  ASSUME HeapInv, HeapType', MutexHeld', CallsHoldFiles',
         UNCHANGED <<buffer, wip, alloc, content, leaked>>,
         \A u \in Threads : /\ pc'[u] = "write_copy" <=> pc[u] = "write_copy"
                            /\ pc[u] = "write_copy" => loc'[u] = loc[u]
  PROVE  HeapInv'
<1>1. FillingStarted'
  BY DEF HeapInv, FillingStarted
<1>2. RingBlocks' = RingBlocks /\ WipBlock' = WipBlock /\ Filling' = Filling
  BY DEF RingBlocks, WipBlock, Filling
<1>3. OneOwner'
  BY <1>2 DEF HeapInv, OneOwner
<1>4. BlocksAccounted'
  BY <1>2 DEF HeapInv, BlocksAccounted
<1>5. EntriesDescribeBlocks'
  BY DEF HeapInv, EntriesDescribeBlocks, Describes
<1> QED BY <1>1, <1>3, <1>4, <1>5 DEF HeapInv

(***************************************************************************)
(* A step of a thread that is not filling a block and does not begin to:   *)
(* it takes the mutex to copy from an entry, gives it back after that, or  *)
(* leaves it alone.                                                        *)
(***************************************************************************)
LEMMA QuietThreadStep ==
  ASSUME HeapInv,
         NEW t \in Threads, NEW p \in Places, p # "write_copy", pc[t] # "write_copy",
         pc' = [pc EXCEPT ![t] = p],
         p = "read_copy" => lock = Nobody /\ lock' = t,
         p # "read_copy" => lock' = IF pc[t] = "read_copy" THEN Nobody ELSE lock,
         req' \in [Threads -> [count : Nat, bytes : Seq(Bytes)]],
         file' \in [Threads -> Files \cup {NoFile}],
         loc' = [u \in Threads |-> loc'[u]],
         \A u \in Threads : u # t => file'[u] = file[u] /\ loc'[u] = loc[u],
         p # "user" => file'[t] \in open,
         open' = open,
         UNCHANGED <<buffer, wip, alloc, content, leaked>>
  PROVE  HeapInv'
<1>1. HeapType'
  BY DEF HeapInv, HeapType
<1>2. MutexHeld'
  BY AesdCharAssumption, SMTT(30) DEF HeapInv, HeapType, MutexHeld
<1>3. CallsHoldFiles'
  BY DEF HeapInv, HeapType, CallsHoldFiles
<1>4. \A u \in Threads : /\ pc'[u] = "write_copy" <=> pc[u] = "write_copy"
                         /\ pc[u] = "write_copy" => loc'[u] = loc[u]
  BY DEF HeapInv, HeapType
<1> QED BY <1>1, <1>2, <1>3, <1>4, QuietStep

(* A call that ends leaves only its thread's locals behind.                *)
LEMMA LeaveFacts ==
  ASSUME HeapType, NEW t \in Threads, Leave(t)
  PROVE  /\ pc' = [pc EXCEPT ![t] = "user"]
         /\ req' \in [Threads -> [count : Nat, bytes : Seq(Bytes)]]
         /\ file' \in [Threads -> Files \cup {NoFile}]
         /\ loc' = [u \in Threads |-> loc'[u]]
         /\ \A u \in Threads : u # t => file'[u] = file[u] /\ loc'[u] = loc[u]
<1>1. NoReq \in [count : Nat, bytes : Seq(Bytes)]
  BY DEF NoReq
<1> QED BY <1>1 DEF Leave, HeapType

(* The VFS enters a handler.                                               *)
LEMMA EnterKeeps ==
  ASSUME HeapInv, NEW t \in Threads, NEW f \in Files, NEW h \in {"read", "write"},
         NEW r \in [count : Nat, bytes : Seq(Bytes)], Enter(t, f, h, r)
  PROVE  HeapInv'
<1> USE DEF Enter, dev, vfs
<1>1. pc[t] = "user" /\ h \in Places /\ h # "write_copy" /\ h # "read_copy"
  BY DEF Places
<1>2. req' \in [Threads -> [count : Nat, bytes : Seq(Bytes)]]
  BY DEF HeapInv, HeapType
<1>3. /\ file' \in [Threads -> Files \cup {NoFile}]
      /\ \A u \in Threads : u # t => file'[u] = file[u]
      /\ file'[t] \in open
  BY DEF HeapInv, HeapType
<1>4. loc' = loc /\ loc = [u \in Threads |-> loc[u]]
  BY DEF HeapInv, HeapType
<1>5. UNCHANGED <<lock, open, buffer, wip, alloc, content, leaked>>
  OBVIOUS
<1> HIDE DEF Enter
<1> QED BY <1>1, <1>2, <1>3, <1>4, <1>5, QuietThreadStep DEF Enter

(* The calls that end without touching a block.                            *)
LEMMA ReturnKeeps ==
  ASSUME HeapInv, NEW t \in Threads, Return(t)
  PROVE  HeapInv'
<1>1. pc[t] = "return" /\ Leave(t) /\ UNCHANGED <<lock, open, buffer, wip, alloc, content, leaked>>
  BY DEF Return, dev
<1> QED BY <1>1, LeaveFacts, QuietThreadStep DEF HeapInv, Places

(* A signal ends the wait for the mutex: the call fails.                   *)
LEMMA LockInterruptedKeeps ==
  ASSUME HeapInv, NEW t \in Threads, LockInterrupted(t)
  PROVE  HeapInv'
<1>1. /\ pc[t] # "write_copy" /\ pc[t] # "read_copy" /\ Leave(t)
      /\ UNCHANGED <<lock, open, buffer, wip, alloc, content, leaked>>
  BY DEF LockInterrupted, dev, vfs
<1> QED BY <1>1, LeaveFacts, QuietThreadStep DEF HeapInv, Places

(* A failed kmalloc ends the write before it owns a block.                 *)
LEMMA WriteNoMemKeeps ==
  ASSUME HeapInv, NEW t \in Threads, WriteNoMem(t)
  PROVE  HeapInv'
<1>1. /\ pc[t] = "write" /\ Leave(t)
      /\ UNCHANGED <<lock, open, buffer, wip, alloc, content, leaked>>
  BY DEF WriteNoMem, dev, vfs
<1> QED BY <1>1, LeaveFacts, QuietThreadStep DEF HeapInv, Places

(* A failed copy_to_user gives the mutex back.                             *)
LEMMA ReadFaultKeeps ==
  ASSUME HeapInv, NEW t \in Threads, ReadFault(t)
  PROVE  HeapInv'
<1>1. /\ pc[t] = "read_copy" /\ Leave(t) /\ lock' = Nobody
      /\ UNCHANGED <<open, buffer, wip, alloc, content, leaked>>
  BY DEF ReadFault, vfs
<1> QED BY <1>1, LeaveFacts, QuietThreadStep DEF HeapInv, Places

(* The search takes the mutex when there is something to copy.             *)
LEMMA ReadFindKeeps ==
  ASSUME HeapInv, NEW t \in Threads, ReadFind(t)
  PROVE  HeapInv'
<1>1. /\ pc[t] = "read" /\ lock = Nobody
      /\ \/ pc' = [pc EXCEPT ![t] = "return"] /\ UNCHANGED <<lock, loc>>
         \/ /\ pc' = [pc EXCEPT ![t] = "read_copy"] /\ lock' = t
            /\ \E l : loc' = [loc EXCEPT ![t] = l]
      /\ UNCHANGED <<open, file, req, buffer, wip, alloc, content, leaked>>
  BY DEF ReadFind, CanLock, vfs
<1>2. /\ req \in [Threads -> [count : Nat, bytes : Seq(Bytes)]]
      /\ file \in [Threads -> Files \cup {NoFile}]
      /\ loc = [u \in Threads |-> loc[u]]
      /\ file[t] \in open
  BY <1>1 DEF HeapInv, HeapType, CallsHoldFiles
<1>3. /\ loc' = [u \in Threads |-> loc'[u]]
      /\ \A u \in Threads : u # t => loc'[u] = loc[u]
  BY <1>1, <1>2
<1> QED BY <1>1, <1>2, <1>3, QuietThreadStep DEF Places

(* copy_to_user reads the block and gives the mutex back.                  *)
LEMMA ReadCopyKeeps ==
  ASSUME HeapInv, NEW t \in Threads, ReadCopy(t)
  PROVE  HeapInv'
<1>1. /\ pc[t] = "read_copy" /\ lock' = Nobody
      /\ pc' = [pc EXCEPT ![t] = "return"]
      /\ loc' = [loc EXCEPT ![t] = NoLoc]
      /\ UNCHANGED <<open, file, req, buffer, wip, alloc, content, leaked>>
  BY DEF ReadCopy, vfs
<1>2. /\ req \in [Threads -> [count : Nat, bytes : Seq(Bytes)]]
      /\ file \in [Threads -> Files \cup {NoFile}]
      /\ loc = [u \in Threads |-> loc[u]]
      /\ file[t] \in open
  BY <1>1 DEF HeapInv, HeapType, CallsHoldFiles
<1>3. /\ loc' = [u \in Threads |-> loc'[u]]
      /\ \A u \in Threads : u # t => loc'[u] = loc[u]
  BY <1>1, <1>2
<1> QED BY <1>1, <1>2, <1>3, QuietThreadStep DEF Places

(* Steps outside the handlers: the files that calls use stay open.         *)
LEMMA OutsideStep ==
  ASSUME HeapInv, UNCHANGED <<dev, call>>,
         \A t \in Threads : file[t] \in open => file[t] \in open'
  PROVE  HeapInv'
<1> USE DEF dev, call
<1>1. HeapType' /\ MutexHeld'
  BY DEF HeapInv, HeapType, MutexHeld
<1>2. CallsHoldFiles'
  BY DEF HeapInv, CallsHoldFiles
<1> QED BY <1>1, <1>2, QuietStep

(* Only a file that no call uses is released.                              *)
LEMMA FileStepKeeps ==
  ASSUME HeapInv, NEW f \in Files, Open(f) \/ Release(f)
  PROVE  HeapInv'
<1>1. UNCHANGED <<dev, call>>
  BY DEF Open, Release
<1>2. \A t \in Threads : file[t] \in open => file[t] \in open'
  BY DEF Open, Release
<1> QED BY <1>1, <1>2, OutsideStep

(* llseek and ioctl change positions, no blocks.                           *)
LEMMA SeekStepKeeps ==
  ASSUME HeapInv, NEW t \in Threads, SeekStep(t)
  PROVE  HeapInv'
<1>1. UNCHANGED <<dev, open, call>>
  BY DEF SeekStep, Llseek, Ioctl
<1> QED BY <1>1, OutsideStep

(* Loading the module, or failing to, touches no block.                    *)
LEMMA LoadKeeps ==
  ASSUME HeapInv, InitModule \/ InitModuleFails
  PROVE  HeapInv'
<1>1. UNCHANGED <<dev, vfs, call>>
  BY DEF InitModule, InitModuleFails
<1> QED BY <1>1, OutsideStep DEF vfs

-----------------------------------------------------------------------------
(* The owned blocks are blocks, and the mutex keeps writers apart.         *)
LEMMA OwnedBlocks ==
  ASSUME HeapInv
  PROVE  /\ RingBlocks \subseteq Blocks /\ WipBlock \subseteq Blocks /\ Filling \subseteq Blocks
         /\ NULL \notin Blocks
         /\ \A t, u \in Threads : pc[t] = "write_copy" /\ pc[u] = "write_copy" => t = u
         /\ \A t \in Threads : pc[t] = "write_copy" => Filling = {loc[t].ptr}
         /\ lock = Nobody => Filling = {}
<1>1. NULL \notin Blocks /\ Nobody \notin Threads
  BY AesdCharAssumption
<1>2. \A s \in Slots : /\ buffer.entry[s] \in BufferEntry(Blocks)
                       /\ buffer.entry[s].buffptr \in Blocks \cup {NULL}
  BY DEF HeapInv, HeapType, CircularBufferType, BufferEntry
<1>3. \A t, u \in Threads : pc[t] = "write_copy" /\ pc[u] = "write_copy" => t = u
  BY DEF HeapInv, MutexHeld
<1>4. \A t \in Threads : pc[t] = "write_copy" => Filling = {loc[t].ptr}
  BY <1>3 DEF Filling
<1>5. lock = Nobody => Filling = {}
  BY <1>1 DEF Filling, HeapInv, MutexHeld
<1>6. RingBlocks \subseteq Blocks
  BY <1>2 DEF RingBlocks
<1>7. WipBlock \subseteq Blocks
  BY DEF WipBlock, HeapInv, HeapType, BufferEntry
<1>8. Filling \subseteq Blocks
  BY DEF Filling, HeapInv, FillingStarted
<1> QED BY <1>1, <1>3, <1>4, <1>5, <1>6, <1>7, <1>8

(* Every pointer of the ring is null or to one of the ring's blocks.       *)
LEMMA RingPointers ==
  ASSUME HeapInv, NEW s \in Slots
  PROVE  \/ buffer.entry[s].buffptr = NULL
         \/ /\ buffer.entry[s].buffptr \in Blocks
            /\ buffer.entry[s].buffptr \in RingBlocks
BY DEF HeapInv, HeapType, CircularBufferType, BufferEntry, RingBlocks

(* A new block belongs to the write that allocated it.                     *)
LEMMA WriteAllocKeeps ==
  ASSUME HeapInv, NEW t \in Threads, WriteAlloc(t)
  PROVE  HeapInv'
<1> DEFINE Start == IF wip.buffptr = NULL THEN << >>
                    ELSE SubSeq(content[wip.buffptr], 1, wip.size)
<1>1. PICK b \in Blocks \ alloc :
        /\ alloc' = alloc \cup {b}
        /\ content' = [content EXCEPT ![b] = Start]
        /\ loc' = [loc EXCEPT ![t] = [NoLoc EXCEPT !.ptr = b]]
  BY DEF WriteAlloc
<1>2. /\ pc[t] = "write" /\ lock = Nobody /\ lock' = t
      /\ pc' = [pc EXCEPT ![t] = "write_copy"]
      /\ UNCHANGED <<buffer, wip, leaked, open, file, req>>
  BY DEF WriteAlloc, CanLock, vfs
<1>3. Start \in Seq(Bytes) /\ Len(Start) = wip.size
  <2>1. CASE wip.buffptr = NULL
    <3>1. wip.size = 0
      BY <2>1 DEF HeapInv, EntriesDescribeBlocks, Describes
    <3> QED BY <2>1, <3>1
  <2>2. CASE wip.buffptr # NULL
    <3>1. /\ wip.size = Len(content[wip.buffptr])
          /\ content[wip.buffptr] \in Seq(Bytes)
      BY <2>2 DEF HeapInv, HeapType, BufferEntry, EntriesDescribeBlocks, Describes
    <3>2. wip.size \in Nat /\ 1 \in 1 .. wip.size + 1
      BY DEF HeapInv, HeapType, BufferEntry
    <3>3. SubSeq(content[wip.buffptr], 1, wip.size) = content[wip.buffptr]
      BY <3>1, <3>2
    <3> QED BY <2>2, <3>1, <3>3
  <2> QED BY <2>1, <2>2
<1> HIDE DEF Start
<1>4. /\ content' \in [Blocks -> Seq(Bytes)]
      /\ content'[b] = Start
      /\ \A c \in Blocks : c # b => content'[c] = content[c]
  BY <1>1, <1>3 DEF HeapInv, HeapType
<1>5. /\ loc' = [u \in Threads |-> loc'[u]]
      /\ loc'[t].ptr = b
      /\ \A u \in Threads : u # t => loc'[u] = loc[u]
  BY <1>1 DEF HeapInv, HeapType, NoLoc
<1>6. HeapType'
  BY <1>1, <1>2, <1>4, <1>5 DEF HeapInv, HeapType, Places
<1>7. MutexHeld'
  BY <1>2, AesdCharAssumption DEF HeapInv, HeapType, MutexHeld
<1>8. CallsHoldFiles'
  BY <1>2 DEF HeapInv, HeapType, CallsHoldFiles
<1>9. \A u \in Threads : pc'[u] = "write_copy" <=> u = t
  BY <1>2, AesdCharAssumption DEF HeapInv, HeapType, MutexHeld
<1>10. FillingStarted'
  BY <1>1, <1>2, <1>3, <1>4, <1>5, <1>9 DEF FillingStarted
<1>11. RingBlocks' = RingBlocks /\ WipBlock' = WipBlock
  BY <1>2 DEF RingBlocks, WipBlock
<1>12. Filling = {} /\ Filling' = {b}
  BY <1>2, <1>5, <1>9, OwnedBlocks DEF Filling
<1>13. b \notin RingBlocks \cup WipBlock \cup leaked
  BY <1>1 DEF HeapInv, BlocksAccounted
<1>14. OneOwner'
  BY <1>2, <1>11, <1>12, <1>13 DEF HeapInv, OneOwner
<1>15. BlocksAccounted'
  BY <1>1, <1>2, <1>11, <1>12 DEF HeapInv, BlocksAccounted
<1>16. EntriesDescribeBlocks'
  <2>1. Describes(wip)'
    BY <1>2, <1>4, <1>13 DEF HeapInv, HeapType, BufferEntry, EntriesDescribeBlocks, Describes, WipBlock
  <2>2. ASSUME NEW s \in Slots PROVE Describes(buffer.entry[s])'
    <3>1. /\ buffer.entry[s].buffptr # NULL => /\ buffer.entry[s].buffptr \in Blocks
                                              /\ buffer.entry[s].buffptr # b
          /\ Describes(buffer.entry[s])
      BY <1>13, RingPointers DEF HeapInv, EntriesDescribeBlocks
    <3> QED BY <1>2, <1>4, <3>1 DEF Describes
  <2> QED BY <1>2, <2>1, <2>2 DEF HeapInv, EntriesDescribeBlocks
<1> QED BY <1>6, <1>7, <1>8, <1>10, <1>14, <1>15, <1>16 DEF HeapInv

(* A fault passes the block from the write to the forgotten ones.          *)
LEMMA WriteFaultKeeps ==
  ASSUME HeapInv, NEW t \in Threads, WriteFault(t)
  PROVE  HeapInv'
<1>1. /\ pc[t] = "write_copy" /\ lock' = Nobody /\ Leave(t)
      /\ leaked' = leaked \cup {loc[t].ptr}
      /\ UNCHANGED <<buffer, wip, alloc, content, open>>
  BY DEF WriteFault, vfs
<1>2. /\ pc' = [pc EXCEPT ![t] = "user"]
      /\ req' \in [Threads -> [count : Nat, bytes : Seq(Bytes)]]
      /\ file' \in [Threads -> Files \cup {NoFile}]
      /\ loc' = [u \in Threads |-> loc'[u]]
      /\ \A u \in Threads : u # t => file'[u] = file[u] /\ loc'[u] = loc[u]
  BY <1>1, LeaveFacts DEF HeapInv
<1>3. loc[t].ptr \in Blocks /\ lock = t
  BY <1>1 DEF HeapInv, FillingStarted, MutexHeld
<1>4. HeapType'
  BY <1>1, <1>2, <1>3 DEF HeapInv, HeapType, Places
<1>5. MutexHeld' /\ CallsHoldFiles'
  BY <1>1, <1>2, <1>3, AesdCharAssumption
     DEF HeapInv, HeapType, MutexHeld, CallsHoldFiles
<1>6. \A u \in Threads : pc'[u] # "write_copy"
  BY <1>1, <1>2, OwnedBlocks DEF HeapInv, HeapType
<1>7. FillingStarted'
  BY <1>6 DEF FillingStarted
<1>8. RingBlocks' = RingBlocks /\ WipBlock' = WipBlock
  BY <1>1 DEF RingBlocks, WipBlock
<1>9. Filling = {loc[t].ptr} /\ Filling' = {}
  BY <1>1, <1>6, OwnedBlocks DEF Filling
<1>10. OneOwner'
  BY <1>1, <1>8, <1>9 DEF HeapInv, OneOwner
<1>11. BlocksAccounted'
  BY <1>1, <1>8, <1>9 DEF HeapInv, BlocksAccounted
<1>12. EntriesDescribeBlocks'
  BY <1>1 DEF HeapInv, EntriesDescribeBlocks, Describes
<1> QED BY <1>4, <1>5, <1>7, <1>10, <1>11, <1>12 DEF HeapInv

(***************************************************************************)
(* The commit: the filled block becomes the working entry or an entry of   *)
(* the ring, and the blocks it replaces are freed.                         *)
(***************************************************************************)
LEMMA WriteCommitKeeps ==
  ASSUME HeapInv, NEW t \in Threads, WriteCommit(t)
  PROVE  HeapInv'
<1> DEFINE b    == loc[t].ptr
           data == content[b] \o req[t].bytes
           new  == NewWip(t)
           old  == RemovedBuffptr(buffer)
<1>1. /\ pc[t] = "write_copy" /\ lock' = Nobody
      /\ pc' = [pc EXCEPT ![t] = "return"]
      /\ loc' = [loc EXCEPT ![t] = NoLoc]
      /\ UNCHANGED <<leaked, open, file, req>>
  BY DEF WriteCommit, vfs
<1>2. PICK flush \in BOOLEAN :
        /\ buffer' = IF flush THEN AddEntry(buffer, new) ELSE buffer
        /\ wip' = IF flush THEN ZeroEntry ELSE new
        /\ alloc' = alloc \ FreedByWrite(flush)
        /\ content' = AfterFree([content EXCEPT ![b] = data], FreedByWrite(flush))
  BY DEF WriteCommit, SeesNewline, WipAfter
<1>3. /\ b \in Blocks /\ Len(content[b]) = wip.size /\ lock = t
      /\ Filling = {b}
  BY <1>1, OwnedBlocks DEF HeapInv, FillingStarted, MutexHeld
<1>4. data \in Seq(Bytes) /\ Len(data) = wip.size + Len(req[t].bytes)
  <2>1. content[b] \in Seq(Bytes) /\ req[t].bytes \in Seq(Bytes)
    BY <1>3 DEF HeapInv, HeapType
  <2>2. Len(content[b]) = wip.size
    BY <1>3
  <2> DEFINE front == content[b]
             back  == req[t].bytes
  <2>3. ASSUME front \in Seq(Bytes), back \in Seq(Bytes)
        PROVE  front \o back \in Seq(Bytes) /\ Len(front \o back) = Len(front) + Len(back)
    <3> HIDE DEF front, back
    <3> QED BY <2>3, ConcatProperties
  <2> QED BY <2>1, <2>2, <2>3
<1>5. /\ new \in BufferEntry(Blocks)
      /\ new.buffptr = b /\ new.size = Len(data)
  <2>1. wip.size \in Nat /\ Len(req[t].bytes) \in Nat
    BY LenProperties DEF HeapInv, HeapType, BufferEntry
  <2>2. /\ new.buffptr = b /\ new.size = Len(data)
        /\ new = [buffptr |-> new.buffptr, size |-> new.size]
    BY <1>4 DEF NewWip
  <2>3. Len(data) \in Nat
    BY <1>4, <2>1
  <2> HIDE DEF new, data
  <2> QED BY <1>3, <2>2, <2>3 DEF BufferEntry
<1>6. /\ b # NULL
      /\ b \notin RingBlocks \cup WipBlock
  BY <1>3, OwnedBlocks DEF HeapInv, OneOwner
<1>7. /\ buffer.in_offs \in Slots
      /\ old = buffer.entry[buffer.in_offs].buffptr
      /\ old \in Blocks \cup {NULL}
      /\ old # NULL => old \in RingBlocks
  <2>1. buffer.in_offs \in Slots
    BY DEF HeapInv, HeapType, CircularBufferType
  <2>2. old = buffer.entry[buffer.in_offs].buffptr
    BY DEF RemovedBuffptr
  <2> HIDE DEF old
  <2> QED BY <2>1, <2>2, RingPointers
<1> DEFINE gone == FreedByWrite(flush)
<1>8. /\ gone = (IF flush THEN {wip.buffptr, old} ELSE {wip.buffptr}) \ {NULL}
      /\ b \notin gone
  BY <1>6, <1>7 DEF FreedByWrite, WipBlock
<1> HIDE DEF b, data, new, old, gone
<1>9. /\ content' \in [Blocks -> Seq(Bytes)]
      /\ content'[b] = data
      /\ \A c \in Blocks : c # b /\ c \notin gone => content'[c] = content[c]
  <2>1. << >> \in Seq(Bytes)
    OBVIOUS
  <2>2. content' = AfterFree([content EXCEPT ![b] = data], gone)
    BY <1>2 DEF gone, b, data
  <2>3. content \in [Blocks -> Seq(Bytes)]
    BY DEF HeapInv, HeapType
  <2> QED BY <1>3, <1>4, <1>8, <2>1, <2>2, <2>3 DEF AfterFree
<1>10. /\ buffer' \in CircularBufferType(Blocks)
       /\ WellShaped(buffer')
       /\ \A s \in Slots : buffer'.entry[s] =
             IF flush /\ s = buffer.in_offs THEN new ELSE buffer.entry[s]
  <2>1. buffer \in CircularBufferType(Blocks) /\ WellShaped(buffer)
    BY DEF HeapInv, HeapType, EntriesDescribeBlocks
  <2>2. CASE flush
    <3>1. buffer' = AddEntry(buffer, new)
      BY <1>2, <2>2 DEF new
    <3>2. new.buffptr # NULL
      BY <1>5, <1>6
    <3> QED BY <1>5, <2>1, <2>2, <3>1, <3>2, AddEntryFields, AddEntryShape
  <2>3. CASE ~flush
    BY <1>2, <2>1, <2>3
  <2> QED BY <2>2, <2>3
<1>11. /\ wip' \in BufferEntry(Blocks)
       /\ flush => wip'.buffptr = NULL /\ wip'.size = 0
       /\ ~flush => wip' = new
  BY <1>2, <1>5 DEF ZeroEntry, BufferEntry, new
<1>12. alloc' = alloc \ gone
  BY <1>2 DEF gone
<1>13. loc' = [u \in Threads |-> loc'[u]]
  BY <1>1 DEF HeapInv, HeapType
<1>14. HeapType'
  BY <1>1, <1>9, <1>10, <1>11, <1>12, <1>13 DEF HeapInv, HeapType, Places
<1>15. MutexHeld' /\ CallsHoldFiles'
  BY <1>1, <1>3, AesdCharAssumption DEF HeapInv, HeapType, MutexHeld, CallsHoldFiles
<1>16. \A u \in Threads : pc'[u] # "write_copy"
  BY <1>1, OwnedBlocks DEF HeapInv, HeapType
<1>17. FillingStarted' /\ Filling' = {}
  BY <1>16 DEF FillingStarted, Filling
<1>18. \A r, s \in Slots : r # s /\ buffer.entry[r].buffptr # NULL
                             => buffer.entry[r].buffptr # buffer.entry[s].buffptr
  BY DEF HeapInv, OneOwner
<1>19. RingBlocks' = IF flush THEN (RingBlocks \ {old}) \cup {b} ELSE RingBlocks
  <2>1. CASE flush
    <3>1. \A s \in Slots : buffer'.entry[s].buffptr =
             IF s = buffer.in_offs THEN b ELSE buffer.entry[s].buffptr
      BY <1>5, <1>10, <2>1
    <3>2. \A s \in Slots : s # buffer.in_offs /\ buffer.entry[s].buffptr # NULL
             => buffer.entry[s].buffptr # old
      BY <1>7, <1>18
    <3> QED BY <1>6, <1>7, <2>1, <3>1, <3>2 DEF RingBlocks
  <2>2. CASE ~flush
    BY <1>10, <2>2 DEF RingBlocks
  <2> QED BY <2>1, <2>2
<1>20. WipBlock' = IF flush THEN {} ELSE {b}
  BY <1>5, <1>6, <1>11 DEF WipBlock
<1>21. OneOwner'
  <2>1. \A r, s \in Slots : r # s /\ buffer'.entry[r].buffptr # NULL
                              => buffer'.entry[r].buffptr # buffer'.entry[s].buffptr
    <3>1. \A s \in Slots : buffer.entry[s].buffptr # b
      BY <1>6, RingPointers
    <3> QED BY <1>5, <1>10, <1>18, <3>1
  <2>2. RingBlocks' \cap WipBlock' = {}
    BY <1>6, <1>19, <1>20
  <2>3. leaked' \cap (RingBlocks' \cup WipBlock') = {}
    BY <1>1, <1>3, <1>19, <1>20 DEF HeapInv, OneOwner
  <2> QED BY <1>17, <2>1, <2>2, <2>3 DEF OneOwner
<1>22. BlocksAccounted'
  <2>1. alloc = RingBlocks \cup WipBlock \cup {b} \cup leaked
    BY <1>3 DEF HeapInv, BlocksAccounted
  <2>2. /\ RingBlocks \cap WipBlock = {}
        /\ leaked \cap (RingBlocks \cup WipBlock \cup {b}) = {}
    BY <1>3 DEF HeapInv, OneOwner
  <2>3. gone = IF flush THEN WipBlock \cup ({old} \ {NULL}) ELSE WipBlock
    BY <1>8 DEF WipBlock
  <2>4. NULL \notin RingBlocks /\ NULL \notin leaked /\ NULL # b
    BY <1>6, OwnedBlocks DEF HeapInv, HeapType
  <2>5. CASE flush
    <3>1. alloc' = (RingBlocks \ {old}) \cup {b} \cup leaked
      BY <1>6, <1>7, <1>12, <2>1, <2>2, <2>3, <2>4, <2>5
    <3> QED BY <1>1, <1>17, <1>19, <1>20, <2>5, <3>1 DEF BlocksAccounted
  <2>6. CASE ~flush
    <3>1. alloc' = RingBlocks \cup {b} \cup leaked
      BY <1>6, <1>12, <2>1, <2>2, <2>3, <2>6
    <3> QED BY <1>1, <1>17, <1>19, <1>20, <2>6, <3>1 DEF BlocksAccounted
  <2> QED BY <2>5, <2>6
<1>23. EntriesDescribeBlocks'
  <2>1. Describes(wip)'
    BY <1>5, <1>6, <1>9, <1>11 DEF Describes
  <2>2. ASSUME NEW s \in Slots PROVE Describes(buffer.entry[s])'
    <3>1. CASE flush /\ s = buffer.in_offs
      BY <1>5, <1>6, <1>9, <1>10, <3>1 DEF Describes
    <3>2. CASE ~(flush /\ s = buffer.in_offs)
      <4> DEFINE q == buffer.entry[s].buffptr
      <4>1. buffer'.entry[s] = buffer.entry[s] /\ Describes(buffer.entry[s])
        BY <1>10, <3>2 DEF HeapInv, EntriesDescribeBlocks
      <4>2. q # NULL => q \in RingBlocks /\ q \in Blocks
        BY RingPointers
      <4>3. q # NULL => q # b /\ q # wip.buffptr
        BY <1>6, <4>2 DEF HeapInv, OneOwner, WipBlock
      <4>4. q # NULL /\ flush => q # old
        BY <1>7, <1>18, <3>2
      <4>5. q # NULL => content'[q] = content[q]
        BY <1>8, <1>9, <4>2, <4>3, <4>4
      <4> QED BY <4>1, <4>5 DEF Describes
    <3> QED BY <3>1, <3>2
  <2> QED BY <1>10, <2>1, <2>2 DEF EntriesDescribeBlocks
<1> QED BY <1>14, <1>15, <1>17, <1>21, <1>22, <1>23 DEF HeapInv

(* Unloading frees what the device owns: no call is in progress.           *)
LEMMA CleanupKeeps ==
  ASSUME HeapInv, CleanupModule
  PROVE  HeapInv'
<1>1. /\ open = {}
      /\ alloc' = alloc \ (({buffer.entry[s].buffptr : s \in Slots} \cup {wip.buffptr}) \ {NULL})
      /\ content' = AfterFree(content, ({buffer.entry[s].buffptr : s \in Slots}
                                           \cup {wip.buffptr}) \ {NULL})
      /\ buffer' = EmptyBuffer /\ wip' = ZeroEntry
      /\ UNCHANGED <<lock, leaked, open, pc, file, req, loc>>
  BY DEF CleanupModule, vfs, call
<1>2. \A t \in Threads : pc[t] = "user"
  BY <1>1 DEF HeapInv, CallsHoldFiles
<1>3. Filling = {} /\ Filling' = {}
  BY <1>1, <1>2 DEF Filling
<1>4. /\ buffer' \in CircularBufferType(Blocks)
      /\ WellShaped(buffer')
      /\ \A s \in Slots : buffer'.entry[s] = ZeroEntry
  BY <1>1, EmptyBufferFacts DEF EmptyBuffer
<1>5. ZeroEntry \in BufferEntry(Blocks) /\ ZeroEntry.buffptr = NULL /\ ZeroEntry.size = 0
  BY DEF ZeroEntry, BufferEntry
<1>6. content' \in [Blocks -> Seq(Bytes)]
  <2>1. << >> \in Seq(Bytes)
    OBVIOUS
  <2> QED BY <1>1, <2>1 DEF AfterFree, HeapInv, HeapType
<1>7. HeapType'
  BY <1>1, <1>4, <1>5, <1>6 DEF HeapInv, HeapType
<1>8. MutexHeld' /\ CallsHoldFiles' /\ FillingStarted'
  BY <1>1, <1>2 DEF HeapInv, MutexHeld, CallsHoldFiles, FillingStarted
<1>9. RingBlocks' = {} /\ WipBlock' = {}
  BY <1>1, <1>4, <1>5 DEF RingBlocks, WipBlock
<1>10. OneOwner'
  BY <1>3, <1>4, <1>5, <1>9 DEF OneOwner
<1>11. alloc' = alloc \ (RingBlocks \cup WipBlock)
  BY <1>1 DEF RingBlocks, WipBlock
<1>12. BlocksAccounted'
  BY <1>1, <1>3, <1>9, <1>11 DEF HeapInv, BlocksAccounted, OneOwner
<1>13. EntriesDescribeBlocks'
  BY <1>1, <1>4, <1>5 DEF EntriesDescribeBlocks, Describes
<1> QED BY <1>7, <1>8, <1>10, <1>12, <1>13 DEF HeapInv

-----------------------------------------------------------------------------
(* Every step of aesd_read.                                                *)
LEMMA ReadStepKeeps ==
  ASSUME HeapInv, NEW t \in Threads, ReadStep(t)
  PROVE  HeapInv'
<1>1. CASE \E f \in Files, n \in Counts : EnterRead(t, f, n)
  <2> PICK f \in Files, n \in Counts : EnterRead(t, f, n)
    BY <1>1
  <2>1. [NoReq EXCEPT !.count = n] \in [count : Nat, bytes : Seq(Bytes)]
    <3>1. n \in Nat /\ << >> \in Seq(Bytes)
      BY AesdCharAssumption
    <3>2. [NoReq EXCEPT !.count = n] = [count |-> n, bytes |-> << >>]
      BY DEF NoReq
    <3> QED BY <3>1, <3>2
  <2> QED BY <2>1, EnterKeeps DEF EnterRead
<1>2. CASE ReadFind(t)  BY <1>2, ReadFindKeeps
<1>3. CASE ReadCopy(t)  BY <1>3, ReadCopyKeeps
<1>4. CASE ReadFault(t) BY <1>4, ReadFaultKeeps
<1> QED BY <1>1, <1>2, <1>3, <1>4 DEF ReadStep

(* Every step of aesd_write.                                               *)
LEMMA WriteStepKeeps ==
  ASSUME HeapInv, NEW t \in Threads, WriteStep(t)
  PROVE  HeapInv'
<1>1. CASE \E f \in Files, c \in Chunks : EnterWrite(t, f, c)
  <2> PICK f \in Files, c \in Chunks : EnterWrite(t, f, c)
    BY <1>1
  <2>1. [NoReq EXCEPT !.bytes = c] \in [count : Nat, bytes : Seq(Bytes)]
    <3>1. c \in Seq(Bytes)
      BY AesdCharAssumption
    <3>2. [NoReq EXCEPT !.bytes = c] = [count |-> 0, bytes |-> c]
      BY DEF NoReq
    <3> QED BY <3>1, <3>2
  <2> QED BY <2>1, EnterKeeps DEF EnterWrite
<1>2. CASE WriteAlloc(t)  BY <1>2, WriteAllocKeeps
<1>3. CASE WriteNoMem(t)  BY <1>3, WriteNoMemKeeps
<1>4. CASE WriteFault(t)  BY <1>4, WriteFaultKeeps
<1>5. CASE WriteCommit(t) BY <1>5, WriteCommitKeeps
<1> QED BY <1>1, <1>2, <1>3, <1>4, <1>5 DEF WriteStep

(* Every step of the driver.                                               *)
LEMMA HeapInvNext == HeapInv /\ [Next]_vars => HeapInv'
<1> SUFFICES ASSUME HeapInv, [Next]_vars PROVE HeapInv'
  OBVIOUS
<1>1. ASSUME NEW t \in Threads, ReadStep(t) PROVE HeapInv'
  BY <1>1, ReadStepKeeps
<1>2. ASSUME NEW t \in Threads, WriteStep(t) PROVE HeapInv'
  BY <1>2, WriteStepKeeps
<1>3. ASSUME NEW t \in Threads, SeekStep(t) PROVE HeapInv'
  BY <1>3, SeekStepKeeps
<1>4. ASSUME NEW t \in Threads, LockInterrupted(t) PROVE HeapInv'
  BY <1>4, LockInterruptedKeeps
<1>5. ASSUME NEW t \in Threads, Return(t) PROVE HeapInv'
  BY <1>5, ReturnKeeps
<1>6. ASSUME NEW f \in Files, Open(f) \/ Release(f) PROVE HeapInv'
  BY <1>6, FileStepKeeps
<1>7. CASE InitModule \/ InitModuleFails
  BY <1>7, LoadKeeps
<1>8. CASE CleanupModule
  BY <1>8, CleanupKeeps
<1>9. CASE UNCHANGED vars
  <2>1. UNCHANGED <<dev, vfs, call>>
    BY <1>9 DEF vars
  <2> QED BY <2>1, OutsideStep DEF vfs
<1> QED BY <1>1, <1>2, <1>3, <1>4, <1>5, <1>6, <1>7, <1>8, <1>9 DEF Next

(***************************************************************************)
(* No block has two owners, whatever the interleaving of the handlers: no  *)
(* kfree in aesd_write or aesd_cleanup_module frees a block twice.         *)
(***************************************************************************)
THEOREM NoDoubleOwner == Spec => []OneOwner
<1>1. HeapInv => OneOwner
  BY DEF HeapInv
<1> QED BY HeapInvInit, HeapInvNext, <1>1, PTL DEF Spec

(***************************************************************************)
(* What is allocated is what has an owner and what faulting writes forgot: *)
(* no pointer of the driver dangles, and no other path loses a block.      *)
(***************************************************************************)
THEOREM NoDanglingNoLeak == Spec => []BlocksAccounted
<1>1. HeapInv => BlocksAccounted
  BY DEF HeapInv
<1> QED BY HeapInvInit, HeapInvNext, <1>1, PTL DEF Spec

(***************************************************************************)
(* Every entry's size, by which aesd_read bounds what it copies, is the    *)
(* length of its block, and the ring keeps its shape under the driver.     *)
(***************************************************************************)
THEOREM EntriesAlwaysDescribeBlocks == Spec => []EntriesDescribeBlocks
<1>1. HeapInv => EntriesDescribeBlocks
  BY DEF HeapInv
<1> QED BY HeapInvInit, HeapInvNext, <1>1, PTL DEF Spec

(***************************************************************************)
(* At most one thread sleeps in copy_to_user or copy_from_user.            *)
(***************************************************************************)
THEOREM OneThreadCopies == Spec => []MutexHeld
<1>1. HeapInv => MutexHeld
  BY DEF HeapInv
<1> QED BY HeapInvInit, HeapInvNext, <1>1, PTL DEF Spec

-----------------------------------------------------------------------------
(***************************************************************************)
(* What find_entry_offset_for_fpos finds for a reader is a live entry of   *)
(* the ring, with the position inside it.                                  *)
(***************************************************************************)
FoundAt(off, i) ==
  LET r == FindEntry(buffer, off)
      e == buffer.entry[r.slot]
  IN  /\ r.slot = SlotOf(buffer, i) /\ r.slot \in Slots
      /\ r.offset \in Nat /\ off = AccLength(buffer)[i] + r.offset
      /\ e.size \in Nat /\ r.offset < e.size
      /\ e.buffptr \in Blocks /\ e.size = Len(content[e.buffptr])
      /\ AccLength(buffer)[i] \in Nat
      /\ AccLength(buffer)[i + 1] = AccLength(buffer)[i] + e.size

(* The search finds such an entry when it finds any.                       *)
LEMMA FoundEntry ==
  ASSUME HeapInv, NEW off \in Nat, FindEntry(buffer, off).slot # NULL
  PROVE  \E i \in 0 .. Count(buffer) - 1 : FoundAt(off, i)
<1>1. buffer \in CircularBufferType(Blocks) /\ WellShaped(buffer)
  BY DEF HeapInv, HeapType, EntriesDescribeBlocks
<1>2. BufferSize(buffer) \in Nat
  BY <1>1, SizeIsNat
<1>3. off < BufferSize(buffer)
  <2>1. ~(BufferSize(buffer) <= off)
    BY <1>1, FindEntryPast
  <2> QED BY <1>2, <2>1
<1>4. PICK i \in 0 .. Count(buffer) - 1 :
        /\ AccLength(buffer)[i] <= off /\ off < AccLength(buffer)[i + 1]
        /\ FindEntry(buffer, off) = [slot |-> SlotOf(buffer, i),
                                     offset |-> off - AccLength(buffer)[i]]
  BY <1>1, <1>3, FindEntryLive
<1>5. i \in Slots /\ i \in 0 .. MaxWriteOps /\ i < Count(buffer)
  BY <1>1, <1>4, LiveLength, MaxWriteOpsAssumption DEF Slots
<1> DEFINE s == SlotOf(buffer, i)
           acc == AccLength(buffer)
           e == buffer.entry[s]
<1>6. s \in Slots
  BY <1>1, <1>5, SlotOfIsSlot
<1>7. acc[i] \in Nat /\ acc[i + 1] = acc[i] + e.size
  BY <1>1, <1>5, AccLengthFacts
<1>8. e \in BufferEntry(Blocks) /\ e.buffptr # NULL
  BY <1>1, <1>5, <1>6, LiveSlots DEF CircularBufferType
<1>9. e.size \in Nat /\ e.buffptr \in Blocks /\ e.size = Len(content[e.buffptr])
  BY <1>6, <1>8 DEF BufferEntry, HeapInv, EntriesDescribeBlocks, Describes
<1> HIDE DEF s, acc, e
<1>10. FindEntry(buffer, off).slot = s /\ FindEntry(buffer, off).offset = off - acc[i]
  BY <1>4 DEF s, acc
<1>11. off - acc[i] \in Nat /\ off = acc[i] + (off - acc[i]) /\ off - acc[i] < e.size
  <2>1. acc[i] <= off /\ off < acc[i + 1]
    BY <1>4 DEF acc
  <2> QED BY <1>7, <1>9, <2>1
<1>12. FoundAt(off, i)
  BY <1>6, <1>7, <1>9, <1>10, <1>11 DEF FoundAt, s, acc, e
<1> QED BY <1>4, <1>12

(* What the seek command does for two numbers.                             *)
SeekAgrees(cmd, off) ==
  LET live == LiveEntries(buffer)
      hit  == FindEntry(buffer, SeekToOffset(cmd, off))
  IN  /\ SeekToValid(cmd, off) <=> (cmd < Len(live) /\ off < live[cmd + 1].size)
      /\ SeekToValid(cmd, off) => /\ SeekToOffset(cmd, off) \in Nat
                                  /\ hit.slot # NULL
                                  /\ buffer.entry[hit.slot] = live[cmd + 1]
                                  /\ hit.offset = off

(* Seek and search agree, however large the numbers.                       *)
LEMMA SeekToAgreesAt ==
  ASSUME HeapInv, NEW cmd \in Nat, NEW off \in Nat
  PROVE  SeekAgrees(cmd, off)
<1> DEFINE live == LiveEntries(buffer)
           e    == buffer.entry[SlotOf(buffer, cmd)]
           acc  == AccLength(buffer)
           hit  == FindEntry(buffer, SeekToOffset(cmd, off))
<1>1. buffer \in CircularBufferType(Blocks) /\ WellShaped(buffer)
  BY DEF HeapInv, HeapType, EntriesDescribeBlocks
<1>2. /\ Count(buffer) \in 0 .. MaxWriteOps /\ Len(live) = Count(buffer)
      /\ MaxWriteOps \in Nat /\ Slots = 0 .. MaxWriteOps - 1
  <2>1. Count(buffer) \in 0 .. MaxWriteOps /\ Len(live) = Count(buffer)
    BY <1>1, LiveEntriesSeq
  <2> QED BY <2>1, MaxWriteOpsAssumption DEF Slots
<1>3. cmd < Count(buffer) => live[cmd + 1] = e
  BY <1>2 DEF LiveEntries
<1>4. cmd < MaxWriteOps =>
        ((\A i \in 0 .. cmd : buffer.entry[SlotOf(buffer, i)].buffptr # NULL)
            <=> cmd < Count(buffer))
  <2> SUFFICES ASSUME cmd < MaxWriteOps
               PROVE  (\A i \in 0 .. cmd : buffer.entry[SlotOf(buffer, i)].buffptr # NULL)
                         <=> cmd < Count(buffer)
    OBVIOUS
  <2>1. \A i \in 0 .. cmd : /\ i \in Slots
                            /\ buffer.entry[SlotOf(buffer, i)].buffptr # NULL <=> i < Count(buffer)
    BY <1>1, <1>2, LiveSlots
  <2>2. cmd \in 0 .. cmd
    OBVIOUS
  <2>3. cmd < Count(buffer) => \A i \in 0 .. cmd : i < Count(buffer)
    BY <1>2
  <2> QED BY <2>1, <2>2, <2>3
<1>5. SeekToValid(cmd, off) <=> (cmd < Count(buffer) /\ off < e.size)
  <2>1. cmd < Count(buffer) => cmd < MaxWriteOps
    BY <1>2
  <2> QED BY <1>4, <2>1 DEF SeekToValid
<1>6. ASSUME SeekToValid(cmd, off)
      PROVE  /\ SeekToOffset(cmd, off) \in Nat
             /\ hit.slot # NULL /\ buffer.entry[hit.slot] = e /\ hit.offset = off
  <2>1. cmd \in Slots /\ cmd \in 0 .. MaxWriteOps /\ off < e.size
    BY <1>2, <1>5, <1>6
  <2>2. SlotOf(buffer, cmd) \in Slots
    BY <1>1, <2>1, SlotOfIsSlot
  <2>3. e.size \in Nat
    BY <1>1, <2>2 DEF CircularBufferType, BufferEntry
  <2>4. acc[cmd] \in Nat /\ acc[cmd + 1] = acc[cmd] + e.size
    BY <1>1, <2>1, AccLengthFacts
  <2> DEFINE there == acc[cmd] + off
  <2>5. there \in Nat /\ acc[cmd] <= there /\ there < acc[cmd + 1] /\ there - acc[cmd] = off
    BY <2>1, <2>3, <2>4
  <2>6. SeekToOffset(cmd, off) = there
    BY DEF SeekToOffset
  <2> HIDE DEF there
  <2>7. FindEntry(buffer, there) = [slot |-> SlotOf(buffer, cmd), offset |-> there - acc[cmd]]
    BY <1>1, <2>1, <2>5, FindEntryAt
  <2> QED BY <2>2, <2>5, <2>6, <2>7, NullAssumption
<1> HIDE DEF live, e, hit
<1> QED BY <1>2, <1>3, <1>5, <1>6 DEF SeekAgrees, live, hit

(* In particular for the numbers the property ranges over.                 *)
LEMMA SeekToAgrees == HeapInv => SeekToFindsCommand
<1> SUFFICES ASSUME HeapInv, NEW cmd \in 0 .. MaxWriteOps, NEW off \in 0 .. MaxSeek
             PROVE  SeekAgrees(cmd, off)
  BY DEF SeekToFindsCommand, SeekAgrees
<1>1. cmd \in Nat /\ off \in Nat
  BY AesdCharAssumption, MaxWriteOpsAssumption
<1> QED BY <1>1, SeekToAgreesAt

(***************************************************************************)
(* AESDCHAR_IOCSEEKTO accepts exactly the characters of the commands in    *)
(* the ring, and leads a reader to the character it names, however often   *)
(* the ring has wrapped.                                                   *)
(***************************************************************************)
THEOREM SeekToAlwaysFindsCommand == Spec => []SeekToFindsCommand
BY HeapInvInit, HeapInvNext, SeekToAgrees, PTL DEF Spec

-----------------------------------------------------------------------------
(***************************************************************************)
(* What a reader depends on.  Before its copy its position is not          *)
(* negative, since the VFS refuses such a position; during the copy the    *)
(* search would still find the same entry, and what is copied ends where   *)
(* the request ends or where the entry does.                               *)
(***************************************************************************)
Reader(t) ==
  /\ pc[t] \in {"read", "read_copy"} => pos[t] \in Nat
  /\ pc[t] = "read_copy" =>
       LET r == FindEntry(buffer, pos[t])
           l == loc[t]
       IN  /\ r.slot # NULL
           /\ buffer.entry[r.slot].buffptr = l.ptr
           /\ r.offset = l.offset
           /\ l.ptr \in Blocks
           /\ l.offset + l.count <= Len(content[l.ptr])
           /\ l.count = req[t].count \/ l.offset + l.count = Len(content[l.ptr])

Locs == [ptr : Blocks \cup {NULL}, offset : Nat, count : Nat]

(* The part of TypeOK that HeapType leaves out.                            *)
CallType ==
  /\ module \in {"in", "out"}
  /\ stranded \subseteq LoadFaults
  /\ open \subseteq Files /\ fpos \in [Files -> Positions]
  /\ pos \in [Threads -> Positions]
  /\ loc \in [Threads -> Locs]
  /\ ubuf \in [Threads -> Seq(Bytes)]

ReadInv == CallType /\ \A t \in Threads : Reader(t)

(* HeapInv and ReadInv give the two properties the run checks.             *)
LEMMA ReadInvGives == HeapInv /\ ReadInv => TypeOK /\ ReaderKeepsItsEntry
<1> SUFFICES ASSUME HeapInv, ReadInv PROVE TypeOK /\ ReaderKeepsItsEntry
  OBVIOUS
<1>1. TypeOK
  BY DEF HeapInv, HeapType, ReadInv, CallType, TypeOK, Places, Locs
<1>2. ReaderKeepsItsEntry
  BY DEF ReadInv, Reader, ReaderKeepsItsEntry
<1> QED BY <1>1, <1>2

(* No call is in progress when the module is loaded.                       *)
LEMMA ReadInvInit == Init => ReadInv
<1> SUFFICES ASSUME Init PROVE ReadInv
  OBVIOUS
<1>1. << >> \in Seq(Bytes) /\ NoLoc \in Locs /\ 0 \in Positions
  BY DEF NoLoc, Locs, Positions
<1>2. CallType
  BY <1>1 DEF Init, CallType
<1>3. ASSUME NEW t \in Threads PROVE Reader(t)
  BY DEF Init, Reader
<1> QED BY <1>2, <1>3 DEF ReadInv

(* A reader is not disturbed by a step that leaves its locals alone and,   *)
(* while it copies, the ring and the blocks.                               *)
LEMMA ReaderUndisturbed ==
  ASSUME NEW u \in Threads, Reader(u),
         \/ pc'[u] \notin {"read", "read_copy"}
         \/ /\ pc'[u] = pc[u] /\ pos'[u] = pos[u] /\ req'[u] = req[u]
            /\ pc[u] = "read_copy" => /\ loc'[u] = loc[u]
                                      /\ buffer' = buffer /\ content' = content
  PROVE  Reader(u)'
<1>1. CASE pc'[u] \notin {"read", "read_copy"}
  BY <1>1 DEF Reader
<1>2. CASE /\ pc'[u] = pc[u] /\ pos'[u] = pos[u] /\ req'[u] = req[u]
           /\ pc[u] = "read_copy" => /\ loc'[u] = loc[u]
                                     /\ buffer' = buffer /\ content' = content
  <2>1. CASE pc[u] = "read_copy"
    BY <1>2, <2>1 DEF Reader
  <2>2. CASE pc[u] # "read_copy"
    BY <1>2, <2>2 DEF Reader
  <2> QED BY <2>1, <2>2
<1> QED BY <1>1, <1>2

(* A call that ends: its thread's locals are reset.                        *)
LEMMA LeaveReads ==
  ASSUME HeapInv, ReadInv, NEW t \in Threads, Leave(t),
         UNCHANGED <<buffer, content>>
  PROVE  /\ pos' \in [Threads -> Positions]
         /\ loc' \in [Threads -> Locs]
         /\ ubuf' \in [Threads -> Seq(Bytes)]
         /\ \A u \in Threads : Reader(u)'
<1>1. << >> \in Seq(Bytes) /\ NoLoc \in Locs /\ 0 \in Positions
  BY DEF NoLoc, Locs, Positions
<1>2. /\ pos' \in [Threads -> Positions]
      /\ loc' \in [Threads -> Locs]
      /\ ubuf' \in [Threads -> Seq(Bytes)]
  BY <1>1 DEF Leave, ReadInv, CallType
<1>3. ASSUME NEW u \in Threads PROVE Reader(u)'
  <2>1. Reader(u)
    BY DEF ReadInv
  <2>2. \/ pc'[u] \notin {"read", "read_copy"}
        \/ /\ pc'[u] = pc[u] /\ pos'[u] = pos[u] /\ req'[u] = req[u]
           /\ loc'[u] = loc[u]
    BY DEF Leave, HeapInv, HeapType, ReadInv, CallType
  <2> QED BY <2>1, <2>2, ReaderUndisturbed
<1> QED BY <1>2, <1>3

(* The steps that end a call, whatever the reason.                         *)
LEMMA EndOfCallReads ==
  ASSUME HeapInv, ReadInv, NEW t \in Threads,
         LockInterrupted(t) \/ WriteNoMem(t) \/ ReadFault(t) \/ WriteFault(t) \/ Return(t)
  PROVE  ReadInv'
<1>1. Leave(t) /\ UNCHANGED <<module, stranded, open, buffer, content>>
  BY DEF LockInterrupted, WriteNoMem, ReadFault, WriteFault, Return, mod, dev, vfs
<1>2. fpos' \in [Files -> Positions]
  <2>1. CASE Return(t)
    BY <2>1 DEF Return, ReadInv, CallType
  <2>2. CASE ~Return(t)
    BY <2>2 DEF LockInterrupted, WriteNoMem, ReadFault, WriteFault, vfs, ReadInv, CallType
  <2> QED BY <2>1, <2>2
<1> QED BY <1>1, <1>2, LeaveReads DEF ReadInv, CallType

(* The VFS hands a reader a position that is not negative.                 *)
LEMMA EnterReads ==
  ASSUME HeapInv, ReadInv, NEW t \in Threads, NEW f \in Files, NEW h \in {"read", "write"},
         NEW r, Enter(t, f, h, r)
  PROVE  ReadInv'
<1>1. /\ fpos[f] >= 0 /\ fpos[f] \in Positions
      /\ pc' = [pc EXCEPT ![t] = h] /\ pos' = [pos EXCEPT ![t] = fpos[f]]
      /\ req' = [req EXCEPT ![t] = r]
      /\ UNCHANGED <<module, stranded, open, fpos, loc, ubuf, buffer, content>>
  BY DEF Enter, mod, dev, vfs, ReadInv, CallType
<1>2. fpos[f] \in Nat
  BY <1>1 DEF Positions
<1>3. CallType'
  BY <1>1 DEF ReadInv, CallType
<1>4. ASSUME NEW u \in Threads PROVE Reader(u)'
  <2>1. Reader(u)
    BY DEF ReadInv
  <2>2. CASE u = t
    <3>1. pos'[u] \in Nat /\ pc'[u] = h
      BY <1>1, <1>2, <2>2 DEF ReadInv, CallType, HeapInv, HeapType
    <3> QED BY <3>1 DEF Reader
  <2>3. CASE u # t
    <3>1. /\ pc'[u] = pc[u] /\ pos'[u] = pos[u] /\ req'[u] = req[u] /\ loc'[u] = loc[u]
      BY <1>1, <2>3 DEF ReadInv, CallType, HeapInv, HeapType
    <3> QED BY <1>1, <2>1, <3>1, ReaderUndisturbed
  <2> QED BY <2>2, <2>3
<1> QED BY <1>3, <1>4 DEF ReadInv

(* aesd_read up to copy_to_user.                                           *)
LEMMA ReadFindReads ==
  ASSUME HeapInv, ReadInv, NEW t \in Threads, ReadFind(t)
  PROVE  ReadInv'
<1> DEFINE r == FindEntry(buffer, pos[t])
           e == buffer.entry[r.slot]
           room == e.size - r.offset
           n == IF req[t].count > room THEN room ELSE req[t].count
           l == [ptr |-> e.buffptr, offset |-> r.offset, count |-> n]
<1>1. /\ pc[t] = "read"
      /\ \/ r.slot = NULL /\ pc' = [pc EXCEPT ![t] = "return"] /\ UNCHANGED loc
         \/ /\ r.slot # NULL /\ pc' = [pc EXCEPT ![t] = "read_copy"]
            /\ loc' = [loc EXCEPT ![t] = l]
      /\ UNCHANGED <<module, stranded, open, fpos, pos, req, ubuf, buffer, content>>
  BY DEF ReadFind, mod, vfs
<1>2. pos[t] \in Nat /\ req[t].count \in Nat
  BY <1>1 DEF ReadInv, Reader, HeapInv, HeapType
<1>3. ASSUME r.slot # NULL
      PROVE  /\ l \in Locs /\ l.ptr \in Blocks
             /\ l.offset + l.count <= Len(content[l.ptr])
             /\ l.count = req[t].count \/ l.offset + l.count = Len(content[l.ptr])
  <2>1. PICK i \in 0 .. Count(buffer) - 1 : FoundAt(pos[t], i)
    BY <1>2, <1>3, FoundEntry
  <2>2. /\ r.offset \in Nat /\ e.size \in Nat /\ r.offset < e.size
        /\ e.buffptr \in Blocks /\ e.size = Len(content[e.buffptr])
    BY <2>1 DEF FoundAt
  <2> HIDE DEF r, e
  <2>3. n \in Nat /\ n <= room /\ (n = req[t].count \/ n = room)
    BY <1>2, <2>2
  <2>4. r.offset + n <= e.size /\ (n = req[t].count \/ r.offset + n = e.size)
    BY <2>2, <2>3
  <2> HIDE DEF n
  <2>5. l \in Locs
    BY <2>2, <2>3 DEF Locs
  <2> QED BY <2>2, <2>4, <2>5
<1> HIDE DEF l, r
<1>4. CallType'
  BY <1>1, <1>3 DEF ReadInv, CallType
<1>5. ASSUME NEW u \in Threads PROVE Reader(u)'
  <2>1. Reader(u)
    BY DEF ReadInv
  <2>2. CASE u # t
    <3>1. /\ pc'[u] = pc[u] /\ pos'[u] = pos[u] /\ req'[u] = req[u] /\ loc'[u] = loc[u]
      BY <1>1, <2>2 DEF ReadInv, CallType, HeapInv, HeapType
    <3> QED BY <1>1, <2>1, <3>1, ReaderUndisturbed
  <2>3. CASE u = t /\ r.slot = NULL
    <3>1. pc'[u] = "return"
      BY <1>1, <2>3 DEF HeapInv, HeapType
    <3> QED BY <3>1 DEF Reader
  <2>4. CASE u = t /\ r.slot # NULL
    <3>1. pc'[t] = "read_copy" /\ loc'[t] = l
      BY <1>1, <2>4 DEF ReadInv, CallType, HeapInv, HeapType
    <3>2. l.ptr = buffer.entry[r.slot].buffptr /\ l.offset = r.offset
      BY DEF l
    <3>3. /\ r.slot # NULL /\ pos[t] \in Nat
          /\ l.ptr \in Blocks
          /\ l.offset + l.count <= Len(content[l.ptr])
          /\ l.count = req[t].count \/ l.offset + l.count = Len(content[l.ptr])
      BY <1>2, <1>3, <2>4
    <3>4. pos' = pos /\ req' = req /\ buffer' = buffer /\ content' = content
      BY <1>1
    <3> QED BY <2>4, <3>1, <3>2, <3>3, <3>4 DEF Reader, r
  <2> QED BY <2>2, <2>3, <2>4
<1> QED BY <1>4, <1>5 DEF ReadInv

(* copy_to_user succeeds.                                                  *)
LEMMA ReadCopyReads ==
  ASSUME HeapInv, ReadInv, NEW t \in Threads, ReadCopy(t)
  PROVE  ReadInv'
<1> DEFINE l == loc[t]
           part == SubSeq(content[l.ptr], l.offset + 1, l.offset + l.count)
<1>1. /\ pc[t] = "read_copy" /\ pc' = [pc EXCEPT ![t] = "return"]
      /\ ubuf' = [ubuf EXCEPT ![t] = part]
      /\ pos' = [pos EXCEPT ![t] = @ + l.count]
      /\ loc' = [loc EXCEPT ![t] = NoLoc]
      /\ UNCHANGED <<module, stranded, open, fpos, req, buffer, content>>
  BY DEF ReadCopy, mod, vfs
<1>2. /\ l \in Locs /\ pos[t] \in Nat
      /\ l.ptr \in Blocks /\ l.offset + l.count <= Len(content[l.ptr])
  BY <1>1 DEF ReadInv, CallType, Reader
<1>3. content[l.ptr] \in Seq(Bytes) /\ l.offset \in Nat /\ l.count \in Nat
  BY <1>2 DEF HeapInv, HeapType, Locs
<1>4. part \in Seq(Bytes)
  <2> DEFINE c == content[l.ptr]
             m == l.offset + 1
             k == l.offset + l.count
  <2>1. c \in Seq(Bytes) /\ m \in 1 .. k + 1 /\ k \in m - 1 .. Len(c) /\ k \in Nat
    <3>1. PICK o \in Nat, n \in Nat, s \in Nat :
                 o = l.offset /\ n = l.count /\ s = Len(c)
      BY <1>3, LenProperties
    <3>2. o + n <= s
      BY <1>2, <3>1
    <3>3. o + 1 \in 1 .. (o + n) + 1 /\ o + n \in (o + 1) - 1 .. s /\ o + n \in Nat
      BY <3>2
    <3> QED BY <1>3, <3>1, <3>3
  <2> HIDE DEF c, m, k
  <2>2. \A i \in m .. k : c[i] \in Bytes
    BY <2>1, ElementOfSeq
  <2>3. SubSeq(c, m, k) \in Seq(Bytes)
    BY <2>1, <2>2, SubSeqProperties
  <2> QED BY <2>3 DEF c, m, k
<1>5. pos[t] + l.count \in Positions /\ NoLoc \in Locs
  BY <1>2, <1>3 DEF Positions, NoLoc, Locs
<1> HIDE DEF part, l
<1>6. CallType'
  BY <1>1, <1>4, <1>5 DEF ReadInv, CallType
<1>7. ASSUME NEW u \in Threads PROVE Reader(u)'
  <2>1. Reader(u)
    BY DEF ReadInv
  <2>2. CASE u # t
    <3>1. /\ pc'[u] = pc[u] /\ pos'[u] = pos[u] /\ req'[u] = req[u] /\ loc'[u] = loc[u]
      BY <1>1, <2>2 DEF ReadInv, CallType, HeapInv, HeapType
    <3> QED BY <1>1, <2>1, <3>1, ReaderUndisturbed
  <2>3. CASE u = t
    <3>1. pc'[u] = "return"
      BY <1>1, <2>3 DEF HeapInv, HeapType
    <3> QED BY <3>1 DEF Reader
  <2> QED BY <2>2, <2>3
<1> QED BY <1>6, <1>7 DEF ReadInv

(* aesd_write: it takes the mutex, so no reader is copying.                *)
LEMMA WriteAllocReads ==
  ASSUME HeapInv, ReadInv, NEW t \in Threads, WriteAlloc(t)
  PROVE  ReadInv'
<1>1. /\ lock = Nobody /\ pc' = [pc EXCEPT ![t] = "write_copy"]
      /\ \E b \in Blocks : loc' = [loc EXCEPT ![t] = [NoLoc EXCEPT !.ptr = b]]
      /\ UNCHANGED <<module, stranded, open, fpos, pos, req, ubuf>>
  BY DEF WriteAlloc, CanLock, mod, vfs
<1>2. \A b \in Blocks : [NoLoc EXCEPT !.ptr = b] \in Locs
  BY DEF NoLoc, Locs
<1>3. CallType'
  BY <1>1, <1>2 DEF ReadInv, CallType
<1>4. \A u \in Threads : pc[u] # "read_copy"
  BY <1>1, AesdCharAssumption DEF HeapInv, MutexHeld
<1>5. ASSUME NEW u \in Threads PROVE Reader(u)'
  <2>1. Reader(u) /\ pc[u] # "read_copy"
    BY <1>4 DEF ReadInv
  <2>2. \/ pc'[u] \notin {"read", "read_copy"}
        \/ pc'[u] = pc[u] /\ pos'[u] = pos[u] /\ req'[u] = req[u]
    BY <1>1 DEF HeapInv, HeapType
  <2> QED BY <2>1, <2>2, ReaderUndisturbed
<1> QED BY <1>3, <1>5 DEF ReadInv

(* The position after a write is the size of the ring less one.            *)
LEMMA WriteCommitReads ==
  ASSUME HeapInv, HeapInv', ReadInv, NEW t \in Threads, WriteCommit(t)
  PROVE  ReadInv'
<1>1. /\ pc[t] = "write_copy" /\ pc' = [pc EXCEPT ![t] = "return"]
      /\ pos' = [pos EXCEPT ![t] = BufferSize(buffer') - 1]
      /\ loc' = [loc EXCEPT ![t] = NoLoc]
      /\ UNCHANGED <<module, stranded, open, fpos, req, ubuf>>
  BY DEF WriteCommit, mod, vfs
<1>2. buffer' \in CircularBufferType(Blocks)
  BY DEF HeapInv, HeapType
<1>3. BufferSize(buffer') \in Nat
  BY <1>2, SizeIsNat
<1>4. BufferSize(buffer') - 1 \in Positions /\ NoLoc \in Locs
  BY <1>3 DEF Positions, NoLoc, Locs
<1>5. CallType'
  BY <1>1, <1>4 DEF ReadInv, CallType
<1>6. \A u \in Threads : pc[u] # "read_copy"
  BY <1>1 DEF HeapInv, MutexHeld
<1>7. ASSUME NEW u \in Threads PROVE Reader(u)'
  <2>1. Reader(u) /\ pc[u] # "read_copy"
    BY <1>6 DEF ReadInv
  <2>2. \/ pc'[u] \notin {"read", "read_copy"}
        \/ pc'[u] = pc[u] /\ pos'[u] = pos[u] /\ req'[u] = req[u]
    BY <1>1 DEF HeapInv, HeapType, ReadInv, CallType
  <2> QED BY <2>1, <2>2, ReaderUndisturbed
<1> QED BY <1>5, <1>7 DEF ReadInv

(* A step that leaves the threads alone, and the device while one copies.  *)
LEMMA OutsideReads ==
  ASSUME ReadInv, CallType', UNCHANGED call,
         \A t \in Threads : pc[t] = "read_copy" => UNCHANGED <<buffer, content>>
  PROVE  ReadInv'
<1>1. ASSUME NEW u \in Threads PROVE Reader(u)'
  <2>1. Reader(u)
    BY DEF ReadInv
  <2>2. pc'[u] = pc[u] /\ pos'[u] = pos[u] /\ req'[u] = req[u] /\ loc'[u] = loc[u]
    BY DEF call
  <2>3. pc[u] = "read_copy" => buffer' = buffer /\ content' = content
    OBVIOUS
  <2> QED BY <2>1, <2>2, <2>3, ReaderUndisturbed
<1> QED BY <1>1 DEF ReadInv

(* A seek puts the file at a position that is not negative.                *)
LEMMA SeekReads ==
  ASSUME HeapInv, ReadInv, NEW t \in Threads, SeekStep(t)
  PROVE  ReadInv'
<1>1. UNCHANGED <<mod, dev, open, call>>
  BY DEF SeekStep, Llseek, Ioctl
<1>2. \E f \in Files, p \in Nat : fpos' = [fpos EXCEPT ![f] = p]
  <2>1. buffer \in CircularBufferType(Blocks)
    BY DEF HeapInv, HeapType
  <2>2. ASSUME NEW f \in Files, NEW off \in -MaxSeek .. MaxSeek,
               NEW whence \in {"SEEK_SET", "SEEK_CUR", "SEEK_END"}, Llseek(t, f, off, whence)
        PROVE  \E p \in Nat : fpos' = [fpos EXCEPT ![f] = p]
    <3>1. BufferSize(buffer) \in Nat
      BY <2>1, SizeIsNat
    <3>2. PICK p : p = SeekTarget(f, off, whence)
      OBVIOUS
    <3>3. p \in 0 .. BufferSize(buffer) /\ fpos' = [fpos EXCEPT ![f] = p]
      BY <2>2, <3>2 DEF Llseek
    <3>4. p \in Nat
      BY <3>1, <3>3
    <3> QED BY <3>3, <3>4
  <2>3. ASSUME NEW f \in Files, NEW cmd \in 0 .. MaxWriteOps, NEW off \in 0 .. MaxSeek,
               Ioctl(t, f, cmd, off)
        PROVE  \E p \in Nat : fpos' = [fpos EXCEPT ![f] = p]
    <3>1. AccLength(buffer) \in [0 .. MaxWriteOps -> Nat]
      BY <2>1, AccLengthFacts
    <3>2. AccLength(buffer)[cmd] + off \in Nat
      BY <3>1, AesdCharAssumption
    <3> QED BY <2>3, <3>2 DEF Ioctl, SeekToOffset
  <2> QED BY <2>2, <2>3 DEF SeekStep
<1>3. CallType'
  BY <1>1, <1>2 DEF ReadInv, CallType, mod, call, Positions
<1> QED BY <1>1, <1>3, OutsideReads DEF dev

(* Opening and closing files, loading and unloading the module.            *)
LEMMA FileReads ==
  ASSUME HeapInv, ReadInv,
         \/ \E f \in Files : Open(f) \/ Release(f)
         \/ InitModule \/ InitModuleFails \/ CleanupModule
  PROVE  ReadInv'
<1>1. UNCHANGED call
  BY DEF Open, Release, InitModule, InitModuleFails, CleanupModule
<1>2. module' \in {"in", "out"} /\ stranded' \subseteq LoadFaults
  BY DEF Open, Release, InitModule, InitModuleFails, CleanupModule, mod, ReadInv, CallType
<1>3. open' \subseteq Files /\ fpos' \in [Files -> Positions]
  BY DEF Open, Release, InitModule, InitModuleFails, CleanupModule, vfs, ReadInv, CallType,
         Positions
<1>4. CallType'
  BY <1>1, <1>2, <1>3 DEF call, ReadInv, CallType
<1>5. ASSUME NEW t \in Threads, pc[t] = "read_copy" PROVE UNCHANGED <<buffer, content>>
  <2>1. open # {}
    BY <1>5 DEF HeapInv, CallsHoldFiles
  <2> QED BY <2>1 DEF Open, Release, InitModule, InitModuleFails, CleanupModule, dev
<1> QED BY <1>1, <1>4, <1>5, OutsideReads

(* Every step keeps what readers depend on.                                *)
LEMMA ReadInvNext == HeapInv /\ HeapInv' /\ ReadInv /\ [Next]_vars => ReadInv'
<1> SUFFICES ASSUME HeapInv, HeapInv', ReadInv, [Next]_vars PROVE ReadInv'
  OBVIOUS
<1>1. ASSUME NEW t \in Threads, ReadStep(t) PROVE ReadInv'
  BY <1>1, EnterReads, ReadFindReads, ReadCopyReads, EndOfCallReads DEF ReadStep, EnterRead
<1>2. ASSUME NEW t \in Threads, WriteStep(t) PROVE ReadInv'
  BY <1>2, EnterReads, WriteAllocReads, WriteCommitReads, EndOfCallReads
     DEF WriteStep, EnterWrite
<1>3. ASSUME NEW t \in Threads, SeekStep(t) PROVE ReadInv'
  BY <1>3, SeekReads
<1>4. ASSUME NEW t \in Threads, LockInterrupted(t) \/ Return(t) PROVE ReadInv'
  BY <1>4, EndOfCallReads
<1>5. CASE \/ \E f \in Files : Open(f) \/ Release(f)
           \/ InitModule \/ InitModuleFails \/ CleanupModule
  BY <1>5, FileReads
<1>6. CASE UNCHANGED vars
  <2>1. UNCHANGED <<mod, dev, vfs, call>>
    BY <1>6 DEF vars
  <2>2. CallType'
    BY <2>1 DEF mod, vfs, call, ReadInv, CallType
  <2> QED BY <2>1, <2>2, OutsideReads DEF dev
<1> QED BY <1>1, <1>2, <1>3, <1>4, <1>5, <1>6 DEF Next

(***************************************************************************)
(* The types of the driver: no step leaves a position below -1, a pointer  *)
(* that is neither null nor a block, or an offset outside the ring.        *)
(***************************************************************************)
THEOREM DriverTypeOK == Spec => []TypeOK
<1>1. HeapInv /\ ReadInv => TypeOK
  BY ReadInvGives
<1> QED BY HeapInvInit, HeapInvNext, ReadInvInit, ReadInvNext, <1>1, PTL DEF Spec

(***************************************************************************)
(* Whatever other threads do while aesd_read sleeps in copy_to_user, the   *)
(* entry it copies from stays where the position points, and the copy      *)
(* stays inside it.                                                        *)
(***************************************************************************)
THEOREM ReaderEntryStays == Spec => []ReaderKeepsItsEntry
<1>1. HeapInv /\ ReadInv => ReaderKeepsItsEntry
  BY ReadInvGives
<1> QED BY HeapInvInit, HeapInvNext, ReadInvInit, ReadInvNext, <1>1, PTL DEF Spec

-----------------------------------------------------------------------------
(* Which handler step a change of place is.                                *)
LEMMA WhoMoved ==
  ASSUME HeapInv, Next, NEW t \in Threads
  PROVE  /\ pc[t] = "read_copy" /\ pc'[t] = "return" => ReadCopy(t)
         /\ pc[t] = "read" /\ pc'[t] = "return" => ReadFind(t)
         /\ pc[t] \notin {"user", "return"} /\ pc'[t] = "user" =>
              LockInterrupted(t) \/ ReadFault(t) \/ WriteNoMem(t) \/ WriteFault(t)
<1> DEFINE Moved ==
      /\ pc[t] = "read_copy" /\ pc'[t] = "return" => ReadCopy(t)
      /\ pc[t] = "read" /\ pc'[t] = "return" => ReadFind(t)
      /\ pc[t] \notin {"user", "return"} /\ pc'[t] = "user" =>
           LockInterrupted(t) \/ ReadFault(t) \/ WriteNoMem(t) \/ WriteFault(t)
<1>1. pc \in [Threads -> Places]
  BY DEF HeapInv, HeapType
<1>2. ASSUME NEW u \in Threads, NEW p, pc' = [pc EXCEPT ![u] = p]
      PROVE  pc'[t] = IF u = t THEN p ELSE pc[t]
  BY <1>1, <1>2
<1>3. ASSUME NEW u \in Threads, ReadStep(u) PROVE Moved
  <2>1. ASSUME NEW f \in Files, NEW n \in Counts, EnterRead(u, f, n) PROVE Moved
    BY <1>2, <2>1 DEF EnterRead, Enter
  <2>2. CASE ReadFind(u)
    <3>1. /\ pc[u] = "read"
          /\ pc' = [pc EXCEPT ![u] = "return"] \/ pc' = [pc EXCEPT ![u] = "read_copy"]
      BY <2>2 DEF ReadFind
    <3> QED BY <1>2, <2>2, <3>1
  <2>3. CASE ReadCopy(u)
    <3>1. pc[u] = "read_copy" /\ pc' = [pc EXCEPT ![u] = "return"]
      BY <2>3 DEF ReadCopy
    <3> QED BY <1>2, <2>3, <3>1
  <2>4. CASE ReadFault(u)
    <3>1. pc' = [pc EXCEPT ![u] = "user"]
      BY <2>4 DEF ReadFault, Leave
    <3> QED BY <1>2, <2>4, <3>1
  <2> QED BY <1>3, <2>1, <2>2, <2>3, <2>4 DEF ReadStep
<1>4. ASSUME NEW u \in Threads, WriteStep(u) PROVE Moved
  <2>1. ASSUME NEW f \in Files, NEW c \in Chunks, EnterWrite(u, f, c) PROVE Moved
    BY <1>2, <2>1 DEF EnterWrite, Enter
  <2>2. CASE WriteAlloc(u)
    <3>1. pc' = [pc EXCEPT ![u] = "write_copy"]
      BY <2>2 DEF WriteAlloc
    <3> QED BY <1>2, <3>1
  <2>3. CASE WriteNoMem(u) \/ WriteFault(u)
    <3>1. pc' = [pc EXCEPT ![u] = "user"]
      BY <2>3 DEF WriteNoMem, WriteFault, Leave
    <3> QED BY <1>2, <2>3, <3>1
  <2>4. CASE WriteCommit(u)
    <3>1. pc[u] = "write_copy" /\ pc' = [pc EXCEPT ![u] = "return"]
      BY <2>4 DEF WriteCommit
    <3> QED BY <1>2, <3>1
  <2> QED BY <1>4, <2>1, <2>2, <2>3, <2>4 DEF WriteStep
<1>5. ASSUME NEW u \in Threads, LockInterrupted(u) \/ Return(u) PROVE Moved
  <2>1. /\ pc' = [pc EXCEPT ![u] = "user"]
        /\ LockInterrupted(u) \/ pc[u] = "return"
    BY <1>5 DEF LockInterrupted, Return, Leave
  <2> QED BY <1>2, <2>1
<1>6. CASE \/ \E u \in Threads : SeekStep(u)
           \/ \E f \in Files : Open(f) \/ Release(f)
           \/ InitModule \/ InitModuleFails \/ CleanupModule
  <2>1. pc' = pc
    BY <1>6 DEF SeekStep, Llseek, Ioctl, Open, Release, InitModule, InitModuleFails,
               CleanupModule, call
  <2> QED BY <2>1
<1> QED BY <1>3, <1>4, <1>5, <1>6 DEF Next

(* What users see depends on the ring, the working entry and the blocks.   *)
LEMMA SameView ==
  ASSUME UNCHANGED <<buffer, wip, content>>
  PROVE  UNCHANGED <<Commands, Partial>>
BY DEF Commands, Partial

(***************************************************************************)
(* A call that ends with an error leaves the commands, the partial command *)
(* and every file position as they were, whatever else is in progress.     *)
(***************************************************************************)
THEOREM FailuresChangeNothing == Spec => FailedCallsChangeNothing
<1> DEFINE A == \A t \in Threads : pc[t] \notin {"user", "return"} /\ pc'[t] = "user"
                  => UNCHANGED <<Commands, Partial, fpos>>
<1>1. HeapInv /\ [Next]_vars => [A]_vars
  <2> SUFFICES ASSUME HeapInv, Next, NEW t \in Threads,
                      pc[t] \notin {"user", "return"}, pc'[t] = "user"
               PROVE  UNCHANGED <<Commands, Partial, fpos>>
    OBVIOUS
  <2>1. LockInterrupted(t) \/ ReadFault(t) \/ WriteNoMem(t) \/ WriteFault(t)
    BY WhoMoved
  <2>2. UNCHANGED <<buffer, wip, content, fpos>>
    BY <2>1 DEF LockInterrupted, ReadFault, WriteNoMem, WriteFault, dev, vfs
  <2> QED BY <2>2, SameView
<1> QED BY HeapInvInit, HeapInvNext, <1>1, PTL DEF Spec, FailedCallsChangeNothing

-----------------------------------------------------------------------------
(* The commands are the contents of the live entries' blocks.              *)
LEMMA CommandsOfRing ==
  ASSUME HeapInv
  PROVE  /\ EntryData(buffer, Commands, Bytes)
         /\ \A i \in 0 .. Count(buffer) - 1 :
              Commands[i + 1] = content[buffer.entry[SlotOf(buffer, i)].buffptr]
<1>1. buffer \in CircularBufferType(Blocks) /\ WellShaped(buffer)
  BY DEF HeapInv, HeapType, EntriesDescribeBlocks
<1>2. Count(buffer) \in 0 .. MaxWriteOps
  BY <1>1, LiveLength
<1>3. ASSUME NEW i \in 1 .. Count(buffer)
      PROVE  /\ Commands[i] = content[buffer.entry[SlotOf(buffer, i - 1)].buffptr]
             /\ Commands[i] \in Seq(Bytes)
             /\ Len(Commands[i]) = buffer.entry[SlotOf(buffer, i - 1)].size
  <2> DEFINE e == buffer.entry[SlotOf(buffer, i - 1)]
  <2>1. i - 1 \in Slots /\ i - 1 < Count(buffer)
    BY <1>2, MaxWriteOpsAssumption DEF Slots
  <2>2. SlotOf(buffer, i - 1) \in Slots /\ e.buffptr # NULL
    BY <1>1, <2>1, SlotOfIsSlot, LiveSlots
  <2>3. e.buffptr \in Blocks /\ e.size = Len(content[e.buffptr])
    BY <2>2 DEF HeapInv, HeapType, CircularBufferType, BufferEntry, EntriesDescribeBlocks,
                Describes
  <2>4. Commands[i] = content[e.buffptr]
    BY DEF Commands, LiveEntries
  <2> QED BY <2>3, <2>4 DEF HeapInv, HeapType
<1>4. Commands = [i \in 1 .. Count(buffer) |-> Commands[i]]
  BY DEF Commands
<1>5. EntryData(buffer, Commands, Bytes)
  BY <1>3, <1>4 DEF EntryData
<1>6. ASSUME NEW i \in 0 .. Count(buffer) - 1
      PROVE  Commands[i + 1] = content[buffer.entry[SlotOf(buffer, i)].buffptr]
  <2>1. i + 1 \in 1 .. Count(buffer) /\ (i + 1) - 1 = i
    BY <1>2
  <2> QED BY <1>3, <2>1
<1> QED BY <1>5, <1>6

(* s has c after its first a elements.                                     *)
PartAt(s, c, a) ==
  a + Len(c) <= Len(s) /\ \A k \in 1 .. Len(c) : s[a + k] = c[k]

(* The n elements after the first o of c are such a part of s.             *)
SamePart(s, c, a, o, n) ==
  SubSeq(s, a + o + 1, a + o + n) = SubSeq(c, o + 1, o + n)

(* n elements of a sequence behind the first a.                            *)
LEMMA PartFacts ==
  ASSUME NEW S, NEW s \in Seq(S), NEW a \in Nat, NEW n \in Nat, a + n <= Len(s)
  PROVE  /\ SubSeq(s, a + 1, a + n) \in Seq(S)
         /\ Len(SubSeq(s, a + 1, a + n)) = n
         /\ \A i \in 1 .. n : SubSeq(s, a + 1, a + n)[i] = s[a + i]
<1> DEFINE lo == a + 1
           hi == a + n
<1>1. /\ lo \in Int /\ hi \in Int /\ hi - lo + 1 = n
      /\ (IF lo <= hi THEN hi - lo + 1 ELSE 0) = n
      /\ \A i \in 1 .. n : lo + i - 1 = a + i
  OBVIOUS
<1>2. ASSUME NEW i \in lo .. hi PROVE s[i] \in S
  <2>1. Len(s) \in Nat
    BY LenProperties
  <2>2. i \in 1 .. Len(s)
    BY <2>1
  <2> QED BY <2>2, ElementOfSeq
<1> HIDE DEF lo, hi
<1>3. /\ SubSeq(s, lo, hi) \in Seq(S)
      /\ Len(SubSeq(s, lo, hi)) = IF lo <= hi THEN hi - lo + 1 ELSE 0
      /\ \A i \in 1 .. hi - lo + 1 : SubSeq(s, lo, hi)[i] = s[lo + i - 1]
  BY <1>1, <1>2, SubSeqProperties
<1>4. /\ SubSeq(s, lo, hi) \in Seq(S) /\ Len(SubSeq(s, lo, hi)) = n
      /\ \A i \in 1 .. n : SubSeq(s, lo, hi)[i] = s[a + i]
  BY <1>1, <1>3
<1> QED BY <1>4 DEF lo, hi

(* A part of a sequence is the same part of what contains it.              *)
LEMMA PartOfWhole ==
  ASSUME NEW S, NEW s \in Seq(S), NEW c \in Seq(S),
         NEW a \in Nat, NEW o \in Nat, NEW n \in Nat,
         o + n <= Len(c), PartAt(s, c, a)
  PROVE  SamePart(s, c, a, o, n)
<1> DEFINE x == SubSeq(s, a + o + 1, a + o + n)
           y == SubSeq(c, o + 1, o + n)
<1>1. Len(c) \in Nat /\ Len(s) \in Nat /\ a + Len(c) <= Len(s)
  BY LenProperties DEF PartAt
<1>2. a + o \in Nat /\ (a + o) + n <= Len(s)
  BY <1>1
<1>4. x \in Seq(S) /\ Len(x) = n /\ \A i \in 1 .. n : x[i] = s[a + o + i]
  BY <1>2, PartFacts
<1>5. y \in Seq(S) /\ Len(y) = n /\ \A i \in 1 .. n : y[i] = c[o + i]
  BY PartFacts
<1> HIDE DEF x, y
<1>6. ASSUME NEW i \in 1 .. n PROVE x[i] = y[i]
  <2>1. a + o + i = a + (o + i) /\ o + i \in 1 .. Len(c)
    BY <1>1
  <2> QED BY <1>4, <1>5, <2>1 DEF PartAt
<1>7. x = y
  BY <1>4, <1>5, <1>6, SeqEqual
<1> QED BY <1>7 DEF x, y, SamePart

(* copy_to_user copies from the position on, inside one command.           *)
LEMMA ReadCopyAtPosition ==
  ASSUME HeapInv, ReadInv, NEW t \in Threads, ReadCopy(t)
  PROVE  /\ pos'[t] <= Len(FlattenSeq(Commands))
         /\ ubuf'[t] = SubSeq(FlattenSeq(Commands), pos[t] + 1, pos'[t])
         /\ pos'[t] = pos[t] + req[t].count \/ pos'[t] \in Ends
<1> DEFINE l == loc[t]
           flat == FlattenSeq(Commands)
           r == FindEntry(buffer, pos[t])
           acc == AccLength(buffer)
<1>1. /\ pc[t] = "read_copy"
      /\ ubuf' = [ubuf EXCEPT ![t] = SubSeq(content[l.ptr], l.offset + 1, l.offset + l.count)]
      /\ pos' = [pos EXCEPT ![t] = @ + l.count]
  BY DEF ReadCopy
<1>2. /\ l \in Locs /\ pos[t] \in Nat /\ r.slot # NULL
      /\ buffer.entry[r.slot].buffptr = l.ptr /\ r.offset = l.offset
      /\ l.ptr \in Blocks /\ l.offset + l.count <= Len(content[l.ptr])
      /\ l.count = req[t].count \/ l.offset + l.count = Len(content[l.ptr])
  BY <1>1 DEF ReadInv, CallType, Reader
<1>3. PICK i \in 0 .. Count(buffer) - 1 : FoundAt(pos[t], i)
  BY <1>2, FoundEntry
<1>4. buffer \in CircularBufferType(Blocks) /\ WellShaped(buffer)
  BY DEF HeapInv, HeapType, EntriesDescribeBlocks
<1>5. /\ i + 1 \in 1 .. Count(buffer) /\ (i + 1) - 1 = i
      /\ i + 1 \in 1 .. MaxWriteOps /\ MaxWriteOps \in i + 1 .. MaxWriteOps
      /\ i + 1 \in 0 .. MaxWriteOps
  BY <1>3, <1>4, LiveLength, MaxWriteOpsAssumption
<1> DEFINE c == Commands[i + 1]
           a == acc[i]
<1>6. /\ pos[t] = a + l.offset /\ a \in Nat /\ r.slot = SlotOf(buffer, i)
      /\ acc[i + 1] = a + Len(content[l.ptr])
  BY <1>2, <1>3 DEF FoundAt
<1>7. c = content[l.ptr]
  BY <1>2, <1>6, CommandsOfRing
<1>8. /\ flat \in Seq(Bytes) /\ Len(flat) = BufferSize(buffer)
      /\ Placed(buffer, Commands, flat)
  BY <1>4, CommandsOfRing, LiveFlattened
<1>9. \A k \in 1 .. Len(c) : flat[a + k] = c[k]
  BY <1>5, <1>8 DEF Placed
<1>10. c \in Seq(Bytes) /\ l.offset \in Nat /\ l.count \in Nat
  BY <1>2, <1>7 DEF HeapInv, HeapType, Locs
<1>11. acc[i + 1] <= BufferSize(buffer)
  BY <1>4, <1>5, AccLengthGrows DEF BufferSize
<1>12. acc[i + 1] \in Ends
  BY <1>5 DEF Ends
<1> HIDE DEF flat, c, a, acc, l
<1>13. PICK o, n, m : o = l.offset /\ n = l.count /\ m = Len(c)
  OBVIOUS
<1>14. o \in Nat /\ n \in Nat /\ m \in Nat /\ o + n <= m /\ (n = req[t].count \/ o + n = m)
  BY <1>2, <1>7, <1>10, <1>13
<1>15. pos[t] = a + o /\ acc[i + 1] = a + m /\ a + m <= Len(flat) /\ Len(flat) \in Nat
  BY <1>6, <1>7, <1>8, <1>11, <1>13
<1>16. SubSeq(flat, a + o + 1, a + o + n) = SubSeq(c, o + 1, o + n)
  <2>1. PartAt(flat, c, a)
    BY <1>9, <1>13, <1>15 DEF PartAt
  <2>2. o + n <= Len(c)
    BY <1>13, <1>14
  <2>3. flat \in Seq(Bytes) /\ c \in Seq(Bytes) /\ a \in Nat /\ o \in Nat /\ n \in Nat
    BY <1>6, <1>8, <1>10, <1>14
  <2>4. SamePart(flat, c, a, o, n)
    BY <2>1, <2>2, <2>3, PartOfWhole
  <2> QED BY <2>4 DEF SamePart
<1>17. pos'[t] = a + o + n /\ ubuf'[t] = SubSeq(c, o + 1, o + n)
  BY <1>1, <1>7, <1>13, <1>15 DEF ReadInv, CallType
<1>18. a + o + n <= Len(flat) /\ (a + o + n = a + o + req[t].count \/ a + o + n = a + m)
  BY <1>6, <1>14, <1>15
<1> QED BY <1>12, <1>15, <1>16, <1>17, <1>18 DEF flat

(* The end of the file is reported only at or after the end.               *)
LEMMA EndOfFileAtEnd ==
  ASSUME HeapInv, ReadInv, NEW t \in Threads, ReadFind(t), pc'[t] = "return"
  PROVE  pos[t] >= Len(FlattenSeq(Commands))
<1>1. pc[t] = "read" /\ FindEntry(buffer, pos[t]).slot = NULL
  BY DEF ReadFind, HeapInv, HeapType
<1>2. pos[t] \in Nat
  BY <1>1 DEF ReadInv, Reader
<1>3. buffer \in CircularBufferType(Blocks) /\ WellShaped(buffer)
  BY DEF HeapInv, HeapType, EntriesDescribeBlocks
<1>4. Len(FlattenSeq(Commands)) = BufferSize(buffer) /\ BufferSize(buffer) \in Nat
  BY <1>3, CommandsOfRing, LiveFlattened, SizeIsNat
<1>5. ASSUME pos[t] < BufferSize(buffer) PROVE FALSE
  <2>1. PICK i \in 0 .. Count(buffer) - 1 :
          FindEntry(buffer, pos[t]) = [slot |-> SlotOf(buffer, i),
                                       offset |-> pos[t] - AccLength(buffer)[i]]
    BY <1>2, <1>3, <1>5, FindEntryLive
  <2>2. i \in Slots
    BY <1>3, <2>1, LiveLength, MaxWriteOpsAssumption DEF Slots
  <2>3. SlotOf(buffer, i) \in Slots
    BY <1>3, <2>2, SlotOfIsSlot
  <2> QED BY <1>1, <2>1, <2>3, NullAssumption
<1> QED BY <1>2, <1>4, <1>5

(***************************************************************************)
(* Every read delivers the characters at its position of all the commands  *)
(* put one after the other, even when another thread moved the file or     *)
(* wrote while it waited, stops short only at the end of a command, and    *)
(* reports the end of the file only there.                                 *)
(***************************************************************************)
THEOREM ReadsDeliverPosition == Spec => ReadsAtPosition
<1> DEFINE A ==
      \A t \in Threads :
        /\ pc[t] = "read_copy" /\ pc'[t] = "return" =>
             /\ pos'[t] <= Len(FlattenSeq(Commands))
             /\ ubuf'[t] = SubSeq(FlattenSeq(Commands), pos[t] + 1, pos'[t])
             /\ pos'[t] = pos[t] + req[t].count \/ pos'[t] \in Ends
        /\ pc[t] = "read" /\ pc'[t] = "return" =>
             pos[t] >= Len(FlattenSeq(Commands))
<1>1. HeapInv /\ ReadInv /\ [Next]_vars => [A]_vars
  BY WhoMoved, ReadCopyAtPosition, EndOfFileAtEnd
<1> QED BY HeapInvInit, HeapInvNext, ReadInvInit, ReadInvNext, <1>1, PTL
        DEF Spec, ReadsAtPosition

-----------------------------------------------------------------------------
(***************************************************************************)
(* What a writer depends on: it writes one of the pieces users write, and  *)
(* the block it fills starts with the partial command.                     *)
(***************************************************************************)
Writer(t) ==
  /\ pc[t] \in {"write", "write_copy"} => req[t].bytes \in Chunks
  /\ pc[t] = "write_copy" => content[loc[t].ptr] = Partial

WriteInv == \A t \in Threads : Writer(t)

(* A writer is not disturbed by a step that leaves its locals alone and,   *)
(* while it copies, the working entry and the blocks.                      *)
LEMMA WriterUndisturbed ==
  ASSUME NEW u \in Threads, Writer(u),
         \/ pc'[u] \notin {"write", "write_copy"}
         \/ /\ pc'[u] = pc[u] /\ req'[u] = req[u]
            /\ pc[u] = "write_copy" => /\ loc'[u] = loc[u]
                                       /\ wip' = wip /\ content' = content
  PROVE  Writer(u)'
<1>1. CASE pc'[u] \notin {"write", "write_copy"}
  BY <1>1 DEF Writer
<1>2. CASE /\ pc'[u] = pc[u] /\ req'[u] = req[u]
           /\ pc[u] = "write_copy" => /\ loc'[u] = loc[u]
                                      /\ wip' = wip /\ content' = content
  <2>1. CASE pc[u] = "write_copy"
    BY <1>2, <2>1 DEF Writer, Partial
  <2>2. CASE pc[u] # "write_copy"
    BY <1>2, <2>2 DEF Writer
  <2> QED BY <2>1, <2>2
<1> QED BY <1>1, <1>2

(* The commands stay when the ring does and its blocks do.                 *)
LEMMA CommandsStay ==
  ASSUME HeapInv, buffer' = buffer, \A q \in RingBlocks : content'[q] = content[q]
  PROVE  Commands' = Commands
<1>1. buffer \in CircularBufferType(Blocks) /\ WellShaped(buffer)
  BY DEF HeapInv, HeapType, EntriesDescribeBlocks
<1>2. ASSUME NEW i \in 1 .. Count(buffer)
      PROVE  content'[LiveEntries(buffer)[i].buffptr] = content[LiveEntries(buffer)[i].buffptr]
  <2>1. PICK s \in Slots : LiveEntries(buffer)[i] = buffer.entry[s]
                           /\ buffer.entry[s].buffptr # NULL
    BY <1>1, LivePointers
  <2> QED BY <2>1, RingPointers
<1> QED BY <1>2 DEF Commands

(* A new block starts as a copy of the partial command, and users see no   *)
(* difference.                                                             *)
LEMMA AllocView ==
  ASSUME HeapInv, NEW t \in Threads, WriteAlloc(t)
  PROVE  /\ UNCHANGED <<Commands, Partial>>
         /\ content'[loc'[t].ptr] = Partial'
<1> DEFINE Start == IF wip.buffptr = NULL THEN << >>
                    ELSE SubSeq(content[wip.buffptr], 1, wip.size)
<1>1. PICK b \in Blocks \ alloc :
        /\ content' = [content EXCEPT ![b] = Start]
        /\ loc' = [loc EXCEPT ![t] = [NoLoc EXCEPT !.ptr = b]]
  BY DEF WriteAlloc
<1>2. buffer' = buffer /\ wip' = wip
  BY DEF WriteAlloc
<1>3. b \notin RingBlocks /\ b \notin WipBlock
  BY <1>1 DEF HeapInv, BlocksAccounted
<1>4. content \in [Blocks -> Seq(Bytes)] /\ RingBlocks \subseteq Blocks
  BY OwnedBlocks DEF HeapInv, HeapType
<1> HIDE DEF Start
<1>5. Commands' = Commands
  BY <1>1, <1>2, <1>3, <1>4, CommandsStay
<1>6. Partial' = Partial
  BY <1>1, <1>2, <1>3, <1>4 DEF Partial, WipBlock, HeapInv, HeapType, BufferEntry
<1>7. Start = Partial
  <2>1. CASE wip.buffptr = NULL
    BY <2>1 DEF Start, Partial
  <2>2. CASE wip.buffptr # NULL
    <3>1. /\ wip.size = Len(content[wip.buffptr])
          /\ content[wip.buffptr] \in Seq(Bytes)
      BY <2>2 DEF HeapInv, HeapType, BufferEntry, EntriesDescribeBlocks, Describes
    <3>2. SubSeq(content[wip.buffptr], 1, wip.size) = content[wip.buffptr]
      BY <3>1, SubSeqFull
    <3> QED BY <2>2, <3>2 DEF Start, Partial
  <2> QED BY <2>1, <2>2
<1>8. loc'[t].ptr = b
  BY <1>1 DEF HeapInv, HeapType, NoLoc
<1> QED BY <1>1, <1>4, <1>5, <1>6, <1>7, <1>8

(* No call is in progress when the module is loaded.                       *)
LEMMA WriteInvInit == Init => WriteInv
BY DEF Init, WriteInv, Writer

(* Every step keeps what writers depend on.                                *)
LEMMA WriteInvNext == HeapInv /\ WriteInv /\ [Next]_vars => WriteInv'
<1> SUFFICES ASSUME HeapInv, WriteInv, [Next]_vars, NEW u \in Threads PROVE Writer(u)'
  BY DEF WriteInv
<1>1. /\ Writer(u) /\ pc \in [Threads -> Places]
      /\ req \in [Threads -> [count : Nat, bytes : Seq(Bytes)]]
      /\ loc = [x \in Threads |-> loc[x]]
  BY DEF WriteInv, HeapInv, HeapType
<1>2. ASSUME NEW t \in Threads, NEW f \in Files, NEW n \in Counts, EnterRead(t, f, n)
      PROVE  Writer(u)'
  BY <1>1, <1>2, WriterUndisturbed DEF EnterRead, Enter, dev
<1>3. ASSUME NEW t \in Threads, NEW f \in Files, NEW c \in Chunks, EnterWrite(t, f, c)
      PROVE  Writer(u)'
  <2>1. /\ pc' = [pc EXCEPT ![t] = "write"]
        /\ req' = [req EXCEPT ![t] = [NoReq EXCEPT !.bytes = c]]
        /\ UNCHANGED <<wip, content, loc>>
    BY <1>3 DEF EnterWrite, Enter, dev
  <2>2. CASE u = t
    <3>1. pc'[u] = "write" /\ req'[u] = [NoReq EXCEPT !.bytes = c]
      BY <1>1, <2>1, <2>2
    <3>2. req'[u].bytes = c
      BY <3>1 DEF NoReq
    <3> QED BY <3>1, <3>2 DEF Writer
  <2>3. CASE u # t
    BY <1>1, <2>1, <2>3, WriterUndisturbed
  <2> QED BY <2>2, <2>3
<1>4. ASSUME NEW t \in Threads, ReadFind(t) PROVE Writer(u)'
  <2>1. /\ pc' = [pc EXCEPT ![t] = "return"] \/ pc' = [pc EXCEPT ![t] = "read_copy"]
        /\ UNCHANGED loc \/ \E l : loc' = [loc EXCEPT ![t] = l]
        /\ UNCHANGED <<wip, content, req>>
    BY <1>4 DEF ReadFind
  <2> QED BY <1>1, <2>1, WriterUndisturbed
<1>5. ASSUME NEW t \in Threads, ReadCopy(t) PROVE Writer(u)'
  <2>1. /\ pc' = [pc EXCEPT ![t] = "return"] /\ loc' = [loc EXCEPT ![t] = NoLoc]
        /\ UNCHANGED <<wip, content, req>>
    BY <1>5 DEF ReadCopy
  <2> QED BY <1>1, <2>1, WriterUndisturbed
<1>6. ASSUME NEW t \in Threads, WriteAlloc(t) PROVE Writer(u)'
  <2>1. /\ pc[t] = "write" /\ lock = Nobody
        /\ pc' = [pc EXCEPT ![t] = "write_copy"] /\ req' = req
    BY <1>6 DEF WriteAlloc, CanLock
  <2>2. pc[u] # "write_copy"
    BY <2>1, AesdCharAssumption DEF HeapInv, MutexHeld
  <2>3. CASE u = t
    <3>1. req[u].bytes \in Chunks
      BY <1>1, <2>1, <2>3 DEF Writer
    <3>2. content'[loc'[u].ptr] = Partial'
      BY <1>6, <2>3, AllocView
    <3> QED BY <2>1, <3>1, <3>2 DEF Writer
  <2>4. CASE u # t
    BY <1>1, <2>1, <2>2, <2>4, WriterUndisturbed
  <2> QED BY <2>3, <2>4
<1>7. ASSUME NEW t \in Threads, WriteCommit(t) PROVE Writer(u)'
  <2>1. pc[t] = "write_copy" /\ pc' = [pc EXCEPT ![t] = "return"] /\ req' = req
    BY <1>7 DEF WriteCommit
  <2>2. u # t => pc[u] # "write_copy"
    BY <2>1, OwnedBlocks
  <2> QED BY <1>1, <2>1, <2>2, WriterUndisturbed
<1>8. ASSUME NEW t \in Threads,
             \/ LockInterrupted(t) \/ WriteNoMem(t) \/ ReadFault(t) \/ WriteFault(t)
             \/ Return(t)
      PROVE  Writer(u)'
  <2>1. Leave(t) /\ UNCHANGED <<wip, content>>
    BY <1>8 DEF LockInterrupted, WriteNoMem, ReadFault, WriteFault, Return, dev
  <2>2. \/ pc'[u] \notin {"write", "write_copy"}
        \/ pc'[u] = pc[u] /\ req'[u] = req[u] /\ loc'[u] = loc[u]
    BY <1>1, <2>1 DEF Leave
  <2> QED BY <1>1, <2>1, <2>2, WriterUndisturbed
<1>9. CASE CleanupModule
  <2>1. pc[u] = "user" /\ pc' = pc
    BY <1>9 DEF CleanupModule, call, HeapInv, CallsHoldFiles
  <2> QED BY <1>1, <2>1, WriterUndisturbed
<1>10. CASE \/ \E t \in Threads : SeekStep(t)
            \/ \E f \in Files : Open(f) \/ Release(f)
            \/ InitModule \/ InitModuleFails \/ UNCHANGED vars
  <2>1. UNCHANGED <<dev, call>>
    BY <1>10 DEF SeekStep, Llseek, Ioctl, Open, Release, InitModule, InitModuleFails, vars
  <2> QED BY <1>1, <2>1, WriterUndisturbed DEF dev, call
<1> QED BY <1>2, <1>3, <1>4, <1>5, <1>6, <1>7, <1>8, <1>9, <1>10
        DEF Next, ReadStep, WriteStep

-----------------------------------------------------------------------------
(* What the entries of a sequence point to, under a heap.                  *)
Contents(entries, heap) ==
  [i \in 1 .. Len(entries) |-> heap[entries[i].buffptr]]

(* Every entry points to a block of the heap.                              *)
PointsInto(entries, heap, D) ==
  \A i \in 1 .. Len(entries) : heap[entries[i].buffptr] \in D

(* The contents are a sequence, as long as the entries.                    *)
LEMMA ContentsSeq ==
  ASSUME NEW E, NEW D, NEW entries \in Seq(E), NEW heap, PointsInto(entries, heap, D)
  PROVE  /\ Contents(entries, heap) \in Seq(D)
         /\ Len(Contents(entries, heap)) = Len(entries)
<1>1. Len(entries) \in Nat
  OBVIOUS
<1> QED BY <1>1 DEF Contents, PointsInto

(* Appending an entry appends what it points to.                           *)
AppendsBlock(entries, e, heap) ==
  Contents(Append(entries, e), heap) = Append(Contents(entries, heap), heap[e.buffptr])

(* It does when that is a block of the heap.                               *)
LEMMA ContentsAppend ==
  ASSUME NEW E, NEW D, NEW entries \in Seq(E), NEW e \in E, NEW heap,
         PointsInto(entries, heap, D), heap[e.buffptr] \in D
  PROVE  AppendsBlock(entries, e, heap)
<1> DEFINE more == Append(entries, e)
           c == Contents(entries, heap)
           x == heap[e.buffptr]
<1>1. /\ more \in Seq(E) /\ Len(more) = Len(entries) + 1 /\ Len(entries) \in Nat
      /\ \A i \in 1 .. Len(entries) : more[i] = entries[i]
      /\ more[Len(entries) + 1] = e
  BY AppendProperties
<1>2. /\ c \in Seq(D) /\ Len(c) = Len(entries)
      /\ \A i \in 1 .. Len(entries) : c[i] = heap[entries[i].buffptr]
  <2>1. c \in Seq(D) /\ Len(c) = Len(entries)
    BY ContentsSeq
  <2>2. \A i \in 1 .. Len(entries) : c[i] = heap[entries[i].buffptr]
    BY DEF Contents
  <2> QED BY <2>1, <2>2
<1> HIDE DEF more, c
<1>3. /\ Append(c, x) \in Seq(D) /\ Len(Append(c, x)) = Len(entries) + 1
      /\ \A i \in 1 .. Len(entries) : Append(c, x)[i] = c[i]
      /\ Append(c, x)[Len(entries) + 1] = x
  BY <1>2, AppendProperties
<1>4. ASSUME NEW i \in 1 .. Len(more) PROVE heap[more[i].buffptr] = Append(c, x)[i]
  <2>1. CASE i \in 1 .. Len(entries)
    BY <1>1, <1>2, <1>3, <2>1
  <2>2. CASE i = Len(entries) + 1
    BY <1>1, <1>3, <2>2
  <2>3. i \in 1 .. Len(entries) \/ i = Len(entries) + 1
    BY <1>1
  <2> QED BY <2>1, <2>2, <2>3
<1>5. PointsInto(more, heap, D)
  <2>1. ASSUME NEW i \in 1 .. Len(more) PROVE Append(c, x)[i] \in D
    BY <1>1, <1>3, ElementOfSeq
  <2> QED BY <1>4, <2>1 DEF PointsInto
<1>6. Contents(more, heap) \in Seq(D) /\ Len(Contents(more, heap)) = Len(more)
  BY <1>1, <1>5, ContentsSeq
<1>7. \A i \in 1 .. Len(more) : Contents(more, heap)[i] = Append(c, x)[i]
  BY <1>4 DEF Contents
<1>8. Contents(more, heap) = Append(c, x)
  BY <1>1, <1>3, <1>6, <1>7, SeqEqual
<1> QED BY <1>8 DEF AppendsBlock, more, c

(* Dropping the first entry drops what it points to.                       *)
LEMMA ContentsTail ==
  ASSUME NEW E, NEW D, NEW entries \in Seq(E), entries # << >>, NEW heap,
         PointsInto(entries, heap, D)
  PROVE  /\ Contents(Tail(entries), heap) = Tail(Contents(entries, heap))
         /\ PointsInto(Tail(entries), heap, D)
<1> DEFINE rest == Tail(entries)
           c == Contents(entries, heap)
<1>1. /\ rest \in Seq(E) /\ Len(rest) = Len(entries) - 1
      /\ Len(entries) \in Nat /\ Len(entries) # 0
      /\ \A i \in 1 .. Len(rest) : rest[i] = entries[i + 1]
  BY HeadTailProperties
<1>2. /\ c \in Seq(D) /\ Len(c) = Len(entries)
      /\ \A i \in 1 .. Len(entries) : c[i] = heap[entries[i].buffptr]
  <2>1. c \in Seq(D) /\ Len(c) = Len(entries)
    BY ContentsSeq
  <2>2. \A i \in 1 .. Len(entries) : c[i] = heap[entries[i].buffptr]
    BY DEF Contents
  <2> QED BY <2>1, <2>2
<1> HIDE DEF rest, c
<1>3. c # << >>
  BY <1>1, <1>2
<1>4. /\ Tail(c) \in Seq(D) /\ Len(Tail(c)) = Len(rest)
      /\ \A i \in 1 .. Len(rest) : Tail(c)[i] = c[i + 1]
  BY <1>1, <1>2, <1>3, HeadTailProperties
<1>5. ASSUME NEW i \in 1 .. Len(rest)
      PROVE  heap[rest[i].buffptr] = Tail(c)[i] /\ heap[rest[i].buffptr] \in D
  <2>1. i + 1 \in 1 .. Len(entries)
    BY <1>1
  <2> QED BY <1>1, <1>2, <1>4, <2>1 DEF PointsInto
<1>6. PointsInto(rest, heap, D)
  BY <1>5 DEF PointsInto
<1>7. Contents(rest, heap) \in Seq(D) /\ Len(Contents(rest, heap)) = Len(rest)
  BY <1>1, <1>6, ContentsSeq
<1>8. \A i \in 1 .. Len(rest) : Contents(rest, heap)[i] = Tail(c)[i]
  BY <1>5 DEF Contents
<1>9. Contents(rest, heap) = Tail(c)
  BY <1>4, <1>7, <1>8, SeqEqual
<1> QED BY <1>6, <1>9 DEF rest, c

(* The commands are the contents of the live entries.                      *)
LEMMA CommandsAreContents ==
  ASSUME HeapInv
  PROVE  /\ Commands = Contents(LiveEntries(buffer), content)
         /\ LiveEntries(buffer) \in Seq(BufferEntry(Blocks))
         /\ Len(LiveEntries(buffer)) = Count(buffer)
         /\ PointsInto(LiveEntries(buffer), content, Seq(Bytes))
         /\ \A i \in 1 .. Count(buffer) : LiveEntries(buffer)[i].buffptr \in RingBlocks
<1>1. buffer \in CircularBufferType(Blocks) /\ WellShaped(buffer)
  BY DEF HeapInv, HeapType, EntriesDescribeBlocks
<1>2. /\ LiveEntries(buffer) \in Seq(BufferEntry(Blocks))
      /\ Len(LiveEntries(buffer)) = Count(buffer)
  BY <1>1, LiveEntriesSeq
<1>3. \A i \in 1 .. Count(buffer) : /\ LiveEntries(buffer)[i].buffptr \in RingBlocks
                                    /\ LiveEntries(buffer)[i].buffptr \in Blocks
  BY <1>1, LivePointers, RingPointers
<1>4. PointsInto(LiveEntries(buffer), content, Seq(Bytes))
  BY <1>2, <1>3 DEF PointsInto, HeapInv, HeapType
<1>5. Commands = Contents(LiveEntries(buffer), content)
  BY <1>2 DEF Commands, Contents
<1> QED BY <1>2, <1>3, <1>4, <1>5

(***************************************************************************)
(* The commit of a write, as users see it: the piece is joined to the      *)
(* partial command, and a complete command enters the log.                 *)
(***************************************************************************)
LEMMA CommitView ==
  ASSUME HeapInv, HeapInv', NEW t \in Threads, Writer(t), WriteCommit(t)
  PROVE  Device!Write(req[t].bytes)
<1> DEFINE b    == loc[t].ptr
           data == content[b] \o req[t].bytes
           new  == NewWip(t)
           joined == Partial \o req[t].bytes
<1>1. pc[t] = "write_copy" /\ ubuf' = ubuf
  BY DEF WriteCommit
<1>2. PICK flush \in SeesNewline(data) :
        /\ buffer' = IF flush THEN AddEntry(buffer, new) ELSE buffer
        /\ wip' = IF flush THEN ZeroEntry ELSE new
        /\ alloc' = alloc \ FreedByWrite(flush)
        /\ content' = AfterFree([content EXCEPT ![b] = data], FreedByWrite(flush))
  BY DEF WriteCommit, WipAfter
<1>3. content[b] = Partial /\ data = joined
  BY <1>1 DEF Writer
<1>4. /\ b \in Blocks /\ b # NULL /\ Len(content[b]) = wip.size /\ Filling = {b}
      /\ b \notin RingBlocks /\ b \notin WipBlock
  BY <1>1, OwnedBlocks DEF HeapInv, FillingStarted, OneOwner
<1>5. /\ content[b] \in Seq(Bytes) /\ req[t].bytes \in Seq(Bytes)
      /\ content \in [Blocks -> Seq(Bytes)] /\ wip.size \in Nat
  BY <1>4 DEF HeapInv, HeapType, BufferEntry
<1>6. joined \in Seq(Bytes)
  BY <1>3, <1>5, ConcatProperties
<1>7. new \in BufferEntry(Blocks) /\ new.buffptr = b /\ new.buffptr # NULL
  <2>1. Len(req[t].bytes) \in Nat
    BY <1>5, LenProperties
  <2> QED BY <1>4, <1>5, <2>1 DEF NewWip, BufferEntry
<1>8. buffer.in_offs \in Slots
  BY DEF HeapInv, HeapType, CircularBufferType
<1>9. b \notin FreedByWrite(flush)
  <2>1. RemovedBuffptr(buffer) # b
    BY <1>4, <1>8, RingPointers DEF RemovedBuffptr
  <2> QED BY <1>4, <2>1 DEF FreedByWrite, WipBlock
<1> HIDE DEF b, data, new, joined
<1>10. /\ content'[b] = joined
       /\ \A q \in Blocks : q # b /\ q \notin FreedByWrite(flush) => content'[q] = content[q]
  <2>1. content'[b] = joined
    BY <1>2, <1>3, <1>4, <1>5, <1>9 DEF AfterFree
  <2>2. ASSUME NEW q \in Blocks, q # b, q \notin FreedByWrite(flush)
        PROVE  content'[q] = content[q]
    BY <1>2, <1>5, <2>2 DEF AfterFree
  <2> QED BY <2>1, <2>2
<1>11. flush <=> IF joined = << >> THEN flush ELSE joined[Len(joined)] = Newline
  BY <1>2, <1>3 DEF SeesNewline, Last
<1>12. CASE ~flush
  <2>1. FreedByWrite(flush) = WipBlock
    BY <1>12 DEF FreedByWrite, WipBlock
  <2>2. \A q \in RingBlocks : q \in Blocks /\ q # b /\ q \notin FreedByWrite(flush)
    BY <1>4, <2>1, OwnedBlocks DEF HeapInv, OneOwner
  <2>3. Commands' = Commands
    BY <1>2, <1>10, <1>12, <2>2, CommandsStay
  <2>4. Partial' = joined
    BY <1>2, <1>7, <1>10, <1>12 DEF Partial
  <2>5. ~Device!Complete(joined)
    BY <1>11, <1>12 DEF Device!Complete
  <2> QED BY <1>1, <2>3, <2>4, <2>5 DEF Device!Write, joined
<1>13. CASE flush
  <2> DEFINE L == LiveEntries(buffer)
             M == LiveEntries(buffer')
             D == Seq(Bytes)
  <2>1. buffer \in CircularBufferType(Blocks) /\ WellShaped(buffer)
    BY DEF HeapInv, HeapType, EntriesDescribeBlocks
  <2>2. buffer' = AddEntry(buffer, new)
    BY <1>2, <1>13
  <2>3. Partial' = << >>
    BY <1>2, <1>13 DEF Partial, ZeroEntry
  <2>4. Device!Complete(joined) \/ joined = << >>
    BY <1>11, <1>13 DEF Device!Complete
  <2>5. /\ Commands = Contents(L, content) /\ L \in Seq(BufferEntry(Blocks))
        /\ PointsInto(L, content, D)
        /\ \A i \in 1 .. Len(L) : L[i].buffptr \in RingBlocks
    BY CommandsAreContents
  <2>6. Commands \in Seq(D) /\ Len(Commands) = Len(L)
    BY <2>5, ContentsSeq
  <2>7. Commands' = Contents(M, content')
    <3>1. buffer' \in CircularBufferType(Blocks) /\ WellShaped(buffer')
      BY DEF HeapInv, HeapType, EntriesDescribeBlocks
    <3>2. Len(M) = Count(buffer')
      BY <3>1, LiveEntriesSeq
    <3> QED BY <3>2 DEF Commands, Contents
  <2>8. content'[new.buffptr] = joined /\ joined \in D
    BY <1>6, <1>7, <1>10
  <2>9. \A q \in RingBlocks' : q # b => q \in Blocks /\ content'[q] = content[q]
    <3>1. RingBlocks' \subseteq alloc' /\ alloc' \subseteq Blocks
      BY DEF HeapInv, HeapType, BlocksAccounted
    <3>2. \A q \in RingBlocks' : q \in Blocks /\ q \notin FreedByWrite(flush)
      BY <1>2, <3>1
    <3> QED BY <1>10, <3>2
  <2>10. \A i \in 1 .. Len(M) : M[i].buffptr \in RingBlocks'
    <3>1. buffer' \in CircularBufferType(Blocks) /\ WellShaped(buffer')
      BY DEF HeapInv, HeapType, EntriesDescribeBlocks
    <3>2. Len(M) = Count(buffer')
      BY <3>1, LiveEntriesSeq
    <3>3. ASSUME NEW i \in 1 .. Count(buffer') PROVE M[i].buffptr \in RingBlocks'
      <4>1. PICK s \in Slots : M[i] = buffer'.entry[s] /\ buffer'.entry[s].buffptr # NULL
        BY <3>1, LivePointers
      <4> QED BY <4>1 DEF RingBlocks
    <3> QED BY <3>2, <3>3
  <2> HIDE DEF L, M, D
  <2>11. ASSUME NEW K \in Seq(BufferEntry(Blocks)), M = Append(K, new),
                PointsInto(K, content, D),
                \A i \in 1 .. Len(K) : K[i].buffptr \in RingBlocks
         PROVE  Commands' = Append(Contents(K, content), joined)
    <3>1. /\ Len(M) = Len(K) + 1 /\ Len(K) \in Nat
          /\ \A i \in 1 .. Len(K) : M[i] = K[i]
      BY <1>7, <2>11, AppendProperties
    <3>2. ASSUME NEW i \in 1 .. Len(K)
          PROVE  content'[K[i].buffptr] = content[K[i].buffptr]
      <4>1. i \in 1 .. Len(M)
        BY <3>1
      <4>2. K[i].buffptr \in RingBlocks' /\ K[i].buffptr # b
        BY <1>4, <2>10, <2>11, <3>1, <4>1
      <4> QED BY <2>9, <4>2
    <3>3. PointsInto(K, content', D)
      BY <2>11, <3>2 DEF PointsInto
    <3>4. Contents(K, content') = Contents(K, content)
      BY <3>2 DEF Contents
    <3>5. Contents(M, content') = Append(Contents(K, content'), joined)
      <4>1. content'[new.buffptr] \in D /\ new \in BufferEntry(Blocks)
        BY <1>7, <2>8
      <4>2. AppendsBlock(K, new, content')
        BY <3>3, <4>1, ContentsAppend
      <4> QED BY <2>8, <2>11, <4>2 DEF AppendsBlock
    <3> QED BY <2>7, <3>4, <3>5
  <2>12. Commands' = Device!Keep(Append(Commands, joined))
    <3>1. Len(Append(Commands, joined)) = Len(L) + 1
      BY <2>6, <2>8, AppendProperties
    <3>2. CASE ~buffer.full
      <4>1. Len(L) < MaxWriteOps /\ M = Append(L, new)
        BY <1>7, <2>1, <2>2, <3>2, AddEntryLive DEF L, M
      <4>2. Commands' = Append(Commands, joined)
        BY <2>5, <2>11, <4>1
      <4>3. ~(Len(Append(Commands, joined)) > MaxWriteOps)
        BY <2>5, <3>1, <4>1, MaxWriteOpsAssumption
      <4> QED BY <4>2, <4>3 DEF Device!Keep
    <3>3. CASE buffer.full
      <4>1. Len(L) = MaxWriteOps /\ M = Append(Tail(L), new)
        BY <1>7, <2>1, <2>2, <3>3, AddEntryLive DEF L, M
      <4>2. L # << >> /\ Commands # << >>
        BY <2>6, <4>1, MaxWriteOpsAssumption
      <4>3. /\ Tail(L) \in Seq(BufferEntry(Blocks)) /\ Len(Tail(L)) = Len(L) - 1
            /\ Len(L) \in Nat
            /\ \A i \in 1 .. Len(Tail(L)) : Tail(L)[i] = L[i + 1]
        BY <2>5, <4>2, HeadTailProperties
      <4>4. Contents(Tail(L), content) = Tail(Commands) /\ PointsInto(Tail(L), content, D)
        <5>1. /\ Contents(Tail(L), content) = Tail(Contents(L, content))
              /\ PointsInto(Tail(L), content, D)
          BY <2>5, <4>2, ContentsTail, Zenon
        <5> QED BY <2>5, <5>1
      <4>5. \A i \in 1 .. Len(Tail(L)) : Tail(L)[i].buffptr \in RingBlocks
        <5>1. \A i \in 1 .. Len(Tail(L)) : i + 1 \in 1 .. Len(L)
          BY <4>3
        <5> QED BY <2>5, <4>3, <5>1
      <4>6. Commands' = Append(Tail(Commands), joined)
        BY <2>11, <4>1, <4>3, <4>4, <4>5
      <4>7. Tail(Append(Commands, joined)) = Append(Tail(Commands), joined)
        BY <2>6, <4>2, HeadTailAppend
      <4>8. Len(Append(Commands, joined)) > MaxWriteOps
        BY <3>1, <4>1, MaxWriteOpsAssumption
      <4> QED BY <4>6, <4>7, <4>8 DEF Device!Keep
    <3> QED BY <3>2, <3>3
  <2> QED BY <1>1, <2>3, <2>4, <2>12 DEF Device!Write, joined
<1> QED BY <1>12, <1>13

(* A successful copy delivers a part of one command.                       *)
LEMMA ReadCopyView ==
  ASSUME HeapInv, ReadInv, NEW t \in Threads, ReadCopy(t)
  PROVE  Device!Read(t)
<1> DEFINE l == loc[t]
           r == FindEntry(buffer, pos[t])
           lo == l.offset + 1
           hi == l.offset + l.count
<1>1. /\ pc[t] = "read_copy"
      /\ ubuf' = [ubuf EXCEPT ![t] = SubSeq(content[l.ptr], lo, hi)]
      /\ UNCHANGED <<buffer, wip, content>>
  BY DEF ReadCopy
<1>2. /\ l \in Locs /\ pos[t] \in Nat /\ r.slot # NULL
      /\ buffer.entry[r.slot].buffptr = l.ptr /\ r.offset = l.offset
      /\ l.offset + l.count <= Len(content[l.ptr])
  BY <1>1 DEF ReadInv, CallType, Reader
<1>3. PICK i \in 0 .. Count(buffer) - 1 : FoundAt(pos[t], i)
  BY <1>2, FoundEntry
<1>4. buffer \in CircularBufferType(Blocks) /\ WellShaped(buffer)
  BY DEF HeapInv, HeapType, EntriesDescribeBlocks
<1>5. Count(buffer) \in Nat /\ Len(Commands) = Count(buffer)
  <2>1. Count(buffer) \in Nat
    BY <1>4, LiveLength
  <2>2. Commands = [j \in 1 .. Count(buffer) |-> content[LiveEntries(buffer)[j].buffptr]]
    BY DEF Commands
  <2> QED BY <2>1, <2>2
<1>6. i + 1 \in 1 .. Len(Commands)
  BY <1>3, <1>5
<1>7. Commands[i + 1] = content[l.ptr] /\ l.offset < Len(content[l.ptr])
      /\ Len(content[l.ptr]) \in Nat
  BY <1>2, <1>3, CommandsOfRing DEF FoundAt
<1>8. lo \in 1 .. Len(Commands[i + 1]) /\ hi \in 0 .. Len(Commands[i + 1])
  <2>1. l.offset \in Nat /\ l.count \in Nat
    BY <1>2 DEF Locs
  <2>2. PICK o \in Nat, n \in Nat, s \in Nat :
               o = l.offset /\ n = l.count /\ s = Len(Commands[i + 1])
    BY <1>7, <2>1
  <2>3. o + n <= s /\ o < s
    BY <1>2, <1>7, <2>2
  <2>4. o + 1 \in 1 .. s /\ o + n \in 0 .. s
    BY <2>3
  <2> QED BY <2>2, <2>4
<1> HIDE DEF lo, hi, l
<1>9. ubuf' = [ubuf EXCEPT ![t] = SubSeq(Commands[i + 1], lo, hi)]
  BY <1>1, <1>7
<1>10. UNCHANGED <<Commands, Partial>>
  BY <1>1, SameView
<1> QED BY <1>6, <1>8, <1>9, <1>10 DEF Device!Read

(* The freshly loaded device holds no commands.                            *)
LEMMA LogInit == Init => Device!Init
<1> SUFFICES ASSUME Init PROVE Device!Init
  OBVIOUS
<1>1. buffer = EmptyBuffer /\ wip = ZeroEntry /\ ubuf = [t \in Threads |-> << >>]
  BY DEF Init
<1>2. Count(buffer) = 0
  BY <1>1 DEF EmptyBuffer, Count
<1>3. Commands = << >>
  BY <1>2 DEF Commands
<1>4. Partial = << >>
  BY <1>1 DEF Partial, ZeroEntry
<1> QED BY <1>1, <1>3, <1>4 DEF Device!Init

(* Unloading the module forgets the commands.                              *)
LEMMA CleanupView ==
  ASSUME CleanupModule
  PROVE  Device!Reset
<1>1. buffer' = EmptyBuffer /\ wip' = ZeroEntry /\ ubuf' = ubuf
  BY DEF CleanupModule, call
<1>2. Count(buffer') = 0
  BY <1>1 DEF EmptyBuffer, Count
<1>3. Commands' = << >>
  BY <1>2 DEF Commands
<1>4. Partial' = << >>
  BY <1>1 DEF Partial, ZeroEntry
<1> QED BY <1>1, <1>3, <1>4 DEF Device!Reset

(* Every step of the driver is a step of the command log, or none.         *)
LEMMA LogNext ==
  HeapInv /\ HeapInv' /\ ReadInv /\ WriteInv /\ [Next]_vars => [Device!Next]_(Device!vars)
<1> SUFFICES ASSUME HeapInv, HeapInv', ReadInv, WriteInv, [Next]_vars
             PROVE  [Device!Next]_(Device!vars)
  OBVIOUS
<1>1. ASSUME NEW t \in Threads,
             \/ LockInterrupted(t) \/ WriteNoMem(t) \/ ReadFault(t) \/ WriteFault(t)
             \/ Return(t)
      PROVE  Device!Next
  <2>1. /\ ubuf' = [ubuf EXCEPT ![t] = << >>]
        /\ UNCHANGED <<buffer, wip, content>>
    BY <1>1 DEF LockInterrupted, WriteNoMem, ReadFault, WriteFault, Return, Leave, dev
  <2>2. Device!Return(t)
    BY <2>1, SameView DEF Device!Return
  <2> QED BY <2>2 DEF Device!Next
<1>2. ASSUME NEW t \in Threads, ReadCopy(t) PROVE Device!Next
  BY <1>2, ReadCopyView DEF Device!Next
<1>3. ASSUME NEW t \in Threads, WriteCommit(t) PROVE Device!Next
  <2>1. Writer(t) /\ req[t].bytes \in Chunks
    BY <1>3 DEF WriteInv, Writer, WriteCommit
  <2>2. Device!Write(req[t].bytes)
    BY <1>3, <2>1, CommitView
  <2> QED BY <2>1, <2>2 DEF Device!Next
<1>4. ASSUME NEW t \in Threads, WriteAlloc(t) PROVE UNCHANGED Device!vars
  <2>1. ubuf' = ubuf
    BY <1>4 DEF WriteAlloc
  <2> QED BY <1>4, <2>1, AllocView DEF Device!vars
<1>5. CASE CleanupModule
  BY <1>5, CleanupView DEF Device!Next
<1>6. CASE \/ \E t \in Threads, f \in Files, n \in Counts : EnterRead(t, f, n)
           \/ \E t \in Threads, f \in Files, c \in Chunks : EnterWrite(t, f, c)
           \/ \E t \in Threads : ReadFind(t) \/ SeekStep(t)
           \/ \E f \in Files : Open(f) \/ Release(f)
           \/ InitModule \/ InitModuleFails \/ UNCHANGED vars
  <2>1. UNCHANGED <<buffer, wip, content, ubuf>>
    BY <1>6 DEF EnterRead, EnterWrite, Enter, ReadFind, SeekStep, Llseek, Ioctl, Open, Release,
                InitModule, InitModuleFails, vars, dev, call
  <2> QED BY <2>1, SameView DEF Device!vars
<1> QED BY <1>1, <1>2, <1>3, <1>4, <1>5, <1>6 DEF Next, ReadStep, WriteStep

(***************************************************************************)
(* The driver implements the command log: whatever the interleaving of     *)
(* reads, writes, seeks, faults and failed allocations on any number of    *)
(* threads and files, a write joins its piece to the partial command in    *)
(* one step, or changes nothing, and the last MaxWriteOps commands are     *)
(* what reads deliver from.                                                *)
(***************************************************************************)
THEOREM DriverImplementsCommandLog == Spec => ImplementsCommandLog
<1> QED BY HeapInvInit, HeapInvNext, ReadInvInit, ReadInvNext, WriteInvInit, WriteInvNext,
           LogInit, LogNext, PTL
        DEF Spec, ImplementsCommandLog, Device!Spec

-----------------------------------------------------------------------------
(* g is the part of c from behind its first a elements up to the p-th.     *)
GotIs(g, c, a, p) ==
  /\ a <= p /\ p <= Len(c) /\ Len(g) = p - a
  /\ \A i \in 1 .. p - a : g[i] = c[a + i]

(* A reply goes on with what comes next in the content.                    *)
LEMMA GotMore ==
  ASSUME NEW S, NEW c \in Seq(S), NEW g \in Seq(S), NEW a \in Nat, NEW p \in Nat, NEW q \in Nat,
         GotIs(g, c, a, p), p <= q, q <= Len(c)
  PROVE  GotIs(g \o SubSeq(c, p + 1, q), c, a, q)
<1> DEFINE m == SubSeq(c, p + 1, q)
           x == g \o m
<1>1. Len(c) \in Nat /\ Len(g) \in Nat /\ q - p \in Nat /\ p + (q - p) = q
      /\ a <= p /\ Len(g) = p - a /\ \A i \in 1 .. p - a : g[i] = c[a + i]
  BY LenProperties DEF GotIs
<1>2. m \in Seq(S) /\ Len(m) = q - p /\ \A i \in 1 .. q - p : m[i] = c[p + i]
  <2> DEFINE n == q - p
  <2>1. n \in Nat /\ p + n <= Len(c) /\ p + n = q
    BY <1>1
  <2> HIDE DEF n
  <2>2. /\ SubSeq(c, p + 1, p + n) \in Seq(S) /\ Len(SubSeq(c, p + 1, p + n)) = n
        /\ \A i \in 1 .. n : SubSeq(c, p + 1, p + n)[i] = c[p + i]
    BY <2>1, PartFacts
  <2> QED BY <2>1, <2>2 DEF n
<1> HIDE DEF m
<1>3. /\ Len(x) = Len(g) + Len(m)
      /\ \A i \in 1 .. Len(g) + Len(m) : x[i] = IF i <= Len(g) THEN g[i] ELSE m[i - Len(g)]
  BY <1>2, ConcatProperties
<1> HIDE DEF x
<1>4. ASSUME NEW i \in 1 .. q - a PROVE x[i] = c[a + i]
  <2>1. i \in 1 .. Len(g) + Len(m)
    BY <1>1, <1>2
  <2>2. CASE i <= Len(g)
    <3>1. i \in 1 .. p - a
      BY <1>1, <2>2
    <3> QED BY <1>1, <1>3, <2>1, <2>2, <3>1
  <2>3. CASE ~(i <= Len(g))
    <3>1. i - Len(g) \in 1 .. q - p /\ p + (i - Len(g)) = a + i
      BY <1>1, <2>3
    <3>2. x[i] = m[i - Len(g)]
      BY <1>3, <2>1, <2>3
    <3> QED BY <1>2, <3>1, <3>2
  <2> QED BY <2>2, <2>3
<1>5. a <= q /\ Len(x) = q - a
  BY <1>1, <1>2, <1>3
<1> QED BY <1>4, <1>5 DEF GotIs, x, m

(* A sequence is what comes up to an element and what comes behind it.     *)
LEMMA SplitAt ==
  ASSUME NEW S, NEW u \in Seq(S), NEW n \in Nat, n <= Len(u)
  PROVE  LET x == SubSeq(u, 1, n)
             y == SubSeq(u, n + 1, Len(u))
         IN  /\ x \in Seq(S) /\ y \in Seq(S) /\ x \o y = u
             /\ n = Len(u) => x = u /\ y = << >>
<1> DEFINE x == SubSeq(u, 1, n)
           y == SubSeq(u, n + 1, Len(u))
<1>1. PICK m \in Nat : n + m = Len(u) /\ n + m <= Len(u) /\ (n = Len(u) => m = 0)
  <2>1. Len(u) \in Nat
    BY LenProperties
  <2>2. PICK k \in Nat : k = Len(u) /\ n <= k
    BY <2>1
  <2>3. k - n \in Nat /\ n + (k - n) = k /\ (n = k => k - n = 0)
    BY <2>2
  <2> QED BY <2>2, <2>3
<1>2. x \in Seq(S) /\ Len(x) = n /\ \A i \in 1 .. n : x[i] = u[i]
  <2>1. 0 \in Nat /\ 0 + n <= Len(u) /\ 0 + 1 = 1 /\ 0 + n = n
    BY <1>1
  <2>2. /\ SubSeq(u, 0 + 1, 0 + n) \in Seq(S) /\ Len(SubSeq(u, 0 + 1, 0 + n)) = n
        /\ \A i \in 1 .. n : SubSeq(u, 0 + 1, 0 + n)[i] = u[0 + i]
    BY <2>1, PartFacts
  <2>3. \A i \in 1 .. n : 0 + i = i
    OBVIOUS
  <2> QED BY <2>1, <2>2, <2>3
<1>3. y \in Seq(S) /\ Len(y) = m /\ \A i \in 1 .. m : y[i] = u[n + i]
  <2> HIDE DEF x
  <2>1. n + m <= Len(u) /\ y = SubSeq(u, n + 1, n + m)
    BY <1>1
  <2> HIDE DEF y
  <2>2. /\ SubSeq(u, n + 1, n + m) \in Seq(S) /\ Len(SubSeq(u, n + 1, n + m)) = m
        /\ \A i \in 1 .. m : SubSeq(u, n + 1, n + m)[i] = u[n + i]
    BY <2>1, PartFacts
  <2> QED BY <2>1, <2>2
<1> HIDE DEF x, y
<1>4. /\ x \o y \in Seq(S) /\ Len(x \o y) = n + m
      /\ \A i \in 1 .. n + m : (x \o y)[i] = IF i <= n THEN x[i] ELSE y[i - n]
  BY <1>2, <1>3, ConcatProperties
<1>5. ASSUME NEW i \in 1 .. n + m PROVE (x \o y)[i] = u[i]
  <2>1. CASE i <= n
    BY <1>2, <1>4, <2>1
  <2>2. CASE ~(i <= n)
    <3>1. i - n \in 1 .. m /\ n + (i - n) = i
      BY <2>2
    <3> QED BY <1>3, <1>4, <2>2, <3>1
  <2> QED BY <2>1, <2>2
<1>6. x \o y = u
  <2>1. Len(x \o y) = Len(u) /\ \A i \in 1 .. Len(x \o y) : (x \o y)[i] = u[i]
    BY <1>1, <1>4, <1>5
  <2> QED BY <1>4, <2>1, SeqEqual
<1>7. ASSUME n = Len(u) PROVE x = u /\ y = << >>
  <2>1. x = u
    BY <1>2, <1>7, SeqEqual
  <2>2. Len(y) = 0
    BY <1>1, <1>3, <1>7
  <2>3. y # << >> => Len(y) \in Nat \ {0}
    BY <1>3, EmptySeq
  <2> QED BY <2>1, <2>2, <2>3
<1> QED BY <1>2, <1>3, <1>6, <1>7 DEF x, y

(* A reply that has come to the end is the rest of the content.            *)
LEMMA GotAll ==
  ASSUME NEW S, NEW c \in Seq(S), NEW g \in Seq(S), NEW a \in Nat, NEW p \in Nat,
         GotIs(g, c, a, p), p >= Len(c)
  PROVE  g = SubSeq(c, a + 1, Len(c))
<1>1. PICK n \in Nat : n = Len(c) - a /\ p = Len(c) /\ a + n = Len(c) /\ p - a = n
  <2>1. Len(c) \in Nat
    BY LenProperties
  <2>2. p = Len(c) /\ a <= p
    BY <2>1 DEF GotIs
  <2>3. Len(c) - a \in Nat /\ a + (Len(c) - a) = Len(c) /\ p - a = Len(c) - a
    BY <2>1, <2>2
  <2> QED BY <2>2, <2>3
<1>2. Len(g) = n /\ \A i \in 1 .. n : g[i] = c[a + i]
  BY <1>1 DEF GotIs
<1>3. LET x == SubSeq(c, a + 1, a + n)
      IN  x \in Seq(S) /\ Len(x) = n /\ \A i \in 1 .. n : x[i] = c[a + i]
  <2>1. a + n <= Len(c)
    BY <1>1
  <2> QED BY <2>1, PartFacts
<1>4. g = SubSeq(c, a + 1, a + n)
  BY <1>2, <1>3, SeqEqual
<1> QED BY <1>1, <1>4

(* c has the same elements from p to q as s.                               *)
SameBetween(s, c, p, q) ==
  q <= Len(c) /\ SubSeq(s, p + 1, q) = SubSeq(c, p + 1, q)

(* What a prefix of a content has in common with it.                       *)
LEMMA PrefixPart ==
  ASSUME NEW S, NEW s \in Seq(S), NEW c \in Seq(S), IsPrefix(s, c),
         NEW p \in Nat, NEW q \in Nat, p <= q, q <= Len(s)
  PROVE  SameBetween(s, c, p, q)
<1>1. Len(s) \in Nat /\ Len(c) \in Nat /\ Len(s) <= Len(c)
      /\ SubSeq(s, 1, Len(s)) = SubSeq(c, 1, Len(s))
  BY LenProperties DEF IsPrefix
<1> DEFINE k == Len(s)
<1>2. /\ 0 + k <= Len(s) /\ 0 + k <= Len(c) /\ k \in Nat /\ 0 \in Nat /\ 0 + 1 = 1 /\ 0 + k = k
      /\ \A i \in 1 .. k : 0 + i = i
  BY <1>1
<1> HIDE DEF k
<1>3. /\ \A i \in 1 .. k : SubSeq(s, 0 + 1, 0 + k)[i] = s[0 + i]
      /\ \A i \in 1 .. k : SubSeq(c, 0 + 1, 0 + k)[i] = c[0 + i]
  BY <1>2, PartFacts
<1>4. \A i \in 1 .. k : s[i] = c[i]
  BY <1>1, <1>2, <1>3 DEF k
<1>5. PICK n \in Nat : n = q - p /\ p + n = q /\ p + n <= Len(s) /\ p + n <= Len(c)
  <2>1. q - p \in Nat /\ p + (q - p) = q /\ q <= Len(c)
    BY <1>1
  <2> QED BY <2>1
<1> DEFINE x == SubSeq(s, p + 1, p + n)
           y == SubSeq(c, p + 1, p + n)
<1>6. x \in Seq(S) /\ Len(x) = n /\ \A i \in 1 .. n : x[i] = s[p + i]
  BY <1>5, PartFacts
<1>7. y \in Seq(S) /\ Len(y) = n /\ \A i \in 1 .. n : y[i] = c[p + i]
  BY <1>5, PartFacts
<1>8. ASSUME NEW i \in 1 .. n PROVE x[i] = y[i]
  <2>1. p + i \in 1 .. k
    BY <1>5, <1>1 DEF k
  <2> QED BY <1>4, <1>6, <1>7, <2>1
<1>9. x = y
  BY <1>6, <1>7, <1>8, SeqEqual
<1> QED BY <1>5, <1>9 DEF SameBetween

(* The content has as many bytes as the ring.                              *)
LEMMA ContentFacts ==
  ASSUME HeapInv
  PROVE  Content \in Seq(Bytes) /\ Len(Content) = BufferSize(buffer) /\ BufferSize(buffer) \in Nat
<1>1. buffer \in CircularBufferType(Blocks) /\ WellShaped(buffer)
  BY DEF HeapInv, HeapType, EntriesDescribeBlocks
<1>2. EntryData(buffer, Commands, Bytes)
  BY CommandsOfRing
<1>3. /\ FlattenSeq(Commands) \in Seq(Bytes) /\ Len(FlattenSeq(Commands)) = BufferSize(buffer)
      /\ Placed(buffer, Commands, FlattenSeq(Commands))
  BY <1>1, <1>2, LiveFlattened
<1> QED BY <1>1, <1>3, SizeIsNat DEF Content

(* A position the seek command computes is inside the content.             *)
LEMMA SeekInside ==
  ASSUME HeapInv, NEW cmd \in Nat, NEW off \in Nat, SeekToValid(cmd, off)
  PROVE  SeekToOffset(cmd, off) \in Nat /\ SeekToOffset(cmd, off) <= Len(Content)
<1>1. SeekToOffset(cmd, off) \in Nat /\ FindEntry(buffer, SeekToOffset(cmd, off)).slot # NULL
  BY SeekToAgreesAt DEF SeekAgrees
<1>2. buffer \in CircularBufferType(Blocks) /\ WellShaped(buffer)
  BY DEF HeapInv, HeapType, EntriesDescribeBlocks
<1>3. ~(BufferSize(buffer) <= SeekToOffset(cmd, off))
  BY <1>1, <1>2, FindEntryPast
<1> QED BY <1>1, <1>3, ContentFacts

(* What is made of a number is a number.                                   *)
LEMMA ParsedNumbers ==
  ASSUME NEW x \in Nat, NEW y \in Nat
  PROVE  Parsed(x, y).write_cmd \in Nat /\ Parsed(x, y).write_cmd_offset \in Nat
<1>1. ULONG_MAX \in Nat /\ UINT32_MAX \in Nat
  BY DeviceServerAssumption
<1>2. \A n \in Nat : Strtoul(n) \in Nat
  BY <1>1 DEF Strtoul
<1>3. \A n \in Nat : n % (UINT32_MAX + 1) \in Nat
  BY <1>1
<1> QED BY <1>2, <1>3 DEF Parsed, Uint32

(* A number that fits is stored as it is.                                  *)
LEMMA NumberFits ==
  ASSUME NEW x \in Nat, x <= UINT32_MAX
  PROVE  Uint32(x) = x
<1>1. /\ UINT32_MAX \in Nat /\ ULONG_MAX \in Nat /\ UINT32_MAX < ULONG_MAX
  BY DeviceServerAssumption
<1>2. Strtoul(x) = x
  BY <1>1 DEF Strtoul
<1> QED BY <1>1, <1>2 DEF Uint32

-----------------------------------------------------------------------------
(* The handlers of the device build.                                       *)
Labels == {"idle", "recv", "lock", "write", "writing", "written", "seek", "ioctl",
           "read", "reading", "send", "close", "closed"}

ServerType ==
  /\ at \in [Threads -> Labels]
  /\ line \in [Threads -> Seq(Bytes)]
  /\ seekto \in [Threads -> [write_cmd : Nat, write_cmd_offset : Nat]]
  /\ unsent \in [Threads -> Seq(Bytes)]
  /\ sent \in [Threads -> Seq(Bytes)]
  /\ start \in [Threads -> Nat]
  /\ seen = [t \in Threads |-> seen[t]]

(***************************************************************************)
(* Where a handler is and what its thread does in the driver: a handler    *)
(* uses its own file, enters the driver to write and to read, and has sent *)
(* nothing before its reply.                                               *)
(***************************************************************************)
InStep(t) ==
  /\ pc[t] # "user" => file[t] = t /\ at[t] \in {"writing", "reading"}
  /\ at[t] = "writing" => pc[t] \in {"write", "write_copy", "return"}
  /\ at[t] = "reading" => pc[t] \in {"read", "read_copy", "return"}
  /\ pc[t] # "return" => ubuf[t] = << >>
  /\ at[t] # "send" => unsent[t] = << >>
  /\ at[t] \notin {"read", "reading", "send", "close", "closed"} => sent[t] = << >>

(* What the client has been sent and what the last read has brought, and   *)
(* the position after it.                                                  *)
Got(t) ==
  CASE pc[t] = "return" -> sent[t] \o ubuf[t]
    [] pc[t] # "return" /\ at[t] = "send" -> sent[t] \o unsent[t]
    [] pc[t] # "return" /\ at[t] # "send" -> sent[t]

Reached(t) == IF at[t] = "reading" THEN pos[t] ELSE fpos[t]

(* A content that all contents the reply has seen are prefixes of.         *)
Extends(c, t) == \A s \in seen[t] : IsPrefix(s, c)

(***************************************************************************)
(* A reply under way is the part from start to the position reached of     *)
(* every content that those it has seen are prefixes of.                   *)
(***************************************************************************)
Reply(t) ==
  at[t] \in {"read", "reading", "send"} =>
    \A c \in Seq(Bytes) : Extends(c, t) => GotIs(Got(t), c, start[t], Reached(t))

Handler(t) == InStep(t) /\ Reply(t)

DeviceInv == HeapInv /\ ReadInv /\ ServerType /\ \A t \in Threads : Handler(t)

(* Nothing has been connected.                                             *)
LEMMA DeviceInvInit == DeviceInit => DeviceInv
<1> SUFFICES ASSUME DeviceInit PROVE DeviceInv
  OBVIOUS
<1>1. HeapInv /\ ReadInv
  BY HeapInvInit, ReadInvInit DEF DeviceInit
<1>2. << >> \in Seq(Bytes) /\ NoSeek \in [write_cmd : Nat, write_cmd_offset : Nat]
  BY DEF NoSeek
<1>3. ServerType
  BY <1>2 DEF DeviceInit, ServerType, Labels
<1>4. ASSUME NEW t \in Threads PROVE Handler(t)
  <2>1. /\ at[t] = "idle" /\ pc[t] = "user"
        /\ ubuf[t] = << >> /\ unsent[t] = << >> /\ sent[t] = << >>
    BY DEF DeviceInit, Init
  <2> QED BY <2>1 DEF Handler, InStep, Reply
<1> QED BY <1>1, <1>3, <1>4 DEF DeviceInv

(***************************************************************************)
(* What the handlers do to the driver are its own steps, but for the       *)
(* length of a read, the bytes of a write and the numbers of a seek, which *)
(* need not be among those other users give.                               *)
(***************************************************************************)
LEMMA DriverPart ==
  ASSUME DeviceInv, [DeviceNext]_all
  PROVE  \/ [Next]_vars
         \/ \E t \in Threads : \/ EnterRead(t, t, ConnBufSize)
                               \/ EnterWrite(t, t, line[t])
                               \/ \E x, y \in Nat : Ioctl(t, t, x, y)
<1> DEFINE Part == \/ [Next]_vars
                   \/ \E t \in Threads : \/ EnterRead(t, t, ConnBufSize)
                                         \/ EnterWrite(t, t, line[t])
                                         \/ \E x, y \in Nat : Ioctl(t, t, x, y)
<1>1. CASE UNCHANGED all
  BY <1>1 DEF all
<1>2. CASE Load
  BY <1>2 DEF Load, Next
<1>3. ASSUME NEW t \in Threads, Connect(t) \/ Recv(t) \/ LockIo(t) \/ Send(t) \/ InDriver(t) \/ DriverFails(t)
      PROVE  Part
  <2>1. t \in Files
    BY DeviceServerAssumption
  <2>2. CASE UNCHANGED vars
    BY <2>2
  <2>3. CASE Open(t)
    BY <2>1, <2>3 DEF Next
  <2>4. CASE ReadFind(t) \/ ReadCopy(t) \/ WriteAlloc(t) \/ WriteCommit(t) \/ WriteNoMem(t)
    BY <2>4 DEF Next, ReadStep, WriteStep
  <2>5. CASE LockInterrupted(t)
    BY <2>5 DEF Next
  <2> QED BY <1>3, <2>2, <2>3, <2>4, <2>5 DEF Connect, Recv, LockIo, Send, InDriver, DriverFails
<1>4. ASSUME NEW t \in Threads, OutsideDriver(t) PROVE Part
  <2>1. t \in Files
    BY DeviceServerAssumption
  <2>2. CASE CallWrite(t) \/ UnlockIo(t) \/ CallRead(t) \/ Finish(t)
    BY <2>2 DEF CallWrite, UnlockIo, CallRead, Finish
  <2>3. CASE Rewind(t)
    <3>1. 0 \in -MaxSeek .. MaxSeek
      BY AesdCharAssumption
    <3>2. Llseek(t, t, 0, "SEEK_SET") => Next
      BY <2>1, <3>1 DEF Next, SeekStep
    <3> QED BY <2>3, <3>2 DEF Rewind
  <2>4. CASE SeekTo(t)
    <3> DEFINE p == Parsed(seekto[t].write_cmd, seekto[t].write_cmd_offset)
    <3>1. p.write_cmd \in Nat /\ p.write_cmd_offset \in Nat
      BY ParsedNumbers DEF DeviceInv, ServerType
    <3>2. UNCHANGED vars \/ Ioctl(t, t, p.write_cmd, p.write_cmd_offset)
      BY <2>4 DEF SeekTo
    <3> HIDE DEF p
    <3> QED BY <3>1, <3>2
  <2>5. CASE DriverReturns(t)
    BY <2>5 DEF DriverReturns, Next
  <2>6. CASE Close(t)
    BY <2>1, <2>6 DEF Close, Next
  <2> QED BY <1>4, <2>2, <2>3, <2>4, <2>5, <2>6 DEF OutsideDriver
<1> QED BY <1>1, <1>2, <1>3, <1>4 DEF DeviceNext

(* The driver's invariants survive what the handlers do to it.             *)
LEMMA DriverInvsNext ==
  ASSUME DeviceInv, [DeviceNext]_all
  PROVE  HeapInv' /\ ReadInv'
<1>1. HeapInv /\ ReadInv /\ ServerType
  BY DEF DeviceInv
<1>2. CASE [Next]_vars
  BY <1>1, <1>2, HeapInvNext, ReadInvNext
<1>3. ASSUME NEW t \in Threads, NEW h \in {"read", "write"},
             NEW r \in [count : Nat, bytes : Seq(Bytes)], Enter(t, t, h, r)
      PROVE  HeapInv' /\ ReadInv'
  <2>1. t \in Files
    BY DeviceServerAssumption
  <2> QED BY <1>1, <1>3, <2>1, EnterKeeps, EnterReads
<1>4. ASSUME NEW t \in Threads, EnterRead(t, t, ConnBufSize) \/ EnterWrite(t, t, line[t])
      PROVE  HeapInv' /\ ReadInv'
  <2>1. << >> \in Seq(Bytes) /\ line[t] \in Seq(Bytes) /\ ConnBufSize \in Nat
    BY <1>1, DeviceServerAssumption DEF ServerType
  <2>2. /\ [NoReq EXCEPT !.count = ConnBufSize] \in [count : Nat, bytes : Seq(Bytes)]
        /\ [NoReq EXCEPT !.bytes = line[t]] \in [count : Nat, bytes : Seq(Bytes)]
    BY <2>1 DEF NoReq
  <2> QED BY <1>3, <1>4, <2>2 DEF EnterRead, EnterWrite
<1>5. ASSUME NEW t \in Threads, NEW x \in Nat, NEW y \in Nat, Ioctl(t, t, x, y)
      PROVE  HeapInv' /\ ReadInv'
  <2>1. SeekToOffset(x, y) \in Nat
    BY <1>1, <1>5, SeekInside DEF Ioctl
  <2>2. /\ UNCHANGED <<mod, dev, open, call>>
        /\ fpos' = [fpos EXCEPT ![t] = SeekToOffset(x, y)]
    BY <1>5 DEF Ioctl
  <2>3. HeapInv'
    BY <1>1, <2>2, OutsideStep
  <2>4. CallType'
    BY <1>1, <2>1, <2>2 DEF ReadInv, CallType, mod, call, Positions
  <2> QED BY <1>1, <2>2, <2>3, <2>4, OutsideReads DEF dev
<1> QED BY <1>2, <1>4, <1>5, DriverPart

-----------------------------------------------------------------------------
(* What a step of another handler's thread leaves alone.                   *)
OwnPart(u) ==
  /\ pc'[u] = pc[u] /\ file'[u] = file[u] /\ pos'[u] = pos[u]
  /\ ubuf'[u] = ubuf[u] /\ fpos'[u] = fpos[u]

Aside(u) ==
  /\ OwnPart(u)
  /\ at'[u] = at[u] /\ unsent'[u] = unsent[u] /\ sent'[u] = sent[u] /\ start'[u] = start[u]
  /\ seen[u] \subseteq seen'[u]

(* A handler that stands aside sees at most more contents.                 *)
LEMMA AsideKeeps ==
  ASSUME NEW u \in Threads, Handler(u), Aside(u)
  PROVE  Handler(u)'
<1>1. InStep(u)'
  BY DEF Handler, InStep, Aside, OwnPart
<1>2. Got(u)' = Got(u) /\ Reached(u)' = Reached(u)
  BY DEF Got, Reached, Aside, OwnPart
<1>3. \A c : Extends(c, u)' => Extends(c, u)
  BY DEF Extends, Aside
<1>4. Reply(u)'
  <2> SUFFICES ASSUME at[u] \in {"read", "reading", "send"}, NEW c \in Seq(Bytes), Extends(c, u)'
               PROVE  GotIs(Got(u)', c, start[u], Reached(u)')
    BY DEF Reply, Aside
  <2> QED BY <1>2, <1>3 DEF Handler, Reply
<1> QED BY <1>1, <1>4 DEF Handler

(* The driver's steps of thread t, on its file.                            *)
DriverStep(t) ==
  \/ UNCHANGED vars
  \/ Open(t) \/ Release(t)
  \/ \E off, whence : Llseek(t, t, off, whence)
  \/ \E x, y : Ioctl(t, t, x, y)
  \/ \E h, r : Enter(t, t, h, r)
  \/ ReadFind(t) \/ ReadCopy(t) \/ WriteAlloc(t) \/ WriteCommit(t)
  \/ LockInterrupted(t) \/ WriteNoMem(t) \/ Return(t)

(* Files and threads go in pairs, so t moves no other thread's file.       *)
LEMMA DriverFrame ==
  ASSUME DeviceInv, NEW t \in Threads, NEW u \in Threads, u # t, DriverStep(t)
  PROVE  OwnPart(u)
<1>1. t \in Files /\ u \in Files
  BY DeviceServerAssumption
<1>2. CASE UNCHANGED vars
  BY <1>2 DEF vars, vfs, call, OwnPart
<1>3. CASE \/ Open(t) \/ Release(t)
           \/ \E off, whence : Llseek(t, t, off, whence)
           \/ \E x, y : Ioctl(t, t, x, y)
  <2>1. UNCHANGED call /\ \E p : fpos' = [fpos EXCEPT ![t] = p]
    BY <1>3 DEF Open, Release, Llseek, Ioctl
  <2> QED BY <1>1, <2>1 DEF call, OwnPart, DeviceInv, ReadInv, CallType
<1>4. ASSUME Leave(t), \E p : fpos' = fpos \/ fpos' = [fpos EXCEPT ![t] = p]
      PROVE  OwnPart(u)
  BY <1>1, <1>4 DEF Leave, OwnPart, DeviceInv, ReadInv, CallType, HeapInv, HeapType
<1>5. CASE Return(t)
  <2>1. file[t] = t
    BY <1>5 DEF Return, DeviceInv, Handler, InStep
  <2> QED BY <1>4, <1>5, <2>1 DEF Return
<1>6. CASE LockInterrupted(t) \/ WriteNoMem(t)
  BY <1>4, <1>6 DEF LockInterrupted, WriteNoMem, vfs
<1>7. CASE \E h, r : Enter(t, t, h, r)
  <2>1. PICK h, r : Enter(t, t, h, r)
    BY <1>7
  <2>2. /\ pc' = [pc EXCEPT ![t] = h] /\ file' = [file EXCEPT ![t] = t]
        /\ pos' = [pos EXCEPT ![t] = fpos[t]] /\ UNCHANGED <<ubuf, fpos>>
    BY <2>1 DEF Enter, vfs
  <2> QED BY <2>2 DEF OwnPart, DeviceInv, ReadInv, CallType, HeapInv, HeapType
<1>8. CASE ReadFind(t) \/ ReadCopy(t) \/ WriteAlloc(t) \/ WriteCommit(t)
  <2>1. /\ \E p : pc' = [pc EXCEPT ![t] = p]
        /\ \E p : pos' = pos \/ pos' = [pos EXCEPT ![t] = p]
        /\ \E b : ubuf' = ubuf \/ ubuf' = [ubuf EXCEPT ![t] = b]
        /\ UNCHANGED <<file, fpos>>
    <3>1. CASE ReadFind(t)
      BY <3>1 DEF ReadFind, vfs
    <3>2. CASE ReadCopy(t)
      BY <3>2 DEF ReadCopy, vfs
    <3>3. CASE WriteAlloc(t)
      BY <3>3 DEF WriteAlloc, vfs
    <3>4. CASE WriteCommit(t)
      BY <3>4 DEF WriteCommit, vfs
    <3> QED BY <1>8, <3>1, <3>2, <3>3, <3>4
  <2> QED BY <2>1 DEF OwnPart, DeviceInv, ReadInv, CallType, HeapInv, HeapType
<1> QED BY <1>2, <1>3, <1>5, <1>6, <1>7, <1>8 DEF DriverStep

(***************************************************************************)
(* The step of one handler: the driver's part, its own variables, and the  *)
(* others' contents seen.                                                  *)
(***************************************************************************)
HandlerStep(t) ==
  /\ DriverStep(t)
  /\ \E p \in Labels : at' = [at EXCEPT ![t] = p]
  /\ \E s \in Seq(Bytes) : unsent' = [unsent EXCEPT ![t] = s]
  /\ \E s \in Seq(Bytes) : sent' = [sent EXCEPT ![t] = s]
  /\ \E n \in Nat : start' = [start EXCEPT ![t] = n]
  /\ seen' = [u \in Threads |-> seen'[u]]
  /\ \A u \in Threads \ {t} : seen[u] \subseteq seen'[u]
  /\ \E c \in Seq(Bytes) : line' = [line EXCEPT ![t] = c]
  /\ \E x, y \in Nat :
       seekto' = [seekto EXCEPT ![t] = [write_cmd |-> x, write_cmd_offset |-> y]]

(* The other handlers keep their part of the invariant.                    *)
LEMMA HandlerStepFrame ==
  ASSUME DeviceInv, NEW t \in Threads, HandlerStep(t)
  PROVE  ServerType' /\ \A u \in Threads \ {t} : Handler(u)'
<1>1. ServerType
  BY DEF DeviceInv
<1>2. at' \in [Threads -> Labels]
  BY <1>1 DEF HandlerStep, ServerType
<1>3. /\ unsent' \in [Threads -> Seq(Bytes)] /\ sent' \in [Threads -> Seq(Bytes)]
      /\ line' \in [Threads -> Seq(Bytes)]
  BY <1>1 DEF HandlerStep, ServerType
<1>4. start' \in [Threads -> Nat]
  BY <1>1 DEF HandlerStep, ServerType
<1>5. seekto' \in [Threads -> [write_cmd : Nat, write_cmd_offset : Nat]]
  BY <1>1 DEF HandlerStep, ServerType
<1>6. ServerType'
  BY <1>2, <1>3, <1>4, <1>5 DEF HandlerStep, ServerType
<1>7. ASSUME NEW u \in Threads \ {t} PROVE Handler(u)'
  <2>1. OwnPart(u)
    BY DriverFrame DEF HandlerStep
  <2>2. at'[u] = at[u] /\ unsent'[u] = unsent[u] /\ sent'[u] = sent[u] /\ start'[u] = start[u]
    BY <1>1 DEF HandlerStep, ServerType
  <2>3. Aside(u)
    BY <2>1, <2>2 DEF Aside, HandlerStep
  <2> QED BY <2>3, AsideKeeps DEF DeviceInv
<1> QED BY <1>6, <1>7

(* Variables that stay change at t in no way.                              *)
LEMMA Kept ==
  ASSUME ServerType, NEW t \in Threads
  PROVE  /\ unsent' = unsent => \E s \in Seq(Bytes) : unsent' = [unsent EXCEPT ![t] = s]
         /\ sent' = sent => \E s \in Seq(Bytes) : sent' = [sent EXCEPT ![t] = s]
         /\ start' = start => \E n \in Nat : start' = [start EXCEPT ![t] = n]
         /\ line' = line => \E c \in Seq(Bytes) : line' = [line EXCEPT ![t] = c]
         /\ seekto' \in {seekto, [seekto EXCEPT ![t] = NoSeek]} =>
              \E x, y \in Nat :
                seekto' = [seekto EXCEPT ![t] = [write_cmd |-> x, write_cmd_offset |-> y]]
         /\ seen' = seen => /\ seen' = [u \in Threads |-> seen'[u]]
                            /\ \A u \in Threads : seen[u] \subseteq seen'[u]
<1>1. /\ unsent[t] \in Seq(Bytes) /\ unsent = [unsent EXCEPT ![t] = unsent[t]]
      /\ sent[t] \in Seq(Bytes) /\ sent = [sent EXCEPT ![t] = sent[t]]
      /\ line[t] \in Seq(Bytes) /\ line = [line EXCEPT ![t] = line[t]]
      /\ start[t] \in Nat /\ start = [start EXCEPT ![t] = start[t]]
  BY DEF ServerType
<1>2. PICK x \in Nat, y \in Nat : seekto[t] = [write_cmd |-> x, write_cmd_offset |-> y]
  BY DEF ServerType
<1>3. /\ seekto = [seekto EXCEPT ![t] = [write_cmd |-> x, write_cmd_offset |-> y]]
      /\ NoSeek = [write_cmd |-> 0, write_cmd_offset |-> 0] /\ 0 \in Nat
  BY <1>2 DEF ServerType, NoSeek
<1>4. seen' = seen => /\ seen' = [u \in Threads |-> seen'[u]]
                      /\ \A u \in Threads : seen[u] \subseteq seen'[u]
  BY DEF ServerType
<1> QED BY <1>1, <1>3, <1>4

(* A handler outside the driver, before or after its reply.                *)
LEMMA OutOfDriver ==
  ASSUME NEW t \in Threads, pc'[t] = "user", ubuf'[t] = << >>,
         at'[t] \notin {"writing", "reading", "read", "send"}, unsent'[t] = << >>,
         at'[t] \in {"close", "closed"} \/ sent'[t] = << >>
  PROVE  Handler(t)'
BY DEF Handler, InStep, Reply

(* A handler that is not waiting for a call is not in the driver.          *)
LEMMA AtUser ==
  ASSUME DeviceInv, NEW t \in Threads, at[t] \notin {"writing", "reading"}
  PROVE  pc[t] = "user" /\ ubuf[t] = << >>
BY DEF DeviceInv, Handler, InStep

(* Where a handler goes.                                                   *)
LEMMA Went ==
  ASSUME ServerType, NEW t \in Threads, NEW p \in Labels, Goto(t, p)
  PROVE  at'[t] = p /\ \E q \in Labels : at' = [at EXCEPT ![t] = q]
BY DEF Goto, ServerType

(* The device is opened for a connection.                                  *)
LEMMA ConnectKeeps ==
  ASSUME DeviceInv, NEW t \in Threads, Connect(t)
  PROVE  HandlerStep(t) /\ Handler(t)'
<1>1. at[t] = "idle" /\ UNCHANGED <<line, seekto, unsent, sent, start, seen>>
  BY DEF Connect
<1>2. PICK p \in {"recv", "closed"} : Goto(t, p)
  BY DEF Connect, Fail
<1>3. DriverStep(t) /\ UNCHANGED <<pc, ubuf>>
  BY DEF Connect, DriverStep, Open, vars, call
<1>4. pc[t] = "user" /\ ubuf[t] = << >> /\ unsent[t] = << >> /\ sent[t] = << >>
  BY <1>1, AtUser DEF DeviceInv, Handler, InStep
<1>5. at'[t] = p /\ \E q \in Labels : at' = [at EXCEPT ![t] = q]
  BY <1>2, Went DEF DeviceInv, Labels
<1>6. HandlerStep(t)
  BY <1>1, <1>3, <1>5, Kept DEF HandlerStep, DeviceInv
<1>7. Handler(t)'
  BY <1>1, <1>3, <1>4, <1>5, OutOfDriver
<1> QED BY <1>6, <1>7

(* A line or a seek command arrives, or nothing.                           *)
LEMMA RecvKeeps ==
  ASSUME DeviceInv, NEW t \in Threads, Recv(t)
  PROVE  HandlerStep(t) /\ Handler(t)'
<1>1. at[t] = "recv" /\ UNCHANGED <<vars, unsent, sent, start, seen>> /\ ServerType
  BY DEF Recv, DeviceInv
<1>2. PICK p \in {"lock", "ioctl", "close"} : Goto(t, p)
  BY DEF Recv, Fail
<1>3. \E c \in Seq(Bytes) : line' = [line EXCEPT ![t] = c]
  <2>1. line' = line \/ \E c \in Chunks : line' = [line EXCEPT ![t] = c]
    BY DEF Recv
  <2> QED BY <1>1, <2>1, Kept, AesdCharAssumption
<1>4. \E x, y \in Nat :
        seekto' = [seekto EXCEPT ![t] = [write_cmd |-> x, write_cmd_offset |-> y]]
  <2>1. \/ seekto' = seekto
        \/ \E x, y \in SeekArgs :
             seekto' = [seekto EXCEPT ![t] = [write_cmd |-> x, write_cmd_offset |-> y]]
    BY DEF Recv
  <2>2. SeekArgs \subseteq Nat
    BY DeviceServerAssumption
  <2> QED BY <1>1, <2>1, <2>2, Kept
<1>5. pc[t] = "user" /\ ubuf[t] = << >> /\ unsent[t] = << >> /\ sent[t] = << >>
  BY <1>1, AtUser DEF DeviceInv, Handler, InStep
<1>6. at'[t] = p /\ \E q \in Labels : at' = [at EXCEPT ![t] = q]
  BY <1>1, <1>2, Went DEF Labels
<1>7. HandlerStep(t)
  BY <1>1, <1>3, <1>4, <1>6, Kept DEF HandlerStep, DriverStep
<1>8. Handler(t)'
  BY <1>1, <1>5, <1>6, OutOfDriver DEF vars, call
<1> QED BY <1>7, <1>8

(* io_mutex is taken and given back.                                       *)
LEMMA IoMutexKeeps ==
  ASSUME DeviceInv, NEW t \in Threads, LockIo(t) \/ UnlockIo(t)
  PROVE  HandlerStep(t) /\ Handler(t)'
<1>1. /\ at[t] \in {"lock", "written"} /\ ServerType
      /\ UNCHANGED <<vars, line, seekto, unsent, sent, start, seen>>
  BY DEF LockIo, UnlockIo, DeviceInv
<1>2. PICK p \in {"write", "close", "seek"} : Goto(t, p)
  BY DEF LockIo, UnlockIo
<1>3. pc[t] = "user" /\ ubuf[t] = << >> /\ unsent[t] = << >> /\ sent[t] = << >>
  BY <1>1, AtUser DEF DeviceInv, Handler, InStep
<1>4. at'[t] = p /\ \E q \in Labels : at' = [at EXCEPT ![t] = q]
  BY <1>1, <1>2, Went DEF Labels
<1>5. HandlerStep(t)
  BY <1>1, <1>4, Kept DEF HandlerStep, DriverStep
<1>6. Handler(t)'
  BY <1>1, <1>3, <1>4, OutOfDriver DEF vars, call
<1> QED BY <1>5, <1>6

(* The write of the line begins.                                           *)
LEMMA CallWriteKeeps ==
  ASSUME DeviceInv, NEW t \in Threads, CallWrite(t)
  PROVE  HandlerStep(t) /\ Handler(t)'
<1>1. /\ at[t] = "write" /\ Goto(t, "writing") /\ ServerType
      /\ UNCHANGED <<line, seekto, unsent, sent, start, seen>>
  BY DEF CallWrite, DeviceInv
<1>2. PICK r : Enter(t, t, "write", r)
  BY DEF CallWrite, EnterWrite
<1>3. pc[t] = "user" /\ ubuf[t] = << >> /\ unsent[t] = << >> /\ sent[t] = << >>
  BY <1>1, AtUser DEF DeviceInv, Handler, InStep
<1>4. at'[t] = "writing" /\ \E q \in Labels : at' = [at EXCEPT ![t] = q]
  BY <1>1, Went DEF Labels
<1>5. pc'[t] = "write" /\ file'[t] = t /\ ubuf'[t] = << >>
  BY <1>2, <1>3 DEF Enter, DeviceInv, HeapInv, HeapType
<1>6. HandlerStep(t)
  BY <1>1, <1>2, <1>4, Kept DEF HandlerStep, DriverStep
<1>7. Handler(t)'
  BY <1>1, <1>3, <1>4, <1>5 DEF Handler, InStep, Reply
<1> QED BY <1>6, <1>7

(* The reply begins at a position inside the content, with nothing sent.   *)
LEMMA BeginReplyKeeps ==
  ASSUME DeviceInv, NEW t \in Threads, NEW p \in Nat, p <= Len(Content),
         pc[t] = "user", ubuf[t] = << >>, unsent[t] = << >>, sent[t] = << >>,
         fpos'[t] = p, UNCHANGED <<call, unsent, sent, line>>,
         seekto' \in {seekto, [seekto EXCEPT ![t] = NoSeek]}, DriverStep(t), BeginReply(t)
  PROVE  HandlerStep(t) /\ Handler(t)'
<1>1. /\ ServerType /\ start' = [start EXCEPT ![t] = p]
      /\ seen' = [seen EXCEPT ![t] = {Content}] /\ Goto(t, "read")
  BY DEF BeginReply, DeviceInv
<1>2. at'[t] = "read" /\ \E q \in Labels : at' = [at EXCEPT ![t] = q]
  BY <1>1, Went DEF Labels
<1>3. start'[t] = p /\ seen'[t] = {Content}
  BY <1>1 DEF ServerType
<1>4. HandlerStep(t)
  <2>1. seen' = [u \in Threads |-> seen'[u]] /\ \A u \in Threads \ {t} : seen[u] \subseteq seen'[u]
    BY <1>1 DEF ServerType
  <2> QED BY <1>1, <1>2, <2>1, Kept DEF HandlerStep
<1>5. pc'[t] = "user" /\ ubuf'[t] = << >> /\ unsent'[t] = << >> /\ sent'[t] = << >>
  BY DEF call
<1>6. ASSUME NEW c \in Seq(Bytes), Extends(c, t)'
      PROVE  GotIs(<< >>, c, p, p)
  <2>1. IsPrefix(Content, c)
    BY <1>3, <1>6 DEF Extends
  <2>2. Len(Content) <= Len(c) /\ Len(Content) \in Nat /\ Len(c) \in Nat
    BY <2>1, ContentFacts, LenProperties DEF IsPrefix, DeviceInv
  <2>3. p <= Len(c) /\ p - p = 0 /\ Len(<< >>) = 0
    BY <2>2
  <2> QED BY <2>3 DEF GotIs
<1>7. Handler(t)'
  <2>1. Got(t)' = << >> /\ Reached(t)' = p
    BY <1>2, <1>5 DEF Got, Reached
  <2>2. Reply(t)'
    BY <1>3, <1>6, <2>1 DEF Reply
  <2> QED BY <1>2, <1>5, <2>2 DEF Handler, InStep
<1> QED BY <1>4, <1>7

(* lseek or the seek command sets the position, or the connection fails.   *)
LEMMA SeekingKeeps ==
  ASSUME DeviceInv, NEW t \in Threads, Rewind(t) \/ SeekTo(t)
  PROVE  HandlerStep(t) /\ Handler(t)'
<1>1. /\ at[t] \in {"seek", "ioctl"} /\ ServerType /\ HeapInv /\ ReadInv
      /\ UNCHANGED <<line, unsent, sent>>
      /\ seekto' \in {seekto, [seekto EXCEPT ![t] = NoSeek]}
  BY DEF Rewind, SeekTo, DeviceInv
<1>2. pc[t] = "user" /\ ubuf[t] = << >> /\ unsent[t] = << >> /\ sent[t] = << >>
  BY <1>1, AtUser DEF DeviceInv, Handler, InStep
<1>3. t \in Files /\ fpos = [f \in Files |-> fpos[f]]
  BY <1>1, DeviceServerAssumption DEF ReadInv, CallType
<1>4. CASE Goto(t, "close") /\ UNCHANGED <<vars, start, seen>>
  <2>1. at'[t] = "close" /\ \E q \in Labels : at' = [at EXCEPT ![t] = q]
    BY <1>1, <1>4, Went DEF Labels
  <2>2. /\ \E s \in Seq(Bytes) : unsent' = [unsent EXCEPT ![t] = s]
        /\ \E s \in Seq(Bytes) : sent' = [sent EXCEPT ![t] = s]
        /\ \E n \in Nat : start' = [start EXCEPT ![t] = n]
        /\ \E c \in Seq(Bytes) : line' = [line EXCEPT ![t] = c]
        /\ seen' = [u \in Threads |-> seen'[u]] /\ \A u \in Threads : seen[u] \subseteq seen'[u]
    BY <1>1, <1>4, Kept
  <2>3. \E x, y \in Nat :
          seekto' = [seekto EXCEPT ![t] = [write_cmd |-> x, write_cmd_offset |-> y]]
    BY <1>1, Kept
  <2>4. HandlerStep(t)
    BY <1>4, <2>1, <2>2, <2>3 DEF HandlerStep, DriverStep
  <2>5. Handler(t)'
    BY <1>1, <1>2, <1>4, <2>1, OutOfDriver DEF vars, call
  <2> QED BY <2>4, <2>5
<1>5. CASE Llseek(t, t, 0, "SEEK_SET") /\ BeginReply(t)
  <2>1. UNCHANGED call /\ fpos' = [fpos EXCEPT ![t] = 0]
    BY <1>5 DEF Llseek, SeekTarget
  <2>2. fpos'[t] = 0
    BY <1>3, <2>1
  <2>3. 0 \in Nat /\ 0 <= Len(Content)
    BY <1>1, ContentFacts
  <2>4. DriverStep(t)
    BY <1>5 DEF DriverStep
  <2> QED BY <1>1, <1>2, <1>5, <2>1, <2>2, <2>3, <2>4, BeginReplyKeeps
<1>6. ASSUME NEW x \in Nat, NEW y \in Nat, Ioctl(t, t, x, y), BeginReply(t)
      PROVE  HandlerStep(t) /\ Handler(t)'
  <2>1. /\ UNCHANGED call /\ fpos' = [fpos EXCEPT ![t] = SeekToOffset(x, y)]
        /\ SeekToValid(x, y)
    BY <1>6 DEF Ioctl
  <2>2. fpos'[t] = SeekToOffset(x, y)
    BY <1>3, <2>1
  <2>3. SeekToOffset(x, y) \in Nat /\ SeekToOffset(x, y) <= Len(Content)
    BY <1>1, <2>1, SeekInside
  <2>4. DriverStep(t)
    BY <1>6 DEF DriverStep
  <2> QED BY <1>1, <1>2, <1>6, <2>1, <2>2, <2>3, <2>4, BeginReplyKeeps
<1>7. CASE SeekTo(t)
  <2> DEFINE p == Parsed(seekto[t].write_cmd, seekto[t].write_cmd_offset)
  <2>1. p.write_cmd \in Nat /\ p.write_cmd_offset \in Nat
    BY <1>1, ParsedNumbers DEF ServerType
  <2>2. \/ Ioctl(t, t, p.write_cmd, p.write_cmd_offset) /\ BeginReply(t)
        \/ Goto(t, "close") /\ UNCHANGED <<vars, start, seen>>
    BY <1>7 DEF SeekTo, Fail
  <2> HIDE DEF p
  <2> QED BY <1>4, <1>6, <2>1, <2>2
<1>8. CASE Rewind(t)
  <2>1. \/ Llseek(t, t, 0, "SEEK_SET") /\ BeginReply(t)
        \/ Goto(t, "close") /\ UNCHANGED <<vars, start, seen>>
    BY <1>8 DEF Rewind, Fail
  <2> QED BY <1>4, <1>5, <2>1
<1> QED BY <1>7, <1>8

(* A read of the reply begins.                                             *)
LEMMA CallReadKeeps ==
  ASSUME DeviceInv, NEW t \in Threads, CallRead(t)
  PROVE  HandlerStep(t) /\ Handler(t)'
<1>1. /\ at[t] = "read" /\ Goto(t, "reading") /\ ServerType /\ Handler(t)
      /\ UNCHANGED <<line, seekto, unsent, sent, start, seen>>
  BY DEF CallRead, DeviceInv
<1>2. PICK r : Enter(t, t, "read", r)
  BY DEF CallRead, EnterRead
<1>3. pc[t] = "user" /\ ubuf[t] = << >> /\ unsent[t] = << >>
  BY <1>1, AtUser DEF Handler, InStep
<1>4. at'[t] = "reading" /\ \E q \in Labels : at' = [at EXCEPT ![t] = q]
  BY <1>1, Went DEF Labels
<1>5. pc'[t] = "read" /\ file'[t] = t /\ ubuf'[t] = << >> /\ pos'[t] = fpos[t]
  BY <1>2, <1>3 DEF Enter, DeviceInv, HeapInv, HeapType, ReadInv, CallType
<1>6. HandlerStep(t)
  BY <1>1, <1>2, <1>4, Kept DEF HandlerStep, DriverStep
<1>7. Got(t)' = Got(t) /\ Reached(t)' = Reached(t)
  BY <1>1, <1>3, <1>4, <1>5 DEF Got, Reached
<1>8. Reply(t)'
  BY <1>1, <1>7 DEF Handler, Reply, Extends
<1> QED BY <1>1, <1>4, <1>5, <1>6, <1>8 DEF Handler, InStep

(* The handler's write inside the driver.                                  *)
LEMMA WritingKeeps ==
  ASSUME DeviceInv, NEW t \in Threads, WriteAlloc(t) \/ WriteCommit(t), UNCHANGED <<at, unsent, sent>>
  PROVE  Handler(t)'
<1>1. pc[t] \in {"write", "write_copy"} /\ UNCHANGED <<file, ubuf>>
  BY DEF WriteAlloc, WriteCommit
<1>2. pc'[t] \in {"write_copy", "return"}
  BY DEF WriteAlloc, WriteCommit, DeviceInv, HeapInv, HeapType
<1>3. /\ at[t] = "writing" /\ file[t] = t
      /\ ubuf[t] = << >> /\ unsent[t] = << >> /\ sent[t] = << >>
  BY <1>1 DEF DeviceInv, Handler, InStep
<1> QED BY <1>1, <1>2, <1>3 DEF Handler, InStep, Reply

(* The search of the handler's read.                                       *)
LEMMA FindingKeeps ==
  ASSUME DeviceInv, NEW t \in Threads, ReadFind(t), UNCHANGED <<at, unsent, sent, start>>,
         seen[t] \subseteq seen'[t]
  PROVE  Handler(t)'
<1>1. pc[t] = "read" /\ UNCHANGED <<file, ubuf, pos>>
  BY DEF ReadFind
<1>2. pc'[t] \in {"read_copy", "return"}
  BY DEF ReadFind, DeviceInv, HeapInv, HeapType
<1>3. at[t] = "reading" /\ file[t] = t /\ ubuf[t] = << >> /\ unsent[t] = << >> /\ Handler(t)
  BY <1>1 DEF DeviceInv, Handler, InStep
<1>4. sent[t] \o << >> = sent[t]
  BY ConcatEmptySeq DEF DeviceInv, ServerType
<1>5. Got(t)' = Got(t) /\ Reached(t)' = Reached(t)
  BY <1>1, <1>2, <1>3, <1>4 DEF Got, Reached
<1>6. \A c : Extends(c, t)' => Extends(c, t)
  BY DEF Extends
<1>7. Reply(t)'
  BY <1>3, <1>5, <1>6 DEF Handler, Reply
<1>8. InStep(t)'
  BY <1>1, <1>2, <1>3 DEF InStep
<1> QED BY <1>7, <1>8 DEF Handler

(***************************************************************************)
(* What copy_to_user delivers is the next part of the content, and of      *)
(* every content it is a prefix of.                                        *)
(***************************************************************************)
LEMMA CopyingKeeps ==
  ASSUME DeviceInv, NEW t \in Threads, ReadCopy(t), UNCHANGED <<at, unsent, sent, start>>,
         seen[t] \subseteq seen'[t], at[t] = "reading" => Content' \in seen'[t]
  PROVE  Handler(t)'
<1>1. /\ pc[t] = "read_copy" /\ UNCHANGED <<file, buffer, wip, content>>
  BY DEF ReadCopy
<1>2. pc'[t] = "return"
  BY DEF ReadCopy, DeviceInv, HeapInv, HeapType
<1>3. /\ at[t] = "reading" /\ file[t] = t /\ unsent[t] = << >> /\ Handler(t) /\ HeapInv /\ ReadInv /\ ServerType
  BY <1>1 DEF DeviceInv, Handler, InStep
<1>4. Content' = Content
  BY <1>1, SameView DEF Content
<1>5. /\ pos'[t] <= Len(Content)
      /\ ubuf'[t] = SubSeq(Content, pos[t] + 1, pos'[t])
  BY <1>3, ReadCopyAtPosition DEF Content
<1>6. pos[t] \in Nat /\ pos'[t] \in Nat /\ pos[t] <= pos'[t]
  <2>1. pos[t] \in Nat /\ loc[t].count \in Nat
    BY <1>1, <1>3 DEF ReadInv, CallType, Reader, Locs
  <2>2. pos'[t] = pos[t] + loc[t].count
    BY <1>3 DEF ReadCopy, ReadInv, CallType
  <2> QED BY <2>1, <2>2
<1>7. ASSUME NEW c \in Seq(Bytes), Extends(c, t)'
      PROVE  GotIs(sent[t] \o ubuf'[t], c, start[t], pos'[t])
  <2>1. IsPrefix(Content, c) /\ Extends(c, t)
    BY <1>3, <1>4, <1>7 DEF Extends
  <2>2. GotIs(sent[t], c, start[t], pos[t])
    BY <1>1, <1>3, <2>1 DEF Handler, Reply, Got, Reached
  <2>3. Content \in Seq(Bytes)
    BY <1>3, ContentFacts
  <2>4. pos'[t] <= Len(c) /\ ubuf'[t] = SubSeq(c, pos[t] + 1, pos'[t])
    <3>1. PICK p \in Nat, q \in Nat : p = pos[t] /\ q = pos'[t] /\ p <= q /\ q <= Len(Content)
      BY <1>5, <1>6
    <3>2. SameBetween(Content, c, p, q)
      BY <2>1, <2>3, <3>1, PrefixPart
    <3> QED BY <1>5, <3>1, <3>2 DEF SameBetween
  <2>5. sent[t] \in Seq(Bytes) /\ start[t] \in Nat
    BY <1>3 DEF ServerType
  <2> QED BY <1>6, <2>2, <2>4, <2>5, GotMore
<1>8. Got(t)' = sent[t] \o ubuf'[t] /\ Reached(t)' = pos'[t]
  BY <1>2, <1>3 DEF Got, Reached
<1>9. Reply(t)'
  BY <1>7, <1>8 DEF Reply
<1>10. InStep(t)'
  BY <1>1, <1>2, <1>3 DEF InStep
<1> QED BY <1>9, <1>10 DEF Handler

(* The driver works on a handler's call.                                   *)
LEMMA InDriverKeeps ==
  ASSUME DeviceInv, NEW t \in Threads, InDriver(t)
  PROVE  HandlerStep(t) /\ Handler(t)'
<1>1. /\ ServerType /\ UNCHANGED <<at, line, seekto, unsent, sent, start>>
      /\ seen' = [u \in Threads |->
                    IF at[u] \in {"read", "reading", "send"} THEN seen[u] \cup {Content'} ELSE seen[u]]
      /\ ReadFind(t) \/ ReadCopy(t) \/ WriteAlloc(t) \/ WriteCommit(t)
  BY DEF InDriver, DeviceInv
<1>2. /\ seen' = [u \in Threads |-> seen'[u]]
      /\ \A u \in Threads : seen[u] \subseteq seen'[u]
      /\ at[t] = "reading" => Content' \in seen'[t]
  BY <1>1
<1>3. \E q \in Labels : at' = [at EXCEPT ![t] = q]
  <2>1. at[t] \in Labels /\ at' = [at EXCEPT ![t] = at[t]]
    BY <1>1 DEF ServerType
  <2> QED BY <2>1
<1>4. DriverStep(t)
  BY <1>1 DEF DriverStep
<1>5. HandlerStep(t)
  BY <1>1, <1>2, <1>3, <1>4, Kept DEF HandlerStep
<1>6. Handler(t)'
  BY <1>1, <1>2, WritingKeeps, FindingKeeps, CopyingKeeps
<1> QED BY <1>5, <1>6

(* The driver's call returns.                                              *)
LEMMA DriverReturnsKeeps ==
  ASSUME DeviceInv, NEW t \in Threads, DriverReturns(t)
  PROVE  HandlerStep(t) /\ Handler(t)'
<1>1. /\ ServerType /\ HeapInv /\ ReadInv /\ Handler(t) /\ pc[t] = "return" /\ file[t] = t
      /\ t \in Files
      /\ Return(t) /\ UNCHANGED <<line, seekto, sent, start, seen>>
  BY DeviceServerAssumption DEF DriverReturns, DeviceInv, Return, Handler, InStep
<1>2. pc'[t] = "user" /\ ubuf'[t] = << >> /\ fpos'[t] = pos[t]
  BY <1>1 DEF Return, Leave, HeapInv, HeapType, ReadInv, CallType
<1>3. DriverStep(t)
  BY <1>1 DEF DriverStep
<1>4. ubuf[t] \in Seq(Bytes)
  BY <1>1 DEF ReadInv, CallType
<1>5. ASSUME NEW p \in Labels, Goto(t, p),
             unsent' = unsent \/ unsent' = [unsent EXCEPT ![t] = ubuf[t]]
      PROVE  HandlerStep(t) /\ at'[t] = p
  <2>1. at'[t] = p /\ \E q \in Labels : at' = [at EXCEPT ![t] = q]
    BY <1>1, <1>5, Went
  <2>2. \E s \in Seq(Bytes) : unsent' = [unsent EXCEPT ![t] = s]
    <3>1. CASE unsent' = unsent
      BY <1>1, <3>1, Kept
    <3>2. CASE unsent' = [unsent EXCEPT ![t] = ubuf[t]]
      BY <1>4, <3>2
    <3> QED BY <1>5, <3>1, <3>2
  <2> QED BY <1>1, <1>3, <2>1, <2>2, Kept DEF HandlerStep
<1>6. CASE at[t] = "writing" /\ Goto(t, "written") /\ unsent' = unsent
  <2>1. "written" \in Labels
    BY DEF Labels
  <2>3. HandlerStep(t) /\ at'[t] = "written"
    BY <1>5, <1>6, <2>1
  <2>2. sent'[t] = << >> /\ unsent'[t] = << >>
    BY <1>1, <1>6 DEF Handler, InStep
  <2> QED BY <1>2, <2>2, <2>3, OutOfDriver
<1>7. CASE /\ at[t] = "reading" /\ ubuf[t] = << >> /\ Goto(t, "close")
           /\ unsent' = [unsent EXCEPT ![t] = ubuf[t]]
  <2>1. HandlerStep(t) /\ at'[t] = "close"
    BY <1>5, <1>7 DEF Labels
  <2>2. unsent'[t] = << >>
    BY <1>1, <1>7 DEF ServerType
  <2> QED BY <1>2, <2>1, <2>2, OutOfDriver
<1>8. CASE at[t] = "reading" /\ Goto(t, "send") /\ unsent' = [unsent EXCEPT ![t] = ubuf[t]]
  <2>1. HandlerStep(t) /\ at'[t] = "send"
    <3>1. "send" \in Labels
      BY DEF Labels
    <3> QED BY <1>5, <1>8, <3>1
  <2>2. Got(t)' = Got(t) /\ Reached(t)' = Reached(t)
    BY <1>1, <1>2, <1>8, <2>1 DEF Got, Reached, ServerType
  <2>3. Reply(t)'
    BY <1>1, <1>8, <2>2 DEF Handler, Reply, Extends
  <2> QED BY <1>2, <2>1, <2>3 DEF Handler, InStep
<1> QED BY <1>6, <1>7, <1>8 DEF DriverReturns

(* A piece of what is left of the reply goes to the client.                *)
LEMMA SendKeeps ==
  ASSUME DeviceInv, NEW t \in Threads, Send(t)
  PROVE  HandlerStep(t) /\ Handler(t)'
<1>1. /\ at[t] = "send" /\ ServerType /\ Handler(t)
      /\ UNCHANGED <<vars, line, seekto, start, seen>>
  BY DEF Send, DeviceInv
<1>2. pc[t] = "user" /\ ubuf[t] = << >>
  BY <1>1, AtUser
<1>3. /\ pc'[t] = "user" /\ ubuf'[t] = << >> /\ fpos'[t] = fpos[t]
      /\ start'[t] = start[t] /\ seen'[t] = seen[t]
  BY <1>1, <1>2 DEF vars, vfs, call
<1>4. ASSUME NEW p \in Labels, Goto(t, p),
             NEW r \in Seq(Bytes), unsent' = [unsent EXCEPT ![t] = r],
             \E s \in Seq(Bytes) : sent' = [sent EXCEPT ![t] = s]
      PROVE  HandlerStep(t) /\ at'[t] = p
  <2>1. at'[t] = p /\ \E q \in Labels : at' = [at EXCEPT ![t] = q]
    BY <1>1, <1>4, Went
  <2> QED BY <1>1, <1>4, <2>1, Kept DEF HandlerStep, DriverStep
<1>5. CASE Goto(t, "close") /\ unsent' = [unsent EXCEPT ![t] = << >>] /\ UNCHANGED sent
  <2>1. << >> \in Seq(Bytes) /\ \E s \in Seq(Bytes) : sent' = [sent EXCEPT ![t] = s]
    BY <1>1, <1>5, Kept
  <2>2. HandlerStep(t) /\ at'[t] = "close"
    BY <1>4, <1>5, <2>1 DEF Labels
  <2>3. unsent'[t] = << >>
    BY <1>1, <1>5 DEF ServerType
  <2> QED BY <1>3, <2>2, <2>3, OutOfDriver
<1>6. ASSUME NEW n \in 1 .. Len(unsent[t]),
             sent' = [sent EXCEPT ![t] = @ \o SubSeq(unsent[t], 1, n)],
             unsent' = [unsent EXCEPT ![t] = SubSeq(@, n + 1, Len(@))],
             Goto(t, IF n = Len(unsent[t]) THEN "read" ELSE "send")
      PROVE  HandlerStep(t) /\ Handler(t)'
  <2> DEFINE u == unsent[t]
             x == SubSeq(u, 1, n)
             y == SubSeq(u, n + 1, Len(u))
  <2>1. /\ u \in Seq(Bytes) /\ sent[t] \in Seq(Bytes) /\ Len(u) \in Nat /\ n \in Nat /\ n <= Len(u)
    BY <1>1, LenProperties DEF ServerType
  <2>2. /\ x \in Seq(Bytes) /\ y \in Seq(Bytes) /\ x \o y = u
        /\ n = Len(u) => x = u /\ y = << >>
    BY <2>1, SplitAt
  <2>3. sent'[t] = sent[t] \o x /\ unsent'[t] = y
    BY <1>1, <1>6 DEF ServerType
  <2> HIDE DEF x, y
  <2>4. sent[t] \o x \in Seq(Bytes) /\ (sent[t] \o x) \o y = sent[t] \o u
    <3>1. sent[t] \o x \in Seq(Bytes)
      BY <2>1, <2>2, ConcatProperties
    <3>2. (sent[t] \o x) \o y = sent[t] \o (x \o y)
      <4>1. \A a, b, c \in Seq(Bytes) : (a \o b) \o c = a \o (b \o c)
        BY ConcatAssociative
      <4> QED BY <2>1, <2>2, <4>1, Zenon
    <3> QED BY <2>2, <3>1, <3>2
  <2>5. \E s \in Seq(Bytes) : sent' = [sent EXCEPT ![t] = s]
    <3>1. sent' = [sent EXCEPT ![t] = sent[t] \o x]
      BY <1>6 DEF x
    <3> QED BY <2>4, <3>1
  <2>6. PICK p \in {"read", "send"} : Goto(t, p) /\ (p = "read" <=> n = Len(u))
    BY <1>6
  <2>7. HandlerStep(t) /\ at'[t] = p
    BY <1>4, <1>6, <2>2, <2>5, <2>6 DEF Labels, y
  <2>8. Got(t)' = Got(t) /\ Reached(t)' = Reached(t)
    <3>1. Got(t) = sent[t] \o u /\ Reached(t) = fpos[t]
      BY <1>1, <1>2 DEF Got, Reached
    <3>2. Got(t)' = (sent[t] \o x) \o y
      <4>1. CASE p = "send"
        BY <1>3, <2>3, <2>7, <4>1 DEF Got
      <4>2. CASE p = "read"
        <5>1. x = u
          BY <2>2, <2>6, <4>2
        <5> QED BY <1>3, <2>3, <2>4, <2>7, <4>2, <5>1 DEF Got
      <4> QED BY <4>1, <4>2
    <3>3. Reached(t)' = fpos[t]
      BY <1>3, <2>7 DEF Reached
    <3> QED BY <2>4, <3>1, <3>2, <3>3
  <2>9. Reply(t)'
    BY <1>1, <1>3, <2>8 DEF Handler, Reply, Extends
  <2>10. p = "read" => unsent'[t] = << >>
    BY <2>2, <2>3, <2>6
  <2> QED BY <1>3, <2>7, <2>9, <2>10 DEF Handler, InStep
<1> QED BY <1>5, <1>6 DEF Send, Fail

(* The driver's call fails.                                                *)
LEMMA DriverFailsKeeps ==
  ASSUME DeviceInv, NEW t \in Threads, DriverFails(t)
  PROVE  HandlerStep(t) /\ Handler(t)'
<1>1. /\ ServerType /\ HeapInv /\ ReadInv /\ Handler(t) /\ Leave(t)
      /\ Goto(t, IF at[t] = "writing" THEN "written" ELSE "close")
      /\ DriverStep(t) /\ UNCHANGED <<line, seekto, unsent, sent, start, seen>>
  BY DEF DriverFails, Fail, DeviceInv, LockInterrupted, WriteNoMem, DriverStep
<1>2. pc'[t] = "user" /\ ubuf'[t] = << >>
  BY <1>1 DEF Leave, HeapInv, HeapType, ReadInv, CallType
<1>3. PICK p \in Labels : Goto(t, p) /\ p = IF at[t] = "writing" THEN "written" ELSE "close"
  BY <1>1 DEF Labels
<1>4. at'[t] = p /\ \E q \in Labels : at' = [at EXCEPT ![t] = q]
  BY <1>1, <1>3, Went
<1>5. HandlerStep(t)
  BY <1>1, <1>4, Kept DEF HandlerStep
<1>6. unsent'[t] = << >> /\ (p = "written" => sent'[t] = << >>)
  <2>1. pc[t] # "user" => at[t] # "send"
    BY <1>1 DEF Handler, InStep
  <2>2. pc[t] # "user"
    BY DEF DriverFails, LockInterrupted, WriteNoMem
  <2> QED BY <1>1, <1>3, <2>1, <2>2 DEF Handler, InStep
<1> QED BY <1>2, <1>3, <1>4, <1>5, <1>6, OutOfDriver

(* The device is closed and the thread ends.                               *)
LEMMA EndKeeps ==
  ASSUME DeviceInv, NEW t \in Threads, Close(t) \/ Finish(t)
  PROVE  HandlerStep(t) /\ Handler(t)'
<1>1. /\ ServerType /\ at[t] \in {"close", "closed"} /\ DriverStep(t) /\ UNCHANGED call
      /\ \/ Goto(t, "closed") /\ UNCHANGED <<line, seekto, unsent, sent, start, seen>>
         \/ /\ Goto(t, "idle")
            /\ line' = [line EXCEPT ![t] = << >>]
            /\ UNCHANGED <<seekto, unsent>>
            /\ sent' = [sent EXCEPT ![t] = << >>]
            /\ start' = [start EXCEPT ![t] = 0]
            /\ seen' = [seen EXCEPT ![t] = {}]
  BY DEF Close, Finish, Release, DeviceInv, DriverStep, vars
<1>2. pc'[t] = "user" /\ ubuf'[t] = << >> /\ unsent'[t] = << >>
  BY <1>1, AtUser DEF call, DeviceInv, Handler, InStep
<1>3. CASE Goto(t, "closed") /\ UNCHANGED <<line, seekto, unsent, sent, start, seen>>
  <2>1. at'[t] = "closed" /\ \E q \in Labels : at' = [at EXCEPT ![t] = q]
    BY <1>1, <1>3, Went DEF Labels
  <2>2. HandlerStep(t)
    BY <1>1, <1>3, <2>1, Kept DEF HandlerStep
  <2> QED BY <1>2, <2>1, <2>2, OutOfDriver
<1>4. CASE /\ Goto(t, "idle")
           /\ line' = [line EXCEPT ![t] = << >>]
           /\ UNCHANGED <<seekto, unsent>>
           /\ sent' = [sent EXCEPT ![t] = << >>]
           /\ start' = [start EXCEPT ![t] = 0]
           /\ seen' = [seen EXCEPT ![t] = {}]
  <2>1. at'[t] = "idle" /\ \E q \in Labels : at' = [at EXCEPT ![t] = q]
    BY <1>1, <1>4, Went DEF Labels
  <2>2. << >> \in Seq(Bytes) /\ 0 \in Nat
    OBVIOUS
  <2>3. /\ \E x, y \in Nat :
             seekto' = [seekto EXCEPT ![t] = [write_cmd |-> x, write_cmd_offset |-> y]]
        /\ \E s \in Seq(Bytes) : unsent' = [unsent EXCEPT ![t] = s]
    BY <1>1, <1>4, Kept
  <2>4. seen' = [u \in Threads |-> seen'[u]] /\ \A u \in Threads \ {t} : seen[u] \subseteq seen'[u]
    BY <1>1, <1>4 DEF ServerType
  <2>5. HandlerStep(t)
    BY <1>1, <1>4, <2>1, <2>2, <2>3, <2>4 DEF HandlerStep
  <2>6. sent'[t] = << >>
    BY <1>1, <1>4 DEF ServerType
  <2> QED BY <1>2, <2>1, <2>5, <2>6, OutOfDriver
<1> QED BY <1>1, <1>3, <1>4

(* Every step of the server keeps the invariant.                           *)
LEMMA DeviceInvNext == DeviceInv /\ [DeviceNext]_all => DeviceInv'
<1> SUFFICES ASSUME DeviceInv, [DeviceNext]_all PROVE DeviceInv'
  OBVIOUS
<1>1. HeapInv' /\ ReadInv'
  BY DriverInvsNext
<1>2. ServerType' /\ \A u \in Threads : Handler(u)'
  <2>1. CASE UNCHANGED <<server, pc, file, pos, ubuf, fpos>>
    <3>1. ServerType'
      BY <2>1 DEF DeviceInv, ServerType, server
    <3>2. ASSUME NEW u \in Threads PROVE Handler(u)'
      <4>1. Aside(u)
        BY <2>1 DEF Aside, OwnPart, server
      <4> QED BY <4>1, AsideKeeps DEF DeviceInv
    <3> QED BY <3>1, <3>2
  <2>2. CASE Load \/ UNCHANGED all
    <3>1. UNCHANGED <<server, vfs, call>>
      BY <2>2 DEF Load, InitModule, all, vars
    <3> QED BY <2>1, <3>1 DEF vfs, call
  <2>3. CASE \E t \in Threads : HandlerStep(t) /\ Handler(t)'
    BY <2>3, HandlerStepFrame
  <2>4. CASE \E t \in Threads : Connect(t) \/ Recv(t) \/ LockIo(t) \/ OutsideDriver(t) \/ Send(t)
                               \/ InDriver(t) \/ DriverFails(t)
    <3>1. PICK t \in Threads : Connect(t) \/ Recv(t) \/ LockIo(t) \/ OutsideDriver(t) \/ Send(t)
                               \/ InDriver(t) \/ DriverFails(t)
      BY <2>4
    <3>2. HandlerStep(t) /\ Handler(t)'
      BY <3>1, ConnectKeeps, RecvKeeps, IoMutexKeeps, CallWriteKeeps, SeekingKeeps, CallReadKeeps,
         InDriverKeeps, DriverReturnsKeeps, DriverFailsKeeps, SendKeeps, EndKeeps DEF OutsideDriver
    <3> QED BY <2>3, <3>2
  <2> QED BY <2>2, <2>4 DEF DeviceNext
<1> QED BY <1>1, <1>2 DEF DeviceInv

(***************************************************************************)
(* When the device only gained commands during a reply, the reply is all   *)
(* of its content from where the reply began, however many handlers write, *)
(* read and seek meanwhile and however the reads of the reply fall.        *)
(***************************************************************************)
THEOREM UndisturbedRepliesComplete == DeviceSpec => UndisturbedReply
<1> DEFINE A ==
      \A t \in Threads :
        Replied(t) /\ (\A c \in seen[t] : IsPrefix(c, Content))
          => sent[t] = SubSeq(Content, start[t] + 1, Len(Content))
<1>1. DeviceInv /\ [DeviceNext]_all => [A]_all
  <2> SUFFICES ASSUME DeviceInv, DeviceNext, NEW t \in Threads, Replied(t), Extends(Content, t)
               PROVE  sent[t] = SubSeq(Content, start[t] + 1, Len(Content))
    BY DEF Extends
  <2>1. /\ HeapInv /\ ReadInv /\ ServerType /\ Handler(t)
        /\ at[t] = "reading" /\ pc[t] = "read" /\ pc'[t] = "return"
    BY DEF DeviceInv, Replied
  <2>2. ReadFind(t)
    <3>1. CASE Next
      BY <2>1, <3>1, WhoMoved
    <3>2. CASE UNCHANGED vars
      BY <2>1, <3>2 DEF vars, call
    <3>3. ASSUME NEW u \in Threads, NEW h, NEW r, h # "return", Enter(u, u, h, r) PROVE FALSE
      BY <2>1, <3>3 DEF Enter, HeapInv, HeapType
    <3>4. ASSUME NEW u \in Threads, NEW x \in Nat, NEW y \in Nat, Ioctl(u, u, x, y) PROVE FALSE
      BY <2>1, <3>4 DEF Ioctl, call
    <3> QED BY <3>1, <3>2, <3>3, <3>4, DriverPart DEF EnterRead, EnterWrite
  <2>3. pos[t] >= Len(Content)
    BY <2>1, <2>2, EndOfFileAtEnd DEF Content
  <2>4. pos[t] \in Nat /\ start[t] \in Nat /\ sent[t] \in Seq(Bytes) /\ Content \in Seq(Bytes)
    BY <2>1, ContentFacts DEF ReadInv, Reader, ServerType
  <2>5. GotIs(sent[t], Content, start[t], pos[t])
    BY <2>1, <2>4 DEF Handler, Reply, Got, Reached
  <2> QED BY <2>3, <2>4, <2>5, GotAll
<1> QED BY DeviceInvInit, DeviceInvNext, <1>1, PTL DEF DeviceSpec, UndisturbedReply

(***************************************************************************)
(* A seek command whose numbers fit 32 bits is carried out only if the     *)
(* device has that byte of that command, and the reply starts there, for   *)
(* all numbers and after the ring has wrapped any number of times.         *)
(***************************************************************************)
THEOREM SeeksStartReplies == DeviceSpec => SeekStartsReply
<1> DEFINE A ==
      \A t \in Threads :
        LET x == seekto[t].write_cmd
            y == seekto[t].write_cmd_offset
            live == LiveEntries(buffer)
            hit == FindEntry(buffer, fpos'[t])
        IN  at[t] = "ioctl" /\ at'[t] = "read" /\ x <= UINT32_MAX /\ y <= UINT32_MAX
              => /\ x < Len(live) /\ y < live[x + 1].size
                 /\ buffer.entry[hit.slot] = live[x + 1] /\ hit.offset = y
<1>1. DeviceInv /\ [DeviceNext]_all => [A]_all
  <2> SUFFICES ASSUME DeviceInv, DeviceNext, NEW t \in Threads,
                      at[t] = "ioctl", at'[t] = "read",
                      seekto[t].write_cmd <= UINT32_MAX,
                      seekto[t].write_cmd_offset <= UINT32_MAX
               PROVE  LET x == seekto[t].write_cmd
                          y == seekto[t].write_cmd_offset
                          live == LiveEntries(buffer)
                          hit == FindEntry(buffer, fpos'[t])
                      IN  /\ x < Len(live) /\ y < live[x + 1].size
                          /\ buffer.entry[hit.slot] = live[x + 1] /\ hit.offset = y
    OBVIOUS
  <2>1. HeapInv /\ ReadInv /\ ServerType
    BY DEF DeviceInv
  <2>2. SeekTo(t)
    <3>1. ~Load
      BY DEF Load, server
    <3>2. PICK u \in Threads : Connect(u) \/ Recv(u) \/ LockIo(u) \/ OutsideDriver(u) \/ Send(u)
                              \/ InDriver(u) \/ DriverFails(u)
      BY <3>1 DEF DeviceNext
    <3>3. HandlerStep(u)
      BY <3>2, ConnectKeeps, RecvKeeps, IoMutexKeeps, CallWriteKeeps, SeekingKeeps, CallReadKeeps,
         InDriverKeeps, DriverReturnsKeeps, DriverFailsKeeps, SendKeeps, EndKeeps DEF OutsideDriver
    <3>4. u = t
      BY <2>1, <3>3 DEF HandlerStep, ServerType
    <3>5. CASE InDriver(t)
      BY <3>5 DEF InDriver
    <3>6. CASE DriverFails(t)
      BY <2>1, <3>6 DEF DriverFails, Fail, Goto, ServerType
    <3>7. CASE DriverReturns(t)
      BY <3>7 DEF DriverReturns
    <3> QED BY <3>2, <3>4, <3>5, <3>6, <3>7
            DEF Send, OutsideDriver, Connect, Recv, LockIo, CallWrite, UnlockIo, Rewind, CallRead,
                Close, Finish
  <2>3. PICK x \in Nat, y \in Nat : x = seekto[t].write_cmd /\ y = seekto[t].write_cmd_offset
    BY <2>1 DEF ServerType
  <2>4. Parsed(x, y) = [write_cmd |-> x, write_cmd_offset |-> y]
    BY <2>3, NumberFits DEF Parsed
  <2>5. Goto(t, "close") => at'[t] = "close"
    BY <2>1 DEF Goto, ServerType
  <2>6. Ioctl(t, t, x, y)
    BY <2>2, <2>3, <2>4, <2>5 DEF SeekTo, Fail
  <2>7. SeekToValid(x, y) /\ fpos' = [fpos EXCEPT ![t] = SeekToOffset(x, y)]
    BY <2>6 DEF Ioctl
  <2>8. t \in Files /\ fpos = [f \in Files |-> fpos[f]]
    BY <2>1, DeviceServerAssumption DEF ReadInv, CallType
  <2>9. fpos'[t] = SeekToOffset(x, y)
    BY <2>7, <2>8
  <2>10. SeekAgrees(x, y)
    BY <2>1, SeekToAgreesAt
  <2> QED BY <2>3, <2>7, <2>9, <2>10 DEF SeekAgrees
<1> QED BY DeviceInvInit, DeviceInvNext, <1>1, PTL DEF DeviceSpec, SeekStartsReply

(***************************************************************************)
(* The driver under the server: whatever numbers clients send, no block    *)
(* has two owners and none is lost.                                        *)
(***************************************************************************)
THEOREM ServerKeepsDriverSafe == DeviceSpec => [](OneOwner /\ BlocksAccounted)
<1>1. DeviceInv => OneOwner /\ BlocksAccounted
  BY DEF DeviceInv, HeapInv
<1> QED BY DeviceInvInit, DeviceInvNext, <1>1, PTL DEF DeviceSpec
=============================================================================
