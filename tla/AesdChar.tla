------------------------------ MODULE AesdChar ------------------------------
(***************************************************************************)
(* The character driver of aesd-char-driver/main.c: threads issue system   *)
(* calls on open files, the handlers serialise on the mutex of struct      *)
(* aesd_dev, and the entries of the circular buffer point to kmalloc'ed    *)
(* blocks whose lifetime the driver manages.                               *)
(*                                                                         *)
(* aesd_read and aesd_write are split where they may sleep with the mutex  *)
(* held, in copy_to_user and copy_from_user.  The VFS copies the file      *)
(* position before it calls them and writes it back after they return,     *)
(* outside the mutex; aesd_llseek and aesd_adjust_file_offset use the file *)
(* position itself.                                                        *)
(***************************************************************************)
EXTENDS CircularBuffer, SequencesExt

CONSTANTS
  Threads,
  Files,         \* struct file objects
  Blocks,        \* what kmalloc may return
  Nobody,        \* the holder of the mutex when it is not held
  Bytes,
  Newline,
  Chunks,        \* the byte sequences a write may pass
  MaxAlloc,      \* kmalloc fails for more than this many bytes
  Counts,        \* the counts a read may ask for
  LoadFaults,    \* what aesd_init_module may leave behind when it fails
  MaxSeek        \* bound on the offset of a seek

ASSUME AesdCharAssumption ==
  /\ NULL \notin Blocks
  /\ Nobody \notin Threads
  /\ \A c \in Chunks : c \in Seq(Bytes)
  /\ MaxAlloc \in Nat /\ MaxSeek \in Nat /\ Counts \subseteq Nat
  /\ LoadFaults \subseteq {"chrdev_region", "circular_buffer"}

VARIABLES
  module,        \* whether the module is loaded: "in" or "out"
  stranded,      \* what failed loads left registered or allocated
  buffer,        \* *dev->buffer
  wip,           \* dev->wip_entry
  lock,          \* the holder of dev->lock
  alloc,         \* the allocated blocks
  content,       \* the bytes stored in each block
  leaked,        \* the blocks the fault path of aesd_write forgot
  open,          \* the open files
  fpos,          \* filp->f_pos
  pc,            \* where each thread is; "user" is outside the kernel
  file,          \* the file of the call
  pos,           \* the VFS's copy of the position, passed as f_pos
  req,           \* the call's argument: count of a read, bytes of a write
  loc,           \* entry->buffptr, entry_pos and count in read; bptr in write
  ubuf           \* what the read has stored in the user's buffer

dev  == <<buffer, wip, lock, alloc, content, leaked>>
vfs  == <<open, fpos>>
call == <<pc, file, pos, req, loc, ubuf>>
mod  == <<module, stranded>>
vars == <<mod, dev, vfs, call>>

NoFile  == NULL
NoReq   == [count |-> 0, bytes |-> << >>]
NoLoc   == [ptr |-> NULL, offset |-> 0, count |-> 0]

Init ==
  /\ module = "out" /\ stranded = {}
  /\ buffer = EmptyBuffer /\ wip = ZeroEntry /\ lock = Nobody
  /\ alloc = {} /\ content = [b \in Blocks |-> << >>] /\ leaked = {}
  /\ open = {} /\ fpos = [f \in Files |-> 0]
  /\ pc = [t \in Threads |-> "user"]
  /\ file = [t \in Threads |-> NoFile]
  /\ pos = [t \in Threads |-> 0]
  /\ req = [t \in Threads |-> NoReq]
  /\ loc = [t \in Threads |-> NoLoc]
  /\ ubuf = [t \in Threads |-> << >>]

-----------------------------------------------------------------------------
(* kfree of a set of blocks; kfree(NULL) does nothing.                     *)
AfterFree(c, ptrs) == [b \in Blocks |-> IF b \in ptrs THEN << >> ELSE c[b]]

(* The thread goes back to user space; its locals are gone.                *)
Leave(t) ==
  /\ pc' = [pc EXCEPT ![t] = "user"]
  /\ file' = [file EXCEPT ![t] = NoFile]
  /\ pos' = [pos EXCEPT ![t] = 0]
  /\ req' = [req EXCEPT ![t] = NoReq]
  /\ loc' = [loc EXCEPT ![t] = NoLoc]
  /\ ubuf' = [ubuf EXCEPT ![t] = << >>]

(***************************************************************************)
(* ksys_read and ksys_write (external): a negative position is refused,    *)
(* otherwise the handler gets a copy of it ...                             *)
(***************************************************************************)
Enter(t, f, handler, r) ==
  /\ pc[t] = "user"
  /\ f \in open
  /\ fpos[f] >= 0
  /\ pc' = [pc EXCEPT ![t] = handler]
  /\ file' = [file EXCEPT ![t] = f]
  /\ pos' = [pos EXCEPT ![t] = fpos[f]]
  /\ req' = [req EXCEPT ![t] = r]
  /\ UNCHANGED <<mod, dev, vfs, loc, ubuf>>

(* ... which is written back when the handler did not fail.                *)
Return(t) ==
  /\ pc[t] = "return"
  /\ fpos' = [fpos EXCEPT ![file[t]] = pos[t]]
  /\ Leave(t)
  /\ UNCHANGED <<mod, dev, open>>

EnterRead(t, f, n) == Enter(t, f, "read", [NoReq EXCEPT !.count = n])

EnterWrite(t, f, c) == Enter(t, f, "write", [NoReq EXCEPT !.bytes = c])

(* mutex_lock_interruptible can succeed; a handler that holds the mutex    *)
(* across a sleep records itself in lock.                                  *)
MutexIgnored == TRUE
CanLock == lock = Nobody

(* mutex_lock_interruptible gives up: a signal came while it waited.       *)
LockInterrupted(t) ==
  /\ pc[t] \in {"read", "write"}
  /\ lock # Nobody
  /\ Leave(t)
  /\ UNCHANGED <<mod, dev, vfs>>

-----------------------------------------------------------------------------
(* aesd_read, up to the call of copy_to_user.                              *)
ReadFind(t) ==
  LET r == FindEntry(buffer, pos[t])
      e == buffer.entry[r.slot]
      room == e.size - r.offset
  IN  /\ pc[t] = "read"
      /\ CanLock
      /\ \/ /\ r.slot = NULL
            /\ pc' = [pc EXCEPT ![t] = "return"]
            /\ UNCHANGED <<lock, loc>>
         \/ /\ r.slot # NULL
            /\ pc' = [pc EXCEPT ![t] = "read_copy"]
            /\ lock' = t
            /\ loc' = [loc EXCEPT ![t] =
                         [ptr    |-> e.buffptr,
                          offset |-> r.offset,
                          count  |-> IF req[t].count > room THEN room
                                                            ELSE req[t].count]]
      /\ UNCHANGED <<mod, buffer, wip, alloc, content, leaked, vfs, file, pos, req, ubuf>>

(* The position advances by what was asked for, not by what was copied.    *)
ReadCopyUnclamped(t) ==
  LET l == loc[t]
  IN  /\ pc[t] = "read_copy"
      /\ ubuf' = [ubuf EXCEPT ![t] = SubSeq(content[l.ptr], l.offset + 1,
                                            l.offset + l.count)]
      /\ pos' = [pos EXCEPT ![t] = @ + req[t].count]
      /\ loc' = [loc EXCEPT ![t] = NoLoc]
      /\ pc' = [pc EXCEPT ![t] = "return"]
      /\ lock' = Nobody
      /\ UNCHANGED <<mod, buffer, wip, alloc, content, leaked, vfs, file, req>>

(* copy_to_user succeeds.                                                  *)
ReadCopy(t) ==
  LET l == loc[t]
  IN  /\ pc[t] = "read_copy"
      /\ ubuf' = [ubuf EXCEPT ![t] = SubSeq(content[l.ptr], l.offset + 1,
                                            l.offset + l.count)]
      /\ pos' = [pos EXCEPT ![t] = @ + l.count]
      /\ loc' = [loc EXCEPT ![t] = NoLoc]
      /\ pc' = [pc EXCEPT ![t] = "return"]
      /\ lock' = Nobody
      /\ UNCHANGED <<mod, buffer, wip, alloc, content, leaked, vfs, file, req>>

(* The file moves although nothing was copied, or the mutex stays held.    *)
ReadFaultMoves(t) ==
  /\ pc[t] = "read_copy"
  /\ lock' = Nobody
  /\ Leave(t)
  /\ fpos' = [fpos EXCEPT ![file[t]] = @ + loc[t].count]
  /\ UNCHANGED <<mod, buffer, wip, alloc, content, leaked, open>>

ReadFaultKeepsMutex(t) ==
  /\ pc[t] = "read_copy"
  /\ Leave(t)
  /\ UNCHANGED <<mod, dev, vfs>>

(* copy_to_user fails: -EFAULT.                                            *)
ReadFault(t) ==
  /\ pc[t] = "read_copy"
  /\ lock' = Nobody
  /\ Leave(t)
  /\ UNCHANGED <<mod, buffer, wip, alloc, content, leaked, vfs>>

-----------------------------------------------------------------------------
(* aesd_write, up to the call of copy_from_user: a new block, one byte     *)
(* longer than its data, starts with a copy of the working entry.          *)
WriteAlloc(t) ==
  /\ pc[t] = "write"
  /\ CanLock
  /\ wip.size + Len(req[t].bytes) + 1 <= MaxAlloc
  /\ \E b \in Blocks \ alloc :
       /\ alloc' = alloc \cup {b}
       /\ content' = [content EXCEPT ![b] =
                        IF wip.buffptr = NULL THEN << >>
                        ELSE SubSeq(content[wip.buffptr], 1, wip.size)]
       /\ loc' = [loc EXCEPT ![t] = [NoLoc EXCEPT !.ptr = b]]
  /\ lock' = t
  /\ pc' = [pc EXCEPT ![t] = "write_copy"]
  /\ UNCHANGED <<mod, buffer, wip, leaked, vfs, file, pos, req, ubuf>>

(* kmalloc fails: -ENOMEM.                                                 *)
WriteNoMem(t) ==
  /\ pc[t] = "write"
  /\ CanLock
  /\ Leave(t)
  /\ UNCHANGED <<mod, dev, vfs>>

(* copy_from_user fails: -EFAULT, and nothing points to the new block.     *)
WriteFault(t) ==
  /\ pc[t] = "write_copy"
  /\ leaked' = leaked \cup {loc[t].ptr}
  /\ lock' = Nobody
  /\ Leave(t)
  /\ UNCHANGED <<mod, buffer, wip, alloc, content, vfs>>

(***************************************************************************)
(* Whether the byte before the end of the working entry is a newline.  For *)
(* an entry of size 0 the code looks at the byte before the block, which   *)
(* can be anything.                                                        *)
(***************************************************************************)
SeesNewlineFirst(data) ==
  IF data = << >> THEN BOOLEAN ELSE {Head(data) = Newline}

SeesNewline(data) ==
  IF data = << >> THEN BOOLEAN ELSE {Last(data) = Newline}

(* The kfree of the old working block and, after a flush, of the block     *)
(* whose entry the ring overwrote.                                         *)
FreedByWriteNotOld(flush) == {wip.buffptr} \ {NULL}

FreedByWrite(flush) ==
  (IF flush THEN {wip.buffptr, RemovedBuffptr(buffer)} ELSE {wip.buffptr}) \ {NULL}

(* The working entry is reset when it has been copied to the ring.         *)
WipAfterNoReset(flush, new) == new

WipAfter(flush, new) == IF flush THEN ZeroEntry ELSE new

(* The working entry once it points to the new block.                      *)
NewWipCountsNul(t) ==
  [buffptr |-> loc[t].ptr, size |-> wip.size + Len(req[t].bytes) + 1]

NewWip(t) ==
  [buffptr |-> loc[t].ptr, size |-> wip.size + Len(req[t].bytes)]

(* copy_from_user succeeds: the rest of aesd_write.                        *)
WriteCommit(t) ==
  LET b    == loc[t].ptr
      data == content[b] \o req[t].bytes
      new  == NewWip(t)
  IN  /\ pc[t] = "write_copy"
      /\ \E flush \in SeesNewline(data) :
           /\ buffer' = IF flush THEN AddEntry(buffer, new) ELSE buffer
           /\ wip' = WipAfter(flush, new)
           /\ alloc' = alloc \ FreedByWrite(flush)
           /\ content' = AfterFree([content EXCEPT ![b] = data], FreedByWrite(flush))
      /\ pos' = [pos EXCEPT ![t] = BufferSize(buffer') - 1]
      /\ loc' = [loc EXCEPT ![t] = NoLoc]
      /\ pc' = [pc EXCEPT ![t] = "return"]
      /\ lock' = Nobody
      /\ UNCHANGED <<mod, leaked, vfs, file, req, ubuf>>

-----------------------------------------------------------------------------
(***************************************************************************)
(* aesd_llseek, with fixed_size_llseek (external): a target outside the    *)
(* buffer is -EINVAL, and SEEK_CUR by 0 only reports the position.         *)
(***************************************************************************)
SeekTarget(f, off, whence) ==
  CASE whence = "SEEK_SET" -> off
    [] whence = "SEEK_CUR" -> fpos[f] + off
    [] whence = "SEEK_END" -> BufferSize(buffer) + off

Llseek(t, f, off, whence) ==
  LET target == SeekTarget(f, off, whence)
  IN  /\ pc[t] = "user"
      /\ f \in open
      /\ CanLock
      /\ ~(whence = "SEEK_CUR" /\ off = 0)
      /\ target \in 0 .. BufferSize(buffer)
      /\ fpos' = [fpos EXCEPT ![f] = target]
      /\ UNCHANGED <<mod, dev, open, call>>

(***************************************************************************)
(* aesd_ioctl and aesd_adjust_file_offset: the command must be one of the  *)
(* entries written, the offset inside it; anything else is -EINVAL and     *)
(* changes nothing.                                                        *)
(***************************************************************************)
SeekToValid(write_cmd, write_cmd_offset) ==
  /\ write_cmd < MaxWriteOps
  /\ \A i \in 0 .. write_cmd : buffer.entry[SlotOf(buffer, i)].buffptr # NULL
  /\ write_cmd_offset < buffer.entry[SlotOf(buffer, write_cmd)].size

SeekToOffsetPast(write_cmd, write_cmd_offset) ==
  AccLength(buffer)[write_cmd + 1] + write_cmd_offset

SeekToOffset(write_cmd, write_cmd_offset) ==
  AccLength(buffer)[write_cmd] + write_cmd_offset

Ioctl(t, f, write_cmd, write_cmd_offset) ==
  /\ pc[t] = "user"
  /\ f \in open
  /\ CanLock
  /\ SeekToValid(write_cmd, write_cmd_offset)
  /\ fpos' = [fpos EXCEPT ![f] = SeekToOffset(write_cmd, write_cmd_offset)]
  /\ UNCHANGED <<mod, dev, open, call>>

-----------------------------------------------------------------------------
(* aesd_open and aesd_release keep no state; the VFS starts at position 0, *)
(* and keeps the module loaded and the file open while a call uses it.     *)
Open(f) ==
  /\ module = "in"
  /\ f \notin open
  /\ open' = open \cup {f}
  /\ fpos' = [fpos EXCEPT ![f] = 0]
  /\ UNCHANGED <<mod, dev, call>>

Release(f) ==
  /\ f \in open
  /\ \A t \in Threads : file[t] # f
  /\ open' = open \ {f}
  /\ fpos' = [fpos EXCEPT ![f] = 0]
  /\ UNCHANGED <<mod, dev, call>>

(***************************************************************************)
(* aesd_init_module: without a device number nothing has happened; when    *)
(* the buffer cannot be allocated the number stays registered; when the    *)
(* cdev cannot be added the buffer stays allocated.                        *)
(***************************************************************************)
InitModule ==
  /\ module = "out"
  /\ module' = "in"
  /\ UNCHANGED <<stranded, dev, vfs, call>>

InitModuleFails ==
  /\ module = "out"
  /\ \E left \in LoadFaults :
       stranded' = stranded \cup {left}
  /\ UNCHANGED <<module, dev, vfs, call>>

(* aesd_cleanup_module: frees the entries, the buffer and the working      *)
(* entry.  The device structure goes away with the module.                 *)
CleanupModule ==
  LET held == {buffer.entry[s].buffptr : s \in Slots} \cup {wip.buffptr}
      gone == held \ {NULL}
  IN  /\ module = "in"
      /\ open = {}
      /\ module' = "out"
      /\ alloc' = alloc \ gone
      /\ content' = AfterFree(content, gone)
      /\ buffer' = EmptyBuffer
      /\ wip' = ZeroEntry
      /\ UNCHANGED <<stranded, lock, leaked, vfs, call>>

-----------------------------------------------------------------------------
ReadStep(t) ==
  \/ \E f \in Files, n \in Counts : EnterRead(t, f, n)
  \/ ReadFind(t)
  \/ ReadCopy(t)
  \/ ReadFault(t)

WriteStep(t) ==
  \/ \E f \in Files, c \in Chunks : EnterWrite(t, f, c)
  \/ WriteAlloc(t)
  \/ WriteNoMem(t)
  \/ WriteFault(t)
  \/ WriteCommit(t)

SeekStep(t) ==
  \/ \E f \in Files, off \in -MaxSeek .. MaxSeek,
        whence \in {"SEEK_SET", "SEEK_CUR", "SEEK_END"} : Llseek(t, f, off, whence)
  \/ \E f \in Files, cmd \in 0 .. MaxWriteOps, off \in 0 .. MaxSeek : Ioctl(t, f, cmd, off)

Next ==
  \/ \E t \in Threads : \/ ReadStep(t)
                        \/ WriteStep(t)
                        \/ SeekStep(t)
                        \/ LockInterrupted(t)
                        \/ Return(t)
  \/ \E f \in Files : Open(f) \/ Release(f)
  \/ InitModule
  \/ InitModuleFails
  \/ CleanupModule

Spec == Init /\ [][Next]_vars

(***************************************************************************)
(* A thread in the kernel keeps running; a waiter that finds the mutex     *)
(* free again and again gets it, since the kernel's mutex hands itself to  *)
(* a waiter that lost the race.  Nothing makes users issue calls.          *)
(***************************************************************************)
Progress(t) ==
  /\ SF_vars(ReadFind(t))
  /\ SF_vars(WriteAlloc(t) \/ WriteNoMem(t))
  /\ WF_vars(ReadCopy(t) \/ ReadFault(t))
  /\ WF_vars(WriteCommit(t) \/ WriteFault(t))
  /\ WF_vars(Return(t))

FairSpec == Spec /\ \A t \in Threads : Progress(t)

-----------------------------------------------------------------------------
(***************************************************************************)
(* Types.  A position is -1 after a write that left the ring empty.        *)
(***************************************************************************)
Positions == Nat \cup {-1}

TypeOK ==
  /\ module \in {"in", "out"}
  /\ stranded \subseteq LoadFaults
  /\ buffer \in CircularBufferType(Blocks)
  /\ wip \in BufferEntry(Blocks)
  /\ lock \in Threads \cup {Nobody}
  /\ alloc \subseteq Blocks /\ leaked \subseteq Blocks
  /\ content \in [Blocks -> Seq(Bytes)]
  /\ open \subseteq Files /\ fpos \in [Files -> Positions]
  /\ pc \in [Threads -> {"user", "read", "read_copy", "write", "write_copy", "return"}]
  /\ file \in [Threads -> Files \cup {NoFile}]
  /\ pos \in [Threads -> Positions]
  /\ req \in [Threads -> [count : Nat, bytes : Seq(Bytes)]]
  /\ loc \in [Threads -> [ptr : Blocks \cup {NULL}, offset : Nat, count : Nat]]
  /\ ubuf \in [Threads -> Seq(Bytes)]

(* The blocks the ring points to, and the block a write is filling.        *)
RingBlocks == {buffer.entry[s].buffptr : s \in Slots} \ {NULL}

Filling == {loc[t].ptr : t \in {u \in Threads : pc[u] = "write_copy"}}

WipBlock == {wip.buffptr} \ {NULL}

(***************************************************************************)
(* No block has two owners: the entries of the ring, the working entry and *)
(* a write in progress point to different blocks, none of which was        *)
(* forgotten.  Otherwise eviction or unloading would free a block twice    *)
(* (the kfree calls of aesd_write and aesd_cleanup_module).                *)
(***************************************************************************)
OneOwner ==
  /\ \A r, s \in Slots : r # s /\ buffer.entry[r].buffptr # NULL
        => buffer.entry[r].buffptr # buffer.entry[s].buffptr
  /\ RingBlocks \cap WipBlock = {}
  /\ Filling \cap (RingBlocks \cup WipBlock) = {}
  /\ leaked \cap (RingBlocks \cup WipBlock \cup Filling) = {}

(***************************************************************************)
(* The kmalloc'ed blocks are those with an owner and those the fault path  *)
(* forgot: nothing freed is still pointed to, and nothing else is lost.    *)
(***************************************************************************)
BlocksAccounted == alloc = RingBlocks \cup WipBlock \cup Filling \cup leaked

(***************************************************************************)
(* entry->size of every entry is the number of bytes its block holds, and  *)
(* the shape of the ring is that of a ring only ever added to.             *)
(***************************************************************************)
Describes(e) == e.size = IF e.buffptr = NULL THEN 0 ELSE Len(content[e.buffptr])

EntriesDescribeBlocks ==
  /\ WellShaped(buffer)
  /\ Describes(wip)
  /\ \A s \in Slots : Describes(buffer.entry[s])

(***************************************************************************)
(* While aesd_read sleeps in copy_to_user the entry it found stays in the  *)
(* ring, at the position of the read, and contains the bytes it copies.    *)
(***************************************************************************)
ReaderKeepsItsEntry ==
  \A t \in Threads : pc[t] = "read_copy" =>
    LET r == FindEntry(buffer, pos[t])
    IN  /\ r.slot # NULL
        /\ buffer.entry[r.slot].buffptr = loc[t].ptr
        /\ r.offset = loc[t].offset
        /\ loc[t].offset + loc[t].count <= Len(content[loc[t].ptr])

(***************************************************************************)
(* AESDCHAR_IOCSEEKTO accepts exactly the bytes of the stored commands,    *)
(* counted from the oldest, and a read after it starts at that byte of     *)
(* that command, however often the ring has wrapped.                       *)
(***************************************************************************)
SeekToFindsCommand ==
  \A cmd \in 0 .. MaxWriteOps, off \in 0 .. MaxSeek :
    LET live == LiveEntries(buffer)
        hit  == FindEntry(buffer, SeekToOffset(cmd, off))
    IN  /\ SeekToValid(cmd, off) <=> (cmd < Len(live) /\ off < live[cmd + 1].size)
        /\ SeekToValid(cmd, off) => /\ hit.slot # NULL
                                    /\ buffer.entry[hit.slot] = live[cmd + 1]
                                    /\ hit.offset = off

-----------------------------------------------------------------------------
(* The state users see: complete commands, oldest first, and the partial   *)
(* one.                                                                    *)
Commands == [i \in 1 .. Count(buffer) |-> content[LiveEntries(buffer)[i].buffptr]]

Partial == IF wip.buffptr = NULL THEN << >> ELSE content[wip.buffptr]

Device == INSTANCE CommandLog WITH
  Limit <- MaxWriteOps, Users <- Threads, Pieces <- Chunks,
  log <- Commands, partial <- Partial, got <- ubuf

(***************************************************************************)
(* The driver implements the command log: whatever the interleaving of     *)
(* reads, writes, faults and failed allocations, every write takes effect  *)
(* at one moment or not at all, and the blocks hold what was written.      *)
(***************************************************************************)
ImplementsCommandLog == Device!Spec

(***************************************************************************)
(* A read delivers the bytes from its position on of all the commands put  *)
(* one after the other, is short only at the end of a command, and reports *)
(* the end of the file only when its position is not before the end.       *)
(***************************************************************************)
Ends == {AccLength(buffer)[i] : i \in 1 .. MaxWriteOps}

ReadsAtPosition ==
  [][\A t \in Threads :
       /\ pc[t] = "read_copy" /\ pc'[t] = "return" =>
            /\ pos'[t] <= Len(FlattenSeq(Commands))
            /\ ubuf'[t] = SubSeq(FlattenSeq(Commands), pos[t] + 1, pos'[t])
            /\ pos'[t] = pos[t] + req[t].count \/ pos'[t] \in Ends
       /\ pc[t] = "read" /\ pc'[t] = "return" =>
            pos[t] >= Len(FlattenSeq(Commands))
    ]_vars

(***************************************************************************)
(* A call that fails (EFAULT, ENOMEM or ERESTARTSYS) changes neither the   *)
(* commands nor the partial command nor any position.                      *)
(***************************************************************************)
FailedCallsChangeNothing ==
  [][\A t \in Threads :
       pc[t] \notin {"user", "return"} /\ pc'[t] = "user"
         => UNCHANGED <<Commands, Partial, fpos>>]_vars

(***************************************************************************)
(* Every read and write returns to user space: no path of the handlers     *)
(* keeps the mutex.                                                        *)
(***************************************************************************)
CallsReturn == \A t \in Threads : pc[t] # "user" ~> pc[t] = "user"

-----------------------------------------------------------------------------
(***************************************************************************)
(* The comment in aesd_write: "Set f_pos to end of buffer, since we        *)
(* appended to end".                                                       *)
(***************************************************************************)
WriteMovesToEnd ==
  [][\A t \in Threads : pc[t] = "write_copy" /\ pc'[t] = "return"
       => pos'[t] = BufferSize(buffer')]_vars

(***************************************************************************)
(* The comment in aesd_cleanup_module: "cleanup AESD specific poritions    *)
(* here as necessary"; unloading returns every block.                      *)
(***************************************************************************)
UnloadFreesEverything == module = "out" => alloc = {}
=============================================================================
