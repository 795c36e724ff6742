# Verification of the AESD character driver and socket server

TLA+ models of the programs of this repository, the TLC runs that check them on
small instances and TLAPS proofs for what holds at every size. `PROJECT.json`
lists components, runs, mutants, source map, findings, hazards and theorems.

    tlc -workers 2 -config MCAesdChar.cfg MCAesdChar     # one run
    tlc -workers 2 -config Programs.cfg Programs         # a module without an MC module
    tlapm CircularBufferProofs.tla                       # proofs

## 1. Inventory

| part | state | operations | hard behaviour |
|---|---|---|---|
| circular buffer (`aesd-circular-buffer.c`) | array of entries, `in_offs`, `out_offs`, `full` | init, add_entry, find_entry_offset_for_fpos, size | wrap, full flag, entries of size 0, position just past an entry |
| driver (`main.c`) | the ring, the working entry, the mutex, kmalloc'ed blocks; per file `f_pos` | open, release, read, write, llseek, ioctl, module load and unload | sleeping copies under the mutex, faults and failed allocations half way, ownership of blocks, positions copied outside the mutex |
| server main loop (`aesdsocket.c`) | linked list of connections with `head` and `tail`, `abort`, `sig_exit` | accept, spawn, join loop, final join, stop the timer | handlers finishing at any moment, cells freed and reused, shutdown |
| timer and signals (`signal.c`) | signal mask, armed timer | block, sigwait, write a timestamp, end | one signal, several threads that may take it |
| connection handler (`connection.c`) | packet, file position, `is_active`, result | open, receive, write under the mutex, reply, close | interleaving with other handlers and the timer, a client that never finishes |
| socket input and output (`socket.c`) | line buffer, length, capacity | getline, putchars | partial receives, NULs in the stream, end of stream, buffer reuse, a client that does not read |
| start-up (`main` of `aesdsocket.c`, `sock_create`, `daemonize`) | descriptors, process attributes | socket, bind, fork, redirect, listen | order of the steps, descriptors reused, any call failing |
| utilities (`utils.c`) | none | daemonize, putchars | partial writes |
| `systemcalls.c` | child process, descriptors of both processes | system, fork/exec/wait, redirect | wait statuses, failing calls, descriptors of two processes |
| `threading.c` | mutex, thread_data | wait, lock, hold, release | failing sleeps, overflow of the times |
| `writer.c` | file, pointer, count | truncate, write loop | partial and failing writes |
| scripts, image build, CI, tests | none | | build and I/O only, not modelled |

How they interact. The server's handlers call the driver (device build) or
append to a temporary file (default build); handlers and the timer share a mutex
for writing; handlers talk to main through the list cell (`is_active`,
`descriptor`) and `pthread_join`; signals reach whichever thread takes them. The
driver's handlers share one device and serialise on its mutex; the kernel's VFS
calls them with a copy of the file position.

What makes each part correct. The ring keeps the most recent entries and finds
every byte. The driver never uses a freed block and never frees one twice, a
write happens at once or not at all, a read delivers the bytes at its position,
a failed call changes nothing, every call returns. The server never touches a
freed cell, never forgets a handler or its error, and stops when told to. A line
is what the client sent up to its newline; packets are not mixed in the file; a
reply is the content. The examples do what their comments say on every error
path.

## 2. Modules

| module | role |
|---|---|
| `CircularBuffer` | the ring as pure operators on a `struct aesd_circular_buffer` |
| `CircularBufferSpec`, `RecentWrites` | the ring driven by one adder; the abstract log of recent entries it implements |
| `AesdChar`, `CommandLog` | the driver with its threads, files and blocks; the abstract device it implements |
| `Server` | main thread, connection list, handlers, timer thread, signals |
| `Startup` | the program up to the accept loop |
| `SockGetline` | assembly of a line from what `recv` delivers |
| `TmpFile` | handlers and timer thread on the file of the default build |
| `DeviceServer` | handlers of the device build, composed with `AesdChar` |
| `Threading`, `SystemCalls`, `Writer` | the three example programs |
| `Programs` | `Startup` and the three examples side by side, one of them running per behaviour, so that one run checks them |
| `Induction` | least elements, induction on sets of numbers, functions defined by recursion |
| `CircularBufferLemmas` | the operators of the ring: shape, live entries, byte search |
| `CircularBufferProofs`, `AesdCharProofs`, `SockGetlineProofs`, `ServerProofs`, `TmpFileProofs` | theorems about the module in the name; the second one also about `DeviceServer` |
| `ProgramsProofs` | theorems about `Startup`, `Writer`, `Threading` and `SystemCalls` |
| `MC*` | values for TLC |

### The driver

`AesdChar` has one action per stretch of a handler that runs without sleeping.
`read` is `EnterRead` (VFS copies the position), `ReadFind` (take the mutex, find
the entry, clamp the count), then `ReadCopy` or `ReadFault` (the outcome of
`copy_to_user`, then unlock), then `Return` (VFS writes the position back).
`write` is `EnterWrite`, `WriteAlloc` or `WriteNoMem`, `WriteCommit` or
`WriteFault`, `Return`. A call that fails goes back to user space without
`Return`, so its position is not written back. A waiter for the mutex may be
interrupted (`LockInterrupted`). `Llseek` and `Ioctl` never sleep while holding
the mutex and are one action each; their failing cases change nothing and are
not steps.

Memory is a set of blocks. `alloc` holds what kmalloc has returned and not got
back, `content` the bytes; `kfree` empties a block, so a read of freed memory
shows as wrong bytes. `leaked` is a history variable: the blocks that the
`-EFAULT` path of `aesd_write` forgets. When a write leaves a working entry of
size 0, the code inspects the byte before the block; what it finds is a free
choice.

The VFS part (position copied in and out, negative positions refused, no lock
around them since a character device is not a regular file) and
`fixed_size_llseek` are external and modelled from their use.

### The server

`Server` models the default build, after start-up. List cells are memory that
malloc may hand out again; a freed cell keeps its `next` pointer and takes
stores, which is what the allocator's memory does when `tail` dangles. The main
thread's loop is split where other threads matter: the loop test, `accept`, each
step of the join loop, each join at the end, removing the file, returning (a
handler that was not joined may create the file again in between). A handler opens the file, serves,
clears `is_active`, stores its result, exits: the last two are separate because
main reads the flag without synchronisation. `pthread_create` reports errors by
positive numbers, which the code does not see; joining the unset thread id may
crash or return garbage. A pending process-wide SIGTERM may be taken by
`ExitHandler` (main, a handler, or the timer thread before it blocks the signal)
or by `TimerSigwait`.

`Startup` comes before: one action per call of `main`, `sock_create`,
`sig_setexit` and `daemonize` that changes the table of descriptors or the
process, and `Exit` for the failure of any of them. The kernel gives out the
lowest free descriptor, as long as there is one. Any descriptors may be open at
the start, the standard ones or others (`given`): daemonize redirects the three
standard ones and leaves the others open. The descriptor of syslog is not in the
table.

### Connections

`Server` leaves out what passes through sockets and files; four modules look at
that, each at one place.

`SockGetline` is one call of `sock_getline`. An iteration of its loop is one
action, `Receive(n)`: recv overwrites n bytes of the stack buffer, whose other
bytes stay as they were (at first anything), `strchr` and `strcpy` run to the
first NUL, the block is doubled if the new length needs it. `overrun` records a
`strcpy` past the end of the block, after which the process may abort. The stream
may hold any bytes. A NUL ends the strings that `strchr` and `strcpy` see, so
what follows it in its piece may go unnoticed: `BehindNul` names the bytes that a
NUL can reach, those less than a buffer behind it.

`TmpFile` is the default build: handlers and the timer thread take the mutex,
write their packet with `putchars` in any number of pieces, give it back, and
the handlers then read the file without it and send it in any number of pieces.
Bytes carry the packet they belong to. Every call may fail but
`pthread_mutex_lock` and `pthread_mutex_unlock`, whose results the code looks at
(after a failed lock a handler goes on to write): the mutex is a default one,
which these two refuse only when it is not initialised, and both are called in
pairs by one thread.

`DeviceServer` is the device build. A handler is a thread of `AesdChar` with a
file of its own, and its read, write, lseek and ioctl are the actions of that
module, conjoined with the steps of the handler; `io_mutex` is around the
driver's mutex. The numbers of a seek command pass through `strtoul`, `int` and
`uint32_t`; the two limits are constants. What a read returned is `unsent` until
`Send`, a step of its own that may take part of it, fail, or wait for as long as
the client does not read. `start` and `seen` record where a reply began and which
contents the device has had since.

### Examples

`Threading`: a thread sleeps, locks, sleeps, unlocks; the nanoseconds are an
`int` product and `nanosleep` refuses what is not below a second. `SystemCalls`:
caller and child run concurrently after `fork`, each with descriptors 1 and 3;
the wait status is encoded as the kernel does it and decoded as `WEXITSTATUS`
does; `system` is one step. `Writer`: each `write` takes any part of the rest.

## 3. Runs

| run | instance | shows |
|---|---|---|
| `ring` | 3 slots, 2 buffers, sizes 0 to 2 | shape, byte lookup against the concatenation, refinement of `RecentWrites` |
| `driver` | 2 threads on one shared file, ring of 2, 4 blocks, writes of nothing, `a` and `a` with a newline | ownership of blocks, reader's entry, seek, refinement of `CommandLog`, bytes delivered, failed calls |
| `driver_returns` | 2 threads, ring of 1, fairness, failing loads | every call returns |
| `server` | 3 cells, SIGTERM, thread creation may fail | list, join loop and handlers use allocated cells only |
| `server_stops` | 2 cells, all signals, fairness | after the signal handler has run the server ends |
| `getline` | buffer of 2, streams up to 5 bytes of text, newlines and NULs, every initial buffer | the length stays in the block; but for what lies shortly behind a NUL, a newline ends the loop and full pieces give the line |
| `tmpfile` | 2 handlers, a timestamp, packets up to 2 bytes, buffer of 2, fairness | packets unmixed, replies are prefixes of the file with the client's packet, every waiter gets the mutex |
| `device_server` | 2 handlers, 2 connections, ring of 1, 3 blocks, `UINT32_MAX` 7, `ULONG_MAX` 15, fairness | undisturbed replies are complete, seek commands start them at the right byte, a handler ends although two mutexes nest and other handlers may be stuck in a send, unless its own client stops reading |
| `programs` | writer: strings and old contents up to 4 characters; start-up: 6 descriptors, any of them open; threading: 2 threads, waits below, at and far above a second, fairness; system calls: 6 exit codes, 3 signals, descriptor 1 open or closed | `Writer`: old content or prefix, whole at the end. `Startup`: state and descriptors at the accept loop, meaning of the parent's success. `Threading`: life of `thread_data`; every thread returns unless the mutex was lost to a failed sleep. `SystemCalls`: results, descriptors |

Runs that show a disagreement between the code and its comments (each is a
finding in `PROJECT.json`):

| run | shows |
|---|---|
| `server_join` | `tail` dangles after its cell was freed; the next connection is never linked nor joined |
| `server_sigterm` | a SIGTERM taken by the timer thread's `sigwait` does not stop the server |
| `getline_line` | bytes behind the newline are counted in the length but not copied |

Known deviations that have no run. Each module also states, at its end, what
the comments of the repository promise and the code does not keep. These are no
properties of a run: TLC refutes them when they are put into a configuration of
the module, with the values named.

| property (module) | comment | counterexample |
|---|---|---|
| `WriteMovesToEnd` (`AesdChar`) | `main.c:155` "Set f_pos to end of buffer" | the position is one before the end, -1 on an empty ring |
| `UnloadFreesEverything` (`AesdChar`) | `main.c:327` "cleanup AESD specific poritions here" | a faulting write leaves a block allocated after unload |
| `JoinsThreads` (`Server`) | `aesdsocket.c:216` "Join all remaining threads" | `Creates` with FALSE: after an unnoticed failure of `pthread_create` main joins no thread |
| `GracefulExit` (`Server`, `SilentSpec`) | `aesdsocket.c:77` "(graceful) exit signals" | a client that sends nothing keeps main in its joins |
| `CopyFitsBlock` (`SockGetline`) | `socket.c:109` "Reallocate if updated lenght" | a doubled block has no room for the NUL |
| `EndOfStreamReturns` (`SockGetline`) | `socket.c:85` "On failure, returns a NULL pointer" | the end of a stream without a newline makes the loop spin |
| `NewlineSeen` (`SockGetline`) | `socket.c:84` "Reads characters from socket until a newline is found" | a newline behind a NUL of the same piece is not seen and the loop goes on |
| `ReplyIsContent` (`DeviceServer`) | `connection.c:48` "sends the whole content of the file" | an eviction between two reads gives a reply the device never held |
| `ListensOnCreated` (`Startup`) | `aesdsocket.c:85` "start listening for incoming connections" | daemonize overwrites a socket that got a standard descriptor |
| `ReturnedReleases` (`Threading`) | `threading.h:32` "then releases" | a hold of a second or more fails and keeps the mutex |
| `SleepsAsLong` (`Threading`) | `threading.h:31` "sleeps @param wait_to_obtain_ms number of milliseconds" | the product of milliseconds and 1000000 overflows |
| `TrueMeansExitZero` (`SystemCalls`) | `systemcalls.c:45` "executed successfully" | a child killed by a signal counts as a success |
| `FileClosedAtReturn` (`SystemCalls`) | `systemcalls.c:106` "closed at completion of the function call" | a failed fork leaves the output file open |
| `OutputReachesFile` (`SystemCalls`) | `systemcalls.c:105` "the file to write with command output" | with descriptor 1 closed the command's output is lost |

Bounds. A ring of 2 or 3 wraps several times; the driver needs ring
size + 2 blocks at once (working entry, block being filled), so 4 blocks for a
ring of 2 reach the full ring with a write in progress, and fewer after leaks
reach exhaustion. `MaxAlloc` bounds the length of a command, `Counts` and
`MaxSeek` the arguments; counts above and below the length of a command occur.
Three cells are the first number with a removal from the middle of the list.
`Connect` keeps at most `Backlog` clients waiting and no more clients than there
are cells. Positions beyond
the end (after an eviction) and -1 are reachable.
With a buffer of 2, five bytes make the block of `SockGetline` double twice. Two
handlers and the timer give every order of three writers; a reply of `TmpFile`
takes several reads with a buffer of 2. Widths and units are scaled so that the
same comparisons fall on both sides of them: in `DeviceServer` `UINT32_MAX` is 7
and `ULONG_MAX` 15, so 8 is the first number that does not fit and 16 the first
that `strtoul` cuts off; in `Threading` 5 ms are a second and 17 ms wrap to a short time. The lines of
`device_server` are an empty one, a command, and one with a byte behind its
newline, which the driver keeps as incomplete; with a ring of 1 the second
connection evicts the command of the first while its reply is being read. Six
descriptors are three more than the standard ones: start-up opens two, and one
that was open at the start may be above, below or between them; start-up with
nearly all of them taken fails.

Symmetry is used over blocks, threads and cells in runs without liveness.

Fairness. Driver: a thread in the kernel proceeds (weak fairness of the copies
and the return); taking the mutex is strongly fair because the kernel's mutex
hands itself to a waiter that keeps losing. Interruption is never forced. Server:
weak fairness of each thread and of signal delivery. That a handler ends needs a
client that sends a line: `SignalEndsServer` holds under that assumption only.
`server_sigterm` is refuted under the same fairness; `SilentSpec` is the same
without the assumption about clients. `SockGetline`: data and the end of the
stream reach a reader. `TmpFile`, `DeviceServer`, `Threading`: a thread that can
run does (in `DeviceServer` strongly, as `lseek` and `ioctl` wait for the driver's
mutex), and a mutex goes to a waiter that finds it free again and again. That is
what the scheduler gives in practice: POSIX does not promise it for pthread
mutexes. Nothing is assumed of the clients there: `Recv` and `Send` are not fair.
Deadlock is checked in no run of a program that ends.

Each property has a mutant: a faulty variant of a mapped definition, kept just
before it in the same module, which TLC shows to violate the property.

## 4. Proofs

Every invariant, action property and refinement of a passing run is a theorem, for
every value of the constants; left to TLC is what needs fairness. Few of the properties are inductive; what follows names what had to be
added to each. `PROJECT.json` lists the theorems.

**Induction over data.** The concatenation of the entries, `AccLength`, the walk
along the connection list and `NewlineAt` are recursive functions. The induction
theorems of the library take an operator, which the provers here cannot
instantiate. `Induction` therefore works with sets: `Least` (a set of naturals
that has a member has a least one), `SetInduction` and `BoundedInduction` follow,
and `RecursionExists` gives the function that a recursion over `1..N` defines. A
proof by induction over a function names the set of the indices for which the
claim fails.

**Ring** (`CircularBufferLemmas`, `CircularBufferProofs`). `RingCorrect` and
`RingTypeOK`: type and shape are inductive together, as where `out_offs` goes and
what is overwritten depend on the shape. `RingImplementsRecentWrites`: not yet
full, an addition appends; full, it drops the entry under `in_offs`, which the
shape says is the oldest. `FindLocatesAlways`: the loop over the lengths
accumulated so far (`AccLengthFacts`, `FindEntryLive`) stops at the entry that
holds the byte of the concatenation (`FlattenJoins`, `PositionsOfEntries`).

**Driver** (`AesdCharProofs`). The theorems rest on three invariants.

* `HeapInv`, for `NoDoubleOwner`, `NoDanglingNoLeak`,
  `EntriesAlwaysDescribeBlocks` and `OneThreadCopies`. `MutexHeld` keeps writers
  apart, so that one block is being filled and nobody frees an entry while another
  write commits; `FillingStarted` says that the new block begins with the working
  entry, so that the size the commit computes is the length of the block;
  `CallsHoldFiles` says that a call keeps its file open, so that no write is in
  progress when the module is unloaded; `EntriesDescribeBlocks` contains the shape
  of the ring, by which the entry overwritten is the oldest, and `OneOwner` makes
  its block owned by no other. `SeekToAlwaysFindsCommand` needs no more.
* `ReadInv`, for `DriverTypeOK`, `ReaderEntryStays` and `ReadsDeliverPosition`.
  `Reader(t)` says what the found entry has to do with the position of the read
  while the copy sleeps. The mutex keeps writers away, and `llseek` and `ioctl` of
  others move `f_pos`, not the copy of it the call works with.
* `WriteInv`, for the refinement: `Writer(t)` says that the block being filled
  holds the partial command and then the first bytes of the call.

`FailuresChangeNothing` is an argument about single steps under `HeapInv`.
`DriverImplementsCommandLog` maps the ring and the working entry to the sequence
of commands and the partial command (`CommandsAreContents`). `CommitView` is the
heart of it: completing a command in a full ring frees the oldest block and
appends the new one, and in the sequence of commands that is one step; `ReadCopy`
is the abstract read, the exit of the module the abstract reset, and all other
steps stutter (`SameView`, `AllocView`).

**Device build** (last part of `AesdCharProofs`). `HeapInv` and `ReadInv` carry
over to `DeviceSpec`, as the handlers' steps are the driver's (`DriverPart`), but
for the lengths and numbers, which the lemmas used do not bound. `InStep` says
which call of the driver a handler is in, on a file of its own; `Reply` says that
what a client has been sent is, from `start` to the position reached, the part of
every content that those seen so far are prefixes of. `CopyingKeeps` extends it by
one read, and at the end of the file (`EndOfFileAtEnd`) `UndisturbedRepliesComplete`
follows. `SeeksStartReplies` is `SeekToAgreesAt` after the conversions of the two
numbers, which keep those that fit.

**Server** (`ServerProofs`). `HandlerInv`: a cell with a running thread is
allocated because main frees it after `pthread_join` or after a join that found no
thread, never because of the `is_active` flag it reads without synchronisation;
`ResultsAreStored` (a negative `descriptor` is there only after the handler's last
store) says that the latter cell holds no error to forget. For `ListAlwaysSound` and
`JoinLoopPointersSound` `ListInv` names the cells of the list as an explicit
sequence (`Chain`), with `previous` and `current` next to each other in it
(`Passed`), and says that `tail`, if it is a listed cell, is the last one. A
dangling `tail` is allowed: a store through it goes to a cell outside the list.
That is why the list keeps its shape although new connections get lost, as
`server_join` shows.

**Files and lines.** `TmpFileProofs`: `WriteInv` says that the holder of the mutex
is the one thread that writes (`HolderWrites`), which bytes of its packet the
file has, and that at every other time the last byte in the file ends a packet or
is where a write failed (`LastByte`); `PacketsNeverMixed` follows. `ReplyOf` adds,
for every handler, that what is in its buffer lies in the file before its
position; `ClientGetsItsPacket` follows as the file only grows.
`SockGetlineProofs`: `BlockInv` for `LengthAlwaysFits` (the block is at least
`capacity` long and at most twice that, so the next doubling lengthens it, and
`capacity` is at least the buffer size, so one doubling is enough for a piece);
`LineInv` for `LoopStopsAtNewline` and `FilledPiecesKeepTheLine` (while the loop
goes on every newline received is behind a NUL; as long as every piece filled the
buffer the block holds the bytes received, but for those behind a NUL). Both rest
on what `strchr` and `strcpy` do with a piece (`CStringFacts`, `StrcpyFacts`):
the C string they see is the piece up to its first NUL, and if it has none it is
the piece and what an earlier one left behind it.

**Start-up and examples** (`ProgramsProofs`). `StartupInv` follows the socket, the
descriptors of `/dev/null` and those given at the start through the steps. `WriterInv`: pointer, offset and
length of the file are equal, count is the rest, and what is written agrees with
the string. `ThreadsInv`: who may hold the mutex; `MutexHolderReleasesOrLost` is
the safety half of `ReturnsOrMutexLost`. `CallInv`: how the states of caller and
child go together, what the wait status says of the child's end, and where the
file's descriptor is; `StatusFacts` is the arithmetic of wait statuses.

Assumptions. Each module names those on its constants. Those the code gives: the
ring size is between 1 and 255 (the offsets are `uint8_t` and `in_offs` is
incremented before it is compared), null is no block, buffer, cell or slot,
buffers hold at least one byte, exit codes are those of a byte and signals are
positive and leave the core-dump bit alone, a process may have at least the three
standard descriptors. Streams are any sequences of bytes. The cells are finitely many (memory is), which the walk
along the list needs. Nothing else is bounded in a proof: threads, files, blocks,
connections, packets and streams are arbitrary sets.

Only model-checked: everything under fairness (`CallsReturn`,
`SignalEndsServer`, `WaitersGetMutex`, `HandlersFinish`, `ReturnsOrMutexLost`),
which is out of the prover's reach. The disagreements of section 3 are
counterexamples of TLC.

## 5. Plan

The modules planned are written and the safety properties of their runs proved.
What remains, in this order:

1. `TmpFile` against an abstract file to which whole packets are appended, a failed
   write aside: the counterpart of `CommandLog` for the default build.
2. Safety halves of the liveness properties, as `MutexHolderReleasesOrLost` is for
   `ReturnsOrMutexLost`: the driver's mutex is held only by a thread whose next
   step needs nobody else, and `io_mutex` is never asked for by the holder of the
   driver's.

Not modelled: logging, host names, file modes, the shell scripts, build and CI.
`size_t` arithmetic does not wrap in the models: sizes are bounded by memory.
`malloc` of a list cell and the creation of the timer thread are assumed to
succeed, and the exit status of the server is not a variable.
The device build of the main loop differs in having no timer thread and no file
to remove, and has no run of its own. The memory that `threading.c` allocates for
its structure (the size of a pointer) is taken to be enough.
