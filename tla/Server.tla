------------------------------- MODULE Server -------------------------------
(***************************************************************************)
(* The threads of aesdsocket (server/src/aesdsocket.c and signal.c, built  *)
(* without USE_AESD_CHAR_DEVICE): the main thread accepts connections,     *)
(* keeps a singly linked list of them and joins their handlers; the timer  *)
(* thread writes timestamps; SIGTERM and SIGINT ask the server to stop.    *)
(*                                                                         *)
(* A handler (connection.c) is modelled up to what the list depends on:    *)
(* that it opens the file, serves its client, clears is_active, stores its *)
(* result in the list cell and exits.  What passes through the file and    *)
(* the socket is not in this module.                                       *)
(***************************************************************************)
EXTENDS Integers, FiniteSets

CONSTANTS
  Cells,         \* what malloc(sizeof(struct cl_entry)) may return
  NULL,
  Backlog,       \* bound on the connections waiting to be accepted
  Creates,       \* the possible outcomes of pthread_create: TRUE is success
  Signals        \* the signals that may be raised

ASSUME ServerAssumption ==
  /\ NULL \notin Cells /\ IsFiniteSet(Cells)
  /\ Backlog \in Nat
  /\ Creates \subseteq BOOLEAN /\ TRUE \in Creates
  /\ Signals \subseteq {"SIGTERM", "SIGINT", "SIGALRM"}

VARIABLES
  main,          \* where the main thread is
  head,          \* head.slh_first
  tail,          \* tail
  next,          \* entries.sle_next of each cell, freed ones included
  heap,          \* the allocated cells
  active,        \* is_active of each cell
  descriptor,    \* positive while a client is served, then the result
  thread,        \* the thread whose id is in each cell
  previous,      \* the two pointers of the join loop
  current,
  abort,         \* main's abort
  sig_exit,
  pending,       \* signals pending for the process
  timer,         \* where the timer thread is
  killed,        \* SIGTERM is pending for the timer thread alone
  waiting,       \* connections in the listen queue
  tmpfile        \* whether TMPFILE exists

list    == <<head, tail, next, heap>>
handler == <<active, descriptor, thread>>
scan    == <<previous, current>>
signals == <<sig_exit, pending, killed>>
vars    == <<main, list, handler, scan, abort, signals, timer, waiting, tmpfile>>

Pointers == Cells \cup {NULL}

Init ==
  /\ main = "loop" /\ abort = FALSE
  /\ head = NULL /\ tail = NULL /\ heap = {}
  /\ next = [c \in Cells |-> NULL]
  /\ active = [c \in Cells |-> FALSE]
  /\ descriptor = [c \in Cells |-> 0]
  /\ thread = [c \in Cells |-> "none"]
  /\ previous = NULL /\ current = NULL
  /\ sig_exit = FALSE /\ pending = {} /\ killed = FALSE
  /\ timer = "start"
  /\ waiting = 0
  /\ tmpfile = FALSE

Running == main \notin {"exited", "crashed"}

-----------------------------------------------------------------------------
(* The cells a walk from head visits, at most as many as there are cells.  *)
Walk ==
  LET w[i \in 0 .. Cardinality(Cells)] ==
        IF i = 0 THEN head
        ELSE IF w[i - 1] = NULL THEN NULL ELSE next[w[i - 1]]
  IN  w

Listed == {Walk[i] : i \in 0 .. Cardinality(Cells)} \ {NULL}

(***************************************************************************)
(* Linking a new cell: after tail when there is one, at the head           *)
(* otherwise.  tail may point to a freed cell, whose memory still has its  *)
(* last next pointer and takes the store.                                  *)
(***************************************************************************)
LinkAfterTail(c) ==
  IF tail # NULL
  THEN /\ next' = [next EXCEPT ![c] = next[tail], ![tail] = c]
       /\ head' = head
  ELSE /\ next' = [next EXCEPT ![c] = head]
       /\ head' = c

(* Only the first cell is taken off the list.                              *)
UnlinkFirstOnly(c) ==
  /\ head' = IF c = head THEN next[c] ELSE head
  /\ next' = next

(* SLIST_REMOVE, or SLIST_REMOVE_HEAD for the first cell.                  *)
Unlink(c) ==
  IF c = head
  THEN /\ head' = next[c]
       /\ next' = next
  ELSE /\ head' = head
       /\ next' = [next EXCEPT ![CHOOSE p \in Listed : next[p] = c] = next[c]]

(* free of a cell; a thread that has been joined is gone.                  *)
Free(c) ==
  /\ heap' = heap \ {c}
  /\ thread' = [thread EXCEPT ![c] = IF @ = "exited" THEN "none" ELSE @]
  /\ active' = [active EXCEPT ![c] = FALSE]
  /\ descriptor' = [descriptor EXCEPT ![c] = 0]

(* pthread_join returns when the handler has exited ...                    *)
JoinableAtOnce(c) == TRUE
Joinable(c) == thread[c] = "exited"

(* ... and a negative result ends the server.                              *)
AbortAfterIgnored(c) == abort
AbortAfter(c) == abort \/ descriptor[c] < 0

-----------------------------------------------------------------------------
(* while (!abort && !sig_exit)                                             *)
MainLoop ==
  /\ main = "loop"
  /\ main' = IF abort \/ sig_exit THEN "join_all" ELSE "accept"
  /\ UNCHANGED <<list, handler, scan, abort, signals, timer, waiting, tmpfile>>

(***************************************************************************)
(* accept returns a connection: allocate its cell, start its handler and   *)
(* link the cell.  pthread_create reports failure by a positive number,    *)
(* which the test error < 0 does not see.                                  *)
(***************************************************************************)
Accept ==
  /\ main = "accept"
  /\ waiting > 0
  /\ waiting' = waiting - 1
  /\ \E c \in Cells \ heap, created \in Creates :
       /\ heap' = heap \cup {c}
       /\ active' = [active EXCEPT ![c] = TRUE]
       /\ descriptor' = [descriptor EXCEPT ![c] = 1]
       /\ thread' = [thread EXCEPT ![c] = IF created THEN "start" ELSE "none"]
       /\ LinkAfterTail(c)
       /\ tail' = c
  /\ previous' = NULL
  /\ current' = head'
  /\ main' = "scan"
  /\ UNCHANGED <<abort, signals, timer, tmpfile>>

(* accept has nothing: EAGAIN on the nonblocking socket.                   *)
AcceptNothing ==
  /\ main = "accept"
  /\ waiting = 0
  /\ previous' = NULL
  /\ current' = head
  /\ main' = "scan"
  /\ UNCHANGED <<list, handler, abort, signals, timer, waiting, tmpfile>>

AcceptFails ==
  /\ main = "accept"
  /\ abort' = TRUE
  /\ main' = "join_all"
  /\ UNCHANGED <<list, handler, scan, signals, timer, waiting, tmpfile>>

(* The join loop: past a cell whose handler is active ...                  *)
ScanSkip ==
  /\ main = "scan"
  /\ current # NULL
  /\ active[current]
  /\ previous' = current
  /\ current' = next[current]
  /\ UNCHANGED <<main, list, handler, abort, signals, timer, waiting, tmpfile>>

(* Where it goes on: behind previous, or with the first cell.              *)
AfterRemovedRestarts == head'
AfterRemoved == IF previous # NULL THEN next'[previous] ELSE head'

(* ... joining one that is not, which waits for its thread to exit ...     *)
ScanJoin ==
  /\ main = "scan"
  /\ current # NULL
  /\ ~active[current]
  /\ Joinable(current)
  /\ abort' = AbortAfter(current)
  /\ Unlink(current)
  /\ Free(current)
  /\ current' = AfterRemoved
  /\ UNCHANGED <<main, tail, previous, signals, timer, waiting, tmpfile>>

(* ... to the end of the list, where the loop's pointers go out of scope.  *)
ScanEnd ==
  /\ main = "scan"
  /\ current = NULL
  /\ previous' = NULL
  /\ main' = "loop"
  /\ UNCHANGED <<list, handler, current, abort, signals, timer, waiting, tmpfile>>

-----------------------------------------------------------------------------
(* The last loop: join and free the first cell until the list is empty.    *)
JoinFirst ==
  /\ main = "join_all"
  /\ head # NULL
  /\ Joinable(head)
  /\ abort' = AbortAfter(head)
  /\ Unlink(head)
  /\ Free(head)
  /\ UNCHANGED <<main, tail, scan, signals, timer, waiting, tmpfile>>

(***************************************************************************)
(* pthread_join of a thread id that pthread_create never set: the program  *)
(* dies, or the call fails and whatever retval points to is the result.    *)
(***************************************************************************)
JoinGarbage ==
  /\ main = "join_all"
  /\ head # NULL
  /\ thread[head] = "none"
  /\ \/ /\ main' = "crashed"
        /\ UNCHANGED <<list, handler, abort>>
     \/ /\ \E negative \in BOOLEAN : abort' = (abort \/ negative)
        /\ Unlink(head)
        /\ Free(head)
        /\ UNCHANGED <<main, tail>>
  /\ UNCHANGED <<scan, signals, timer, waiting, tmpfile>>

(* The list is empty: pthread_kill(timer_thread, SIGTERM) ...              *)
TimerNotKilled == FALSE
TimerKilled == timer # "exited"

KillTimer ==
  /\ main = "join_all"
  /\ head = NULL
  /\ killed' = TimerKilled
  /\ main' = "join_timer"
  /\ UNCHANGED <<list, handler, scan, abort, sig_exit, pending, timer, waiting, tmpfile>>

(* ... then join it and remove the file ...                                *)
JoinTimer ==
  /\ main = "join_timer"
  /\ timer = "exited"
  /\ tmpfile' = FALSE
  /\ main' = "return"
  /\ UNCHANGED <<list, handler, scan, abort, signals, timer, waiting>>

(* ... and return from main, which ends the threads that are left.         *)
Return ==
  /\ main = "return"
  /\ main' = "exited"
  /\ UNCHANGED <<list, handler, scan, abort, signals, timer, waiting, tmpfile>>

-----------------------------------------------------------------------------
(* conn_handler opens the file, which creates it, or fails to.             *)
HandlerOpen(c) ==
  /\ Running /\ thread[c] = "start"
  /\ \/ /\ tmpfile' = TRUE
        /\ thread' = [thread EXCEPT ![c] = "serve"]
     \/ /\ thread' = [thread EXCEPT ![c] = "fail"]
        /\ UNCHANGED tmpfile
  /\ UNCHANGED <<main, list, active, descriptor, scan, abort, signals, timer, waiting>>

(* It serves its client, with or without an error.                         *)
HandlerServe(c) ==
  /\ Running /\ thread[c] = "serve"
  /\ \E result \in {"ok", "fail"} : thread' = [thread EXCEPT ![c] = result]
  /\ UNCHANGED <<main, list, active, descriptor, scan, abort, signals, timer, waiting, tmpfile>>

(* connection->is_active = false                                           *)
HandlerClose(c) ==
  /\ Running /\ thread[c] \in {"ok", "fail"} /\ active[c]
  /\ active' = [active EXCEPT ![c] = FALSE]
  /\ UNCHANGED <<main, list, descriptor, thread, scan, abort, signals, timer, waiting, tmpfile>>

(* The descriptor becomes the storage of the result.                       *)
ResultErrno(c) == IF thread[c] = "ok" THEN 0 ELSE -5
Result(c) == IF thread[c] = "ok" THEN 0 ELSE -1

HandlerExit(c) ==
  /\ Running /\ thread[c] \in {"ok", "fail"} /\ ~active[c]
  /\ descriptor' = [descriptor EXCEPT ![c] = Result(c)]
  /\ thread' = [thread EXCEPT ![c] = "exited"]
  /\ UNCHANGED <<main, list, active, scan, abort, signals, timer, waiting, tmpfile>>

-----------------------------------------------------------------------------
(* timer_handler blocks SIGTERM and SIGALRM ...                            *)
TimerMask ==
  /\ Running /\ timer = "start"
  /\ timer' = "setup"
  /\ UNCHANGED <<main, list, handler, scan, abort, signals, waiting, tmpfile>>

(* ... opens the file and arms the timer, or gives up.                     *)
TimerSetup ==
  /\ Running /\ timer = "setup"
  /\ \/ timer' = "loop" /\ tmpfile' = TRUE
     \/ timer' = "exited" /\ tmpfile' \in {tmpfile, TRUE}
  /\ UNCHANGED <<main, list, handler, scan, abort, signals, waiting>>

TimerLoop ==
  /\ Running /\ timer = "loop"
  /\ timer' = IF sig_exit THEN "exited" ELSE "sigwait"
  /\ UNCHANGED <<main, list, handler, scan, abort, signals, waiting, tmpfile>>

(* sigwait takes a pending signal of its set: SIGTERM ends the thread.     *)
TimerSigwait ==
  /\ Running /\ timer = "sigwait"
  /\ \/ /\ killed
        /\ killed' = FALSE
        /\ timer' = "exited"
        /\ UNCHANGED pending
     \/ /\ "SIGTERM" \in pending
        /\ pending' = pending \ {"SIGTERM"}
        /\ timer' = "exited"
        /\ UNCHANGED killed
     \/ /\ "SIGALRM" \in pending
        /\ pending' = pending \ {"SIGALRM"}
        /\ timer' = "stamp"
        /\ UNCHANGED killed
  /\ UNCHANGED <<main, list, handler, scan, abort, sig_exit, waiting, tmpfile>>

(* The timestamp is written, or one of the calls fails.                    *)
TimerStamp ==
  /\ Running /\ timer = "stamp"
  /\ timer' \in {"loop", "exited"}
  /\ UNCHANGED <<main, list, handler, scan, abort, signals, waiting, tmpfile>>

-----------------------------------------------------------------------------
(* The kernel and the outside world: a client connects (as many at a time  *)
(* as there are cells), the armed timer expires, a signal is sent.         *)
Connect ==
  /\ Running
  /\ waiting < Backlog
  /\ Cardinality(heap) + waiting < Cardinality(Cells)
  /\ waiting' = waiting + 1
  /\ UNCHANGED <<main, list, handler, scan, abort, signals, timer, tmpfile>>

Raise(sig) ==
  /\ Running
  /\ sig \notin pending
  /\ sig = "SIGALRM" => timer \in {"loop", "sigwait", "stamp"}
  /\ pending' = pending \cup {sig}
  /\ UNCHANGED <<main, list, handler, scan, abort, sig_exit, timer, killed, waiting, tmpfile>>

(***************************************************************************)
(* _exit_handler runs: in the main thread or a connection handler, which   *)
(* block neither signal (the timer thread does not block SIGINT either),   *)
(* or in the timer thread for a SIGTERM it has not blocked yet.            *)
(***************************************************************************)
ExitHandler ==
  /\ Running
  /\ \/ /\ \E sig \in pending \cap {"SIGTERM", "SIGINT"} : pending' = pending \ {sig}
        /\ UNCHANGED killed
     \/ /\ killed /\ timer = "start"
        /\ killed' = FALSE
        /\ UNCHANGED pending
  /\ sig_exit' = TRUE
  /\ UNCHANGED <<main, list, handler, scan, abort, timer, waiting, tmpfile>>

-----------------------------------------------------------------------------
MainStep ==
  \/ MainLoop \/ Accept \/ AcceptNothing
  \/ ScanSkip \/ ScanJoin \/ ScanEnd
  \/ JoinFirst \/ JoinGarbage \/ KillTimer \/ JoinTimer \/ Return

HandlerStep(c) == HandlerOpen(c) \/ HandlerServe(c) \/ HandlerClose(c) \/ HandlerExit(c)

TimerStep == TimerMask \/ TimerSetup \/ TimerLoop \/ TimerSigwait \/ TimerStamp

Next ==
  \/ MainStep \/ AcceptFails
  \/ \E c \in Cells : HandlerStep(c)
  \/ TimerStep
  \/ Connect
  \/ \E sig \in Signals : Raise(sig)
  \/ ExitHandler

Spec == Init /\ [][Next]_vars

(***************************************************************************)
(* The scheduler runs every thread that can run and delivers signals.      *)
(* That a handler gets to its end also takes a client that sends a line:   *)
(* this is an assumption about clients, not about the code.                *)
(***************************************************************************)
FairSpec ==
  /\ Spec
  /\ WF_vars(MainStep)
  /\ WF_vars(TimerStep)
  /\ WF_vars(ExitHandler)
  /\ \A c \in Cells : WF_vars(HandlerStep(c))

(* The same with clients that may stay silent: a handler's wait for its    *)
(* line need not end.                                                      *)
SilentSpec ==
  /\ Spec
  /\ WF_vars(MainStep)
  /\ WF_vars(TimerStep)
  /\ WF_vars(ExitHandler)
  /\ \A c \in Cells : WF_vars(HandlerOpen(c) \/ HandlerClose(c) \/ HandlerExit(c))

-----------------------------------------------------------------------------
TypeOK ==
  /\ main \in {"loop", "accept", "scan", "join_all", "join_timer", "return",
             "exited", "crashed"}
  /\ head \in Pointers /\ tail \in Pointers
  /\ next \in [Cells -> Pointers]
  /\ heap \subseteq Cells
  /\ active \in [Cells -> BOOLEAN]
  /\ descriptor \in [Cells -> {-1, 0, 1}]
  /\ thread \in [Cells -> {"none", "start", "serve", "ok", "fail", "exited"}]
  /\ previous \in Pointers /\ current \in Pointers
  /\ abort \in BOOLEAN /\ sig_exit \in BOOLEAN
  /\ pending \subseteq Signals
  /\ timer \in {"start", "setup", "loop", "sigwait", "stamp", "exited"}
  /\ killed \in BOOLEAN
  /\ waiting \in 0 .. Backlog
  /\ tmpfile \in BOOLEAN

(***************************************************************************)
(* What the list links is allocated and ends: no cell of it is freed, and  *)
(* no walk along it goes round, although main appends after a tail that    *)
(* may have been freed.                                                    *)
(***************************************************************************)
ListIsSound ==
  /\ Listed \subseteq heap
  /\ Walk[Cardinality(Cells)] = NULL

(***************************************************************************)
(* A handler stores is_active and its result in its cell, so the cell must *)
(* stay allocated until the thread has exited.                             *)
(***************************************************************************)
HandlersOwnTheirCells ==
  \A c \in Cells : thread[c] \in {"start", "serve", "ok", "fail"} => c \in heap

(***************************************************************************)
(* The pointers of the join loop are to listed cells next to each other,   *)
(* also after the cell between them was removed.                           *)
(***************************************************************************)
JoinLoopPointers ==
  main = "scan" =>
    /\ {previous, current} \subseteq Listed \cup {NULL}
    /\ current = IF previous = NULL THEN head ELSE next[previous]

(***************************************************************************)
(* A cell is freed only after its handler exited (or when it never had     *)
(* one), and the error of a handler whose cell is freed is never           *)
(* forgotten: *retval is read after the handler stored it, and abort stays *)
(* set.                                                                    *)
(***************************************************************************)
FreedAfterExit ==
  [][\A c \in heap \ heap' :
       /\ thread[c] \in {"exited", "none"}
       /\ descriptor[c] < 0 => abort']_vars

(***************************************************************************)
(* Once a signal handler has run the server ends, provided its clients let *)
(* their handlers end: the join loops and the timer thread do not block.   *)
(***************************************************************************)
SignalEndsServer == sig_exit ~> main = "exited"

-----------------------------------------------------------------------------
(***************************************************************************)
(* The comments "Join all remaining threads (keep removing first element   *)
(* until empty)" and "Remove temporary file": at the end no handler's cell *)
(* is left and the file is gone.                                           *)
(***************************************************************************)
AllJoinedAtExit == main = "exited" => heap = {} /\ ~tmpfile

(***************************************************************************)
(* The comment "Keep accepting connections until receiving either a SIGINT *)
(* or a SIGTERM": the server stops after one of them.                      *)
(***************************************************************************)
StopsOnSignal == "SIGTERM" \in pending \/ "SIGINT" \in pending ~> ~Running

(***************************************************************************)
(* The comment "Register SIGINT and SIGTERM as (graceful) exit signals":   *)
(* once the signal was taken main gets past its joins, without the help of *)
(* the clients.                                                            *)
(***************************************************************************)
GracefulExit == sig_exit ~> main \in {"join_timer", "return", "exited"}

(***************************************************************************)
(* What main joins is a thread ("Join all remaining threads").             *)
(***************************************************************************)
JoinsThreads == main = "join_all" /\ head # NULL => thread[head] # "none"
=============================================================================
