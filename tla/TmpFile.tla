------------------------------- MODULE TmpFile -------------------------------
(***************************************************************************)
(* The file the default build of aesdsocket keeps: every connection        *)
(* handler (connection.c) appends the packet of its client and sends the   *)
(* whole file back, the timer thread (signal.c) appends timestamps.        *)
(* putchars (utils.c) may need several writes for one packet; the mutex    *)
(* keeps them together.  Readers of the file do not take it.               *)
(*                                                                         *)
(* A byte is its writer, the number of the writer's packet and its index   *)
(* in the packet.  Bytes of one file position are told apart that way.     *)
(*                                                                         *)
(* The code also looks at the results of pthread_mutex_lock and            *)
(* pthread_mutex_unlock.  The mutex is a default one: locking it fails for *)
(* no thread, and no thread unlocks it that has not locked it before.      *)
(* There is no step for their failing.                                     *)
(***************************************************************************)
EXTENDS Integers, Sequences, SequencesExt

CONSTANTS
  Handlers, Timer,
  Nobody,        \* the holder of the mutex when it is not held
  MaxPacket,     \* bound on the length of a packet
  DateSize,      \* DATESIZE
  ConnBufSize,   \* CONN_BUFSIZE
  MaxStamps      \* bound on the number of timestamps

ASSUME TmpFileAssumption ==
  /\ Timer \notin Handlers /\ Nobody \notin Handlers \cup {Timer}
  /\ MaxPacket \in Nat /\ MaxStamps \in Nat
  /\ DateSize \in Nat \ {0} /\ ConnBufSize \in Nat \ {0}

Writers == Handlers \cup {Timer}

VARIABLES
  file,          \* the bytes of the file
  mutex,         \* the holder of write_mutex
  pc,
  packet,        \* the bytes putchars has been given
  left,          \* bytes_left of putchars or of sock_putchars
  written,       \* the packets each writer has begun
  abort,         \* abort, or write_status < 0 before it is looked at
  fpos,          \* the position of each handler's descriptor
  buffer,        \* the bytes a handler has read
  sent           \* the bytes its client has been sent

vars == <<file, mutex, pc, packet, left, written, abort, fpos, buffer, sent>>
reply == <<fpos, buffer, sent>>

Init ==
  /\ file = << >> /\ mutex = Nobody
  /\ pc = [w \in Writers |-> IF w = Timer THEN "wait" ELSE "open"]
  /\ packet = [w \in Writers |-> << >>]
  /\ left = [w \in Writers |-> 0]
  /\ written = [w \in Writers |-> 0]
  /\ abort = [w \in Writers |-> FALSE]
  /\ fpos = [h \in Handlers |-> 0]
  /\ buffer = [h \in Handlers |-> << >>]
  /\ sent = [h \in Handlers |-> << >>]

Goto(w, label) == pc' = [pc EXCEPT ![w] = label]

(* A call fails: abort is set and the thread cleans up.                    *)
Fail(w) ==
  /\ abort' = [abort EXCEPT ![w] = TRUE]
  /\ Goto(w, "close")

-----------------------------------------------------------------------------
(* open creates the file or leaves it as it is: O_APPEND, no O_TRUNC.      *)
Open(h) ==
  /\ pc[h] = "open"
  /\ \/ Goto(h, "recv") /\ UNCHANGED abort
     \/ Fail(h)
  /\ UNCHANGED <<file, mutex, packet, left, written, reply>>

(* A packet of n bytes is there to be written.                             *)
Packet(w, n) ==
  /\ written' = [written EXCEPT ![w] = @ + 1]
  /\ packet' = [packet EXCEPT ![w] = [i \in 1 .. n |-> <<w, written[w] + 1, i>>]]
  /\ left' = [left EXCEPT ![w] = n]
  /\ Goto(w, "lock")
  /\ UNCHANGED abort

(* sock_getline returns a packet or NULL.                                  *)
Recv(h) ==
  /\ pc[h] = "recv"
  /\ \/ \E n \in 1 .. MaxPacket : Packet(h, n)
     \/ Fail(h) /\ UNCHANGED <<packet, left, written>>
  /\ UNCHANGED <<file, mutex, reply>>

(* SIGALRM: the timer thread formats the time, which may fail.             *)
Stamp ==
  /\ pc[Timer] = "wait"
  /\ written[Timer] < MaxStamps
  /\ \/ Packet(Timer, DateSize)
     \/ Fail(Timer) /\ UNCHANGED <<packet, left, written>>
  /\ UNCHANGED <<file, mutex, reply>>

(* The mutex is free; a writer that goes ahead without it is a mutant.     *)
MutexIgnored == TRUE
MutexFree == mutex = Nobody

Lock(w) ==
  /\ pc[w] = "lock"
  /\ MutexFree
  /\ mutex' = w
  /\ Goto(w, "write")
  /\ UNCHANGED <<file, packet, left, written, abort, reply>>

(***************************************************************************)
(* putchars: each write appends some of the bytes left, at the end of the  *)
(* file, where it also leaves the position of the descriptor.              *)
(***************************************************************************)
PieceFromStart(p, bytes_left, n) == SubSeq(p, 1, n)

Piece(p, bytes_left, n) ==
  SubSeq(p, Len(p) - bytes_left + 1, Len(p) - bytes_left + n)

Write(w) ==
  /\ pc[w] = "write" /\ left[w] > 0 /\ ~abort[w]
  /\ \/ \E n \in 1 .. left[w] :
          /\ file' = file \o Piece(packet[w], left[w], n)
          /\ left' = [left EXCEPT ![w] = @ - n]
          /\ fpos' = [h \in Handlers |-> IF h = w THEN Len(file') ELSE fpos[h]]
          /\ UNCHANGED abort
     \/ abort' = [abort EXCEPT ![w] = TRUE] /\ UNCHANGED <<file, left, fpos>>
  /\ UNCHANGED <<mutex, pc, packet, written, buffer, sent>>

(* The mutex when putchars has returned; only the success path unlocks.    *)
MutexAfterKept(w) == IF abort[w] THEN mutex ELSE Nobody
MutexAfter(w) == Nobody

(* lseek(fd, 0, SEEK_SET)                                                  *)
SeekNot(h) == fpos[h]
SeekStart(h) == 0

(***************************************************************************)
(* putchars has returned: unlock, look at the status, then a handler       *)
(* rewinds, which may fail.                                                *)
(***************************************************************************)
Unlock(w) ==
  /\ pc[w] = "write" /\ (left[w] = 0 \/ abort[w])
  /\ mutex' = MutexAfter(w)
  /\ \/ /\ Goto(w, IF abort[w] THEN "close" ELSE IF w = Timer THEN "wait" ELSE "read")
        /\ fpos' = [h \in Handlers |-> IF h = w /\ ~abort[w] THEN SeekStart(h) ELSE fpos[h]]
        /\ UNCHANGED abort
     \/ /\ w # Timer /\ ~abort[w]
        /\ Fail(w)
        /\ UNCHANGED fpos
  /\ UNCHANGED <<file, packet, left, written, buffer, sent>>

-----------------------------------------------------------------------------
(* read returns up to ConnBufSize bytes, 0 at the end of the file.         *)
Read(h) ==
  LET n == IF Len(file) - fpos[h] < ConnBufSize THEN Len(file) - fpos[h] ELSE ConnBufSize
  IN  /\ pc[h] = "read"
      /\ \/ /\ buffer' = [buffer EXCEPT ![h] = SubSeq(file, fpos[h] + 1, fpos[h] + n)]
            /\ fpos' = [fpos EXCEPT ![h] = @ + n]
            /\ left' = [left EXCEPT ![h] = n]
            /\ Goto(h, IF n = 0 THEN "close" ELSE "send")
            /\ UNCHANGED abort
         \/ Fail(h) /\ UNCHANGED <<buffer, fpos, left>>
      /\ UNCHANGED <<file, mutex, packet, written, sent>>

(* sock_putchars: each send takes some of the bytes left.                  *)
Send(h) ==
  /\ pc[h] = "send"
  /\ \/ \E n \in 1 .. left[h] :
          /\ sent' = [sent EXCEPT ![h] = @ \o Piece(buffer[h], left[h], n)]
          /\ left' = [left EXCEPT ![h] = @ - n]
          /\ Goto(h, IF n = left[h] THEN "read" ELSE "send")
          /\ UNCHANGED abort
     \/ Fail(h) /\ UNCHANGED <<sent, left>>
  /\ UNCHANGED <<file, mutex, packet, written, fpos, buffer>>

(* The labels cleanup and cleanup_fd, and the end of the timer thread.     *)
Close(w) ==
  /\ pc[w] = "close"
  /\ Goto(w, "closed")
  /\ abort' \in {abort, [abort EXCEPT ![w] = TRUE]}
  /\ UNCHANGED <<file, mutex, packet, left, written, reply>>

-----------------------------------------------------------------------------
HandlerStep(h) == Open(h) \/ Recv(h) \/ Read(h) \/ Send(h)

WriterStep(w) == Write(w) \/ Unlock(w) \/ Close(w)

Next ==
  \/ \E h \in Handlers : HandlerStep(h)
  \/ Stamp
  \/ \E w \in Writers : Lock(w) \/ WriterStep(w)

Spec == Init /\ [][Next]_vars

(***************************************************************************)
(* The scheduler runs a thread that writes; a thread that waits for the    *)
(* mutex gets it if it is released again and again.  Nothing is assumed of *)
(* the clients.                                                            *)
(***************************************************************************)
FairSpec ==
  /\ Spec
  /\ \A w \in Writers : WF_vars(WriterStep(w)) /\ SF_vars(Lock(w))

-----------------------------------------------------------------------------
(***************************************************************************)
(* Packets and timestamps are not mixed in the file: a byte is followed by *)
(* the next byte of its packet or, if it is the last one or its writer's   *)
(* write failed half way, by the first byte of another packet.             *)
(***************************************************************************)
EndsPacket(b) == b[3] = Len(packet[b[1]]) \/ abort[b[1]]

PacketsUnmixed ==
  /\ file # << >> => file[1][3] = 1
  /\ \A i \in 1 .. Len(file) - 1 :
       LET b == file[i]
           c == file[i + 1]
       IN  \/ c = <<b[1], b[2], b[3] + 1>>
           \/ c[3] = 1 /\ (b[2] < written[b[1]] \/ EndsPacket(b))

(***************************************************************************)
(* What a client gets is a prefix of the file, also while others append to *)
(* it between two reads, and if its handler ends without an error it       *)
(* contains the client's whole packet.                                     *)
(***************************************************************************)
ReplyHoldsPacket ==
  \A h \in Handlers :
    /\ IsPrefix(sent[h], file)
    /\ pc[h] = "closed" /\ ~abort[h] => \A i \in 1 .. Len(packet[h]) :
         packet[h][i] \in Range(sent[h])

(* Every thread that wants to write to the file gets the mutex.            *)
WaitersGetMutex == \A w \in Writers : pc[w] = "lock" ~> pc[w] = "write"
=============================================================================
