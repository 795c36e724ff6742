--------------------------- MODULE ProgramsProofs ---------------------------
(***************************************************************************)
(* Proofs about the four programs of Programs, each for every value of its *)
(* constants: the start-up of the server, the writer, the threading        *)
(* exercise and the system call exercises.                                 *)
(***************************************************************************)
EXTENDS Writer, Startup, Threading, SystemCalls, Induction

-----------------------------------------------------------------------------
(* The start-up: the invariant says, stage by stage, what the descriptors  *)
(* refer to.                                                               *)

(* Before sock_create there is what was given.                             *)
NoSocketYet ==
  \A f \in Fds : table[f] = IF f \in given THEN "inherited" ELSE "free"

(* The socket has the lowest descriptor that was free: when it is none of  *)
(* the standard ones, those are in use.                                    *)
SocketOpened ==
  /\ sock_fd \in Fds /\ sock_fd \notin given
  /\ sock_fd > 2 => 0 .. 2 \subseteq given
  /\ \A f \in Fds : table[f] = IF f = sock_fd THEN "socket"
                                ELSE IF f \in given THEN "inherited" ELSE "free"

(* So /dev/null is beyond them too.                                        *)
NullOpened ==
  /\ sock_fd \in Fds /\ null_fd \in Fds /\ null_fd \notin given /\ null_fd # sock_fd
  /\ sock_fd > 2 => null_fd > 2
  /\ \A f \in Fds : f > 2 => table[f] = IF f = sock_fd THEN "socket"
                                         ELSE IF f = null_fd THEN "null"
                                         ELSE IF f \in given THEN "inherited" ELSE "free"

(* What a daemon's descriptors are when its socket is not a standard one.  *)
Kept(f) == IF f \in 0 .. 2 THEN "null"
           ELSE IF f = sock_fd THEN "socket"
           ELSE IF f \in given THEN "inherited" ELSE "free"

(* After daemonize the socket is the one that was created or is lost.      *)
Daemonized ==
  /\ sock_fd \in Fds
  /\ sock_fd <= 2 => table[sock_fd] # "socket"
  /\ sock_fd > 2 => \A f \in Fds : table[f] = Kept(f)

BeforeSocket == {"args", "signals", "socket"}
InDaemonize  == {"fork", "setsid", "chdir", "open", "dup2", "close"}
AfterListen  == {"fcntl", "sigmask", "accept"}

StartupInv ==
  /\ stage \in BeforeSocket \cup {"bind"} \cup InDaemonize \cup {"listen"}
               \cup AfterListen \cup {"exited"}
  /\ table \in [Fds -> {"inherited", "free", "socket", "null"}]
  /\ stage \in BeforeSocket => NoSocketYet
  /\ stage \in {"bind", "fork", "setsid", "chdir", "open"} => SocketOpened
  /\ stage = "dup2" => NullOpened
  /\ stage = "close" => NullOpened /\ \A f \in 0 .. 2 : table[f] = "null"
  /\ stage \in {"listen"} \cup AfterListen /\ daemon_mode => Daemonized
  /\ stage \in AfterListen => table[sock_fd] = "socket" /\ listening
  /\ stage \in {"sigmask", "accept"} => nonblocking
  /\ stage = "accept" => masked
  /\ stage \in InDaemonize \cup {"listen"} \cup AfterListen => bound
  /\ parent = "succeeded" => bound
  /\ stage = "args" => handled = {}
  /\ stage = "signals" => handled \in {{}, {"SIGTERM"}}
  /\ stage \notin {"args", "signals", "exited"} => handled = {"SIGTERM", "SIGINT"}

(* The kernel finds a descriptor, and it is the lowest free one.           *)
LEMMA LowestFree ==
  ASSUME \E f \in Fds : table[f] = "free"
  PROVE  /\ NewFd \in Fds /\ table[NewFd] = "free"
         /\ \A f \in Fds : table[f] = "free" => NewFd <= f
<1> DEFINE T == {f \in Fds : table[f] = "free"}
<1>1. T \subseteq Nat /\ T # {}
  BY StartupAssumption DEF Fds
<1> HIDE DEF T
<1>2. \E x \in T : \A y \in T : x <= y
  BY <1>1, Least
<1>3. Min(T) \in T /\ \A y \in T : Min(T) <= y
  BY <1>2 DEF Min
<1> QED BY <1>3 DEF NewFd, T

(* The program starts without a socket.                                    *)
LEMMA StartupInvInit == StartupInit => StartupInv
<1> SUFFICES ASSUME StartupInit PROVE StartupInv
  OBVIOUS
<1>1. table = [f \in Fds |-> IF f \in given THEN "inherited" ELSE "free"]
  BY DEF StartupInit
<1>2. NoSocketYet
  BY <1>1 DEF NoSocketYet
<1>3. table \in [Fds -> {"inherited", "free", "socket", "null"}]
  BY <1>1
<1> QED
  BY <1>2, <1>3 DEF StartupInit, StartupInv, BeforeSocket, InDaemonize, AfterListen

(* sock_create takes the lowest free descriptor.                           *)
LEMMA SockCreateKeeps ==
  ASSUME StartupInv, SockCreate
  PROVE  StartupInv'
<1>1. /\ stage = "socket" /\ stage' = "bind" /\ sock_fd' = NewFd
      /\ table' = [table EXCEPT ![NewFd] = "socket"]
      /\ UNCHANGED <<given, bound, handled, parent>> /\ FdLeft
  BY DEF SockCreate, proc
<1>2. /\ NoSocketYet /\ handled = {"SIGTERM", "SIGINT"}
      /\ table \in [Fds -> {"inherited", "free", "socket", "null"}]
  BY <1>1 DEF StartupInv, BeforeSocket
<1>3. 0 .. 2 \subseteq Fds /\ Fds \subseteq Nat
  BY StartupAssumption DEF Fds
<1>4. /\ NewFd \in Fds /\ table[NewFd] = "free"
      /\ \A f \in Fds : table[f] = "free" => NewFd <= f
  BY <1>1, LowestFree DEF FdLeft
<1>5. /\ table' \in [Fds -> {"inherited", "free", "socket", "null"}]
      /\ table'[NewFd] = "socket"
      /\ \A f \in Fds : f # NewFd => table'[f] = table[f]
  BY <1>1, <1>2, <1>4
<1>6. SocketOpened'
  <2>1. NewFd > 2 => \A f \in 0 .. 2 : table[f] # "free"
    BY <1>3, <1>4
  <2>2. NewFd \notin given /\ (NewFd > 2 => 0 .. 2 \subseteq given)
    BY <1>2, <1>3, <1>4, <2>1 DEF NoSocketYet
  <2>3. \A f \in Fds : table'[f] = IF f = NewFd THEN "socket"
                                  ELSE IF f \in given THEN "inherited" ELSE "free"
    BY <1>2, <1>5 DEF NoSocketYet
  <2>4. Fds' = Fds
    BY DEF Fds
  <2> QED BY <1>1, <1>4, <2>2, <2>3, <2>4 DEF SocketOpened
<1> QED
  BY <1>1, <1>2, <1>5, <1>6 DEF StartupInv, BeforeSocket, InDaemonize, AfterListen

(* open in daemonize: no standard descriptor is free when the socket is    *)
(* not one of them.                                                        *)
LEMMA OpenNullKeeps ==
  ASSUME StartupInv, OpenNull
  PROVE  StartupInv'
<1>1. /\ stage = "open" /\ stage' = "dup2" /\ null_fd' = NewFd
      /\ table' = [table EXCEPT ![NewFd] = "null"]
      /\ UNCHANGED <<given, sock_fd, bound, handled, parent>> /\ FdLeft
  BY DEF OpenNull, proc, socket
<1>2. /\ SocketOpened /\ handled = {"SIGTERM", "SIGINT"} /\ bound
      /\ table \in [Fds -> {"inherited", "free", "socket", "null"}]
  BY <1>1 DEF StartupInv, InDaemonize
<1>3. 0 .. 2 \subseteq Fds /\ Fds \subseteq Nat
  BY StartupAssumption DEF Fds
<1>5. NewFd \in Fds /\ table[NewFd] = "free"
  BY <1>1, LowestFree DEF FdLeft
<1>6. /\ table' \in [Fds -> {"inherited", "free", "socket", "null"}]
      /\ \A f \in Fds : f # NewFd => table'[f] = table[f]
  BY <1>1, <1>2, <1>5
<1>7. NewFd # sock_fd /\ NewFd \notin given /\ (sock_fd > 2 => NewFd > 2)
  BY <1>2, <1>3, <1>5 DEF SocketOpened
<1>8. NullOpened'
  BY <1>1, <1>2, <1>5, <1>6, <1>7 DEF NullOpened, SocketOpened, Fds
<1> QED
  BY <1>1, <1>2, <1>6, <1>8 DEF StartupInv, BeforeSocket, InDaemonize, AfterListen

(* dup2 overwrites the standard descriptors only.                          *)
LEMMA Dup2Keeps ==
  ASSUME StartupInv, Dup2
  PROVE  StartupInv'
<1>1. /\ stage = "dup2" /\ stage' = "close"
      /\ table' = [f \in Fds |-> IF f \in 0 .. 2 THEN "null" ELSE table[f]]
      /\ UNCHANGED <<given, sock_fd, null_fd, bound, handled, parent>>
  BY DEF Dup2, Redirected, proc, socket
<1>2. /\ NullOpened /\ handled = {"SIGTERM", "SIGINT"} /\ bound
      /\ table \in [Fds -> {"inherited", "free", "socket", "null"}]
  BY <1>1 DEF StartupInv, InDaemonize
<1>3. 0 .. 2 \subseteq Fds /\ Fds \subseteq Nat
  BY StartupAssumption DEF Fds
<1>4. NullOpened' /\ \A f \in 0 .. 2 : table'[f] = "null"
  BY <1>1, <1>2, <1>3 DEF NullOpened, Fds
<1>5. table' \in [Fds -> {"inherited", "free", "socket", "null"}]
  BY <1>1, <1>2
<1> QED
  BY <1>1, <1>2, <1>4, <1>5 DEF StartupInv, BeforeSocket, InDaemonize, AfterListen, Fds

(* close of the spare /dev/null.                                           *)
LEMMA CloseNullKeeps ==
  ASSUME StartupInv, CloseNull
  PROVE  StartupInv'
<1>1. /\ stage = "close" /\ stage' = "listen"
      /\ table' = [table EXCEPT ![null_fd] = "free"]
      /\ UNCHANGED <<given, sock_fd, bound, handled, parent>>
  BY DEF CloseNull, proc, socket
<1>2. /\ NullOpened /\ \A f \in 0 .. 2 : table[f] = "null"
      /\ handled = {"SIGTERM", "SIGINT"} /\ bound
      /\ table \in [Fds -> {"inherited", "free", "socket", "null"}]
  BY <1>1 DEF StartupInv, InDaemonize
<1>3. 0 .. 2 \subseteq Fds /\ Fds \subseteq Nat
  BY StartupAssumption DEF Fds
<1>4. /\ table' \in [Fds -> {"inherited", "free", "socket", "null"}]
      /\ \A f \in Fds : table'[f] = IF f = null_fd THEN "free" ELSE table[f]
  BY <1>1, <1>2 DEF NullOpened
<1>5. Daemonized'
  <2>1. sock_fd <= 2 => table'[sock_fd] # "socket"
    BY <1>2, <1>3, <1>4 DEF NullOpened
  <2>2. ASSUME sock_fd > 2, NEW f \in Fds
        PROVE  table'[f] = Kept(f)
    BY <1>2, <1>3, <1>4, <2>2 DEF NullOpened, Kept
  <2> QED BY <1>1, <1>2, <2>1, <2>2 DEF Daemonized, NullOpened, Kept, Fds
<1> QED
  BY <1>1, <1>2, <1>4, <1>5 DEF StartupInv, BeforeSocket, InDaemonize, AfterListen, Fds

(* Every step of the start-up, with every call that may fail.              *)
LEMMA StartupInvNext == StartupInv /\ [StartupNext]_startup_vars => StartupInv'
<1> SUFFICES ASSUME StartupInv, [StartupNext]_startup_vars PROVE StartupInv'
  OBVIOUS
<1> USE DEF BeforeSocket, InDaemonize, AfterListen
<1>1. ASSUME UNCHANGED <<given, table, sock_fd, null_fd>>
      PROVE  /\ NoSocketYet' <=> NoSocketYet
             /\ SocketOpened' <=> SocketOpened
             /\ NullOpened' <=> NullOpened
             /\ Daemonized' <=> Daemonized
             /\ Fds' = Fds
  BY <1>1 DEF NoSocketYet, SocketOpened, NullOpened, Daemonized, Kept, Fds
<1>2. CASE Exit
  BY <1>1, <1>2 DEF StartupInv, Exit, socket, proc
<1>3. CASE Args
  BY <1>1, <1>3 DEF StartupInv, Args, socket
<1>4. CASE \E sig \in {"SIGTERM", "SIGINT"} : SetExit(sig)
  BY <1>1, <1>4 DEF StartupInv, SetExit, WhenSignalsSet, socket
<1>5. CASE SockCreate
  BY <1>5, SockCreateKeeps
<1>6. CASE Bind
  BY <1>1, <1>6 DEF StartupInv, Bind, proc
<1>7. CASE Fork
  BY <1>1, <1>7 DEF StartupInv, Fork, socket
<1>8. CASE Detach("setsid", "chdir") \/ Detach("chdir", "open")
  BY <1>1, <1>8 DEF StartupInv, Detach, socket
<1>9. CASE OpenNull
  BY <1>9, OpenNullKeeps
<1>10. CASE Dup2
  BY <1>10, Dup2Keeps
<1>11. CASE CloseNull
  BY <1>11, CloseNullKeeps
<1>12. CASE Listen
  BY <1>1, <1>12 DEF StartupInv, Listen, ListenAccepts, proc
<1>13. CASE SetNonblocking
  BY <1>1, <1>13 DEF StartupInv, SetNonblocking, proc
<1>14. CASE MaskAlarm
  BY <1>1, <1>14 DEF StartupInv, MaskAlarm, socket
<1>15. CASE UNCHANGED startup_vars
  BY <1>1, <1>15 DEF StartupInv, startup_vars
<1> QED
  BY <1>2, <1>3, <1>4, <1>5, <1>6, <1>7, <1>8, <1>9, <1>10, <1>11, <1>12,
     <1>13, <1>14, <1>15 DEF StartupNext

(* The accept loop begins with a bound, listening, nonblocking socket,     *)
(* whichever of the standard descriptors were closed at the start.         *)
THEOREM ServerAcceptsOnSocket == StartupSpec => []AcceptsOnSocket
<1>1. StartupInv => AcceptsOnSocket
  BY DEF StartupInv, AcceptsOnSocket, AfterListen
<1> QED
  BY <1>1, StartupInvInit, StartupInvNext, PTL DEF StartupSpec

(* A daemon has /dev/null on the standard descriptors, its socket and what *)
(* it inherited beyond them, for every set of descriptors it may be        *)
(* started with and every limit.                                           *)
THEOREM DaemonDescriptorsExact == StartupSpec => []DaemonDescriptors
<1>1. StartupInv => DaemonDescriptors
  <2> SUFFICES ASSUME StartupInv, stage = "accept", daemon_mode
               PROVE  \A f \in Fds : table[f] = Kept(f)
    BY DEF DaemonDescriptors, Kept
  <2>1. Daemonized /\ table[sock_fd] = "socket"
    BY DEF StartupInv, AfterListen
  <2>2. sock_fd > 2
    BY <2>1, StartupAssumption DEF Daemonized, Fds
  <2> QED BY <2>1, <2>2 DEF Daemonized
<1> QED
  BY <1>1, StartupInvInit, StartupInvNext, PTL DEF StartupSpec

(* The parent exits with success only after bind has succeeded.            *)
THEOREM ParentSucceedsBound == StartupSpec => []SuccessMeansBound
<1>1. StartupInv => SuccessMeansBound
  BY DEF StartupInv, SuccessMeansBound
<1> QED
  BY <1>1, StartupInvInit, StartupInvNext, PTL DEF StartupSpec

-----------------------------------------------------------------------------
(* The writer, for every set of strings.                                   *)

(* Before open nothing is written; from then on the offset, the pointer    *)
(* and the rest to be written agree with the content of the file.          *)
Progress ==
  /\ offset = writestr
  /\ count = Len(str) - writestr
  /\ Len(file) = writestr
  /\ \A i \in 1 .. writestr : file[i] = str[i]

WriterInv ==
  /\ pc \in {"args", "open", "write", "done", "failed"}
  /\ str \in Seq(Chars) /\ file \in Seq(Chars)
  /\ writestr \in Nat /\ offset \in Nat /\ count \in Nat
  /\ pc \in {"args", "open"} => file = old /\ writestr = 0 /\ offset = 0
  /\ pc \in {"write", "done"} => Progress
  /\ pc = "failed" => file = old \/ Progress
  /\ pc = "done" => count = 0

(* The writer starts with the string given and the file as it was.         *)
LEMMA WriterInvInit == Init => WriterInv
<1> SUFFICES ASSUME Init PROVE WriterInv
  OBVIOUS
<1> QED
  BY WriterAssumption DEF Init, WriterInv

(* One write: the characters go behind those that are there.               *)
LEMMA WriteKeeps ==
  ASSUME WriterInv, NEW nr \in 0 .. count, Write(nr)
  PROVE  WriterInv'
<1>1. /\ pc = "write" /\ Progress
      /\ nr \in Nat /\ nr <= count
      /\ str \in Seq(Chars) /\ file \in Seq(Chars) /\ writestr \in Nat /\ count \in Nat
  BY DEF WriterInv, Write
<1>2. /\ offset + nr >= Len(file)
      /\ writestr + nr <= Len(str)
      /\ offset = writestr /\ Len(file) = writestr
  BY <1>1 DEF Progress
<1>3. file' = [i \in 1 .. writestr + nr |->
                 IF i \in writestr + 1 .. writestr + nr THEN str[i] ELSE file[i]]
  <2>1. 1 .. (IF offset + nr > Len(file) THEN offset + nr ELSE Len(file))
          = 1 .. writestr + nr
    BY <1>1, <1>2
  <2>2. \A i \in 1 .. writestr + nr : writestr + i - offset = i
    BY <1>1, <1>2
  <2> QED
    BY <1>1, <1>2, <2>1, <2>2 DEF Write, Written
<1>4. \A i \in 1 .. writestr + nr : file'[i] = str[i]
  BY <1>1, <1>2, <1>3 DEF Progress
<1>5. file' \in Seq(Chars) /\ Len(file') = writestr + nr
  <2>1. \A i \in 1 .. writestr + nr : str[i] \in Chars
    BY <1>1, <1>2
  <2>2. file' \in [1 .. writestr + nr -> Chars]
    BY <1>1, <1>3, <1>4, <2>1
  <2> QED
    BY <1>1, <1>2, <2>2
<1>6. Progress'
  BY <1>1, <1>2, <1>4, <1>5 DEF Write, Advanced, Progress
<1> QED
  BY <1>1, <1>2, <1>5, <1>6 DEF WriterInv, Write, Advanced

(* Every step of the writer.                                               *)
LEMMA WriterInvNext == WriterInv /\ [Next]_vars => WriterInv'
<1> SUFFICES ASSUME WriterInv, [Next]_vars PROVE WriterInv'
  OBVIOUS
<1>1. CASE Fail
  BY <1>1 DEF WriterInv, Fail, Progress
<1>2. CASE CheckArgs
  BY <1>2 DEF WriterInv, CheckArgs
<1>3. CASE Open
  <2>1. /\ str' = str /\ pc' = "write" /\ file' = << >> /\ count' = Len(str)
        /\ writestr' = 0 /\ offset' = 0 /\ Len(str) \in Nat
    BY <1>3 DEF WriterInv, Open, Truncated
  <2>2. Progress'
    BY <2>1 DEF Progress
  <2> QED
    BY <2>1, <2>2 DEF WriterInv
<1>4. CASE \E nr \in 0 .. count : Write(nr)
  BY <1>4, WriteKeeps
<1>5. CASE Close
  BY <1>5 DEF WriterInv, Close, Progress
<1>6. CASE UNCHANGED vars
  BY <1>6 DEF WriterInv, vars, Progress
<1> QED
  BY <1>1, <1>2, <1>3, <1>4, <1>5, <1>6 DEF Next

(* The file holds its old content or a prefix of the string, whatever      *)
(* parts write takes and wherever the program fails.                       *)
THEOREM WriterKeepsPrefix == Spec => []OldOrPrefix
<1>1. WriterInv => OldOrPrefix
  <2> SUFFICES ASSUME WriterInv PROVE OldOrPrefix
    OBVIOUS
  <2>1. Progress => PrefixOf(file, str)
    BY DEF WriterInv, Progress, PrefixOf
  <2> QED
    BY <2>1 DEF WriterInv, OldOrPrefix
<1> QED
  BY <1>1, WriterInvInit, WriterInvNext, PTL DEF Spec

(* When the program ends with 0 the file holds the string, of any length.  *)
THEOREM WriterWritesString == Spec => []DoneMeansWritten
<1>1. WriterInv => DoneMeansWritten
  <2> SUFFICES ASSUME WriterInv, pc = "done" PROVE file = str
    BY DEF DoneMeansWritten
  <2>1. /\ str \in Seq(Chars) /\ file \in Seq(Chars)
        /\ Len(file) = Len(str) /\ \A i \in 1 .. Len(str) : file[i] = str[i]
    BY DEF WriterInv, Progress
  <2> QED
    BY <2>1
<1> QED
  BY <1>1, WriterInvInit, WriterInvNext, PTL DEF Spec

-----------------------------------------------------------------------------
(* The threading exercise, for every number of threads.                    *)

(***************************************************************************)
(* The thread_data follows the thread; the mutex is held by a thread that  *)
(* is between its lock and its unlock, or one that returned from there by  *)
(* an error.                                                               *)
(***************************************************************************)
ThreadsInv ==
  /\ at \in [Threads -> {"none", "sleep", "lock", "hold", "unlock", "returned", "joined"}]
  /\ mutex \in Threads \cup {Nobody}
  /\ success \in [Threads -> BOOLEAN]
  /\ data \subseteq Threads
  /\ DataLivesWithThread
  /\ \A t \in Threads : at[t] \in {"hold", "unlock"} => mutex = t
  /\ \A t \in Threads : mutex = t => \/ at[t] \in {"hold", "unlock"}
                                     \/ Returned(t) /\ ~success[t]
  /\ \A t \in Threads : success[t] => Returned(t)

(* No thread is started and the mutex is free.                             *)
LEMMA ThreadsInvInit == ThreadingInit => ThreadsInv
BY ThreadingAssumption DEF ThreadingInit, ThreadsInv, DataLivesWithThread, Returned

(* Every step of the threads, with every call that may fail.               *)
LEMMA ThreadsInvNext == ThreadsInv /\ [ThreadingNext]_thread_vars => ThreadsInv'
<1> SUFFICES ASSUME ThreadsInv, [ThreadingNext]_thread_vars PROVE ThreadsInv'
  OBVIOUS
<1> USE DEF ThreadsInv, DataLivesWithThread, Returned, Goto, times
<1>1. ASSUME NEW t \in Threads, NEW o, NEW r, Start(t, o, r) PROVE ThreadsInv'
  BY <1>1 DEF Start, FreedArgs
<1>2. ASSUME NEW t \in Threads, WaitToObtain(t) PROVE ThreadsInv'
  BY <1>2 DEF WaitToObtain
<1>3. ASSUME NEW t \in Threads, Obtain(t) PROVE ThreadsInv'
  BY <1>3, ThreadingAssumption DEF Obtain
<1>4. ASSUME NEW t \in Threads, WaitToRelease(t) PROVE ThreadsInv'
  BY <1>4 DEF WaitToRelease
<1>5. ASSUME NEW t \in Threads, Release(t) PROVE ThreadsInv'
  BY <1>5, ThreadingAssumption DEF Release, Unlocked
<1>6. ASSUME NEW t \in Threads, Join(t) PROVE ThreadsInv'
  BY <1>6 DEF Join
<1>7. CASE UNCHANGED thread_vars
  BY <1>7 DEF thread_vars
<1> QED
  BY <1>1, <1>2, <1>3, <1>4, <1>5, <1>6, <1>7 DEF ThreadingNext, ThreadStep

(* The thread_data lives exactly as long as its thread, on every path.     *)
THEOREM ThreadDataLives == ThreadingSpec => []DataLivesWithThread
<1>1. ThreadsInv => DataLivesWithThread
  BY DEF ThreadsInv
<1> QED
  BY <1>1, ThreadsInvInit, ThreadsInvNext, PTL DEF ThreadingSpec

(***************************************************************************)
(* Whoever holds the mutex is about to release it, or has returned without *)
(* success: the safety part of ReturnsOrMutexLost.  Two threads are never  *)
(* between lock and unlock.                                                *)
(***************************************************************************)
HolderReleasesOrLost ==
  /\ mutex # Nobody => \/ \E t \in Threads : mutex = t /\ at[t] \in {"hold", "unlock"}
                       \/ MutexLost
  /\ \A t, u \in Threads :
       at[t] \in {"hold", "unlock"} /\ at[u] \in {"hold", "unlock"} => t = u

(* threadfunc leaves the mutex held on one path only, the failed second    *)
(* sleep, and the threads exclude each other.                              *)
THEOREM MutexHolderReleasesOrLost == ThreadingSpec => []HolderReleasesOrLost
<1>1. ThreadsInv => HolderReleasesOrLost
  BY DEF ThreadsInv, HolderReleasesOrLost, MutexLost
<1> QED
  BY <1>1, ThreadsInvInit, ThreadsInvNext, PTL DEF ThreadingSpec

-----------------------------------------------------------------------------
(* The system call exercises, for every set of codes and signals.          *)

CallType ==
  /\ func \in {"do_system", "do_exec", "do_exec_redirect"}
  /\ DOMAIN state = Procs
  /\ fds \in [Procs -> [{1, 3} -> {"caller", "free", "file"}]]
  /\ state["caller"] \in {"system", "open", "fork", "close", "waitpid", "returned"}
  /\ state["child"] \in {None, "dup2", "execv", "command", "ended", "reaped"}
  /\ fd \in {-1, 1, 3}
  /\ status \in {-1} \cup {Exited(c) : c \in Codes} \cup Signals
  /\ executed \in BOOLEAN

(* What the processes of a call can be doing at the same time.             *)
ProcsAgree ==
  /\ state["caller"] \in {"system", "open", "fork"} => state["child"] = None
  /\ state["caller"] \in {"close", "waitpid"} => state["child"] \notin {None, "reaped"}
  /\ state["child"] = "reaped" => state["caller"] = "returned"

(* The wait status comes with the end of the child, and 0 is the command's.*)
StatusTells ==
  /\ state["child"] \in {"dup2", "execv", "command"} => status = -1
  /\ state["child"] \in {"ended", "reaped"} => status # -1
  /\ state["caller"] \in {"system", "open", "fork"} => status = -1
  /\ state["child"] = "command" => executed
  /\ status = Exited(0) => executed

(* The result is decided once, by the status where there was one to read.  *)
ResultTells ==
  /\ state["caller"] # "returned" => result = None
  /\ result = "true" => /\ state["child"] \in {None, "reaped"}
                        /\ status # -1 /\ ResultOf(status) = "true"
  /\ state["caller"] = "returned" /\ state["child"] \in {None, "reaped"} /\ status # -1 =>
       result = ResultOf(status)

(* What the two descriptors of caller and child refer to.                  *)
Descriptors ==
  /\ func = "do_system" =>
       state["child"] = None /\ state["caller"] \in {"system", "returned"}
  /\ func = "do_exec" =>
       /\ state["caller"] \notin {"open", "close"} /\ state["child"] # "dup2"
       /\ fds["caller"][3] = "free"
       /\ state["child"] \in {"execv", "command"} => fds["child"] = fds["caller"]
  /\ func = "do_exec_redirect" =>
       /\ state["caller"] \in {"fork", "close"} => fd # -1 /\ fds["caller"][fd] = "file"
       /\ state["child"] = "dup2" => fd # -1 /\ fds["child"][fd] = "file"
       /\ state["child"] \in {"execv", "command"} /\ fd # 1 =>
            fds["child"][1] = "file" /\ fds["child"][3] = "free"

CallInv == CallType /\ ProcsAgree /\ StatusTells /\ ResultTells /\ Descriptors

(* The wait statuses are told apart, and only code 0 is a success.         *)
LEMMA StatusFacts ==
  /\ \A c \in Codes : /\ Exited(c) \in Int /\ Exited(c) # -1 /\ Exited(c) \notin Signals
                      /\ Exited(c) = Exited(0) <=> c = 0
                      /\ ResultOf(Exited(c)) = "true" <=> c = 0
  /\ \A n \in Signals : Killed(n) = n /\ n # -1 /\ n # Exited(0)
  /\ Codes \subseteq Nat /\ {0, 126, 127} \subseteq Codes
<1>1. \A c \in 0 .. 255 : ((c * 256) \div 256) % 256 = c
  OBVIOUS
<1>2. \A c \in Codes : c \in 0 .. 255
  BY SystemCallsAssumption
<1>3. \A c \in Codes : Exited(c) \notin Signals
  BY <1>2, SystemCallsAssumption DEF Exited
<1> QED
  BY <1>1, <1>2, <1>3, SystemCallsAssumption DEF Exited, Killed, ResultOf, WEXITSTATUS

(* The locals and descriptors as CallInit leaves them.                     *)
LEMMA CallInvInit == CallInit => CallInv
<1> SUFFICES ASSUME CallInit PROVE CallInv
  OBVIOUS
<1>1. /\ func \in {"do_system", "do_exec", "do_exec_redirect"}
      /\ DOMAIN state = Procs
      /\ fds \in [Procs -> [{1, 3} -> {"caller", "free", "file"}]]
      /\ state["child"] = None
      /\ state["caller"] = IF func = "do_exec_redirect" THEN "open"
                           ELSE IF func = "do_exec" THEN "fork" ELSE "system"
      /\ fds["caller"][3] = "free"
      /\ fd = -1 /\ status = -1 /\ executed = FALSE /\ result = None
  BY SystemCallsAssumption DEF CallInit, Procs
<1>2. -1 # Exited(0)
  BY DEF Exited
<1> QED
  BY <1>1, <1>2 DEF CallInv, CallType, ProcsAgree, StatusTells,
                    ResultTells, Descriptors, None

(* A step of the caller.                                                   *)
LEMMA CallerStepKeeps ==
  ASSUME CallInv, CallerStep \/ WaitpidFails
  PROVE  CallInv'
<1> USE DEF CallInv, CallType, ProcsAgree, StatusTells,
            ResultTells, Descriptors, None, Procs
<1>1. CASE System
  <2>1. /\ state["caller"] = "system" /\ state["child"] = None /\ status = -1
        /\ UNCHANGED <<func, fds, fd>>
    BY <1>1 DEF System
  <2>2. CASE Returns("false") /\ UNCHANGED <<status, executed>>
    BY <2>1, <2>2 DEF Returns
  <2>3. ASSUME NEW s \in {Exited(c) : c \in Codes} \cup {Killed(n) : n \in Signals},
               status' = s, executed' \in {TRUE, s # Exited(127)}, Returns(ResultOf(s))
        PROVE  CallInv'
    <3>1. /\ s \in {Exited(c) : c \in Codes} \cup Signals /\ s # -1
          /\ s = Exited(0) => s # Exited(127)
      <4>1. Exited(127) # Exited(0)
        BY DEF Exited
      <4> QED BY <4>1, StatusFacts
    <3>2. /\ state'["caller"] = "returned" /\ state'["child"] = None
          /\ DOMAIN state' = Procs /\ result' = ResultOf(s)
      BY <2>1, <2>3 DEF Returns
    <3>3. executed' \in BOOLEAN /\ (status' = Exited(0) => executed')
      BY <2>3, <3>1
    <3> QED BY <2>1, <2>3, <3>1, <3>2, <3>3
  <2> QED BY <1>1, <2>2, <2>3 DEF System
<1>2. CASE OpenOutput
  <2>1. /\ state["caller"] = "open" /\ state["child"] = None /\ status = -1
        /\ UNCHANGED <<func, status, executed>>
    BY <1>2 DEF OpenOutput
  <2>2. CASE Returns("false") /\ UNCHANGED <<fds, fd>>
    BY <2>1, <2>2 DEF Returns
  <2>3. CASE /\ fd' = IF fds["caller"][1] = "free" THEN 1 ELSE 3
             /\ fds' = [fds EXCEPT !["caller"][fd'] = "file"]
             /\ state' = [state EXCEPT !["caller"] = "fork"]
             /\ UNCHANGED result
    BY <2>1, <2>3
  <2> QED BY <1>2, <2>2, <2>3 DEF OpenOutput
<1>3. CASE ForkChild
  <2>1. /\ state["caller"] = "fork" /\ state["child"] = None /\ status = -1
        /\ UNCHANGED <<func, fd, status, executed>>
    BY <1>3 DEF ForkChild
  <2>2. CASE Returns("false") /\ UNCHANGED fds
    BY <2>1, <2>2 DEF Returns
  <2>3. CASE /\ state' = [caller |-> IF func = "do_exec" THEN "waitpid" ELSE "close",
                          child  |-> IF func = "do_exec" THEN "execv" ELSE "dup2"]
             /\ fds' = [fds EXCEPT !["child"] = fds["caller"]]
             /\ UNCHANGED result
    <3>1. func # "do_system"
      BY <2>1
    <3> QED BY <2>1, <2>3, <3>1
  <2> QED BY <1>3, <2>2, <2>3 DEF ForkChild
<1>4. CASE CallerClose
  BY <1>4 DEF CallerClose
<1>5. CASE Waitpid
  BY <1>5 DEF Waitpid
<1>6. CASE WaitpidFails
  BY <1>6 DEF WaitpidFails, FailedWait, Returns
<1> QED
  BY <1>1, <1>2, <1>3, <1>4, <1>5, <1>6 DEF CallerStep

(* A step of the child, the command or whoever kills it.                   *)
LEMMA ChildStepKeeps ==
  ASSUME CallInv,
         \/ ChildStep
         \/ \E c \in Codes : CommandExits(c)
         \/ \E n \in Signals : ChildKilled(n)
  PROVE  CallInv'
<1> USE DEF CallInv, CallType, ProcsAgree, StatusTells,
            ResultTells, Descriptors, None, Procs
<1>1. ASSUME NEW s \in {Exited(c) : c \in Codes} \cup Signals, ChildEnds(s),
             state["child"] \in {"dup2", "execv", "command"},
             s = Exited(0) => executed,
             UNCHANGED <<func, fds, fd, executed, result>>
      PROVE  CallInv'
  <2>1. s # -1
    BY StatusFacts
  <2> QED BY <1>1, <2>1 DEF ChildEnds
<1>2. CASE ChildRedirect
  <2>1. CASE /\ fds' = [fds EXCEPT !["child"] = OverStdout(fds["child"])]
             /\ state' = [state EXCEPT !["child"] = "execv"]
             /\ UNCHANGED status
    BY <1>2, <2>1 DEF ChildRedirect, OverStdout
  <2>2. CASE ChildEnds(Exited(126)) /\ UNCHANGED fds
    BY <1>1, <1>2, <2>2, StatusFacts DEF ChildRedirect
  <2> QED BY <1>2, <2>1, <2>2 DEF ChildRedirect
<1>3. CASE ChildExecv
  <2>1. CASE /\ executed' = TRUE
             /\ state' = [state EXCEPT !["child"] = "command"]
             /\ UNCHANGED status
    BY <1>3, <2>1 DEF ChildExecv
  <2>2. CASE ChildEnds(Exited(127)) /\ UNCHANGED executed
    BY <1>1, <1>3, <2>2, StatusFacts DEF ChildExecv
  <2> QED BY <1>3, <2>1, <2>2 DEF ChildExecv
<1>4. ASSUME NEW c \in Codes, CommandExits(c) PROVE CallInv'
  BY <1>1, <1>4 DEF CommandExits
<1>5. ASSUME NEW n \in Signals, ChildKilled(n) PROVE CallInv'
  BY <1>1, <1>5, StatusFacts DEF ChildKilled
<1> QED
  BY <1>2, <1>3, <1>4, <1>5 DEF ChildStep

(* Every step of the caller and of the child.                              *)
LEMMA CallInvNext == CallInv /\ [CallNext]_call_vars => CallInv'
<1> SUFFICES ASSUME CallInv, [CallNext]_call_vars PROVE CallInv'
  OBVIOUS
<1>1. CASE UNCHANGED call_vars
  BY <1>1 DEF call_vars, CallInv, CallType, ProcsAgree,
              StatusTells, ResultTells, Descriptors
<1> QED
  BY <1>1, CallerStepKeeps, ChildStepKeeps DEF CallNext

(* For every exit code, signal and failing call: the result is true if and *)
(* only if the child became the command and that exited with 0.            *)
THEOREM CallExitCodeDecides == CallSpec => []ExitCodeDecides
<1>1. CallInv => ExitCodeDecides
  <2> SUFFICES ASSUME CallInv, NEW c \in Codes, status = Exited(c),
                      state["caller"] = "returned", state["child"] \in {None, "reaped"}
               PROVE  result = "true" <=> executed /\ status = Exited(0)
    BY DEF ExitCodeDecides
  <2>1. result = ResultOf(status)
    BY StatusFacts DEF CallInv, ResultTells
  <2> QED BY <2>1, StatusFacts DEF CallInv, StatusTells
<1> QED
  BY <1>1, CallInvInit, CallInvNext, PTL DEF CallSpec

(* No call returns true while its child is there.                          *)
THEOREM CallTrueAfterChild == CallSpec => []TrueAfterChild
<1>1. CallInv => TrueAfterChild
  BY DEF CallInv, ResultTells, TrueAfterChild
<1> QED
  BY <1>1, CallInvInit, CallInvNext, PTL DEF CallSpec

(* A redirected command has the file as its output and nowhere else.       *)
THEOREM CallRedirectsCommand == CallSpec => []OnlyCommandRedirected
<1>1. CallInv => OnlyCommandRedirected
  <2> SUFFICES ASSUME CallInv, state["child"] = "command", fd # 1
               PROVE  fds["child"] = [f \in {1, 3} |->
                         IF f = 3 THEN "free"
                         ELSE IF func = "do_exec" THEN fds["caller"][1] ELSE "file"]
    BY DEF OnlyCommandRedirected
  <2>1. fds["child"] = [f \in {1, 3} |-> fds["child"][f]]
    BY DEF CallInv, CallType, Procs
  <2>2. /\ fds["child"][3] = "free"
        /\ fds["child"][1] = IF func = "do_exec" THEN fds["caller"][1] ELSE "file"
    BY DEF CallInv, CallType, Descriptors, None
  <2> QED BY <2>1, <2>2
<1> QED
  BY <1>1, CallInvInit, CallInvNext, PTL DEF CallSpec
=============================================================================
