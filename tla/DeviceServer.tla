---------------------------- MODULE DeviceServer ----------------------------
(***************************************************************************)
(* conn_handler (server/src/connection.c) built with USE_AESD_CHAR_DEVICE, *)
(* composed with the driver: each handler opens /dev/aesdchar, passes it   *)
(* its client's line or turns a line AESDCHAR_IOCSEEKTO:X,Y into an ioctl, *)
(* and sends back what it can then read.  A handler is a thread of         *)
(* AesdChar, and what it does to the device are actions of AesdChar.       *)
(***************************************************************************)
EXTENDS AesdChar

CONSTANTS
  SeekArgs,      \* the numbers a client may write for X and Y
  UINT32_MAX,    \* of uint32_t, as wide as int (2 ^ 32 - 1 in the code)
  ULONG_MAX,     \* of unsigned long (2 ^ 64 - 1 in the code)
  ConnBufSize,   \* CONN_BUFSIZE
  MaxConnections \* bound on the connections served

ASSUME DeviceServerAssumption ==
  /\ Threads \subseteq Files    \* every handler opens the device for itself
  /\ SeekArgs \subseteq Nat
  /\ UINT32_MAX \in Nat /\ ULONG_MAX \in Nat /\ UINT32_MAX < ULONG_MAX
  /\ ConnBufSize \in Nat \ {0} /\ MaxConnections \in Nat

VARIABLES
  at,            \* where each handler is; "idle" when there is no connection
  io_mutex,      \* its holder
  line,          \* the packet, if it is not a seek command
  seekto,        \* X and Y of a seek command
  abort,
  unsent,        \* the bytes of the last read that sock_putchars still has
  sent,          \* what the client has been sent
  start,         \* the position the reply began at
  seen,          \* the contents the device has had since the reply began
  connections    \* how many connections were accepted

server == <<at, io_mutex, line, seekto, abort, unsent, sent, start, seen, connections>>
all    == <<vars, server>>

NoSeek == [write_cmd |-> 0, write_cmd_offset |-> 0]

DeviceInit ==
  /\ Init
  /\ at = [t \in Threads |-> "idle"]
  /\ io_mutex = Nobody
  /\ line = [t \in Threads |-> << >>]
  /\ seekto = [t \in Threads |-> NoSeek]
  /\ abort = [t \in Threads |-> FALSE]
  /\ unsent = [t \in Threads |-> << >>]
  /\ sent = [t \in Threads |-> << >>]
  /\ start = [t \in Threads |-> 0]
  /\ seen = [t \in Threads |-> {}]
  /\ connections = 0

Goto(t, label) == at' = [at EXCEPT ![t] = label]

Fail(t, label) == Goto(t, label) /\ abort' = [abort EXCEPT ![t] = TRUE]

(* What a reader of the device would find, from its first byte.            *)
Content == FlattenSeq(Commands)

-----------------------------------------------------------------------------
(***************************************************************************)
(* strtoul of a number, which stops at ULONG_MAX, assigned to the int      *)
(* error and compared with ULONG_MAX: every number whose low bits are all  *)
(* set is taken for an error.  What is stored is error as a uint32_t.      *)
(***************************************************************************)
Strtoul(n) == IF n > ULONG_MAX THEN ULONG_MAX ELSE n

Uint32(n) == Strtoul(n) % (UINT32_MAX + 1)

IsUlongMax(n) == Uint32(n) = UINT32_MAX

(* Both numbers are parsed from the same place.                            *)
ParsedTwice(x, y) == [write_cmd |-> Uint32(x), write_cmd_offset |-> Uint32(x)]

Parsed(x, y) == [write_cmd |-> Uint32(x), write_cmd_offset |-> Uint32(y)]

-----------------------------------------------------------------------------
(* A connection, its handler, and the open of the device.                  *)
Connect(t) ==
  /\ at[t] = "idle" /\ connections < MaxConnections
  /\ connections' = connections + 1
  /\ \/ Open(t) /\ Goto(t, "recv") /\ UNCHANGED abort
     \/ Fail(t, "closed") /\ UNCHANGED vars
  /\ UNCHANGED <<io_mutex, line, seekto, unsent, sent, start, seen>>

(* sock_getline returns a line to store, a seek command, or NULL.          *)
Recv(t) ==
  /\ at[t] = "recv"
  /\ \/ \E c \in Chunks :
          /\ line' = [line EXCEPT ![t] = c]
          /\ Goto(t, "lock")
          /\ UNCHANGED <<seekto, abort>>
     \/ \E x, y \in SeekArgs :
          /\ seekto' = [seekto EXCEPT ![t] = [write_cmd |-> x, write_cmd_offset |-> y]]
          /\ Goto(t, "ioctl")
          /\ UNCHANGED <<line, abort>>
     \/ Fail(t, "close") /\ UNCHANGED <<line, seekto>>
  /\ UNCHANGED <<vars, io_mutex, unsent, sent, start, seen, connections>>

LockIo(t) ==
  /\ at[t] = "lock" /\ io_mutex = Nobody
  /\ io_mutex' = t
  /\ Goto(t, "write")
  /\ UNCHANGED <<vars, line, seekto, abort, unsent, sent, start, seen, connections>>

(* putchars: the driver takes all of a packet or nothing.                  *)
CallWrite(t) ==
  /\ at[t] = "write"
  /\ EnterWrite(t, t, line[t])
  /\ Goto(t, "writing")
  /\ UNCHANGED <<io_mutex, line, seekto, abort, unsent, sent, start, seen, connections>>

(* The write's mutex is released whether the write failed or not.          *)
IoMutexAfterKept(t) == IF abort[t] THEN io_mutex ELSE Nobody
IoMutexAfter(t) == Nobody

UnlockIo(t) ==
  /\ at[t] = "written"
  /\ io_mutex' = IoMutexAfter(t)
  /\ Goto(t, IF abort[t] THEN "close" ELSE "seek")
  /\ UNCHANGED <<vars, line, seekto, abort, unsent, sent, start, seen, connections>>

(* The reply begins where the descriptor is.                               *)
BeginReply(t) ==
  /\ start' = [start EXCEPT ![t] = fpos'[t]]
  /\ seen' = [seen EXCEPT ![t] = {Content}]
  /\ Goto(t, "read")
  /\ UNCHANGED abort

(* lseek(fd, 0, SEEK_SET), which the driver may refuse when interrupted.   *)
RewindForgotten(t) ==
  /\ at[t] = "seek"
  /\ start' = [start EXCEPT ![t] = 0]
  /\ seen' = [seen EXCEPT ![t] = {Content}]
  /\ Goto(t, "read")
  /\ UNCHANGED <<vars, abort, io_mutex, line, seekto, unsent, sent, connections>>

Rewind(t) ==
  /\ at[t] = "seek"
  /\ \/ Llseek(t, t, 0, "SEEK_SET") /\ BeginReply(t)
     \/ lock # Nobody /\ Fail(t, "close") /\ UNCHANGED <<vars, start, seen>>
  /\ UNCHANGED <<io_mutex, line, seekto, unsent, sent, connections>>

(* The seek command: refused by the parser, by the driver, or carried out; *)
(* seekto is local to this part of the handler.                            *)
SeekTo(t) ==
  LET x == seekto[t].write_cmd
      y == seekto[t].write_cmd_offset
      p == Parsed(x, y)
  IN  /\ at[t] = "ioctl"
      /\ \/ /\ ~IsUlongMax(x) /\ ~IsUlongMax(y)
            /\ Ioctl(t, t, p.write_cmd, p.write_cmd_offset)
            /\ BeginReply(t)
         \/ /\ \/ IsUlongMax(x) \/ IsUlongMax(y)
               \/ ~SeekToValid(p.write_cmd, p.write_cmd_offset)
               \/ lock # Nobody
            /\ Fail(t, "close")
            /\ UNCHANGED <<vars, start, seen>>
      /\ seekto' = [seekto EXCEPT ![t] = NoSeek]
      /\ UNCHANGED <<io_mutex, line, unsent, sent, connections>>

CallRead(t) ==
  /\ at[t] = "read"
  /\ EnterRead(t, t, ConnBufSize)
  /\ Goto(t, "reading")
  /\ UNCHANGED <<io_mutex, line, seekto, abort, unsent, sent, start, seen, connections>>

(* Inside the driver; a reply that is under way sees the content change.   *)
InDriver(t) ==
  /\ ReadFind(t) \/ ReadCopy(t) \/ WriteAlloc(t) \/ WriteCommit(t)
  /\ seen' = [u \in Threads |->
                IF at[u] \in {"read", "reading", "send"} THEN seen[u] \cup {Content'} ELSE seen[u]]
  /\ UNCHANGED <<at, io_mutex, line, seekto, abort, unsent, sent, start, connections>>

(* The driver's call returns; what read got is to be sent, 0 is the end.   *)
DriverReturns(t) ==
  /\ Return(t)
  /\ \/ at[t] = "writing" /\ Goto(t, "written") /\ UNCHANGED unsent
     \/ /\ at[t] = "reading"
        /\ unsent' = [unsent EXCEPT ![t] = ubuf[t]]
        /\ Goto(t, IF ubuf[t] = << >> THEN "close" ELSE "send")
  /\ UNCHANGED <<io_mutex, line, seekto, abort, sent, start, seen, connections>>

(* ... or fails: interrupted, or out of memory.                            *)
DriverFails(t) ==
  /\ LockInterrupted(t) \/ WriteNoMem(t)
  /\ Fail(t, IF at[t] = "writing" THEN "written" ELSE "close")
  /\ UNCHANGED <<io_mutex, line, seekto, unsent, sent, start, seen, connections>>

(***************************************************************************)
(* sock_putchars: send takes some of the bytes that are left, or fails.    *)
(* It blocks as long as the client does not read.                          *)
(***************************************************************************)
Send(t) ==
  /\ at[t] = "send"
  /\ \/ \E n \in 1 .. Len(unsent[t]) :
          /\ sent' = [sent EXCEPT ![t] = @ \o SubSeq(unsent[t], 1, n)]
          /\ unsent' = [unsent EXCEPT ![t] = SubSeq(@, n + 1, Len(@))]
          /\ Goto(t, IF n = Len(unsent[t]) THEN "read" ELSE "send")
          /\ UNCHANGED abort
     \/ Fail(t, "close") /\ unsent' = [unsent EXCEPT ![t] = << >>] /\ UNCHANGED sent
  /\ UNCHANGED <<vars, io_mutex, line, seekto, start, seen, connections>>

(* The labels cleanup to finalize; the thread's locals go.                 *)
Close(t) ==
  /\ at[t] = "close"
  /\ Release(t)
  /\ Goto(t, "closed")
  /\ UNCHANGED <<io_mutex, line, seekto, abort, unsent, sent, start, seen, connections>>

Finish(t) ==
  /\ at[t] = "closed"
  /\ Goto(t, "idle")
  /\ line' = [line EXCEPT ![t] = << >>]
  /\ abort' = [abort EXCEPT ![t] = FALSE]
  /\ sent' = [sent EXCEPT ![t] = << >>]
  /\ start' = [start EXCEPT ![t] = 0]
  /\ seen' = [seen EXCEPT ![t] = {}]
  /\ UNCHANGED <<vars, io_mutex, seekto, unsent, connections>>

Load == InitModule /\ UNCHANGED server

-----------------------------------------------------------------------------
OutsideDriver(t) ==
  \/ CallWrite(t) \/ UnlockIo(t) \/ Rewind(t) \/ SeekTo(t) \/ CallRead(t)
  \/ DriverReturns(t) \/ Close(t) \/ Finish(t)

DeviceNext ==
  \/ Load
  \/ \E t \in Threads :
       \/ Connect(t) \/ Recv(t) \/ LockIo(t) \/ OutsideDriver(t) \/ Send(t)
       \/ InDriver(t) \/ DriverFails(t)

DeviceSpec == DeviceInit /\ [][DeviceNext]_all

(***************************************************************************)
(* Threads run, and both mutexes go to a waiter that finds them free again *)
(* and again.  Nothing is assumed of the clients: they need not connect,   *)
(* send a line (Recv) or take the reply (Send).                            *)
(***************************************************************************)
DeviceFairSpec ==
  /\ DeviceSpec
  /\ \A t \in Threads :
       SF_all(OutsideDriver(t)) /\ SF_all(LockIo(t)) /\ SF_all(InDriver(t))

-----------------------------------------------------------------------------
Replied(t) == at[t] = "reading" /\ pc[t] = "read" /\ pc'[t] = "return"

(***************************************************************************)
(* When the device only gained commands during a reply, the reply is all   *)
(* of its content from where the reply began: 0, or the byte asked for.    *)
(***************************************************************************)
UndisturbedReply ==
  [][\A t \in Threads :
       Replied(t) /\ (\A c \in seen[t] : IsPrefix(c, Content))
         => sent[t] = SubSeq(Content, start[t] + 1, Len(Content))]_all

(***************************************************************************)
(* A seek command whose numbers fit 32 bits is carried out only if the     *)
(* device has that byte of that command, and the reply starts there.       *)
(***************************************************************************)
SeekStartsReply ==
  [][\A t \in Threads :
       LET x == seekto[t].write_cmd
           y == seekto[t].write_cmd_offset
           live == LiveEntries(buffer)
           hit == FindEntry(buffer, fpos'[t])
       IN  at[t] = "ioctl" /\ at'[t] = "read" /\ x <= UINT32_MAX /\ y <= UINT32_MAX
             => /\ x < Len(live) /\ y < live[x + 1].size
                /\ buffer.entry[hit.slot] = live[x + 1] /\ hit.offset = y]_all

(***************************************************************************)
(* A handler that has its line comes to its end, unless its own client     *)
(* never takes the rest of the reply: the driver's mutex, taken while      *)
(* io_mutex is held, and io_mutex are never waited for in a circle, and a  *)
(* handler that is stuck in send holds up no other.                        *)
(***************************************************************************)
HandlersFinish ==
  \A t \in Threads :
    at[t] \in {"lock", "ioctl"} ~> at[t] = "closed" \/ [](at[t] = "send")

-----------------------------------------------------------------------------
(***************************************************************************)
(* The comment of conn_handler: it writes the line to the file, "then      *)
(* sends the whole content of the file to the socket".  What is sent was   *)
(* the content at some moment of the reply.                                *)
(***************************************************************************)
ReplyIsContent ==
  [][\A t \in Threads : Replied(t) /\ line[t] # << >> => sent[t] \in seen[t]]_all
=============================================================================
