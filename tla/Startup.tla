------------------------------ MODULE Startup -------------------------------
(***************************************************************************)
(* What aesdsocket does before its accept loop: main of aesdsocket.c up to *)
(* the creation of the timer thread, sock_create of socket.c, sig_setexit  *)
(* of signal.c and daemonize of utils.c.  The state is the table of file   *)
(* descriptors and the process attributes; every call may fail.            *)
(*                                                                         *)
(* A process is started with any descriptors open, some of 0, 1 and 2 may  *)
(* be closed, and the kernel hands out the lowest free one, so the socket  *)
(* or the /dev/null of daemonize may get one of them.  The descriptor      *)
(* syslog keeps for itself is not in the table.                            *)
(***************************************************************************)
EXTENDS Integers, FiniteSetsExt

CONSTANT MaxFd   \* the highest descriptor a process may have

ASSUME StartupAssumption == MaxFd \in Nat /\ MaxFd >= 2

Fds == 0 .. MaxFd

VARIABLES
  stage,         \* where main is
  daemon_mode,
  given,         \* the descriptors that were open at the start
  table,         \* what each descriptor refers to
  sock_fd,
  null_fd,       \* fd of daemonize
  handled,       \* the signals _exit_handler is installed for
  bound,         \* whether the socket has its address
  listening,
  nonblocking,
  masked,        \* whether main blocks SIGALRM
  detached,      \* what daemonize has done so far
  parent         \* the process that was started: it is this one until fork

startup_vars == <<stage, daemon_mode, given, table, sock_fd, null_fd, handled, bound,
                  listening, nonblocking, masked, detached, parent>>
socket == <<sock_fd, bound, listening, nonblocking>>
proc   == <<daemon_mode, given, handled, masked, detached, parent>>

StartupInit ==
  /\ stage = "args" /\ daemon_mode = FALSE
  /\ given \in SUBSET Fds
  /\ table = [f \in Fds |-> IF f \in given THEN "inherited" ELSE "free"]
  /\ sock_fd = -1 /\ null_fd = -1
  /\ handled = {} /\ masked = FALSE
  /\ bound = FALSE /\ listening = FALSE /\ nonblocking = FALSE
  /\ detached = {} /\ parent = "same"

(* The lowest free descriptor; a call that finds none fails.               *)
FdLeft == \E f \in Fds : table[f] = "free"

NewFd == Min({f \in Fds : table[f] = "free"})

(* A call fails: the program logs it and calls exit(-1).                   *)
Exit ==
  /\ stage \notin {"accept", "exited"}
  /\ stage' = "exited"
  /\ UNCHANGED <<table, null_fd, socket, proc>>

-----------------------------------------------------------------------------
(* No option or -d; anything else prints the usage and exits.              *)
Args ==
  /\ stage = "args"
  /\ daemon_mode' \in BOOLEAN
  /\ stage' = "signals"
  /\ UNCHANGED <<given, table, null_fd, socket, handled, masked, detached, parent>>

(* The socket comes before daemonize, not after it as in the mutant.       *)
ForkBeforeSocket == IF daemon_mode THEN "fork" ELSE "socket"
WhenSignalsSet == "socket"

(* sig_setexit for SIGTERM, then for SIGINT.                               *)
SetExit(sig) ==
  /\ stage = "signals"
  /\ sig = "SIGINT" <=> "SIGTERM" \in handled
  /\ handled' = handled \cup {sig}
  /\ stage' = IF sig = "SIGINT" THEN WhenSignalsSet ELSE "signals"
  /\ UNCHANGED <<given, table, null_fd, socket, daemon_mode, masked, detached, parent>>

(* sock_create: socket and setsockopt, then bind.                          *)
SockCreate ==
  /\ stage = "socket" /\ FdLeft
  /\ sock_fd' = NewFd
  /\ table' = [table EXCEPT ![NewFd] = "socket"]
  /\ stage' = "bind"
  /\ UNCHANGED <<null_fd, bound, listening, nonblocking, proc>>

Bind ==
  /\ stage = "bind"
  /\ bound' = TRUE
  /\ stage' = IF daemon_mode THEN "fork" ELSE "listen"
  /\ UNCHANGED <<table, sock_fd, null_fd, listening, nonblocking, proc>>

-----------------------------------------------------------------------------
(* daemonize: the parent exits with EXIT_SUCCESS and the child goes on ... *)
Fork ==
  /\ stage = "fork"
  /\ parent' = "succeeded"
  /\ stage' = "setsid"
  /\ UNCHANGED <<given, table, null_fd, socket, daemon_mode, handled, masked, detached>>

(* ... as a session leader in the root directory ...                       *)
Detach(call, after) ==
  /\ stage = call
  /\ detached' = detached \cup {call}
  /\ stage' = after
  /\ UNCHANGED <<given, table, null_fd, socket, daemon_mode, handled, masked, parent>>

(* ... opens /dev/null (a failure shows in dup2) ...                       *)
OpenNull ==
  /\ stage = "open" /\ FdLeft
  /\ null_fd' = NewFd
  /\ table' = [table EXCEPT ![NewFd] = "null"]
  /\ stage' = "dup2"
  /\ UNCHANGED <<socket, proc>>

(* ... copies it over the standard descriptors, two of three in a mutant   *)
RedirectedTwo == [f \in Fds |-> IF f \in 0 .. 1 THEN "null" ELSE table[f]]
Redirected == [f \in Fds |-> IF f \in 0 .. 2 THEN "null" ELSE table[f]]

Dup2 ==
  /\ stage = "dup2"
  /\ table' = Redirected
  /\ stage' = "close"
  /\ UNCHANGED <<null_fd, socket, proc>>

(* ... and closes it.                                                      *)
CloseNull ==
  /\ stage = "close"
  /\ table' = [table EXCEPT ![null_fd] = "free"]
  /\ null_fd' = -1
  /\ stage' = "listen"
  /\ UNCHANGED <<socket, proc>>

-----------------------------------------------------------------------------
(* listen refuses a descriptor that is not a socket, and main looks at     *)
(* what it returns.                                                        *)
ListenUnchecked == TRUE
ListenAccepts == table[sock_fd] = "socket"

Listen ==
  /\ stage = "listen"
  /\ ListenAccepts
  /\ listening' = TRUE
  /\ stage' = "fcntl"
  /\ UNCHANGED <<table, null_fd, sock_fd, bound, nonblocking, proc>>

(* fcntl twice: O_NONBLOCK is added to the flags.                          *)
SetNonblocking ==
  /\ stage = "fcntl"
  /\ nonblocking' = TRUE
  /\ stage' = "sigmask"
  /\ UNCHANGED <<table, null_fd, sock_fd, bound, listening, proc>>

(* SIGALRM is blocked for all threads, then the timer thread is created    *)
(* and the accept loop begins.                                             *)
MaskAlarm ==
  /\ stage = "sigmask"
  /\ masked' = TRUE
  /\ stage' = "accept"
  /\ UNCHANGED <<given, table, null_fd, socket, daemon_mode, handled, detached, parent>>

StartupNext ==
  \/ Exit \/ Args
  \/ \E sig \in {"SIGTERM", "SIGINT"} : SetExit(sig)
  \/ SockCreate \/ Bind
  \/ Fork \/ Detach("setsid", "chdir") \/ Detach("chdir", "open")
  \/ OpenNull \/ Dup2 \/ CloseNull
  \/ Listen \/ SetNonblocking \/ MaskAlarm

StartupSpec == StartupInit /\ [][StartupNext]_startup_vars

-----------------------------------------------------------------------------
(***************************************************************************)
(* When the accept loop begins the listening descriptor still is the bound *)
(* socket, whichever descriptors were open at the start: if daemonize has  *)
(* overwritten it the program does not get there.  accept does not block,  *)
(* the exit signals are handled and SIGALRM is left to the timer thread.   *)
(***************************************************************************)
AcceptsOnSocket ==
  stage = "accept" =>
    /\ table[sock_fd] = "socket" /\ bound /\ listening /\ nonblocking
    /\ handled = {"SIGTERM", "SIGINT"} /\ masked

(***************************************************************************)
(* A daemon that accepts connections has let go of the standard streams it *)
(* was started with and has kept nothing daemonize opened, whatever was    *)
(* open or closed at the start.  What it inherited beyond the standard     *)
(* descriptors it keeps: daemonize does not close that.                    *)
(***************************************************************************)
DaemonDescriptors ==
  stage = "accept" /\ daemon_mode =>
    \A f \in Fds : table[f] = IF f \in 0 .. 2 THEN "null"
                              ELSE IF f = sock_fd THEN "socket"
                              ELSE IF f \in given THEN "inherited" ELSE "free"

(***************************************************************************)
(* The process that was started reports success only when the server has   *)
(* its address: that the port is taken is not found out after the fork.    *)
(***************************************************************************)
SuccessMeansBound == parent = "succeeded" => bound

-----------------------------------------------------------------------------
(***************************************************************************)
(* The comment in main: "If the socket is successfully created, daemonize  *)
(* the process, then start listening"; what listen is called on is the     *)
(* socket that was created.                                                *)
(***************************************************************************)
ListensOnCreated == stage = "listen" => table[sock_fd] = "socket"
=============================================================================
