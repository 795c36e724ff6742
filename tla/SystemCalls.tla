---------------------------- MODULE SystemCalls -----------------------------
(***************************************************************************)
(* examples/systemcalls/systemcalls.c: one call of do_system, do_exec or   *)
(* do_exec_redirect.  The caller and the child that fork gives it run      *)
(* concurrently, each with its own descriptors; every call may fail, the   *)
(* command may end with any code and a signal may kill the child at any    *)
(* time.                                                                   *)
(***************************************************************************)
EXTENDS Integers

CONSTANTS
  Codes,         \* the exit codes of commands
  Signals,       \* the signals that kill a child, as in its wait status
  Stdouts        \* descriptor 1 of the caller: a subset of {"caller", "free"}

ASSUME SystemCallsAssumption ==
  /\ {0, 126, 127} \subseteq Codes /\ Codes \subseteq 0 .. 255
  /\ Signals \subseteq (1 .. 127) \cup (129 .. 255)      \* 128: core dumped
  /\ Stdouts \subseteq {"caller", "free"}

Procs == {"caller", "child"}
None  == "none"

VARIABLES
  func,          \* the function called
  state,         \* where each process is
  fds,           \* descriptors 1 and 3 of each process: what they refer to
  fd,            \* fd of do_exec_redirect
  status,        \* the wait status of the child once it has ended
  executed,      \* whether the child became the command
  result         \* what the call returned

call_vars == <<func, state, fds, fd, status, executed, result>>

CallInit ==
  /\ func \in {"do_system", "do_exec", "do_exec_redirect"}
  /\ state = [p \in Procs |-> IF p = "child" THEN None
                              ELSE IF func = "do_exec_redirect" THEN "open"
                              ELSE IF func = "do_exec" THEN "fork" ELSE "system"]
  /\ \E out \in Stdouts :
       fds = [p \in Procs |-> [f \in {1, 3} |-> IF f = 1 THEN out ELSE "free"]]
  /\ fd = -1 /\ status = -1 /\ executed = FALSE /\ result = None

(* Wait statuses of a child that exits and of one that a signal kills.     *)
Exited(code) == code * 256
Killed(sig)  == sig

-----------------------------------------------------------------------------
(* WEXITSTATUS is the second byte of the wait status.                      *)
WEXITSTATUSLow(s) == s % 256
WEXITSTATUS(s) == (s \div 256) % 256

(* 126, 127 and every other code but 0 are failures.                       *)
ResultOf(s) == IF WEXITSTATUS(s) = 0 THEN "true" ELSE "false"

Returns(value) ==
  /\ state' = [state EXCEPT !["caller"] = "returned"]
  /\ result' = value

(* do_system: system runs a shell, waits for it and returns its status, or *)
(* -1; a shell that cannot be executed counts as one that exits with 127.  *)
System ==
  /\ state["caller"] = "system"
  /\ \/ Returns("false") /\ UNCHANGED <<status, executed>>
     \/ \E s \in {Exited(c) : c \in Codes} \cup {Killed(n) : n \in Signals} :
          /\ status' = s /\ executed' \in {TRUE, s # Exited(127)}
          /\ Returns(ResultOf(s))
  /\ UNCHANGED <<func, fds, fd>>

(* open in do_exec_redirect: descriptor 1 when the caller has closed it.   *)
OpenOutput ==
  /\ state["caller"] = "open"
  /\ \/ /\ fd' = IF fds["caller"][1] = "free" THEN 1 ELSE 3
        /\ fds' = [fds EXCEPT !["caller"][fd'] = "file"]
        /\ state' = [state EXCEPT !["caller"] = "fork"]
        /\ UNCHANGED result
     \/ Returns("false") /\ UNCHANGED <<fds, fd>>
  /\ UNCHANGED <<func, status, executed>>

(* fork: the child starts with a copy of the caller's descriptors.         *)
ForkChild ==
  /\ state["caller"] = "fork"
  /\ \/ /\ state' = [caller |-> IF func = "do_exec" THEN "waitpid" ELSE "close",
                     child  |-> IF func = "do_exec" THEN "execv" ELSE "dup2"]
        /\ fds' = [fds EXCEPT !["child"] = fds["caller"]]
        /\ UNCHANGED result
     \/ Returns("false") /\ UNCHANGED fds
  /\ UNCHANGED <<func, fd, status, executed>>

(* The caller closes its descriptor of the output file (default:).         *)
CallerClose ==
  /\ state["caller"] = "close"
  /\ fds' = [fds EXCEPT !["caller"][fd] = "free"]
  /\ state' = [state EXCEPT !["caller"] = "waitpid"]
  /\ UNCHANGED <<func, fd, status, executed, result>>

(* waitpid: the child has ended and is reaped.                             *)
Waitpid ==
  /\ state["caller"] = "waitpid" /\ state["child"] = "ended"
  /\ state' = [caller |-> "returned", child |-> "reaped"]
  /\ result' = ResultOf(status)
  /\ UNCHANGED <<func, fds, fd, status, executed>>

(* It fails when a handled signal interrupts it, or SIGCHLD is ignored.    *)
FailedWaitIsFine == "true"
FailedWait == "false"

WaitpidFails ==
  /\ state["caller"] = "waitpid"
  /\ Returns(FailedWait)
  /\ UNCHANGED <<func, fds, fd, status, executed>>

-----------------------------------------------------------------------------
ChildEnds(s) ==
  /\ state' = [state EXCEPT !["child"] = "ended"]
  /\ status' = s

(* dup2(fd, 1) and close(fd) in the child, or _exit(126).  dup2 does       *)
(* nothing when the two are the same.                                      *)
OverStdoutKeepsFd(t) == [t EXCEPT ![1] = t[fd]]
OverStdout(t) == [t EXCEPT ![1] = t[fd], ![fd] = "free"]

ChildRedirect ==
  /\ state["child"] = "dup2"
  /\ \/ /\ fds' = [fds EXCEPT !["child"] = OverStdout(fds["child"])]
        /\ state' = [state EXCEPT !["child"] = "execv"]
        /\ UNCHANGED status
     \/ ChildEnds(Exited(126)) /\ UNCHANGED fds
  /\ UNCHANGED <<func, fd, executed, result>>

(* execv, or _exit(127).                                                   *)
ChildExecv ==
  /\ state["child"] = "execv"
  /\ \/ /\ executed' = TRUE
        /\ state' = [state EXCEPT !["child"] = "command"]
        /\ UNCHANGED status
     \/ ChildEnds(Exited(127)) /\ UNCHANGED executed
  /\ UNCHANGED <<func, fds, fd, result>>

(* The command ends, or a signal ends the child wherever it is (external). *)
CommandExits(code) ==
  /\ state["child"] = "command"
  /\ ChildEnds(Exited(code))
  /\ UNCHANGED <<func, fds, fd, executed, result>>

ChildKilled(sig) ==
  /\ state["child"] \in {"dup2", "execv", "command"}
  /\ ChildEnds(Killed(sig))
  /\ UNCHANGED <<func, fds, fd, executed, result>>

CallerStep == System \/ OpenOutput \/ ForkChild \/ CallerClose \/ Waitpid
ChildStep  == ChildRedirect \/ ChildExecv

CallNext ==
  \/ CallerStep \/ ChildStep \/ WaitpidFails
  \/ \E c \in Codes : CommandExits(c)
  \/ \E n \in Signals : ChildKilled(n)

CallSpec == CallInit /\ [][CallNext]_call_vars

-----------------------------------------------------------------------------
(***************************************************************************)
(* A child that ended by itself decides the result, for every code and     *)
(* every function: the call is true if and only if the child became the    *)
(* command and that exited with 0.  The 126 and 127 of a child that could  *)
(* not become the command are never taken for a success.                   *)
(***************************************************************************)
ExitCodeDecides ==
  status \in {Exited(c) : c \in Codes} /\ state["caller"] = "returned"
      /\ state["child"] \in {None, "reaped"} =>
    (result = "true" <=> executed /\ status = Exited(0))

(***************************************************************************)
(* A call returns true only after the child is gone: nothing is left to    *)
(* write to the output file or to be reaped.                               *)
(***************************************************************************)
TrueAfterChild == result = "true" => state["child"] \in {None, "reaped"} /\ status # -1

(***************************************************************************)
(* A redirected command writes to the file through descriptor 1 and has no *)
(* other descriptor of it, any other command writes where the caller does. *)
(* The exception is a file that was opened as descriptor 1 itself, as      *)
(* happens when the caller has closed that.                                *)
(***************************************************************************)
OnlyCommandRedirected ==
  state["child"] = "command" /\ fd # 1 =>
    fds["child"] =
      [f \in {1, 3} |-> IF f = 3 THEN "free"
                        ELSE IF func = "do_exec" THEN fds["caller"][1] ELSE "file"]

-----------------------------------------------------------------------------
(***************************************************************************)
(* The comment of do_exec: "true if the command ... executed successfully" *)
(* and "false if ... a non-zero return value was returned by the command". *)
(***************************************************************************)
TrueMeansExitZero == result = "true" => executed /\ status = Exited(0)

(***************************************************************************)
(* The comment of do_exec_redirect: outputfile "will be closed at          *)
(* completion of the function call".                                       *)
(***************************************************************************)
FileClosedAtReturn ==
  state["caller"] = "returned" => \A f \in {1, 3} : fds["caller"][f] # "file"

(***************************************************************************)
(* The comment of do_exec_redirect: outputfile is "the file to write with  *)
(* command output".                                                        *)
(***************************************************************************)
OutputReachesFile ==
  func = "do_exec_redirect" /\ state["child"] = "command" => fds["child"][1] = "file"
=============================================================================
