------------------------------ MODULE Programs ------------------------------
(***************************************************************************)
(* The four models that share nothing with the rest: the start-up of the   *)
(* server and the exercise programs.  A behaviour is one of them running,  *)
(* while the variables of the others keep one initial value.               *)
(***************************************************************************)
EXTENDS Writer, Startup, Threading, SystemCalls, SequencesExt

CONSTANT MaxLength

VARIABLE program

all_vars == <<program, vars, startup_vars, thread_vars, call_vars>>

(* Every string of at most MaxLength characters.                           *)
ShortStrings == BoundedSeq(Chars, MaxLength)

ProgramsInit ==
  /\ program \in {"writer", "startup", "threading", "systemcalls"}
  /\ Init /\ StartupInit /\ ThreadingInit /\ CallInit
  /\ program # "writer" => str = << >> /\ old = << >>
  /\ program # "startup" => given = 0 .. 2
  /\ program # "systemcalls" => func = "do_system" /\ fds["caller"][1] = "caller"

RunWriter ==
  /\ program = "writer" /\ Next
  /\ UNCHANGED <<program, startup_vars, thread_vars, call_vars>>

RunStartup ==
  /\ program = "startup" /\ StartupNext
  /\ UNCHANGED <<program, vars, thread_vars, call_vars>>

RunThreads(A) ==
  /\ program = "threading" /\ A
  /\ UNCHANGED <<program, vars, startup_vars, call_vars>>

RunCall ==
  /\ program = "systemcalls" /\ CallNext
  /\ UNCHANGED <<program, vars, startup_vars, thread_vars>>

ProgramsNext == RunWriter \/ RunStartup \/ RunThreads(ThreadingNext) \/ RunCall

(* Threads run, and one that keeps finding the mutex free obtains it.      *)
ProgramsSpec ==
  /\ ProgramsInit /\ [][ProgramsNext]_all_vars
  /\ \A t \in Threads :
       WF_all_vars(RunThreads(ThreadStep(t))) /\ SF_all_vars(RunThreads(Obtain(t)))
=============================================================================
