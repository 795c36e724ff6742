----------------------------- MODULE CommandLog -----------------------------
(***************************************************************************)
(* What /dev/aesdchar promises its users: the pieces written to it are     *)
(* joined into commands, a command is complete when a piece ends with a    *)
(* newline, the Limit most recent complete commands can be read back, and  *)
(* a read delivers a contiguous part of one of them.                       *)
(***************************************************************************)
EXTENDS Integers, Sequences

CONSTANTS
  Limit,         \* how many complete commands are kept
  Users,         \* the threads that use the device
  Pieces,        \* what may be written at once
  Newline

VARIABLES
  log,           \* the complete commands, oldest first
  partial,       \* the command being put together
  got            \* what the read a thread is executing has delivered

vars == <<log, partial, got>>

Init ==
  /\ log = << >>
  /\ partial = << >>
  /\ got = [u \in Users |-> << >>]

Complete(line) == line # << >> /\ line[Len(line)] = Newline

Keep(commands) ==
  IF Len(commands) > Limit THEN Tail(commands) ELSE commands

(***************************************************************************)
(* Nothing is promised about a write of no bytes while no command is being *)
(* put together: it may complete an empty command.                         *)
(***************************************************************************)
Write(piece) ==
  LET line == partial \o piece
  IN  /\ \/ /\ Complete(line) \/ line = << >>
            /\ log' = Keep(Append(log, line))
            /\ partial' = << >>
         \/ /\ ~Complete(line)
            /\ log' = log
            /\ partial' = line
      /\ got' = got

Read(u) ==
  /\ \E i \in 1 .. Len(log) : \E lo \in 1 .. Len(log[i]), hi \in 0 .. Len(log[i]) :
       got' = [got EXCEPT ![u] = SubSeq(log[i], lo, hi)]
  /\ UNCHANGED <<log, partial>>

Return(u) ==
  /\ got' = [got EXCEPT ![u] = << >>]
  /\ UNCHANGED <<log, partial>>

(* The module is unloaded: the device starts afresh.                       *)
Reset ==
  /\ log' = << >>
  /\ partial' = << >>
  /\ got' = got

Next ==
  \/ \E piece \in Pieces : Write(piece)
  \/ \E u \in Users : Read(u) \/ Return(u)
  \/ Reset

Spec == Init /\ [][Next]_vars
=============================================================================
