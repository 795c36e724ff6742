---------------------------- MODULE ServerProofs ----------------------------
(***************************************************************************)
(* Proofs about Server, for every number of connections: the handlers own  *)
(* their cells, no handler's error is lost, and the connection list and    *)
(* the two pointers of the join loop stay sound under every interleaving   *)
(* of the main thread, the handlers, the timer and signals.                *)
(***************************************************************************)
EXTENDS Server, FiniteSetTheorems, Induction

(* A cell holds a negative result only when its handler has stored it.     *)
ResultsAreStored == \A c \in Cells : descriptor[c] < 0 => thread[c] = "exited"

HandlerInv == TypeOK /\ HandlersOwnTheirCells /\ ResultsAreStored

(* The server starts without connections.                                  *)
LEMMA HandlerInvInit == Init => HandlerInv
<1> SUFFICES ASSUME Init PROVE HandlerInv
  OBVIOUS
<1>1. TypeOK
  <2>1. active \in [Cells -> BOOLEAN] /\ next \in [Cells -> Pointers]
    BY DEF Init, Pointers
  <2>2. /\ descriptor \in [Cells -> {-1, 0, 1}]
        /\ thread \in [Cells -> {"none", "start", "serve", "ok", "fail", "exited"}]
    BY DEF Init
  <2>3. waiting \in 0 .. Backlog /\ pending \subseteq Signals /\ heap \subseteq Cells
    BY ServerAssumption DEF Init
  <2> QED BY <2>1, <2>2, <2>3 DEF Init, TypeOK, Pointers
<1>2. HandlersOwnTheirCells /\ ResultsAreStored
  BY DEF Init, HandlersOwnTheirCells, ResultsAreStored
<1> QED BY <1>1, <1>2 DEF HandlerInv

(* Steps that leave the cells alone.                                       *)
LEMMA CellsUntouched ==
  ASSUME HandlerInv, UNCHANGED <<heap, handler>>
  PROVE  HandlersOwnTheirCells' /\ ResultsAreStored'
BY DEF HandlerInv, HandlersOwnTheirCells, ResultsAreStored, handler

(* The list after a cell is taken off it, as far as the types go.          *)
LEMMA UnlinkType ==
  ASSUME TypeOK, NEW c \in Cells, Unlink(c)
  PROVE  head' \in Pointers /\ next' \in [Cells -> Pointers]
BY DEF TypeOK, Unlink

(* Freeing a cell whose thread has exited or never was.                    *)
LEMMA FreeKeeps ==
  ASSUME HandlerInv, NEW c \in Cells, Free(c), thread[c] \in {"exited", "none"}
  PROVE  /\ heap' \subseteq Cells
         /\ active' \in [Cells -> BOOLEAN]
         /\ descriptor' \in [Cells -> {-1, 0, 1}]
         /\ thread' \in [Cells -> {"none", "start", "serve", "ok", "fail", "exited"}]
         /\ HandlersOwnTheirCells' /\ ResultsAreStored'
BY DEF HandlerInv, TypeOK, Free, HandlersOwnTheirCells, ResultsAreStored

(* accept: the new cell is allocated before its handler starts.            *)
LEMMA AcceptKeeps ==
  ASSUME HandlerInv, Accept
  PROVE  HandlerInv'
<1>1. PICK c \in Cells \ heap, created \in Creates :
        /\ heap' = heap \cup {c}
        /\ active' = [active EXCEPT ![c] = TRUE]
        /\ descriptor' = [descriptor EXCEPT ![c] = 1]
        /\ thread' = [thread EXCEPT ![c] = IF created THEN "start" ELSE "none"]
        /\ LinkAfterTail(c)
        /\ tail' = c
  BY DEF Accept
<1>2. head' \in Pointers /\ next' \in [Cells -> Pointers]
  BY <1>1 DEF HandlerInv, TypeOK, LinkAfterTail, Pointers
<1>3. /\ waiting' \in 0 .. Backlog /\ tail' \in Pointers
      /\ previous' \in Pointers /\ current' \in Pointers /\ main' = "scan"
      /\ UNCHANGED <<abort, sig_exit, pending, killed, timer, tmpfile>>
  BY <1>1, <1>2, ServerAssumption DEF HandlerInv, TypeOK, Accept, Pointers, signals
<1>4. TypeOK'
  BY <1>1, <1>2, <1>3 DEF HandlerInv, TypeOK, Pointers
<1>5. HandlersOwnTheirCells' /\ ResultsAreStored'
  BY <1>1 DEF HandlerInv, TypeOK, HandlersOwnTheirCells, ResultsAreStored
<1> QED BY <1>4, <1>5 DEF HandlerInv

(* The steps of the main thread.                                           *)
LEMMA MainStepKeeps ==
  ASSUME HandlerInv, MainStep \/ AcceptFails
  PROVE  HandlerInv'
<1> USE DEF list, handler, scan, signals
<1>1. CASE MainLoop \/ AcceptNothing \/ AcceptFails \/ ScanEnd \/ KillTimer \/ JoinTimer \/ Return
  <2>1. TypeOK'
    <3> USE DEF HandlerInv, TypeOK, Pointers
    <3>1. CASE MainLoop BY <3>1 DEF MainLoop
    <3>2. CASE AcceptNothing BY <3>2 DEF AcceptNothing
    <3>3. CASE AcceptFails BY <3>3 DEF AcceptFails
    <3>4. CASE ScanEnd BY <3>4 DEF ScanEnd
    <3>5. CASE KillTimer BY <3>5 DEF KillTimer, TimerKilled
    <3>6. CASE JoinTimer BY <3>6 DEF JoinTimer
    <3>7. CASE Return BY <3>7 DEF Return
    <3> QED BY <1>1, <3>1, <3>2, <3>3, <3>4, <3>5, <3>6, <3>7
  <2>2. UNCHANGED <<heap, handler>>
    BY <1>1 DEF MainLoop, AcceptNothing, AcceptFails, ScanEnd, KillTimer, JoinTimer, Return
  <2> QED BY <2>1, <2>2, CellsUntouched DEF HandlerInv
<1>2. CASE Accept
  BY <1>2, AcceptKeeps
<1>3. CASE ScanSkip
  <2>1. TypeOK'
    BY <1>3 DEF HandlerInv, TypeOK, ScanSkip, Pointers
  <2>2. UNCHANGED <<heap, handler>>
    BY <1>3 DEF ScanSkip
  <2> QED BY <2>1, <2>2, CellsUntouched DEF HandlerInv
<1>4. CASE ScanJoin
  <2>1. /\ current \in Cells /\ Unlink(current) /\ Free(current)
        /\ thread[current] = "exited" /\ abort' \in BOOLEAN
    BY <1>4 DEF HandlerInv, TypeOK, ScanJoin, Joinable, AbortAfter, Pointers
  <2>2. /\ head' \in Pointers /\ next' \in [Cells -> Pointers]
    BY <2>1, UnlinkType DEF HandlerInv
  <2>3. current' \in Pointers
    BY <1>4, <2>2 DEF HandlerInv, TypeOK, ScanJoin, AfterRemoved, Pointers
  <2>4. UNCHANGED <<main, tail, previous, signals, timer, waiting, tmpfile>>
    BY <1>4 DEF ScanJoin
  <2> QED BY <2>1, <2>2, <2>3, <2>4, FreeKeeps DEF HandlerInv, TypeOK
<1>5. CASE JoinFirst
  <2>1. /\ head \in Cells /\ Unlink(head) /\ Free(head)
        /\ thread[head] = "exited" /\ abort' \in BOOLEAN
    BY <1>5 DEF HandlerInv, TypeOK, JoinFirst, Joinable, AbortAfter, Pointers
  <2>2. /\ head' \in Pointers /\ next' \in [Cells -> Pointers]
    BY <2>1, UnlinkType DEF HandlerInv
  <2>3. UNCHANGED <<main, tail, scan, signals, timer, waiting, tmpfile>>
    BY <1>5 DEF JoinFirst
  <2> QED BY <2>1, <2>2, <2>3, FreeKeeps DEF HandlerInv, TypeOK
<1>6. CASE JoinGarbage
  <2>1. /\ head \in Cells /\ thread[head] = "none"
        /\ UNCHANGED <<scan, signals, timer, waiting, tmpfile>>
    BY <1>6 DEF HandlerInv, TypeOK, JoinGarbage, Pointers
  <2>2. CASE main' = "crashed" /\ UNCHANGED <<list, handler, abort>>
    BY <2>1, <2>2, CellsUntouched DEF HandlerInv, TypeOK
  <2>3. CASE /\ \E negative \in BOOLEAN : abort' = (abort \/ negative)
             /\ Unlink(head) /\ Free(head) /\ UNCHANGED <<main, tail>>
    <3>1. /\ head' \in Pointers /\ next' \in [Cells -> Pointers]
      BY <2>1, <2>3, UnlinkType DEF HandlerInv
    <3>2. abort' \in BOOLEAN
      BY <2>3
    <3> QED BY <2>1, <2>3, <3>1, <3>2, FreeKeeps DEF HandlerInv, TypeOK
  <2> QED BY <1>6, <2>2, <2>3 DEF JoinGarbage
<1> QED
  BY <1>1, <1>2, <1>3, <1>4, <1>5, <1>6 DEF MainStep

(* The steps of a handler.                                                 *)
LEMMA HandlerStepKeeps ==
  ASSUME HandlerInv, NEW c \in Cells, HandlerStep(c)
  PROVE  HandlerInv'
<1> USE DEF HandlerInv, TypeOK, HandlersOwnTheirCells, ResultsAreStored,
            list, scan, signals
<1>1. CASE HandlerOpen(c)
  <2>1. /\ thread[c] = "start" /\ tmpfile' \in {TRUE, tmpfile}
        /\ thread' \in {[thread EXCEPT ![c] = "serve"], [thread EXCEPT ![c] = "fail"]}
        /\ UNCHANGED <<main, list, active, descriptor, scan, abort, signals, timer, waiting>>
    BY <1>1 DEF HandlerOpen
  <2>2. TypeOK'
    BY <2>1
  <2>3. HandlersOwnTheirCells' /\ ResultsAreStored'
    BY <2>1
  <2> QED BY <2>2, <2>3
<1>2. CASE HandlerServe(c)
  BY <1>2 DEF HandlerServe
<1>3. CASE HandlerClose(c)
  BY <1>3 DEF HandlerClose
<1>4. CASE HandlerExit(c)
  BY <1>4 DEF HandlerExit, Result
<1> QED BY <1>1, <1>2, <1>3, <1>4 DEF HandlerStep

(* The steps of the timer thread, the kernel and the outside world.        *)
LEMMA OtherStepKeeps ==
  ASSUME HandlerInv,
         TimerStep \/ Connect \/ (\E sig \in Signals : Raise(sig)) \/ ExitHandler
  PROVE  HandlerInv'
<1> USE DEF list, handler, scan, signals
<1>1. UNCHANGED <<main, list, handler, scan, abort>>
  BY DEF TimerStep, TimerMask, TimerSetup, TimerLoop, TimerSigwait, TimerStamp,
         Connect, Raise, ExitHandler
<1>2. /\ sig_exit' \in BOOLEAN /\ pending' \subseteq Signals /\ killed' \in BOOLEAN
      /\ timer' \in {"start", "setup", "loop", "sigwait", "stamp", "exited"}
      /\ tmpfile' \in BOOLEAN /\ waiting' \in 0 .. Backlog
  <2>1. CASE TimerStep
    BY <2>1 DEF HandlerInv, TypeOK, TimerStep, TimerMask, TimerSetup, TimerLoop,
                TimerSigwait, TimerStamp
  <2>2. CASE Connect
    BY <2>2, ServerAssumption DEF HandlerInv, TypeOK, Connect
  <2>3. CASE \E sig \in Signals : Raise(sig)
    BY <2>3 DEF HandlerInv, TypeOK, Raise
  <2>4. CASE ExitHandler
    BY <2>4 DEF HandlerInv, TypeOK, ExitHandler
  <2> QED BY <2>1, <2>2, <2>3, <2>4
<1> QED
  BY <1>1, <1>2, CellsUntouched DEF HandlerInv, TypeOK

(* Every step of the server keeps the handlers' cells theirs.              *)
LEMMA HandlerInvNext == HandlerInv /\ [Next]_vars => HandlerInv'
<1> SUFFICES ASSUME HandlerInv, [Next]_vars PROVE HandlerInv'
  OBVIOUS
<1>1. CASE UNCHANGED vars
  BY <1>1, CellsUntouched
     DEF HandlerInv, TypeOK, vars, list, handler, scan, signals
<1> QED
  BY <1>1, MainStepKeeps, HandlerStepKeeps, OtherStepKeeps DEF Next

(* The server's variables keep their types.                                *)
THEOREM ServerTypeOK == Spec => []TypeOK
<1>1. HandlerInv => TypeOK
  BY DEF HandlerInv
<1> QED
  BY <1>1, HandlerInvInit, HandlerInvNext, PTL DEF Spec

(* No cell is freed under a handler that still writes to it.               *)
THEOREM HandlersAlwaysOwnTheirCells == Spec => []HandlersOwnTheirCells
<1>1. HandlerInv => HandlersOwnTheirCells
  BY DEF HandlerInv
<1> QED
  BY <1>1, HandlerInvInit, HandlerInvNext, PTL DEF Spec

(* A cell is freed when its handler has exited or never was, and a result  *)
(* that was negative has set abort.                                        *)
THEOREM CellsFreedAfterExit == Spec => FreedAfterExit
<1>1. ASSUME HandlerInv, [Next]_vars
      PROVE  [\A c \in heap \ heap' :
                /\ thread[c] \in {"exited", "none"}
                /\ descriptor[c] < 0 => abort']_vars
  <2> SUFFICES ASSUME Next, NEW c \in heap \ heap'
               PROVE  thread[c] \in {"exited", "none"} /\ (descriptor[c] < 0 => abort')
    BY <1>1 DEF vars, list
  <2>1. ASSUME NEW d, Free(d) PROVE c = d
    BY <2>1 DEF Free
  <2>2. CASE ScanJoin
    BY <2>1, <2>2 DEF ScanJoin, Joinable, AbortAfter
  <2>3. CASE JoinFirst
    BY <2>1, <2>3 DEF JoinFirst, Joinable, AbortAfter
  <2>4. CASE JoinGarbage
    BY <1>1, <2>1, <2>4 DEF JoinGarbage, list, HandlerInv, TypeOK, ResultsAreStored
  <2>5. CASE ~(ScanJoin \/ JoinFirst \/ JoinGarbage)
    BY <2>5 DEF Next, MainStep, MainLoop, Accept, AcceptNothing, AcceptFails, ScanSkip,
         ScanEnd, KillTimer, JoinTimer, Return, HandlerStep, HandlerOpen, HandlerServe,
         HandlerClose, HandlerExit, TimerStep, TimerMask, TimerSetup, TimerLoop,
         TimerSigwait, TimerStamp, Connect, Raise, ExitHandler, list
  <2> QED BY <2>2, <2>3, <2>4, <2>5
<1> QED
  BY <1>1, HandlerInvInit, HandlerInvNext, PTL DEF Spec, FreedAfterExit

-----------------------------------------------------------------------------
(***************************************************************************)
(* The connection list is the sequence s of n cells: allocated, different  *)
(* from each other, linked from head to NULL.  tail is NULL only before    *)
(* the first connection, and when it points into the list, to its end; it  *)
(* may also point to a freed cell or to cells that were appended to one.   *)
(***************************************************************************)
Chain(n, s) ==
  /\ \A i, j \in 1 .. n : s[i] = s[j] => i = j
  /\ \A i \in 1 .. n : s[i] \in heap
  /\ head = IF n = 0 THEN NULL ELSE s[1]
  /\ \A i \in 1 .. n : next[s[i]] = IF i = n THEN NULL ELSE s[i + 1]
  /\ tail = NULL => n = 0
  /\ \A i \in 1 .. n : tail = s[i] => i = n

(* The join loop has passed the first k - 1 of them.                       *)
Passed(n, s) ==
  \E k \in 1 .. n + 1 : /\ previous = IF k = 1 THEN NULL ELSE s[k - 1]
                        /\ current = IF k = n + 1 THEN NULL ELSE s[k]

Linked(n, s) == Chain(n, s) /\ (main = "scan" => Passed(n, s))

ListInv == \E n \in Nat : \E s \in [1 .. n -> Cells] : Linked(n, s)

(* The walk along the list, step by step.                                  *)
LEMMA WalkSteps ==
  ASSUME TypeOK
  PROVE  /\ Walk \in [0 .. Cardinality(Cells) -> Pointers]
         /\ Walk[0] = head
         /\ \A i \in 1 .. Cardinality(Cells) :
              Walk[i] = IF Walk[i - 1] = NULL THEN NULL ELSE next[Walk[i - 1]]
<1> DEFINE N == Cardinality(Cells)
           step == [v \in Pointers |-> IF v = NULL THEN NULL ELSE next[v]]
           G == [i \in 1 .. N |-> step]
           Walks(w) == w = [i \in 0 .. N |->
                              IF i = 0 THEN head
                              ELSE IF w[i - 1] = NULL THEN NULL ELSE next[w[i - 1]]]
<1>1. N \in Nat
  BY ServerAssumption, FS_CardinalityType
<1>2. head \in Pointers /\ step \in [Pointers -> Pointers]
  BY DEF TypeOK, Pointers
<1> HIDE DEF N
<1>3. G \in [1 .. N -> [Pointers -> Pointers]] /\ \A i \in 1 .. N : G[i] = step
  BY <1>2
<1> HIDE DEF G
<1>4. PICK f \in [0 .. N -> Pointers] : Follows(f, N, head, G)
  <2>1. head \in Pointers /\ G \in [1 .. N -> [Pointers -> Pointers]]
    BY <1>2, <1>3
  <2> QED BY <1>1, <2>1, RecursionExists, Zenon
<1>5. \A i \in 1 .. N : f[i] = IF f[i - 1] = NULL THEN NULL ELSE next[f[i - 1]]
  <2> TAKE i \in 1 .. N
  <2>1. f[i - 1] \in Pointers
    BY <1>1
  <2> QED BY <1>3, <1>4, <2>1 DEF Follows
<1>6. Walks(f)
  BY <1>1, <1>4, <1>5 DEF Follows
<1>7. Walk = CHOOSE w : Walks(w)
  BY DEF Walk, N
<1>8. Walks(Walk)
  <2> HIDE DEF Walks
  <2> QED BY <1>6, <1>7
<1>9. Walk[0] = head
  BY <1>1, <1>8
<1>10. \A i \in 1 .. N :
        Walk[i] = IF Walk[i - 1] = NULL THEN NULL ELSE next[Walk[i - 1]]
  BY <1>1, <1>8
<1>11. Walk \in [0 .. N -> Pointers]
  <2> DEFINE S == {i \in 0 .. N : Walk[i] \in Pointers}
  <2>1. 0 \in S
    BY <1>1, <1>2, <1>9
  <2>2. \A i \in 0 .. N - 1 : i \in S => i + 1 \in S
    <3> TAKE i \in 0 .. N - 1
    <3> HAVE i \in S
    <3>1. i + 1 \in 1 .. N /\ (i + 1) - 1 = i /\ i + 1 \in 0 .. N
      BY <1>1
    <3>2. Walk[i + 1] = IF Walk[i] = NULL THEN NULL ELSE next[Walk[i]]
      BY <1>10, <3>1
    <3> QED BY <3>1, <3>2 DEF TypeOK, Pointers
  <2> HIDE DEF S
  <2>3. 0 .. N \subseteq S
    BY <1>1, <2>1, <2>2, BoundedInduction
  <2>4. Walk = [i \in 0 .. N |-> Walk[i]]
    BY <1>8
  <2> QED BY <2>3, <2>4 DEF S
<1> QED BY <1>9, <1>10, <1>11 DEF N

(* The chain has no more cells than there are, and the walk from head goes *)
(* along it to its end.                                                    *)
LEMMA ChainWalk ==
  ASSUME TypeOK, NEW n \in Nat, NEW s \in [1 .. n -> Cells], Chain(n, s)
  PROVE  /\ Listed = {s[i] : i \in 1 .. n}
         /\ Walk[Cardinality(Cells)] = NULL
<1> DEFINE N == Cardinality(Cells)
<1>1. N \in Nat /\ IsFiniteSet(Cells)
  BY ServerAssumption, FS_CardinalityType
<1>2. n <= N
  <2>1. IsFiniteSet(1 .. n) /\ Cardinality(1 .. n) = n
    BY FS_Interval
  <2>2. s \in Injection(1 .. n, Cells)
    BY DEF Chain, Injection, IsInjective
  <2> QED BY <1>1, <2>1, <2>2, FS_Injection
<1> DEFINE S == {i \in 0 .. N : Walk[i] = IF i < n THEN s[i + 1] ELSE NULL}
<1> HIDE DEF N
<1>3. /\ Walk[0] = head
      /\ \A i \in 1 .. N :
           Walk[i] = IF Walk[i - 1] = NULL THEN NULL ELSE next[Walk[i - 1]]
  BY WalkSteps DEF N
<1>4. 0 \in S
  BY <1>1, <1>3 DEF Chain
<1>5. \A i \in 0 .. N - 1 : i \in S => i + 1 \in S
  <2> TAKE i \in 0 .. N - 1
  <2> HAVE i \in S
  <2>1. i \in Nat /\ i + 1 \in 1 .. N /\ (i + 1) - 1 = i /\ i + 1 \in 0 .. N
    BY <1>1
  <2>2. Walk[i + 1] = IF Walk[i] = NULL THEN NULL ELSE next[Walk[i]]
    BY <1>3, <2>1
  <2>3. CASE i < n
    <3>1. Walk[i] = s[i + 1] /\ i + 1 \in 1 .. n /\ s[i + 1] # NULL
      BY <2>1, <2>3, ServerAssumption
    <3>2. Walk[i + 1] = IF i + 1 = n THEN NULL ELSE s[(i + 1) + 1]
      BY <2>2, <3>1 DEF Chain
    <3> QED BY <2>1, <2>3, <3>2
  <2>4. CASE ~(i < n)
    BY <2>1, <2>2, <2>4
  <2> QED BY <2>3, <2>4
<1>6. \A i \in 0 .. N : Walk[i] = IF i < n THEN s[i + 1] ELSE NULL
  <2> HIDE DEF S
  <2>1. 0 .. N \subseteq S
    BY <1>1, <1>4, <1>5, BoundedInduction
  <2> QED BY <2>1 DEF S
<1>7. Walk[N] = NULL
  BY <1>1, <1>2, <1>6
<1>8. Listed \subseteq {s[i] : i \in 1 .. n}
  <2> SUFFICES ASSUME NEW i \in 0 .. N, Walk[i] # NULL
               PROVE  Walk[i] \in {s[j] : j \in 1 .. n}
    BY DEF Listed, N
  <2>1. i < n /\ Walk[i] = s[i + 1]
    BY <1>6
  <2>2. i + 1 \in 1 .. n
    BY <1>1, <2>1
  <2> QED BY <2>1, <2>2
<1>9. ASSUME NEW j \in 1 .. n PROVE s[j] \in Listed
  <2>1. j - 1 \in 0 .. N /\ j - 1 < n /\ (j - 1) + 1 = j
    BY <1>1, <1>2
  <2>2. Walk[j - 1] = s[j] /\ s[j] # NULL
    BY <1>6, <2>1, ServerAssumption
  <2> QED BY <2>1, <2>2 DEF Listed, N
<1> QED BY <1>7, <1>8, <1>9 DEF N

(* Linking a new cell: behind the last of the list when tail is that one,  *)
(* and off the list when tail is not on it.                                *)
LEMMA LinkKeepsChain ==
  ASSUME TypeOK, NEW n \in Nat, NEW s \in [1 .. n -> Cells], Chain(n, s),
         NEW c \in Cells \ heap, LinkAfterTail(c), tail' = c, heap' = heap \cup {c}
  PROVE  \E m \in Nat : \E t \in [1 .. m -> Cells] : Chain(m, t)'
<1>1. \A i \in 1 .. n : s[i] \in Cells /\ s[i] \in heap /\ s[i] # c /\ s[i] # NULL
  BY ServerAssumption DEF Chain
<1>2. next \in [Cells -> Pointers] /\ tail \in Pointers /\ c # NULL
  BY ServerAssumption DEF TypeOK
<1> DEFINE t == [i \in 1 .. n + 1 |-> IF i = n + 1 THEN c ELSE s[i]]
<1>3. /\ t \in [1 .. n + 1 -> Cells] /\ n + 1 \in Nat
      /\ t[n + 1] = c /\ \A i \in 1 .. n : t[i] = s[i]
  OBVIOUS
<1>4. CASE tail = NULL
  <2>1. n = 0 /\ head = NULL
    BY <1>4 DEF Chain
  <2>2. next' = [next EXCEPT ![c] = NULL] /\ head' = c
    BY <1>4, <2>1 DEF LinkAfterTail
  <2> HIDE DEF t
  <2>3. Chain(n + 1, t)'
    BY <1>2, <1>3, <2>1, <2>2 DEF Chain
  <2> QED BY <1>3, <2>3
<1>5. CASE n > 0 /\ tail = s[n]
  <2>1. next[tail] = NULL /\ tail \in Cells /\ tail # c
    BY <1>1, <1>5 DEF Chain
  <2>2. head' = head /\ next' = [next EXCEPT ![c] = NULL, ![tail] = c]
    BY <1>2, <1>5, <2>1, ServerAssumption DEF LinkAfterTail
  <2>3. next'[c] = NULL /\ next'[s[n]] = c
    BY <1>2, <1>5, <2>1, <2>2
  <2>4. \A i \in 1 .. n : i # n => s[i] # s[n] /\ next'[s[i]] = next[s[i]]
    BY <1>1, <1>2, <1>5, <2>2 DEF Chain
  <2> HIDE DEF t
  <2>5. \A i \in 1 .. n + 1 : i = n + 1 \/ i = n \/ (i \in 1 .. n /\ i + 1 \in 1 .. n)
    OBVIOUS
  <2>6. \A i \in 1 .. n + 1 : next'[t[i]] = IF i = n + 1 THEN NULL ELSE t[i + 1]
    BY <1>3, <1>5, <2>3, <2>4, <2>5 DEF Chain
  <2>7. \A i, j \in 1 .. n + 1 : t[i] = t[j] => i = j
    BY <1>1, <1>3 DEF Chain
  <2>8. Chain(n + 1, t)'
    BY <1>1, <1>2, <1>3, <1>5, <2>2, <2>6, <2>7 DEF Chain
  <2> QED BY <1>3, <2>8
<1>6. CASE tail # NULL /\ ~(n > 0 /\ tail = s[n])
  <2>1. \A i \in 1 .. n : tail # s[i]
    BY <1>6 DEF Chain
  <2>2. head' = head /\ next' = [next EXCEPT ![c] = next[tail], ![tail] = c]
    BY <1>6 DEF LinkAfterTail
  <2>3. \A i \in 1 .. n : next'[s[i]] = next[s[i]]
    BY <1>1, <1>2, <2>1, <2>2
  <2>4. Chain(n, s)'
    BY <1>1, <1>2, <2>2, <2>3 DEF Chain
  <2> QED BY <2>4
<1> QED BY <1>4, <1>5, <1>6

(* Taking the k-th cell off the list and freeing it.                       *)
LEMMA UnlinkKeepsChain ==
  ASSUME TypeOK, NEW n \in Nat, NEW s \in [1 .. n -> Cells], Chain(n, s),
         NEW k \in 1 .. n, Unlink(s[k]), heap' = heap \ {s[k]}, tail' = tail
  PROVE  LET t == [i \in 1 .. n - 1 |-> IF i < k THEN s[i] ELSE s[i + 1]]
         IN  /\ n - 1 \in Nat /\ t \in [1 .. n - 1 -> Cells]
             /\ Chain(n - 1, t)'
             /\ k = 1 => head' = next[s[k]]
             /\ k # 1 => next'[s[k - 1]] = next[s[k]]
<1> DEFINE t == [i \in 1 .. n - 1 |-> IF i < k THEN s[i] ELSE s[i + 1]]
<1>1. /\ n - 1 \in Nat /\ t \in [1 .. n - 1 -> Cells]
      /\ \A i \in 1 .. n - 1 : t[i] = IF i < k THEN s[i] ELSE s[i + 1]
  OBVIOUS
<1>2. /\ \A i, j \in 1 .. n : s[i] = s[j] => i = j
      /\ \A i \in 1 .. n : s[i] \in heap /\ s[i] # NULL /\ s[i] \in Cells
      /\ \A i \in 1 .. n : next[s[i]] = IF i = n THEN NULL ELSE s[i + 1]
      /\ head = s[1] /\ next \in [Cells -> Pointers]
  BY ServerAssumption DEF Chain, TypeOK
<1>3. /\ k = 1 => head' = next[s[k]] /\ next' = next
      /\ k # 1 => head' = head /\ next' = [next EXCEPT ![s[k - 1]] = next[s[k]]]
  <2>1. k = 1 <=> s[k] = head
    BY <1>2
  <2>2. CASE k = 1
    BY <2>1, <2>2 DEF Unlink
  <2>3. CASE k # 1
    <3>1. k - 1 \in 1 .. n /\ k - 1 # n /\ (k - 1) + 1 = k
      BY <2>3
    <3>2. s[k - 1] \in Listed /\ next[s[k - 1]] = s[k]
      BY <1>2, <3>1, ChainWalk
    <3>3. ASSUME NEW p \in Listed, next[p] = s[k] PROVE p = s[k - 1]
      <4>1. PICK i \in 1 .. n : p = s[i]
        BY ChainWalk
      <4>2. i # n /\ i + 1 \in 1 .. n /\ s[i + 1] = s[k]
        BY <1>2, <3>3, <4>1
      <4>3. i = k - 1
        BY <1>2, <4>2
      <4> QED BY <4>1, <4>3
    <3>4. (CHOOSE p \in Listed : next[p] = s[k]) = s[k - 1]
      BY <3>2, <3>3
    <3> QED BY <2>1, <2>3, <3>4 DEF Unlink
  <2> QED BY <2>2, <2>3
<1>4. k # 1 => next'[s[k - 1]] = next[s[k]] /\ \A i \in 1 .. n : i # k - 1 => next'[s[i]] = next[s[i]]
  BY <1>2, <1>3
<1> HIDE DEF t
<1>5. Chain(n - 1, t)'
  <2>1. \A i, j \in 1 .. n - 1 : t[i] = t[j] => i = j
    <3> SUFFICES ASSUME NEW i \in 1 .. n - 1, NEW j \in 1 .. n - 1, t[i] = t[j] PROVE i = j
      OBVIOUS
    <3>1. i \in 1 .. n /\ i + 1 \in 1 .. n /\ j \in 1 .. n /\ j + 1 \in 1 .. n
      OBVIOUS
    <3> QED BY <1>1, <1>2, <3>1
  <2>2. \A i \in 1 .. n - 1 : t[i] \in heap \ {s[k]}
    <3> SUFFICES ASSUME NEW i \in 1 .. n - 1 PROVE t[i] \in heap \ {s[k]}
      OBVIOUS
    <3>1. i \in 1 .. n /\ i + 1 \in 1 .. n
      OBVIOUS
    <3> QED BY <1>1, <1>2, <3>1
  <2>3. head' = IF n - 1 = 0 THEN NULL ELSE t[1]
    <3>1. n - 1 # 0 => 1 \in 1 .. n - 1 /\ 2 \in 1 .. n /\ 1 + 1 = 2
      OBVIOUS
    <3>2. CASE k = 1
      BY <1>1, <1>2, <1>3, <3>1, <3>2
    <3>3. CASE k # 1
      <4>1. n - 1 # 0 /\ 1 < k
        BY <3>3
      <4> QED BY <1>1, <1>2, <1>3, <3>1, <3>3, <4>1
    <3> QED BY <3>2, <3>3
  <2>4. \A i \in 1 .. n - 1 : next'[t[i]] = IF i = n - 1 THEN NULL ELSE t[i + 1]
    <3> SUFFICES ASSUME NEW i \in 1 .. n - 1
                 PROVE  next'[t[i]] = IF i = n - 1 THEN NULL ELSE t[i + 1]
      OBVIOUS
    <3>1. i \in 1 .. n /\ i + 1 \in 1 .. n /\ (i # n - 1 => i + 1 \in 1 .. n - 1 /\ (i + 1) + 1 \in 1 .. n)
      OBVIOUS
    <3>2. CASE i < k - 1
      <4>1. t[i] = s[i] /\ i # n - 1 /\ t[i + 1] = s[i + 1] /\ k # 1 /\ i # n
        BY <1>1, <3>1, <3>2
      <4>2. next'[s[i]] = s[i + 1]
        BY <1>2, <1>4, <3>1, <3>2, <4>1
      <4> QED BY <4>1, <4>2
    <3>3. CASE i = k - 1
      <4>1. t[i] = s[k - 1] /\ k # 1 /\ (i # n - 1 => t[i + 1] = s[k + 1])
        BY <1>1, <3>1, <3>3
      <4>2. next'[s[k - 1]] = IF k = n THEN NULL ELSE s[k + 1]
        BY <1>2, <1>4, <4>1
      <4> QED BY <3>3, <4>1, <4>2
    <3>4. CASE i > k - 1
      <4>1. t[i] = s[i + 1] /\ (i # n - 1 => t[i + 1] = s[(i + 1) + 1]) /\ i + 1 # k - 1
        BY <1>1, <3>1, <3>4
      <4>2. next'[s[i + 1]] = next[s[i + 1]]
        BY <1>3, <1>4, <3>1, <4>1
      <4>3. next[s[i + 1]] = IF i + 1 = n THEN NULL ELSE s[(i + 1) + 1]
        BY <1>2, <3>1
      <4> QED BY <4>1, <4>2, <4>3
    <3> QED BY <3>2, <3>3, <3>4
  <2>5. tail' = NULL => n - 1 = 0
    BY DEF Chain
  <2>6. \A i \in 1 .. n - 1 : tail' = t[i] => i = n - 1
    <3> SUFFICES ASSUME NEW i \in 1 .. n - 1, tail = t[i] PROVE i = n - 1
      OBVIOUS
    <3>1. i \in 1 .. n /\ i + 1 \in 1 .. n
      OBVIOUS
    <3> QED BY <1>1, <3>1 DEF Chain
  <2> QED BY <2>1, <2>2, <2>3, <2>4, <2>5, <2>6 DEF Chain
<1> QED BY <1>1, <1>3, <1>4, <1>5 DEF t

(* The list is empty at the start.                                         *)
LEMMA ListInvInit == Init => ListInv
<1> SUFFICES ASSUME Init PROVE ListInv
  OBVIOUS
<1> DEFINE s == [i \in 1 .. 0 |-> NULL]
<1>1. s \in [1 .. 0 -> Cells] /\ 0 \in Nat
  OBVIOUS
<1> HIDE DEF s
<1>2. Linked(0, s)
  BY DEF Init, Linked, Chain
<1> QED BY <1>1, <1>2 DEF ListInv

(* A step of the join loop: past a cell, or taking it off the list.        *)
LEMMA ScanKeeps ==
  ASSUME TypeOK, NEW n \in Nat, NEW s \in [1 .. n -> Cells], Chain(n, s), Passed(n, s),
         ScanSkip \/ ScanJoin
  PROVE  ListInv'
<1>1. PICK k \in 1 .. n + 1 : /\ previous = IF k = 1 THEN NULL ELSE s[k - 1]
                             /\ current = IF k = n + 1 THEN NULL ELSE s[k]
  BY DEF Passed
<1>2. k # n + 1 /\ k \in 1 .. n /\ current = s[k] /\ s[k] # NULL
  BY <1>1, ServerAssumption DEF ScanSkip, ScanJoin
<1>3. next[s[k]] = IF k = n THEN NULL ELSE s[k + 1]
  BY <1>2 DEF Chain
<1>4. CASE ScanSkip
  <2>1. previous' = s[k] /\ current' = next[s[k]] /\ UNCHANGED <<head, tail, next, heap>>
    BY <1>2, <1>4 DEF ScanSkip, list
  <2>2. Chain(n, s)'
    BY <2>1 DEF Chain
  <2>3. /\ k + 1 \in 1 .. n + 1 /\ k + 1 # 1 /\ (k + 1) - 1 = k
        /\ k + 1 = n + 1 <=> k = n
    BY <1>2
  <2>4. /\ previous' = IF k + 1 = 1 THEN NULL ELSE s[(k + 1) - 1]
        /\ current' = IF k + 1 = n + 1 THEN NULL ELSE s[k + 1]
    BY <1>3, <2>1, <2>3
  <2>5. Passed(n, s)'
    BY <2>3, <2>4 DEF Passed
  <2> QED BY <2>2, <2>5 DEF ListInv, Linked
<1>5. CASE ScanJoin
  <2> DEFINE t == [i \in 1 .. n - 1 |-> IF i < k THEN s[i] ELSE s[i + 1]]
  <2>1. /\ Unlink(s[k]) /\ heap' = heap \ {s[k]} /\ tail' = tail
        /\ previous' = previous /\ current' = AfterRemoved
    BY <1>2, <1>5 DEF ScanJoin, Free
  <2>2. /\ n - 1 \in Nat /\ t \in [1 .. n - 1 -> Cells]
        /\ Chain(n - 1, t)'
        /\ k = 1 => head' = next[s[k]]
        /\ k # 1 => next'[s[k - 1]] = next[s[k]]
    BY <1>2, <2>1, UnlinkKeepsChain
  <2>3. current' = next[s[k]]
    <3>1. CASE k = 1
      BY <1>1, <2>1, <2>2, <3>1 DEF AfterRemoved
    <3>2. CASE k # 1
      <4>1. previous = s[k - 1] /\ previous # NULL
        BY <1>1, <1>2, <3>2, ServerAssumption
      <4> QED BY <2>1, <2>2, <3>2, <4>1 DEF AfterRemoved
    <3> QED BY <3>1, <3>2
  <2>4. /\ k # 1 => t[k - 1] = s[k - 1]
        /\ k # n => t[k] = s[k + 1]
    BY <1>2
  <2>5. k \in 1 .. (n - 1) + 1 /\ (k = (n - 1) + 1 <=> k = n)
    BY <1>2
  <2> HIDE DEF t
  <2>6. /\ previous' = IF k = 1 THEN NULL ELSE t[k - 1]
        /\ current' = IF k = (n - 1) + 1 THEN NULL ELSE t[k]
    BY <1>1, <1>3, <2>1, <2>3, <2>4, <2>5
  <2>7. Passed(n - 1, t)'
    BY <2>5, <2>6 DEF Passed
  <2> QED BY <2>2, <2>7 DEF ListInv, Linked
<1> QED BY <1>4, <1>5

(* Joining the first cell when the server ends.                            *)
LEMMA JoinFirstKeeps ==
  ASSUME TypeOK, NEW n \in Nat, NEW s \in [1 .. n -> Cells], Chain(n, s),
         head # NULL, Unlink(head), Free(head), main' # "scan", tail' = tail
  PROVE  ListInv'
<1>1. 1 \in 1 .. n /\ head = s[1]
  BY DEF Chain
<1>2. \E m \in Nat : \E t \in [1 .. m -> Cells] : Chain(m, t)'
  BY <1>1, UnlinkKeepsChain DEF Free
<1> QED BY <1>2 DEF ListInv, Linked

(* Every step of the server keeps the list sound.                          *)
LEMMA ListInvNext == TypeOK /\ ListInv /\ [Next]_vars => ListInv'
<1> SUFFICES ASSUME TypeOK, ListInv, [Next]_vars PROVE ListInv'
  OBVIOUS
<1>1. PICK n \in Nat : \E s \in [1 .. n -> Cells] : Linked(n, s)
  BY DEF ListInv
<1>2. PICK s \in [1 .. n -> Cells] : Linked(n, s)
  BY <1>1
<1>3. Chain(n, s) /\ (main = "scan" => Passed(n, s))
  BY <1>2 DEF Linked
<1>4. ASSUME UNCHANGED list PROVE Chain(n, s)'
  BY <1>3, <1>4 DEF Chain, list
<1>5. CASE UNCHANGED <<list, scan>> /\ (main' = main \/ main' # "scan")
  <2>1. main' = "scan" => Passed(n, s)'
    BY <1>3, <1>5 DEF Passed, scan
  <2> QED BY <1>4, <1>5, <2>1 DEF ListInv, Linked
<1>6. CASE Accept
  <2>1. PICK c \in Cells \ heap : /\ heap' = heap \cup {c}
                                 /\ LinkAfterTail(c) /\ tail' = c
    BY <1>6 DEF Accept
  <2>2. PICK m \in Nat : \E t \in [1 .. m -> Cells] : Chain(m, t)'
    BY <1>3, <2>1, LinkKeepsChain
  <2>3. PICK t \in [1 .. m -> Cells] : Chain(m, t)'
    BY <2>2
  <2>4. previous' = NULL /\ current' = head'
    BY <1>6 DEF Accept
  <2>5. 1 \in 1 .. m + 1 /\ (1 = m + 1 <=> m = 0)
    OBVIOUS
  <2>6. Passed(m, t)'
    BY <2>3, <2>4, <2>5 DEF Passed, Chain
  <2> QED BY <2>3, <2>6 DEF ListInv, Linked
<1>7. CASE AcceptNothing
  <2>1. Chain(n, s)' /\ previous' = NULL /\ current' = head'
    BY <1>4, <1>7 DEF AcceptNothing, list
  <2>2. 1 \in 1 .. n + 1 /\ (1 = n + 1 <=> n = 0)
    OBVIOUS
  <2>3. Passed(n, s)'
    BY <2>1, <2>2 DEF Passed, Chain
  <2> QED BY <2>1, <2>3 DEF ListInv, Linked
<1>8. CASE ScanSkip \/ ScanJoin
  <2>1. Passed(n, s)
    BY <1>3, <1>8 DEF ScanSkip, ScanJoin
  <2> QED BY <1>3, <1>8, <2>1, ScanKeeps
<1>9. CASE ScanEnd
  <2>1. UNCHANGED list /\ main' # "scan"
    BY <1>9 DEF ScanEnd
  <2> QED BY <1>4, <2>1 DEF ListInv, Linked
<1>10. CASE JoinFirst
  BY <1>3, <1>10, JoinFirstKeeps DEF JoinFirst
<1>11. CASE JoinGarbage
  <2>1. CASE main' = "crashed" /\ UNCHANGED <<list, handler, abort>>
    BY <1>5, <1>11, <2>1 DEF JoinGarbage
  <2>2. CASE Unlink(head) /\ Free(head) /\ UNCHANGED <<main, tail>>
    BY <1>3, <1>11, <2>2, JoinFirstKeeps DEF JoinGarbage
  <2> QED BY <1>11, <2>1, <2>2 DEF JoinGarbage
<1>12. CASE MainLoop \/ AcceptFails \/ KillTimer \/ JoinTimer \/ Return
  BY <1>5, <1>12 DEF MainLoop, AcceptFails, KillTimer, JoinTimer, Return
<1>13. CASE (\E c \in Cells : HandlerStep(c)) \/ TimerStep \/ Connect
              \/ (\E sig \in Signals : Raise(sig)) \/ ExitHandler
  <2>1. UNCHANGED <<main, list, scan>>
    BY <1>13 DEF HandlerStep, HandlerOpen, HandlerServe, HandlerClose, HandlerExit,
         TimerStep, TimerMask, TimerSetup, TimerLoop, TimerSigwait, TimerStamp,
         Connect, Raise, ExitHandler
  <2> QED BY <1>5, <2>1
<1>14. CASE UNCHANGED vars
  BY <1>5, <1>14 DEF vars
<1> QED
  BY <1>6, <1>7, <1>8, <1>9, <1>10, <1>11, <1>12, <1>13, <1>14 DEF Next, MainStep

(***************************************************************************)
(* The list never links a freed cell and never goes round, however many    *)
(* connections there are, although main appends after a freed tail.        *)
(***************************************************************************)
THEOREM ListAlwaysSound == Spec => []ListIsSound
<1>1. TypeOK /\ ListInv => ListIsSound
  <2> SUFFICES ASSUME TypeOK, NEW n \in Nat, NEW s \in [1 .. n -> Cells], Chain(n, s)
               PROVE  ListIsSound
    BY DEF ListInv, Linked
  <2>1. Listed = {s[i] : i \in 1 .. n} /\ Walk[Cardinality(Cells)] = NULL
    BY ChainWalk
  <2> QED BY <2>1 DEF ListIsSound, Chain
<1>2. HandlerInv => TypeOK
  BY DEF HandlerInv
<1> QED
  BY <1>1, <1>2, HandlerInvInit, HandlerInvNext, ListInvInit, ListInvNext, PTL DEF Spec

(***************************************************************************)
(* previous and current are neighbours on the list throughout the join     *)
(* loop, so the cell it frees is never reached through them again.         *)
(***************************************************************************)
THEOREM JoinLoopPointersSound == Spec => []JoinLoopPointers
<1>1. TypeOK /\ ListInv => JoinLoopPointers
  <2> SUFFICES ASSUME TypeOK, main = "scan",
                      NEW n \in Nat, NEW s \in [1 .. n -> Cells],
                      Chain(n, s), Passed(n, s)
               PROVE  /\ {previous, current} \subseteq Listed \cup {NULL}
                      /\ current = IF previous = NULL THEN head ELSE next[previous]
    BY DEF ListInv, Linked, JoinLoopPointers
  <2>1. PICK k \in 1 .. n + 1 : /\ previous = IF k = 1 THEN NULL ELSE s[k - 1]
                               /\ current = IF k = n + 1 THEN NULL ELSE s[k]
    BY DEF Passed
  <2>2. Listed = {s[i] : i \in 1 .. n}
    BY ChainWalk
  <2>3. (k # 1 => k - 1 \in 1 .. n) /\ (k # n + 1 => k \in 1 .. n)
    OBVIOUS
  <2>4. \A i \in 1 .. n : s[i] # NULL
    BY ServerAssumption
  <2>5. CASE k = 1
    BY <2>1, <2>2, <2>3, <2>5 DEF Chain
  <2>6. CASE k # 1
    <3>1. previous = s[k - 1] /\ previous # NULL /\ previous \in Listed
      BY <2>1, <2>2, <2>3, <2>4, <2>6
    <3>2. next[s[k - 1]] = IF k - 1 = n THEN NULL ELSE s[(k - 1) + 1]
      BY <2>3, <2>6 DEF Chain
    <3>3. (k - 1 = n <=> k = n + 1) /\ (k - 1) + 1 = k
      OBVIOUS
    <3> QED BY <2>1, <2>2, <2>3, <3>1, <3>2, <3>3
  <2> QED BY <2>5, <2>6
<1>2. HandlerInv => TypeOK
  BY DEF HandlerInv
<1> QED
  BY <1>1, <1>2, HandlerInvInit, HandlerInvNext, ListInvInit, ListInvNext, PTL DEF Spec
=============================================================================
