----------------------------- MODULE Threading ------------------------------
(***************************************************************************)
(* examples/threading/threading.c: start_thread_obtaining_mutex starts a   *)
(* thread that sleeps, obtains a mutex, sleeps while holding it, releases  *)
(* it and returns its thread_data, which whoever joins it frees.           *)
(***************************************************************************)
EXTENDS Integers

CONSTANTS
  Threads,
  Nobody,        \* the holder of the mutex when it is not held
  Waits,         \* the milliseconds a caller may pass
  NsPerMs,       \* 1000000 in the code
  NsPerSec,      \* what tv_nsec must stay below, 1000000000
  IntBits        \* the width of int, 32

ASSUME ThreadingAssumption ==
  /\ Nobody \notin Threads
  /\ Waits \subseteq Nat /\ NsPerMs \in Nat /\ NsPerSec \in Nat
  /\ IntBits \in Nat \ {0}

VARIABLES
  at,            \* where each thread is
  mutex,         \* the holder of *p_mutex
  obtain,        \* wait_to_obtain_ms of each thread_data
  release,       \* wait_to_release_ms
  success,       \* thread_complete_success
  data,          \* the threads whose thread_data is allocated
  slept          \* the nanoseconds of each thread's last sleep

thread_vars == <<at, mutex, obtain, release, success, data, slept>>
times == <<obtain, release>>

ThreadingInit ==
  /\ at = [t \in Threads |-> "none"]
  /\ mutex = Nobody
  /\ obtain = [t \in Threads |-> 0] /\ release = [t \in Threads |-> 0]
  /\ success = [t \in Threads |-> FALSE]
  /\ data = {}
  /\ slept = [t \in Threads |-> 0]

Goto(t, label) == at' = [at EXCEPT ![t] = label]

(* A product of two ints, wrapped to the width of int.                     *)
Wrap(n) ==
  LET m == n % 2 ^ IntBits
  IN  IF m >= 2 ^ (IntBits - 1) THEN m - 2 ^ IntBits ELSE m

Nanos(ms) == Wrap(ms * NsPerMs)

(* nanosleep refuses a tv_nsec outside a second.  It may always fail: a    *)
(* signal interrupts it.                                                   *)
SleepSucceeds(ms) == Nanos(ms) \in 0 .. NsPerSec - 1

-----------------------------------------------------------------------------
(* What pthread_create failing leaves of the new thread_data.              *)
NotFreed(t) == data \cup {t}
FreedArgs(t) == data

(* start_thread_obtaining_mutex; without a thread the data is freed again. *)
Start(t, ms_obtain, ms_release) ==
  /\ at[t] = "none"
  /\ obtain' = [obtain EXCEPT ![t] = ms_obtain]
  /\ release' = [release EXCEPT ![t] = ms_release]
  /\ \/ data' = data \cup {t} /\ Goto(t, "sleep")
     \/ data' = FreedArgs(t) /\ UNCHANGED at
  /\ UNCHANGED <<mutex, success, slept>>

(* threadfunc: the first sleep, ...                                        *)
WaitToObtain(t) ==
  /\ at[t] = "sleep"
  /\ \/ /\ SleepSucceeds(obtain[t])
        /\ slept' = [slept EXCEPT ![t] = Nanos(obtain[t])]
        /\ Goto(t, "lock")
     \/ Goto(t, "returned") /\ UNCHANGED slept
  /\ UNCHANGED <<mutex, times, success, data>>

(* ... pthread_mutex_lock, ...                                             *)
Obtain(t) ==
  /\ at[t] = "lock" /\ mutex = Nobody
  /\ mutex' = t
  /\ Goto(t, "hold")
  /\ UNCHANGED <<times, success, data, slept>>

(* ... the second sleep, ...                                               *)
WaitToRelease(t) ==
  /\ at[t] = "hold"
  /\ \/ /\ SleepSucceeds(release[t])
        /\ slept' = [slept EXCEPT ![t] = Nanos(release[t])]
        /\ Goto(t, "unlock")
     \/ Goto(t, "returned") /\ UNCHANGED slept
  /\ UNCHANGED <<mutex, times, success, data>>

(* ... pthread_mutex_unlock.                                               *)
UnlockForgotten == mutex
Unlocked == Nobody

Release(t) ==
  /\ at[t] = "unlock"
  /\ mutex' = Unlocked
  /\ success' = [success EXCEPT ![t] = TRUE]
  /\ Goto(t, "returned")
  /\ UNCHANGED <<times, data, slept>>

(* Whoever started the thread joins it and frees its data (external).      *)
Join(t) ==
  /\ at[t] = "returned"
  /\ data' = data \ {t}
  /\ Goto(t, "joined")
  /\ UNCHANGED <<mutex, times, success, slept>>

ThreadStep(t) == WaitToObtain(t) \/ WaitToRelease(t) \/ Release(t)

ThreadingNext ==
  \E t \in Threads :
    \/ \E o, r \in Waits : Start(t, o, r)
    \/ ThreadStep(t) \/ Obtain(t) \/ Join(t)

ThreadingSpec == ThreadingInit /\ [][ThreadingNext]_thread_vars

-----------------------------------------------------------------------------
(***************************************************************************)
(* The thread_data of a thread is allocated from its start to its join, on *)
(* every error path, and not when there is no thread.                      *)
(***************************************************************************)
DataLivesWithThread ==
  \A t \in Threads : t \in data <=> at[t] \notin {"none", "joined"}

(***************************************************************************)
(* Every thread that was started returns, unless a thread whose second     *)
(* sleep failed has returned with the mutex: nothing else can keep it, and *)
(* a thread that reports success has released it.                          *)
(***************************************************************************)
Returned(t) == at[t] \in {"returned", "joined"}

MutexLost == \E t \in Threads : mutex = t /\ Returned(t) /\ ~success[t]

ReturnsOrMutexLost == \A t \in Threads : at[t] = "sleep" ~> Returned(t) \/ MutexLost

-----------------------------------------------------------------------------
(***************************************************************************)
(* threading.h: the thread "obtains the mutex", "then holds for            *)
(* wait_to_release_ms milliseconds, then releases".                        *)
(***************************************************************************)
ReturnedReleases == \A t \in Threads : at[t] = "returned" => mutex # t

(***************************************************************************)
(* threading.h: "Start a thread which sleeps wait_to_obtain_ms number of   *)
(* milliseconds, then obtains the mutex".                                  *)
(***************************************************************************)
SleepsAsLong ==
  \A t \in Threads : at[t] = "lock" => slept[t] >= obtain[t] * NsPerMs
=============================================================================
