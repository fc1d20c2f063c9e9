--------------------------- MODULE WaitableFlag ----------------------------
(***************************************************************************)
(* WaitableFlag (core/threadsafecounter.h): an atomic Boolean that threads *)
(* poll without a lock and can sleep on.  contribute pauses and resumes    *)
(* its game, task and download threads with one (shouldPause), and ends    *)
(* every pause with setPermanently(false) when it quits; the OpenCL tuner  *)
(* waits with another one for its dummy thread to be up.                   *)
(***************************************************************************)
CONSTANTS Waiters

VARIABLES value, finished,
          pc,       \* where each thread is in waitUntilFalse or waitUntilTrue
          awaited   \* the value it waits for

vars == <<value, finished, pc, awaited>>

Init ==
  /\ value = FALSE /\ finished = FALSE
  /\ pc = [t \in Waiters |-> "running"]
  /\ awaited = [t \in Waiters |-> FALSE]

\* set and setPermanently: under the mutex, store and notify the threads
\* that sleep on the condition variable of the new value.
Store(b) ==
  /\ ~finished
  /\ value' = b
  /\ pc' = [t \in Waiters |->
              IF pc[t] = "asleep" /\ awaited[t] = b THEN "awake" ELSE pc[t]]
  /\ UNCHANGED awaited

Set(b) == Store(b) /\ UNCHANGED finished

SetPermanently(b) == Store(b) /\ finished' = TRUE

\* waitUntilFalse and waitUntilTrue read the flag before they take the mutex;
\* one that finds it set as it wants returns at once.
Wait(t, b) ==
  /\ pc[t] = "running"
  /\ value # b
  /\ pc' = [pc EXCEPT ![t] = "locking"]
  /\ awaited' = [awaited EXCEPT ![t] = b]
  /\ UNCHANGED <<value, finished>>

\* With the mutex in hand they wait: the loop tests the copy, which says what
\* the flag was before.
Sleep(t) ==
  /\ pc[t] = "locking"
  /\ pc' = [pc EXCEPT ![t] = "asleep"]
  /\ UNCHANGED <<value, finished, awaited>>

Awake(t) ==
  /\ pc[t] = "awake"
  /\ pc' = [pc EXCEPT ![t] = IF value = awaited[t] THEN "running" ELSE "asleep"]
  /\ UNCHANGED <<value, finished, awaited>>

\* A condition variable may wake a waiter for no reason, but need not.
SpuriousWakeup(t) ==
  /\ pc[t] = "asleep"
  /\ pc' = [pc EXCEPT ![t] = "awake"]
  /\ UNCHANGED <<value, finished, awaited>>

Next ==
  \/ \E b \in BOOLEAN : Set(b) \/ SetPermanently(b)
  \/ \E t \in Waiters : Sleep(t) \/ Awake(t) \/ SpuriousWakeup(t)
  \/ \E t \in Waiters, b \in BOOLEAN : Wait(t, b)

\* A thread that is not asleep runs on.
Fairness == \A t \in Waiters : WF_vars(Sleep(t) \/ Awake(t))

Spec == Init /\ [][Next]_vars /\ Fairness

(***************************************************************************)
(* Properties.                                                             *)
(***************************************************************************)
\* "At the point where we just want to stop ASAP, we never want to pause
\* again" (contribute.cpp): once the flag is FALSE for good, every thread
\* inside waitUntilFalse comes back.
PermanentlyFalseEndsPauses ==
  \A t \in Waiters :
    (finished /\ ~value /\ ~awaited[t]) ~> pc[t] = "running"
=============================================================================
