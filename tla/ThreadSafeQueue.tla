-------------------------- MODULE ThreadSafeQueue --------------------------
(***************************************************************************)
(* ThreadSafeContainer and ThreadSafeQueue (core/threadsafequeue.h): the   *)
(* bounded queue between the search threads and the neural net servers,    *)
(* between the analysis threads and the writer, and between the game loops *)
(* and the data writers.                                                   *)
(*                                                                         *)
(* All state is touched under the one mutex only, so each stretch between  *)
(* taking the mutex and releasing it (or waiting) is one action.  A thread *)
(* that waits is in notFullCondVar or notEmptyCondVar until somebody       *)
(* notifies; a woken thread looks at the queue again in a later action,    *)
(* after any number of other calls.  Elements are the numbers 1, 2, 3, ... *)
(* in the order in which pushes succeed.                                   *)
(***************************************************************************)
EXTENDS Integers, Sequences

CONSTANTS Producers, Consumers,  \* threads that push, threads that pop
          maxSize,
          Batches,               \* the values of waitPopUpToN's n
          MaxPushes              \* bounds the run: how many pushes succeed

ASSUME QueueConstants ==
  /\ Producers \cap Consumers = {}
  /\ maxSize \in Nat \ {0}
  /\ Batches \subseteq Nat \ {0}
  /\ MaxPushes \in Nat /\ \A n \in Batches : n <= MaxPushes
  /\ 1 <= MaxPushes

VARIABLES closed, readOnly,
          eltsDequeue, headIdx,    \* elements leave from eltsDequeue[headIdx]
          eltsEnqueue,             \* and are appended here
          notFullCondVar, notEmptyCondVar,  \* the threads waiting on each
          call,                    \* the blocking call each thread is in
          n,                       \* and how many elements it may take
          pushed,                  \* history: successful pushes
          received                 \* history: the elements popped, in order

elementVars == <<eltsDequeue, headIdx, eltsEnqueue, pushed, received>>
vars == <<closed, readOnly, elementVars, notFullCondVar, notEmptyCondVar, call, n>>

Init ==
  /\ closed = FALSE /\ readOnly = FALSE
  /\ eltsDequeue = <<>> /\ headIdx = 0 /\ eltsEnqueue = <<>>
  /\ notFullCondVar = {} /\ notEmptyCondVar = {}
  /\ call = [t \in Producers \cup Consumers |-> "none"]
  /\ n = [c \in Consumers |-> 1]
  /\ pushed = 0 /\ received = <<>>

sizeUnsynchronized == Len(eltsDequeue) - headIdx + Len(eltsEnqueue)

\* All that is in the queue, oldest first.
Contents ==
  SubSeq(eltsDequeue, headIdx + 1, Len(eltsDequeue)) \o eltsEnqueue

(***************************************************************************)
(* The element store.                                                      *)
(***************************************************************************)
pushUnsynchronized ==
  /\ eltsEnqueue' = Append(eltsEnqueue, pushed + 1)
  /\ pushed' = pushed + 1
  /\ UNCHANGED <<eltsDequeue, headIdx, received>>

\* k calls of popUnsynchronized: the first one that finds eltsDequeue used up
\* swaps the two vectors.  k is at most the queue's size.
BrokenPop(k) ==
  LET left == Len(eltsDequeue) - headIdx - 1 IN
  \/ /\ k <= left
     /\ headIdx' = headIdx + k
     /\ received' = received \o SubSeq(eltsDequeue, headIdx + 1, headIdx + k)
     /\ UNCHANGED <<eltsDequeue, eltsEnqueue, pushed>>
  \/ /\ k > left
     /\ eltsDequeue' = eltsEnqueue /\ eltsEnqueue' = <<>> /\ headIdx' = k - left
     /\ received' = received \o SubSeq(Contents, 1, k)
     /\ UNCHANGED pushed

popUnsynchronized(k) ==
  LET left == Len(eltsDequeue) - headIdx IN
  \/ /\ k <= left
     /\ headIdx' = headIdx + k
     /\ received' = received \o SubSeq(eltsDequeue, headIdx + 1, headIdx + k)
     /\ UNCHANGED <<eltsDequeue, eltsEnqueue, pushed>>
  \/ /\ k > left
     /\ eltsDequeue' = eltsEnqueue /\ eltsEnqueue' = <<>> /\ headIdx' = k - left
     /\ received' = received \o SubSeq(eltsDequeue, headIdx + 1, Len(eltsDequeue))
                             \o SubSeq(eltsEnqueue, 1, k - left)
     /\ UNCHANGED pushed

(***************************************************************************)
(* Notifications.                                                          *)
(***************************************************************************)
\* After a push: the queue was empty.
BrokenNotifyPushed ==
  notEmptyCondVar' = IF sizeUnsynchronized' = maxSize THEN {} ELSE notEmptyCondVar

NotifyPushed ==
  notEmptyCondVar' = IF sizeUnsynchronized' = 1 THEN {} ELSE notEmptyCondVar

\* waitPop and tryPop, before they pop: the queue was exactly full.
NotifyPopped ==
  notFullCondVar' = IF sizeUnsynchronized = maxSize THEN {} ELSE notFullCondVar

\* waitPopUpToN: the pops took the queue from full (or overfull) to not full.
BrokenNotifyBatch(k) ==
  notFullCondVar' = IF sizeUnsynchronized = maxSize THEN {} ELSE notFullCondVar

NotifyBatch(k) ==
  notFullCondVar' =
    IF sizeUnsynchronized >= maxSize /\ sizeUnsynchronized < maxSize + k
      THEN {} ELSE notFullCondVar

(***************************************************************************)
(* Pushing.                                                                *)
(***************************************************************************)
Returns(t) == call' = [call EXCEPT ![t] = "none"]

Push ==
  /\ ~closed /\ ~readOnly /\ pushed < MaxPushes
  /\ pushUnsynchronized /\ NotifyPushed
  /\ UNCHANGED <<closed, readOnly, n, notFullCondVar>>

CallWaitPush(p) ==
  /\ call[p] = "none"
  /\ call' = [call EXCEPT ![p] = "waitPush"]
  /\ UNCHANGED <<closed, readOnly, elementVars, notFullCondVar, notEmptyCondVar, n>>

\* waitPush has the mutex: it waits, is refused, or pushes.
WaitPush(p) ==
  /\ call[p] = "waitPush" /\ p \notin notFullCondVar
  /\ \/ /\ ~closed /\ ~readOnly /\ sizeUnsynchronized >= maxSize
        /\ notFullCondVar' = notFullCondVar \cup {p}
        /\ UNCHANGED <<closed, readOnly, elementVars, notEmptyCondVar, call, n>>
     \/ /\ closed \/ readOnly
        /\ Returns(p)
        /\ UNCHANGED <<closed, readOnly, elementVars, notFullCondVar, notEmptyCondVar, n>>
     \/ sizeUnsynchronized < maxSize /\ Push /\ Returns(p)

\* forcePush never waits and may overfill the queue.
ForcePush(p) ==
  call[p] = "none" /\ Push /\ UNCHANGED call

(***************************************************************************)
(* Popping.                                                                *)
(***************************************************************************)
Smaller(a, b) == IF a < b THEN a ELSE b

CallWaitPop(c) ==
  /\ call[c] = "none"
  /\ call' = [call EXCEPT ![c] = "waitPop"]
  /\ n' = [n EXCEPT ![c] = 1]
  /\ UNCHANGED <<closed, readOnly, elementVars, notFullCondVar, notEmptyCondVar>>

CallWaitPopUpToN(c, k) ==
  /\ call[c] = "none"
  /\ call' = [call EXCEPT ![c] = "waitPopUpToN"]
  /\ n' = [n EXCEPT ![c] = k]
  /\ UNCHANGED <<closed, readOnly, elementVars, notFullCondVar, notEmptyCondVar>>

\* What the wait loops of both pops do before they look at the elements.
BrokenNothingToPop(c) ==
  \/ /\ ~closed /\ ~readOnly /\ sizeUnsynchronized <= 0
     /\ notEmptyCondVar' = notEmptyCondVar \cup {c}
     /\ UNCHANGED <<closed, readOnly, elementVars, notFullCondVar, call, n>>
  \/ /\ closed \/ readOnly
     /\ Returns(c)
     /\ UNCHANGED <<closed, readOnly, elementVars, notFullCondVar, notEmptyCondVar, n>>

NothingToPop(c) ==
  \/ /\ ~closed /\ ~readOnly /\ sizeUnsynchronized <= 0
     /\ notEmptyCondVar' = notEmptyCondVar \cup {c}
     /\ UNCHANGED <<closed, readOnly, elementVars, notFullCondVar, call, n>>
  \/ /\ closed \/ (readOnly /\ sizeUnsynchronized <= 0)
     /\ Returns(c)
     /\ UNCHANGED <<closed, readOnly, elementVars, notFullCondVar, notEmptyCondVar, n>>

WaitPop(c) ==
  /\ call[c] = "waitPop" /\ c \notin notEmptyCondVar
  /\ \/ NothingToPop(c)
     \/ /\ ~closed /\ sizeUnsynchronized > 0
        /\ NotifyPopped /\ popUnsynchronized(1) /\ Returns(c)
        /\ UNCHANGED <<closed, readOnly, notEmptyCondVar, n>>

WaitPopUpToN(c) ==
  /\ call[c] = "waitPopUpToN" /\ c \notin notEmptyCondVar
  /\ \/ NothingToPop(c)
     \/ /\ ~closed /\ sizeUnsynchronized > 0
        /\ popUnsynchronized(Smaller(sizeUnsynchronized, n[c]))
        /\ NotifyBatch(n[c]) /\ Returns(c)
        /\ UNCHANGED <<closed, readOnly, notEmptyCondVar, n>>

\* tryPop that finds something; one that finds nothing changes nothing.
TryPop(c) ==
  /\ call[c] = "none"
  /\ ~closed /\ sizeUnsynchronized > 0
  /\ NotifyPopped /\ popUnsynchronized(1)
  /\ UNCHANGED <<closed, readOnly, notEmptyCondVar, call, n>>

(***************************************************************************)
(* The owner of the queue.                                                 *)
(***************************************************************************)
NotifyAll == notFullCondVar' = {} /\ notEmptyCondVar' = {}

\* clearUnsynchronized leaves headIdx as it is: a closed queue is not asked
\* for its elements again.
Close ==
  /\ closed' = TRUE
  /\ eltsDequeue' = <<>> /\ eltsEnqueue' = <<>>
  /\ NotifyAll
  /\ UNCHANGED <<readOnly, headIdx, pushed, received, call, n>>

SetReadOnly ==
  /\ readOnly' = TRUE /\ NotifyAll
  /\ UNCHANGED <<closed, elementVars, call, n>>

UnsetReadOnly ==
  /\ readOnly' = FALSE
  /\ UNCHANGED <<closed, elementVars, notFullCondVar, notEmptyCondVar, call, n>>

\* A condition variable may wake a waiter for no reason.
SpuriousWakeup(t) ==
  /\ t \in notFullCondVar \cup notEmptyCondVar
  /\ notFullCondVar' = notFullCondVar \ {t}
  /\ notEmptyCondVar' = notEmptyCondVar \ {t}
  /\ UNCHANGED <<closed, readOnly, elementVars, call, n>>

(***************************************************************************)
(* The specification.                                                      *)
(***************************************************************************)
ProducerStep(p) == CallWaitPush(p) \/ WaitPush(p) \/ ForcePush(p)

ConsumerStep(c) ==
  \/ CallWaitPop(c) \/ (\E k \in Batches : CallWaitPopUpToN(c, k))
  \/ WaitPop(c) \/ WaitPopUpToN(c) \/ TryPop(c)

Next ==
  \/ \E p \in Producers : ProducerStep(p)
  \/ \E c \in Consumers : ConsumerStep(c)
  \/ Close \/ SetReadOnly \/ UnsetReadOnly
  \/ \E t \in Producers \cup Consumers : SpuriousWakeup(t)

\* A thread inside a call that is not waiting gets the mutex: nobody keeps it.
Fairness ==
  /\ \A p \in Producers : WF_vars(WaitPush(p))
  /\ \A c \in Consumers : WF_vars(WaitPop(c) \/ WaitPopUpToN(c))

Spec == Init /\ [][Next]_vars /\ Fairness

(***************************************************************************)
(* Properties.                                                             *)
(***************************************************************************)
\* Every variable has its type; while the queue is open headIdx is within
\* eltsDequeue, as sizeUnsynchronized asserts.
TypeOK ==
  /\ closed \in BOOLEAN /\ readOnly \in BOOLEAN
  /\ eltsDequeue \in Seq(Nat) /\ eltsEnqueue \in Seq(Nat) /\ headIdx \in Nat
  /\ ~closed => headIdx <= Len(eltsDequeue)
  /\ notFullCondVar \subseteq Producers /\ notEmptyCondVar \subseteq Consumers
  /\ call \in [Producers \cup Consumers ->
                 {"none", "waitPush", "waitPop", "waitPopUpToN"}]
  /\ n \in [Consumers -> 1..MaxPushes]
  /\ pushed \in Nat /\ received \in Seq(Nat)

\* Until the queue is closed, what was received and what is still inside are
\* together everything that was pushed, in order: the two vectors, the swap
\* and the batch pops lose, double and reorder nothing.
NothingLostOrReordered ==
  ~closed => received \o Contents = [i \in 1..pushed |-> i]

\* Nobody sleeps on a condition that holds already, although a push notifies
\* only when the queue was empty and a pop only when it was full, forcePush
\* overfills the queue and waitPopUpToN may jump over the boundary.
NoLostWakeup ==
  /\ notFullCondVar # {} => ~closed /\ ~readOnly /\ sizeUnsynchronized >= maxSize
  /\ notEmptyCondVar # {} => ~closed /\ ~readOnly /\ sizeUnsynchronized <= 0

\* A blocking pop comes back without an element only when none will come: the
\* queue was closed, or it is read-only and all that was pushed was received.
DrainedBeforeRefused ==
  [][\A c \in Consumers :
       call[c] # "none" /\ call'[c] = "none" /\ received' = received =>
         closed \/ (readOnly /\ Len(received) = pushed)]_vars

\* Refinement: the queue is a first-in first-out channel whose calls return
\* when they may.
Channel == INSTANCE FifoChannel
  WITH items <- IF closed THEN <<>> ELSE Contents,
       Capacity <- maxSize,
       demand <- n,
       call <- [t \in Producers \cup Consumers |->
                  CASE call[t] = "none" -> "none"
                    [] call[t] = "waitPush" -> "push"
                    [] OTHER -> "pop"]

ImplementsChannel == Channel!Spec
=============================================================================
