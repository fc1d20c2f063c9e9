------------------------------- MODULE NNEval -------------------------------
(***************************************************************************)
(* NNEvaluator (neuralnet/nneval.cpp): search threads hand positions to    *)
(* server threads that evaluate them in batches.  The query queue is the   *)
(* ThreadSafeQueue, taken here for the channel it implements (FifoChannel):*)
(* a pop waits while the queue is empty, unless it is read-only.           *)
(* bufferMutex and the mutex of each result buffer are not variables: one  *)
(* action is what is done under one of them.  A search thread has one      *)
(* NNResultBuf, so the threads stand for the buffers as well.              *)
(***************************************************************************)
EXTENDS Integers, Sequences, FiniteSets

CONSTANTS SearchThreads, ServerThreads, maxBatchSize

ASSUME NNEvalConstants ==
  /\ IsFiniteSet(SearchThreads) /\ IsFiniteSet(ServerThreads)
  /\ maxBatchSize \in Nat \ {0}

VARIABLES
  main,           \* the thread that spawns and kills the server threads
  stopped,        \* the search was told to stop: no further playouts
  client,         \* each search thread
  hasResult,      \* of its buffer
  queryQueue, readOnly,
  server,         \* each server thread
  resultBufs,     \* the rows of its batch that it has not handed out yet
  numRows,        \* the size of that batch
  numOngoingEvals, numWaitingEvals, numEvalsToAwaken,
  isKilled, numServerThreadsStartingUp

searchVars == <<stopped, client, hasResult>>
queueVars == <<queryQueue, readOnly>>
serverVars == <<server, resultBufs, numRows>>
counterVars == <<numOngoingEvals, numWaitingEvals, numEvalsToAwaken>>
threadVars == <<main, isKilled, numServerThreadsStartingUp>>
vars == <<searchVars, queueVars, serverVars, counterVars, threadVars>>

Init ==
  /\ main = "off" /\ isKilled = FALSE /\ numServerThreadsStartingUp = 0
  /\ stopped = TRUE
  /\ client = [c \in SearchThreads |-> "idle"]
  /\ hasResult = [c \in SearchThreads |-> FALSE]
  /\ queryQueue = <<>> /\ readOnly = TRUE
  /\ server = [s \in ServerThreads |-> "none"]
  /\ resultBufs = [s \in ServerThreads |-> <<>>]
  /\ numRows = [s \in ServerThreads |-> 0]
  /\ numOngoingEvals = 0 /\ numWaitingEvals = 0 /\ numEvalsToAwaken = 0

AllIdle == \A c \in SearchThreads : client[c] = "idle"

\* The search's threads are joined before anything else is done with the
\* evaluator; a new search starts them again.
StopSearch ==
  /\ main = "running" /\ ~stopped
  /\ stopped' = TRUE
  /\ UNCHANGED <<client, hasResult, queueVars, serverVars, counterVars, threadVars>>

StartSearch ==
  /\ main = "running" /\ stopped /\ AllIdle
  /\ stopped' = FALSE
  /\ UNCHANGED <<client, hasResult, queueVars, serverVars, counterVars, threadVars>>

InPlayout(c) == ~stopped /\ client[c] = "idle"

(***************************************************************************)
(* evaluate.                                                               *)
(***************************************************************************)
\* Mistake: the result of the last evaluation is still in the buffer.
BrokenFreshBuffer(c) == UNCHANGED hasResult

FreshBuffer(c) == hasResult' = [hasResult EXCEPT ![c] = FALSE]

\* The position was evaluated before.
CacheHit(c) ==
  /\ InPlayout(c)
  /\ hasResult' = [hasResult EXCEPT ![c] = TRUE]
  /\ UNCHANGED <<stopped, client, queueVars, serverVars, counterVars, threadVars>>

CountEval(c) ==
  /\ InPlayout(c)
  /\ FreshBuffer(c)
  /\ numOngoingEvals' = numOngoingEvals + 1
  /\ client' = [client EXCEPT ![c] = "counted"]
  /\ UNCHANGED <<stopped, queueVars, serverVars, numWaitingEvals, numEvalsToAwaken,
                 threadVars>>

\* The code asserts that forcePush succeeds: the queue is not read-only.
PushQuery(c) ==
  /\ client[c] = "counted"
  /\ ~readOnly
  /\ queryQueue' = Append(queryQueue, c)
  /\ client' = [client EXCEPT ![c] = "check"]
  /\ UNCHANGED <<stopped, hasResult, readOnly, serverVars, counterVars, threadVars>>

\* while(!buf.hasResult) wait, and the result is taken.
TakeResult(c) ==
  /\ client[c] = "check"
  /\ client' = [client EXCEPT ![c] = IF hasResult[c] THEN "idle" ELSE "asleep"]
  /\ UNCHANGED <<stopped, hasResult, queueVars, serverVars, counterVars, threadVars>>

(***************************************************************************)
(* waitForNextNNEvalIfAny.                                                 *)
(***************************************************************************)
MayLeave == numEvalsToAwaken > 0 \/ isKilled

LeaveOrSleep(c) ==
  IF MayLeave
  THEN /\ client' = [client EXCEPT ![c] = "idle"]
       /\ numEvalsToAwaken' = numEvalsToAwaken - 1
  ELSE /\ client' = [client EXCEPT ![c] = "napping"]
       /\ UNCHANGED numEvalsToAwaken

WaitForNextNNEvalIfAny(c) ==
  /\ InPlayout(c)
  /\ numOngoingEvals > 0
  /\ numWaitingEvals' = numWaitingEvals + 1
  /\ LeaveOrSleep(c)
  /\ UNCHANGED <<stopped, hasResult, queueVars, serverVars, numOngoingEvals, threadVars>>

LookAgain(c) ==
  /\ client[c] = "woken"
  /\ LeaveOrSleep(c)
  /\ UNCHANGED <<stopped, hasResult, queueVars, serverVars, numOngoingEvals,
                 numWaitingEvals, threadVars>>

(***************************************************************************)
(* serve.                                                                  *)
(***************************************************************************)
ServerStarts(s) ==
  /\ server[s] = "starting"
  /\ server' = [server EXCEPT ![s] = "pop"]
  /\ numServerThreadsStartingUp' = numServerThreadsStartingUp - 1
  /\ main' = IF numServerThreadsStartingUp <= 1 /\ main = "asleep"
               THEN "spawning" ELSE main
  /\ UNCHANGED <<searchVars, queueVars, resultBufs, numRows, counterVars, isKilled>>

Smaller(a, b) == IF a < b THEN a ELSE b

\* desiredBatchSize may be any cap that setMaxRowsToSendPerBatch ever set.
PopBatch(s, desiredBatchSize) ==
  /\ server[s] = "pop"
  /\ queryQueue # <<>>
  /\ LET k == Smaller(desiredBatchSize, Len(queryQueue)) IN
     /\ resultBufs' = [resultBufs EXCEPT ![s] = SubSeq(queryQueue, 1, k)]
     /\ numRows' = [numRows EXCEPT ![s] = k]
     /\ queryQueue' = SubSeq(queryQueue, k + 1, Len(queryQueue))
  /\ server' = [server EXCEPT ![s] = "serve"]
  /\ UNCHANGED <<searchVars, readOnly, counterVars, threadVars>>

ServerExits(s) ==
  /\ server[s] = "pop"
  /\ readOnly /\ queryQueue = <<>>
  /\ server' = [server EXCEPT ![s] = "exited"]
  /\ UNCHANGED <<searchVars, queueVars, resultBufs, numRows, counterVars, threadVars>>

\* Mistake: the search thread is not notified.
BrokenWakeClient(c) == UNCHANGED client

WakeClient(c) ==
  client' = [client EXCEPT ![c] = IF @ = "asleep" THEN "check" ELSE @]

HandResult(s) ==
  /\ server[s] = "serve"
  /\ resultBufs[s] # <<>>
  /\ LET c == Head(resultBufs[s]) IN
     /\ hasResult' = [hasResult EXCEPT ![c] = TRUE]
     /\ WakeClient(c)
  /\ resultBufs' = [resultBufs EXCEPT ![s] = Tail(@)]
  /\ UNCHANGED <<stopped, queueVars, server, numRows, counterVars, threadVars>>

\* Mistake: those that were told to wake up are counted as waiting still.
BrokenAwaken ==
  /\ numEvalsToAwaken' = numEvalsToAwaken + numWaitingEvals
  /\ UNCHANGED numWaitingEvals

Awaken ==
  /\ numEvalsToAwaken' = numEvalsToAwaken + numWaitingEvals
  /\ numWaitingEvals' = 0

\* waitingForFinish.notify_all.
WakeNapping ==
  client' = [c \in SearchThreads |-> IF client[c] = "napping" THEN "woken" ELSE client[c]]

BatchDone(s) ==
  /\ server[s] = "serve"
  /\ resultBufs[s] = <<>>
  /\ numOngoingEvals' = numOngoingEvals - numRows[s]
  /\ IF numWaitingEvals > 0
     THEN Awaken /\ WakeNapping
     ELSE UNCHANGED <<numWaitingEvals, numEvalsToAwaken, client>>
  /\ server' = [server EXCEPT ![s] = "pop"]
  /\ numRows' = [numRows EXCEPT ![s] = 0]
  /\ UNCHANGED <<stopped, hasResult, queueVars, resultBufs, threadVars>>

(***************************************************************************)
(* spawnServerThreads and killServerThreads, by one thread.                *)
(***************************************************************************)
SpawnServerThreads ==
  /\ main = "off"
  /\ readOnly' = FALSE
  /\ numServerThreadsStartingUp' = Cardinality(ServerThreads)
  /\ server' = [s \in ServerThreads |-> "starting"]
  /\ main' = "spawning"
  /\ UNCHANGED <<searchVars, queryQueue, resultBufs, numRows, counterVars, isKilled>>

SpawnReturns ==
  /\ main = "spawning"
  /\ main' = IF numServerThreadsStartingUp > 0 THEN "asleep" ELSE "running"
  /\ UNCHANGED <<searchVars, queueVars, serverVars, counterVars, isKilled,
                 numServerThreadsStartingUp>>

\* Its callers are done searching.
KillServerThreads ==
  /\ main = "running" /\ stopped /\ AllIdle
  /\ isKilled' = TRUE
  /\ main' = "killing"
  /\ UNCHANGED <<searchVars, queueVars, serverVars, counterVars,
                 numServerThreadsStartingUp>>

TellServerThreads ==
  /\ main = "killing"
  /\ readOnly' = TRUE
  /\ WakeNapping
  /\ main' = "joining"
  /\ UNCHANGED <<stopped, hasResult, queryQueue, serverVars, counterVars, isKilled,
                 numServerThreadsStartingUp>>

JoinServerThreads ==
  /\ main = "joining"
  /\ \A s \in ServerThreads : server[s] = "exited"
  /\ server' = [s \in ServerThreads |-> "none"]
  /\ isKilled' = FALSE
  /\ main' = "off"
  /\ UNCHANGED <<searchVars, queueVars, resultBufs, numRows, counterVars,
                 numServerThreadsStartingUp>>

\* A condition variable may wake a waiter for no reason.
SpuriousWakeup ==
  /\ \/ \E c \in SearchThreads :
          /\ client[c] \in {"asleep", "napping"}
          /\ client' = [client EXCEPT ![c] = IF @ = "asleep" THEN "check" ELSE "woken"]
          /\ UNCHANGED main
     \/ main = "asleep" /\ main' = "spawning" /\ UNCHANGED client
  /\ UNCHANGED <<stopped, hasResult, queueVars, serverVars, counterVars, isKilled,
                 numServerThreadsStartingUp>>

(***************************************************************************)
(* The specification.                                                      *)
(***************************************************************************)
ClientStep(c) == PushQuery(c) \/ TakeResult(c) \/ LookAgain(c)

ServerStep(s) ==
  \/ ServerStarts(s) \/ ServerExits(s) \/ HandResult(s) \/ BatchDone(s)
  \/ \E n \in 1..maxBatchSize : PopBatch(s, n)

MainStep == SpawnReturns \/ TellServerThreads \/ JoinServerThreads

Next ==
  \/ \E c \in SearchThreads :
       CacheHit(c) \/ CountEval(c) \/ WaitForNextNNEvalIfAny(c) \/ ClientStep(c)
  \/ \E s \in ServerThreads : ServerStep(s)
  \/ StopSearch \/ StartSearch \/ SpawnServerThreads \/ KillServerThreads \/ MainStep
  \/ SpuriousWakeup

\* Every thread that can run does.  Nobody has to evaluate, stop or kill.
Fairness ==
  /\ \A c \in SearchThreads : WF_vars(ClientStep(c))
  /\ \A s \in ServerThreads : WF_vars(ServerStep(s))
  /\ WF_vars(MainStep)

Spec == Init /\ [][Next]_vars /\ Fairness

(***************************************************************************)
(* Properties.                                                             *)
(***************************************************************************)
\* Every variable has its type; in particular no counter is ever negative.
TypeOK ==
  /\ main \in {"off", "spawning", "asleep", "running", "killing", "joining"}
  /\ isKilled \in BOOLEAN /\ stopped \in BOOLEAN /\ readOnly \in BOOLEAN
  /\ client \in [SearchThreads ->
                   {"idle", "counted", "check", "asleep", "napping", "woken"}]
  /\ hasResult \in [SearchThreads -> BOOLEAN]
  /\ queryQueue \in Seq(SearchThreads)
  /\ server \in [ServerThreads -> {"none", "starting", "pop", "serve", "exited"}]
  /\ resultBufs \in [ServerThreads -> Seq(SearchThreads)]
  /\ numRows \in [ServerThreads -> Nat]
  /\ numOngoingEvals \in Nat /\ numWaitingEvals \in Nat /\ numEvalsToAwaken \in Nat
  /\ numServerThreadsStartingUp \in Nat

Holds(bufs, c) == \E i \in 1..Len(bufs) : bufs[i] = c

Distinct(bufs) == \A i, j \in 1..Len(bufs) : bufs[i] = bufs[j] => i = j

Pending(c) ==
  Holds(queryQueue, c) \/ \E s \in ServerThreads : Holds(resultBufs[s], c)

\* A buffer that a server thread will write to has no result yet and belongs
\* to a thread that waits for it, and is in one place only: nobody reuses or
\* frees a buffer under a server thread, gets a result twice, or sleeps on one.
BufferHeldWhileServed ==
  /\ \A c \in SearchThreads :
       /\ Pending(c) <=> client[c] \in {"check", "asleep"} /\ ~hasResult[c]
       /\ client[c] = "asleep" => ~hasResult[c]
  /\ Distinct(queryQueue)
  /\ \A s \in ServerThreads : Distinct(resultBufs[s])
  /\ \A c \in SearchThreads, s \in ServerThreads :
       Holds(resultBufs[s], c) =>
         /\ ~Holds(queryQueue, c)
         /\ \A t \in ServerThreads \ {s} : ~Holds(resultBufs[t], c)

\* What killServerThreads asserts once the server threads are joined, although
\* threads that come for a nap may take the turn of threads that were told to
\* wake up, and a batch is counted off after its results were handed out.
CountersSettle ==
  main = "off" =>
    /\ numOngoingEvals = 0 /\ numWaitingEvals = 0 /\ numEvalsToAwaken = 0
    /\ queryQueue = <<>>

\* Each evaluation comes back; and when a search is told to stop, all of its
\* threads come back, those that wait for somebody else's evaluation too.
CallsReturn ==
  /\ \A c \in SearchThreads :
       client[c] \in {"counted", "check", "asleep"} ~> client[c] = "idle"
  /\ stopped ~> AllIdle
=============================================================================
