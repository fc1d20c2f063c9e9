---------------------------- MODULE FifoChannel ----------------------------
(***************************************************************************)
(* What threadsafequeue.h promises its callers: one first-in first-out     *)
(* channel of the elements 1, 2, 3, ... (numbered in the order in which    *)
(* pushes succeed), without locks, condition variables or wakeups.  A call *)
(* that is allowed to return does so, sooner or later.                     *)
(***************************************************************************)
EXTENDS Integers, Sequences

CONSTANTS Producers, Consumers, Capacity, MaxPushes

VARIABLES items,    \* the elements in the channel, oldest first
          closed, readOnly,
          call,     \* the blocking call each thread is in
          demand,   \* how many elements a consumer asked for at most
          pushed,   \* how many elements were accepted
          received  \* the elements handed to consumers, in order

channelVars == <<items, closed, readOnly, call, demand, pushed, received>>

Init ==
  /\ items = <<>> /\ received = <<>> /\ pushed = 0
  /\ closed = FALSE /\ readOnly = FALSE
  /\ call = [t \in Producers \cup Consumers |-> "none"]
  /\ demand \in [Consumers -> {1}]

Accept ==
  /\ ~closed /\ ~readOnly /\ pushed < MaxPushes
  /\ items' = Append(items, pushed + 1)
  /\ pushed' = pushed + 1
  /\ UNCHANGED <<closed, readOnly, demand, received>>

\* The oldest elements leave, n of them or all there are, and at least one.
Give(n) ==
  /\ ~closed /\ items # <<>>
  /\ LET k == IF n < Len(items) THEN n ELSE Len(items) IN
     /\ received' = received \o SubSeq(items, 1, k)
     /\ items' = SubSeq(items, k + 1, Len(items))
  /\ UNCHANGED <<closed, readOnly, demand, pushed>>

NothingMoves ==
  UNCHANGED <<items, closed, readOnly, demand, pushed, received>>

Calls(t, name) ==
  /\ call[t] = "none"
  /\ call' = [call EXCEPT ![t] = name]
  /\ UNCHANGED <<items, closed, readOnly, pushed, received>>

Returns(t) == call' = [call EXCEPT ![t] = "none"]

\* A push waits while the channel is full, a pop while it is empty; nobody
\* waits for a closed or read-only channel.
PushReturns(p) ==
  /\ call[p] = "push" /\ Returns(p)
  /\ \/ Len(items) < Capacity /\ Accept
     \/ (closed \/ readOnly) /\ NothingMoves

PopReturns(c) ==
  /\ call[c] = "pop" /\ Returns(c)
  /\ \/ Give(demand[c])
     \/ closed /\ NothingMoves
     \/ readOnly /\ items = <<>> /\ NothingMoves

Close ==
  /\ closed' = TRUE /\ items' = <<>>
  /\ UNCHANGED <<readOnly, call, demand, pushed, received>>

SetReadOnly(b) ==
  readOnly' = b /\ UNCHANGED <<items, closed, call, demand, pushed, received>>

Next ==
  \/ \E p \in Producers :
       \/ Calls(p, "push") /\ UNCHANGED demand
       \/ PushReturns(p)
       \/ Accept /\ UNCHANGED call
  \/ \E c \in Consumers :
       \/ Calls(c, "pop") /\ \E n \in 1..MaxPushes : demand' = [demand EXCEPT ![c] = n]
       \/ PopReturns(c)
       \/ Give(1) /\ UNCHANGED call
  \/ Close
  \/ \E b \in BOOLEAN : SetReadOnly(b)

\* A thread whose call may return from now on returns.
Fairness ==
  /\ \A p \in Producers : WF_channelVars(PushReturns(p))
  /\ \A c \in Consumers : WF_channelVars(PopReturns(c))

Spec == Init /\ [][Next]_channelVars /\ Fairness
=============================================================================
