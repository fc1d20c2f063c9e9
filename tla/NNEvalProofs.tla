---------------------------- MODULE NNEvalProofs ----------------------------
(***************************************************************************)
(* For any numbers of search threads, server threads and rows of a batch:  *)
(* a result buffer that a server thread will write to is held by a search  *)
(* thread that waits for it, and is in one place only; and the counters    *)
(* are what they count, so that all is settled when the threads are gone.  *)
(***************************************************************************)
EXTENDS NNEval, FiniteSetTheorems, SequenceTheorems, TLAPS

\* The types that matter here: nothing is said about the counters.
Types ==
  /\ client \in [SearchThreads ->
                   {"idle", "counted", "check", "asleep", "napping", "woken"}]
  /\ hasResult \in [SearchThreads -> BOOLEAN]
  /\ queryQueue \in Seq(SearchThreads)
  /\ server \in [ServerThreads -> {"none", "starting", "pop", "serve", "exited"}]
  /\ resultBufs \in [ServerThreads -> Seq(SearchThreads)]

\* A server thread has rows only while it serves a batch, and server threads
\* are joined before new ones are spawned.
ServerInv ==
  /\ \A s \in ServerThreads : resultBufs[s] # <<>> => server[s] = "serve"
  /\ main = "off" => \A s \in ServerThreads : server[s] = "none"

\* A thread about to push its buffer has cleared it.
CountedInv == \A c \in SearchThreads : client[c] = "counted" => ~hasResult[c]

IInv == Types /\ ServerInv /\ CountedInv /\ BufferHeldWhileServed

(***************************************************************************)
(* What a sequence of buffers holds.                                       *)
(***************************************************************************)
\* A pushed buffer is held beside the others, and once if it was not there.
LEMMA HoldsAppend ==
  ASSUME NEW S, NEW q \in Seq(S), NEW c \in S
  PROVE  /\ Append(q, c) \in Seq(S)
         /\ \A d : Holds(Append(q, c), d) <=> Holds(q, d) \/ d = c
         /\ Distinct(q) /\ ~Holds(q, c) => Distinct(Append(q, c))
<1>1. /\ Append(q, c) \in Seq(S) /\ Len(q) \in Nat
      /\ Len(Append(q, c)) = Len(q) + 1
      /\ \A i \in 1..Len(q) : Append(q, c)[i] = q[i]
      /\ Append(q, c)[Len(q) + 1] = c
  BY AppendProperties, LenProperties
<1>2. 1..Len(Append(q, c)) = 1..Len(q) \cup {Len(q) + 1}
  BY <1>1
<1> QED
  BY <1>1, <1>2 DEF Holds, Distinct

\* The first buffer of a batch is held by nothing that follows it.
LEMMA HoldsTail ==
  ASSUME NEW S, NEW q \in Seq(S), q # <<>>
  PROVE  /\ Tail(q) \in Seq(S) /\ Head(q) \in S
         /\ \A d : Holds(q, d) <=> Holds(Tail(q), d) \/ d = Head(q)
         /\ Distinct(q) => Distinct(Tail(q)) /\ ~Holds(Tail(q), Head(q))
<1>1. /\ Tail(q) \in Seq(S) /\ Head(q) \in S /\ Head(q) = q[1]
      /\ Len(q) \in Nat \ {0} /\ Len(Tail(q)) = Len(q) - 1
      /\ \A i \in 1..Len(Tail(q)) : Tail(q)[i] = q[i + 1]
  BY HeadTailProperties, LenProperties, EmptySeq
<1>2. \A i \in 1..Len(q) : i = 1 \/ i - 1 \in 1..Len(Tail(q))
  BY <1>1
<1>3. \A i \in 1..Len(Tail(q)) : i + 1 \in 1..Len(q) /\ i + 1 # 1
  BY <1>1
<1>4. ASSUME NEW d, Holds(q, d) PROVE Holds(Tail(q), d) \/ d = Head(q)
  <2>1. PICK i \in 1..Len(q) : q[i] = d
    BY <1>4 DEF Holds
  <2>2. CASE i = 1
    BY <2>1, <2>2, <1>1
  <2>3. CASE i - 1 \in 1..Len(Tail(q))
    <3>1. Tail(q)[i - 1] = q[(i - 1) + 1] /\ (i - 1) + 1 = i
      BY <2>1, <2>3, <1>1
    <3> QED
      BY <3>1, <2>1, <2>3 DEF Holds
  <2> QED
    BY <2>1, <2>2, <2>3, <1>2
<1>5. ASSUME NEW d, Holds(Tail(q), d) \/ d = Head(q) PROVE Holds(q, d)
  BY <1>1, <1>3, <1>5 DEF Holds
<1>6. ASSUME Distinct(q) PROVE Distinct(Tail(q)) /\ ~Holds(Tail(q), Head(q))
  BY <1>1, <1>3, <1>6 DEF Holds, Distinct
<1> QED
  BY <1>1, <1>4, <1>5, <1>6

\* A batch taken from the front, and what stays, share no buffer.
LEMMA HoldsSplit ==
  ASSUME NEW S, NEW q \in Seq(S), NEW k \in Nat, k <= Len(q)
  PROVE  /\ SubSeq(q, 1, k) \in Seq(S) /\ SubSeq(q, k + 1, Len(q)) \in Seq(S)
         /\ \A d : Holds(q, d) <=> \/ Holds(SubSeq(q, 1, k), d)
                                   \/ Holds(SubSeq(q, k + 1, Len(q)), d)
         /\ Distinct(q) =>
              /\ Distinct(SubSeq(q, 1, k)) /\ Distinct(SubSeq(q, k + 1, Len(q)))
              /\ \A d : ~(Holds(SubSeq(q, 1, k), d) /\ Holds(SubSeq(q, k + 1, Len(q)), d))
<1> DEFINE a == SubSeq(q, 1, k)
           b == SubSeq(q, k + 1, Len(q))
<1>1. Len(q) \in Nat /\ \A i \in 1..Len(q) : q[i] \in S
  BY LenProperties, ElementOfSeq
<1>2. /\ a \in Seq(S) /\ Len(a) = k
      /\ \A i \in 1..k : a[i] = q[i]
  <2>1. \A i \in 1..k : q[i] \in S
    BY <1>1
  <2>2. 1 \in Int /\ k \in Int
    OBVIOUS
  <2>3. /\ a \in Seq(S) /\ Len(a) = IF 1 <= k THEN k - 1 + 1 ELSE 0
        /\ \A i \in 1..k - 1 + 1 : a[i] = q[1 + i - 1]
    BY <2>1, <2>2, SubSeqProperties
  <2> QED
    BY <2>3
<1>3. /\ b \in Seq(S) /\ Len(b) = Len(q) - k
      /\ \A i \in 1..Len(q) - k : b[i] = q[i + k]
  <2>1. \A i \in k + 1..Len(q) : q[i] \in S
    BY <1>1
  <2>2. k + 1 \in Int /\ Len(q) \in Int
    BY <1>1
  <2>3. /\ b \in Seq(S)
        /\ Len(b) = IF k + 1 <= Len(q) THEN Len(q) - (k + 1) + 1 ELSE 0
        /\ \A i \in 1..Len(q) - (k + 1) + 1 : b[i] = q[(k + 1) + i - 1]
    BY <2>1, <2>2, SubSeqProperties
  <2> QED
    BY <1>1, <2>3
<1> HIDE DEF a, b
<1>4. \A d : Holds(a, d) <=> \E i \in 1..k : q[i] = d
  BY <1>2 DEF Holds
<1>5. \A d : Holds(b, d) <=> \E i \in k + 1..Len(q) : q[i] = d
  <2> TAKE d
  <2>1. ASSUME NEW i \in 1..Len(q) - k, b[i] = d PROVE \E j \in k + 1..Len(q) : q[j] = d
    <3>1. i + k \in k + 1..Len(q) /\ q[i + k] = d
      BY <1>1, <1>3, <2>1
    <3> QED
      BY <3>1
  <2>2. ASSUME NEW j \in k + 1..Len(q), q[j] = d PROVE \E i \in 1..Len(q) - k : b[i] = d
    <3>1. j - k \in 1..Len(q) - k /\ (j - k) + k = j
      BY <1>1
    <3>2. b[j - k] = d
      BY <1>3, <2>2, <3>1
    <3> QED
      BY <3>1, <3>2
  <2> QED
    BY <1>3, <2>1, <2>2 DEF Holds
<1>6. \A d : Holds(q, d) <=> Holds(a, d) \/ Holds(b, d)
  <2>1. 1..Len(q) = 1..k \cup (k + 1..Len(q))
    BY <1>1
  <2> QED
    BY <1>4, <1>5, <2>1 DEF Holds
<1>7. ASSUME Distinct(q)
      PROVE  Distinct(a) /\ Distinct(b) /\ \A d : ~(Holds(a, d) /\ Holds(b, d))
  <2>1. Distinct(a)
    <3>1. 1..k \subseteq 1..Len(q)
      BY <1>1
    <3> QED
      BY <1>2, <1>7, <3>1 DEF Distinct
  <2>2. Distinct(b)
    <3>1. \A i \in 1..Len(q) - k : i + k \in 1..Len(q)
      BY <1>1
    <3>2. ASSUME NEW i \in 1..Len(q) - k, NEW j \in 1..Len(q) - k, b[i] = b[j] PROVE i = j
      <4>1. q[i + k] = q[j + k]
        BY <1>3, <3>2
      <4>2. i + k = j + k
        BY <1>7, <3>1, <4>1 DEF Distinct
      <4> QED
        BY <4>2
    <3> QED
      BY <1>3, <3>2 DEF Distinct
  <2>3. ASSUME NEW d, Holds(a, d), Holds(b, d) PROVE FALSE
    <3>1. PICK i \in 1..k : q[i] = d
      BY <1>4, <2>3
    <3>2. PICK j \in k + 1..Len(q) : q[j] = d
      BY <1>5, <2>3
    <3>3. i \in 1..Len(q) /\ j \in 1..Len(q) /\ i # j
      BY <1>1
    <3> QED
      BY <1>7, <3>1, <3>2, <3>3 DEF Distinct
  <2> QED
    BY <2>1, <2>2, <2>3
<1> QED
  BY <1>2, <1>3, <1>6, <1>7 DEF a, b

(***************************************************************************)
(* Steps.                                                                  *)
(***************************************************************************)
\* No buffer is anywhere but where it was, and whoever waited for a result
\* still does: then the property is kept, whatever else the step does.
LEMMA BuffersStay ==
  ASSUME BufferHeldWhileServed,
         UNCHANGED <<queryQueue, resultBufs>>,
         \A c \in SearchThreads :
           /\ client'[c] \in {"check", "asleep"} /\ ~hasResult'[c]
                <=> client[c] \in {"check", "asleep"} /\ ~hasResult[c]
           /\ client'[c] = "asleep" => ~hasResult'[c]
  PROVE  BufferHeldWhileServed'
<1>1. \A c \in SearchThreads : Pending(c)' <=> Pending(c)
  BY DEF Pending, Holds
<1>2. \A c \in SearchThreads :
        /\ Pending(c)' <=> client'[c] \in {"check", "asleep"} /\ ~hasResult'[c]
        /\ client'[c] = "asleep" => ~hasResult'[c]
  BY <1>1 DEF BufferHeldWhileServed
<1> QED
  BY <1>2 DEF BufferHeldWhileServed, Holds, Distinct

\* PushQuery adds a buffer that was nowhere, and without a result.
LEMMA PushStep ==
  ASSUME IInv, NEW c \in SearchThreads, PushQuery(c)
  PROVE  IInv'
<1> DEFINE q == queryQueue
           r == queryQueue'
<1>1. /\ client[c] = "counted" /\ ~hasResult[c] /\ ~Pending(c)
      /\ r = Append(q, c) /\ q \in Seq(SearchThreads)
      /\ client' = [client EXCEPT ![c] = "check"]
      /\ UNCHANGED <<main, hasResult, server, resultBufs>>
  BY DEF IInv, Types, CountedInv, BufferHeldWhileServed, PushQuery, serverVars, threadVars
<1>2. /\ r \in Seq(SearchThreads)
      /\ \A d : Holds(r, d) <=> Holds(q, d) \/ d = c
      /\ Distinct(r)
  BY <1>1, HoldsAppend DEF IInv, BufferHeldWhileServed, Pending
<1> HIDE DEF q, r
<1>3. Types' /\ ServerInv' /\ CountedInv'
  BY <1>1, <1>2 DEF IInv, Types, ServerInv, CountedInv, r
<1>4. \A d \in SearchThreads : Pending(d)' <=> Pending(d) \/ d = c
  BY <1>1, <1>2 DEF Pending, q, r, Holds
<1>5. \A d \in SearchThreads :
        /\ Pending(d)' <=> client'[d] \in {"check", "asleep"} /\ ~hasResult'[d]
        /\ client'[d] = "asleep" => ~hasResult'[d]
  BY <1>1, <1>4 DEF IInv, Types, BufferHeldWhileServed
<1>6. \A s \in ServerThreads : Distinct(resultBufs[s])'
  BY <1>1 DEF IInv, BufferHeldWhileServed, Distinct
<1>7. ASSUME NEW d \in SearchThreads, NEW s \in ServerThreads, Holds(resultBufs[s], d)'
      PROVE  /\ ~Holds(queryQueue, d)'
             /\ \A t \in ServerThreads \ {s} : ~Holds(resultBufs[t], d)'
  <2>1. Holds(resultBufs[s], d)
    BY <1>1, <1>7 DEF Holds
  <2>2. d # c /\ ~Holds(q, d) /\ \A t \in ServerThreads \ {s} : ~Holds(resultBufs[t], d)
    BY <1>1, <2>1 DEF IInv, BufferHeldWhileServed, Pending, q
  <2>3. \A t \in ServerThreads \ {s} : ~Holds(resultBufs[t], d)'
    BY <1>1, <2>2 DEF Holds
  <2>4. ~Holds(r, d)
    BY <1>2, <2>2
  <2> QED
    BY <2>3, <2>4 DEF r, Holds
<1>8. Distinct(queryQueue)'
  BY <1>2 DEF r, Distinct
<1> QED
  BY <1>3, <1>5, <1>6, <1>7, <1>8 DEF IInv, BufferHeldWhileServed

\* PopBatch moves the front of the queue to a server thread that has nothing.
LEMMA PopStep ==
  ASSUME IInv, NEW s \in ServerThreads, NEW n \in 1..maxBatchSize, PopBatch(s, n)
  PROVE  IInv'
<1> DEFINE k == Smaller(n, Len(queryQueue))
           a == SubSeq(queryQueue, 1, k)
           b == SubSeq(queryQueue, k + 1, Len(queryQueue))
<1>1. /\ queryQueue \in Seq(SearchThreads) /\ Len(queryQueue) \in Nat
      /\ k \in Nat /\ k <= Len(queryQueue)
  <2>1. queryQueue \in Seq(SearchThreads) /\ Len(queryQueue) \in Nat
    BY LenProperties DEF IInv, Types
  <2>2. n \in Nat
    BY NNEvalConstants
  <2> QED
    BY <2>1, <2>2 DEF Smaller
<1>2. /\ server[s] = "pop" /\ resultBufs[s] = <<>>
      /\ resultBufs' = [resultBufs EXCEPT ![s] = a]
      /\ queryQueue' = b
      /\ server' = [server EXCEPT ![s] = "serve"]
      /\ UNCHANGED <<main, client, hasResult>>
  BY DEF IInv, ServerInv, PopBatch, searchVars, threadVars
<1>3. /\ a \in Seq(SearchThreads) /\ b \in Seq(SearchThreads)
      /\ \A d : Holds(queryQueue, d) <=> Holds(a, d) \/ Holds(b, d)
      /\ Distinct(a) /\ Distinct(b) /\ \A d : ~(Holds(a, d) /\ Holds(b, d))
  BY <1>1, HoldsSplit DEF IInv, BufferHeldWhileServed
<1> HIDE DEF k, a, b
<1>4. Types' /\ ServerInv' /\ CountedInv'
  BY <1>2, <1>3 DEF IInv, Types, ServerInv, CountedInv
<1>5. /\ resultBufs'[s] = a
      /\ \A t \in ServerThreads \ {s} : resultBufs'[t] = resultBufs[t]
  BY <1>2 DEF IInv, Types
<1>6. \A d : ~Holds(resultBufs[s], d)
  BY <1>2, EmptySeq DEF Holds
<1>7. \A d \in SearchThreads : Pending(d)' <=> Pending(d)
  <2> TAKE d \in SearchThreads
  <2>1. Pending(d)' <=> \/ Holds(b, d) \/ Holds(a, d)
                        \/ \E t \in ServerThreads \ {s} : Holds(resultBufs[t], d)
    BY <1>2, <1>5 DEF Pending, Holds
  <2>2. Pending(d) <=> \/ Holds(b, d) \/ Holds(a, d)
                       \/ \E t \in ServerThreads \ {s} : Holds(resultBufs[t], d)
    BY <1>3, <1>6 DEF Pending
  <2> QED
    BY <2>1, <2>2
<1>8. \A d \in SearchThreads :
        /\ Pending(d)' <=> client'[d] \in {"check", "asleep"} /\ ~hasResult'[d]
        /\ client'[d] = "asleep" => ~hasResult'[d]
  BY <1>2, <1>7 DEF IInv, BufferHeldWhileServed
<1>9. Distinct(queryQueue)' /\ \A t \in ServerThreads : Distinct(resultBufs[t])'
  <2>1. \A t \in ServerThreads \ {s} : Distinct(resultBufs[t])
    BY DEF IInv, BufferHeldWhileServed
  <2> QED
    BY <1>2, <1>3, <1>5, <2>1 DEF Distinct
<1>10. ASSUME NEW d \in SearchThreads, NEW t \in ServerThreads, Holds(resultBufs'[t], d)
       PROVE  /\ ~Holds(queryQueue', d)
              /\ \A u \in ServerThreads \ {t} : ~Holds(resultBufs'[u], d)
  <2>1. CASE t = s
    <3>1. Holds(a, d) /\ ~Holds(b, d) /\ Holds(queryQueue, d)
      BY <1>3, <1>5, <1>10, <2>1
    <3>2. \A u \in ServerThreads : ~Holds(resultBufs[u], d)
      BY <3>1 DEF IInv, BufferHeldWhileServed
    <3> QED
      BY <1>2, <1>5, <2>1, <3>1, <3>2
  <2>2. CASE t # s
    <3>1. Holds(resultBufs[t], d)
      BY <1>5, <1>10, <2>2
    <3>2. ~Holds(queryQueue, d) /\ \A u \in ServerThreads \ {t} : ~Holds(resultBufs[u], d)
      BY <3>1 DEF IInv, BufferHeldWhileServed
    <3>3. ~Holds(a, d) /\ ~Holds(b, d)
      BY <1>3, <3>2
    <3> QED
      BY <1>2, <1>5, <3>2, <3>3
  <2> QED
    BY <2>1, <2>2
<1>11. \A d \in SearchThreads, t \in ServerThreads :
         Holds(resultBufs[t], d)' =>
           /\ ~Holds(queryQueue, d)'
           /\ \A u \in ServerThreads \ {t} : ~Holds(resultBufs[u], d)'
  BY <1>10 DEF Holds
<1> QED
  BY <1>4, <1>8, <1>9, <1>11 DEF IInv, BufferHeldWhileServed

\* HandResult gives the first buffer of a batch its result and lets go of it.
LEMMA HandStep ==
  ASSUME IInv, NEW s \in ServerThreads, HandResult(s)
  PROVE  IInv'
<1> DEFINE q == resultBufs[s]
           c == Head(q)
           r == Tail(q)
<1>1. /\ q \in Seq(SearchThreads) /\ q # <<>> /\ server[s] = "serve"
      /\ hasResult' = [hasResult EXCEPT ![c] = TRUE]
      /\ client' = [client EXCEPT ![c] = IF @ = "asleep" THEN "check" ELSE @]
      /\ resultBufs' = [resultBufs EXCEPT ![s] = r]
      /\ UNCHANGED <<main, server, queryQueue>>
  BY DEF IInv, Types, HandResult, WakeClient, queueVars, threadVars
<1>2. /\ r \in Seq(SearchThreads) /\ c \in SearchThreads
      /\ \A d : Holds(q, d) <=> Holds(r, d) \/ d = c
      /\ Distinct(r) /\ ~Holds(r, c)
  BY <1>1, HoldsTail DEF IInv, BufferHeldWhileServed
<1>3. /\ client[c] \in {"check", "asleep"} /\ ~hasResult[c]
      /\ ~Holds(queryQueue, c) /\ \A t \in ServerThreads \ {s} : ~Holds(resultBufs[t], c)
  BY <1>2 DEF IInv, BufferHeldWhileServed, Pending
<1>4. /\ resultBufs'[s] = r
      /\ \A t \in ServerThreads \ {s} : resultBufs'[t] = resultBufs[t]
  BY <1>1 DEF IInv, Types
<1>5. /\ hasResult'[c] = TRUE /\ client'[c] = "check"
      /\ \A d \in SearchThreads \ {c} :
           hasResult'[d] = hasResult[d] /\ client'[d] = client[d]
  BY <1>1, <1>2, <1>3 DEF IInv, Types
<1>6. /\ client' \in [SearchThreads ->
                        {"idle", "counted", "check", "asleep", "napping", "woken"}]
      /\ hasResult' \in [SearchThreads -> BOOLEAN]
  BY <1>1, <1>2 DEF IInv, Types
<1>7. resultBufs' \in [ServerThreads -> Seq(SearchThreads)]
  BY <1>1, <1>2 DEF IInv, Types
<1> HIDE DEF q, c, r
<1>8. Types' /\ ServerInv' /\ CountedInv'
  <2>1. Types'
    BY <1>1, <1>6, <1>7 DEF IInv, Types
  <2>2. ServerInv'
    BY <1>1, <1>4 DEF IInv, ServerInv
  <2>3. CountedInv'
    BY <1>5 DEF IInv, CountedInv
  <2> QED
    BY <2>1, <2>2, <2>3
<1>9. \A d \in SearchThreads : Pending(d)' <=> Pending(d) /\ d # c
  <2> TAKE d \in SearchThreads
  <2>1. Pending(d)' <=> \/ Holds(queryQueue, d) \/ Holds(r, d)
                        \/ \E t \in ServerThreads \ {s} : Holds(resultBufs[t], d)
    BY <1>1, <1>4 DEF Pending, Holds
  <2>2. Pending(d) <=> \/ Holds(queryQueue, d) \/ Holds(q, d)
                       \/ \E t \in ServerThreads \ {s} : Holds(resultBufs[t], d)
    BY DEF Pending, q
  <2> QED
    BY <1>2, <1>3, <2>1, <2>2
<1>10. ASSUME NEW d \in SearchThreads
       PROVE  /\ Pending(d)' <=> client'[d] \in {"check", "asleep"} /\ ~hasResult'[d]
              /\ client'[d] = "asleep" => ~hasResult'[d]
  <2>1. CASE d = c
    BY <1>5, <1>9, <2>1
  <2>2. CASE d # c
    <3>1. hasResult'[d] = hasResult[d] /\ client'[d] = client[d]
      BY <1>5, <2>2
    <3>2. Pending(d)' <=> Pending(d)
      BY <1>9, <2>2
    <3> QED
      BY <3>1, <3>2 DEF IInv, BufferHeldWhileServed
  <2> QED
    BY <2>1, <2>2
<1>11. Distinct(queryQueue)' /\ \A t \in ServerThreads : Distinct(resultBufs[t])'
  <2>1. Distinct(queryQueue) /\ \A t \in ServerThreads \ {s} : Distinct(resultBufs[t])
    BY DEF IInv, BufferHeldWhileServed
  <2> QED
    BY <1>1, <1>2, <1>4, <2>1 DEF Distinct
<1>12. ASSUME NEW d \in SearchThreads, NEW t \in ServerThreads, Holds(resultBufs'[t], d)
       PROVE  /\ ~Holds(queryQueue', d)
              /\ \A u \in ServerThreads \ {t} : ~Holds(resultBufs'[u], d)
  <2>1. \A u \in ServerThreads : Holds(resultBufs'[u], d) => Holds(resultBufs[u], d)
    BY <1>2, <1>4 DEF q
  <2>2. /\ ~Holds(queryQueue, d)
        /\ \A u \in ServerThreads \ {t} : ~Holds(resultBufs[u], d)
    BY <1>12, <2>1 DEF IInv, BufferHeldWhileServed
  <2> QED
    BY <1>1, <2>1, <2>2
<1>13. \A d \in SearchThreads, t \in ServerThreads :
         Holds(resultBufs[t], d)' =>
           /\ ~Holds(queryQueue, d)'
           /\ \A u \in ServerThreads \ {t} : ~Holds(resultBufs[u], d)'
  BY <1>12 DEF Holds
<1> QED
  BY <1>8, <1>10, <1>11, <1>13 DEF IInv, BufferHeldWhileServed

\* The invariant holds at first: nothing is pushed, and nobody waits.
LEMMA InitInv == Init => IInv
<1> SUFFICES ASSUME Init PROVE IInv
  OBVIOUS
<1>1. <<>> \in Seq(SearchThreads) /\ Len(<<>>) = 0
  BY EmptySeq
<1>2. Types /\ ServerInv /\ CountedInv
  BY <1>1 DEF Init, Types, ServerInv, CountedInv
<1>3. BufferHeldWhileServed
  BY <1>1 DEF Init, BufferHeldWhileServed, Pending, Holds, Distinct
<1> QED
  BY <1>2, <1>3 DEF IInv

\* Every step keeps the invariant.
LEMMA StepInv == IInv /\ [Next]_vars => IInv'
<1> SUFFICES ASSUME IInv, [Next]_vars PROVE IInv'
  OBVIOUS
<1> USE DEF IInv, Types, ServerInv, CountedInv, searchVars, queueVars, serverVars, threadVars
<1>0. \A c \in SearchThreads : client[c] = "asleep" => ~hasResult[c]
  BY DEF BufferHeldWhileServed
<1>1. ASSUME NEW c \in SearchThreads, CacheHit(c) PROVE IInv'
  BY <1>0, <1>1, BuffersStay DEF CacheHit, InPlayout
<1>2. ASSUME NEW c \in SearchThreads, CountEval(c) PROVE IInv'
  BY <1>0, <1>2, BuffersStay DEF CountEval, InPlayout, FreshBuffer
<1>3. ASSUME NEW c \in SearchThreads, WaitForNextNNEvalIfAny(c) PROVE IInv'
  BY <1>0, <1>3, BuffersStay DEF WaitForNextNNEvalIfAny, InPlayout, LeaveOrSleep
<1>4. ASSUME NEW c \in SearchThreads, PushQuery(c) PROVE IInv'
  BY <1>4, PushStep
<1>5. ASSUME NEW c \in SearchThreads, TakeResult(c) PROVE IInv'
  BY <1>0, <1>5, BuffersStay DEF TakeResult
<1>6. ASSUME NEW c \in SearchThreads, LookAgain(c) PROVE IInv'
  BY <1>0, <1>6, BuffersStay DEF LookAgain, LeaveOrSleep
<1>7. ASSUME NEW s \in ServerThreads, ServerStarts(s) PROVE IInv'
  BY <1>7, BuffersStay DEF ServerStarts, BufferHeldWhileServed
<1>8. ASSUME NEW s \in ServerThreads, ServerExits(s) PROVE IInv'
  BY <1>8, BuffersStay DEF ServerExits, BufferHeldWhileServed
<1>9. ASSUME NEW s \in ServerThreads, HandResult(s) PROVE IInv'
  BY <1>9, HandStep
<1>10. ASSUME NEW s \in ServerThreads, BatchDone(s) PROVE IInv'
  BY <1>10, BuffersStay DEF BatchDone, Awaken, WakeNapping, BufferHeldWhileServed
<1>11. ASSUME NEW s \in ServerThreads, NEW n \in 1..maxBatchSize, PopBatch(s, n)
       PROVE  IInv'
  BY <1>11, PopStep
<1>12. ASSUME StopSearch \/ StartSearch PROVE IInv'
  BY <1>12, BuffersStay DEF StopSearch, StartSearch, BufferHeldWhileServed
<1>13. ASSUME SpawnServerThreads PROVE IInv'
  BY <1>13, BuffersStay DEF SpawnServerThreads, BufferHeldWhileServed
<1>14. ASSUME SpawnReturns \/ KillServerThreads PROVE IInv'
  BY <1>14, BuffersStay DEF SpawnReturns, KillServerThreads, BufferHeldWhileServed
<1>15. ASSUME TellServerThreads PROVE IInv'
  BY <1>15, BuffersStay DEF TellServerThreads, WakeNapping, BufferHeldWhileServed
<1>16. ASSUME JoinServerThreads PROVE IInv'
  BY <1>16, BuffersStay DEF JoinServerThreads, BufferHeldWhileServed
<1>17. ASSUME SpuriousWakeup PROVE IInv'
  <2>1. /\ UNCHANGED <<hasResult, queryQueue, server, resultBufs>>
        /\ main = "off" <=> main' = "off"
    BY <1>17 DEF SpuriousWakeup
  <2>2. CASE UNCHANGED client
    BY <1>0, <2>1, <2>2, BuffersStay
  <2>3. CASE \E c \in SearchThreads :
               /\ client[c] \in {"asleep", "napping"}
               /\ client' = [client EXCEPT ![c] = IF @ = "asleep" THEN "check" ELSE "woken"]
    BY <1>0, <2>1, <2>3, BuffersStay
  <2> QED
    BY <1>17, <2>2, <2>3 DEF SpuriousWakeup
<1>18. ASSUME UNCHANGED vars PROVE IInv'
  BY <1>18, BuffersStay DEF vars, BufferHeldWhileServed
<1> QED
  BY <1>1, <1>2, <1>3, <1>4, <1>5, <1>6, <1>7, <1>8, <1>9, <1>10, <1>11, <1>12, <1>13,
     <1>14, <1>15, <1>16, <1>17, <1>18
  DEF Next, ClientStep, ServerStep, MainStep

(***************************************************************************)
(* Theorems.                                                               *)
(***************************************************************************)
\* The inductive invariant of the hand-off between search and server threads.
THEOREM Inductive == Spec => []IInv
BY InitInv, StepInv, PTL DEF Spec

\* A buffer that a server thread will write to belongs to a search thread that
\* waits for it in evaluate, has no result yet, and is in one place only: the
\* assertion of serve that it has none never fails, for any numbers of threads.
THEOREM BuffersHeld == Spec => []BufferHeldWhileServed
<1>1. IInv => BufferHeldWhileServed
  BY DEF IInv
<1> QED
  BY <1>1, Inductive, PTL

(***************************************************************************)
(* What the counters count.                                                *)
(***************************************************************************)
Counted == {c \in SearchThreads : client[c] = "counted"}
Napping == {c \in SearchThreads : client[c] \in {"napping", "woken"}}
Starting == {s \in ServerThreads : server[s] = "starting"}

\* The rows that server threads have taken and not counted off.
Rows == {p \in ServerThreads \X (1..maxBatchSize) : p[2] <= numRows[p[1]]}

\* An evaluation in progress is about to be pushed, in the queue or in a batch
\* that is not over; who came for a nap is counted as waiting or as told to wake
\* up; and nobody searches but while the server threads run.
CountInv ==
  /\ numRows \in [ServerThreads -> 0..maxBatchSize]
  /\ \A s \in ServerThreads : numRows[s] # 0 => server[s] = "serve"
  /\ numOngoingEvals = Cardinality(Counted) + Len(queryQueue) + Cardinality(Rows)
  /\ numWaitingEvals \in Nat /\ numEvalsToAwaken \in Nat
  /\ numWaitingEvals + numEvalsToAwaken = Cardinality(Napping)
  /\ numServerThreadsStartingUp = Cardinality(Starting)
  /\ main \in {"off", "spawning", "asleep", "running", "killing", "joining"}
  /\ isKilled \in BOOLEAN /\ stopped \in BOOLEAN /\ readOnly \in BOOLEAN
  /\ main # "running" => stopped /\ AllIdle
  /\ isKilled => main \in {"killing", "joining"}

LEMMA CountsFinite ==
  /\ IsFiniteSet(Counted) /\ Cardinality(Counted) \in Nat
  /\ IsFiniteSet(Napping) /\ Cardinality(Napping) \in Nat
  /\ IsFiniteSet(Starting) /\ Cardinality(Starting) \in Nat
  /\ IsFiniteSet(Rows) /\ Cardinality(Rows) \in Nat
<1>1. Counted \subseteq SearchThreads /\ Napping \subseteq SearchThreads
      /\ Starting \subseteq ServerThreads
  BY DEF Counted, Napping, Starting
<1>2. IsFiniteSet(1..maxBatchSize)
  <2>1. 1 \in Int /\ maxBatchSize \in Int
    BY NNEvalConstants
  <2> QED
    BY <2>1, FS_Interval
<1>3. IsFiniteSet(ServerThreads \X (1..maxBatchSize))
  BY <1>2, NNEvalConstants, FS_Product
<1>4. Rows \subseteq ServerThreads \X (1..maxBatchSize)
  BY DEF Rows
<1>5. IsFiniteSet(Counted) /\ IsFiniteSet(Napping) /\ IsFiniteSet(Starting) /\ IsFiniteSet(Rows)
  BY <1>1, <1>3, <1>4, NNEvalConstants, FS_Subset
<1> QED
  BY <1>5, FS_CardinalityType

\* The rows of one batch are as many as its size.
LEMMA RowsOf ==
  ASSUME NEW s, NEW k \in Nat
  PROVE  IsFiniteSet({s} \X (1..k)) /\ Cardinality({s} \X (1..k)) = k
<1>1. 1 \in Int /\ k \in Int
  OBVIOUS
<1>2. IsFiniteSet(1..k) /\ Cardinality(1..k) = k
  BY <1>1, FS_Interval
<1>3. IsFiniteSet({s}) /\ Cardinality({s}) = 1
  BY FS_Singleton
<1> QED
  BY <1>2, <1>3, FS_Product

\* Taking a batch of k rows adds k rows.
LEMMA RowsGrow ==
  ASSUME NEW s \in ServerThreads, NEW k \in 0..maxBatchSize,
         numRows \in [ServerThreads -> 0..maxBatchSize], numRows[s] = 0,
         numRows' = [numRows EXCEPT ![s] = k]
  PROVE  Cardinality(Rows') = Cardinality(Rows) + k
<1>0. k \in Nat /\ maxBatchSize \in Nat
  BY NNEvalConstants
<1>1. Rows' = Rows \cup {s} \X (1..k)
  <2>1. ASSUME NEW p \in ServerThreads \X (1..maxBatchSize)
        PROVE  p \in Rows' <=> p \in Rows \/ p \in {s} \X (1..k)
    BY <1>0 DEF Rows
  <2>2. {s} \X (1..k) \subseteq ServerThreads \X (1..maxBatchSize)
    BY <1>0
  <2>3. Rows \subseteq ServerThreads \X (1..maxBatchSize)
        /\ Rows' \subseteq ServerThreads \X (1..maxBatchSize)
    BY DEF Rows
  <2> QED
    BY <2>1, <2>2, <2>3
<1>2. Rows \cap ({s} \X (1..k)) = {}
  BY <1>0 DEF Rows
<1> DEFINE new == {s} \X (1..k)
<1>3. IsFiniteSet(new) /\ Cardinality(new) = k
  BY <1>0, RowsOf
<1> HIDE DEF new
<1>4. Cardinality(Rows \cup new) = Cardinality(Rows) + Cardinality(new) - Cardinality(Rows \cap new)
  BY <1>3, CountsFinite, FS_Union
<1>5. Cardinality(Rows \cap new) = 0
  BY <1>2, FS_EmptySet DEF new
<1>6. Rows' = Rows \cup new
  BY <1>1 DEF new
<1> QED
  BY <1>0, <1>3, <1>4, <1>5, <1>6, CountsFinite

\* A batch that is over takes its rows with it.
LEMMA RowsShrink ==
  ASSUME NEW s \in ServerThreads,
         numRows \in [ServerThreads -> 0..maxBatchSize],
         numRows' = [numRows EXCEPT ![s] = 0]
  PROVE  Cardinality(Rows) = Cardinality(Rows') + numRows[s]
<1> DEFINE k == numRows[s]
<1>0. k \in Nat /\ maxBatchSize \in Nat /\ k <= maxBatchSize
  BY NNEvalConstants
<1>1. Rows = Rows' \cup {s} \X (1..k)
  <2>1. ASSUME NEW p \in ServerThreads \X (1..maxBatchSize)
        PROVE  p \in Rows <=> p \in Rows' \/ p \in {s} \X (1..k)
    BY <1>0 DEF Rows
  <2>2. {s} \X (1..k) \subseteq ServerThreads \X (1..maxBatchSize)
    BY <1>0
  <2>3. Rows \subseteq ServerThreads \X (1..maxBatchSize)
        /\ Rows' \subseteq ServerThreads \X (1..maxBatchSize)
    BY DEF Rows
  <2> QED
    BY <2>1, <2>2, <2>3
<1>2. Rows' \cap ({s} \X (1..k)) = {}
  BY <1>0 DEF Rows
<1>3. IsFiniteSet(Rows') /\ Cardinality(Rows') \in Nat
  <2>1. Rows' \subseteq Rows
    BY <1>1
  <2> QED
    BY <2>1, CountsFinite, FS_Subset, FS_CardinalityType
<1> DEFINE old == {s} \X (1..k)
<1>4. IsFiniteSet(old) /\ Cardinality(old) = k
  BY <1>0, RowsOf
<1> HIDE DEF old, k
<1>5. Cardinality(Rows' \cup old) = Cardinality(Rows') + Cardinality(old) - Cardinality(Rows' \cap old)
  BY <1>3, <1>4, FS_Union
<1>6. Cardinality(Rows' \cap old) = 0
  BY <1>2, FS_EmptySet DEF old
<1>7. Rows = Rows' \cup old
  BY <1>1 DEF old
<1>8. Cardinality(Rows) = Cardinality(Rows') + k
  BY <1>0, <1>3, <1>4, <1>5, <1>6, <1>7
<1> QED
  BY <1>8 DEF k

\* One thread more, or one less.
LEMMA OneMore ==
  ASSUME NEW S, IsFiniteSet(S), NEW x, x \notin S
  PROVE  Cardinality(S \cup {x}) = Cardinality(S) + 1
BY FS_AddElement

LEMMA OneLess ==
  ASSUME NEW S, IsFiniteSet(S), NEW x \in S
  PROVE  Cardinality(S \ {x}) = Cardinality(S) - 1
BY FS_RemoveElement

(***************************************************************************)
(* Every step counts as it should.                                         *)
(***************************************************************************)
LEMMA InitCount == Init => CountInv
<1> SUFFICES ASSUME Init PROVE CountInv
  OBVIOUS
<1>1. Counted = {} /\ Napping = {} /\ Starting = {} /\ Len(queryQueue) = 0
  BY DEF Init, Counted, Napping, Starting
<1>2. Rows = {}
  BY NNEvalConstants DEF Init, Rows
<1>3. /\ Cardinality(Counted) = 0 /\ Cardinality(Napping) = 0
      /\ Cardinality(Starting) = 0 /\ Cardinality(Rows) = 0
  BY <1>1, <1>2, FS_EmptySet
<1>4. 0 \in 0..maxBatchSize
  BY NNEvalConstants
<1>5. numRows \in [ServerThreads -> 0..maxBatchSize] /\ AllIdle
      /\ \A s \in ServerThreads : numRows[s] = 0
  BY <1>4 DEF Init, AllIdle
<1>6. /\ numOngoingEvals = 0 /\ numWaitingEvals = 0 /\ numEvalsToAwaken = 0
      /\ numServerThreadsStartingUp = 0
      /\ main = "off" /\ isKilled = FALSE /\ stopped = TRUE /\ readOnly = TRUE
  BY DEF Init
<1>7. numOngoingEvals = Cardinality(Counted) + Len(queryQueue) + Cardinality(Rows)
  BY <1>1, <1>3, <1>6
<1>8. numWaitingEvals + numEvalsToAwaken = Cardinality(Napping)
  BY <1>3, <1>6
<1> QED
  BY <1>3, <1>5, <1>6, <1>7, <1>8 DEF CountInv

\* A step that touches none of the counters, nor what they count.
LEMMA CountsStay ==
  ASSUME CountInv, UNCHANGED <<numRows, queryQueue, counterVars, numServerThreadsStartingUp>>,
         Counted' = Counted, Napping' = Napping, Starting' = Starting,
         \A s \in ServerThreads : server[s] = "serve" => server'[s] = "serve",
         main' \in {"off", "spawning", "asleep", "running", "killing", "joining"},
         isKilled' \in BOOLEAN, stopped' \in BOOLEAN, readOnly' \in BOOLEAN,
         main' # "running" => stopped' /\ AllIdle',
         isKilled' => main' \in {"killing", "joining"}
  PROVE  CountInv'
<1>1. Rows' = Rows
  BY DEF Rows
<1> QED
  BY <1>1 DEF CountInv, counterVars

\* The steps of a search thread.
LEMMA ClientCount ==
  ASSUME IInv, CountInv, NEW c \in SearchThreads,
         CacheHit(c) \/ CountEval(c) \/ WaitForNextNNEvalIfAny(c) \/ ClientStep(c)
  PROVE  CountInv'
<1>1. /\ UNCHANGED <<server, resultBufs, numRows, main, stopped, isKilled, readOnly,
                     numServerThreadsStartingUp>>
      /\ main = "running"
  BY DEF CacheHit, CountEval, WaitForNextNNEvalIfAny, ClientStep, PushQuery, TakeResult,
         LookAgain, serverVars, threadVars, queueVars, InPlayout, CountInv, AllIdle
<1>2. Starting' = Starting /\ Rows' = Rows
  BY <1>1 DEF Starting, Rows
<1>3. client \in [SearchThreads -> {"idle", "counted", "check", "asleep", "napping", "woken"}]
      /\ queryQueue \in Seq(SearchThreads) /\ Len(queryQueue) \in Nat
  BY LenProperties DEF IInv, Types
<1>4. ASSUME numOngoingEvals' = Cardinality(Counted') + Len(queryQueue') + Cardinality(Rows),
             numWaitingEvals' \in Nat, numEvalsToAwaken' \in Nat,
             numWaitingEvals' + numEvalsToAwaken' = Cardinality(Napping')
      PROVE  CountInv'
  BY <1>1, <1>2, <1>4 DEF CountInv
<1>5. CASE CacheHit(c)
  <2>1. Counted' = Counted /\ Napping' = Napping /\ UNCHANGED <<queryQueue, counterVars>>
    BY <1>5 DEF CacheHit, Counted, Napping, queueVars
  <2> QED
    BY <1>4, <2>1 DEF CountInv, counterVars
<1>6. CASE CountEval(c)
  <2>1. Counted' = Counted \cup {c} /\ c \notin Counted /\ Napping' = Napping
    BY <1>3, <1>6 DEF CountEval, InPlayout, Counted, Napping
  <2>2. Cardinality(Counted') = Cardinality(Counted) + 1
    BY <2>1, CountsFinite, OneMore
  <2> QED
    BY <1>3, <1>4, <1>6, <2>1, <2>2, CountsFinite DEF CountEval, CountInv, queueVars
<1>7. CASE WaitForNextNNEvalIfAny(c)
  <2>1. Counted' = Counted /\ UNCHANGED <<queryQueue, numOngoingEvals>> /\ ~isKilled
    BY <1>1, <1>3, <1>7
    DEF WaitForNextNNEvalIfAny, InPlayout, LeaveOrSleep, Counted, queueVars, CountInv
  <2>2. CASE MayLeave
    <3>1. Napping' = Napping
      BY <1>3, <1>7, <2>2 DEF WaitForNextNNEvalIfAny, InPlayout, LeaveOrSleep, Napping
    <3> QED
      BY <1>4, <1>7, <2>1, <2>2, <3>1, CountsFinite
      DEF WaitForNextNNEvalIfAny, LeaveOrSleep, MayLeave, CountInv
  <2>3. CASE ~MayLeave
    <3>1. Napping' = Napping \cup {c} /\ c \notin Napping
      BY <1>3, <1>7, <2>3 DEF WaitForNextNNEvalIfAny, InPlayout, LeaveOrSleep, Napping
    <3>2. Cardinality(Napping') = Cardinality(Napping) + 1
      BY <3>1, CountsFinite, OneMore
    <3> QED
      BY <1>4, <1>7, <2>1, <2>3, <3>2, CountsFinite
      DEF WaitForNextNNEvalIfAny, LeaveOrSleep, CountInv
  <2> QED
    BY <2>2, <2>3
<1>8. CASE PushQuery(c)
  <2>1. Counted' = Counted \ {c} /\ c \in Counted /\ Napping' = Napping
    BY <1>3, <1>8 DEF PushQuery, Counted, Napping
  <2>2. Cardinality(Counted') = Cardinality(Counted) - 1
    BY <2>1, CountsFinite, OneLess
  <2>3. Len(queryQueue') = Len(queryQueue) + 1
    BY <1>3, <1>8, AppendProperties DEF PushQuery
  <2> QED
    BY <1>3, <1>4, <1>8, <2>1, <2>2, <2>3, CountsFinite DEF PushQuery, CountInv, counterVars
<1>9. CASE TakeResult(c)
  <2>1. Counted' = Counted /\ Napping' = Napping /\ UNCHANGED <<queryQueue, counterVars>>
    BY <1>3, <1>9 DEF TakeResult, Counted, Napping, queueVars
  <2> QED
    BY <1>4, <2>1 DEF CountInv, counterVars
<1>10. CASE LookAgain(c)
  <2>1. Counted' = Counted /\ UNCHANGED <<queryQueue, numOngoingEvals>> /\ ~isKilled
    BY <1>1, <1>3, <1>10
    DEF LookAgain, LeaveOrSleep, Counted, queueVars, CountInv
  <2>2. CASE MayLeave
    <3>1. Napping' = Napping \ {c} /\ c \in Napping
      BY <1>3, <1>10, <2>2 DEF LookAgain, LeaveOrSleep, Napping
    <3>2. Cardinality(Napping') = Cardinality(Napping) - 1
      BY <3>1, CountsFinite, OneLess
    <3> QED
      BY SMTT(30), <1>4, <1>10, <2>1, <2>2, <3>2, CountsFinite
      DEF LookAgain, LeaveOrSleep, MayLeave, CountInv
  <2>3. CASE ~MayLeave
    <3>1. Napping' = Napping
      BY <1>3, <1>10, <2>3 DEF LookAgain, LeaveOrSleep, Napping
    <3> QED
      BY <1>4, <1>10, <2>1, <2>3, <3>1, CountsFinite
      DEF LookAgain, LeaveOrSleep, CountInv
  <2> QED
    BY <2>2, <2>3
<1> QED
  BY <1>5, <1>6, <1>7, <1>8, <1>9, <1>10 DEF ClientStep

\* The steps of a server thread.
LEMMA ServerCount ==
  ASSUME IInv, CountInv, NEW s \in ServerThreads, ServerStep(s)
  PROVE  CountInv'
<1>1. /\ client \in [SearchThreads ->
                       {"idle", "counted", "check", "asleep", "napping", "woken"}]
      /\ queryQueue \in Seq(SearchThreads) /\ Len(queryQueue) \in Nat
      /\ server \in [ServerThreads -> {"none", "starting", "pop", "serve", "exited"}]
      /\ numRows \in [ServerThreads -> 0..maxBatchSize]
  BY LenProperties DEF IInv, Types, CountInv
<1>2. CASE ServerStarts(s)
  <2>1. Counted' = Counted /\ Napping' = Napping /\ Rows' = Rows
        /\ UNCHANGED <<stopped, client, queryQueue, readOnly, numRows, isKilled, counterVars>>
    BY <1>2 DEF ServerStarts, Counted, Napping, Rows, searchVars, queueVars
  <2>2. Starting' = Starting \ {s} /\ s \in Starting
    BY <1>1, <1>2 DEF ServerStarts, Starting
  <2>3. Cardinality(Starting') = Cardinality(Starting) - 1
    BY <2>2, CountsFinite, OneLess
  <2>4. \A t \in ServerThreads : numRows'[t] # 0 => server'[t] = "serve"
    BY <1>1, <1>2, <2>1 DEF ServerStarts, CountInv
  <2>5. numServerThreadsStartingUp' = Cardinality(Starting')
    BY <1>2, <2>3 DEF ServerStarts, CountInv
  <2>6. main' \in {"off", "spawning", "asleep", "running", "killing", "joining"}
        /\ (main' # "running" => main # "running")
        /\ (main \in {"killing", "joining"} => main' = main)
    BY <1>2 DEF ServerStarts, CountInv
  <2> QED
    BY <2>1, <2>4, <2>5, <2>6 DEF CountInv, counterVars, AllIdle
<1>3. CASE ServerExits(s)
  <2>1. /\ Counted' = Counted /\ Napping' = Napping /\ Starting' = Starting
        /\ \A t \in ServerThreads : server[t] = "serve" => server'[t] = "serve"
    BY <1>1, <1>3 DEF ServerExits, Counted, Napping, Starting, searchVars
  <2> QED
    BY <1>3, <2>1, CountsStay
    DEF ServerExits, CountInv, AllIdle, searchVars, queueVars, threadVars
<1>4. CASE HandResult(s)
  <2>1. /\ Counted' = Counted /\ Napping' = Napping /\ Starting' = Starting
        /\ AllIdle => AllIdle'
    BY <1>1, <1>4 DEF HandResult, WakeClient, Counted, Napping, Starting, AllIdle
  <2> QED
    BY <1>4, <2>1, CountsStay DEF HandResult, CountInv, queueVars, threadVars
<1>5. CASE BatchDone(s)
  <2>1. Counted' = Counted /\ Napping' = Napping /\ Starting' = Starting
        /\ (AllIdle => AllIdle')
        /\ UNCHANGED <<stopped, queryQueue, readOnly, main, isKilled, numServerThreadsStartingUp>>
    BY <1>1, <1>5 DEF BatchDone, Awaken, WakeNapping, Counted, Napping, Starting, AllIdle,
                      queueVars, threadVars
  <2>2. Cardinality(Rows) = Cardinality(Rows') + numRows[s]
    BY <1>1, <1>5, RowsShrink DEF BatchDone
  <2>3. numRows' = [numRows EXCEPT ![s] = 0] /\ numOngoingEvals' = numOngoingEvals - numRows[s]
        /\ server' = [server EXCEPT ![s] = "pop"]
    BY <1>5 DEF BatchDone
  <2>4. /\ numRows' \in [ServerThreads -> 0..maxBatchSize]
        /\ \A t \in ServerThreads : numRows'[t] # 0 => server'[t] = "serve"
        /\ numRows[s] \in Nat
    BY <1>1, <2>3, NNEvalConstants DEF CountInv
  <2>5. Rows' \subseteq Rows
    BY <1>1, <2>3, NNEvalConstants DEF Rows
  <2>6. Cardinality(Rows') \in Nat
    BY <2>5, CountsFinite, FS_Subset, FS_CardinalityType
  <2>7. numOngoingEvals' = Cardinality(Counted') + Len(queryQueue') + Cardinality(Rows')
    BY <1>1, <2>1, <2>2, <2>3, <2>4, <2>6, CountsFinite DEF CountInv
  <2>8. /\ numWaitingEvals' \in Nat /\ numEvalsToAwaken' \in Nat
        /\ numWaitingEvals' + numEvalsToAwaken' = numWaitingEvals + numEvalsToAwaken
    BY <1>5 DEF BatchDone, Awaken, CountInv
  <2> QED
    BY <2>1, <2>4, <2>7, <2>8 DEF CountInv
<1>6. ASSUME NEW n \in 1..maxBatchSize, PopBatch(s, n) PROVE CountInv'
  <2> DEFINE k == Smaller(n, Len(queryQueue))
  <2>1. k \in 0..maxBatchSize /\ k \in Nat /\ k <= Len(queryQueue)
    BY <1>1, NNEvalConstants DEF Smaller
  <2>2. /\ queryQueue' = SubSeq(queryQueue, k + 1, Len(queryQueue))
        /\ numRows' = [numRows EXCEPT ![s] = k] /\ server[s] = "pop"
        /\ server' = [server EXCEPT ![s] = "serve"]
        /\ UNCHANGED <<stopped, client, readOnly, main, isKilled, numServerThreadsStartingUp,
                       numOngoingEvals, numWaitingEvals, numEvalsToAwaken>>
    BY <1>6 DEF PopBatch, searchVars, threadVars, counterVars
  <2> HIDE DEF k
  <2>3. Len(queryQueue') = Len(queryQueue) - k
    <3>1. \A i \in k + 1..Len(queryQueue) : queryQueue[i] \in SearchThreads
      BY <1>1, <2>1, ElementOfSeq
    <3>2. k + 1 \in Int /\ Len(queryQueue) \in Int
      BY <1>1, <2>1
    <3>3. Len(queryQueue') = IF k + 1 <= Len(queryQueue)
                               THEN Len(queryQueue) - (k + 1) + 1 ELSE 0
      BY <2>2, <3>1, <3>2, SubSeqProperties
    <3> QED
      BY <1>1, <2>1, <3>3
  <2>4. numRows[s] = 0
    BY <2>2 DEF CountInv
  <2>5. Cardinality(Rows') = Cardinality(Rows) + k
    BY <1>1, <2>1, <2>2, <2>4, RowsGrow
  <2>6. Counted' = Counted /\ Napping' = Napping /\ Starting' = Starting
    BY <1>1, <2>2 DEF Counted, Napping, Starting
  <2>7. /\ numRows' \in [ServerThreads -> 0..maxBatchSize]
        /\ \A t \in ServerThreads : numRows'[t] # 0 => server'[t] = "serve"
    BY <1>1, <2>1, <2>2 DEF CountInv
  <2>8. numOngoingEvals' = Cardinality(Counted') + Len(queryQueue') + Cardinality(Rows')
    <3>1. numOngoingEvals' = Cardinality(Counted) + Len(queryQueue) + Cardinality(Rows)
      BY <2>2 DEF CountInv
    <3> QED
      BY <1>1, <2>1, <2>3, <2>5, <2>6, <3>1, CountsFinite
  <2> QED
    BY <2>2, <2>6, <2>7, <2>8 DEF CountInv, AllIdle
<1> QED
  BY <1>2, <1>3, <1>4, <1>5, <1>6 DEF ServerStep

LEMMA MainCount ==
  ASSUME IInv, CountInv,
         \/ StopSearch \/ StartSearch \/ SpawnServerThreads \/ KillServerThreads
         \/ MainStep \/ SpuriousWakeup \/ UNCHANGED vars
  PROVE  CountInv'
<1>1. client \in [SearchThreads -> {"idle", "counted", "check", "asleep", "napping", "woken"}]
  BY DEF IInv, Types
<1>2. CASE StopSearch \/ StartSearch \/ KillServerThreads \/ SpawnReturns \/ UNCHANGED vars
  <2>1. UNCHANGED <<client, server, counterVars, queryQueue, readOnly, numRows,
                    numServerThreadsStartingUp>>
    BY <1>2 DEF StopSearch, StartSearch, KillServerThreads, SpawnReturns, vars, searchVars,
                queueVars, serverVars, threadVars
  <2>2. Counted' = Counted /\ Napping' = Napping /\ Starting' = Starting /\ AllIdle' = AllIdle
    BY <2>1 DEF Counted, Napping, Starting, AllIdle
  <2>3. /\ main' \in {"off", "spawning", "asleep", "running", "killing", "joining"}
        /\ isKilled' \in BOOLEAN /\ stopped' \in BOOLEAN
        /\ main' # "running" => stopped' /\ AllIdle
        /\ isKilled' => main' \in {"killing", "joining"}
    <3>1. CASE StopSearch \/ StartSearch
      <4>1. main' = "running" /\ isKilled' = isKilled /\ stopped' \in BOOLEAN /\ main = "running"
        BY <3>1 DEF StopSearch, StartSearch, threadVars
      <4>2. isKilled = FALSE
        BY <4>1 DEF CountInv
      <4> QED
        BY <4>1, <4>2
    <3>4. CASE KillServerThreads
      <4>1. main' = "killing" /\ isKilled' = TRUE /\ stopped' = stopped /\ stopped /\ AllIdle
        BY <3>4 DEF KillServerThreads, searchVars
      <4> QED
        BY <4>1
    <3>2. CASE SpawnReturns
      BY <3>2 DEF SpawnReturns, searchVars, CountInv
    <3>3. CASE UNCHANGED vars
      BY <3>3 DEF vars, searchVars, threadVars, CountInv
    <3> QED
      BY <1>2, <3>1, <3>2, <3>3, <3>4
  <2> QED
    BY <2>1, <2>2, <2>3, CountsStay DEF CountInv
<1>3. CASE SpawnServerThreads
  <2>1. Starting' = ServerThreads /\ Counted' = Counted /\ Napping' = Napping /\ Rows' = Rows
    BY <1>3 DEF SpawnServerThreads, Starting, Counted, Napping, Rows, searchVars
  <2>2. /\ numServerThreadsStartingUp' = Cardinality(ServerThreads) /\ main' = "spawning"
        /\ readOnly' = FALSE
        /\ UNCHANGED <<client, stopped, queryQueue, numRows, counterVars, isKilled>>
    BY <1>3 DEF SpawnServerThreads, searchVars
  <2>3. main = "off" /\ \A s \in ServerThreads : numRows[s] = 0
    BY <1>3 DEF SpawnServerThreads, IInv, ServerInv, CountInv
  <2> QED
    BY <2>1, <2>2, <2>3 DEF CountInv, counterVars, AllIdle
<1>4. CASE TellServerThreads
  <2>1. main = "killing" /\ AllIdle
    BY <1>4 DEF TellServerThreads, CountInv
  <2>2. client' = client
    BY <1>1, <1>4, <2>1 DEF TellServerThreads, WakeNapping, AllIdle
  <2>3. Counted' = Counted /\ Napping' = Napping /\ Starting' = Starting /\ AllIdle'
    BY <1>4, <2>1, <2>2 DEF TellServerThreads, Counted, Napping, Starting, AllIdle, serverVars
  <2> QED
    BY <1>4, <2>3, CountsStay DEF TellServerThreads, CountInv, serverVars
<1>5. CASE JoinServerThreads
  <2>1. \A s \in ServerThreads : server[s] = "exited" /\ server'[s] = "none"
    BY <1>5 DEF JoinServerThreads
  <2>2. Counted' = Counted /\ Napping' = Napping /\ Starting' = Starting /\ AllIdle' = AllIdle
    BY <1>5, <2>1 DEF JoinServerThreads, Counted, Napping, Starting, AllIdle, searchVars
  <2> QED
    BY <1>5, <2>1, <2>2, CountsStay DEF JoinServerThreads, CountInv, searchVars, queueVars
<1>6. CASE SpuriousWakeup
  <2>1. /\ UNCHANGED <<server, counterVars, queryQueue, readOnly, numRows, stopped, isKilled,
                       numServerThreadsStartingUp>>
        /\ Starting' = Starting
    BY <1>6 DEF SpuriousWakeup, queueVars, serverVars, Starting
  <2>2. Counted' = Counted /\ Napping' = Napping /\ (AllIdle => AllIdle')
    BY <1>1, <1>6 DEF SpuriousWakeup, Counted, Napping, AllIdle
  <2>3. main' = main \/ (main = "asleep" /\ main' = "spawning")
    BY <1>6 DEF SpuriousWakeup
  <2> QED
    BY <2>1, <2>2, <2>3, CountsStay DEF CountInv
<1> QED
  BY <1>2, <1>3, <1>4, <1>5, <1>6 DEF MainStep

(***************************************************************************)
(* What follows from the counts.                                           *)
(***************************************************************************)
\* Both parts of the invariant hold throughout.
THEOREM CountsKept == Spec => [](IInv /\ CountInv)
<1>1. ASSUME IInv, CountInv, [Next]_vars PROVE CountInv'
  BY <1>1, ClientCount, ServerCount, MainCount DEF Next
<1> QED
  BY <1>1, InitInv, InitCount, StepInv, PTL DEF Spec

\* Every variable of the evaluator keeps its type; no counter is ever negative.
THEOREM TypeCorrect == Spec => []TypeOK
<1>1. ASSUME IInv, CountInv PROVE TypeOK
  <2>1. Len(queryQueue) \in Nat
    BY <1>1, LenProperties DEF IInv, Types
  <2>2. numOngoingEvals \in Nat /\ numServerThreadsStartingUp \in Nat
    BY <1>1, <2>1, CountsFinite DEF CountInv
  <2>3. numRows \in [ServerThreads -> Nat]
    BY <1>1, NNEvalConstants DEF CountInv
  <2> QED
    BY <1>1, <2>2, <2>3 DEF IInv, Types, CountInv, TypeOK
<1> QED
  BY <1>1, CountsKept, PTL

\* When the server threads are joined no query is left and every counter is at
\* zero again: what killServerThreads asserts, for any numbers of threads.
THEOREM AllSettles == Spec => []CountersSettle
<1>1. ASSUME IInv, CountInv, main = "off"
      PROVE  /\ numOngoingEvals = 0 /\ numWaitingEvals = 0 /\ numEvalsToAwaken = 0
             /\ queryQueue = <<>>
  <2>1. AllIdle /\ \A s \in ServerThreads : numRows[s] = 0
    BY <1>1 DEF CountInv, IInv, ServerInv
  <2>2. Counted = {} /\ Napping = {}
    BY <2>1 DEF AllIdle, Counted, Napping
  <2>3. Rows = {}
    BY <2>1, NNEvalConstants DEF Rows
  <2>4. queryQueue = <<>>
    <3>1. ASSUME queryQueue # <<>> PROVE FALSE
      <4>1. Head(queryQueue) \in SearchThreads /\ Holds(queryQueue, Head(queryQueue))
        BY <1>1, <3>1, HoldsTail DEF IInv, Types
      <4>2. client[Head(queryQueue)] \in {"check", "asleep"}
        BY <1>1, <4>1 DEF IInv, BufferHeldWhileServed, Pending
      <4> QED
        BY <2>1, <4>1, <4>2 DEF AllIdle
    <3> QED
      BY <3>1
  <2>5. /\ Len(queryQueue) = 0 /\ Cardinality(Rows) = 0
        /\ Cardinality(Counted) = 0 /\ Cardinality(Napping) = 0
    BY <2>2, <2>3, <2>4, FS_EmptySet
  <2> QED
    BY <1>1, <2>4, <2>5 DEF CountInv
<1>2. IInv /\ CountInv => CountersSettle
  BY <1>1 DEF CountersSettle
<1> QED
  BY <1>2, CountsKept, PTL
=============================================================================
