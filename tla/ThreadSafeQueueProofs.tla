----------------------- MODULE ThreadSafeQueueProofs -----------------------
(***************************************************************************)
(* For any producers, consumers, capacity and batch sizes: the queue loses *)
(* nothing, reorders nothing, loses no wakeup, drains before it refuses,   *)
(* and takes the steps of FifoChannel.                                     *)
(***************************************************************************)
EXTENDS ThreadSafeQueue, SequenceTheorems, TLAPS

\* Only threads inside a blocking call wait, and each on its own condition.
CallInv ==
  /\ \A t \in Producers : call[t] \in {"none", "waitPush"}
  /\ \A t \in Consumers : call[t] \in {"none", "waitPop", "waitPopUpToN"}
  /\ \A t \in notFullCondVar : call[t] = "waitPush"
  /\ \A t \in notEmptyCondVar : call[t] \in {"waitPop", "waitPopUpToN"}

IInv == TypeOK /\ CallInv /\ NoLostWakeup /\ NothingLostOrReordered

(***************************************************************************)
(* Sequences of numbers: joining and cutting.                              *)
(***************************************************************************)
\* Joining two sequences of numbers adds their lengths.
LEMMA Join ==
  ASSUME NEW s \in Seq(Nat), NEW t \in Seq(Nat)
  PROVE  /\ s \o t \in Seq(Nat)
         /\ Len(s) \in Nat /\ Len(t) \in Nat
         /\ Len(s \o t) = Len(s) + Len(t)
BY ConcatProperties, LenProperties

\* Joining is associative.
LEMMA Join3 ==
  ASSUME NEW s \in Seq(Nat), NEW t \in Seq(Nat), NEW u \in Seq(Nat)
  PROVE  (s \o t) \o u = s \o (t \o u)
BY ConcatAssociative, SMTT(30)

\* A slice of a sequence of numbers is one, of the length its ends say.
LEMMA Slice ==
  ASSUME NEW s \in Seq(Nat), NEW i \in Nat \ {0}, NEW j \in Nat, i <= j + 1, j <= Len(s)
  PROVE  /\ SubSeq(s, i, j) \in Seq(Nat)
         /\ Len(SubSeq(s, i, j)) = (j + 1) - i
<1>1. \A x \in i .. j : s[x] \in Nat
  <2> TAKE x \in i .. j
  <2>1. x \in 1 .. Len(s)
    BY LenProperties
  <2> QED
    BY <2>1, ElementOfSeq
<1>2. i \in Int /\ j \in Int
  OBVIOUS
<1>3. /\ SubSeq(s, i, j) \in Seq(Nat)
      /\ Len(SubSeq(s, i, j)) = IF i <= j THEN j - i + 1 ELSE 0
  BY <1>1, <1>2, SubSeqProperties
<1> QED
  BY <1>3

\* Two adjacent slices up to the end make up the slice from the first one on.
LEMMA Cut ==
  ASSUME NEW s \in Seq(Nat), NEW i \in Nat \ {0}, NEW j \in Nat, i <= j + 1, j <= Len(s)
  PROVE  SubSeq(s, i, j) \o SubSeq(s, j + 1, Len(s)) = SubSeq(s, i, Len(s))
<1>1. Len(s) \in Nat
  BY LenProperties
<1>2. /\ i \in 1 .. Len(s) + 1
      /\ j \in i - 1 .. Len(s)
      /\ Len(s) \in j .. Len(s)
  BY <1>1
<1> QED
  BY <1>2, ConcatAdjacentSubSeq

(***************************************************************************)
(* The element store.                                                      *)
(***************************************************************************)
Rest == SubSeq(eltsDequeue, headIdx + 1, Len(eltsDequeue))

\* While the queue is open, what is not yet popped of eltsDequeue, and eltsEnqueue,
\* make up the contents, and sizeUnsynchronized adds their lengths.
LEMMA RestType ==
  ASSUME TypeOK, ~closed
  PROVE  /\ Rest \in Seq(Nat) /\ Len(Rest) = Len(eltsDequeue) - headIdx
         /\ headIdx \in Nat
         /\ Len(eltsDequeue) \in Nat /\ Len(eltsEnqueue) \in Nat /\ Len(received) \in Nat
         /\ Len(eltsDequeue) - headIdx \in Nat
         /\ Contents = Rest \o eltsEnqueue
         /\ sizeUnsynchronized = (Len(eltsDequeue) - headIdx) + Len(eltsEnqueue)
         /\ sizeUnsynchronized = Len(Rest) + Len(eltsEnqueue)
         /\ sizeUnsynchronized \in Nat
<1>1. Len(eltsDequeue) \in Nat /\ Len(eltsEnqueue) \in Nat /\ Len(received) \in Nat
  BY LenProperties DEF TypeOK
<1>2. /\ eltsDequeue \in Seq(Nat) /\ headIdx \in Nat
      /\ headIdx + 1 \in Nat \ {0} /\ headIdx + 1 <= Len(eltsDequeue) + 1
  BY <1>1 DEF TypeOK
<1>3. Rest \in Seq(Nat) /\ Len(Rest) = (Len(eltsDequeue) + 1) - (headIdx + 1)
  BY <1>1, <1>2, Slice DEF Rest
<1> QED
  BY <1>1, <1>2, <1>3 DEF Rest, Contents, sizeUnsynchronized

\* sizeUnsynchronized is the number of elements in an open queue.
LEMMA ContentsType ==
  ASSUME TypeOK, ~closed
  PROVE  /\ Contents \in Seq(Nat)
         /\ Len(Contents) = sizeUnsynchronized
         /\ sizeUnsynchronized \in Nat
<1>1. eltsEnqueue \in Seq(Nat)
  BY DEF TypeOK
<1>2. /\ Contents \in Seq(Nat)
      /\ Len(Contents) = Len(Rest) + Len(eltsEnqueue)
  BY <1>1, RestType, Join
<1>3. sizeUnsynchronized = Len(Rest) + Len(eltsEnqueue) /\ sizeUnsynchronized \in Nat
  BY RestType
<1> QED
  BY <1>2, <1>3

\* A push adds the next number at the end.
LEMMA PushAppends ==
  ASSUME TypeOK, ~closed, pushUnsynchronized
  PROVE  /\ eltsEnqueue' \in Seq(Nat) /\ pushed' \in Nat
         /\ Contents' = Append(Contents, pushed + 1)
         /\ sizeUnsynchronized' = sizeUnsynchronized + 1
<1>1. /\ pushed + 1 \in Nat /\ eltsEnqueue \in Seq(Nat) /\ Rest \in Seq(Nat)
      /\ <<pushed + 1>> \in Seq(Nat)
  BY RestType DEF TypeOK
<1>2. /\ eltsEnqueue' = eltsEnqueue \o <<pushed + 1>>
      /\ Len(eltsEnqueue') = Len(eltsEnqueue) + 1
      /\ eltsEnqueue' \in Seq(Nat)
  BY <1>1, AppendIsConcat, AppendProperties DEF pushUnsynchronized
<1>3. Contents' = Rest \o eltsEnqueue'
  BY DEF pushUnsynchronized, Contents, Rest
<1>4. Append(Contents, pushed + 1) = (Rest \o eltsEnqueue) \o <<pushed + 1>>
  BY <1>1, AppendIsConcat, ContentsType, RestType
<1>5. Contents' = Append(Contents, pushed + 1)
  <2>1. (Rest \o eltsEnqueue) \o <<pushed + 1>> = Rest \o (eltsEnqueue \o <<pushed + 1>>)
    BY <1>1, Join3
  <2> QED
    BY <1>2, <1>3, <1>4, <2>1, Zenon
<1>6. sizeUnsynchronized' = sizeUnsynchronized + 1
  BY <1>2, RestType DEF pushUnsynchronized, sizeUnsynchronized, TypeOK
<1> QED
  BY <1>1, <1>2, <1>5, <1>6 DEF pushUnsynchronized

\* Pops move elements from the front of the queue to the end of what was
\* received, whether or not the vectors are swapped in between.
LEMMA PopsKeepOrder ==
  ASSUME TypeOK, ~closed, NEW k \in 1..sizeUnsynchronized, popUnsynchronized(k)
  PROVE  /\ eltsDequeue' \in Seq(Nat) /\ eltsEnqueue' \in Seq(Nat)
         /\ headIdx' \in Nat /\ headIdx' <= Len(eltsDequeue')
         /\ received' \in Seq(Nat) /\ pushed' = pushed
         /\ Len(received') = Len(received) + k
         /\ sizeUnsynchronized' = sizeUnsynchronized - k
         /\ received' \o Contents' = received \o Contents
<1> DEFINE left == Len(eltsDequeue) - headIdx
<1>1. /\ eltsDequeue \in Seq(Nat) /\ eltsEnqueue \in Seq(Nat)
      /\ headIdx \in Nat /\ received \in Seq(Nat) /\ k \in Nat
      /\ headIdx <= Len(eltsDequeue)
  BY ContentsType DEF TypeOK
<1>2. CASE k <= left /\ headIdx' = headIdx + k
           /\ received' = received \o SubSeq(eltsDequeue, headIdx + 1, headIdx + k)
           /\ UNCHANGED <<eltsDequeue, eltsEnqueue, pushed>>
  <2> DEFINE out == SubSeq(eltsDequeue, headIdx + 1, headIdx + k)
             stay == SubSeq(eltsDequeue, (headIdx + k) + 1, Len(eltsDequeue))
  <2>1. /\ headIdx + k \in Nat /\ headIdx + k <= Len(eltsDequeue)
        /\ headIdx + 1 \in Nat \ {0} /\ headIdx + 1 <= (headIdx + k) + 1
        /\ (headIdx + k) + 1 \in Nat \ {0}
        /\ (headIdx + k) + 1 <= Len(eltsDequeue) + 1
        /\ Len(eltsDequeue) \in Nat /\ Len(eltsDequeue) <= Len(eltsDequeue)
    <3>1. PICK h \in Nat : h = headIdx
      BY <1>1
    <3>2. PICK y \in Nat : y = Len(eltsDequeue)
      BY RestType
    <3>3. k \in Nat /\ h <= y /\ k <= y - h
      BY <1>1, <1>2, <3>1, <3>2
    <3>4. /\ h + k \in Nat /\ h + k <= y /\ h + 1 \in Nat \ {0}
          /\ h + 1 <= (h + k) + 1 /\ (h + k) + 1 \in Nat \ {0}
          /\ (h + k) + 1 <= y + 1 /\ y <= y
      BY <3>3
    <3> QED
      BY <3>1, <3>2, <3>4
  <2>2. out \in Seq(Nat) /\ Len(out) = k
    <3>1. /\ out \in Seq(Nat) /\ Len(out) = ((headIdx + k) + 1) - (headIdx + 1)
      BY <1>1, <2>1, Slice
    <3> QED
      BY <1>1, <3>1
  <2>3. stay \in Seq(Nat)
    BY <1>1, <2>1, Slice
  <2>4. out \o stay = Rest
    BY <1>1, <2>1, Cut DEF Rest
  <2>5. Contents' = stay \o eltsEnqueue /\ received' = received \o out
    BY <1>2 DEF Contents
  <2> HIDE DEF out, stay
  <2>6. received' \o Contents' = received \o Contents
    <3>1. (received \o out) \o (stay \o eltsEnqueue)
            = received \o ((out \o stay) \o eltsEnqueue)
      <4>1. received \in Seq(Nat) /\ eltsEnqueue \in Seq(Nat)
        BY <1>1
      <4>2. stay \o eltsEnqueue \in Seq(Nat)
        BY <2>3, <4>1, Join
      <4>3. (received \o out) \o (stay \o eltsEnqueue)
              = received \o (out \o (stay \o eltsEnqueue))
        BY <2>2, <4>1, <4>2, Join3
      <4>4. out \o (stay \o eltsEnqueue) = (out \o stay) \o eltsEnqueue
        BY <2>2, <2>3, <4>1, Join3
      <4> QED
        BY <4>3, <4>4
    <3> QED
      BY <2>4, <2>5, <3>1, RestType
  <2>7. received' \in Seq(Nat) /\ Len(received') = Len(received) + k
    BY <1>1, <2>2, <2>5, Join
  <2>8. sizeUnsynchronized' = sizeUnsynchronized - k
    BY <1>1, <1>2, RestType DEF sizeUnsynchronized
  <2> QED
    BY <1>1, <1>2, <2>1, <2>6, <2>7, <2>8
<1>3. CASE k > left /\ eltsDequeue' = eltsEnqueue /\ eltsEnqueue' = <<>>
           /\ headIdx' = k - left /\ pushed' = pushed
           /\ received' = received \o Rest \o SubSeq(eltsEnqueue, 1, k - left)
  <2> DEFINE out == SubSeq(eltsEnqueue, 1, k - left)
             stay == SubSeq(eltsEnqueue, (k - left) + 1, Len(eltsEnqueue))
  <2>1. /\ k - left \in Nat /\ k - left <= Len(eltsEnqueue)
        /\ 1 <= (k - left) + 1 /\ (k - left) + 1 \in Nat \ {0}
        /\ (k - left) + 1 <= Len(eltsEnqueue) + 1
        /\ Len(eltsEnqueue) \in Nat /\ Len(eltsEnqueue) <= Len(eltsEnqueue)
    <3>1. /\ sizeUnsynchronized = left + Len(eltsEnqueue)
          /\ left \in Nat /\ Len(eltsEnqueue) \in Nat
      BY <1>1, RestType
    <3>2. PICK z \in Nat : z = left
      BY <3>1
    <3>3. PICK y \in Nat : y = Len(eltsEnqueue)
      BY <3>1
    <3>4. k \in Nat /\ k <= z + y /\ k > z
      BY <1>1, <1>3, <3>1, <3>2, <3>3
    <3>5. /\ k - z \in Nat /\ k - z <= y /\ 1 <= (k - z) + 1
          /\ (k - z) + 1 \in Nat \ {0} /\ (k - z) + 1 <= y + 1 /\ y <= y
      BY <3>4
    <3> QED
      BY <3>2, <3>3, <3>5
  <2>2. out \in Seq(Nat) /\ Len(out) = k - left
    <3>1. PICK z \in Nat : z = k - left
      BY <2>1
    <3>2. 1 \in Nat \ {0} /\ 1 <= z + 1 /\ z <= Len(eltsEnqueue) /\ (z + 1) - 1 = z
      BY <2>1, <3>1
    <3>3. SubSeq(eltsEnqueue, 1, z) \in Seq(Nat) /\ Len(SubSeq(eltsEnqueue, 1, z)) = (z + 1) - 1
      BY <1>1, <3>2, Slice
    <3> QED
      BY <3>1, <3>2, <3>3
  <2>3. stay \in Seq(Nat)
    BY <1>1, <2>1, Slice
  <2>4. out \o stay = eltsEnqueue
    <3>1. out \o stay = SubSeq(eltsEnqueue, 1, Len(eltsEnqueue))
      <4>1. 1 \in Nat \ {0}
        OBVIOUS
      <4> QED
        BY <1>1, <2>1, <4>1, Cut
    <3>2. SubSeq(eltsEnqueue, 1, Len(eltsEnqueue)) = eltsEnqueue
      BY <1>1, SubSeqFull
    <3> QED
      BY <3>1, <3>2
  <2>5. Contents' = stay
    <3>1. Contents' = stay \o <<>>
      BY <1>3 DEF Contents
    <3> QED
      BY <2>3, <3>1, ConcatEmptySeq
  <2>6. received' = (received \o Rest) \o out
    BY <1>3
  <2> HIDE DEF out, stay
  <2>7. received' \o Contents' = received \o Contents
    <3>1. ((received \o Rest) \o out) \o stay = received \o (Rest \o (out \o stay))
      <4>1. received \in Seq(Nat) /\ Rest \in Seq(Nat)
        BY <1>1, RestType
      <4>2. received \o Rest \in Seq(Nat) /\ out \o stay \in Seq(Nat)
        BY <2>2, <2>3, <4>1, Join
      <4>3. \A a \in Seq(Nat) : (a \o out) \o stay = a \o (out \o stay)
        BY <2>2, <2>3, Join3
      <4>4. ((received \o Rest) \o out) \o stay = (received \o Rest) \o (out \o stay)
        BY <4>2, <4>3, Zenon
      <4>5. (received \o Rest) \o (out \o stay) = received \o (Rest \o (out \o stay))
        BY <4>1, <4>2, Join3
      <4> QED
        BY <4>4, <4>5
    <3> QED
      BY <2>4, <2>5, <2>6, <3>1, RestType
  <2>8. received' \in Seq(Nat) /\ Len(received') = Len(received) + k
    <3>1. /\ received \o Rest \in Seq(Nat)
          /\ Len(received \o Rest) = Len(received) + left
      BY <1>1, RestType, Join
    <3>2. /\ received' \in Seq(Nat)
          /\ Len(received') = Len(received \o Rest) + (k - left)
      BY <2>2, <2>6, <3>1, Join
    <3> QED
      BY <1>1, <3>1, <3>2, RestType
  <2>9. sizeUnsynchronized' = sizeUnsynchronized - k
    <3>1. Len(eltsEnqueue') = 0
      BY <1>3
    <3> QED
      BY <1>1, <1>3, <3>1, RestType DEF sizeUnsynchronized
  <2>10. eltsEnqueue' \in Seq(Nat)
    BY <1>3
  <2> QED
    BY <1>1, <1>3, <2>1, <2>7, <2>8, <2>9, <2>10
<1> QED
  BY <1>2, <1>3 DEF popUnsynchronized, Rest

(***************************************************************************)
(* What the actions have in common.                                        *)
(***************************************************************************)
Numbers(k) == [i \in 1..k |-> i]

\* The numbers up to k + 1 are those up to k and k + 1.
LEMMA NumbersGrow ==
  ASSUME NEW k \in Nat
  PROVE  /\ Numbers(k) \in Seq(Nat) /\ Len(Numbers(k)) = k
         /\ Append(Numbers(k), k + 1) = Numbers(k + 1)
<1>1. /\ Numbers(k) \in [1..k -> Nat]
      /\ Numbers(k + 1) \in [1..(k + 1) -> Nat]
  BY DEF Numbers
<1>2. Numbers(k) \in Seq(Nat) /\ Numbers(k + 1) \in Seq(Nat)
  BY <1>1, SeqDef
<1>3. Len(Numbers(k)) = k /\ Len(Numbers(k + 1)) = k + 1
  BY <1>1, <1>2, LenProperties
<1>4. /\ Append(Numbers(k), k + 1) \in Seq(Nat)
      /\ Len(Append(Numbers(k), k + 1)) = k + 1
      /\ \A i \in 1..k : Append(Numbers(k), k + 1)[i] = Numbers(k)[i]
      /\ Append(Numbers(k), k + 1)[k + 1] = k + 1
  BY <1>2, <1>3, AppendProperties
<1>5. \A i \in 1..(k + 1) : Append(Numbers(k), k + 1)[i] = Numbers(k + 1)[i]
  BY <1>4 DEF Numbers
<1>6. Append(Numbers(k), k + 1) = Numbers(k + 1)
  BY <1>2, <1>3, <1>4, <1>5, SeqEqual
<1> QED
  BY <1>2, <1>3, <1>6

\* Actions that leave the elements alone.
LEMMA ElementsKept ==
  ASSUME IInv, UNCHANGED elementVars, closed' = closed
  PROVE  /\ NothingLostOrReordered'
         /\ sizeUnsynchronized' = sizeUnsynchronized
         /\ eltsDequeue' \in Seq(Nat) /\ eltsEnqueue' \in Seq(Nat)
         /\ headIdx' \in Nat /\ (~closed' => headIdx' <= Len(eltsDequeue'))
         /\ pushed' \in Nat /\ received' \in Seq(Nat)
BY DEF IInv, TypeOK, elementVars, NothingLostOrReordered, Contents, sizeUnsynchronized

\* What waitPush and forcePush do to the elements and the waiting threads.
LEMMA PushStep ==
  ASSUME IInv, Push
  PROVE  /\ NothingLostOrReordered' /\ NoLostWakeup'
         /\ eltsDequeue' \in Seq(Nat) /\ eltsEnqueue' \in Seq(Nat)
         /\ headIdx' \in Nat /\ headIdx' <= Len(eltsDequeue')
         /\ pushed' \in Nat /\ received' \in Seq(Nat)
         /\ notEmptyCondVar' \subseteq notEmptyCondVar
         /\ UNCHANGED <<closed, readOnly, n, notFullCondVar>>
<1>1. /\ TypeOK /\ ~closed /\ ~readOnly /\ pushUnsynchronized
      /\ UNCHANGED <<closed, readOnly, n, notFullCondVar>>
  BY DEF IInv, Push
<1>2. /\ eltsEnqueue' \in Seq(Nat) /\ pushed' \in Nat
      /\ Contents' = Append(Contents, pushed + 1)
      /\ sizeUnsynchronized' = sizeUnsynchronized + 1
  BY <1>1, PushAppends
<1>3. /\ eltsDequeue' = eltsDequeue /\ headIdx' = headIdx /\ received' = received
      /\ pushed' = pushed + 1 /\ pushed \in Nat /\ pushed + 1 \in Nat
      /\ received \in Seq(Nat) /\ Contents \in Seq(Nat)
  BY <1>1, ContentsType DEF pushUnsynchronized, TypeOK
<1>4. received' \o Contents' = Numbers(pushed')
  <2>1. <<pushed + 1>> \in Seq(Nat)
    BY <1>3
  <2>2. received \o Contents \in Seq(Nat)
    BY <1>3, Join
  <2>3. Append(received \o Contents, pushed + 1) = (received \o Contents) \o <<pushed + 1>>
    BY <1>3, <2>2, AppendIsConcat
  <2>4. Append(Contents, pushed + 1) = Contents \o <<pushed + 1>>
    BY <1>3, AppendIsConcat
  <2>5. (received \o Contents) \o <<pushed + 1>> = received \o (Contents \o <<pushed + 1>>)
    BY <1>3, <2>1, Join3
  <2>6. received \o Contents = Numbers(pushed)
    BY <1>1 DEF IInv, NothingLostOrReordered, Numbers
  <2>7. Append(Numbers(pushed), pushed + 1) = Numbers(pushed + 1)
    BY <1>3, NumbersGrow
  <2> QED
    BY <1>2, <1>3, <2>3, <2>4, <2>5, <2>6, <2>7
<1>5. NoLostWakeup'
  <2>1. sizeUnsynchronized \in Nat
    BY <1>1, ContentsType
  <2>2. notEmptyCondVar' = IF sizeUnsynchronized' = 1 THEN {} ELSE notEmptyCondVar
    BY DEF Push, NotifyPushed
  <2>3. /\ notFullCondVar # {} => sizeUnsynchronized >= maxSize
        /\ notEmptyCondVar # {} => sizeUnsynchronized <= 0
    BY DEF IInv, NoLostWakeup
  <2>4. notFullCondVar' # {} => sizeUnsynchronized' >= maxSize
    BY <1>1, <1>2, <2>1, <2>3, QueueConstants
  <2>5. notEmptyCondVar' = {}
    BY <1>2, <2>1, <2>2, <2>3
  <2> QED
    BY <1>1, <2>4, <2>5 DEF NoLostWakeup
<1> QED
  BY <1>1, <1>2, <1>3, <1>4, <1>5
     DEF TypeOK, Push, NotifyPushed, NothingLostOrReordered, Numbers

\* What the pops do to them: k elements leave, and threads that wait for
\* room are left waiting only if there still is none.
LEMMA PopStep ==
  ASSUME IInv, ~closed, NEW k \in 1..sizeUnsynchronized, popUnsynchronized(k),
         notFullCondVar' = {} \/ (UNCHANGED notFullCondVar /\
             (sizeUnsynchronized >= maxSize => sizeUnsynchronized - k >= maxSize)),
         UNCHANGED <<closed, readOnly, notEmptyCondVar>>
  PROVE  /\ NothingLostOrReordered' /\ NoLostWakeup'
         /\ eltsDequeue' \in Seq(Nat) /\ eltsEnqueue' \in Seq(Nat)
         /\ headIdx' \in Nat /\ headIdx' <= Len(eltsDequeue')
         /\ pushed' \in Nat /\ received' \in Seq(Nat)
         /\ notFullCondVar' \subseteq notFullCondVar
         /\ received' # received
<1>1. TypeOK /\ sizeUnsynchronized \in Nat /\ k \in Nat /\ k >= 1
  BY ContentsType DEF IInv
<1>2. /\ eltsDequeue' \in Seq(Nat) /\ eltsEnqueue' \in Seq(Nat)
      /\ headIdx' \in Nat /\ headIdx' <= Len(eltsDequeue')
      /\ received' \in Seq(Nat) /\ pushed' = pushed
      /\ Len(received') = Len(received) + k
      /\ sizeUnsynchronized' = sizeUnsynchronized - k
      /\ received' \o Contents' = received \o Contents
  BY <1>1, PopsKeepOrder
<1>3. NothingLostOrReordered'
  BY <1>2 DEF IInv, NothingLostOrReordered
<1>4. NoLostWakeup'
  <2>1. notEmptyCondVar' = {}
    BY <1>1 DEF IInv, NoLostWakeup
  <2>2. notFullCondVar' # {} => ~closed' /\ ~readOnly' /\ sizeUnsynchronized' >= maxSize
    BY <1>2 DEF IInv, NoLostWakeup
  <2> QED
    BY <2>1, <2>2 DEF NoLostWakeup
<1>5. received' # received
  <2>1. Len(received) \in Nat
    BY <1>1, LenProperties DEF TypeOK
  <2> QED
    BY <1>1, <1>2, <2>1
<1> QED
  BY <1>1, <1>2, <1>3, <1>4, <1>5 DEF TypeOK

(***************************************************************************)
(* The inductive invariant.                                                *)
(***************************************************************************)
\* A new queue is empty, open and has nobody waiting.
LEMMA InitInv == Init => IInv
<1> SUFFICES ASSUME Init PROVE IInv
  OBVIOUS
<1>1. <<>> \in Seq(Nat) /\ Len(<<>>) = 0
  BY EmptySeq
<1>2. TypeOK
  <2>1. 1 \in 1..MaxPushes
    BY QueueConstants
  <2>2. n \in [Consumers -> 1..MaxPushes]
    BY <2>1 DEF Init
  <2>3. call \in [Producers \cup Consumers ->
                   {"none", "waitPush", "waitPop", "waitPopUpToN"}]
    BY DEF Init
  <2>4. headIdx \in Nat /\ headIdx <= Len(eltsDequeue) /\ pushed \in Nat
    BY <1>1 DEF Init
  <2>5. /\ eltsDequeue \in Seq(Nat) /\ eltsEnqueue \in Seq(Nat) /\ received \in Seq(Nat)
        /\ closed \in BOOLEAN /\ readOnly \in BOOLEAN
        /\ notFullCondVar = {} /\ notEmptyCondVar = {}
    BY <1>1 DEF Init
  <2> QED
    BY <2>2, <2>3, <2>4, <2>5 DEF TypeOK
<1>3. NothingLostOrReordered
  <2>1. Len(Contents) = 0 /\ Contents \in Seq(Nat)
    BY <1>1, <1>2, ContentsType DEF Init, sizeUnsynchronized
  <2>2. Contents = <<>>
    BY <2>1, EmptySeq
  <2>3. received \o Contents = <<>>
    BY <1>1, <2>2, ConcatEmptySeq DEF Init
  <2>4. Numbers(0) = <<>>
    BY NumbersGrow, EmptySeq
  <2> QED
    BY <2>3, <2>4 DEF Init, NothingLostOrReordered, Numbers
<1> QED
  BY <1>2, <1>3, QueueConstants DEF Init, IInv, CallInv, NoLostWakeup

\* Every call, its return and close, setReadOnly, unsetReadOnly keep the
\* invariant.
LEMMA StepInv == IInv /\ [Next]_vars => IInv'
<1> SUFFICES ASSUME IInv, [Next]_vars PROVE IInv'
  OBVIOUS
<1>0. /\ TypeOK /\ CallInv /\ NoLostWakeup /\ NothingLostOrReordered
      /\ Producers \cap Consumers = {}
  BY QueueConstants DEF IInv
<1>1. ASSUME NEW p \in Producers, CallWaitPush(p) PROVE IInv'
  BY <1>0, <1>1, ElementsKept
     DEF CallWaitPush, IInv, TypeOK, CallInv, NoLostWakeup
<1>2. ASSUME NEW p \in Producers, WaitPush(p) PROVE IInv'
  <2>1. CASE /\ ~closed /\ ~readOnly /\ sizeUnsynchronized >= maxSize
             /\ notFullCondVar' = notFullCondVar \cup {p}
             /\ UNCHANGED <<closed, readOnly, elementVars, notEmptyCondVar, call, n>>
    BY <1>0, <1>2, <2>1, ElementsKept
       DEF WaitPush, IInv, TypeOK, CallInv, NoLostWakeup
  <2>2. CASE /\ closed \/ readOnly
             /\ Returns(p)
             /\ UNCHANGED <<closed, readOnly, elementVars, notFullCondVar,
                            notEmptyCondVar, n>>
    BY <1>0, <1>2, <2>2, ElementsKept
       DEF WaitPush, Returns, IInv, TypeOK, CallInv, NoLostWakeup
  <2>3. CASE Push /\ Returns(p)
    BY <1>0, <1>2, <2>3, PushStep DEF WaitPush, Returns, IInv, TypeOK, CallInv
  <2> QED
    BY <1>2, <2>1, <2>2, <2>3 DEF WaitPush
<1>3. ASSUME NEW p \in Producers, ForcePush(p) PROVE IInv'
  BY <1>0, <1>3, PushStep DEF ForcePush, IInv, TypeOK, CallInv
<1>4. ASSUME NEW c \in Consumers, CallWaitPop(c) PROVE IInv'
  <2>1. 1 \in 1..MaxPushes
    BY QueueConstants
  <2> QED
    BY <1>0, <1>4, <2>1, ElementsKept
       DEF CallWaitPop, IInv, TypeOK, CallInv, NoLostWakeup
<1>5. ASSUME NEW c \in Consumers, NEW k \in Batches, CallWaitPopUpToN(c, k) PROVE IInv'
  <2>1. k \in 1..MaxPushes
    BY QueueConstants
  <2> QED
    BY <1>0, <1>5, <2>1, ElementsKept
       DEF CallWaitPopUpToN, IInv, TypeOK, CallInv, NoLostWakeup
<1>6. ASSUME NEW c \in Consumers, c \notin notEmptyCondVar,
             call[c] \in {"waitPop", "waitPopUpToN"}, NothingToPop(c)
      PROVE  IInv'
  <2>1. CASE /\ ~closed /\ ~readOnly /\ sizeUnsynchronized <= 0
             /\ notEmptyCondVar' = notEmptyCondVar \cup {c}
             /\ UNCHANGED <<closed, readOnly, elementVars, notFullCondVar, call, n>>
    BY <1>0, <1>6, <2>1, ElementsKept DEF IInv, TypeOK, CallInv, NoLostWakeup
  <2>2. CASE /\ Returns(c)
             /\ UNCHANGED <<closed, readOnly, elementVars, notFullCondVar,
                            notEmptyCondVar, n>>
    BY <1>0, <1>6, <2>2, ElementsKept
       DEF Returns, IInv, TypeOK, CallInv, NoLostWakeup
  <2> QED
    BY <1>6, <2>1, <2>2 DEF NothingToPop
<1>7. ASSUME NEW c \in Consumers, ~closed, sizeUnsynchronized > 0,
             NotifyPopped, popUnsynchronized(1),
             UNCHANGED <<closed, readOnly, notEmptyCondVar, n>>,
             UNCHANGED call \/ (Returns(c) /\ c \notin notEmptyCondVar)
      PROVE  IInv' /\ received' # received
  <2>1. sizeUnsynchronized \in Nat /\ 1 \in 1..sizeUnsynchronized
    BY <1>0, <1>7, ContentsType
  <2>2. notFullCondVar' = {} \/ (UNCHANGED notFullCondVar /\
          (sizeUnsynchronized >= maxSize => sizeUnsynchronized - 1 >= maxSize))
    BY <1>7, <2>1, QueueConstants DEF NotifyPopped
  <2>3. /\ NothingLostOrReordered' /\ NoLostWakeup'
        /\ eltsDequeue' \in Seq(Nat) /\ eltsEnqueue' \in Seq(Nat)
        /\ headIdx' \in Nat /\ headIdx' <= Len(eltsDequeue')
        /\ pushed' \in Nat /\ received' \in Seq(Nat)
        /\ notFullCondVar' \subseteq notFullCondVar
        /\ received' # received
    BY <1>7, <2>1, <2>2, PopStep
  <2> QED
    BY <1>0, <1>7, <2>3 DEF Returns, IInv, TypeOK, CallInv
<1>8. ASSUME NEW c \in Consumers, WaitPop(c) PROVE IInv'
  BY <1>6, <1>7, <1>8 DEF WaitPop
<1>9. ASSUME NEW c \in Consumers, WaitPopUpToN(c) PROVE IInv'
  <2>1. CASE NothingToPop(c)
    BY <1>6, <1>9, <2>1 DEF WaitPopUpToN
  <2>2. CASE /\ ~closed /\ sizeUnsynchronized > 0
             /\ popUnsynchronized(Smaller(sizeUnsynchronized, n[c]))
             /\ NotifyBatch(n[c]) /\ Returns(c)
             /\ UNCHANGED <<closed, readOnly, notEmptyCondVar, n>>
    <3> DEFINE k == Smaller(sizeUnsynchronized, n[c])
    <3>1. sizeUnsynchronized \in Nat /\ n[c] \in Nat /\ n[c] >= 1
      BY <1>0, <2>2, ContentsType, QueueConstants DEF TypeOK
    <3>2. k \in 1..sizeUnsynchronized /\ k <= n[c] /\ k \in Nat
      BY <2>2, <3>1 DEF Smaller
    <3>3. notFullCondVar' = {} \/ (UNCHANGED notFullCondVar /\
            (sizeUnsynchronized >= maxSize => sizeUnsynchronized - k >= maxSize))
      BY <2>2, <3>1, <3>2, QueueConstants DEF NotifyBatch
    <3>4. popUnsynchronized(k) /\ ~closed /\ UNCHANGED <<closed, readOnly, notEmptyCondVar>>
      BY <2>2
    <3> HIDE DEF k
    <3>5. /\ NothingLostOrReordered' /\ NoLostWakeup'
          /\ eltsDequeue' \in Seq(Nat) /\ eltsEnqueue' \in Seq(Nat)
          /\ headIdx' \in Nat /\ headIdx' <= Len(eltsDequeue')
          /\ pushed' \in Nat /\ received' \in Seq(Nat)
          /\ notFullCondVar' \subseteq notFullCondVar
      BY <3>2, <3>3, <3>4, PopStep
    <3> QED
      BY <1>0, <1>9, <2>2, <3>5 DEF WaitPopUpToN, Returns, IInv, TypeOK, CallInv
  <2> QED
    BY <1>9, <2>1, <2>2 DEF WaitPopUpToN
<1>10. ASSUME NEW c \in Consumers, TryPop(c) PROVE IInv'
  BY <1>7, <1>10 DEF TryPop
<1>11. CASE Close
  BY <1>0, <1>11, EmptySeq
     DEF Close, NotifyAll, IInv, TypeOK, CallInv, NoLostWakeup, NothingLostOrReordered
<1>12. CASE SetReadOnly
  BY <1>0, <1>12, ElementsKept
     DEF SetReadOnly, NotifyAll, IInv, TypeOK, CallInv, NoLostWakeup
<1>13. CASE UnsetReadOnly
  BY <1>0, <1>13, ElementsKept
     DEF UnsetReadOnly, IInv, TypeOK, CallInv, NoLostWakeup
<1>14. ASSUME NEW t \in Producers \cup Consumers, SpuriousWakeup(t) PROVE IInv'
  BY <1>0, <1>14, ElementsKept
     DEF SpuriousWakeup, IInv, TypeOK, CallInv, NoLostWakeup
<1>15. CASE UNCHANGED vars
  BY <1>0, <1>15, ElementsKept DEF vars, IInv, TypeOK, CallInv, NoLostWakeup
<1> QED
  BY <1>1, <1>2, <1>3, <1>4, <1>5, <1>8, <1>9, <1>10, <1>11, <1>12, <1>13, <1>14, <1>15
     DEF Next, ProducerStep, ConsumerStep

\* The invariant the results below are read off holds in every behaviour.
THEOREM Inductive == Spec => []IInv
BY InitInv, StepInv, PTL DEF Spec

(***************************************************************************)
(* The properties.                                                         *)
(***************************************************************************)
\* Every variable of the queue has its type, and the assertion of
\* sizeUnsynchronized holds until the queue is closed.
THEOREM TypeCorrect == Spec => []TypeOK
BY Inductive, PTL DEF IInv

\* The queue loses, doubles and reorders nothing (popUnsynchronized).
THEOREM FirstInFirstOut == Spec => []NothingLostOrReordered
BY Inductive, PTL DEF IInv

\* No thread is left asleep in waitPush, waitPop or waitPopUpToN.
THEOREM WakeupsKept == Spec => []NoLostWakeup
BY Inductive, PTL DEF IInv

\* A step that ends a blocking pop without an element is one of a closed queue
\* or of a read-only one that is empty.
LEMMA DrainedStep ==
  ASSUME IInv, Next
  PROVE  \A c \in Consumers :
           call[c] # "none" /\ call'[c] = "none" /\ received' = received =>
             closed \/ (readOnly /\ Len(received) = pushed)
<1> SUFFICES ASSUME NEW c \in Consumers, call[c] # "none", call'[c] = "none",
                    received' = received, ~closed
             PROVE  readOnly /\ Len(received) = pushed
  OBVIOUS
<1>0. /\ TypeOK /\ CallInv /\ Producers \cap Consumers = {}
      /\ sizeUnsynchronized \in Nat /\ Contents \in Seq(Nat)
      /\ Len(Contents) = sizeUnsynchronized
  BY ContentsType, QueueConstants DEF IInv
\* Only c's own step ends its call.
<1>1. WaitPop(c) \/ WaitPopUpToN(c)
  <2>1. ASSUME NEW p \in Producers, ProducerStep(p) PROVE FALSE
    BY <1>0, <2>1 DEF ProducerStep, CallWaitPush, WaitPush, ForcePush, Returns, TypeOK
  <2>2. ASSUME NEW d \in Consumers, d # c, ConsumerStep(d) PROVE FALSE
    BY <1>0, <2>2
       DEF ConsumerStep, CallWaitPop, CallWaitPopUpToN, WaitPop, WaitPopUpToN,
           NothingToPop, TryPop, Returns, TypeOK
  <2>3. ASSUME ConsumerStep(c) PROVE WaitPop(c) \/ WaitPopUpToN(c)
    BY <2>3 DEF ConsumerStep, CallWaitPop, CallWaitPopUpToN, TryPop
  <2>4. ~(Close \/ SetReadOnly \/ UnsetReadOnly \/
          \E t \in Producers \cup Consumers : SpuriousWakeup(t))
    BY DEF Close, SetReadOnly, UnsetReadOnly, SpuriousWakeup
  <2> QED
    BY <2>1, <2>2, <2>3, <2>4 DEF Next
\* It took no element, so it found none.
<1>2. ASSUME sizeUnsynchronized > 0, NEW k \in 1..sizeUnsynchronized,
             popUnsynchronized(k)
      PROVE  FALSE
  <2>1. Len(received') = Len(received) + k
    BY <1>0, <1>2, PopsKeepOrder
  <2>2. Len(received) \in Nat
    BY <1>0, LenProperties DEF TypeOK
  <2> QED
    BY <1>0, <2>1, <2>2
<1>3. NothingToPop(c)
  <2>1. CASE WaitPop(c)
    <3>1. 1 \in 1..sizeUnsynchronized \/ ~(sizeUnsynchronized > 0)
      BY <1>0
    <3> QED
      BY <1>2, <2>1, <3>1 DEF WaitPop
  <2>2. CASE WaitPopUpToN(c)
    <3>1. n[c] \in Nat /\ n[c] >= 1
      BY <1>0, QueueConstants DEF TypeOK
    <3>2. sizeUnsynchronized > 0 =>
            Smaller(sizeUnsynchronized, n[c]) \in 1..sizeUnsynchronized
      BY <1>0, <3>1 DEF Smaller
    <3> QED
      BY <1>2, <2>2, <3>2 DEF WaitPopUpToN
  <2> QED
    BY <1>1, <2>1, <2>2
<1>4. readOnly /\ sizeUnsynchronized = 0
  BY <1>0, <1>3 DEF NothingToPop
<1>5. Len(received) = pushed
  <2>1. received \in Seq(Nat) /\ pushed \in Nat
    BY <1>0 DEF TypeOK
  <2>2. received \o Contents = Numbers(pushed)
    BY DEF IInv, NothingLostOrReordered, Numbers
  <2>3. Len(received \o Contents) = Len(received) + 0 /\ Len(received) \in Nat
    BY <1>0, <1>4, <2>1, Join
  <2>4. Len(Numbers(pushed)) = pushed
    BY <2>1, NumbersGrow
  <2> QED
    BY <2>2, <2>3, <2>4
<1> QED
  BY <1>4, <1>5

\* A blocking pop is refused only when nothing more will come.
THEOREM DrainedFirst == Spec => DrainedBeforeRefused
<1>1. IInv /\ [Next]_vars =>
        [\A c \in Consumers :
           call[c] # "none" /\ call'[c] = "none" /\ received' = received =>
             closed \/ (readOnly /\ Len(received) = pushed)]_vars
  BY DrainedStep
<1> QED
  BY <1>1, Inductive, PTL DEF Spec, DrainedBeforeRefused

(***************************************************************************)
(* Refinement: every step is one of FifoChannel or a stutter of it.  Items *)
(* and Asked are what the channel's items and calls stand for.             *)
(***************************************************************************)
Items == IF closed THEN <<>> ELSE Contents
Asked == [t \in Producers \cup Consumers |->
            CASE call[t] = "none" -> "none"
              [] call[t] = "waitPush" -> "push"
              [] OTHER -> "pop"]

\* waitPop asks for one element.
DemandInv == \A c \in Consumers : call[c] = "waitPop" => n[c] = 1

LEMMA DemandKept == IInv /\ DemandInv /\ [Next]_vars => DemandInv'
<1> SUFFICES ASSUME IInv, DemandInv, [Next]_vars PROVE DemandInv'
  OBVIOUS
<1>0. /\ call \in [Producers \cup Consumers ->
                   {"none", "waitPush", "waitPop", "waitPopUpToN"}]
      /\ n \in [Consumers -> 1..MaxPushes] /\ Producers \cap Consumers = {}
  BY QueueConstants DEF IInv, TypeOK
<1>1. CASE n' = n /\ (call' = call \/ \E t \in Producers \cup Consumers : Returns(t))
  BY <1>0, <1>1 DEF DemandInv, Returns
<1>2. ASSUME NEW p \in Producers, ProducerStep(p) PROVE DemandInv'
  BY <1>0, <1>2 DEF DemandInv, ProducerStep, CallWaitPush, WaitPush, ForcePush, Push, Returns
<1>3. ASSUME NEW c \in Consumers, CallWaitPop(c) PROVE DemandInv'
  BY <1>0, <1>3 DEF DemandInv, CallWaitPop
<1>4. ASSUME NEW c \in Consumers, NEW k \in Batches, CallWaitPopUpToN(c, k) PROVE DemandInv'
  BY <1>0, <1>4 DEF DemandInv, CallWaitPopUpToN
<1>5. ASSUME NEW c \in Consumers, WaitPop(c) \/ WaitPopUpToN(c) \/ TryPop(c)
      PROVE  DemandInv'
  BY <1>1, <1>5 DEF WaitPop, WaitPopUpToN, TryPop, NothingToPop
<1>6. CASE \/ Close \/ SetReadOnly \/ UnsetReadOnly \/ UNCHANGED vars
           \/ \E t \in Producers \cup Consumers : SpuriousWakeup(t)
  BY <1>1, <1>6 DEF Close, SetReadOnly, UnsetReadOnly, SpuriousWakeup, vars
<1> QED
  BY <1>2, <1>3, <1>4, <1>5, <1>6 DEF Next, ConsumerStep

\* Sequences with equal beginnings and equal ends are joined alike, and only those.
LEMMA SplitAlike ==
  ASSUME NEW a \in Seq(Nat), NEW b \in Seq(Nat), NEW c \in Seq(Nat), NEW d \in Seq(Nat),
         a \o b = c \o d, Len(a) = Len(c)
  PROVE  a = c /\ b = d
<1>1. PICK k \in Nat : k = Len(a) /\ k = Len(c)
  BY LenProperties
<1>2. PICK l \in Nat, m \in Nat : l = Len(b) /\ m = Len(d)
  BY LenProperties
<1>3. PICK s : s = a \o b /\ s = c \o d
  OBVIOUS
<1>4. Len(s) = k + l /\ \A i \in 1..(k + l) : s[i] = IF i <= k THEN a[i] ELSE b[i - k]
  <2>1. /\ Len(a \o b) = Len(a) + Len(b)
        /\ \A i \in 1..(Len(a) + Len(b)) :
             (a \o b)[i] = IF i <= Len(a) THEN a[i] ELSE b[i - Len(a)]
    BY ConcatProperties
  <2>2. Len(a) = k /\ Len(b) = l /\ s = a \o b
    BY <1>1, <1>2, <1>3
  <2> QED
    BY <2>1, <2>2, Zenon
<1>5. Len(s) = k + m /\ \A i \in 1..(k + m) : s[i] = IF i <= k THEN c[i] ELSE d[i - k]
  <2>1. /\ Len(c \o d) = Len(c) + Len(d)
        /\ \A i \in 1..(Len(c) + Len(d)) :
             (c \o d)[i] = IF i <= Len(c) THEN c[i] ELSE d[i - Len(c)]
    BY ConcatProperties
  <2>2. Len(c) = k /\ Len(d) = m /\ s = c \o d
    BY <1>1, <1>2, <1>3
  <2> QED
    BY <2>1, <2>2, Zenon
<1>6. l = m
  BY <1>2, <1>4, <1>5
<1>7. \A i \in 1..k : a[i] = c[i]
  <2> TAKE i \in 1..k
  <2>1. i \in 1..(k + l) /\ i <= k
    BY <1>2
  <2> QED
    BY <1>4, <1>5, <1>6, <2>1
<1>8. \A i \in 1..l : b[i] = d[i]
  <2> TAKE i \in 1..l
  <2>1. k + i \in 1..(k + l) /\ ~(k + i <= k) /\ (k + i) - k = i
    BY <1>2
  <2>2. s[k + i] = b[i]
    BY <1>4, <2>1
  <2>3. s[k + i] = d[i]
    BY <1>5, <1>6, <2>1
  <2> QED
    BY <2>2, <2>3
<1>9. a = c
  BY <1>1, <1>7, SeqEqual
<1>10. b = d
  BY <1>2, <1>6, <1>8, SeqEqual
<1> QED
  BY <1>9, <1>10

\* The oldest k elements leave, in order.
LEMMA PopsGive ==
  ASSUME TypeOK, ~closed, NEW k \in 1..sizeUnsynchronized, popUnsynchronized(k),
         closed' = closed
  PROVE  /\ Items # <<>> /\ k <= Len(Items) /\ pushed' = pushed
         /\ received' = received \o SubSeq(Items, 1, k)
         /\ Items' = SubSeq(Items, k + 1, Len(Items))
<1>1. PICK s \in Seq(Nat) : s = Contents /\ Len(s) = sizeUnsynchronized
  BY ContentsType
<1>2. PICK l \in Nat : l = Len(s) /\ k \in Nat \ {0} /\ k <= l
  BY <1>1, LenProperties
<1>3. PICK r \in Seq(Nat) : r = received
  BY DEF TypeOK
<1>4. /\ received' \in Seq(Nat) /\ pushed' = pushed
      /\ Len(received') = Len(received) + k
      /\ received' \o Contents' = received \o Contents
      /\ eltsDequeue' \in Seq(Nat) /\ eltsEnqueue' \in Seq(Nat)
      /\ headIdx' \in Nat /\ headIdx' <= Len(eltsDequeue')
  BY PopsKeepOrder
<1>5. Contents' \in Seq(Nat)
  <2>1. PICK e \in Seq(Nat), h \in Nat : e = eltsDequeue' /\ h = headIdx' /\ h <= Len(e)
    BY <1>4
  <2>2. PICK l2 \in Nat : l2 = Len(e)
    BY <2>1, LenProperties
  <2>3. h + 1 \in Nat \ {0} /\ h + 1 <= l2 + 1 /\ l2 <= Len(e)
    <3>1. h <= l2
      BY <2>1, <2>2
    <3>2. l2 <= l2 /\ h + 1 \in Nat \ {0} /\ h + 1 <= l2 + 1
      BY <3>1
    <3> QED
      BY <2>2, <3>2
  <2>4. SubSeq(e, h + 1, l2) \in Seq(Nat)
    BY <2>1, <2>2, <2>3, Slice
  <2> QED
    BY <1>4, <2>1, <2>2, <2>4, Join DEF Contents
<1>6. PICK front \in Seq(Nat), back \in Seq(Nat) :
        /\ front = SubSeq(s, 1, k) /\ back = SubSeq(s, k + 1, l)
        /\ Len(front) = k /\ front \o back = s
  <2>1. SubSeq(s, 1, k) \in Seq(Nat) /\ Len(SubSeq(s, 1, k)) = k
    <3>1. 1 \in Nat \ {0} /\ 1 <= k + 1 /\ k \in Nat /\ (k + 1) - 1 = k
      BY <1>2
    <3> QED
      BY <1>2, <3>1, Slice
  <2>2. SubSeq(s, k + 1, l) \in Seq(Nat)
    <3>1. k + 1 \in Nat \ {0} /\ k + 1 <= l + 1
      BY <1>2
    <3> QED
      BY <1>2, <3>1, Slice
  <2>3. SubSeq(s, 1, k) \o SubSeq(s, k + 1, l) = s
    <3>1. 1 \in Nat \ {0} /\ 1 <= k + 1 /\ k \in Nat
      BY <1>2
    <3>2. SubSeq(s, 1, k) \o SubSeq(s, k + 1, l) = SubSeq(s, 1, l)
      BY <1>2, <3>1, Cut
    <3> QED
      BY <1>2, <3>2, SubSeqFull
  <2> QED
    BY <2>1, <2>2, <2>3
<1>7. PICK r2 \in Seq(Nat), c2 \in Seq(Nat) : r2 = received' /\ c2 = Contents'
  BY <1>4, <1>5
<1>8. r2 \o c2 = (r \o front) \o back
  <2>1. (r \o front) \o back = r \o (front \o back)
    <3>1. r \in Seq(Nat) /\ front \in Seq(Nat) /\ back \in Seq(Nat)
      BY <1>3, <1>6
    <3>2. \A t, u \in Seq(Nat) : (r \o t) \o u = r \o (t \o u)
      BY <3>1, Join3
    <3> QED
      BY <3>1, <3>2
  <2> QED
    BY <1>1, <1>3, <1>4, <1>6, <1>7, <2>1
<1>9. r2 = r \o front /\ c2 = back
  <2>1. r \o front \in Seq(Nat) /\ Len(r \o front) = Len(r) + Len(front)
    BY <1>3, <1>6, Join
  <2>2. Len(r2) = Len(r \o front)
    BY <1>3, <1>4, <1>6, <1>7, <2>1
  <2> QED
    BY <1>8, <2>1, <2>2, SplitAlike
<1>10. s # <<>>
  <2>1. l # 0
    BY <1>2
  <2> QED
    BY <1>2, <2>1, EmptySeq
<1> QED
  BY <1>1, <1>2, <1>3, <1>4, <1>6, <1>7, <1>9, <1>10 DEF Items

\* What the channel sees of a call.
LEMMA AskedIs ==
  ASSUME IInv
  PROVE  /\ \A t \in Producers \cup Consumers : Asked[t] = "none" <=> call[t] = "none"
         /\ \A p \in Producers : call[p] = "waitPush" => Asked[p] = "push"
         /\ \A c \in Consumers : call[c] \in {"waitPop", "waitPopUpToN"} => Asked[c] = "pop"
         /\ \A t \in Producers \cup Consumers :
              Returns(t) => Asked' = [Asked EXCEPT ![t] = "none"]
         /\ call' = call => Asked' = Asked
<1>1. /\ call \in [Producers \cup Consumers ->
                   {"none", "waitPush", "waitPop", "waitPopUpToN"}]
  BY DEF IInv, TypeOK
<1>2. ASSUME NEW t \in Producers \cup Consumers, Returns(t)
      PROVE  Asked' = [Asked EXCEPT ![t] = "none"]
  <2>1. \A u \in Producers \cup Consumers : call'[u] = IF u = t THEN "none" ELSE call[u]
    BY <1>1, <1>2 DEF Returns
  <2> QED
    BY <2>1 DEF Asked
<1> QED
  BY <1>1, <1>2 DEF Asked

\* Steps that keep the elements keep the items.
LEMMA ItemsKept ==
  ASSUME UNCHANGED <<closed, readOnly, elementVars>>
  PROVE  /\ Items' = Items /\ UNCHANGED <<closed, readOnly, pushed, received>>
BY DEF Items, Contents, elementVars

LEMMA StepRefines ==
  IInv /\ DemandInv /\ [Next]_vars => [Channel!Next]_Channel!channelVars
<1> SUFFICES ASSUME IInv, DemandInv, [Next]_vars
             PROVE  [Channel!Next]_Channel!channelVars
  OBVIOUS
<1>0. /\ TypeOK /\ Producers \cap Consumers = {}
      /\ call \in [Producers \cup Consumers ->
                   {"none", "waitPush", "waitPop", "waitPopUpToN"}]
      /\ n \in [Consumers -> 1..MaxPushes] /\ maxSize \in Nat
  BY QueueConstants DEF IInv, TypeOK
\* The channel is not asked for anything.
<1>1. ASSUME UNCHANGED <<closed, readOnly, elementVars, call, n>>
      PROVE  UNCHANGED Channel!channelVars
  BY <1>1, ItemsKept, AskedIs DEF Items, Asked, Channel!channelVars
\* Elements enter and leave it.
<1>2. ASSUME Push PROVE Channel!Accept /\ Len(Items) = sizeUnsynchronized
  <2>1. /\ Contents' = Append(Contents, pushed + 1) /\ Len(Contents) = sizeUnsynchronized
    BY <1>0, <1>2, PushAppends, ContentsType DEF Push
  <2>2. /\ ~closed /\ ~readOnly /\ pushed < MaxPushes /\ pushed' = pushed + 1
        /\ UNCHANGED <<closed, readOnly, n, received>>
    BY <1>2 DEF Push, pushUnsynchronized
  <2> QED
    BY <2>1, <2>2 DEF Items, Channel!Accept
<1>3. ASSUME ~closed, NEW k \in 1..sizeUnsynchronized, popUnsynchronized(k),
             UNCHANGED <<closed, readOnly, n>>,
             NEW m \in Nat, k = Smaller(sizeUnsynchronized, m)
      PROVE  Channel!Give(m)
  <2>1. /\ Items # <<>> /\ k <= Len(Items) /\ pushed' = pushed
        /\ received' = received \o SubSeq(Items, 1, k)
        /\ Items' = SubSeq(Items, k + 1, Len(Items))
    BY <1>0, <1>3, PopsGive
  <2>2. Len(Items) = sizeUnsynchronized /\ sizeUnsynchronized \in Nat
    BY <1>0, <1>3, ContentsType DEF Items
  <2>3. k = IF m < Len(Items) THEN m ELSE Len(Items)
    BY <1>3, <2>2 DEF Smaller
  <2> QED
    BY <1>3, <2>1, <2>3 DEF Items, Channel!Give
\* The producers.
<1>4. ASSUME NEW p \in Producers, CallWaitPush(p) PROVE Channel!Next
  <2>1. Asked[p] = "none" /\ Asked' = [Asked EXCEPT ![p] = "push"]
    <3>1. call[p] = "none" /\ call' = [call EXCEPT ![p] = "waitPush"]
      BY <1>4 DEF CallWaitPush
    <3>2. \A u \in Producers \cup Consumers : call'[u] = IF u = p THEN "waitPush" ELSE call[u]
      BY <1>0, <3>1
    <3>3. \A u \in Producers \cup Consumers :
            Asked'[u] = IF u = p THEN "push" ELSE Asked[u]
      BY <3>2 DEF Asked
    <3>4. Asked[p] = "none"
      BY <3>1 DEF Asked
    <3> QED
      BY <3>3, <3>4 DEF Asked
  <2>2. Items' = Items /\ UNCHANGED <<closed, readOnly, pushed, received, n>>
    BY <1>4, ItemsKept DEF CallWaitPush
  <2>3. Channel!Calls(p, "push")
    BY <2>1, <2>2 DEF Asked, Items, Channel!Calls
  <2> QED
    BY <2>2, <2>3 DEF Channel!Next
<1>5. ASSUME NEW p \in Producers, WaitPush(p) PROVE [Channel!Next]_Channel!channelVars
  <2>1. Asked[p] = "push" /\ (Returns(p) => Asked' = [Asked EXCEPT ![p] = "none"])
    BY <1>5, AskedIs DEF WaitPush
  <2>2. CASE UNCHANGED <<closed, readOnly, elementVars, notEmptyCondVar, call, n>>
    BY <1>1, <2>2
  <2>3. CASE /\ closed \/ readOnly
             /\ Returns(p)
             /\ UNCHANGED <<closed, readOnly, elementVars, notFullCondVar,
                            notEmptyCondVar, n>>
    <3>1. Items' = Items /\ UNCHANGED <<closed, readOnly, pushed, received, n>>
      BY <2>3, ItemsKept
    <3>2. Channel!PushReturns(p)
      BY <2>1, <2>3, <3>1 DEF Asked, Items, Channel!PushReturns, Channel!Returns,
                              Channel!NothingMoves
    <3> QED
      BY <3>2 DEF Channel!Next
  <2>4. CASE sizeUnsynchronized < maxSize /\ Push /\ Returns(p)
    <3>1. Channel!Accept /\ Len(Items) < maxSize
      BY <1>2, <2>4
    <3>2. Channel!PushReturns(p)
      BY <2>1, <2>4, <3>1 DEF Asked, Items, Channel!PushReturns, Channel!Returns
    <3> QED
      BY <3>2 DEF Channel!Next
  <2> QED
    BY <1>5, <2>2, <2>3, <2>4 DEF WaitPush
<1>6. ASSUME NEW p \in Producers, ForcePush(p) PROVE Channel!Next
  <2>1. Channel!Accept /\ Asked' = Asked
    BY <1>2, <1>6, AskedIs DEF ForcePush
  <2> QED
    BY <2>1 DEF Asked, Channel!Next
\* The consumers.
<1>7. ASSUME NEW c \in Consumers, NEW k \in 1..MaxPushes,
             NEW x \in {"waitPop", "waitPopUpToN"}, call[c] = "none",
             call' = [call EXCEPT ![c] = x], n' = [n EXCEPT ![c] = k],
             UNCHANGED <<closed, readOnly, elementVars>>
      PROVE  Channel!Next
  <2>1. Asked[c] = "none" /\ Asked' = [Asked EXCEPT ![c] = "pop"]
    <3>1. \A u \in Producers \cup Consumers : call'[u] = IF u = c THEN x ELSE call[u]
      BY <1>0, <1>7
    <3> QED
      BY <1>7, <3>1 DEF Asked
  <2>2. Items' = Items /\ UNCHANGED <<closed, readOnly, pushed, received>>
    BY <1>7, ItemsKept
  <2>3. Channel!Calls(c, "pop")
    BY <2>1, <2>2 DEF Asked, Items, Channel!Calls
  <2> QED
    BY <1>7, <2>3 DEF Channel!Next
<1>8. ASSUME NEW c \in Consumers, CallWaitPop(c) PROVE Channel!Next
  <2>1. 1 \in 1..MaxPushes
    BY QueueConstants
  <2> QED
    BY <1>7, <1>8, <2>1 DEF CallWaitPop
<1>9. ASSUME NEW c \in Consumers, NEW k \in Batches, CallWaitPopUpToN(c, k)
      PROVE  Channel!Next
  <2>1. k \in 1..MaxPushes
    BY QueueConstants
  <2> QED
    BY <1>7, <1>9, <2>1 DEF CallWaitPopUpToN
<1>10. ASSUME NEW c \in Consumers, NothingToPop(c), Asked[c] = "pop"
       PROVE  [Channel!Next]_Channel!channelVars
  <2>1. CASE UNCHANGED <<closed, readOnly, elementVars, notFullCondVar, call, n>>
    BY <1>1, <2>1
  <2>2. CASE /\ closed \/ (readOnly /\ sizeUnsynchronized <= 0)
             /\ Returns(c)
             /\ UNCHANGED <<closed, readOnly, elementVars, notFullCondVar,
                            notEmptyCondVar, n>>
    <3>1. Items' = Items /\ UNCHANGED <<closed, readOnly, pushed, received, n>>
      BY <2>2, ItemsKept
    <3>2. Asked' = [Asked EXCEPT ![c] = "none"]
      BY <2>2, AskedIs
    <3>3. closed \/ (readOnly /\ Items = <<>>)
      <4>1. ASSUME ~closed PROVE readOnly /\ Contents = <<>>
        <5>1. /\ Contents \in Seq(Nat) /\ Len(Contents) = sizeUnsynchronized
              /\ sizeUnsynchronized \in Nat /\ sizeUnsynchronized <= 0 /\ readOnly
          BY <1>0, <2>2, <4>1, ContentsType
        <5> QED
          BY <5>1, EmptySeq
      <4> QED
        BY <4>1 DEF Items
    <3>4. Channel!PopReturns(c)
      BY <1>10, <3>1, <3>2, <3>3
         DEF Asked, Items, Channel!PopReturns, Channel!Returns, Channel!NothingMoves
    <3> QED
      BY <3>4 DEF Channel!Next
  <2> QED
    BY <1>10, <2>1, <2>2 DEF NothingToPop
<1>11. ASSUME NEW c \in Consumers, WaitPop(c) PROVE [Channel!Next]_Channel!channelVars
  <2>1. Asked[c] = "pop" /\ (Returns(c) => Asked' = [Asked EXCEPT ![c] = "none"])
    BY <1>11, AskedIs DEF WaitPop
  <2>2. CASE NothingToPop(c)
    BY <1>10, <2>1, <2>2
  <2>3. CASE /\ ~closed /\ sizeUnsynchronized > 0
             /\ NotifyPopped /\ popUnsynchronized(1) /\ Returns(c)
             /\ UNCHANGED <<closed, readOnly, notEmptyCondVar, n>>
    <3>1. n[c] = 1
      BY <1>11 DEF DemandInv, WaitPop
    <3>2. 1 \in 1..sizeUnsynchronized /\ 1 = Smaller(sizeUnsynchronized, 1) /\ 1 \in Nat
      BY <1>0, <2>3, ContentsType DEF Smaller
    <3>3. Channel!Give(n[c])
      BY <1>3, <2>3, <3>1, <3>2
    <3>4. Channel!PopReturns(c)
      BY <2>1, <2>3, <3>3 DEF Asked, Channel!PopReturns, Channel!Returns
    <3> QED
      BY <3>4 DEF Channel!Next
  <2> QED
    BY <1>11, <2>2, <2>3 DEF WaitPop
<1>12. ASSUME NEW c \in Consumers, WaitPopUpToN(c) PROVE [Channel!Next]_Channel!channelVars
  <2>1. Asked[c] = "pop" /\ (Returns(c) => Asked' = [Asked EXCEPT ![c] = "none"])
    BY <1>12, AskedIs DEF WaitPopUpToN
  <2>2. CASE NothingToPop(c)
    BY <1>10, <2>1, <2>2
  <2>3. CASE /\ ~closed /\ sizeUnsynchronized > 0
             /\ popUnsynchronized(Smaller(sizeUnsynchronized, n[c]))
             /\ NotifyBatch(n[c]) /\ Returns(c)
             /\ UNCHANGED <<closed, readOnly, notEmptyCondVar, n>>
    <3>1. n[c] \in Nat /\ n[c] >= 1 /\ sizeUnsynchronized \in Nat
      BY <1>0, <2>3, ContentsType, QueueConstants
    <3>2. PICK k \in 1..sizeUnsynchronized : k = Smaller(sizeUnsynchronized, n[c])
      BY <2>3, <3>1 DEF Smaller
    <3>3. Channel!Give(n[c])
      BY <1>3, <2>3, <3>1, <3>2
    <3>4. Channel!PopReturns(c)
      BY <2>1, <2>3, <3>3 DEF Asked, Channel!PopReturns, Channel!Returns
    <3> QED
      BY <3>4 DEF Channel!Next
  <2> QED
    BY <1>12, <2>2, <2>3 DEF WaitPopUpToN
<1>13. ASSUME NEW c \in Consumers, TryPop(c) PROVE Channel!Next
  <2>1. 1 \in 1..sizeUnsynchronized /\ 1 = Smaller(sizeUnsynchronized, 1) /\ 1 \in Nat
    BY <1>0, <1>13, ContentsType DEF Smaller, TryPop
  <2>2. Channel!Give(1) /\ Asked' = Asked
    BY <1>3, <1>13, <2>1, AskedIs DEF TryPop
  <2> QED
    BY <2>2 DEF Asked, Channel!Next
\* The owner.
<1>14. ASSUME Close PROVE Channel!Next
  <2>1. closed' = TRUE /\ UNCHANGED <<readOnly, pushed, received, call, n>>
    BY <1>14 DEF Close
  <2>2. Channel!Close
    BY <2>1 DEF Channel!Close
  <2> QED
    BY <2>2 DEF Channel!Next
<1>15. ASSUME SetReadOnly \/ UnsetReadOnly PROVE Channel!Next
  <2>1. UNCHANGED <<closed, elementVars, call, n>> /\ \E x \in BOOLEAN : readOnly' = x
    BY <1>15 DEF SetReadOnly, UnsetReadOnly
  <2>2. Items' = Items /\ Asked' = Asked /\ UNCHANGED <<pushed, received>>
    BY <2>1, AskedIs DEF Items, Contents, elementVars
  <2>3. PICK x \in BOOLEAN : readOnly' = x
    BY <2>1
  <2>4. Channel!SetReadOnly(x)
    BY <2>1, <2>2, <2>3 DEF Items, Asked, Channel!SetReadOnly
  <2> QED
    BY <2>4 DEF Channel!Next
<1>16. ASSUME NEW t \in Producers \cup Consumers, SpuriousWakeup(t)
       PROVE  UNCHANGED Channel!channelVars
  BY <1>1, <1>16 DEF SpuriousWakeup
<1>17. CASE UNCHANGED vars
  BY <1>1, <1>17 DEF vars
<1> QED
  BY <1>4, <1>5, <1>6, <1>8, <1>9, <1>11, <1>12, <1>13, <1>14, <1>15, <1>16, <1>17
     DEF Next, ProducerStep, ConsumerStep

\* The steps of ImplementsChannel, its fairness aside.
ChannelSteps == Channel!Init /\ [][Channel!Next]_Channel!channelVars

\* With two vectors, one mutex, two condition variables and notifications at the
\* boundaries only, the queue takes the steps of a first-in first-out channel.
THEOREM Refinement == Spec => ChannelSteps
<1>1. Init => Channel!Init
  <2> SUFFICES ASSUME Init PROVE Channel!Init
    OBVIOUS
  <2>1. Items = <<>>
    <3>1. TypeOK /\ ~closed
      BY InitInv DEF IInv, Init
    <3>2. Len(Contents) = 0 /\ Contents \in Seq(Nat)
      BY <3>1, EmptySeq, ContentsType DEF Init, sizeUnsynchronized
    <3> QED
      BY <3>2, EmptySeq DEF Items
  <2>2. \A t \in Producers \cup Consumers : call[t] = "none"
    BY DEF Init
  <2>3. Asked = [t \in Producers \cup Consumers |-> "none"]
    BY <2>2 DEF Asked
  <2>4. n \in [Consumers -> {1}]
    BY DEF Init
  <2> QED
    BY <2>1, <2>3, <2>4 DEF Items, Asked, Init, Channel!Init
<1>2. Init => DemandInv
  BY DEF Init, DemandInv
<1>3. Spec => [](IInv /\ DemandInv)
  <2>1. IInv /\ DemandInv /\ [Next]_vars => (IInv /\ DemandInv)'
    BY StepInv, DemandKept
  <2> QED
    BY <1>2, <2>1, InitInv, PTL DEF Spec
<1> QED
  BY <1>1, <1>3, StepRefines, PTL DEF Spec, ChannelSteps
=============================================================================
