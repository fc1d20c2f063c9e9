--------------------------- MODULE WebPoolProofs ---------------------------
(***************************************************************************)
(* For any models, jobs, owners and quotas: the pool's quotas hold over    *)
(* all engines although a submission that has passed the check waits for   *)
(* its model; no job is lost with its engine; and there are never more     *)
(* engines than the bound, those that are still closing included.          *)
(***************************************************************************)
EXTENDS WebPool, FiniteSetTheorems, SequenceTheorems, TLAPS

(***************************************************************************)
(* The inductive invariant.                                                *)
(***************************************************************************)
Types ==
  /\ pc \in [Jobs -> {"waiting", "evicting", "loading", "writing", "done", "refused"}]
  /\ workers \subseteq FILENAMES /\ L9 \in workers
  /\ victim \in (FILENAMES \ workers) \cup {None}
  /\ engine \in [FILENAMES -> {"loading", "ready", "failed"}]
  /\ last_used \in [FILENAMES -> 0..Cardinality(FILENAMES)]
  /\ status \in [Jobs -> {"none", "running", "cancelled", "ended", "gone"}]
  /\ retired_jobs \in Seq(Jobs) /\ Len(retired_jobs) <= MaxRetired
  /\ jobs \in [FILENAMES -> Seq(Jobs)]

\* One submission has the lock; it has an engine to close, or one to wait for.
LockInv ==
  /\ \A i, j \in Jobs : pc[i] \in {"evicting", "loading", "writing"}
                        /\ pc[j] \in {"evicting", "loading", "writing"} => i = j
  /\ victim # None <=> \E j \in Jobs : pc[j] = "evicting"
  /\ \A j \in Jobs : pc[j] = "loading" => ModelOf[j] \in workers

\* Where a job is.  One not submitted yet is nowhere.
Once(s) == \A i, k \in DOMAIN s : s[i] = s[k] => i = k
PlaceInv ==
  /\ \A key \in FILENAMES : Once(jobs[key])
  /\ \A key \in FILENAMES : \A j \in Range(jobs[key]) :
       ModelOf[j] = key /\ j \notin Range(retired_jobs)
  /\ \A key \in FILENAMES \ (workers \cup {victim}) : jobs[key] = <<>>
  /\ \A j \in Jobs : pc[j] \in {"waiting", "evicting", "loading"} => status[j] = "none"
  /\ \A j \in Jobs : status[j] = "none" =>
       j \notin Range(retired_jobs) /\ j \notin Range(jobs[ModelOf[j]])
  /\ \A j \in Jobs : status[j] \notin {"none", "gone"} =>
       j \in Range(retired_jobs) \/ j \in Range(jobs[ModelOf[j]])
  /\ ActiveReachable

\* A submission that has passed the check has its job's place reserved.
ActiveJobs == {j \in Jobs : Active(j)}
OwnersActive(o) == {j \in ActiveJobs : OwnerOf[j] = o}
QuotaInv ==
  /\ IsFiniteSet(ActiveJobs) /\ Cardinality(ActiveJobs) <= max_jobs
  /\ \A j \in Jobs : Cardinality(OwnersActive(OwnerOf[j])) <= max_owner_jobs
  /\ \A j \in Jobs : pc[j] \in {"evicting", "loading"} =>
       /\ Cardinality(ActiveJobs) < max_jobs
       /\ Cardinality(OwnersActive(OwnerOf[j])) < max_owner_jobs

IInv == Types /\ LockInv /\ PlaceInv /\ QuotaInv /\ ResidentBound

(***************************************************************************)
(* Sequences of jobs.                                                      *)
(***************************************************************************)
LEMMA RangeIs ==
  ASSUME NEW s \in Seq(Jobs)
  PROVE  /\ Len(s) \in Nat /\ DOMAIN s = 1..Len(s)
         /\ Range(s) = {s[i] : i \in 1..Len(s)} /\ Range(s) \subseteq Jobs
BY DEF Range

LEMMA AppendJob ==
  ASSUME NEW s \in Seq(Jobs), NEW j \in Jobs
  PROVE  /\ Append(s, j) \in Seq(Jobs) /\ Range(Append(s, j)) = Range(s) \cup {j}
         /\ Once(s) /\ j \notin Range(s) => Once(Append(s, j))
<1>1. PICK n \in Nat, t \in Seq(Jobs) : n = Len(s) /\ t = Append(s, j)
  <2>1. Len(s) \in Nat /\ Append(s, j) \in Seq(Jobs)
    BY AppendProperties
  <2> QED
    BY <2>1
<1>2. Len(t) = n + 1 /\ t[n + 1] = j /\ \A i \in 1..n : t[i] = s[i]
  BY <1>1, AppendProperties
<1>3. DOMAIN t = 1..(n + 1) /\ DOMAIN s = 1..n
  BY <1>1, <1>2
<1>4. \A i \in 1..(n + 1) : i \in 1..n \/ i = n + 1
  BY <1>1
<1>5. \A i \in 1..n : i \in 1..(n + 1) /\ i # n + 1
  BY <1>1
<1>6. n + 1 \in 1..(n + 1)
  BY <1>1
<1>7. Range(t) = Range(s) \cup {j}
  BY <1>2, <1>3, <1>4, <1>5, <1>6 DEF Range
<1>8. Once(s) /\ j \notin Range(s) => Once(t)
  BY <1>2, <1>3, <1>4, <1>5, <1>6 DEF Range, Once
<1> QED
  BY <1>1, <1>7, <1>8

LEMMA WithoutJob ==
  ASSUME NEW s \in Seq(Jobs), NEW j \in Jobs, Once(s)
  PROVE  /\ Without(s, j) \in Seq(Jobs) /\ Once(Without(s, j))
         /\ Range(Without(s, j)) = Range(s) \ {j}
<1>1. CASE j \notin Range(s)
  BY <1>1 DEF Without
<1>2. CASE j \in Range(s)
  <2>1. PICK gone : gone = CHOOSE i \in DOMAIN s : s[i] = j
    OBVIOUS
  <2>2. PICK n \in Nat : n = Len(s) /\ DOMAIN s = 1..n
    BY RangeIs
  <2>3. gone \in 1..n /\ s[gone] = j
    BY <1>2, <2>1, <2>2 DEF Range
  <2>4. PICK before : before = SubSeq(s, 1, gone - 1)
    OBVIOUS
  <2>5. PICK after : after = SubSeq(s, gone + 1, n)
    OBVIOUS
  <2>6. PICK r : r = before \o after
    OBVIOUS
  <2>7. r = Without(s, j)
    <3>1. Without(s, j) = RemoveAt(s, gone)
      BY <1>2, <2>1 DEF Without
    <3> QED
      BY <2>2, <2>4, <2>5, <2>6, <3>1 DEF RemoveAt
  <2>8. /\ before \in Seq(Jobs) /\ Len(before) = gone - 1
        /\ \A i \in 1..(gone - 1) : before[i] = s[i]
    BY <2>2, <2>3, <2>4, SubSeqProperties
  <2>9. /\ after \in Seq(Jobs) /\ Len(after) = n - gone
        /\ \A i \in 1..(n - gone) : after[i] = s[gone + i]
    <3>1. /\ gone + 1 \in Int /\ n \in Int /\ \A i \in (gone + 1)..n : s[i] \in Jobs
          /\ (IF gone + 1 <= n THEN n - (gone + 1) + 1 ELSE 0) = n - (gone + 1) + 1
      BY <2>2, <2>3
    <3>2. /\ after \in Seq(Jobs) /\ Len(after) = n - (gone + 1) + 1
          /\ \A i \in 1..(n - (gone + 1) + 1) : after[i] = s[gone + 1 + i - 1]
      BY <2>2, <2>5, <3>1, SubSeqProperties
    <3>3. \A i \in 1..(n - gone) : gone + 1 + i - 1 = gone + i
      BY <2>3
    <3>4. n - (gone + 1) + 1 = n - gone
      BY <2>3
    <3>5. \A i \in 1..(n - gone) : after[i] = s[gone + i]
      <4> TAKE i \in 1..(n - gone)
      <4>1. PICK k : k = gone + 1 + i - 1
        OBVIOUS
      <4>2. after[i] = s[k]
        BY <3>2, <3>4, <4>1
      <4> QED
        BY <3>3, <4>1, <4>2
    <3>6. Len(after) = n - gone
      BY <3>2, <3>4, Zenon
    <3> QED
      BY <3>2, <3>5, <3>6
  <2>10. r \in Seq(Jobs) /\ Len(r) = n - 1
    <3>1. r \in Seq(Jobs) /\ Len(r) = Len(before) + Len(after)
      BY <2>6, <2>8, <2>9, ConcatProperties
    <3>2. Len(r) = (gone - 1) + (n - gone)
      BY <2>8, <2>9, <3>1
    <3> QED
      BY <2>3, <3>1, <3>2
  <2>11. \A i \in 1..(n - 1) : r[i] = IF i < gone THEN s[i] ELSE s[i + 1]
    <3> TAKE i \in 1..(n - 1)
    <3>1. CASE i < gone
      <4>1. r[i] = before[i]
        BY <3>1, <2>3, <2>6, <2>8, <2>9, ConcatProperties
      <4> QED
        BY <3>1, <4>1, <2>3, <2>8
    <3>2. CASE ~(i < gone)
      <4>1. r[i] = after[i - (gone - 1)]
        BY <3>2, <2>3, <2>6, <2>8, <2>9, ConcatProperties, SMTT(30)
      <4>2. i - (gone - 1) \in 1..(n - gone) /\ gone + (i - (gone - 1)) = i + 1
        BY <3>2, <2>3
      <4> QED
        BY <3>2, <4>1, <4>2, <2>9
    <3> QED
      BY <3>1, <3>2
  <2> DEFINE place == [i \in 1..(n - 1) |-> IF i < gone THEN i ELSE i + 1]
             back == [i \in 1..n |-> IF i < gone THEN i ELSE i - 1]
  <2>12. \A i \in 1..(n - 1) : place[i] \in 1..n /\ r[i] = s[place[i]] /\ place[i] # gone
    BY <2>3, <2>11
  <2>13. \A i, k \in 1..(n - 1) : place[i] = place[k] => i = k
    BY <2>3
  <2>14. \A i \in 1..n : i # gone => back[i] \in 1..(n - 1) /\ place[back[i]] = i
    BY <2>3
  <2> HIDE DEF place, back
  <2>15. DOMAIN r = 1..(n - 1)
    BY <2>10
  <2>16. \A i \in 1..n : s[i] = j => i = gone
    BY <2>2, <2>3 DEF Once
  <2>17. \A i \in 1..(n - 1) : r[i] \in Range(s) /\ r[i] # j
    BY <2>2, <2>12, <2>16 DEF Range
  <2>18. ASSUME NEW x \in Range(s), x # j PROVE x \in Range(r)
    <3>1. PICK i \in 1..n : x = s[i]
      BY <2>2 DEF Range
    <3>2. i # gone
      BY <2>3, <2>18, <3>1
    <3>3. back[i] \in 1..(n - 1) /\ r[back[i]] = x
      BY <2>12, <2>14, <3>1, <3>2
    <3> QED
      BY <2>15, <3>3 DEF Range
  <2>19. Range(r) = Range(s) \ {j}
    BY <2>15, <2>17, <2>18 DEF Range
  <2>20. Once(r)
    BY <2>2, <2>12, <2>13, <2>15, SMTT(30) DEF Once
  <2> QED
    BY <2>7, <2>10, <2>19, <2>20
<1> QED
  BY <1>1, <1>2

\* The newest of a sequence of jobs are some of them, and not too many.
LEMMA NewestIs ==
  ASSUME NEW s \in Seq(Jobs)
  PROVE  /\ Newest(s) \in Seq(Jobs) /\ Len(Newest(s)) <= MaxRetired
         /\ Range(Newest(s)) \subseteq Range(s)
<1>1. PICK n \in Nat : n = Len(s) /\ DOMAIN s = 1..n
  BY RangeIs
<1>2. PICK m \in Nat : m = MaxRetired
  BY PoolConstants
<1>3. CASE n <= m
  BY <1>1, <1>2, <1>3 DEF Newest
<1>4. CASE ~(n <= m)
  <2>1. PICK r : r = SubSeq(s, n - m + 1, n)
    OBVIOUS
  <2>2. r = Newest(s)
    BY <1>1, <1>2, <1>4, <2>1 DEF Newest
  <2>3. n - m + 1 \in 1..(n + 1)
    BY <1>1, <1>2, <1>4
  <2>4. /\ r \in Seq(Jobs) /\ Len(r) = m
        /\ \A i \in 1..m : r[i] = s[n - m + i]
    BY <1>1, <1>2, <1>4, <2>1, <2>3, SubSeqProperties
  <2>5. DOMAIN r = 1..m
    BY <1>2, <2>4
  <2>6. \A i \in 1..m : n - m + i \in 1..n
    BY <1>1, <1>2, <1>4
  <2>7. Range(r) \subseteq Range(s)
    <3>1. \A i \in 1..m : \E k \in 1..n : r[i] = s[k]
      BY <2>4, <2>6
    <3> QED
      BY <1>1, <2>5, <3>1 DEF Range
  <2> QED
    BY <1>2, <2>2, <2>4, <2>7
<1> QED
  BY <1>3, <1>4

LEMMA JoinedIs ==
  ASSUME NEW s \in Seq(Jobs), NEW t \in Seq(Jobs)
  PROVE  s \o t \in Seq(Jobs) /\ Range(s \o t) = Range(s) \cup Range(t)
BY ConcatProperties, RangeConcatenation

(***************************************************************************)
(* Counting.                                                               *)
(***************************************************************************)
LEMMA Few ==
  ASSUME IsFiniteSet(ActiveJobs)
  PROVE  /\ Cardinality(ActiveJobs) \in Nat
         /\ \A o : IsFiniteSet(OwnersActive(o)) /\ Cardinality(OwnersActive(o)) \in Nat
BY FS_Subset, FS_CardinalityType DEF OwnersActive

\* No job becomes active, and nobody passes the check.
LEMMA QuotaStays ==
  ASSUME QuotaInv, ActiveJobs' \subseteq ActiveJobs,
         \A j \in Jobs : pc'[j] \in {"evicting", "loading"} => pc[j] \in {"evicting", "loading"}
  PROVE  QuotaInv'
<1>1. PICK A, B : A = ActiveJobs /\ B = ActiveJobs'
  OBVIOUS
<1>2. IsFiniteSet(A) /\ B \subseteq A
  BY <1>1 DEF QuotaInv
<1>3. IsFiniteSet(B) /\ Cardinality(B) <= Cardinality(A)
      /\ Cardinality(A) \in Nat /\ Cardinality(B) \in Nat
  BY <1>2, FS_Subset, FS_CardinalityType
<1>4. ASSUME NEW o
      PROVE  /\ Cardinality(OwnersActive(o)') <= Cardinality(OwnersActive(o))
             /\ Cardinality(OwnersActive(o)') \in Nat /\ Cardinality(OwnersActive(o)) \in Nat
  <2>1. PICK C, D : C = OwnersActive(o) /\ D = OwnersActive(o)'
    OBVIOUS
  <2>2. C = {j \in A : OwnerOf[j] = o} /\ D = {j \in B : OwnerOf[j] = o}
    BY <1>1, <2>1 DEF OwnersActive
  <2>3. C \subseteq A /\ D \subseteq C
    BY <1>2, <2>2
  <2>4. IsFiniteSet(C)
    BY <1>2, <2>3, FS_Subset
  <2> QED
    BY <2>1, <2>3, <2>4, FS_Subset, FS_CardinalityType
<1>5. max_jobs \in Nat /\ max_owner_jobs \in Nat
  BY PoolConstants
<1> QED
  BY <1>1, <1>3, <1>4, <1>5 DEF QuotaInv

\* The check sees every active job.
LEMMA QuotaChecked ==
  ASSUME IInv, NEW j \in Jobs, WithinQuota(j)
  PROVE  /\ Cardinality(ActiveJobs) < max_jobs
         /\ Cardinality(OwnersActive(OwnerOf[j])) < max_owner_jobs
<1>1. PICK A : A = {i \in PoolJobs : Active(i)}
  OBVIOUS
<1>2. PoolJobs \subseteq Jobs
  <2>1. \A key \in FILENAMES : jobs[key] \in Seq(Jobs)
    BY DEF IInv, Types
  <2>2. \A key \in workers : Range(jobs[key]) \subseteq Jobs
    BY <2>1, RangeIs DEF IInv, Types
  <2>3. Range(retired_jobs) \subseteq Jobs
    BY RangeIs DEF IInv, Types
  <2> QED
    BY <2>2, <2>3 DEF PoolJobs
<1>3. \A i \in Jobs : Active(i) => i \in PoolJobs
  BY DEF IInv, PlaceInv, ActiveReachable, OnWorker, PoolJobs
<1>4. A = ActiveJobs
  BY <1>1, <1>2, <1>3 DEF ActiveJobs
<1>5. /\ Cardinality(A) < max_jobs
      /\ Cardinality({i \in A : OwnerOf[i] = OwnerOf[j]}) < max_owner_jobs
  BY <1>1 DEF WithinQuota
<1> QED
  BY <1>4, <1>5 DEF OwnersActive

(***************************************************************************)
(* The steps.                                                              *)
(***************************************************************************)
\* A submission ends, an engine comes or goes, a job is cancelled or ends.
LEMMA NothingMoves ==
  ASSUME IInv, UNCHANGED <<poolVars, jobs>>,
         pc' \in [Jobs -> {"waiting", "evicting", "loading", "writing", "done", "refused"}],
         \A j \in Jobs : \/ pc'[j] = pc[j]
                         \/ pc[j] # "evicting" /\ pc'[j] \in {"done", "refused"},
         engine' \in [FILENAMES -> {"loading", "ready", "failed"}],
         status' \in [Jobs -> {"none", "running", "cancelled", "ended", "gone"}],
         \A j \in Jobs : \/ status'[j] = status[j]
                         \/ Active(j) /\ status'[j] \in {"cancelled", "ended"}
  PROVE  IInv'
<1>1. /\ workers' = workers /\ victim' = victim /\ last_used' = last_used
      /\ retired_jobs' = retired_jobs /\ jobs' = jobs
  BY DEF poolVars
<1>2. Types'
  BY <1>1 DEF IInv, Types
<1>3. LockInv'
  BY <1>1 DEF IInv, LockInv
<1>4. \A j \in Jobs : Active(j)' => Active(j)
  BY DEF Active
<1>5. \A j \in Jobs : Active(j) => status[j] \notin {"none", "gone"}
  BY DEF Active
<1>6. PlaceInv'
  <2>1. /\ \A key \in FILENAMES : Once(jobs[key])'
        /\ \A key \in FILENAMES : \A j \in Range(jobs'[key]) :
             ModelOf[j] = key /\ j \notin Range(retired_jobs')
        /\ \A key \in FILENAMES \ (workers' \cup {victim'}) : jobs'[key] = <<>>
    BY <1>1 DEF IInv, PlaceInv
  <2>2. \A j \in Jobs : pc'[j] \in {"waiting", "evicting", "loading"} => status'[j] = "none"
    BY <1>5 DEF IInv, PlaceInv
  <2>3. /\ \A j \in Jobs : status'[j] = "none" =>
             j \notin Range(retired_jobs') /\ j \notin Range(jobs'[ModelOf[j]])
        /\ \A j \in Jobs : status'[j] \notin {"none", "gone"} =>
             j \in Range(retired_jobs') \/ j \in Range(jobs'[ModelOf[j]])
    BY <1>1, <1>5 DEF IInv, PlaceInv
  <2>4. ActiveReachable'
    BY <1>1, <1>4 DEF IInv, PlaceInv, ActiveReachable, OnWorker
  <2> QED
    BY <2>1, <2>2, <2>3, <2>4 DEF PlaceInv
<1>7. QuotaInv'
  <2>1. ActiveJobs' \subseteq ActiveJobs
    BY <1>4 DEF ActiveJobs
  <2>2. \A j \in Jobs : pc'[j] \in {"evicting", "loading"} => pc[j] \in {"evicting", "loading"}
    OBVIOUS
  <2> QED
    BY <2>1, <2>2, QuotaStays DEF IInv
<1>8. ResidentBound'
  BY <1>1 DEF IInv, ResidentBound
<1> QED
  BY <1>2, <1>3, <1>6, <1>7, <1>8 DEF IInv

LEMMA SubmissionEnds ==
  ASSUME IInv, NEW j \in Jobs, Refuse(j) \/ LoadFails(j) \/ Written(j)
  PROVE  IInv'
<1>1. /\ UNCHANGED <<poolVars, jobs>> /\ engine' = engine /\ status' = status
      /\ pc[j] # "evicting" /\ \E x \in {"done", "refused"} : pc' = [pc EXCEPT ![j] = x]
  BY DEF Refuse, LoadFails, Written
<1>2. /\ pc \in [Jobs -> {"waiting", "evicting", "loading", "writing", "done", "refused"}]
      /\ engine \in [FILENAMES -> {"loading", "ready", "failed"}]
      /\ status \in [Jobs -> {"none", "running", "cancelled", "ended", "gone"}]
  BY DEF IInv, Types
<1>3. PICK x \in {"done", "refused"} : pc' = [pc EXCEPT ![j] = x]
  BY <1>1
<1>4. pc' \in [Jobs -> {"waiting", "evicting", "loading", "writing", "done", "refused"}]
      /\ \A i \in Jobs : pc'[i] = IF i = j THEN x ELSE pc[i]
  BY <1>2, <1>3
<1> QED
  BY <1>1, <1>2, <1>4, NothingMoves

LEMMA JobMoves ==
  ASSUME IInv, NEW j \in Jobs, Cancel(j) \/ JobEnds(j)
  PROVE  IInv'
<1>1. /\ UNCHANGED <<poolVars, jobs>> /\ engine' = engine /\ pc' = pc /\ Active(j)
      /\ \E x \in {"cancelled", "ended"} : status' = [status EXCEPT ![j] = x]
  BY DEF Cancel, JobEnds, Active
<1>2. /\ pc \in [Jobs -> {"waiting", "evicting", "loading", "writing", "done", "refused"}]
      /\ engine \in [FILENAMES -> {"loading", "ready", "failed"}]
      /\ status \in [Jobs -> {"none", "running", "cancelled", "ended", "gone"}]
  BY DEF IInv, Types
<1>3. PICK x \in {"cancelled", "ended"} : status' = [status EXCEPT ![j] = x]
  BY <1>1
<1>4. status' \in [Jobs -> {"none", "running", "cancelled", "ended", "gone"}]
      /\ \A i \in Jobs : status'[i] = IF i = j THEN x ELSE status[i]
  BY <1>2, <1>3
<1> QED
  BY <1>1, <1>2, <1>4, NothingMoves

LEMMA EngineMoves ==
  ASSUME IInv, NEW key \in FILENAMES, EngineReady(key) \/ EngineFails(key)
  PROVE  IInv'
<1>1. /\ UNCHANGED <<poolVars, jobs>> /\ pc' = pc
      /\ \E x \in {"ready", "failed"} : engine' = [engine EXCEPT ![key] = x]
      /\ \/ status' = status
         \/ status' = [j \in Jobs |-> IF Active(j) /\ j \in Range(jobs[key]) THEN "ended"
                                      ELSE status[j]]
  BY DEF EngineReady, EngineFails
<1>2. /\ pc \in [Jobs -> {"waiting", "evicting", "loading", "writing", "done", "refused"}]
      /\ engine \in [FILENAMES -> {"loading", "ready", "failed"}]
      /\ status \in [Jobs -> {"none", "running", "cancelled", "ended", "gone"}]
  BY DEF IInv, Types
<1>3. engine' \in [FILENAMES -> {"loading", "ready", "failed"}]
  BY <1>1, <1>2
<1>4. status' \in [Jobs -> {"none", "running", "cancelled", "ended", "gone"}]
      /\ \A j \in Jobs : \/ status'[j] = status[j]
                         \/ Active(j) /\ status'[j] \in {"cancelled", "ended"}
  BY <1>1, <1>2
<1> QED
  BY <1>1, <1>2, <1>3, <1>4, NothingMoves

\* A job leaves its engine, or has left it before.
LEMMA JobLeaves ==
  ASSUME IInv, NEW j \in Jobs, WriteFails(j) \/ Reap(j)
  PROVE  IInv'
<1>1. /\ UNCHANGED <<poolVars, engine>> /\ LeaveWorker(j)
      /\ \/ pc' = pc /\ status[j] = "ended"
         \/ pc' = [pc EXCEPT ![j] = "refused"] /\ pc[j] = "writing"
  BY DEF WriteFails, Reap
<1>2. /\ workers' = workers /\ victim' = victim /\ last_used' = last_used
      /\ retired_jobs' = retired_jobs /\ engine' = engine
  BY <1>1 DEF poolVars
<1>3. PICK m \in FILENAMES : m = ModelOf[j]
  BY PoolConstants
<1>4. /\ pc \in [Jobs -> {"waiting", "evicting", "loading", "writing", "done", "refused"}]
      /\ status \in [Jobs -> {"none", "running", "cancelled", "ended", "gone"}]
      /\ jobs \in [FILENAMES -> Seq(Jobs)]
  BY DEF IInv, Types
<1>5. PICK s : s = Without(jobs[m], j)
  OBVIOUS
<1>6. s \in Seq(Jobs) /\ Once(s) /\ Range(s) = Range(jobs[m]) \ {j}
  <2>1. jobs[m] \in Seq(Jobs) /\ Once(jobs[m])
    BY <1>4 DEF IInv, PlaceInv
  <2> QED
    BY <1>5, <2>1, WithoutJob
<1>7. /\ jobs' = [jobs EXCEPT ![m] = s] /\ status' = [status EXCEPT ![j] = "gone"]
  BY <1>1, <1>3, <1>5 DEF LeaveWorker
<1>8. /\ jobs' \in [FILENAMES -> Seq(Jobs)]
      /\ \A key \in FILENAMES : jobs'[key] = IF key = m THEN s ELSE jobs[key]
      /\ status' \in [Jobs -> {"none", "running", "cancelled", "ended", "gone"}]
      /\ \A i \in Jobs : status'[i] = IF i = j THEN "gone" ELSE status[i]
  BY <1>4, <1>6, <1>7
<1>9. /\ pc' \in [Jobs -> {"waiting", "evicting", "loading", "writing", "done", "refused"}]
      /\ \A i \in Jobs : pc'[i] = pc[i] \/ (i = j /\ pc[i] = "writing" /\ pc'[i] = "refused")
      /\ pc'[j] \notin {"waiting", "evicting", "loading"}
  <2>1. status[j] = "ended" => pc[j] \notin {"waiting", "evicting", "loading"}
    BY DEF IInv, PlaceInv
  <2> QED
    BY <1>1, <1>4, <2>1
<1>10. Types'
  BY <1>2, <1>8, <1>9 DEF IInv, Types
<1>11. LockInv'
  BY <1>2, <1>9 DEF IInv, LockInv
<1>12. \A key \in FILENAMES : Range(jobs'[key]) = Range(jobs[key]) \ {j}
  <2>1. ASSUME NEW key \in FILENAMES, key # m PROVE j \notin Range(jobs[key])
    BY <1>3, <2>1 DEF IInv, PlaceInv
  <2> QED
    BY <1>6, <1>8, <2>1
<1>13. PlaceInv'
  <2>1. /\ \A key \in FILENAMES : Once(jobs'[key])
        /\ \A key \in FILENAMES : \A i \in Range(jobs'[key]) :
             ModelOf[i] = key /\ i \notin Range(retired_jobs')
    BY <1>2, <1>6, <1>8, <1>12 DEF IInv, PlaceInv
  <2>2. \A key \in FILENAMES \ (workers' \cup {victim'}) : jobs'[key] = <<>>
    <3>1. ASSUME m \notin workers \cup {victim} PROVE s = <<>>
      <4>1. jobs[m] = <<>>
        BY <3>1 DEF IInv, PlaceInv
      <4>2. Range(jobs[m]) = {}
        BY <4>1 DEF Range
      <4> QED
        BY <1>5, <4>1, <4>2 DEF Without
    <3> QED
      BY <1>2, <1>8, <3>1 DEF IInv, PlaceInv
  <2>3. \A i \in Jobs : pc'[i] \in {"waiting", "evicting", "loading"} => status'[i] = "none"
    BY <1>8, <1>9 DEF IInv, PlaceInv
  <2>4. ASSUME NEW i \in Jobs
        PROVE  /\ status'[i] = "none" =>
                    i \notin Range(retired_jobs') /\ i \notin Range(jobs'[ModelOf[i]])
               /\ status'[i] \notin {"none", "gone"} =>
                    i \in Range(retired_jobs') \/ i \in Range(jobs'[ModelOf[i]])
    <3>1. ModelOf[i] \in FILENAMES
      BY PoolConstants
    <3> QED
      BY <1>2, <1>8, <1>12, <3>1 DEF IInv, PlaceInv
  <2>5. ASSUME NEW i \in Jobs, Active(i)' PROVE OnWorker(i)'
    <3>1. i # j /\ Active(i) /\ ModelOf[i] \in FILENAMES
      BY <1>8, <2>5, PoolConstants DEF Active
    <3>2. ModelOf[i] \in workers' /\ i \in Range(jobs'[ModelOf[i]])
      BY <1>2, <1>12, <3>1 DEF IInv, PlaceInv, ActiveReachable, OnWorker
    <3> QED
      BY <3>2 DEF OnWorker
  <2> QED
    BY <2>1, <2>2, <2>3, <2>4, <2>5 DEF PlaceInv, ActiveReachable
<1>14. QuotaInv'
  <2>1. ActiveJobs' \subseteq ActiveJobs
    BY <1>8 DEF ActiveJobs, Active
  <2> QED
    BY <1>9, <2>1, QuotaStays DEF IInv
<1>15. ResidentBound'
  BY <1>2 DEF IInv, ResidentBound
<1> QED
  BY <1>10, <1>11, <1>13, <1>14, <1>15 DEF IInv

\* One more engine.
LEMMA OneMore ==
  ASSUME IInv, NEW key \in FILENAMES
  PROVE  /\ IsFiniteSet(workers) /\ Cardinality(workers) \in Nat
         /\ Cardinality(workers \cup {key}) \in Nat
         /\ Cardinality(workers \cup {key}) <= Cardinality(workers) + 1
         /\ key \in workers => Cardinality(workers \cup {key}) = Cardinality(workers)
<1>1. IsFiniteSet(workers)
  BY PoolConstants, FS_Subset DEF IInv, Types
<1>2. Cardinality(workers) \in Nat
  BY <1>1, FS_CardinalityType
<1>3. CASE key \in workers
  <2>1. workers \cup {key} = workers
    BY <1>3
  <2>2. Cardinality(workers) <= Cardinality(workers) + 1
    BY <1>2
  <2> QED
    BY <1>1, <1>2, <2>1, <2>2, Zenon
<1>4. CASE key \notin workers
  <2>1. PICK n \in Nat : n = Cardinality(workers)
    BY <1>2
  <2>2. Cardinality(workers \cup {key}) = n + 1
    BY <1>1, <1>4, <2>1, FS_AddElement
  <2>3. Cardinality(workers \cup {key}) \in Nat
    BY <2>2
  <2>4. Cardinality(workers \cup {key}) <= Cardinality(workers) + 1
    BY <2>1, <2>2
  <2> QED
    BY <1>1, <1>2, <1>4, <2>3, <2>4, Zenon
<1> QED
  BY <1>3, <1>4

\* A submission gets the lock, passes the check and starts an engine or finds it.
LEMMA EnterStep ==
  ASSUME IInv, NEW j \in Jobs, Enter(j)
  PROVE  IInv'
<1>1. PICK m \in FILENAMES : m = ModelOf[j]
  BY PoolConstants
<1>2. /\ pc[j] = "waiting" /\ LockFree /\ WithinQuota(j)
      /\ m \in workers \/ Cardinality(workers) < MaxWorkers
      /\ pc' = [pc EXCEPT ![j] = "loading"]
      /\ workers' = workers \cup {m}
      /\ engine' = [engine EXCEPT ![m] = IF m \in workers THEN @ ELSE "loading"]
      /\ victim' = victim /\ last_used' = last_used /\ retired_jobs' = retired_jobs
      /\ jobs' = jobs /\ status' = status
  BY <1>1 DEF Enter, StartWorker
<1>3. /\ pc \in [Jobs -> {"waiting", "evicting", "loading", "writing", "done", "refused"}]
      /\ engine \in [FILENAMES -> {"loading", "ready", "failed"}]
      /\ workers \subseteq FILENAMES /\ L9 \in workers
  BY DEF IInv, Types
<1>4. /\ pc' \in [Jobs -> {"waiting", "evicting", "loading", "writing", "done", "refused"}]
      /\ \A i \in Jobs : pc'[i] = IF i = j THEN "loading" ELSE pc[i]
      /\ engine' \in [FILENAMES -> {"loading", "ready", "failed"}]
  BY <1>2, <1>3
<1>5. \A i \in Jobs : pc[i] \notin {"evicting", "loading", "writing"}
  BY <1>2 DEF LockFree
<1>6. victim = None
  BY <1>5 DEF IInv, LockInv
<1>7. Types'
  BY <1>2, <1>3, <1>4, <1>6 DEF IInv, Types
<1>8. LockInv'
  BY <1>1, <1>2, <1>4, <1>5, <1>6 DEF IInv, LockInv
<1>9. PlaceInv'
  <2>1. /\ \A key \in FILENAMES : Once(jobs'[key])
        /\ \A key \in FILENAMES : \A i \in Range(jobs'[key]) :
             ModelOf[i] = key /\ i \notin Range(retired_jobs')
        /\ \A key \in FILENAMES \ (workers' \cup {victim'}) : jobs'[key] = <<>>
    BY <1>2 DEF IInv, PlaceInv
  <2>2. \A i \in Jobs : pc'[i] \in {"waiting", "evicting", "loading"} => status'[i] = "none"
    BY <1>2, <1>4 DEF IInv, PlaceInv
  <2>3. /\ \A i \in Jobs : status'[i] = "none" =>
             i \notin Range(retired_jobs') /\ i \notin Range(jobs'[ModelOf[i]])
        /\ \A i \in Jobs : status'[i] \notin {"none", "gone"} =>
             i \in Range(retired_jobs') \/ i \in Range(jobs'[ModelOf[i]])
    BY <1>2 DEF IInv, PlaceInv
  <2>4. ActiveReachable'
    BY <1>2 DEF IInv, PlaceInv, ActiveReachable, OnWorker, Active
  <2> QED
    BY <2>1, <2>2, <2>3, <2>4 DEF PlaceInv
<1>10. QuotaInv'
  <2>1. ActiveJobs' = ActiveJobs /\ \A o : OwnersActive(o)' = OwnersActive(o)
    BY <1>2 DEF ActiveJobs, OwnersActive, Active
  <2>2. \A i \in Jobs : pc'[i] \in {"evicting", "loading"} => i = j
    BY <1>4, <1>5
  <2> QED
    BY <1>2, <2>1, <2>2, QuotaChecked DEF IInv, QuotaInv
<1>11. ResidentBound'
  <2>1. PICK n \in Nat, k \in Nat : n = Cardinality(workers) /\ k = Cardinality(workers \cup {m})
    BY OneMore
  <2>2. k <= n + 1 /\ (m \in workers => k = n)
    BY <2>1, OneMore
  <2>3. n + 0 <= MaxWorkers /\ MaxWorkers \in Nat
    BY <1>6, <2>1, PoolConstants DEF IInv, ResidentBound
  <2>4. m \in workers \/ n < MaxWorkers
    BY <1>2, <2>1
  <2>5. k + 0 <= MaxWorkers
    BY <2>2, <2>3, <2>4
  <2>6. Cardinality(workers') = k /\ victim' = None
    BY <1>2, <1>6, <2>1
  <2> QED
    BY <2>5, <2>6 DEF ResidentBound
<1> QED
  BY <1>7, <1>8, <1>9, <1>10, <1>11 DEF IInv

\* ... or has an idle engine closed first.
LEMMA EvictStep ==
  ASSUME IInv, NEW j \in Jobs, Evict(j)
  PROVE  IInv'
<1>1. /\ pc[j] = "waiting" /\ LockFree /\ WithinQuota(j)
      /\ pc' = [pc EXCEPT ![j] = "evicting"]
      /\ last_used' = last_used /\ retired_jobs' = retired_jobs /\ engine' = engine
      /\ jobs' = jobs /\ status' = status
  BY DEF Evict
<1>2. PICK key \in Idle : workers' = workers \ {key} /\ victim' = key
  BY DEF Evict
<1>3. key \in workers /\ key # L9 /\ \A i \in Range(jobs[key]) : ~Active(i)
  BY <1>2 DEF Idle
<1>4. /\ pc \in [Jobs -> {"waiting", "evicting", "loading", "writing", "done", "refused"}]
      /\ workers \subseteq FILENAMES /\ L9 \in workers
  BY DEF IInv, Types
<1>5. key \in FILENAMES /\ key # None
  BY <1>3, <1>4, PoolConstants
<1>6. /\ pc' \in [Jobs -> {"waiting", "evicting", "loading", "writing", "done", "refused"}]
      /\ \A i \in Jobs : pc'[i] = IF i = j THEN "evicting" ELSE pc[i]
  BY <1>1, <1>4
<1>7. \A i \in Jobs : pc[i] \notin {"evicting", "loading", "writing"}
  BY <1>1 DEF LockFree
<1>8. victim = None
  BY <1>7 DEF IInv, LockInv
<1>9. Types'
  BY <1>1, <1>2, <1>3, <1>4, <1>5, <1>6 DEF IInv, Types
<1>10. LockInv'
  <2>1. \A i \in Jobs : pc'[i] \in {"evicting", "loading", "writing"} => i = j
    BY <1>6, <1>7
  <2>2. pc'[j] = "evicting"
    BY <1>6
  <2>3. victim' # None
    BY <1>2, <1>5
  <2> QED
    BY <2>1, <2>2, <2>3 DEF LockInv
<1>11. PlaceInv'
  <2>1. /\ \A k \in FILENAMES : Once(jobs'[k])
        /\ \A k \in FILENAMES : \A i \in Range(jobs'[k]) :
             ModelOf[i] = k /\ i \notin Range(retired_jobs')
        /\ \A k \in FILENAMES \ (workers' \cup {victim'}) : jobs'[k] = <<>>
    BY <1>1, <1>2, <1>8 , PoolConstants DEF IInv, PlaceInv
  <2>2. \A i \in Jobs : pc'[i] \in {"waiting", "evicting", "loading"} => status'[i] = "none"
    BY <1>1, <1>6 DEF IInv, PlaceInv
  <2>3. /\ \A i \in Jobs : status'[i] = "none" =>
             i \notin Range(retired_jobs') /\ i \notin Range(jobs'[ModelOf[i]])
        /\ \A i \in Jobs : status'[i] \notin {"none", "gone"} =>
             i \in Range(retired_jobs') \/ i \in Range(jobs'[ModelOf[i]])
    BY <1>1 DEF IInv, PlaceInv
  <2>4. ASSUME NEW i \in Jobs, Active(i)' PROVE OnWorker(i)'
    <3>1. Active(i)
      BY <1>1, <2>4 DEF Active
    <3>2. ModelOf[i] \in workers /\ i \in Range(jobs[ModelOf[i]])
      BY <3>1 DEF IInv, PlaceInv, ActiveReachable, OnWorker
    <3>3. ModelOf[i] # key
      BY <1>3, <3>1, <3>2
    <3> QED
      BY <1>1, <1>2, <3>2, <3>3 DEF OnWorker
  <2> QED
    BY <2>1, <2>2, <2>3, <2>4 DEF PlaceInv, ActiveReachable
<1>12. QuotaInv'
  <2>1. ActiveJobs' = ActiveJobs /\ \A o : OwnersActive(o)' = OwnersActive(o)
    BY <1>1 DEF ActiveJobs, OwnersActive, Active
  <2>2. \A i \in Jobs : pc'[i] \in {"evicting", "loading"} => i = j
    BY <1>6, <1>7
  <2> QED
    BY <1>1, <2>1, <2>2, QuotaChecked DEF IInv, QuotaInv
<1>13. ResidentBound'
  <2>1. PICK n \in Nat : n = Cardinality(workers)
    BY OneMore, <1>5
  <2>2. n + 0 <= MaxWorkers /\ MaxWorkers \in Nat
    BY <1>8, <2>1, PoolConstants DEF IInv, ResidentBound
  <2>3. IsFiniteSet(workers)
    BY OneMore, <1>5
  <2>4. Cardinality(workers') = n - 1
    BY <1>2, <1>3, <2>1, <2>3, FS_RemoveElement
  <2>5. n - 1 + 1 <= MaxWorkers
    BY <2>1, <2>2
  <2> QED
    BY <1>2, <1>5, <2>4, <2>5 DEF ResidentBound
<1> QED
  BY <1>9, <1>10, <1>11, <1>12, <1>13 DEF IInv

\* The engine is closed: its jobs retire, and the submission's engine starts.
LEMMA EvictedStep ==
  ASSUME IInv, NEW j \in Jobs, Evicted(j)
  PROVE  IInv'
<1>1. PICK m \in FILENAMES : m = ModelOf[j]
  BY PoolConstants
<1>2. /\ pc \in [Jobs -> {"waiting", "evicting", "loading", "writing", "done", "refused"}]
      /\ engine \in [FILENAMES -> {"loading", "ready", "failed"}]
      /\ workers \subseteq FILENAMES /\ L9 \in workers
      /\ status \in [Jobs -> {"none", "running", "cancelled", "ended", "gone"}]
      /\ retired_jobs \in Seq(Jobs) /\ jobs \in [FILENAMES -> Seq(Jobs)]
  BY DEF IInv, Types
<1>3. victim \in FILENAMES \ workers
  BY DEF Evicted, IInv, LockInv, Types
<1>4. PICK v \in FILENAMES \ workers : v = victim
  BY <1>3
<1>5. PICK all \in Seq(Jobs) :
        all = retired_jobs \o jobs[v] /\ Range(all) = Range(retired_jobs) \cup Range(jobs[v])
  <2>1. retired_jobs \in Seq(Jobs) /\ jobs[v] \in Seq(Jobs)
    BY <1>2
  <2> QED
    BY <2>1, JoinedIs
<1>6. PICK kept \in Seq(Jobs) :
        kept = Newest(all) /\ Len(kept) <= MaxRetired /\ Range(kept) \subseteq Range(all)
  BY NewestIs
<1>7. /\ pc[j] = "evicting" /\ retired_jobs' = kept
      /\ status' = [i \in Jobs |-> IF i \in Range(all) \ Range(kept) THEN "gone" ELSE status[i]]
      /\ jobs' = [jobs EXCEPT ![v] = <<>>] /\ victim' = None
      /\ pc' = [pc EXCEPT ![j] = "loading"]
      /\ workers' = workers \cup {m}
      /\ engine' = [engine EXCEPT ![m] = IF m \in workers THEN @ ELSE "loading"]
      /\ last_used' = last_used
  BY <1>1, <1>4, <1>5, <1>6 DEF Evicted, Retire, StartWorker
<1>8. /\ pc' \in [Jobs -> {"waiting", "evicting", "loading", "writing", "done", "refused"}]
      /\ \A i \in Jobs : pc'[i] = IF i = j THEN "loading" ELSE pc[i]
      /\ engine' \in [FILENAMES -> {"loading", "ready", "failed"}]
      /\ status' \in [Jobs -> {"none", "running", "cancelled", "ended", "gone"}]
      /\ \A i \in Jobs : status'[i] = IF i \in Range(all) \ Range(kept) THEN "gone" ELSE status[i]
  BY <1>2, <1>7
<1>9. /\ jobs' \in [FILENAMES -> Seq(Jobs)]
      /\ \A key \in FILENAMES : jobs'[key] = IF key = v THEN <<>> ELSE jobs[key]
  <2>1. <<>> \in Seq(Jobs)
    OBVIOUS
  <2> QED
    BY <1>2, <1>7, <2>1
<1>10. \A i \in Jobs : pc[i] \in {"evicting", "loading", "writing"} => i = j
  BY <1>7 DEF IInv, LockInv
<1>11. Types'
  BY <1>2, <1>6, <1>7, <1>8, <1>9 DEF IInv, Types
<1>12. LockInv'
  <2>1. \A i \in Jobs : pc'[i] \in {"evicting", "loading", "writing"} => i = j
    BY <1>8, <1>10
  <2>2. pc'[j] = "loading" /\ m \in workers'
    BY <1>7, <1>8
  <2> QED
    BY <1>1, <1>7, <2>1, <2>2 DEF LockInv
<1>13. Range(<<>>) = {}
  BY DEF Range
<1>14. ASSUME NEW key \in FILENAMES, key # v PROVE Range(jobs[key]) \cap Range(all) = {}
  <2>1. \A i \in Range(jobs[key]) : ModelOf[i] = key /\ i \notin Range(retired_jobs)
    BY DEF IInv, PlaceInv
  <2>2. \A i \in Range(jobs[v]) : ModelOf[i] = v
    BY <1>4 DEF IInv, PlaceInv
  <2> QED
    BY <1>5, <1>14, <2>1, <2>2
<1>15. ASSUME NEW i \in Jobs, Active(i)
       PROVE  ModelOf[i] \in workers /\ i \in Range(jobs[ModelOf[i]]) /\ i \notin Range(all)
  <2>1. ModelOf[i] \in workers /\ i \in Range(jobs[ModelOf[i]])
    BY <1>15 DEF IInv, PlaceInv, ActiveReachable, OnWorker
  <2>2. ModelOf[i] \in FILENAMES /\ ModelOf[i] # v
    BY <1>2, <1>4, <2>1
  <2> QED
    BY <1>14, <2>1, <2>2
<1>16. \A i \in Jobs : Active(i)' => Active(i)
  BY <1>8 DEF Active
<1>17. PlaceInv'
  <2>1. \A key \in FILENAMES : Once(jobs'[key])
    <3>1. Once(<<>>)
      BY DEF Once
    <3> QED
      BY <1>9, <3>1 DEF IInv, PlaceInv
  <2>2. ASSUME NEW key \in FILENAMES, NEW i \in Range(jobs'[key])
        PROVE  ModelOf[i] = key /\ i \notin Range(retired_jobs')
    <3>1. key # v /\ i \in Range(jobs[key])
      BY <1>9, <1>13, <2>2
    <3>2. i \notin Range(kept)
      BY <1>6, <1>14, <3>1
    <3> QED
      BY <1>7, <3>1, <3>2 DEF IInv, PlaceInv
  <2>3. \A key \in FILENAMES \ (workers' \cup {victim'}) : jobs'[key] = <<>>
    BY <1>4, <1>7, <1>9 DEF IInv, PlaceInv
  <2>4. ASSUME NEW i \in Jobs, status[i] = "none"
        PROVE  i \notin Range(all) /\ i \notin Range(jobs[ModelOf[i]])
    <3>1. i \notin Range(retired_jobs) /\ i \notin Range(jobs[ModelOf[i]])
      BY <2>4 DEF IInv, PlaceInv
    <3>2. i \in Range(jobs[v]) => ModelOf[i] = v
      BY <1>4 DEF IInv, PlaceInv
    <3> QED
      BY <1>5, <3>1, <3>2
  <2>5. \A i \in Jobs : pc'[i] \in {"waiting", "evicting", "loading"} => status'[i] = "none"
    <3>1. \A i \in Jobs : pc'[i] \in {"waiting", "evicting", "loading"} => status[i] = "none"
      BY <1>7, <1>8 DEF IInv, PlaceInv
    <3> QED
      BY <1>8, <2>4, <3>1
  <2>6. ASSUME NEW i \in Jobs, status'[i] = "none"
        PROVE  i \notin Range(retired_jobs') /\ i \notin Range(jobs'[ModelOf[i]])
    <3>1. status[i] = "none" /\ ModelOf[i] \in FILENAMES
      BY <1>8, <2>6, PoolConstants
    <3>2. i \notin Range(all) /\ i \notin Range(jobs[ModelOf[i]])
      BY <2>4, <3>1
    <3> QED
      BY <1>6, <1>7, <1>9, <1>13, <3>1, <3>2
  <2>7. ASSUME NEW i \in Jobs, status'[i] \notin {"none", "gone"}
        PROVE  i \in Range(retired_jobs') \/ i \in Range(jobs'[ModelOf[i]])
    <3>1. /\ status[i] \notin {"none", "gone"} /\ ModelOf[i] \in FILENAMES
          /\ i \in Range(all) => i \in Range(kept)
      BY <1>8, <2>7, PoolConstants
    <3>2. i \in Range(retired_jobs) \/ i \in Range(jobs[ModelOf[i]])
      BY <3>1 DEF IInv, PlaceInv
    <3>3. i \in Range(all) \/ (ModelOf[i] # v /\ i \in Range(jobs[ModelOf[i]]))
      BY <1>5, <3>2
    <3> QED
      BY <1>7, <1>9, <3>1, <3>3
  <2>8. ASSUME NEW i \in Jobs, Active(i)' PROVE OnWorker(i)'
    <3>1. ModelOf[i] \in workers /\ i \in Range(jobs[ModelOf[i]])
      BY <1>15, <1>16, <2>8
    <3>2. ModelOf[i] \in FILENAMES /\ ModelOf[i] # v
      BY <1>2, <1>4, <3>1
    <3>3. ModelOf[i] \in workers' /\ i \in Range(jobs'[ModelOf[i]])
      BY <1>7, <1>9, <3>1, <3>2
    <3> QED
      BY <3>3 DEF OnWorker
  <2> QED
    BY <2>1, <2>2, <2>3, <2>5, <2>6, <2>7, <2>8 DEF PlaceInv, ActiveReachable
<1>18. QuotaInv'
  <2>1. ActiveJobs' \subseteq ActiveJobs
    BY <1>16 DEF ActiveJobs
  <2>2. \A i \in Jobs : pc'[i] \in {"evicting", "loading"} => pc[i] \in {"evicting", "loading"}
    BY <1>7, <1>8
  <2> QED
    BY <2>1, <2>2, QuotaStays DEF IInv
<1>19. ResidentBound'
  <2>1. PICK n \in Nat, k \in Nat : n = Cardinality(workers) /\ k = Cardinality(workers \cup {m})
    BY OneMore
  <2>2. k <= n + 1
    BY <2>1, OneMore
  <2>3. victim # None /\ MaxWorkers \in Nat
    BY <1>3, PoolConstants
  <2>4. n + 1 <= MaxWorkers
    BY <2>1, <2>3 DEF IInv, ResidentBound
  <2>5. k + 0 <= MaxWorkers
    BY <2>2, <2>3, <2>4
  <2>6. Cardinality(workers') = k /\ victim' = None
    BY <1>7, <2>1
  <2> QED
    BY <2>5, <2>6 DEF ResidentBound
<1> QED
  BY <1>11, <1>12, <1>17, <1>18, <1>19 DEF IInv

\* The model is loaded: the job counts from now on.
LEMMA LoadedStep ==
  ASSUME IInv, NEW j \in Jobs, Loaded(j)
  PROVE  IInv'
<1>1. PICK m \in FILENAMES : m = ModelOf[j]
  BY PoolConstants
<1>2. /\ pc \in [Jobs -> {"waiting", "evicting", "loading", "writing", "done", "refused"}]
      /\ status \in [Jobs -> {"none", "running", "cancelled", "ended", "gone"}]
      /\ retired_jobs \in Seq(Jobs) /\ jobs \in [FILENAMES -> Seq(Jobs)]
      /\ last_used \in [FILENAMES -> 0..Cardinality(FILENAMES)]
  BY DEF IInv, Types
<1>3. /\ pc[j] = "loading" /\ Used(m)
      /\ jobs' = [jobs EXCEPT ![m] = Append(@, j)]
      /\ status' = [status EXCEPT ![j] = "running"]
      /\ pc' = [pc EXCEPT ![j] = "writing"]
      /\ workers' = workers /\ victim' = victim
      /\ retired_jobs' = retired_jobs /\ engine' = engine
  BY <1>1 DEF Loaded
<1>4. m \in workers /\ \A i \in Jobs : pc[i] \in {"evicting", "loading", "writing"} => i = j
  BY <1>1, <1>3 DEF IInv, LockInv
<1>5. /\ status[j] = "none" /\ j \notin Range(retired_jobs) /\ j \notin Range(jobs[m])
  BY <1>1, <1>3 DEF IInv, PlaceInv
<1>6. PICK s \in Seq(Jobs) :
        s = Append(jobs[m], j) /\ Range(s) = Range(jobs[m]) \cup {j} /\ Once(s)
  <2>1. jobs[m] \in Seq(Jobs) /\ Once(jobs[m])
    BY <1>2 DEF IInv, PlaceInv
  <2> QED
    BY <1>5, <2>1, AppendJob
<1>7. /\ pc' \in [Jobs -> {"waiting", "evicting", "loading", "writing", "done", "refused"}]
      /\ \A i \in Jobs : pc'[i] = IF i = j THEN "writing" ELSE pc[i]
      /\ status' \in [Jobs -> {"none", "running", "cancelled", "ended", "gone"}]
      /\ \A i \in Jobs : status'[i] = IF i = j THEN "running" ELSE status[i]
      /\ jobs' \in [FILENAMES -> Seq(Jobs)]
      /\ \A key \in FILENAMES : jobs'[key] = IF key = m THEN s ELSE jobs[key]
  BY <1>2, <1>3, <1>6
<1>8. last_used' \in [FILENAMES -> 0..Cardinality(FILENAMES)]
  <2>1. PICK n \in Nat : n = Cardinality(FILENAMES)
    BY FS_CardinalityType, PoolConstants
  <2>2. ASSUME NEW k \in FILENAMES PROVE last_used'[k] \in 0..n
    <3>1. last_used[k] \in 0..n /\ last_used[m] \in 0..n
      BY <1>2, <2>1
    <3>2. last_used[k] > last_used[m] => last_used[k] - 1 \in 0..n
      BY <3>1
    <3>3. n \in 0..n
      OBVIOUS
    <3> QED
      BY <1>3, <2>1, <3>1, <3>2, <3>3 DEF Used
  <2> QED
    BY <1>3, <2>1, <2>2 DEF Used
<1>9. Types'
  BY <1>3, <1>7, <1>8 DEF IInv, Types
<1>10. LockInv'
  <2>1. \A i \in Jobs : pc'[i] \in {"evicting", "loading", "writing"} => i = j
    BY <1>4, <1>7
  <2>2. pc'[j] = "writing"
    BY <1>7
  <2>3. victim' = None
    BY <1>3, <1>4 DEF IInv, LockInv
  <2> QED
    BY <2>1, <2>2, <2>3 DEF LockInv
<1>11. PlaceInv'
  <2>1. \A key \in FILENAMES : Once(jobs'[key])
    BY <1>6, <1>7 DEF IInv, PlaceInv
  <2>2. ASSUME NEW key \in FILENAMES, NEW i \in Range(jobs'[key])
        PROVE  ModelOf[i] = key /\ i \notin Range(retired_jobs')
    <3>1. i \in Range(jobs[key]) \/ (key = m /\ i = j)
      BY <1>6, <1>7, <2>2
    <3> QED
      BY <1>1, <1>3, <1>5, <3>1 DEF IInv, PlaceInv
  <2>3. \A key \in FILENAMES \ (workers' \cup {victim'}) : jobs'[key] = <<>>
    BY <1>3, <1>4, <1>7 DEF IInv, PlaceInv
  <2>4. \A i \in Jobs : pc'[i] \in {"waiting", "evicting", "loading"} => status'[i] = "none"
    BY <1>7 DEF IInv, PlaceInv
  <2>5. ASSUME NEW i \in Jobs
        PROVE  /\ i # j => (i \in Range(jobs'[ModelOf[i]]) <=> i \in Range(jobs[ModelOf[i]]))
               /\ j \in Range(jobs'[ModelOf[j]])
    <3>1. ModelOf[i] \in FILENAMES
      BY PoolConstants
    <3> QED
      BY <1>1, <1>6, <1>7, <3>1
  <2>6. \A i \in Jobs : status'[i] = "none" =>
             i \notin Range(retired_jobs') /\ i \notin Range(jobs'[ModelOf[i]])
    BY <1>3, <1>7, <2>5 DEF IInv, PlaceInv
  <2>7. \A i \in Jobs : status'[i] \notin {"none", "gone"} =>
             i \in Range(retired_jobs') \/ i \in Range(jobs'[ModelOf[i]])
    BY <1>3, <1>7, <2>5 DEF IInv, PlaceInv
  <2>8. ASSUME NEW i \in Jobs, Active(i)' PROVE OnWorker(i)'
    <3>1. CASE i = j
      BY <1>1, <1>3, <1>4, <2>5, <3>1 DEF OnWorker
    <3>2. CASE i # j
      <4>1. Active(i)
        BY <1>7, <2>8, <3>2 DEF Active
      <4>2. ModelOf[i] \in workers /\ i \in Range(jobs[ModelOf[i]])
        BY <4>1 DEF IInv, PlaceInv, ActiveReachable, OnWorker
      <4> QED
        BY <1>3, <2>5, <3>2, <4>2 DEF OnWorker
    <3> QED
      BY <3>1, <3>2
  <2> QED
    BY <2>1, <2>2, <2>3, <2>4, <2>6, <2>7, <2>8 DEF PlaceInv, ActiveReachable
<1>12. QuotaInv'
  <2>1. PICK A, B : A = ActiveJobs /\ B = ActiveJobs'
    OBVIOUS
  <2>2. B = A \cup {j} /\ j \notin A
    BY <1>5, <1>7, <2>1 DEF ActiveJobs, Active
  <2>3. IsFiniteSet(A)
    BY <2>1 DEF IInv, QuotaInv
  <2>4. IsFiniteSet(B) /\ Cardinality(B) = Cardinality(A) + 1 /\ Cardinality(A) \in Nat
    BY <2>2, <2>3, FS_AddElement, FS_CardinalityType
  <2>5. Cardinality(A) < max_jobs /\ Cardinality(OwnersActive(OwnerOf[j])) < max_owner_jobs
    BY <1>3, <2>1 DEF IInv, QuotaInv
  <2>6. max_jobs \in Nat /\ max_owner_jobs \in Nat
    BY PoolConstants
  <2>7. Cardinality(B) <= max_jobs
    BY <2>4, <2>5, <2>6
  <2>8. ASSUME NEW i \in Jobs PROVE Cardinality(OwnersActive(OwnerOf[i])') <= max_owner_jobs
    <3>1. PICK C, D : C = OwnersActive(OwnerOf[i]) /\ D = OwnersActive(OwnerOf[i])'
      OBVIOUS
    <3>2. C = {k \in A : OwnerOf[k] = OwnerOf[i]} /\ D = {k \in B : OwnerOf[k] = OwnerOf[i]}
      BY <2>1, <3>1 DEF OwnersActive
    <3>3. IsFiniteSet(C)
      BY <2>3, <3>2, FS_Subset
    <3>4. CASE OwnerOf[i] = OwnerOf[j]
      <4>1. D = C \cup {j} /\ j \notin C
        BY <2>2, <3>2, <3>4
      <4>2. Cardinality(D) = Cardinality(C) + 1 /\ Cardinality(C) \in Nat
        BY <3>3, <4>1, FS_AddElement, FS_CardinalityType
      <4>3. Cardinality(C) < max_owner_jobs
        BY <2>5, <3>1, <3>4
      <4>4. Cardinality(D) <= max_owner_jobs
        BY <2>6, <4>2, <4>3
      <4> QED
        BY <3>1, <4>4
    <3>5. CASE OwnerOf[i] # OwnerOf[j]
      <4>1. D = C
        BY <2>2, <3>2, <3>5
      <4>2. Cardinality(C) <= max_owner_jobs
        BY <3>1 DEF IInv, QuotaInv
      <4> QED
        BY <3>1, <4>1, <4>2
    <3> QED
      BY <3>4, <3>5
  <2>9. \A i \in Jobs : pc'[i] \notin {"evicting", "loading"}
    BY <1>4, <1>7
  <2> QED
    BY <2>1, <2>4, <2>7, <2>8, <2>9 DEF QuotaInv
<1>13. ResidentBound'
  BY <1>3 DEF IInv, ResidentBound
<1> QED
  BY <1>9, <1>10, <1>11, <1>12, <1>13 DEF IInv

LEMMA InitHolds == Init => IInv
<1> SUFFICES ASSUME Init PROVE IInv
  OBVIOUS
<1>1. <<>> \in Seq(Jobs) /\ Len(<<>>) = 0 /\ Range(<<>>) = {} /\ Once(<<>>)
  BY DEF Range, Once
<1>2. 0 \in 0..Cardinality(FILENAMES)
  BY PoolConstants, FS_CardinalityType
<1>3. Types
  BY <1>1, <1>2, PoolConstants DEF Init, Types
<1>4. LockInv
  BY DEF Init, LockInv
<1>5. \A j \in Jobs : ~Active(j)
  BY DEF Init, Active
<1>6. PlaceInv
  BY <1>1, <1>5, PoolConstants DEF Init, PlaceInv, ActiveReachable
<1>7. QuotaInv
  <2>1. ActiveJobs = {} /\ \A o : OwnersActive(o) = {}
    BY <1>5 DEF ActiveJobs, OwnersActive
  <2>2. \A j \in Jobs : pc[j] \notin {"evicting", "loading"}
    BY DEF Init
  <2>3. 0 <= max_jobs /\ 0 <= max_owner_jobs
    BY PoolConstants
  <2> QED
    BY <2>1, <2>2, <2>3, FS_EmptySet DEF QuotaInv
<1>8. ResidentBound
  <2>1. Cardinality(workers) = 1
    BY FS_Singleton DEF Init
  <2>2. 1 + 0 <= MaxWorkers
    BY PoolConstants
  <2> QED
    BY <2>1, <2>2 DEF Init, ResidentBound
<1> QED
  BY <1>3, <1>4, <1>6, <1>7, <1>8 DEF IInv

LEMMA StepHolds == IInv /\ [Next]_vars => IInv'
<1> SUFFICES ASSUME IInv, [Next]_vars PROVE IInv'
  OBVIOUS
<1>1. ASSUME NEW j \in Jobs, Submission(j) PROVE IInv'
  BY <1>1, SubmissionEnds, EnterStep, EvictStep, EvictedStep, LoadedStep, JobLeaves
     DEF Submission
<1>2. ASSUME NEW j \in Jobs, Cancel(j) \/ JobEnds(j) PROVE IInv'
  BY <1>2, JobMoves
<1>3. ASSUME NEW j \in Jobs, Reap(j) PROVE IInv'
  BY <1>3, JobLeaves
<1>4. ASSUME NEW key \in FILENAMES, EngineReady(key) \/ EngineFails(key) PROVE IInv'
  BY <1>4, EngineMoves
<1>5. CASE UNCHANGED vars
  <2>1. /\ UNCHANGED <<poolVars, jobs>>
        /\ pc' = pc /\ engine' = engine /\ status' = status
    BY <1>5 DEF vars
  <2>2. /\ pc \in [Jobs -> {"waiting", "evicting", "loading", "writing", "done", "refused"}]
        /\ engine \in [FILENAMES -> {"loading", "ready", "failed"}]
        /\ status \in [Jobs -> {"none", "running", "cancelled", "ended", "gone"}]
    BY DEF IInv, Types
  <2> QED
    BY <2>1, <2>2, NothingMoves
<1> QED
  BY <1>1, <1>2, <1>3, <1>4, <1>5 DEF Next

(***************************************************************************)
(* Theorems.                                                               *)
(***************************************************************************)
\* The invariant is inductive: it holds when the pool starts and every step of
\* a submission, a cancellation or an engine keeps it.
THEOREM Inductive == Spec => []IInv
<1>1. Init => IInv
  BY InitHolds
<1>2. IInv /\ [Next]_vars => IInv'
  BY StepHolds
<1> QED
  BY <1>1, <1>2, PTL DEF Spec

\* Every variable of the pool has its type, and a job is on the engine of its
\* model or among the retired ones, never on both.
THEOREM TypeCorrect == Spec => []TypeOK
<1>1. ASSUME IInv PROVE TypeOK
  <2>1. ASSUME NEW key \in FILENAMES, NEW i \in DOMAIN jobs[key]
        PROVE  ModelOf[jobs[key][i]] = key /\ jobs[key][i] \notin Range(retired_jobs)
    <3>1. jobs[key][i] \in Range(jobs[key])
      BY DEF Range
    <3> QED
      BY <1>1, <3>1 DEF IInv, PlaceInv
  <2> QED
    BY <1>1, <2>1 DEF IInv, Types, PlaceInv, TypeOK
<1> QED
  BY <1>1, Inductive, PTL

\* However submissions, evictions and closings overlap, the engines that run and
\* the one being closed are together no more than MaxWorkers.
THEOREM EnginesBounded == Spec => []ResidentBound
<1>1. IInv => ResidentBound
  BY DEF IInv
<1> QED
  BY <1>1, Inductive, PTL

\* The quotas of the pool and of each owner hold over all engines together,
\* although a submission waits between its check and the job it starts.
THEOREM PoolQuotas == Spec => []PoolQuotaKept
<1>1. ASSUME IInv PROVE PoolQuotaKept
  <2>1. {j \in Jobs : Active(j)} = ActiveJobs
    BY DEF ActiveJobs
  <2>2. \A j \in Jobs :
          {i \in {k \in Jobs : Active(k)} : OwnerOf[i] = OwnerOf[j]} = OwnersActive(OwnerOf[j])
    BY DEF ActiveJobs, OwnersActive
  <2> QED
    BY <1>1, <2>1, <2>2 DEF IInv, QuotaInv, PoolQuotaKept
<1> QED
  BY <1>1, Inductive, PTL

\* An active job is on an engine that is there, and between submissions a poll
\* finds every job that was accepted and not forgotten.
THEOREM Kept == Spec => []JobsKept
<1>1. ASSUME IInv PROVE JobsKept
  <2>1. ActiveReachable
    BY <1>1 DEF IInv, PlaceInv
  <2>2. ASSUME LockFree, NEW j \in Jobs, status[j] \notin {"none", "gone"}
        PROVE  j \in PoolJobs
    <3>1. victim = None
      BY <1>1, <2>2 DEF IInv, LockInv, LockFree
    <3>2. j \in Range(retired_jobs) \/ j \in Range(jobs[ModelOf[j]])
      BY <1>1, <2>2 DEF IInv, PlaceInv
    <3>3. ModelOf[j] \in FILENAMES
      BY PoolConstants
    <3>4. ASSUME j \in Range(jobs[ModelOf[j]]) PROVE ModelOf[j] \in workers
      <4>1. Range(<<>>) = {}
        BY DEF Range
      <4>2. jobs[ModelOf[j]] # <<>>
        BY <3>4, <4>1
      <4>3. ModelOf[j] # None
        BY <3>3, PoolConstants
      <4> QED
        BY <1>1, <3>1, <3>3, <4>2, <4>3 DEF IInv, PlaceInv
    <3> QED
      BY <3>2, <3>4 DEF PoolJobs
  <2> QED
    BY <2>1, <2>2 DEF JobsKept
<1> QED
  BY <1>1, Inductive, PTL
=============================================================================
