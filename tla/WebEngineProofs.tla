-------------------------- MODULE WebEngineProofs --------------------------
(***************************************************************************)
(* Proofs about WebEngine, for any jobs, owners and quotas: no job is left *)
(* in progress without an engine, the quotas hold, only complete jobs are  *)
(* completed, and every step is one of JobBoard.                           *)
(***************************************************************************)
EXTENDS WebEngine, FiniteSetTheorems, SequenceTheorems, TLAPS

(***************************************************************************)
(* The inductive invariant.                                                *)
(***************************************************************************)
Messages == [op : {"query_version", "query", "cancelled", "timed_out"},
             job : Jobs \cup {"__ready__"}]

At(messages, op) == {i \in 1..Len(messages) : messages[i].op = op}

Once(messages, op) == \A i, k \in At(messages, op) : i = k

\* A message that is sent is in the queue; a query is for a job.
WriteInv ==
  /\ write_lock \in Seq(Messages)
  /\ draining => write_lock # <<>>
  /\ \A i \in At(write_lock, "query") : write_lock[i].job \in Jobs

\* _supervise has its message in write exactly while it waits there, _reap only
\* while it waits there, and each of them has one.
TaskInv ==
  /\ At(write_lock, "query_version") # {} <=> supervise = "versioning"
  /\ At(write_lock, "timed_out") # {} => reap = "awaiting"
  /\ Once(write_lock, "query_version") /\ Once(write_lock, "timed_out")
  /\ ready => supervise = "reading"

\* A job is told to end only once it is settled how it ends.
Settled(j) == j \in Jobs /\ status[j] \notin {"none", "running"}

StopInv ==
  /\ \A i \in At(write_lock, "cancelled") : Settled(write_lock[i].job)
  /\ \A i \in At(write_lock, "timed_out") : Settled(write_lock[i].job)
  /\ \A j \in terminated : Settled(j)

\* Of the jobs: only one that was cancelled has a deadline for it, and while one
\* runs each turn that is finished has its result.
JobTypes ==
  /\ jobs \subseteq Jobs
  /\ owner \in [Jobs -> Owners \cup {Nobody}]
  /\ status \in [Jobs -> {"none", "running", "completed", "failed", "cancelled", "timed_out",
                      "gone"}]
  /\ cancel_deadline \in [Jobs -> BOOLEAN]
  /\ {finished_turns, results} \subseteq [Jobs -> SUBSET UNION {Turns[j] : j \in Jobs}]
  /\ \A j \in Jobs : results[j] \subseteq Turns[j] /\ finished_turns[j] \subseteq Turns[j]
  /\ \A j \in Jobs : j \in jobs <=> status[j] \notin {"none", "gone"}
  /\ \A j \in Jobs : owner[j] \in Owners <=> j \in jobs
  /\ \A j \in Jobs \ jobs : results[j] = {} /\ ~cancel_deadline[j]

JobInv ==
  /\ JobTypes
  /\ \A j \in Jobs : cancel_deadline[j] => status[j] \in {"cancelled", "timed_out"}
  /\ \A j \in Jobs : status[j] = "none" => finished_turns[j] = {}
  /\ \A j \in Jobs : status[j] = "running" => results[j] = finished_turns[j]
  /\ QuotaKept /\ CompletedHasResults

OtherTypes ==
  /\ supervise \in {"spawn", "versioning", "starting", "reading", "killing", "closed"}
  /\ ready \in BOOLEAN /\ draining \in BOOLEAN
  /\ process \in {"none", "alive", "killed", "exited"}
  /\ reap \in {"awake", "awaiting", "closed"}
  /\ sent \subseteq Jobs /\ terminated \subseteq sent

IInv == JobInv /\ OtherTypes /\ WriteInv /\ TaskInv /\ StopInv /\ NoJobWithoutEngine

(***************************************************************************)
(* What happens to the messages at the lock.                               *)
(***************************************************************************)
LEMMA AppendMessage ==
  ASSUME NEW s \in Seq(Messages), NEW m \in Messages
  PROVE  /\ Append(s, m) \in Seq(Messages) /\ Append(s, m) # <<>>
         /\ \A op : At(Append(s, m), op) =
                      At(s, op) \cup {i \in {Len(s) + 1} : m.op = op}
         /\ \A i \in 1..Len(s) : Append(s, m)[i] = s[i]
         /\ Append(s, m)[Len(s) + 1] = m
BY AppendProperties DEF At

LEMMA TailMessage ==
  ASSUME NEW s \in Seq(Messages), s # <<>>
  PROVE  /\ Tail(s) \in Seq(Messages)
         /\ \A op : \A i \in At(Tail(s), op) : i + 1 \in At(s, op) /\ Tail(s)[i] = s[i + 1]
         /\ \A op : \A i \in At(s, op) : i = 1 \/ i - 1 \in At(Tail(s), op)
         /\ 1 \in 1..Len(s) /\ Head(s) = s[1] /\ Head(s) \in Messages
<1>1. Len(s) \in Nat /\ Len(s) # 0
  BY EmptySeq
<1>2. /\ Tail(s) \in Seq(Messages) /\ Len(Tail(s)) = Len(s) - 1
      /\ \A i \in 1..(Len(s) - 1) : Tail(s)[i] = s[i + 1]
  BY HeadTailProperties, <1>1
<1>3. Head(s) = s[1] /\ Head(s) \in Messages
  BY HeadTailProperties, <1>1
<1> QED
  BY <1>1, <1>2, <1>3 DEF At

\* The others keep their places or move up, those before it keep theirs.
LEMMA LeaveMessage ==
  ASSUME NEW s \in Seq(Messages), NEW op
  PROVE  /\ Leave(s, op) \in Seq(Messages)
         /\ \E place \in [1..Len(Leave(s, op)) -> 1..Len(s)] :
              /\ \A i \in 1..Len(Leave(s, op)) : Leave(s, op)[i] = s[place[i]]
              /\ \A i, k \in 1..Len(Leave(s, op)) : place[i] = place[k] => i = k
         /\ Once(s, op) => At(Leave(s, op), op) = {}
         /\ s # <<>> /\ s[1].op # op => Leave(s, op) # <<>> /\ Leave(s, op)[1] = s[1]
<1>0. Len(s) \in Nat
  OBVIOUS
<1>1. CASE At(s, op) = {}
  <2>1. Leave(s, op) = s
    BY <1>1 DEF Leave, At
  <2>2. [i \in 1..Len(s) |-> i] \in [1..Len(Leave(s, op)) -> 1..Len(s)]
    BY <2>1
  <2> QED
    BY <1>1, <2>1, <2>2
<1>2. CASE At(s, op) # {}
  <2> DEFINE gone == CHOOSE i \in At(s, op) : TRUE
  <2> DEFINE r == RemoveAt(s, gone)
  <2>1. gone \in At(s, op)
    BY <1>2
  <2>2. Leave(s, op) = r
    BY <1>2 DEF Leave, At
  <2>3. gone \in 1..Len(s) /\ s[gone].op = op
    BY <2>1 DEF At
  <2> DEFINE before == SubSeq(s, 1, gone - 1)
  <2> DEFINE after == SubSeq(s, gone + 1, Len(s))
  <2> HIDE DEF gone
  <2>4. /\ before \in Seq(Messages) /\ Len(before) = gone - 1
        /\ \A i \in 1..(gone - 1) : before[i] = s[i]
    BY <1>0, <2>3, SubSeqProperties
  <2>5. /\ after \in Seq(Messages) /\ Len(after) = Len(s) - gone
        /\ \A i \in 1..(Len(s) - gone) : after[i] = s[gone + i]
    BY <1>0, <2>3, SubSeqProperties
  <2>6. r = before \o after
    BY DEF RemoveAt
  <2> HIDE DEF before, after, r
  <2>7. r \in Seq(Messages) /\ Len(r) = Len(s) - 1
    BY <1>0, <2>3, <2>4, <2>5, <2>6, ConcatProperties
  <2>8. \A i \in 1..(Len(s) - 1) : r[i] = IF i < gone THEN s[i] ELSE s[i + 1]
    <3> TAKE i \in 1..(Len(s) - 1)
    <3>1. CASE i < gone
      <4>1. r[i] = before[i]
        BY <3>1, <1>0, <2>3, <2>4, <2>5, <2>6, ConcatProperties
      <4> QED
        BY <3>1, <4>1, <1>0, <2>3, <2>4
    <3>2. CASE ~(i < gone)
      <4>1. r[i] = after[i - (gone - 1)]
        BY <3>2, <1>0, <2>3, <2>4, <2>5, <2>6, ConcatProperties
      <4>2. i - (gone - 1) \in 1..(Len(s) - gone) /\ gone + (i - (gone - 1)) = i + 1
        BY <3>2, <1>0, <2>3
      <4> QED
        BY <3>2, <4>1, <4>2, <2>5
    <3> QED
      BY <3>1, <3>2
  <2> DEFINE place == [i \in 1..(Len(s) - 1) |-> IF i < gone THEN i ELSE i + 1]
  <2>9. /\ place \in [1..(Len(s) - 1) -> 1..Len(s)]
        /\ \A i \in 1..(Len(s) - 1) : r[i] = s[place[i]] /\ place[i] # gone
        /\ \A i, k \in 1..(Len(s) - 1) : place[i] = place[k] => i = k
    BY <1>0, <2>3, <2>8
  <2> HIDE DEF place
  <2>10. Once(s, op) => At(r, op) = {}
    BY <2>3, <2>7, <2>9 DEF Once, At
  <2>11. s[1].op # op => gone # 1
    BY <2>3
  <2>12. s[1].op # op => r # <<>> /\ r[1] = s[1]
    BY <1>0, <2>3, <2>7, <2>8, <2>11, EmptySeq
  <2> QED
    BY <2>2, <2>7, <2>9, <2>10, <2>12, SMTT(30)
<1> QED
  BY <1>1, <1>2

(***************************************************************************)
(* What happens to the jobs.                                               *)
(***************************************************************************)
\* A settled job stays settled.
SettledStay == \A j \in Jobs : Settled(j) => Settled(j)'

LEMMA Few ==
  ASSUME JobInv
  PROVE  /\ IsFiniteSet(ActiveJobs) /\ Cardinality(ActiveJobs) \in Nat
         /\ \A o \in Owners :
              IsFiniteSet(OwnersActive(o)) /\ Cardinality(OwnersActive(o)) \in Nat
BY EngineConstants, FS_Subset, FS_CardinalityType DEF ActiveJobs, OwnersActive

LEMMA QuotaShrinks ==
  ASSUME JobInv, ActiveJobs' \subseteq ActiveJobs,
         \A j \in ActiveJobs' : owner'[j] = owner[j]
  PROVE  QuotaKept'
<1>1. Cardinality(ActiveJobs') \in Nat /\ Cardinality(ActiveJobs') <= Cardinality(ActiveJobs)
  BY Few, FS_Subset, FS_CardinalityType
<1>2. ASSUME NEW o \in Owners PROVE Cardinality(OwnersActive(o)') <= max_owner_jobs
  <2>1. OwnersActive(o)' \subseteq OwnersActive(o)
    BY DEF OwnersActive
  <2>2. /\ Cardinality(OwnersActive(o)') \in Nat
        /\ Cardinality(OwnersActive(o)') <= Cardinality(OwnersActive(o))
    BY <2>1, Few, FS_Subset, FS_CardinalityType
  <2> QED
    BY <2>2, Few, EngineConstants DEF JobInv, QuotaKept
<1> QED
  BY <1>1, <1>2, Few, EngineConstants DEF JobInv, QuotaKept

LEMMA JobsStay ==
  ASSUME JobInv, UNCHANGED jobVars
  PROVE  JobInv' /\ ActiveJobs' = ActiveJobs /\ SettledStay
<1>1. ActiveJobs' = ActiveJobs /\ owner' = owner
  BY DEF ActiveJobs, Active, jobVars
<1>2. QuotaKept'
  BY <1>1, QuotaShrinks
<1> QED
  BY <1>1, <1>2 DEF JobInv, JobTypes, CompletedHasResults, SettledStay, Settled, jobVars

LEMMA JobsFail ==
  ASSUME JobInv, FailJobs, UNCHANGED <<jobs, owner, finished_turns, results>>
  PROVE  JobInv' /\ ActiveJobs' = {} /\ SettledStay
<1>1. \A j \in Jobs : ~Active(j)'
  BY DEF JobInv, JobTypes, FailJobs, Active
<1>2. ActiveJobs' = {}
  BY <1>1 DEF ActiveJobs
<1>3. QuotaKept'
  BY <1>2, QuotaShrinks
<1>4. JobTypes'
  BY DEF JobInv, JobTypes, FailJobs, Active
<1>5. CompletedHasResults'
  BY DEF JobInv, JobTypes, FailJobs, Active, CompletedHasResults
<1> QED
  BY <1>2, <1>3, <1>4, <1>5
  DEF JobInv, JobTypes, FailJobs, Active, SettledStay, Settled

LEMMA JobsLeave ==
  ASSUME JobInv, NEW gone \in SUBSET jobs, Pop(gone)
  PROVE  JobInv' /\ ActiveJobs' \subseteq ActiveJobs /\ SettledStay
<1>1. \A j \in Jobs : Active(j)' => Active(j) /\ owner'[j] = owner[j]
  BY DEF JobInv, JobTypes, Pop, Active
<1>2. ActiveJobs' \subseteq ActiveJobs /\ \A j \in ActiveJobs' : owner'[j] = owner[j]
  BY <1>1 DEF ActiveJobs
<1>3. QuotaKept'
  BY <1>2, QuotaShrinks
<1>4. \A j \in gone : /\ {t \in Turns[j] : j \in gone} = Turns[j]
                      /\ results'[j] = {} /\ finished_turns'[j] = {}
  BY DEF JobInv, JobTypes, Pop
<1>5. \A j \in Jobs \ gone : results'[j] = results[j] /\ finished_turns'[j] = finished_turns[j]
  BY DEF JobInv, JobTypes, Pop
<1>6. JobTypes'
  <2> DEFINE T == UNION {Turns[j] : j \in Jobs}
  <2>1. finished_turns \in [Jobs -> SUBSET T] /\ results \in [Jobs -> SUBSET T]
    BY DEF JobInv, JobTypes
  <2> HIDE DEF T
  <2>2. finished_turns' \in [Jobs -> SUBSET T] /\ results' \in [Jobs -> SUBSET T]
    BY <2>1 DEF Pop
  <2>3. {finished_turns', results'} \subseteq [Jobs -> SUBSET UNION {Turns[j] : j \in Jobs}]
    BY <2>2 DEF T
  <2>4. \A j \in Jobs : results'[j] \subseteq Turns[j] /\ finished_turns'[j] \subseteq Turns[j]
    BY <1>4, <1>5 DEF JobInv, JobTypes
  <2>5. /\ jobs' \subseteq Jobs
        /\ owner' \in [Jobs -> Owners \cup {Nobody}]
        /\ status' \in [Jobs -> {"none", "running", "completed", "failed", "cancelled",
                                "timed_out", "gone"}]
        /\ cancel_deadline' \in [Jobs -> BOOLEAN]
        /\ \A j \in Jobs : j \in jobs' <=> status'[j] \notin {"none", "gone"}
        /\ \A j \in Jobs : owner'[j] \in Owners <=> j \in jobs'
        /\ \A j \in Jobs \ jobs' : ~cancel_deadline'[j]
    BY EngineConstants DEF JobInv, JobTypes, Pop
  <2>6. \A j \in Jobs \ jobs' : results'[j] = {}
    BY <1>4, <1>5 DEF JobInv, JobTypes, Pop
  <2> QED
    BY <2>3, <2>4, <2>5, <2>6 DEF JobTypes
<1> QED
  BY <1>2, <1>3, <1>4, <1>5, <1>6
  DEF JobInv, JobTypes, Pop, SettledStay, Settled, CompletedHasResults

LEMMA JobEnters ==
  ASSUME JobInv, NEW j \in Jobs, NEW o \in Owners, Submit(j, o)
  PROVE  JobInv' /\ SettledStay
<1>1. j \notin jobs /\ j \notin ActiveJobs
  BY DEF JobInv, JobTypes, Submit, ActiveJobs, Active
<1>2. ActiveJobs' = ActiveJobs \cup {j}
  BY DEF JobInv, JobTypes, Submit, ActiveJobs, Active
<1>3. OwnersActive(o)' = OwnersActive(o) \cup {j}
  BY <1>2, <1>1 DEF JobInv, JobTypes, Submit, OwnersActive, ActiveJobs
<1>4. \A p \in Owners \ {o} : OwnersActive(p)' = OwnersActive(p)
  BY <1>2, <1>1 DEF JobInv, JobTypes, Submit, OwnersActive, ActiveJobs
<1>5. QuotaKept'
  <2>1. Cardinality(ActiveJobs') = Cardinality(ActiveJobs) + 1
    BY <1>1, <1>2, Few, FS_AddElement
  <2>2. Cardinality(OwnersActive(o)') = Cardinality(OwnersActive(o)) + 1
    BY <1>1, <1>3, Few, FS_AddElement DEF OwnersActive
  <2> QED
    BY <2>1, <2>2, <1>4, Few, EngineConstants DEF JobInv, QuotaKept, Submit, MaySubmit
<1>6. JobTypes'
  <2>1. /\ jobs' \subseteq Jobs
        /\ owner' \in [Jobs -> Owners \cup {Nobody}]
        /\ status' \in [Jobs -> {"none", "running", "completed", "failed", "cancelled",
                                "timed_out", "gone"}]
        /\ \A i \in Jobs : i \in jobs' <=> status'[i] \notin {"none", "gone"}
        /\ \A i \in Jobs : owner'[i] \in Owners <=> i \in jobs'
    BY DEF JobInv, JobTypes, Submit
  <2>2. UNCHANGED <<cancel_deadline, finished_turns, results>>
    BY DEF Submit
  <2>3. \A i \in Jobs \ jobs' : i \in Jobs \ jobs
    BY DEF Submit
  <2> QED
    BY <2>1, <2>2, <2>3 DEF JobInv, JobTypes
<1>7. /\ UNCHANGED <<cancel_deadline, finished_turns, results>>
      /\ status' = [status EXCEPT ![j] = "running"] /\ status[j] = "none"
  BY DEF Submit
<1>8. /\ \A i \in Jobs : cancel_deadline'[i] => status'[i] \in {"cancelled", "timed_out"}
      /\ \A i \in Jobs : status'[i] = "none" => finished_turns'[i] = {}
      /\ \A i \in Jobs : status'[i] = "running" => results'[i] = finished_turns'[i]
      /\ CompletedHasResults'
  BY <1>1, <1>7 DEF JobInv, JobTypes, CompletedHasResults
<1>9. SettledStay
  BY <1>7 DEF JobInv, JobTypes, SettledStay, Settled
<1> QED
  BY <1>5, <1>6, <1>8, <1>9 DEF JobInv

LEMMA JobCancelled ==
  ASSUME JobInv, NEW j \in Jobs, NEW reason \in {"cancelled", "timed_out"},
         CancelJob(j, reason)
  PROVE  JobInv' /\ ActiveJobs' = ActiveJobs /\ SettledStay /\ Settled(j)'
<1>1. ActiveJobs' = ActiveJobs /\ owner' = owner
  BY DEF JobInv, JobTypes, CancelJob, ActiveJobs, Active
<1>2. QuotaKept'
  BY <1>1, QuotaShrinks
<1>3. JobTypes'
  BY DEF JobInv, JobTypes, CancelJob
<1> QED
  BY <1>1, <1>2, <1>3
  DEF JobInv, JobTypes, CancelJob, SettledStay, Settled, CompletedHasResults

LEMMA JobUnconfirmed ==
  ASSUME JobInv, NEW j \in Jobs, ReapUnconfirmed(j)
  PROVE  JobInv' /\ ActiveJobs' \subseteq ActiveJobs /\ SettledStay
<1>1. ActiveJobs' \subseteq ActiveJobs /\ owner' = owner
  BY DEF JobInv, JobTypes, ReapUnconfirmed, ActiveJobs, Active
<1>2. QuotaKept'
  BY <1>1, QuotaShrinks
<1>3. JobTypes'
  BY DEF JobInv, JobTypes, ReapUnconfirmed
<1> QED
  BY <1>1, <1>2, <1>3
  DEF JobInv, JobTypes, ReapUnconfirmed, SettledStay, Settled, CompletedHasResults

LEMMA JobAnswered ==
  ASSUME JobInv, StopInv, NEW j \in Jobs, NEW t \in Turns[j], NEW noResults \in BOOLEAN,
         Answer(j, t, noResults)
  PROVE  JobInv' /\ ActiveJobs' \subseteq ActiveJobs /\ SettledStay
<1>1. CASE ~Heard(j)
  <2>1. UNCHANGED jobVars
    BY <1>1 DEF Answer, jobVars
  <2> QED
    BY <2>1, JobsStay
<1>2. CASE Heard(j)
  <2> DEFINE done == finished_turns[j] \cup {t} = Turns[j]
  <2>1. /\ UNCHANGED <<jobs, owner>>
        /\ results' = [results EXCEPT ![j] =
             IF status[j] = "running" /\ ~noResults THEN @ \cup {t} ELSE @]
        /\ finished_turns' = [finished_turns EXCEPT ![j] = @ \cup {t}]
        /\ cancel_deadline' = [cancel_deadline EXCEPT ![j] = @ /\ ~done]
        /\ status' = [status EXCEPT ![j] = IF done /\ @ = "running" THEN "completed" ELSE @]
    BY <1>2 DEF Answer, FinishTurn
  <2>2. status[j] = "running" => ~noResults
    BY DEF Answer, StopInv, Settled
  <2>3. j \in jobs
    BY <1>2 DEF Heard, Active
  <2> HIDE DEF done
  <2>4. \A i \in Jobs : Active(i)' => Active(i)
    BY <2>1 DEF JobInv, JobTypes, Active
  <2>5. ActiveJobs' \subseteq ActiveJobs /\ owner' = owner
    BY <2>1, <2>4 DEF ActiveJobs
  <2>6. QuotaKept'
    BY <2>5, QuotaShrinks
  <2>7. /\ status'[j] = "running" => results'[j] = finished_turns'[j]
        /\ status'[j] = "none" => finished_turns'[j] = {}
        /\ status'[j] = "completed" => results'[j] = Turns[j]
    <3>1. status[j] # "none"
      BY <2>3 DEF JobInv, JobTypes
    <3>2. CASE status[j] = "running"
      <4>1. results'[j] = finished_turns[j] \cup {t} /\ finished_turns'[j] = finished_turns[j] \cup {t}
        BY <2>1, <2>2, <3>2 DEF JobInv, JobTypes
      <4>2. status'[j] = IF done THEN "completed" ELSE "running"
        BY <2>1, <3>2 DEF JobInv, JobTypes
      <4> QED
        BY <4>1, <4>2 DEF done
    <3>3. CASE status[j] # "running"
      <4>1. status'[j] = status[j] /\ results'[j] = results[j]
        BY <2>1, <3>3 DEF JobInv, JobTypes
      <4> QED
        BY <4>1, <3>1, <3>3 DEF JobInv, CompletedHasResults
    <3> QED
      BY <3>2, <3>3
  <2>8. \A i \in Jobs \ {j} : /\ status'[i] = status[i] /\ results'[i] = results[i]
                              /\ finished_turns'[i] = finished_turns[i]
                              /\ cancel_deadline'[i] = cancel_deadline[i]
    BY <2>1 DEF JobInv, JobTypes
  <2>9. JobTypes'
    <3> DEFINE T == UNION {Turns[i] : i \in Jobs}
    <3>1. /\ finished_turns \in [Jobs -> SUBSET T] /\ results \in [Jobs -> SUBSET T]
          /\ t \in T
      BY DEF JobInv, JobTypes
    <3> HIDE DEF T
    <3>2. finished_turns' \in [Jobs -> SUBSET T] /\ results' \in [Jobs -> SUBSET T]
      BY <2>1, <3>1
    <3>3. {finished_turns', results'} \subseteq [Jobs -> SUBSET UNION {Turns[i] : i \in Jobs}]
      BY <3>2 DEF T
    <3>4. results'[j] \subseteq Turns[j] /\ finished_turns'[j] \subseteq Turns[j]
      BY <2>1 DEF JobInv, JobTypes
    <3>5. /\ status' \in [Jobs -> {"none", "running", "completed", "failed", "cancelled",
                                "timed_out", "gone"}]
          /\ cancel_deadline' \in [Jobs -> BOOLEAN]
          /\ status'[j] \notin {"none", "gone"}
      BY <2>1, <2>3 DEF JobInv, JobTypes
    <3> QED
      BY <2>1, <2>3, <2>8, <3>3, <3>4, <3>5 DEF JobInv, JobTypes
  <2>10. \A i \in Jobs : cancel_deadline'[i] => status'[i] \in {"cancelled", "timed_out"}
    BY <2>1 DEF JobInv, JobTypes
  <2>11. SettledStay
    BY <2>1 DEF JobInv, JobTypes, SettledStay, Settled
  <2> QED
    BY <2>5, <2>6, <2>7, <2>8, <2>9, <2>10, <2>11 DEF JobInv, CompletedHasResults
<1> QED
  BY <1>1, <1>2

LEMMA JobAnswerFails ==
  ASSUME JobInv, NEW j \in Jobs, NEW turns \in SUBSET Turns[j], AnswerFails(j, turns)
  PROVE  JobInv' /\ ActiveJobs' \subseteq ActiveJobs /\ SettledStay
<1>1. /\ UNCHANGED <<jobs, owner, finished_turns, results>>
      /\ status' = [status EXCEPT ![j] = IF Heard(j) THEN "failed" ELSE @]
      /\ cancel_deadline' = [cancel_deadline EXCEPT ![j] = @ /\ ~Heard(j)]
  BY DEF AnswerFails
<1>2. \A i \in Jobs : Active(i)' => Active(i)
  BY <1>1 DEF JobInv, JobTypes, Active, Heard
<1>3. ActiveJobs' \subseteq ActiveJobs /\ owner' = owner
  BY <1>1, <1>2 DEF ActiveJobs
<1>4. QuotaKept'
  BY <1>3, QuotaShrinks
<1> DEFINE heard == Heard(j)
<1>5. heard => status[j] \notin {"none", "gone"}
  BY DEF JobInv, JobTypes, Heard, Active
<1>6. /\ status' = [status EXCEPT ![j] = IF heard THEN "failed" ELSE @]
      /\ cancel_deadline' = [cancel_deadline EXCEPT ![j] = @ /\ ~heard]
  BY <1>1
<1> HIDE DEF heard
<1>7. JobTypes'
  <2>1. /\ status' \in [Jobs -> {"none", "running", "completed", "failed", "cancelled",
                                "timed_out", "gone"}]
        /\ cancel_deadline' \in [Jobs -> BOOLEAN]
        /\ \A i \in Jobs : cancel_deadline'[i] => cancel_deadline[i]
        /\ \A i \in Jobs : status'[i] \notin {"none", "gone"} <=> status[i] \notin {"none", "gone"}
    BY <1>5, <1>6 DEF JobInv, JobTypes
  <2> QED
    BY <1>1, <2>1 DEF JobInv, JobTypes
<1>8. \A i \in Jobs : cancel_deadline'[i] => status'[i] \in {"cancelled", "timed_out"}
  BY <1>6 DEF JobInv, JobTypes
<1>9. /\ \A i \in Jobs : status'[i] = "none" => finished_turns'[i] = {}
      /\ \A i \in Jobs : status'[i] = "running" => results'[i] = finished_turns'[i]
      /\ CompletedHasResults'
  BY <1>1, <1>6 DEF JobInv, JobTypes, CompletedHasResults
<1>10. SettledStay
  BY <1>6 DEF JobInv, JobTypes, SettledStay, Settled
<1> QED
  BY <1>3, <1>4, <1>7, <1>8, <1>9, <1>10 DEF JobInv

(***************************************************************************)
(* What happens at the lock while jobs stay settled.                       *)
(***************************************************************************)
LEMMA MessagesStay ==
  ASSUME WriteInv, StopInv, SettledStay, UNCHANGED write_lock,
         draining' => write_lock # <<>>, terminated' \subseteq terminated
  PROVE  WriteInv' /\ StopInv'
<1>1. \A op : At(write_lock', op) = At(write_lock, op)
  BY DEF At
<1> QED
  BY <1>1 DEF WriteInv, StopInv, SettledStay, Settled

LEMMA MessageEnters ==
  ASSUME WriteInv, StopInv, SettledStay, NEW m \in Messages,
         write_lock' = Append(write_lock, m), UNCHANGED <<draining, terminated>>,
         m.op = "query" => m.job \in Jobs,
         m.op \in {"cancelled", "timed_out"} => Settled(m.job)'
  PROVE  /\ WriteInv' /\ StopInv'
         /\ \A op : At(write_lock', op) =
                      At(write_lock, op) \cup {i \in {Len(write_lock) + 1} : m.op = op}
<1>1. write_lock \in Seq(Messages)
  BY DEF WriteInv
<1>2. /\ write_lock' \in Seq(Messages) /\ write_lock' # <<>>
      /\ \A op : At(write_lock', op) =
                   At(write_lock, op) \cup {i \in {Len(write_lock) + 1} : m.op = op}
      /\ \A i \in 1..Len(write_lock) : write_lock'[i] = write_lock[i]
      /\ write_lock'[Len(write_lock) + 1] = m
  BY <1>1, AppendMessage
<1>3. \A op : At(write_lock, op) \subseteq 1..Len(write_lock)
  BY DEF At
<1>4. \A op : \A i \in At(write_lock', op) :
        \/ i \in At(write_lock, op) /\ write_lock'[i] = write_lock[i]
        \/ m.op = op /\ write_lock'[i] = m
  BY <1>2, <1>3
<1>5. \A j : Settled(j) => Settled(j)'
  BY DEF SettledStay, Settled
<1>6. \A i \in At(write_lock', "query") : write_lock'[i].job \in Jobs
  BY <1>4 DEF WriteInv
<1>7. \A i \in At(write_lock', "cancelled") : Settled(write_lock[i].job)'
  BY <1>4, <1>5 DEF StopInv
<1>8. \A i \in At(write_lock', "timed_out") : Settled(write_lock[i].job)'
  BY <1>4, <1>5 DEF StopInv
<1> QED
  BY <1>2, <1>5, <1>6, <1>7, <1>8 DEF WriteInv, StopInv

LEMMA MessageLeaves ==
  ASSUME WriteInv, StopInv, SettledStay, write_lock # <<>>,
         write_lock' = Tail(write_lock), ~draining', terminated' \subseteq terminated
  PROVE  /\ WriteInv' /\ StopInv'
         /\ \A op : Once(write_lock, op) => Once(write_lock', op)
         /\ \A op : Head(write_lock).op # op =>
              (At(write_lock', op) # {} <=> At(write_lock, op) # {})
         /\ Once(write_lock, Head(write_lock).op) => At(write_lock', Head(write_lock).op) = {}
         /\ Head(write_lock) \in Messages
         /\ \E i \in At(write_lock, Head(write_lock).op) : write_lock[i] = Head(write_lock)
<1>1. write_lock \in Seq(Messages)
  BY DEF WriteInv
<1>2. /\ write_lock' \in Seq(Messages)
      /\ \A op : \A i \in At(write_lock', op) :
           i + 1 \in At(write_lock, op) /\ write_lock'[i] = write_lock[i + 1]
      /\ \A op : \A i \in At(write_lock, op) : i = 1 \/ i - 1 \in At(write_lock', op)
      /\ 1 \in 1..Len(write_lock) /\ Head(write_lock) = write_lock[1]
      /\ Head(write_lock) \in Messages
  BY <1>1, TailMessage
<1>3. 1 \in At(write_lock, Head(write_lock).op)
  BY <1>2 DEF At
<1>4. \A op : At(write_lock', op) \subseteq Nat \ {0}
  BY <1>2 DEF At
<1>5. WriteInv' /\ StopInv'
  <2>1. \A j : Settled(j) => Settled(j)'
    BY DEF SettledStay, Settled
  <2>2. \A i \in At(write_lock', "query") : write_lock'[i].job \in Jobs
    BY <1>2 DEF WriteInv
  <2>3. \A i \in At(write_lock', "cancelled") : Settled(write_lock[i].job)'
    BY <1>2, <2>1 DEF StopInv
  <2>4. \A i \in At(write_lock', "timed_out") : Settled(write_lock[i].job)'
    BY <1>2, <2>1 DEF StopInv
  <2> QED
    BY <1>2, <2>1, <2>2, <2>3, <2>4 DEF WriteInv, StopInv
<1>6. ASSUME NEW op, Once(write_lock, op) PROVE Once(write_lock', op)
  BY <1>2, <1>4, <1>6 DEF Once
<1>7. ASSUME NEW op, Head(write_lock).op # op
      PROVE  At(write_lock', op) # {} <=> At(write_lock, op) # {}
  <2>1. 1 \notin At(write_lock, op)
    BY <1>2, <1>7 DEF At
  <2> QED
    BY <1>2, <2>1
<1>8. ASSUME Once(write_lock, Head(write_lock).op)
      PROVE  At(write_lock', Head(write_lock).op) = {}
  BY <1>2, <1>3, <1>4, <1>8 DEF Once
<1> QED
  BY <1>2, <1>3, <1>5, <1>6, <1>7, <1>8

LEMMA MessagesDropped ==
  ASSUME WriteInv, StopInv, SettledStay, NEW s \in Seq(Messages), NEW op,
         \A i \in At(s, "query") : s[i].job \in Jobs,
         \A i \in At(s, "cancelled") : Settled(s[i].job),
         \A i \in At(s, "timed_out") : Settled(s[i].job)
  PROVE  /\ \A o : Once(s, o) => Once(Leave(s, op), o)
         /\ \A o : At(s, o) = {} => At(Leave(s, op), o) = {}
         /\ \A i \in At(Leave(s, op), "query") : Leave(s, op)[i].job \in Jobs
         /\ \A i \in At(Leave(s, op), "cancelled") : Settled(Leave(s, op)[i].job)
         /\ \A i \in At(Leave(s, op), "timed_out") : Settled(Leave(s, op)[i].job)
<1> DEFINE r == Leave(s, op)
<1>1. PICK place \in [1..Len(r) -> 1..Len(s)] :
        /\ \A i \in 1..Len(r) : r[i] = s[place[i]]
        /\ \A i, k \in 1..Len(r) : place[i] = place[k] => i = k
  BY LeaveMessage
<1> HIDE DEF r
<1>2. \A o : \A i \in At(r, o) : i \in 1..Len(r) /\ place[i] \in At(s, o) /\ r[i] = s[place[i]]
  BY <1>1 DEF At
<1>3. ASSUME NEW o, Once(s, o) PROVE Once(r, o)
  BY <1>1, <1>2, <1>3 DEF Once
<1> QED
  BY <1>2, <1>3 DEF r

(***************************************************************************)
(* Every step keeps the invariant.                                         *)
(***************************************************************************)
LEMMA InitInv == Init => IInv
<1> SUFFICES ASSUME Init PROVE IInv
  OBVIOUS
<1>1. ActiveJobs = {} /\ \A o \in Owners : OwnersActive(o) = {}
  BY DEF Init, ActiveJobs, OwnersActive, Active
<1>2. QuotaKept
  BY <1>1, EngineConstants, FS_EmptySet DEF QuotaKept
<1>3. JobInv
  BY <1>2, EngineConstants DEF Init, JobInv, JobTypes, CompletedHasResults, NoTurns
<1>4. write_lock \in Seq(Messages) /\ \A op : At(write_lock, op) = {}
  BY DEF Init, At
<1> QED
  BY <1>1, <1>3, <1>4 DEF Init, IInv, OtherTypes, WriteInv, TaskInv, StopInv, Once,
                          NoJobWithoutEngine

\* The steps that touch neither jobs nor messages.
LEMMA QuietStep ==
  ASSUME IInv, Ready \/ Restart \/ ProcessExits \/ UNCHANGED vars
  PROVE  IInv'
<1>1. UNCHANGED <<jobVars, write_lock, draining, sent, terminated>>
  BY DEF Ready, Restart, ProcessExits, vars, processVars, writeVars
<1>2. JobInv' /\ ActiveJobs' = ActiveJobs /\ SettledStay
  BY <1>1, JobsStay DEF IInv
<1>3. WriteInv' /\ StopInv'
  BY <1>1, <1>2, MessagesStay DEF IInv, WriteInv
<1>4. OtherTypes'
  BY <1>1 DEF Ready, Restart, ProcessExits, vars, processVars, IInv, OtherTypes
<1>5. \A op : At(write_lock', op) = At(write_lock, op)
  BY <1>1 DEF At
<1>6. TaskInv'
  BY <1>5, <1>1 DEF Ready, Restart, ProcessExits, vars, writeVars, IInv, TaskInv, Once
<1>7. NoJobWithoutEngine'
  BY <1>2 DEF Ready, Restart, ProcessExits, vars, IInv, NoJobWithoutEngine
<1> QED
  BY <1>2, <1>3, <1>4, <1>6, <1>7 DEF IInv

LEMMA SpawnStep == ASSUME IInv, Spawn PROVE IInv'
<1> DEFINE m == Message("query_version", "__ready__")
<1>1. m \in Messages /\ m.op = "query_version"
  BY DEF Message, Messages
<1>2. UNCHANGED <<jobVars, draining, sent, terminated>>
  BY DEF Spawn
<1>3. JobInv' /\ ActiveJobs' = ActiveJobs /\ SettledStay
  BY <1>2, JobsStay DEF IInv
<1>4. /\ WriteInv' /\ StopInv'
      /\ \A op : At(write_lock', op) =
                   At(write_lock, op) \cup {i \in {Len(write_lock) + 1} : m.op = op}
  BY <1>1, <1>2, <1>3, MessageEnters DEF IInv, Spawn
<1>5. /\ At(write_lock', "query_version") = {Len(write_lock) + 1}
      /\ At(write_lock', "timed_out") = At(write_lock, "timed_out")
  BY <1>1, <1>4 DEF Spawn, IInv, TaskInv
<1>6. TaskInv'
  BY <1>5 DEF Spawn, IInv, TaskInv, Once
<1>7. OtherTypes' /\ NoJobWithoutEngine'
  BY <1>2, <1>3 DEF Spawn, IInv, OtherTypes, NoJobWithoutEngine
<1> QED
  BY <1>3, <1>4, <1>6, <1>7 DEF IInv

LEMMA LosesStep == ASSUME IInv, EndOfOutput \/ RoundFails PROVE IInv'
<1>1. LoseProcess /\ UNCHANGED <<writeVars, reap>> /\ supervise # "versioning"
  BY DEF EndOfOutput, RoundFails
<1>2. JobInv' /\ ActiveJobs' = {} /\ SettledStay
  BY <1>1, JobsFail DEF IInv, LoseProcess
<1>3. UNCHANGED <<write_lock, draining, reap>> /\ terminated' = {}
  BY <1>1 DEF LoseProcess, writeVars
<1>4. WriteInv' /\ StopInv'
  BY <1>2, <1>3, MessagesStay DEF IInv, WriteInv
<1>5. \A op : At(write_lock', op) = At(write_lock, op)
  BY <1>3 DEF At
<1>6. TaskInv'
  BY <1>1, <1>3, <1>5 DEF LoseProcess, IInv, TaskInv, Once
<1>7. OtherTypes' /\ NoJobWithoutEngine'
  BY <1>1, <1>2, <1>3 DEF LoseProcess, IInv, OtherTypes, NoJobWithoutEngine
<1> QED
  BY <1>2, <1>4, <1>6, <1>7 DEF IInv

LEMMA CloseStep == ASSUME IInv, Close PROVE IInv'
<1>1. JobInv' /\ SettledStay
  BY JobsStay DEF IInv, Close
<1> DEFINE once == Leave(write_lock, "query_version")
<1>2. write_lock \in Seq(Messages)
  BY DEF IInv, WriteInv
<1>3. /\ once \in Seq(Messages)
      /\ At(once, "query_version") = {}
      /\ write_lock # <<>> /\ write_lock[1].op # "query_version" =>
           once # <<>> /\ once[1] = write_lock[1]
  BY <1>2, LeaveMessage DEF IInv, TaskInv
<1>4. /\ \A o : Once(write_lock, o) => Once(once, o)
      /\ \A i \in At(once, "query") : once[i].job \in Jobs
      /\ \A i \in At(once, "cancelled") : Settled(once[i].job)
      /\ \A i \in At(once, "timed_out") : Settled(once[i].job)
  BY <1>1, <1>2, MessagesDropped DEF IInv, WriteInv, StopInv
<1> HIDE DEF once
<1>5. write_lock' = Leave(once, "timed_out")
  BY DEF Close, once
<1>6. /\ write_lock' \in Seq(Messages)
      /\ At(write_lock', "timed_out") = {}
      /\ once # <<>> /\ once[1].op # "timed_out" => write_lock' # <<>>
  BY <1>3, <1>4, <1>5, LeaveMessage DEF IInv, TaskInv
<1>7. /\ At(write_lock', "query_version") = {}
      /\ \A i \in At(write_lock', "query") : write_lock'[i].job \in Jobs
      /\ \A i \in At(write_lock', "cancelled") : Settled(write_lock'[i].job)
  BY <1>1, <1>3, <1>4, <1>5, MessagesDropped DEF IInv
<1>8. draining' => write_lock' # <<>>
  <2>1. draining => write_lock # <<>> /\ Head(write_lock) = write_lock[1]
    BY <1>2, HeadTailProperties DEF IInv, WriteInv
  <2> QED
    BY <1>3, <1>6, <2>1 DEF Close
<1>9. WriteInv'
  BY <1>6, <1>7, <1>8 DEF WriteInv
<1>10. StopInv'
  <2>1. \A j : Settled(j) => Settled(j)'
    BY <1>1 DEF SettledStay, Settled
  <2>2. \A i \in At(write_lock', "cancelled") : Settled(write_lock[i].job)'
    BY <1>7, <2>1
  <2> QED
    BY <1>6, <2>2 DEF StopInv, Close
<1>11. TaskInv'
  BY <1>6, <1>7 DEF Close, TaskInv, Once
<1>12. OtherTypes' /\ NoJobWithoutEngine'
  BY DEF Close, IInv, OtherTypes, NoJobWithoutEngine
<1> QED
  BY <1>1, <1>9, <1>10, <1>11, <1>12 DEF IInv

LEMMA SubmitStep ==
  ASSUME IInv, NEW j \in Jobs, NEW o \in Owners, Submit(j, o) PROVE IInv'
<1> DEFINE m == Message("query", j)
<1>1. m \in Messages /\ m.op = "query" /\ m.job \in Jobs
  BY DEF Message, Messages
<1>2. JobInv' /\ SettledStay
  BY JobEnters DEF IInv
<1>3. UNCHANGED <<supervise, ready, draining, reap, process, sent, terminated>>
  BY DEF Submit, processVars
<1>4. /\ WriteInv' /\ StopInv'
      /\ \A op : At(write_lock', op) =
                   At(write_lock, op) \cup {i \in {Len(write_lock) + 1} : m.op = op}
  BY <1>1, <1>2, <1>3, MessageEnters DEF IInv, Submit
<1>5. \A op \in {"query_version", "timed_out"} : At(write_lock', op) = At(write_lock, op)
  BY <1>1, <1>4
<1>6. TaskInv'
  BY <1>3, <1>5 DEF IInv, TaskInv, Once
<1>7. OtherTypes'
  BY <1>3 DEF IInv, OtherTypes
<1>8. ready /\ supervise = "reading"
  BY DEF Submit, MaySubmit, IInv, TaskInv
<1> QED
  BY <1>2, <1>3, <1>4, <1>6, <1>7, <1>8 DEF IInv, NoJobWithoutEngine

LEMMA CancelStep ==
  ASSUME IInv, NEW j \in Jobs, Cancel(j) \/ ReapTimeout(j) PROVE IInv'
<1>1. PICK reason \in {"cancelled", "timed_out"} :
        /\ CancelJob(j, reason)
        /\ reason = "cancelled" => UNCHANGED reap
        /\ reason = "timed_out" => reap = "awake" /\ reap' = "awaiting"
  BY DEF Cancel, ReapTimeout
<1> DEFINE m == Message(reason, j)
<1>2. m \in Messages /\ m.op = reason /\ m.job = j
  BY DEF Message, Messages
<1>3. JobInv' /\ ActiveJobs' = ActiveJobs /\ SettledStay /\ Settled(j)'
  BY <1>1, JobCancelled DEF IInv
<1>4. UNCHANGED <<supervise, ready, draining, process, sent, terminated>>
  BY <1>1 DEF CancelJob, processVars
<1>5. Settled(m.job)'
  BY <1>2, <1>3 DEF Settled
<1>6. write_lock' = Append(write_lock, m)
  BY <1>1 DEF CancelJob
<1> HIDE DEF m
<1>7. /\ WriteInv' /\ StopInv'
      /\ \A op : At(write_lock', op) =
                   At(write_lock, op) \cup {i \in {Len(write_lock) + 1} : m.op = op}
  BY <1>2, <1>3, <1>4, <1>5, <1>6, MessageEnters DEF IInv
<1>8. TaskInv'
  <2>1. At(write_lock', "query_version") = At(write_lock, "query_version")
    BY <1>2, <1>7
  <2>2. CASE reason = "cancelled"
    BY <1>1, <1>2, <1>4, <1>7, <2>1, <2>2 DEF IInv, TaskInv, Once
  <2>3. CASE reason = "timed_out"
    <3>1. At(write_lock', "timed_out") = {Len(write_lock) + 1}
      BY <1>1, <1>2, <1>7, <2>3 DEF IInv, TaskInv
    <3> QED
      BY <1>1, <1>4, <2>1, <2>3, <3>1 DEF IInv, TaskInv, Once
  <2> QED
    BY <2>2, <2>3
<1>9. OtherTypes' /\ NoJobWithoutEngine'
  BY <1>1, <1>3, <1>4 DEF IInv, OtherTypes, NoJobWithoutEngine
<1> QED
  BY <1>3, <1>7, <1>8, <1>9 DEF IInv

\* The steps that change jobs and send nothing.
LEMMA JobStep ==
  ASSUME IInv, NEW j \in Jobs,
         \/ ReapUnconfirmed(j) \/ ReapForget(j)
         \/ \E t \in Turns[j], noResults \in BOOLEAN : Answer(j, t, noResults)
         \/ \E turns \in SUBSET Turns[j] : AnswerFails(j, turns)
  PROVE  IInv'
<1>1. JobInv' /\ ActiveJobs' \subseteq ActiveJobs /\ SettledStay
  <2>1. CASE ReapForget(j)
    BY <2>1, JobsLeave DEF IInv, ReapForget
  <2> QED
    BY <2>1, JobUnconfirmed, JobAnswered, JobAnswerFails DEF IInv
<1>2. UNCHANGED <<supervise, ready, write_lock, draining, reap, sent, terminated>>
  BY DEF ReapUnconfirmed, ReapForget, Answer, AnswerFails, writeVars, processVars
<1>3. process' \in {process, "killed"}
  BY DEF ReapUnconfirmed, ReapForget, Answer, AnswerFails, processVars
<1>4. WriteInv' /\ StopInv'
  BY <1>1, <1>2, MessagesStay DEF IInv, WriteInv
<1>5. \A op : At(write_lock', op) = At(write_lock, op)
  BY <1>2 DEF At
<1>6. TaskInv'
  BY <1>2, <1>5 DEF IInv, TaskInv, Once
<1>7. OtherTypes' /\ NoJobWithoutEngine'
  BY <1>1, <1>2, <1>3 DEF IInv, OtherTypes, NoJobWithoutEngine
<1> QED
  BY <1>1, <1>4, <1>6, <1>7 DEF IInv

LEMMA SendStep == ASSUME IInv, WriteSends PROVE IInv'
<1> DEFINE m == Head(write_lock)
<1>1. /\ UNCHANGED <<supervise, ready, jobVars, process, write_lock, reap>>
      /\ write_lock # <<>> /\ draining' = TRUE
      /\ sent' = IF process = "alive" /\ m.op = "query" THEN sent \cup {m.job} ELSE sent
      /\ terminated' = IF process = "alive" /\ m.op \in {"cancelled", "timed_out"}
                         THEN terminated \cup (sent \cap {m.job}) ELSE terminated
  BY DEF WriteSends
<1>2. JobInv' /\ ActiveJobs' = ActiveJobs /\ \A j : Settled(j)' = Settled(j)
  BY <1>1, JobsStay DEF IInv, Settled, jobVars
<1>3. m = write_lock[1] /\ 1 \in At(write_lock, m.op)
  BY <1>1, TailMessage DEF IInv, WriteInv, At
<1>4. /\ m.op = "query" => m.job \in Jobs
      /\ m.op \in {"cancelled", "timed_out"} => Settled(m.job)
  BY <1>3 DEF IInv, WriteInv, StopInv
<1> HIDE DEF m
<1>5. \A op : At(write_lock', op) = At(write_lock, op)
  BY <1>1 DEF At
<1>6. WriteInv' /\ TaskInv'
  BY <1>1, <1>5 DEF IInv, WriteInv, TaskInv, Once
<1>7. \A j \in terminated' : Settled(j)'
  BY <1>1, <1>2, <1>4 DEF IInv, StopInv
<1>8. StopInv'
  <2>1. /\ \A i \in At(write_lock, "cancelled") : Settled(write_lock[i].job)'
        /\ \A i \in At(write_lock, "timed_out") : Settled(write_lock[i].job)'
    BY <1>1, <1>2 DEF IInv, StopInv, Settled
  <2> QED
    BY <1>5, <1>7, <2>1 DEF StopInv
<1>9. OtherTypes' /\ NoJobWithoutEngine'
  BY <1>1, <1>2, <1>4 DEF IInv, OtherTypes, NoJobWithoutEngine
<1> QED
  BY <1>2, <1>6, <1>8, <1>9 DEF IInv

LEMMA WriteStep ==
  ASSUME IInv, write_lock # <<>>, NEW ok \in BOOLEAN, AfterWrite(Head(write_lock), ok)
  PROVE  IInv'
<1> DEFINE m == Head(write_lock)
<1>1. /\ write_lock' = Tail(write_lock) /\ draining' = FALSE
      /\ \/ /\ m.op = "query"
            /\ Pop(IF ok THEN {} ELSE jobs \cap {m.job})
            /\ UNCHANGED <<supervise, ready, processVars, reap>>
         \/ /\ m.op = "cancelled"
            /\ UNCHANGED <<supervise, ready, jobVars, processVars, reap>>
         \/ /\ m.op = "timed_out" /\ reap' = "awake"
            /\ UNCHANGED <<supervise, ready, jobVars, processVars>>
         \/ /\ m.op = "query_version" /\ supervise' = "starting"
            /\ UNCHANGED <<ready, jobVars, processVars, reap>>
         \/ m.op = "query_version" /\ LoseProcess /\ UNCHANGED reap
  BY DEF AfterWrite, ReapGoesOn
<1>2. JobInv' /\ SettledStay /\ (ActiveJobs' \subseteq ActiveJobs)
  <2>1. CASE Pop(IF ok THEN {} ELSE jobs \cap {m.job})
    BY <2>1, JobsLeave DEF IInv
  <2>2. CASE UNCHANGED jobVars
    BY <2>2, JobsStay DEF IInv
  <2>3. CASE LoseProcess
    BY <2>3, JobsFail DEF IInv, LoseProcess
  <2> QED
    BY <1>1, <2>1, <2>2, <2>3
<1>3. /\ UNCHANGED <<sent, terminated>> \/ (sent' = {} /\ terminated' = {})
      /\ process' \in {process, "killed"}
  <2>1. CASE UNCHANGED processVars
    BY <2>1 DEF processVars
  <2>2. CASE LoseProcess
    BY <2>2 DEF LoseProcess
  <2> QED
    BY <1>1, <2>1, <2>2
<1>4. terminated' \subseteq terminated
  BY <1>3
<1>5. /\ WriteInv' /\ StopInv'
      /\ \A op : Once(write_lock, op) => Once(write_lock', op)
      /\ \A op : m.op # op => (At(write_lock', op) # {} <=> At(write_lock, op) # {})
      /\ Once(write_lock, m.op) => At(write_lock', m.op) = {}
      /\ At(write_lock, m.op) # {}
  BY <1>1, <1>2, <1>4, MessageLeaves DEF IInv
<1> HIDE DEF m
<1>6. m.op = "query_version" => supervise = "versioning" /\ ActiveJobs = {} /\ ~ready
  BY <1>5 DEF IInv, TaskInv, NoJobWithoutEngine
<1>7. TaskInv'
  <2>1. Once(write_lock', "query_version") /\ Once(write_lock', "timed_out")
    BY <1>5 DEF IInv, TaskInv
  <2>2. CASE m.op \in {"query", "cancelled"}
    BY <1>1, <1>5, <2>1, <2>2 DEF IInv, TaskInv
  <2>3. CASE m.op = "timed_out"
    BY <1>1, <1>5, <2>1, <2>3 DEF IInv, TaskInv
  <2>4. CASE m.op = "query_version"
    <3>1. At(write_lock', "query_version") = {} /\ supervise' \in {"starting", "killing"}
          /\ ~ready' /\ UNCHANGED reap
      BY <1>1, <1>5, <1>6, <2>4 DEF IInv, TaskInv, LoseProcess
    <3>2. At(write_lock', "timed_out") # {} <=> At(write_lock, "timed_out") # {}
      BY <1>5, <2>4
    <3> QED
      BY <2>1, <3>1, <3>2 DEF IInv, TaskInv
  <2> QED
    BY <1>1, <2>2, <2>3, <2>4
<1>8. OtherTypes'
  BY <1>1, <1>3 DEF IInv, OtherTypes, LoseProcess
<1>9. NoJobWithoutEngine'
  <2>1. CASE m.op = "query_version"
    BY <1>2, <1>6, <2>1 DEF NoJobWithoutEngine
  <2>2. CASE m.op # "query_version"
    BY <1>1, <1>2, <2>2 DEF IInv, NoJobWithoutEngine
  <2> QED
    BY <2>1, <2>2
<1> QED
  BY <1>2, <1>5, <1>7, <1>8, <1>9 DEF IInv

THEOREM Inductive == Spec => []IInv
<1>1. ASSUME IInv, [Next]_vars PROVE IInv'
  <2>1. CASE WriteFails
    BY <1>1, <2>1, WriteStep DEF WriteFails
  <2>2. CASE WriteEnds
    BY <1>1, <2>2, WriteStep DEF WriteEnds, IInv, WriteInv
  <2>3. CASE \E j \in Jobs :
               \/ Cancel(j) \/ \E o \in Owners : Submit(j, o)
               \/ ReapTimeout(j) \/ ReapUnconfirmed(j) \/ ReapForget(j)
               \/ \E t \in Turns[j], noResults \in BOOLEAN : Answer(j, t, noResults)
               \/ \E turns \in SUBSET Turns[j] : AnswerFails(j, turns)
    BY <1>1, <2>3, SubmitStep, CancelStep, JobStep
  <2> QED
    BY <1>1, <2>1, <2>2, <2>3, QuietStep, SpawnStep, LosesStep, CloseStep, SendStep DEF Next
<1> QED
  BY <1>1, InitInv, PTL DEF Spec

(***************************************************************************)
(* The theorems.                                                           *)
(***************************************************************************)
\* Every variable of the engine and its jobs keeps its type; a job has a
\* status, an owner and results exactly while it is in the dictionary.
THEOREM TypeCorrect == Spec => []TypeOK
<1>1. ASSUME IInv PROVE TypeOK
  <2>1. \A i \in 1..Len(write_lock) : write_lock[i] \in Messages
    BY <1>1, ElementOfSeq DEF IInv, WriteInv
  <2> QED
    BY <1>1, <2>1 DEF IInv, JobInv, JobTypes, OtherTypes, Messages, TypeOK
<1> QED
  BY <1>1, Inductive, PTL

\* No job is in progress while the process is loading, lost or replaced:
\* submit tests ready in the stretch in which it enters the job, and the
\* exception handler resets ready in the one in which it fails the jobs.
THEOREM EngineBehindJobs == Spec => []NoJobWithoutEngine
<1>1. IInv => NoJobWithoutEngine
  BY DEF IInv
<1> QED
  BY <1>1, Inductive, PTL

\* Neither the jobs in progress nor those of one owner exceed their limit, the
\* cancelled ones that the process has not confirmed included.
THEOREM Quotas == Spec => []QuotaKept
<1>1. IInv => QuotaKept
  BY DEF IInv, JobInv
<1> QED
  BY <1>1, Inductive, PTL

\* A completed job has the final result of every turn: no termination reaches
\* the process for a job that still runs, so no answer of such a job is empty.
THEOREM CompletedIsComplete == Spec => []CompletedHasResults
<1>1. IInv => CompletedHasResults
  BY DEF IInv, JobInv
<1> QED
  BY <1>1, Inductive, PTL

(***************************************************************************)
(* Every step is one of JobBoard, or changes nothing of it.                *)
(***************************************************************************)
JobState(j) ==
  IF status[j] \in {"cancelled", "timed_out"}
    THEN IF cancel_deadline[j] THEN "stopping" ELSE "stopped"
    ELSE status[j]

BoardSteps == Board!Init /\ [][Board!Next]_Board!boardVars

LEMMA JobMoves ==
  ASSUME NEW j \in Jobs, NEW from, NEW to, JobState(j) \in from, JobState(j)' = to,
         \A i \in Jobs \ {j} : JobState(i)' = JobState(i),
         (supervise # "closed")' = (supervise # "closed")
  PROVE  Board!Step(j, from, to)
BY DEF Board!Step, JobState

LEMMA NothingMoves ==
  ASSUME \A i \in Jobs : JobState(i)' = JobState(i),
         (supervise # "closed")' = (supervise # "closed")
  PROVE  UNCHANGED Board!boardVars
BY DEF Board!boardVars, JobState

\* The jobs that are forgotten: one at a time.
LEMMA PopRefines ==
  ASSUME JobInv, NEW gone \in SUBSET jobs, Pop(gone), UNCHANGED supervise,
         \A i, k \in gone : i = k
  PROVE  [Board!Next]_Board!boardVars
<1>1. \A i \in Jobs \ gone : JobState(i)' = JobState(i)
  BY DEF JobInv, JobTypes, Pop, JobState
<1>2. CASE gone = {}
  BY <1>1, <1>2, NothingMoves
<1>3. CASE gone # {}
  <2>1. PICK j \in gone : gone = {j}
    BY <1>3
  <2>2. j \in Jobs /\ JobState(j)' = "gone"
    BY <2>1 DEF JobInv, JobTypes, Pop, JobState
  <2>3. JobState(j) \in Board!States \ {"none", "gone"}
    BY <2>1 DEF JobInv, JobTypes, JobState, Board!States
  <2>4. Board!Step(j, Board!States \ {"none", "gone"}, "gone")
    BY <1>1, <2>1, <2>2, <2>3, JobMoves
  <2> QED
    BY <2>2, <2>4 DEF Board!Next, Board!Forget
<1> QED
  BY <1>2, <1>3

LEMMA LossRefines ==
  ASSUME JobInv, LoseProcess, supervise # "closed"
  PROVE  [Board!Next]_Board!boardVars
<1>1. \A j \in Jobs : Active(j) <=> JobState(j) \in {"running", "stopping"}
  BY DEF JobInv, JobTypes, Active, JobState
<1>2. \A j \in Jobs :
        JobState(j)' = IF JobState(j) \in {"running", "stopping"} THEN "failed" ELSE JobState(j)
  BY <1>1 DEF JobInv, JobTypes, LoseProcess, FailJobs, JobState
<1>3. (supervise # "closed")' = (supervise # "closed")
  BY DEF LoseProcess
<1>4. Board!LoseEngine
  BY <1>2, <1>3 DEF Board!LoseEngine, JobState
<1> QED
  BY <1>4 DEF Board!Next

LEMMA SubmitRefines ==
  ASSUME IInv, NEW j \in Jobs, NEW o \in Owners, Submit(j, o)
  PROVE  [Board!Next]_Board!boardVars
<1>1. supervise # "closed" /\ UNCHANGED supervise
  BY DEF Submit, MaySubmit, IInv, TaskInv
<1>2. /\ JobState(j) \in {"none"} /\ JobState(j)' = "running"
      /\ \A i \in Jobs \ {j} : JobState(i)' = JobState(i)
  BY DEF Submit, JobState, IInv, JobInv, JobTypes
<1>3. Board!Step(j, {"none"}, "running")
  BY <1>1, <1>2, JobMoves
<1>4. Board!Submit(j)
  BY <1>1, <1>3 DEF Board!Submit
<1> QED
  BY <1>4 DEF Board!Next

LEMMA CancelRefines ==
  ASSUME IInv, NEW j \in Jobs, Cancel(j) \/ ReapTimeout(j)
  PROVE  [Board!Next]_Board!boardVars
<1>1. PICK reason \in {"cancelled", "timed_out"} : CancelJob(j, reason)
  BY DEF Cancel, ReapTimeout
<1>2. /\ JobState(j) \in {"running"} /\ JobState(j)' = "stopping"
      /\ \A i \in Jobs \ {j} : JobState(i)' = JobState(i)
      /\ UNCHANGED supervise
  BY <1>1 DEF CancelJob, JobState, IInv, JobInv, JobTypes
<1>3. Board!Step(j, {"running"}, "stopping")
  BY <1>2, JobMoves
<1>4. Board!EndRun(j)
  BY <1>3 DEF Board!EndRun
<1> QED
  BY <1>4 DEF Board!Next

\* An active job that ends while it runs, or is confirmed as stopped.
LEMMA EndRefines ==
  ASSUME JobInv, NEW j \in Jobs, UNCHANGED supervise,
         \A i \in Jobs \ {j} : JobState(i)' = JobState(i),
         \/ JobState(j)' = JobState(j)
         \/ JobState(j) = "running" /\ JobState(j)' \in {"completed", "failed", "stopping"}
         \/ JobState(j) = "stopping" /\ JobState(j)' \in {"stopped", "failed"}
  PROVE  [Board!Next]_Board!boardVars
<1>1. CASE JobState(j)' = JobState(j)
  BY <1>1, NothingMoves
<1>2. ASSUME JobState(j) = "running", NEW to \in {"completed", "failed", "stopping"},
             JobState(j)' = to
      PROVE  Board!EndRun(j)
  <2>1. Board!Step(j, {"running"}, to)
    BY <1>2, JobMoves
  <2> QED
    BY <2>1 DEF Board!EndRun
<1>3. ASSUME JobState(j) = "stopping", NEW to \in {"stopped", "failed"}, JobState(j)' = to
      PROVE  Board!Confirm(j)
  <2>1. Board!Step(j, {"stopping"}, to)
    BY <1>3, JobMoves
  <2> QED
    BY <2>1 DEF Board!Confirm
<1> QED
  BY <1>1, <1>2, <1>3 DEF Board!Next

LEMMA UnconfirmedRefines ==
  ASSUME IInv, NEW j \in Jobs, ReapUnconfirmed(j)
  PROVE  [Board!Next]_Board!boardVars
<1>1. /\ JobState(j) = "stopping" /\ JobState(j)' = "stopped"
      /\ \A i \in Jobs \ {j} : JobState(i)' = JobState(i)
      /\ UNCHANGED supervise
  BY DEF ReapUnconfirmed, JobState, IInv, JobInv, JobTypes
<1> QED
  BY <1>1, EndRefines DEF IInv

LEMMA AnswerRefines ==
  ASSUME IInv, NEW j \in Jobs, NEW t \in Turns[j], NEW noResults \in BOOLEAN,
         Answer(j, t, noResults)
  PROVE  [Board!Next]_Board!boardVars
<1>1. CASE ~Heard(j)
  <2>1. UNCHANGED <<status, cancel_deadline, supervise>>
    BY <1>1 DEF Answer
  <2> QED
    BY <2>1, NothingMoves DEF JobState
<1>2. CASE Heard(j)
  <2> DEFINE done == finished_turns[j] \cup {t} = Turns[j]
  <2>1. /\ cancel_deadline' = [cancel_deadline EXCEPT ![j] = @ /\ ~done]
        /\ status' = [status EXCEPT ![j] = IF done /\ @ = "running" THEN "completed" ELSE @]
        /\ UNCHANGED supervise
    BY <1>2 DEF Answer, FinishTurn
  <2>2. status[j] = "running" \/ cancel_deadline[j]
    BY <1>2 DEF Heard, Active
  <2> HIDE DEF done
  <2>3. \A i \in Jobs \ {j} : JobState(i)' = JobState(i)
    BY <2>1 DEF JobState, IInv, JobInv, JobTypes
  <2>4. \/ JobState(j)' = JobState(j)
        \/ JobState(j) = "running" /\ JobState(j)' = "completed"
        \/ JobState(j) = "stopping" /\ JobState(j)' = "stopped"
    BY <2>1, <2>2 DEF JobState, IInv, JobInv, JobTypes
  <2> QED
    BY <2>1, <2>3, <2>4, EndRefines DEF IInv
<1> QED
  BY <1>1, <1>2

LEMMA AnswerFailsRefines ==
  ASSUME IInv, NEW j \in Jobs, NEW turns \in SUBSET Turns[j], AnswerFails(j, turns)
  PROVE  [Board!Next]_Board!boardVars
<1> DEFINE heard == Heard(j)
<1>1. /\ status' = [status EXCEPT ![j] = IF heard THEN "failed" ELSE @]
      /\ cancel_deadline' = [cancel_deadline EXCEPT ![j] = @ /\ ~heard]
      /\ UNCHANGED supervise
  BY DEF AnswerFails
<1>2. heard => status[j] = "running" \/ cancel_deadline[j]
  BY DEF Heard, Active
<1> HIDE DEF heard
<1>3. \A i \in Jobs \ {j} : JobState(i)' = JobState(i)
  BY <1>1 DEF JobState, IInv, JobInv, JobTypes
<1>4. \/ JobState(j)' = JobState(j)
      \/ JobState(j) \in {"running", "stopping"} /\ JobState(j)' = "failed"
  BY <1>1, <1>2 DEF JobState, IInv, JobInv, JobTypes
<1> QED
  BY <1>1, <1>3, <1>4, EndRefines DEF IInv

LEMMA WriteRefines ==
  ASSUME IInv, write_lock # <<>>, NEW ok \in BOOLEAN, AfterWrite(Head(write_lock), ok)
  PROVE  [Board!Next]_Board!boardVars
<1> DEFINE m == Head(write_lock)
<1>1. At(write_lock, m.op) # {}
  BY TailMessage DEF IInv, WriteInv, At
<1> HIDE DEF m
<1>2. CASE m.op = "query"
  <2> DEFINE gone == IF ok THEN {} ELSE jobs \cap {m.job}
  <2>1. Pop(gone) /\ UNCHANGED supervise /\ gone \in SUBSET jobs /\ \A i, k \in gone : i = k
    BY <1>2 DEF AfterWrite, m
  <2> HIDE DEF gone
  <2> QED
    BY <2>1, PopRefines DEF IInv
<1>3. CASE m.op \in {"cancelled", "timed_out"}
  <2>1. UNCHANGED <<supervise, jobVars>>
    BY <1>3 DEF AfterWrite, m
  <2> QED
    BY <2>1, NothingMoves DEF JobState, jobVars
<1>4. CASE m.op = "query_version"
  <2>1. supervise = "versioning"
    BY <1>1, <1>4 DEF IInv, TaskInv
  <2>2. CASE LoseProcess
    BY <2>1, <2>2, LossRefines DEF IInv
  <2>3. CASE supervise' = "starting" /\ UNCHANGED jobVars
    BY <2>1, <2>3, NothingMoves DEF JobState, jobVars
  <2> QED
    BY <1>4, <2>2, <2>3 DEF AfterWrite, m
<1> QED
  BY <1>2, <1>3, <1>4 DEF AfterWrite, m

LEMMA StepRefines == IInv /\ [Next]_vars => [Board!Next]_Board!boardVars
<1> SUFFICES ASSUME IInv, [Next]_vars PROVE [Board!Next]_Board!boardVars
  OBVIOUS
<1>1. CASE Spawn \/ Ready \/ Restart \/ ProcessExits \/ WriteSends \/ UNCHANGED vars
  <2>1. UNCHANGED jobVars /\ (supervise # "closed")' = (supervise # "closed")
    BY <1>1 DEF Spawn, Ready, Restart, ProcessExits, WriteSends, vars
  <2> QED
    BY <2>1, NothingMoves DEF JobState, jobVars
<1>2. CASE EndOfOutput \/ RoundFails
  BY <1>2, LossRefines DEF EndOfOutput, RoundFails, IInv
<1>3. CASE Close
  <2>1. UNCHANGED <<status, cancel_deadline>> /\ supervise' = "closed"
    BY <1>3 DEF Close, jobVars
  <2>2. Board!Close
    BY <2>1 DEF Board!Close
  <2> QED
    BY <2>2 DEF Board!Next
<1>4. CASE WriteFails
  BY <1>4, WriteRefines DEF WriteFails
<1>5. CASE WriteEnds
  BY <1>5, WriteRefines DEF WriteEnds, IInv, WriteInv
<1>6. ASSUME NEW j \in Jobs, ReapForget(j) PROVE [Board!Next]_Board!boardVars
  BY <1>6, PopRefines DEF ReapForget, IInv
<1> QED
  BY <1>1, <1>2, <1>3, <1>4, <1>5, <1>6, SubmitRefines, CancelRefines, UnconfirmedRefines,
     AnswerRefines, AnswerFailsRefines
  DEF Next

\* Every behaviour of the engine's jobs is one of JobBoard, its fairness aside.
THEOREM Refinement == Spec => BoardSteps
<1>1. Init => Board!Init
  BY DEF Init, Board!Init
<1> QED
  BY <1>1, Inductive, StepRefines, PTL DEF Spec, BoardSteps
=============================================================================
