------------------------------ MODULE WebPool ------------------------------
(***************************************************************************)
(* EnginePool (web_service/engine_pool.py): the teacher L9 and up to two   *)
(* opponent engines, started when first needed and closed for another      *)
(* when idle.  submit holds pool.lock from the quota check to the end of   *)
(* the write, through four awaits; engines, cancellations and polls        *)
(* (GET /api/analyze/{id}, which reads pool.jobs) go on meanwhile.         *)
(*                                                                         *)
(* Each engine is what WebEngine promises: it is ready or fails, and its   *)
(* jobs end.  max_positions, the third quota, is left out.                 *)
(***************************************************************************)
EXTENDS Naturals, FiniteSets, SequencesExt

CONSTANTS FILENAMES,               \* the keys of the models
          L9, Jobs, ModelOf, OwnerOf,
          MaxWorkers, MaxRetired,  \* 3 and 64 in the code
          max_jobs, max_owner_jobs,
          None

ASSUME PoolConstants ==
  /\ IsFiniteSet(FILENAMES) /\ L9 \in FILENAMES /\ None \notin FILENAMES
  /\ ModelOf \in [Jobs -> FILENAMES]
  /\ MaxWorkers \in Nat \ {0, 1} /\ MaxRetired \in Nat
  /\ max_jobs \in Nat /\ max_owner_jobs \in Nat

VARIABLES
  pc,          \* each submit: waiting (not called yet, or for the lock), evicting,
               \* loading, writing, done or refused
  workers,     \* the keys of self.workers
  victim,      \* the worker whose close is awaited
  engine,      \* each worker: loading, ready or failed
  last_used,   \* the order of use: 0 for never
  jobs,        \* each worker's jobs, in the order they were submitted
  retired_jobs,
  status       \* cancelled: not confirmed yet, so still active

poolVars == <<workers, victim, last_used, retired_jobs>>
vars == <<pc, poolVars, engine, jobs, status>>

Init ==
  /\ pc = [j \in Jobs |-> "waiting"]
  /\ workers = {L9} /\ victim = None
  /\ engine = [key \in FILENAMES |-> "loading"]
  /\ last_used = [key \in FILENAMES |-> 0]
  /\ jobs = [key \in FILENAMES |-> <<>>] /\ retired_jobs = <<>>
  /\ status = [j \in Jobs |-> "none"]

Active(j) == status[j] \in {"running", "cancelled"}
PoolJobs == Range(retired_jobs) \cup UNION {Range(jobs[key]) : key \in workers}

(***************************************************************************)
(* submit.                                                                 *)
(***************************************************************************)
BrokenLockFree == TRUE

LockFree == \A j \in Jobs : pc[j] \notin {"evicting", "loading", "writing"}

WithinQuota(j) ==
  LET active == {i \in PoolJobs : Active(i)} IN
  /\ Cardinality(active) < max_jobs
  /\ Cardinality({i \in active : OwnerOf[i] = OwnerOf[j]}) < max_owner_jobs

BrokenIdle == {key \in workers \ {L9} : \A j \in Range(jobs[key]) : status[j] # "running"}

Idle == {key \in workers \ {L9} : \A j \in Range(jobs[key]) : ~Active(j)}

\* Too many jobs, no model file, or nobody to evict.
Refuse(j) ==
  /\ pc[j] = "waiting" /\ LockFree
  /\ pc' = [pc EXCEPT ![j] = "refused"]
  /\ UNCHANGED <<poolVars, engine, jobs, status>>

StartWorker(key) ==
  /\ workers' = workers \cup {key}
  /\ engine' = [engine EXCEPT ![key] = IF key \in workers THEN @ ELSE "loading"]

Enter(j) ==
  /\ pc[j] = "waiting" /\ LockFree /\ WithinQuota(j)
  /\ ModelOf[j] \in workers \/ Cardinality(workers) < MaxWorkers
  /\ pc' = [pc EXCEPT ![j] = "loading"]
  /\ StartWorker(ModelOf[j])
  /\ UNCHANGED <<victim, last_used, retired_jobs, jobs, status>>

Evict(j) ==
  /\ pc[j] = "waiting" /\ LockFree /\ WithinQuota(j)
  /\ ModelOf[j] \notin workers /\ Cardinality(workers) >= MaxWorkers
  /\ \E key \in Idle :
       /\ \A other \in Idle : last_used[key] <= last_used[other]
       /\ workers' = workers \ {key} /\ victim' = key
  /\ pc' = [pc EXCEPT ![j] = "evicting"]
  /\ UNCHANGED <<last_used, retired_jobs, engine, jobs, status>>

\* The last MaxRetired jobs of the pool's and the victim's are kept.
Newest(s) == IF Len(s) <= MaxRetired THEN s ELSE SubSeq(s, Len(s) - MaxRetired + 1, Len(s))

BrokenRetire(s) == retired_jobs' = Newest(s)

Retire(s) == retired_jobs' = Newest(retired_jobs \o s)

\* worker.close returned.
Evicted(j) ==
  /\ pc[j] = "evicting"
  /\ Retire(jobs[victim])
  /\ status' = [i \in Jobs |->
       IF i \in Range(retired_jobs \o jobs[victim]) \ Range(Newest(retired_jobs \o jobs[victim]))
         THEN "gone" ELSE status[i]]
  /\ jobs' = [jobs EXCEPT ![victim] = <<>>] /\ victim' = None
  /\ pc' = [pc EXCEPT ![j] = "loading"]
  /\ StartWorker(ModelOf[j])
  /\ UNCHANGED last_used

\* Ranks stand for the times of use: key is now the last.
Used(key) ==
  last_used' = [k \in FILENAMES |->
    IF k = key THEN Cardinality(FILENAMES)
    ELSE IF last_used[k] > last_used[key] THEN last_used[k] - 1 ELSE last_used[k]]

\* The wait ends, and worker.submit enters the job up to its write.
Loaded(j) ==
  /\ pc[j] = "loading" /\ engine[ModelOf[j]] = "ready"
  /\ Used(ModelOf[j])
  /\ jobs' = [jobs EXCEPT ![ModelOf[j]] = Append(@, j)]
  /\ status' = [status EXCEPT ![j] = "running"]
  /\ pc' = [pc EXCEPT ![j] = "writing"]
  /\ UNCHANGED <<workers, victim, retired_jobs, engine>>

\* The worker reports an error, or the startup timeout passes.
BrokenGivesUp(key) == engine[key] = "failed"

GivesUp(key) == engine[key] # "ready"

LoadFails(j) ==
  /\ pc[j] = "loading" /\ GivesUp(ModelOf[j])
  /\ pc' = [pc EXCEPT ![j] = "refused"]
  /\ UNCHANGED <<poolVars, engine, jobs, status>>

Written(j) ==
  /\ pc[j] = "writing" /\ pc' = [pc EXCEPT ![j] = "done"]
  /\ UNCHANGED <<poolVars, engine, jobs, status>>

\* A job leaves its worker: not written, too old, or one too many.
Without(s, j) ==
  IF j \in Range(s) THEN RemoveAt(s, CHOOSE i \in DOMAIN s : s[i] = j) ELSE s
LeaveWorker(j) ==
  /\ jobs' = [jobs EXCEPT ![ModelOf[j]] = Without(@, j)]
  /\ status' = [status EXCEPT ![j] = "gone"]

WriteFails(j) ==
  /\ pc[j] = "writing" /\ pc' = [pc EXCEPT ![j] = "refused"]
  /\ LeaveWorker(j)
  /\ UNCHANGED <<poolVars, engine>>

(***************************************************************************)
(* Meanwhile: cancel, and what the engines do by themselves.               *)
(***************************************************************************)
OnWorker(j) == ModelOf[j] \in workers /\ j \in Range(jobs[ModelOf[j]])

Cancel(j) ==
  /\ status[j] = "running" /\ OnWorker(j)
  /\ status' = [status EXCEPT ![j] = "cancelled"]
  /\ UNCHANGED <<pc, poolVars, engine, jobs>>

JobEnds(j) ==
  /\ Active(j) /\ OnWorker(j) /\ engine[ModelOf[j]] = "ready"
  /\ status' = [status EXCEPT ![j] = "ended"]
  /\ UNCHANGED <<pc, poolVars, engine, jobs>>

Reap(j) ==
  /\ status[j] = "ended" /\ OnWorker(j)
  /\ LeaveWorker(j)
  /\ UNCHANGED <<pc, poolVars, engine>>

EngineReady(key) ==
  /\ key \in workers /\ engine[key] # "ready"
  /\ engine' = [engine EXCEPT ![key] = "ready"]
  /\ UNCHANGED <<pc, poolVars, jobs, status>>

EngineFails(key) ==
  /\ key \in workers /\ engine[key] # "failed"
  /\ engine' = [engine EXCEPT ![key] = "failed"]
  /\ status' = [j \in Jobs |->
       IF Active(j) /\ j \in Range(jobs[key]) THEN "ended" ELSE status[j]]
  /\ UNCHANGED <<pc, poolVars, jobs>>

Submission(j) ==
  \/ Refuse(j) \/ Enter(j) \/ Evict(j) \/ Evicted(j)
  \/ Loaded(j) \/ LoadFails(j) \/ Written(j) \/ WriteFails(j)

Next ==
  \/ \E j \in Jobs : Submission(j) \/ Cancel(j) \/ JobEnds(j) \/ Reap(j)
  \/ \E key \in FILENAMES : EngineReady(key) \/ EngineFails(key)

\* Every await of submit ends: close kills after ten seconds, the wait for the
\* model and the write have deadlines.
Fairness ==
  \A j \in Jobs :
    /\ WF_vars(Evicted(j)) /\ WF_vars(Loaded(j) \/ LoadFails(j))
    /\ WF_vars(Written(j) \/ WriteFails(j))

Spec == Init /\ [][Next]_vars /\ Fairness

(***************************************************************************)
(* Properties.                                                             *)
(***************************************************************************)
\* Every variable has its type, and no job is in two places.
TypeOK ==
  /\ pc \in [Jobs -> {"waiting", "evicting", "loading", "writing", "done", "refused"}]
  /\ L9 \in workers /\ workers \subseteq FILENAMES
  /\ victim \in (FILENAMES \ workers) \cup {None}
  /\ engine \in [FILENAMES -> {"loading", "ready", "failed"}]
  /\ last_used \in [FILENAMES -> 0..Cardinality(FILENAMES)]
  /\ status \in [Jobs -> {"none", "running", "cancelled", "ended", "gone"}]
  /\ retired_jobs \in Seq(Jobs) /\ Len(retired_jobs) <= MaxRetired
  /\ \A key \in FILENAMES : \A i \in DOMAIN jobs[key] :
       /\ ModelOf[jobs[key][i]] = key
       /\ jobs[key][i] \notin Range(retired_jobs)
  /\ \A key \in FILENAMES \ (workers \cup {victim}) : jobs[key] = <<>>

\* At most two engines beside the teacher share its graphics card, those that
\* are still closing included ("at most two additional models", README.md of
\* web_service).
ResidentBound ==
  Cardinality(workers) + (IF victim = None THEN 0 ELSE 1) <= MaxWorkers

\* The quota holds over all engines together, although a submission that
\* passed the check may wait minutes for its model before it counts.
PoolQuotaKept ==
  LET active == {j \in Jobs : Active(j)} IN
  /\ Cardinality(active) <= max_jobs
  /\ \A j \in Jobs : Cardinality({i \in active : OwnerOf[i] = OwnerOf[j]}) <= max_owner_jobs

\* An active job is on an engine that is there: it can be cancelled, times out
\* and ends.  One lost with a closed engine would use up its owner's quota.
ActiveReachable == \A j \in Jobs : Active(j) => OnWorker(j)

\* Besides, between submissions a poll finds every job that was accepted and not
\* forgotten, on whichever engine it ran and whether or not that was evicted.
JobsKept ==
  /\ ActiveReachable
  /\ LockFree => \A j \in Jobs : status[j] \notin {"none", "gone"} => j \in PoolJobs

\* A poll always finds such a job ("Clients recover complete results through
\* GET /api/analyze/{id}").
JobsRecoverable ==
  \A j \in Jobs : pc[j] = "done" /\ status[j] # "gone" => j \in PoolJobs

\* Nobody keeps the lock for good, whatever the engine it waits for does: the
\* lock is handed on in order, so every submission is answered.
LockReleased == []<>LockFree
=============================================================================
