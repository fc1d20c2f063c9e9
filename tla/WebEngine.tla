----------------------------- MODULE WebEngine -----------------------------
(***************************************************************************)
(* Engine (web_service/engine.py): one KataGo analysis process and the     *)
(* jobs submitted to it.  The coroutines are _supervise (restarts the      *)
(* process and reads its answers), _reap (deadlines, once a second), and   *)
(* one per API call (submit, cancel).  asyncio runs them one at a time     *)
(* and switches only at an await, so each stretch between two awaits is    *)
(* one action.  The awaits that matter are those of write: for the lock,   *)
(* and for the pipe to drain.                                              *)
(*                                                                         *)
(* The process is external: it answers each turn of each query it was sent *)
(* exactly once (AnalysisEngine), in any order, or hangs, or dies.         *)
(* Deadlines pass whenever they like.                                      *)
(***************************************************************************)
EXTENDS Naturals, FiniteSets, SequencesExt

CONSTANTS Jobs, Turns,                \* each job's analyzeTurns
          Owners, Nobody,             \* the sessions jobs are submitted for
          Human,                      \* jobs played by human_move
          max_jobs, max_owner_jobs

ASSUME EngineConstants ==
  /\ IsFiniteSet(Jobs) /\ Human \subseteq Jobs
  /\ \A j \in Jobs : IsFiniteSet(Turns[j]) /\ Turns[j] # {}
  /\ Nobody \notin Owners
  /\ max_jobs \in Nat /\ max_owner_jobs \in Nat

VARIABLES
  supervise, ready,      \* where _supervise is, and self.ready
  process,               \* "killed" has no returncode yet
  jobs, owner, status, cancel_deadline, finished_turns,
  results,               \* the turns whose final answer is stored
  write_lock,            \* the messages whose write waits for the lock, or has it
  draining,              \* the first of them was sent and waits for the pipe
  reap,                  \* whether _reap awaits its cancel
  sent, terminated, answered   \* the process: queries, terminations, answers

jobVars == <<jobs, owner, status, cancel_deadline, finished_turns, results>>
processVars == <<process, sent, terminated, answered>>
writeVars == <<write_lock, draining>>
vars == <<supervise, ready, jobVars, processVars, writeVars, reap>>

NoTurns == [j \in Jobs |-> {}]

Init ==
  /\ supervise = "spawn" /\ ready = FALSE /\ process = "none"
  /\ jobs = {} /\ owner = [j \in Jobs |-> Nobody] /\ status = [j \in Jobs |-> "none"]
  /\ cancel_deadline = [j \in Jobs |-> FALSE]
  /\ finished_turns = NoTurns /\ results = NoTurns
  /\ write_lock = <<>> /\ draining = FALSE /\ reap = "awake"
  /\ sent = {} /\ terminated = {} /\ answered = NoTurns

Active(j) == j \in jobs /\ (status[j] = "running" \/ cancel_deadline[j])
ActiveJobs == {j \in Jobs : Active(j)}
OwnersActive(o) == {j \in ActiveJobs : owner[j] = o}

\* The jobs leave the dictionary: nothing leads to them any more.
Pop(gone) ==
  /\ jobs' = jobs \ gone
  /\ owner' = [j \in Jobs |-> IF j \in gone THEN Nobody ELSE owner[j]]
  /\ status' = [j \in Jobs |-> IF j \in gone THEN "gone" ELSE status[j]]
  /\ cancel_deadline' = [j \in Jobs |-> cancel_deadline[j] /\ j \notin gone]
  /\ finished_turns' = [j \in Jobs |-> finished_turns[j] \ {t \in Turns[j] : j \in gone}]
  /\ results' = [j \in Jobs |-> results[j] \ {t \in Turns[j] : j \in gone}]

Message(op, j) == [op |-> op, job |-> j]
HasReturncode == process \in {"none", "exited"}

(***************************************************************************)
(* Losing the process, and starting the next one.                          *)
(***************************************************************************)
\* _supervise's exception handler and the kill that follows it: what the
\* process was told and had answered is lost with it.
BrokenFailJobs ==
  /\ status' = [j \in Jobs |-> IF Active(j) THEN "failed" ELSE status[j]]
  /\ UNCHANGED cancel_deadline

FailJobs ==
  /\ status' = [j \in Jobs |-> IF Active(j) THEN "failed" ELSE status[j]]
  /\ cancel_deadline' = [j \in Jobs |-> cancel_deadline[j] /\ ~Active(j)]

LoseProcess ==
  /\ ready' = FALSE
  /\ FailJobs
  /\ process' = IF process = "alive" THEN "killed" ELSE process
  /\ supervise' = "killing"
  /\ sent' = {} /\ terminated' = {} /\ answered' = NoTurns
  /\ UNCHANGED <<jobs, owner, finished_turns, results>>

Spawn ==
  /\ supervise = "spawn"
  /\ process' = "alive" /\ UNCHANGED <<sent, terminated, answered>>
  /\ write_lock' = Append(write_lock, Message("query_version", "__ready__"))
  /\ supervise' = "versioning"
  /\ UNCHANGED <<ready, jobVars, draining, reap>>

\* The version arrives: the engine is ready.
Ready ==
  /\ supervise = "starting" /\ process # "none"
  /\ ready' = TRUE /\ supervise' = "reading"
  /\ UNCHANGED <<jobVars, processVars, writeVars, reap>>

\* readline returns nothing: the process is gone.
EndOfOutput ==
  /\ supervise \in {"starting", "reading"} /\ process = "exited"
  /\ LoseProcess /\ UNCHANGED <<writeVars, reap>>

\* Any other exception: a file is missing, the version does not come in time,
\* a line is too long for the reader's buffer.
RoundFails ==
  /\ supervise \in {"spawn", "starting", "reading"}
  /\ LoseProcess /\ UNCHANGED <<writeVars, reap>>

\* The process was waited for: after a pause, the next round.
Restart ==
  /\ supervise = "killing" /\ HasReturncode
  /\ supervise' = "spawn"
  /\ UNCHANGED <<ready, jobVars, processVars, writeVars, reap>>

ProcessExits ==
  /\ process \in {"alive", "killed"}
  /\ process' = "exited"
  /\ UNCHANGED <<supervise, ready, jobVars, sent, terminated, answered, writeVars, reap>>

\* A task that is cancelled leaves write, where it has one message at most.
Leave(messages, op) ==
  LET at == {i \in 1..Len(messages) : messages[i].op = op} IN
  IF at = {} THEN messages ELSE RemoveAt(messages, CHOOSE i \in at : TRUE)

\* close cancels both tasks.
Close ==
  /\ supervise # "closed"
  /\ supervise' = "closed" /\ ready' = FALSE /\ reap' = "closed"
  /\ process' = IF process = "alive" THEN "killed" ELSE process
  /\ write_lock' = Leave(Leave(write_lock, "query_version"), "timed_out")
  /\ draining' = (draining /\ Head(write_lock).op \notin {"query_version", "timed_out"})
  /\ sent' = {} /\ terminated' = {} /\ answered' = NoTurns
  /\ UNCHANGED jobVars

(***************************************************************************)
(* The calls of the API.                                                   *)
(***************************************************************************)
\* submit, up to its await: the quotas are checked and the job entered.
BrokenMaySubmit(o) ==
  LET running == {i \in jobs : status[i] = "running"} IN
  /\ ready
  /\ Cardinality(running) < max_jobs
  /\ Cardinality({i \in running : owner[i] = o}) < max_owner_jobs

MaySubmit(o) ==
  /\ ready
  /\ Cardinality(ActiveJobs) < max_jobs
  /\ Cardinality(OwnersActive(o)) < max_owner_jobs

Submit(j, o) ==
  /\ status[j] = "none" /\ MaySubmit(o)
  /\ jobs' = jobs \cup {j}
  /\ owner' = [owner EXCEPT ![j] = o]
  /\ status' = [status EXCEPT ![j] = "running"]
  /\ write_lock' = Append(write_lock, Message("query", j))
  /\ UNCHANGED <<supervise, ready, cancel_deadline, finished_turns, results,
                 processVars, draining, reap>>

\* cancel, up to its await, from the API ("cancelled") or _reap ("timed_out").
CancelJob(j, reason) ==
  /\ j \in jobs /\ status[j] = "running"
  /\ status' = [status EXCEPT ![j] = reason]
  /\ cancel_deadline' = [cancel_deadline EXCEPT ![j] = TRUE]
  /\ write_lock' = Append(write_lock, Message(reason, j))
  /\ UNCHANGED <<supervise, ready, jobs, owner, finished_turns, results, processVars, draining>>

Cancel(j) == CancelJob(j, "cancelled") /\ UNCHANGED reap

(***************************************************************************)
(* _reap.                                                                  *)
(***************************************************************************)
ReapTimeout(j) ==
  reap = "awake" /\ CancelJob(j, "timed_out") /\ reap' = "awaiting"

\* Nobody confirmed the cancellation in time: the engine is killed.
ReapUnconfirmed(j) ==
  /\ reap = "awake" /\ j \in jobs /\ cancel_deadline[j]
  /\ process' = IF process = "alive" THEN "killed" ELSE process
  /\ cancel_deadline' = [cancel_deadline EXCEPT ![j] = FALSE]
  /\ UNCHANGED <<supervise, ready, jobs, owner, status, finished_turns, results,
                 sent, terminated, answered, writeVars, reap>>

\* Too old, or too many: the job is forgotten.
ReapForget(j) ==
  /\ reap = "awake" /\ j \in jobs /\ ~Active(j)
  /\ Pop({j})
  /\ UNCHANGED <<supervise, ready, processVars, writeVars, reap>>

(***************************************************************************)
(* write.                                                                  *)
(***************************************************************************)
\* _reap suppresses the exceptions of its write.
BrokenReapGoesOn(ok) == reap' = IF ok THEN "awake" ELSE "closed"

ReapGoesOn(ok) == reap' = "awake"

\* The caller goes on after its write: submit takes a job it could not send
\* back, _reap goes on either way, _supervise reads or starts over.
AfterWrite(m, ok) ==
  /\ write_lock' = Tail(write_lock) /\ draining' = FALSE
  /\ \/ /\ m.op = "query"
        /\ Pop(IF ok THEN {} ELSE jobs \cap {m.job})
        /\ UNCHANGED <<supervise, ready, processVars, reap>>
     \/ /\ m.op = "cancelled"
        /\ UNCHANGED <<supervise, ready, jobVars, processVars, reap>>
     \/ /\ m.op = "timed_out"
        /\ ReapGoesOn(ok)
        /\ UNCHANGED <<supervise, ready, jobVars, processVars>>
     \/ /\ m.op = "query_version" /\ ok
        /\ supervise' = "starting"
        /\ UNCHANGED <<ready, jobVars, processVars, reap>>
     \/ /\ m.op = "query_version" /\ ~ok
        /\ LoseProcess /\ UNCHANGED reap

\* The lock is taken and the process is there: the message is in its pipe.
\* A process that was killed reads nothing more.
WriteSends ==
  /\ write_lock # <<>> /\ ~draining /\ ~HasReturncode
  /\ draining' = TRUE
  /\ LET m == Head(write_lock) IN
     /\ sent' = IF process = "alive" /\ m.op = "query" THEN sent \cup {m.job} ELSE sent
     /\ terminated' = IF process = "alive" /\ m.op \in {"cancelled", "timed_out"}
                        THEN terminated \cup (sent \cap {m.job}) ELSE terminated
  /\ UNCHANGED <<supervise, ready, jobVars, process, answered, write_lock, reap>>

WriteFails ==
  /\ write_lock # <<>> /\ ~draining /\ HasReturncode
  /\ AfterWrite(Head(write_lock), FALSE)

\* drain returns, or fails after ten seconds or with the process.
WriteEnds ==
  /\ draining
  /\ \E ok \in BOOLEAN : AfterWrite(Head(write_lock), ok)

(***************************************************************************)
(* _message: one line of the process.                                      *)
(***************************************************************************)
\* The last message of a turn; the last turn ends the job, except for its
\* status if that was settled before.
BrokenFinishTurn(j, t) ==
  /\ finished_turns' = [finished_turns EXCEPT ![j] = @ \cup {t}]
  /\ LET done == finished_turns[j] \cup {t} = Turns[j] IN
     /\ cancel_deadline' = [cancel_deadline EXCEPT ![j] = @ /\ ~done]
     /\ status' = [status EXCEPT ![j] = IF done THEN "completed" ELSE @]

FinishTurn(j, t) ==
  /\ finished_turns' = [finished_turns EXCEPT ![j] = @ \cup {t}]
  /\ LET done == finished_turns[j] \cup {t} = Turns[j] IN
     /\ cancel_deadline' = [cancel_deadline EXCEPT ![j] = @ /\ ~done]
     /\ status' = [status EXCEPT ![j] = IF done /\ @ = "running" THEN "completed" ELSE @]

BrokenHeard(j) == j \in jobs

Heard(j) == Active(j)

\* Reads the answer for turn t: with results or, after a termination, without.
Answer(j, t, noResults) ==
  /\ supervise = "reading" /\ j \in sent /\ t \in Turns[j] \ answered[j]
  /\ noResults => j \in terminated
  /\ answered' = [answered EXCEPT ![j] = @ \cup {t}]
  /\ \/ /\ ~Heard(j)
        /\ UNCHANGED <<status, cancel_deadline, finished_turns, results>>
     \/ /\ Heard(j)
        /\ results' = [results EXCEPT ![j] =
             IF status[j] = "running" /\ ~noResults THEN @ \cup {t} ELSE @]
        /\ FinishTurn(j, t)
  /\ UNCHANGED <<supervise, ready, jobs, owner, process, sent, terminated, writeVars, reap>>

\* The answer is an error, or human_move finds no move in it.
AnswerFails(j, turns) ==
  /\ supervise = "reading" /\ j \in sent /\ turns # {}
  /\ turns \subseteq Turns[j] \ answered[j]
  /\ \/ turns = Turns[j]
     \/ j \in Human /\ status[j] = "running" /\ Cardinality(turns) = 1
  /\ answered' = [answered EXCEPT ![j] = @ \cup turns]
  /\ status' = [status EXCEPT ![j] = IF Heard(j) THEN "failed" ELSE @]
  /\ cancel_deadline' = [cancel_deadline EXCEPT ![j] = @ /\ ~Heard(j)]
  /\ UNCHANGED <<supervise, ready, jobs, owner, finished_turns, results, process, sent,
                 terminated, writeVars, reap>>

(***************************************************************************)
(* The specification.                                                      *)
(***************************************************************************)
Next ==
  \/ Spawn \/ Ready \/ EndOfOutput \/ RoundFails \/ Restart \/ ProcessExits \/ Close
  \/ WriteSends \/ WriteFails \/ WriteEnds
  \/ \E j \in Jobs :
       \/ Cancel(j) \/ \E o \in Owners : Submit(j, o)
       \/ ReapTimeout(j) \/ ReapUnconfirmed(j) \/ ReapForget(j)
       \/ \E t \in Turns[j], noResults \in BOOLEAN : Answer(j, t, noResults)
       \/ \E turns \in SUBSET Turns[j] : AnswerFails(j, turns)

\* The event loop runs what can run and deadlines pass; the process need not
\* answer, and dies for certain only when it was killed.
Fairness ==
  /\ WF_vars(WriteSends \/ WriteFails \/ WriteEnds)
  /\ WF_vars(EndOfOutput) /\ WF_vars(process = "killed" /\ ProcessExits)
  /\ \A j \in Jobs : WF_vars(ReapTimeout(j)) /\ WF_vars(ReapUnconfirmed(j))

Spec == Init /\ [][Next]_vars /\ Fairness

(***************************************************************************)
(* Properties.                                                             *)
(***************************************************************************)
\* Every variable has its type, and a job has a status and results exactly
\* while it is in the dictionary.
TypeOK ==
  /\ supervise \in {"spawn", "versioning", "starting", "reading", "killing", "closed"}
  /\ ready \in BOOLEAN /\ draining \in BOOLEAN
  /\ process \in {"none", "alive", "killed", "exited"}
  /\ reap \in {"awake", "awaiting", "closed"}
  /\ jobs \subseteq Jobs
  /\ owner \in [Jobs -> Owners \cup {Nobody}]
  /\ status \in [Jobs -> {"none", "running", "completed", "failed", "cancelled", "timed_out",
                      "gone"}]
  /\ cancel_deadline \in [Jobs -> BOOLEAN]
  /\ {finished_turns, results} \subseteq [Jobs -> SUBSET UNION {Turns[j] : j \in Jobs}]
  /\ \A j \in Jobs : results[j] \subseteq Turns[j] /\ finished_turns[j] \subseteq Turns[j]
  /\ \A j \in Jobs : j \in jobs <=> status[j] \notin {"none", "gone"}
  /\ \A j \in Jobs : owner[j] \in Owners <=> j \in jobs
  /\ \A j \in Jobs \ jobs : results[j] = {} /\ ~cancel_deadline[j]
  /\ \A i \in 1..Len(write_lock) : write_lock[i].job \in Jobs \cup {"__ready__"}
  /\ sent \subseteq Jobs /\ terminated \subseteq sent

\* A job is in progress only while an engine is ready for it: the check of
\* ready in submit, the exception handler and every await in between leave no
\* job running on a process that is gone or still loading.
NoJobWithoutEngine ==
  ActiveJobs # {} /\ supervise # "closed" => ready /\ supervise = "reading"

\* "At most 16 active jobs, 2 per session" (README.md of web_service): a
\* cancelled job counts until the engine confirms it.
QuotaKept ==
  /\ Cardinality(ActiveJobs) <= max_jobs
  /\ \A o \in Owners : Cardinality(OwnersActive(o)) <= max_owner_jobs

\* A job is reported as completed only with a final result for every turn;
\* one that was terminated never is, although its last turns do arrive.
CompletedHasResults ==
  \A j \in Jobs : status[j] = "completed" => results[j] = Turns[j]

\* Refinement: whatever the process does, jobs live as JobBoard says.
Board == INSTANCE JobBoard
  WITH open <- supervise # "closed",
       state <- [j \in Jobs |->
                   IF status[j] \in {"cancelled", "timed_out"}
                     THEN IF cancel_deadline[j] THEN "stopping" ELSE "stopped"
                     ELSE status[j]]

ImplementsJobBoard == Board!Spec
=============================================================================
