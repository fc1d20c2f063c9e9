----------------------------- MODULE JobBoard ------------------------------
(***************************************************************************)
(* What the web service promises about an analysis job, whatever happens   *)
(* to the engine process behind it: it runs, it ends in one way, it stays  *)
(* as it ended until it is forgotten, and it does end.                     *)
(***************************************************************************)
CONSTANTS Jobs

VARIABLES state,  \* how each job stands
          open    \* the service has not been shut down

boardVars == <<state, open>>

\* A job that was stopped (cancelled or timed out) still occupies the engine
\* until the engine confirms it, and is "stopped" after that.
States == {"none", "running", "stopping", "completed", "failed", "stopped", "gone"}

Init == state = [j \in Jobs |-> "none"] /\ open = TRUE

Step(j, from, to) ==
  /\ state[j] \in from /\ state' = [state EXCEPT ![j] = to]
  /\ UNCHANGED open

Submit(j) == open /\ Step(j, {"none"}, "running")

EndRun(j) == \E to \in {"completed", "failed", "stopping"} : Step(j, {"running"}, to)

Confirm(j) == \E to \in {"stopped", "failed"} : Step(j, {"stopping"}, to)

Forget(j) == Step(j, States \ {"none", "gone"}, "gone")

\* The engine is lost, and all it was working on with it.
LoseEngine ==
  /\ state' = [j \in Jobs |-> IF state[j] \in {"running", "stopping"}
                                THEN "failed" ELSE state[j]]
  /\ UNCHANGED open

Close == open' = FALSE /\ UNCHANGED state

Next ==
  \/ \E j \in Jobs : Submit(j) \/ EndRun(j) \/ Confirm(j) \/ Forget(j)
  \/ LoseEngine \/ Close

\* Nothing is promised of jobs in progress when the service is shut down.
Fairness ==
  \A j \in Jobs : WF_boardVars(open /\ EndRun(j)) /\ WF_boardVars(open /\ Confirm(j))

Spec == Init /\ [][Next]_boardVars /\ Fairness
=============================================================================
