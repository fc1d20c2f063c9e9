--------------------------- MODULE SearchService ---------------------------
(***************************************************************************)
(* What AsyncBot promises the threads that use it: one search at a time,   *)
(* the move of a finished search delivered once, a search that is asked to *)
(* stop over soon, and no search after the bot was killed.  No threads,    *)
(* locks or condition variables appear here; module AsyncBot is shown to   *)
(* implement this one.                                                     *)
(***************************************************************************)
CONSTANTS Searches,   \* the searches that may be asked for, each at most once
          Moving,     \* those with an onMove callback (genMove, not ponder/analyze)
          Limited,    \* those that end by themselves: bounded visits or time
          None        \* "no search"

VARIABLES active,     \* the search in progress, or None
          stop,       \* the search in progress was asked to stop
          killed,     \* no search will start any more
          delivered   \* the searches whose onMove was called

serviceVars == <<active, stop, killed, delivered>>

Init ==
  /\ active = None
  /\ stop = FALSE
  /\ killed = FALSE
  /\ delivered = {}

\* A search starts only when none is in progress, and forgets earlier stops.
Launch(s) ==
  /\ ~killed
  /\ active = None
  /\ active' = s
  /\ stop' = FALSE
  /\ s \notin delivered
  /\ UNCHANGED <<killed, delivered>>

RequestStop ==
  /\ stop' = TRUE
  /\ UNCHANGED <<active, killed, delivered>>

Kill ==
  /\ killed' = TRUE
  /\ stop' = stop \/ stop' = TRUE
  /\ UNCHANGED <<active, delivered>>

\* An unlimited search (pondering, open-ended analysis) ends only on request.
Finish ==
  /\ active # None
  /\ stop \/ active \in Limited
  /\ delivered' = IF active \in Moving THEN delivered \cup {active} ELSE delivered
  /\ active' = None
  /\ UNCHANGED <<stop, killed>>

\* A kill may come before the search thread took the search up: no move then.
Abandon ==
  /\ killed
  /\ active # None
  /\ active' = None
  /\ UNCHANGED <<stop, killed, delivered>>

Next ==
  \/ \E s \in Searches : Launch(s)
  \/ RequestStop
  \/ Kill
  \/ Finish
  \/ Abandon

\* A search that may end does so.
Fairness == WF_serviceVars(Finish)

Spec == Init /\ [][Next]_serviceVars /\ Fairness
=============================================================================
