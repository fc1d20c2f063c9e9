--------------------------- MODULE AnalysisEngine ---------------------------
(***************************************************************************)
(* The request life cycle of the JSON analysis engine,                     *)
(* cpp/command/analysis.cpp: the thread that reads requests, the analysis  *)
(* threads that pop and search them, and the terminate actions.  Each      *)
(* analysis thread owns an AsyncBot, seen here as SearchService describes  *)
(* it.  openRequestsMutex is a variable only through apiPc: sections of    *)
(* the analysis threads that hold it are single actions, the reading       *)
(* thread's terminate loop is not.                                         *)
(***************************************************************************)
EXTENDS Integers, FiniteSets

CONSTANTS Threads,      \* the analysis threads, standing for their threadIdx
          MaxRequests,  \* bound: positions asked for, numbered by internalId
          MaxTurns,     \* bound: positions of one query
          MaxPartials,  \* bound: isDuringSearch reports of one request
          Priority,     \* Priority[r], given by the user
          LimitedRequests,      \* requests with a finite visit or time limit
          ReportingRequests,    \* requests with reportDuringSearch
          NoRequest

Requests == 1..MaxRequests

ASSUME AnalysisConstants ==
  /\ MaxRequests \in Nat /\ MaxTurns \in Nat /\ MaxPartials \in Nat
  /\ Priority \in [Requests -> Int]
  /\ LimitedRequests \subseteq Requests /\ ReportingRequests \subseteq Requests
  /\ NoRequest \notin Requests
  /\ Threads \cap {"unseen", "inQueue", "popped", "terminated"} = {}
  /\ Threads \cap Requests = {}

VARIABLES
  status,        \* AnalyzeRequest::status; a thread means "searching in it"
  nextId,        \* internalIdCounter
  openRequests, queue, deleted,
  partials, finals,  \* responses written with isDuringSearch true / false
  worker, request,   \* the analysis threads
  stop, killed,      \* their bots: shouldStopNow, isKilled
  root,              \* the bot's search has something to report
  apiPc, targets,    \* the reading thread and what its loop has left to do
  victim, prevStatus,
  quitWithoutWaiting, analyzeOpen, writeOpen  \* the queues are not readOnly

requestVars == <<status, nextId, openRequests, queue, deleted>>
outputVars == <<partials, finals>>
workerVars == <<worker, request>>
botVars == <<stop, killed, root>>
apiVars == <<apiPc, targets, victim, prevStatus>>
closeVars == <<quitWithoutWaiting, analyzeOpen, writeOpen>>
vars == <<requestVars, outputVars, workerVars, botVars, apiVars, closeVars>>

Init ==
  /\ status = [r \in Requests |-> "unseen"]
  /\ nextId = 1
  /\ openRequests = {} /\ queue = {} /\ deleted = {}
  /\ partials = [r \in Requests |-> 0] /\ finals = [r \in Requests |-> 0]
  /\ worker = [t \in Threads |-> "pop"]
  /\ request = [t \in Threads |-> NoRequest]
  /\ stop = [t \in Threads |-> FALSE] /\ killed = [t \in Threads |-> FALSE]
  /\ root = [t \in Threads |-> FALSE]
  /\ apiPc = "read" /\ targets = {} /\ victim = NoRequest /\ prevStatus = "unseen"
  /\ quitWithoutWaiting \in BOOLEAN
  /\ analyzeOpen = TRUE /\ writeOpen = TRUE

\* pushToWrite drops what comes after toWriteQueue.setReadOnly().
WriteFinal(r) == finals' = IF writeOpen THEN [finals EXCEPT ![r] = @ + 1] ELSE finals

(***************************************************************************)
(* Definitions named Broken... are the code with one plausible mistake in  *)
(* it; no action uses them.  Each shows that some property below can fail. *)
(***************************************************************************)

(***************************************************************************)
(* requestLoop.                                                            *)
(***************************************************************************)
\* A query names the positions of its game to analyze.
ReadQuery(n) ==
  LET new == nextId..(nextId + n - 1)
  IN  /\ apiPc = "read"
      /\ nextId + n - 1 <= MaxRequests
      /\ nextId' = nextId + n
      /\ status' = [r \in Requests |-> IF r \in new THEN "inQueue" ELSE status[r]]
      /\ openRequests' = openRequests \cup new
      /\ apiPc' = "push" /\ targets' = new
      /\ UNCHANGED <<queue, deleted, outputVars, workerVars, botVars, victim,
                     prevStatus, closeVars>>

\* An illegal move was found: the requests built so far are thrown away.
RejectQuery(n) ==
  /\ apiPc = "read"
  /\ nextId + n - 1 <= MaxRequests
  /\ nextId' = nextId + n
  /\ UNCHANGED <<status, openRequests, queue, deleted, outputVars, workerVars,
                 botVars, apiVars, closeVars>>

First(S, r) == r \in S /\ \A q \in S : r <= q

PushRequest(r) ==
  /\ apiPc = "push"
  /\ First(targets, r)
  /\ queue' = queue \cup {r}
  /\ targets' = targets \ {r}
  /\ apiPc' = IF targets = {r} THEN "read" ELSE "push"
  /\ UNCHANGED <<status, nextId, openRequests, deleted, outputVars, workerVars,
                 botVars, victim, prevStatus, closeVars>>

\* terminate, terminate_all: lock, then go through the open requests whose id
\* and turnNumber match.
BeginTerminate(matching) ==
  /\ apiPc = "read"
  /\ matching # {}
  /\ apiPc' = "terminate" /\ targets' = matching
  /\ UNCHANGED <<requestVars, outputVars, workerVars, botVars, victim,
                 prevStatus, closeVars>>

\* terminateRequest: first the exchange ...
FlagTerminated(r) ==
  /\ apiPc = "terminate"
  /\ First(targets, r)
  /\ victim' = r
  /\ prevStatus' = status[r]
  /\ status' = [status EXCEPT ![r] = "terminated"]
  /\ targets' = targets \ {r}
  /\ apiPc' = "act"
  /\ UNCHANGED <<nextId, openRequests, queue, deleted, outputVars, workerVars,
                 botVars, closeVars>>

\* Mistake: a response is written for a request that a thread has popped.
BrokenWritesFor(prev) == prev \in {"inQueue", "popped"}

\* Is it up to the reading thread to write the result?
WritesFor(prev) == prev = "inQueue"

\* ... then what the status found calls for; the mutex is released at the end.
ActOnTerminated ==
  /\ apiPc = "act"
  /\ IF WritesFor(prevStatus) THEN WriteFinal(victim) ELSE UNCHANGED finals
  /\ stop' = [t \in Threads |-> stop[t] \/ prevStatus = t]
  /\ apiPc' = IF targets = {} THEN "read" ELSE "terminate"
  /\ victim' = NoRequest /\ prevStatus' = "unseen"
  /\ UNCHANGED <<requestVars, partials, workerVars, killed, root, targets, closeVars>>

\* End of input.
EndOfInput ==
  /\ apiPc = "read"
  /\ apiPc' = "closeAnalyze"
  /\ writeOpen' = ~quitWithoutWaiting
  /\ UNCHANGED <<requestVars, outputVars, workerVars, botVars, targets, victim,
                 prevStatus, quitWithoutWaiting, analyzeOpen>>

CloseAnalyze ==
  /\ apiPc = "closeAnalyze"
  /\ analyzeOpen' = FALSE
  /\ IF quitWithoutWaiting
     THEN apiPc' = "stopBots" /\ targets' = Threads
     ELSE apiPc' = "join" /\ UNCHANGED targets
  /\ UNCHANGED <<requestVars, outputVars, workerVars, botVars, victim,
                 prevStatus, quitWithoutWaiting, writeOpen>>

StopBot(t) ==
  /\ apiPc = "stopBots"
  /\ t \in targets
  /\ stop' = [stop EXCEPT ![t] = TRUE]
  /\ IF targets = {t}
     THEN apiPc' = "killBots" /\ targets' = Threads
     ELSE UNCHANGED apiPc /\ targets' = targets \ {t}
  /\ UNCHANGED <<requestVars, outputVars, workerVars, killed, root, victim,
                 prevStatus, closeVars>>

\* Mistake: the flag alone.
BrokenStopKilled(t) == UNCHANGED stop
StopKilled(t) == stop' = [stop EXCEPT ![t] = TRUE]

KillBot(t) ==
  /\ apiPc = "killBots"
  /\ t \in targets
  /\ StopKilled(t)
  /\ killed' = [killed EXCEPT ![t] = TRUE]
  /\ apiPc' = IF targets = {t} THEN "join" ELSE apiPc
  /\ targets' = targets \ {t}
  /\ UNCHANGED <<requestVars, outputVars, workerVars, root, victim, prevStatus,
                 closeVars>>

JoinThreads ==
  /\ apiPc = "join"
  /\ \A t \in Threads : worker[t] = "exited"
  /\ writeOpen' = FALSE
  /\ apiPc' = "done"
  /\ UNCHANGED <<requestVars, outputVars, workerVars, botVars, targets, victim,
                 prevStatus, quitWithoutWaiting, analyzeOpen>>

(***************************************************************************)
(* analysisLoop, run by each thread t.                                     *)
(***************************************************************************)
Go(t, from, to) ==
  /\ worker[t] = from
  /\ worker' = [worker EXCEPT ![t] = to]

\* Highest priority first, then the earlier one.
Best(r) ==
  r \in queue /\ \A q \in queue : \/ Priority[q] < Priority[r]
                                  \/ Priority[q] = Priority[r] /\ r <= q

PopRequest(t, r) ==
  /\ Go(t, "pop", "claim")
  /\ Best(r)
  /\ queue' = queue \ {r}
  /\ request' = [request EXCEPT ![t] = r]
  /\ UNCHANGED <<status, nextId, openRequests, deleted, outputVars, botVars,
                 apiVars, closeVars>>

QueueClosed(t) ==
  /\ Go(t, "pop", "exited")
  /\ queue = {} /\ ~analyzeOpen
  /\ UNCHANGED <<requestVars, outputVars, request, botVars, apiVars, closeVars>>

ClaimRequest(t) ==
  /\ Go(t, "claim", "prepare")
  /\ status[request[t]] = "inQueue"
  /\ status' = [status EXCEPT ![request[t]] = "popped"]
  /\ UNCHANGED <<nextId, openRequests, queue, deleted, outputVars, request,
                 botVars, apiVars, closeVars>>

SkipTerminated(t) ==
  /\ Go(t, "claim", "clear")
  /\ status[request[t]] # "inQueue"
  /\ UNCHANGED <<requestVars, outputVars, request, botVars, apiVars, closeVars>>

\* setPosition, setParams...: each starts with stopAndWait.
PrepareBot(t) ==
  /\ Go(t, "prepare", "launch")
  /\ stop' = [stop EXCEPT ![t] = TRUE]
  /\ root' = [root EXCEPT ![t] = FALSE]
  /\ UNCHANGED <<requestVars, outputVars, request, killed, apiVars, closeVars>>

\* genMoveSynchronous* starts the search and forgets earlier stops ...
LaunchSearch(t) ==
  /\ ~killed[t]
  /\ Go(t, "launch", "begin")
  /\ stop' = [stop EXCEPT ![t] = FALSE]
  /\ UNCHANGED <<requestVars, outputVars, request, killed, root, apiVars, closeVars>>

\* ... unless the bot is killed before its thread takes the search up.
RefuseLaunch(t) ==
  /\ killed[t]
  /\ Go(t, "launch", "report") \/ Go(t, "begin", "report")
  /\ UNCHANGED <<requestVars, outputVars, request, botVars, apiVars, closeVars>>

\* Mistake: the search goes on although the request was terminated before it.
BrokenStopsAtOnce(r) == FALSE
StopsAtOnce(r) == status[r] # "popped"

\* onSearchBegun: put the thread's index in, or stop if it was terminated.
SearchBegun(t) ==
  LET r == request[t]
  IN  /\ Go(t, "begin", "search")
      /\ status' = IF status[r] = "popped" THEN [status EXCEPT ![r] = t] ELSE status
      /\ stop' = IF StopsAtOnce(r) THEN [stop EXCEPT ![t] = TRUE] ELSE stop
      /\ UNCHANGED <<nextId, openRequests, queue, deleted, outputVars, request,
                     killed, root, apiVars, closeVars>>

BotPlayout(t) ==
  /\ worker[t] = "search"
  /\ root' = [root EXCEPT ![t] = TRUE]
  /\ UNCHANGED <<requestVars, outputVars, workerVars, stop, killed, apiVars, closeVars>>

\* Mistake: genMoveSynchronousAnalyze returns with a callback still running.
BrokenMayReport(t) == worker[t] \in {"search", "report", "clear"}
MayReport(t) == worker[t] = "search"

\* The analysis callback; AsyncBot joins its thread before the search is over.
ReportDuringSearch(t) ==
  LET r == request[t]
  IN  /\ MayReport(t) /\ r \in ReportingRequests
      /\ root[t]
      /\ writeOpen /\ partials[r] < MaxPartials
      /\ partials' = [partials EXCEPT ![r] = @ + 1]
      /\ UNCHANGED <<requestVars, finals, workerVars, botVars, apiVars, closeVars>>

SearchEnds(t) ==
  /\ Go(t, "search", "report")
  /\ stop[t] \/ (root[t] /\ request[t] \in LimitedRequests)
  /\ UNCHANGED <<requestVars, outputVars, request, botVars, apiVars, closeVars>>

\* Mistake: nothing is written without analysis.
BrokenHasResponse(t) == root[t]
HasResponse(t) == root[t] \/ status[request[t]] = "terminated"

\* reportAnalysis, or reportNoAnalysis for a request terminated too early.
ReportFinal(t) ==
  /\ Go(t, "report", "clear")
  /\ IF HasResponse(t) THEN WriteFinal(request[t]) ELSE UNCHANGED finals
  /\ UNCHANGED <<requestVars, partials, request, botVars, apiVars, closeVars>>

ClearSearch(t) ==
  /\ Go(t, "clear", "erase")
  /\ stop' = [stop EXCEPT ![t] = TRUE]
  /\ root' = [root EXCEPT ![t] = FALSE]
  /\ UNCHANGED <<requestVars, outputVars, request, killed, apiVars, closeVars>>

\* Mistake: the mutex is left out.
BrokenMutexFree == TRUE

MutexFree == apiPc \notin {"terminate", "act"}

\* openRequests.erase under the mutex, and delete.
CloseRequest(t) ==
  /\ MutexFree
  /\ Go(t, "erase", "pop")
  /\ openRequests' = openRequests \ {request[t]}
  /\ deleted' = deleted \cup {request[t]}
  /\ request' = [request EXCEPT ![t] = NoRequest]
  /\ UNCHANGED <<status, nextId, queue, outputVars, botVars, apiVars, closeVars>>

(***************************************************************************)
(* The specification.                                                      *)
(***************************************************************************)
ApiReads ==
  \/ \E n \in 1..MaxTurns : ReadQuery(n) \/ RejectQuery(n)
  \/ \E matching \in SUBSET openRequests : BeginTerminate(matching)
  \/ EndOfInput

ApiStep ==
  \/ \E r \in targets \cap Requests : PushRequest(r) \/ FlagTerminated(r)
  \/ ActOnTerminated
  \/ CloseAnalyze
  \/ \E t \in Threads : StopBot(t) \/ KillBot(t)
  \/ JoinThreads

WorkerStep(t) ==
  \/ \E r \in queue : PopRequest(t, r)
  \/ QueueClosed(t) \/ ClaimRequest(t) \/ SkipTerminated(t) \/ PrepareBot(t)
  \/ LaunchSearch(t) \/ RefuseLaunch(t) \/ SearchBegun(t)
  \/ SearchEnds(t) \/ ReportFinal(t) \/ ClearSearch(t) \/ CloseRequest(t)

Exited == apiPc = "done" /\ UNCHANGED vars

Next ==
  \/ ApiReads \/ ApiStep
  \/ \E t \in Threads : WorkerStep(t) \/ BotPlayout(t) \/ ReportDuringSearch(t)
  \/ Exited

\* Every thread runs; input may come or not, reports during a search too.  A
\* thread that waits for openRequestsMutex gets it, though the reading thread
\* may take it again and again.
Fairness ==
  /\ WF_vars(ApiStep)
  /\ \A t \in Threads :
       WF_vars(WorkerStep(t)) /\ WF_vars(BotPlayout(t)) /\ SF_vars(CloseRequest(t))

Spec == Init /\ [][Next]_vars /\ Fairness

(***************************************************************************)
(* Properties.                                                             *)
(***************************************************************************)
Types ==
  /\ status \in [Requests -> {"unseen", "inQueue", "popped", "terminated"} \cup Threads]
  /\ nextId \in 1..(MaxRequests + 1)
  /\ openRequests \subseteq Requests /\ queue \subseteq Requests
  /\ deleted \subseteq Requests
  /\ partials \in [Requests -> Nat] /\ finals \in [Requests -> Nat]
  /\ worker \in [Threads -> {"pop", "claim", "prepare", "launch", "begin", "search",
                             "report", "clear", "erase", "exited"}]
  /\ request \in [Threads -> Requests \cup {NoRequest}]
  /\ stop \in [Threads -> BOOLEAN] /\ killed \in [Threads -> BOOLEAN]
  /\ root \in [Threads -> BOOLEAN]
  /\ apiPc \in {"read", "push", "terminate", "act", "closeAnalyze", "stopBots",
                "killBots", "join", "done"}
  /\ targets \subseteq Requests \cup Threads
  /\ victim \in Requests \cup {NoRequest}
  /\ prevStatus \in {"unseen", "inQueue", "popped", "terminated"} \cup Threads
  /\ quitWithoutWaiting \in BOOLEAN /\ analyzeOpen \in BOOLEAN /\ writeOpen \in BOOLEAN

\* The variable request is the local one of the loop's body: set in it only.
RequestHeld ==
  \A t \in Threads : worker[t] \in {"pop", "exited"} <=> request[t] = NoRequest

\* Every variable has its type, and an analysis thread that is past its pop
\* holds the request it works for until it has answered it.
TypeOK == Types /\ RequestHeld

\* "every analysis query, whether terminated or not, [...] will conclude with
\* exactly one reply where isDuringSearch is false": never two, though the
\* reading thread and an analysis thread may both want to write it ...
OneFinalResponse == \A r \in Requests : finals[r] <= 1

\* ... and never none, once the engine has forgotten the request (a quit
\* without waiting excepted): whoever is to write it has done so by then, even
\* the reading thread that took the writing from an analysis thread.
AnsweredBeforeForgotten ==
  \A r \in deleted : writeOpen => finals[r] = 1

\* Both together: one final response for each request the engine is done with.
ExactlyOneFinalResponse == OneFinalResponse /\ AnsweredBeforeForgotten

\* The final response is the last one of its request.
FinalIsLast ==
  [][\A r \in Requests : partials'[r] # partials[r] => finals[r] = 0]_vars

\* A search is told to stop for its own request's sake: because that one was
\* terminated, not because of a stop that was meant for the thread's previous
\* request and came late.  (At shutdown everything is stopped.)
StopMeantForRequest ==
  \A t \in Threads :
    worker[t] = "search" /\ stop[t] =>
      status[request[t]] = "terminated" \/ apiPc \in {"stopBots", "killBots", "join", "done"}

\* terminateRequest uses a pointer taken from openRequests: nothing in there,
\* in the queue, or in the hands of an analysis thread was deleted.
NoUseAfterDelete ==
  /\ (openRequests \cup queue \cup {request[t] : t \in Threads}) \cap deleted = {}
  /\ (targets \cup {victim}) \cap deleted = {}

\* Every thread's bot is used as one that does what SearchService says: a search
\* is launched on a bot that is free and was not killed, a stop is forgotten by
\* the next launch only, and a search ends for one of the service's reasons.
\* Which moves were delivered the engine does not look at.
BotOf(t) == INSTANCE SearchService
              WITH Searches <- Requests, Moving <- {}, Limited <- LimitedRequests,
                   None <- NoRequest,
                   active <- IF worker[t] \in {"begin", "search"} THEN request[t]
                             ELSE NoRequest,
                   stop <- stop[t], killed <- killed[t], delivered <- {}
BotsServe ==
  /\ \A t \in Threads : BotOf(t)!Init
  /\ [][\A t \in Threads : BotOf(t)!Next \/ UNCHANGED BotOf(t)!serviceVars]_vars

Answered(r) == finals[r] = 1

EndlessSearch ==
  \E t \in Threads : worker[t] = "search" /\ ~stop[t] /\ request[t] \notin LimitedRequests

\* Every accepted query is answered, if no search goes on forever for want of a
\* limit and the engine is not told to quit without waiting.
EveryRequestAnswered ==
  []<>~EndlessSearch =>
    \A r \in Requests :
      status[r] = "inQueue" ~> (Answered(r) \/ (quitWithoutWaiting /\ ~writeOpen))

\* A terminated request is answered even if its search has no limit: the
\* termination is not lost between the pop and the start of the search.
TerminatedRequestAnswered ==
  \A r \in Requests :
    status[r] = "terminated" ~> (Answered(r) \/ (quitWithoutWaiting /\ ~writeOpen))

\* Nobody who asks for a response is left without one.
ResponsesCome == EveryRequestAnswered /\ TerminatedRequestAnswered

\* Quitting without waiting ends, whatever is queued or searched.
QuitEnds == (apiPc = "closeAnalyze" /\ quitWithoutWaiting) ~> apiPc = "done"
=============================================================================
