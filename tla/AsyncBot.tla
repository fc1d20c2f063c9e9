------------------------------ MODULE AsyncBot ------------------------------
(***************************************************************************)
(* The thread protocol of cpp/search/asyncbot.cpp: the user of the bot,    *)
(* its search thread, and the analysis-callback thread that one search may *)
(* have.  controlMutex is not a variable: one action is one section of     *)
(* code from taking the mutex to releasing it (or to waiting on a          *)
(* condition variable, which releases it), or one lock-free step.  What    *)
(* Search itself computes is abstracted to "it begins", "the root has      *)
(* values", "it returns".                                                  *)
(***************************************************************************)
CONSTANTS Searches,   \* search requests, each made at most once
          Moving,     \* genMove*: has an onMove callback
          Sync,       \* genMoveSynchronous*: the caller then waits for the end
          Ponders,    \* ponder(): declined rather than stopping what runs
          Limited,    \* visits or time end it even if nobody asks it to stop
          Reporting,  \* usingCallbackLoop
          Early,      \* Reporting with firstCallbackAfter >= 0
          Periodic,   \* Reporting with callbackPeriod >= 0
          Throwing,   \* beginSearch throws: the board exceeds the net's size
          None

\* A throw would destroy the joinable callback thread of a Reporting search
\* and so end the whole process, which is not modelled.
ASSUME AsyncBotConstants ==
  /\ Moving \subseteq Searches /\ Sync \subseteq Moving
  /\ Limited \subseteq Searches /\ Throwing \subseteq Searches
  /\ Reporting \subseteq Searches
  /\ Early \subseteq Reporting /\ Periodic \subseteq Reporting
  /\ Ponders \subseteq Searches \ (Moving \cup Reporting)
  /\ Throwing \cap Reporting = {}
  /\ None \notin Searches

VARIABLES
  isRunning, isKilled, shouldStopNow,
  queued,         \* the fields queuedOnMove, timeControls, analyzeCallback, ...
  userPc, userOp, \* the user thread: where it is, in which operation
  asked,          \* the search that operation asks for
  launched,       \* the searches asked for so far
  delivered,      \* the searches whose onMove was called
  thread,         \* the search thread
  rootReady,      \* getRootValues() would succeed
  callback,       \* the callback thread
  isSearchBegun, callbackLoopShouldStop, gotReportYet

flagVars == <<isRunning, isKilled, shouldStopNow, queued>>
userVars == <<userPc, userOp, asked, launched>>
loopVars == <<callback, isSearchBegun, callbackLoopShouldStop, gotReportYet>>
asyncVars == <<flagVars, userVars, delivered, thread, rootReady, loopVars>>

BotInit ==
  /\ isRunning = FALSE /\ isKilled = FALSE /\ shouldStopNow = FALSE
  /\ queued = None
  /\ userPc = "idle" /\ userOp = "none" /\ asked = None
  /\ launched = {} /\ delivered = {}
  /\ thread = "top"
  /\ rootReady = FALSE
  /\ callback = "none"
  /\ isSearchBegun = FALSE /\ callbackLoopShouldStop = FALSE
  /\ gotReportYet = FALSE

(***************************************************************************)
(* Definitions named Broken... are the code with one plausible mistake in  *)
(* it; no action uses them.  Each shows that some property below can fail. *)
(***************************************************************************)
BrokenWakeUser == UNCHANGED userPc
BrokenWakeThread == UNCHANGED thread

\* notify_all on userWaitingForStop and on threadWaitingToSearch.
WakeUser == userPc' = IF userPc = "asleep" THEN "check" ELSE userPc
WakeThread == thread' = IF thread = "asleep" THEN "top" ELSE thread

(***************************************************************************)
(* The user of the bot: one call at a time.                                *)
(***************************************************************************)
\* genMove*, analyzeAsync, ponder: called, about to lock.
AskSearch(s) ==
  /\ userPc = "idle"
  /\ s \notin launched
  /\ userPc' = "check" /\ userOp' = "launch" /\ asked' = s
  /\ launched' = launched \cup {s}
  /\ UNCHANGED <<flagVars, delivered, thread, rootReady, loopVars>>

\* stopAndWait, a setter that starts with it, or the destructor.
AskStop(op) ==
  /\ userPc = "idle"
  /\ shouldStopNow' = TRUE
  /\ userPc' = "check" /\ userOp' = op /\ asked' = None
  /\ UNCHANGED <<isRunning, isKilled, queued, launched, delivered, thread,
                 rootReady, loopVars>>

AskWait ==
  /\ userPc = "idle"
  /\ userPc' = "check" /\ userOp' = "wait" /\ asked' = None
  /\ UNCHANGED <<flagVars, launched, delivered, thread, rootReady, loopVars>>

Pondering == userOp = "launch" /\ asked \in Ponders

\* while(isRunning) userWaitingForStop.wait(lock), after the store of
\* stopAndWaitAlreadyLocked if a new search is what the user wants.
WaitForSearchToEnd ==
  /\ userPc = "check"
  /\ isRunning
  /\ ~Pondering
  /\ shouldStopNow' = (shouldStopNow \/ userOp = "launch")
  /\ userPc' = "asleep"
  /\ UNCHANGED <<isRunning, isKilled, queued, userOp, asked, launched,
                 delivered, thread, rootReady, loopVars>>

\* Out of the launching part: a synchronous call goes on to wait.
AfterLaunch ==
  IF asked \in Sync
  THEN userPc' = "check" /\ userOp' = "wait"
  ELSE userPc' = "idle" /\ userOp' = "none"

RefuseSearch ==
  /\ userPc = "check" /\ userOp = "launch"
  /\ isKilled \/ isRunning
  /\ isRunning => Pondering
  /\ AfterLaunch
  /\ UNCHANGED <<flagVars, asked, launched, delivered, thread, rootReady,
                 loopVars>>

\* Mistake: a stop is kept.
BrokenFillKeepingStop == queued' = asked /\ UNCHANGED shouldStopNow

MayQueue == ~isRunning /\ ~isKilled
FillRequest == queued' = asked /\ shouldStopNow' = FALSE

QueueSearch ==
  /\ userPc = "check" /\ userOp = "launch"
  /\ MayQueue
  /\ rootReady' \in {rootReady, FALSE}  \* setPlayerAndClearHistory
  /\ FillRequest
  /\ isRunning' = TRUE
  /\ userPc' = "notify"
  /\ UNCHANGED <<isKilled, userOp, asked, launched, delivered, thread, loopVars>>

\* threadWaitingToSearch.notify_all() comes after the mutex is released.
NotifyThread ==
  /\ userPc = "notify"
  /\ WakeThread
  /\ IF userOp = "destroy"
     THEN userPc' = "join" /\ UNCHANGED userOp
     ELSE AfterLaunch
  /\ UNCHANGED <<flagVars, asked, launched, delivered, rootReady, loopVars>>

\* Mistake: the setter does not wait for the search thread.
BrokenWaitIsOver == ~isRunning \/ (userOp = "set" /\ shouldStopNow)
WaitIsOver == ~isRunning

\* The wait is over: the call returns, or goes on outside the mutex.
SearchHasEnded ==
  /\ userPc = "check" /\ userOp \in {"stop", "wait", "set", "destroy"}
  /\ WaitIsOver
  /\ userPc' = CASE userOp = "set" -> "mutate"
                 [] userOp = "destroy" -> "kill"
                 [] OTHER -> "idle"
  /\ userOp' = IF userOp \in {"stop", "wait"} THEN "none" ELSE userOp
  /\ UNCHANGED <<flagVars, asked, launched, delivered, thread, rootReady,
                 loopVars>>

\* search->setPosition, makeMove, clearSearch...: may drop the tree.
MutateSearch ==
  /\ userPc = "mutate"
  /\ rootReady' \in {rootReady, FALSE}
  /\ userPc' = "idle" /\ userOp' = "none"
  /\ UNCHANGED <<flagVars, asked, launched, delivered, thread, loopVars>>

\* ~AsyncBot, second half.
DestructorKills ==
  /\ userPc = "kill"
  /\ isKilled' = TRUE
  /\ userPc' = "notify"
  /\ UNCHANGED <<isRunning, shouldStopNow, queued, userOp, asked, launched,
                 delivered, thread, rootReady, loopVars>>

DestructorJoins ==
  /\ userPc = "join"
  /\ thread \in {"exited", "dead"}
  /\ userPc' = "gone"
  /\ UNCHANGED <<flagVars, userOp, asked, launched, delivered, thread,
                 rootReady, loopVars>>

\* The two calls other threads may make while the bot lives.
StopWithoutWait ==
  /\ userOp # "destroy"
  /\ shouldStopNow' = TRUE
  /\ UNCHANGED <<isRunning, isKilled, queued, userVars, delivered, thread,
                 rootReady, loopVars>>

\* Mistake: the running search is not told.
BrokenSetKilled ==
  /\ userOp # "destroy"
  /\ isKilled' = TRUE
  /\ WakeThread
  /\ UNCHANGED <<isRunning, shouldStopNow, queued, userVars, delivered,
                 rootReady, loopVars>>

SetKilled ==
  /\ userOp # "destroy"
  /\ isKilled' = TRUE
  /\ shouldStopNow' = TRUE
  /\ WakeThread
  /\ UNCHANGED <<isRunning, queued, userVars, delivered, rootReady, loopVars>>

(***************************************************************************)
(* The search thread, internalSearchThreadLoop.                            *)
(***************************************************************************)
ThreadSleeps ==
  /\ thread = "top"
  /\ ~isRunning /\ ~isKilled
  /\ thread' = "asleep"
  /\ UNCHANGED <<flagVars, userVars, delivered, rootReady, loopVars>>

ThreadExits ==
  /\ thread = "top"
  /\ isKilled
  /\ thread' = "exited"
  /\ isRunning' = FALSE
  /\ WakeUser
  /\ UNCHANGED <<isKilled, shouldStopNow, queued, userOp, asked, launched,
                 delivered, rootReady, loopVars>>

\* Copies the request and starts the callback thread, if there is to be one.
TakeSearch ==
  /\ thread = "top"
  /\ isRunning /\ ~isKilled
  /\ thread' = "begin"
  /\ callback' = IF queued \in Reporting THEN "start" ELSE "none"
  /\ isSearchBegun' = FALSE
  /\ callbackLoopShouldStop' = FALSE
  /\ gotReportYet' = FALSE
  /\ UNCHANGED <<flagVars, userVars, delivered, rootReady>>

\* beginSearch (it may clear the tree), then the searchBegun lambda.
BeginSearch ==
  /\ thread = "begin"
  /\ queued \notin Throwing
  /\ thread' = "search"
  /\ rootReady' \in {rootReady, FALSE}
  /\ isSearchBegun' = (queued \in Reporting)
  /\ callback' = IF callback = "asleep" THEN "woken" ELSE callback
  /\ UNCHANGED <<flagVars, userVars, delivered, callbackLoopShouldStop,
                 gotReportYet>>

\* searchThreadLoop logs the exception and the thread is over.
SearchThrows ==
  /\ thread = "begin"
  /\ queued \in Throwing
  /\ thread' = "dead"
  /\ UNCHANGED <<flagVars, userVars, delivered, rootReady, loopVars>>

Playout ==
  /\ thread = "search"
  /\ rootReady' = TRUE
  /\ UNCHANGED <<flagVars, userVars, delivered, thread, loopVars>>

\* Mistake: only the search's own limits are looked at.
BrokenShouldStop == queued \in Limited /\ rootReady

\* Only an explicit stop ends a search before its first playout.
ShouldStop == shouldStopNow \/ (queued \in Limited /\ rootReady)

EndSearch ==
  /\ thread = "search"
  /\ ShouldStop
  /\ thread' = IF queued \in Reporting THEN "stopLoop" ELSE "deliver"
  /\ UNCHANGED <<flagVars, userVars, delivered, rootReady, loopVars>>

StopCallbackLoop ==
  /\ thread = "stopLoop"
  /\ callbackLoopShouldStop' = TRUE
  /\ callback' = IF callback = "asleep" THEN "woken" ELSE callback
  /\ thread' = "join"
  /\ UNCHANGED <<flagVars, userVars, delivered, rootReady, isSearchBegun,
                 gotReportYet>>

\* Mistake: the callback thread is detached instead of joined.
BrokenJoinCallbackThread ==
  /\ thread = "join"
  /\ thread' = "deliver"
  /\ UNCHANGED <<flagVars, userVars, delivered, rootReady, loopVars>>

JoinCallbackThread ==
  /\ thread = "join"
  /\ callback = "exited"
  /\ callback' = "none"
  /\ thread' = "deliver"
  /\ UNCHANGED <<flagVars, userVars, delivered, rootReady, isSearchBegun,
                 callbackLoopShouldStop, gotReportYet>>

\* Mistake: no move for a search that was stopped.
BrokenCallOnMove ==
  delivered' = IF shouldStopNow THEN delivered ELSE delivered \cup ({queued} \cap Moving)

CallOnMove == delivered' = delivered \cup ({queued} \cap Moving)

\* onMove, isRunning = false, and round the loop without releasing the mutex.
Deliver ==
  /\ thread = "deliver"
  /\ CallOnMove
  /\ isRunning' = FALSE
  /\ WakeUser
  /\ thread' = IF isKilled THEN "exited" ELSE "asleep"
  /\ UNCHANGED <<isKilled, shouldStopNow, queued, userOp, asked, launched,
                 rootReady, loopVars>>

(***************************************************************************)
(* The callback thread, the callbackLoop lambda.                           *)
(***************************************************************************)
\* periodToWait < 0 ends the loop before the next wait_for.
NextWait(set) == callback' = IF queued \in set THEN "timed" ELSE "exited"

CallbackStarts ==
  /\ callback = "start"
  /\ IF isSearchBegun THEN NextWait(Early) ELSE callback' = "asleep"
  /\ UNCHANGED <<flagVars, userVars, delivered, thread, rootReady,
                 isSearchBegun, callbackLoopShouldStop, gotReportYet>>

CallbackWoken ==
  /\ callback = "woken"
  /\ \/ callbackLoopShouldStop /\ callback' = "exited"
     \/ ~callbackLoopShouldStop /\ isSearchBegun /\ NextWait(Early)
     \/ ~callbackLoopShouldStop /\ ~isSearchBegun /\ callback' = "asleep"
  /\ UNCHANGED <<flagVars, userVars, delivered, thread, rootReady,
                 isSearchBegun, callbackLoopShouldStop, gotReportYet>>

\* wait_for returns: told to stop, or time is up and there is something to
\* report (if not, it waits again).
CallbackTimeout ==
  /\ callback = "timed"
  /\ \/ /\ callbackLoopShouldStop
        /\ callback' = "exited"
        /\ UNCHANGED gotReportYet
     \/ /\ ~callbackLoopShouldStop
        /\ gotReportYet \/ rootReady
        /\ callback' = "calling"
        /\ gotReportYet' = TRUE
  /\ UNCHANGED <<flagVars, userVars, delivered, thread, rootReady,
                 isSearchBegun, callbackLoopShouldStop>>

CallbackReturns ==
  /\ callback = "calling"
  /\ NextWait(Periodic)
  /\ UNCHANGED <<flagVars, userVars, delivered, thread, rootReady,
                 isSearchBegun, callbackLoopShouldStop, gotReportYet>>

\* A condition variable may wake a waiter for no reason.
SpuriousWakeup ==
  /\ \/ userPc = "asleep" /\ userPc' = "check" /\ UNCHANGED <<thread, callback>>
     \/ thread = "asleep" /\ thread' = "top" /\ UNCHANGED <<userPc, callback>>
     \/ callback = "asleep" /\ callback' = "woken" /\ UNCHANGED <<userPc, thread>>
  /\ UNCHANGED <<flagVars, userOp, asked, launched, delivered, rootReady,
                 isSearchBegun, callbackLoopShouldStop, gotReportYet>>

(***************************************************************************)
(* The specification.                                                      *)
(***************************************************************************)
UserAsks ==
  \/ \E s \in Searches : AskSearch(s)
  \/ \E op \in {"stop", "set", "destroy"} : AskStop(op)
  \/ AskWait

UserStep ==
  \/ WaitForSearchToEnd \/ RefuseSearch \/ QueueSearch \/ NotifyThread
  \/ SearchHasEnded \/ MutateSearch \/ DestructorKills \/ DestructorJoins

ThreadStep ==
  \/ ThreadSleeps \/ ThreadExits \/ TakeSearch \/ BeginSearch \/ SearchThrows
  \/ StopCallbackLoop \/ JoinCallbackThread \/ Deliver

CallbackStep ==
  CallbackStarts \/ CallbackWoken \/ CallbackTimeout \/ CallbackReturns

\* The bot was destroyed: nothing is left to happen.
Destroyed == userPc = "gone" /\ UNCHANGED asyncVars

BotNext ==
  \/ UserAsks \/ UserStep \/ StopWithoutWait \/ SetKilled
  \/ ThreadStep \/ Playout \/ EndSearch
  \/ CallbackStep \/ SpuriousWakeup
  \/ Destroyed

\* Every thread that can run does.  Nobody has to ask for anything, and no
\* spurious wakeup has to happen.
BotFairness ==
  /\ WF_asyncVars(UserStep)
  /\ WF_asyncVars(ThreadStep)
  /\ WF_asyncVars(Playout)
  /\ WF_asyncVars(EndSearch)
  /\ WF_asyncVars(CallbackStep)

BotSpec == BotInit /\ [][BotNext]_asyncVars /\ BotFairness

(***************************************************************************)
(* Properties.                                                             *)
(***************************************************************************)
\* Every variable has its type, and a running bot has a request.
BotTypeOK ==
  /\ isRunning \in BOOLEAN /\ isKilled \in BOOLEAN /\ shouldStopNow \in BOOLEAN
  /\ queued \in Searches \cup {None} /\ (isRunning => queued \in Searches)
  /\ userPc \in {"idle", "check", "asleep", "notify", "mutate", "kill", "join", "gone"}
  /\ userOp \in {"none", "launch", "stop", "set", "wait", "destroy"}
  /\ asked \in Searches \cup {None}
  /\ launched \subseteq Searches /\ delivered \subseteq Searches
  /\ thread \in {"top", "asleep", "begin", "search", "stopLoop", "join",
                 "deliver", "exited", "dead"}
  /\ rootReady \in BOOLEAN
  /\ callback \in {"none", "start", "asleep", "woken", "timed", "calling", "exited"}
  /\ isSearchBegun \in BOOLEAN /\ callbackLoopShouldStop \in BOOLEAN
  /\ gotReportYet \in BOOLEAN

InSearch == thread \in {"begin", "search", "stopLoop", "join", "deliver"}

\* The setters and genMove* touch the Search object, which has no locks of its
\* own for that, after (or right before) controlMutex is released: no thread
\* of the bot may be anywhere inside a search or a report then.
SearchNotMutatedWhileRunning ==
  userPc \in {"mutate", "kill", "join", "gone"} =>
    ~isRunning /\ ~InSearch /\ callback = "none"

\* The analysis callback reads a root that has values, for the search whose
\* request it belongs to, and is over before that search's onMove is called.
ReportsOnlyDuringSearch ==
  callback = "calling" =>
    /\ isRunning /\ queued \in Reporting
    /\ thread \in {"search", "stopLoop", "join"}
    /\ rootReady

\* Nobody sleeps on a condition variable whose condition holds already, unless
\* a notification is on its way: no wakeup is lost between the predicate being
\* made true and the notify that follows, in four places, in or out of the mutex.
NoLostWakeup ==
  /\ thread = "asleep" /\ (isRunning \/ isKilled) => userPc = "notify"
  /\ userPc = "asleep" => isRunning
  /\ callback = "asleep" => ~isSearchBegun /\ ~callbackLoopShouldStop

\* The queued request is what the search thread goes on reading (queuedOnMove
\* and queuedSearchId even after the search): nothing replaces it meanwhile.
RequestKeptWhileRunning == [][isRunning => queued' = queued]_asyncVars

\* genMoveSynchronous* hands out the moveLoc its onMove stored: it may return
\* without one only if the bot was killed.
SyncReturnsMove ==
  [][userOp = "wait" /\ userOp' = "none" /\ asked \in Sync
       => asked \in delivered \/ isKilled]_asyncVars

\* Refinement: the search thread and its flags keep SearchService's promises.
Service == INSTANCE SearchService
             WITH active <- IF isRunning THEN queued ELSE None,
                  stop <- shouldStopNow,
                  killed <- isKilled

\* The part of it without fairness: every step of the threads is one of
\* SearchService or none at all, also when a search throws.
ServiceSteps == Service!Init /\ [][Service!Next]_Service!serviceVars

\* All of it: a search that is active ends as SearchService promises, except one
\* that threw.
ImplementsService == ServiceSteps /\ ([](thread # "dead") => Service!Fairness)

\* stopAndWait, the setters, the genMove calls and the destructor come back,
\* whatever search is in the way, unless one threw ("Signal an ongoing genMove or ponder to stop
\* as soon as possible, and wait for the stop to happen").
CallsReturn ==
  userOp \in {"launch", "stop", "set", "destroy"} ~>
    (userPc = "gone" \/ userOp \in {"none", "wait"} \/ thread = "dead")

\* setKilled ends the search thread, whatever it is doing.
KilledThreadExits == isKilled ~> thread \in {"exited", "dead"}

\* Nobody waits for good: neither a caller nor whoever joins the search thread.
\* (A search that throws does make its callers wait: nothing says otherwise.)
ThreadsComeBack == CallsReturn /\ KilledThreadExits
=============================================================================
