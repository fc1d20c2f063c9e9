-------------------------- MODULE SelfplayManager --------------------------
(***************************************************************************)
(* Self-play: the manager of cpp/program/selfplaymanager.cpp and the       *)
(* threads that cpp/command/selfplay.cpp runs on it.  Game threads acquire *)
(* the latest net, play, hand the finished game to the net's data writing  *)
(* loop and release the net; the loading thread adds nets as they appear;  *)
(* a net that is not the latest is retired with its last release, and its  *)
(* writing loop deletes it when its queue is empty.  The main thread joins *)
(* them and destroys the manager.                                          *)
(*                                                                         *)
(* Nets are numbered in the order they are loaded (a name that comes back  *)
(* while its net is loaded is refused by the manager; the directory of     *)
(* nets is taken not to produce one), games as numGamesStarted counts them.*)
(***************************************************************************)
EXTENDS Integers, Sequences, FiniteSets

CONSTANTS
  Games,         \* the game threads
  MaxModels,     \* bounds the nets that appear
  MaxGames,      \* maxGamesTotal
  QueueSize,     \* maxDataQueueSize
  SwitchMidGame  \* switchNetsMidGame

ASSUME SelfplayAssumption ==
  /\ IsFiniteSet(Games)
  /\ MaxModels \in Nat \ {0} /\ MaxGames \in Nat /\ QueueSize \in Nat \ {0}
  /\ SwitchMidGame \in BOOLEAN

Models == 1..MaxModels
NoModel == 0
NoGame == -1

VARIABLES
  modelDatas,    \* the manager's nets: the vector is in the order of their numbers
  md,            \* the ModelData objects
  gt,            \* the game threads
  numGamesStarted, shouldStop,
  loading,       \* the loading thread: "check", "load", "done"
  main,          \* the main thread: "joining", "deleting" the manager, "done"
  numDataWriteLoopsActive,
  written        \* games written, in order

vars == <<modelDatas, md, gt, numGamesStarted, shouldStop, loading, main,
          numDataWriteLoopsActive, written>>

\* A net: "unloaded", "loaded", "deleted"; who acquired it; the queue of its
\* finished games, read-only once retired; where its writing loop is and the
\* game it writes.
NoData == [phase |-> "unloaded", acquireCount |-> 0, queue |-> <<>>, readOnly |-> FALSE,
           loop |-> "none", game |-> NoGame]

\* A game thread: the nets it has acquired (old only while it changes nets),
\* the net its searches use, and the game it plays.
Waiting == [pc |-> "loop", eval |-> NoModel, old |-> NoModel, bots |-> NoModel,
            game |-> NoGame]

Init ==
  /\ modelDatas = {1}
  /\ md = [m \in Models |-> IF m = 1 THEN [NoData EXCEPT !.phase = "loaded", !.loop = "pop"]
                            ELSE NoData]
  /\ gt = [g \in Games |-> Waiting]
  /\ numGamesStarted = 0 /\ shouldStop = FALSE
  /\ loading = "check" /\ main = "joining"
  /\ numDataWriteLoopsActive = 1 /\ written = <<>>

\* The net loaded last.
Latest == CHOOSE m \in modelDatas : \A k \in modelDatas : k <= m

(***************************************************************************)
(* Definitions named Broken... are the code with one plausible mistake in  *)
(* it; no action uses them.  Each shows that some property below can fail. *)
(***************************************************************************)

(***************************************************************************)
(* The manager, under managerMutex.                                        *)
(***************************************************************************)
\* Mistake: the latest net is retired too.
BrokenRetired(models, data) == {m \in models : data[m].acquireCount = 0}

\* maybeAutoCleanupAlreadyLocked: nets that are neither latest nor in use, the
\* latest being the one loaded last.
Retired(models, data) ==
  {m \in models : data[m].acquireCount = 0 /\ \E l \in models : l > m}

Close(data, retired) ==
  [m \in Models |-> IF m \in retired THEN [data[m] EXCEPT !.readOnly = TRUE] ELSE data[m]]

\* The manager's nets become models, their data data, but for those retired.
Cleanup(models, data) ==
  LET retired == Retired(models, data)
  IN  /\ modelDatas' = models \ retired
      /\ md' = Close(data, retired)

Acquired(m) == [md EXCEPT ![m].acquireCount = @ + 1]
Released(m) == [md EXCEPT ![m].acquireCount = @ - 1]

(***************************************************************************)
(* A game thread.                                                          *)
(***************************************************************************)
managerVars == <<modelDatas, numDataWriteLoopsActive>>
otherVars == <<loading, main, written>>

Goes(g, pc, r) == gt[g].pc = pc /\ gt' = [gt EXCEPT ![g] = r]

SeeStop(g) ==
  /\ shouldStop
  /\ Goes(g, "loop", [Waiting EXCEPT !.pc = "done"])
  /\ UNCHANGED <<managerVars, md, numGamesStarted, shouldStop, otherVars>>

SeeGoOn(g) ==
  /\ ~shouldStop
  /\ Goes(g, "loop", [Waiting EXCEPT !.pc = "acquire"])
  /\ UNCHANGED <<managerVars, md, numGamesStarted, shouldStop, otherVars>>

AcquireLatest(g) ==
  /\ modelDatas # {}
  /\ Goes(g, "acquire", [gt[g] EXCEPT !.pc = "start", !.eval = Latest])
  /\ md' = Acquired(Latest)
  /\ UNCHANGED <<managerVars, numGamesStarted, shouldStop, otherVars>>

\* A game is started, or there have been enough and the thread ends.
StartGame(g) ==
  /\ Goes(g, "start",
          IF numGamesStarted < MaxGames
          THEN [gt[g] EXCEPT !.pc = "play", !.bots = gt[g].eval, !.game = numGamesStarted]
          ELSE [gt[g] EXCEPT !.pc = "quit"])
  /\ numGamesStarted' = numGamesStarted + 1
  /\ UNCHANGED <<managerVars, md, shouldStop, otherVars>>

\* checkForNewNNEval: another net is the latest; both are acquired for a moment.
AcquireNewer(g) ==
  /\ SwitchMidGame /\ modelDatas # {}
  /\ gt[g].eval # Latest
  /\ Goes(g, "play", [gt[g] EXCEPT !.pc = "switch", !.old = gt[g].eval, !.eval = Latest])
  /\ md' = Acquired(Latest)
  /\ UNCHANGED <<managerVars, numGamesStarted, shouldStop, otherVars>>

ReleaseOld(g) ==
  /\ Goes(g, "switch", [gt[g] EXCEPT !.pc = "set", !.old = NoModel])
  /\ Cleanup(modelDatas, Released(gt[g].old))
  /\ UNCHANGED <<numDataWriteLoopsActive, numGamesStarted, shouldStop, otherVars>>

\* setNNEval: only now do the searches leave the old net, and play goes on.
SetNNEval(g) ==
  /\ Goes(g, "set", [gt[g] EXCEPT !.pc = "play", !.bots = gt[g].eval])
  /\ UNCHANGED <<managerVars, md, numGamesStarted, shouldStop, otherVars>>

\* The game ends; when it was interrupted there is none to write.
FinishGame(g) ==
  /\ Goes(g, "play",
          IF shouldStop THEN [gt[g] EXCEPT !.pc = "quit", !.bots = NoModel, !.game = NoGame]
          ELSE [gt[g] EXCEPT !.pc = "enqueue", !.bots = NoModel])
  /\ UNCHANGED <<managerVars, md, numGamesStarted, shouldStop, otherVars>>

\* Mistake: the net is released before its game is handed over.
BrokenFindData(g) ==
  /\ gt[g].eval \in modelDatas
  /\ Goes(g, "enqueue", [gt[g] EXCEPT !.pc = "push"])
  /\ Cleanup(modelDatas, Released(gt[g].eval))
  /\ UNCHANGED <<numDataWriteLoopsActive, numGamesStarted, shouldStop, otherVars>>

\* enqueueDataToWrite: the net is looked up under the mutex ...
FindData(g) ==
  /\ gt[g].eval \in modelDatas
  /\ Goes(g, "enqueue", [gt[g] EXCEPT !.pc = "push"])
  /\ UNCHANGED <<managerVars, md, numGamesStarted, shouldStop, otherVars>>

\* ... and pushed to without it: waitPush waits for room, and pushes nothing on
\* a read-only queue.
PushGame(g) ==
  LET m == gt[g].eval
  IN  /\ Goes(g, "push", [gt[g] EXCEPT !.pc = "release", !.game = NoGame])
      /\ Len(md[m].queue) < QueueSize \/ md[m].readOnly
      /\ md' = [md EXCEPT ![m].queue = IF md[m].readOnly THEN @ ELSE Append(@, gt[g].game)]
      /\ UNCHANGED <<managerVars, numGamesStarted, shouldStop, otherVars>>

\* Mistake: nets are retired only when another one is loaded.
BrokenRelease(g) ==
  /\ gt[g].pc \in {"release", "quit"}
  /\ Goes(g, gt[g].pc, [Waiting EXCEPT !.pc = IF gt[g].pc = "quit" THEN "done" ELSE "loop"])
  /\ md' = Released(gt[g].eval)
  /\ UNCHANGED <<managerVars, numGamesStarted, shouldStop, otherVars>>

Release(g) ==
  /\ gt[g].pc \in {"release", "quit"}
  /\ Goes(g, gt[g].pc, [Waiting EXCEPT !.pc = IF gt[g].pc = "quit" THEN "done" ELSE "loop"])
  /\ Cleanup(modelDatas, Released(gt[g].eval))
  /\ UNCHANGED <<numDataWriteLoopsActive, numGamesStarted, shouldStop, otherVars>>

(***************************************************************************)
(* The loading thread, and the signal that stops everything.               *)
(***************************************************************************)
CheckStop ==
  /\ loading = "check"
  /\ loading' = IF shouldStop THEN "done" ELSE "load"
  /\ UNCHANGED <<managerVars, md, gt, numGamesStarted, shouldStop, main, written>>

\* loadModelAndStartDataWriting: the signal may have come meanwhile.
LoadModel(m) ==
  /\ loading = "load" /\ loading' = "check"
  /\ md[m].phase = "unloaded" /\ \A k \in 1..(m - 1) : md[k].phase # "unloaded"
  /\ Cleanup(modelDatas \cup {m},
             [md EXCEPT ![m].phase = "loaded", ![m].loop = "pop"])
  /\ numDataWriteLoopsActive' = numDataWriteLoopsActive + 1
  /\ UNCHANGED <<gt, numGamesStarted, shouldStop, main, written>>

NoNewModel ==
  /\ loading = "load" /\ loading' = "check"
  /\ UNCHANGED <<managerVars, md, gt, numGamesStarted, shouldStop, main, written>>

Signal ==
  /\ ~shouldStop
  /\ shouldStop' = TRUE
  /\ UNCHANGED <<managerVars, md, gt, numGamesStarted, otherVars>>

(***************************************************************************)
(* A data writing loop.                                                    *)
(***************************************************************************)
InLoop(m, loop, r) == md[m].loop = loop /\ md' = [md EXCEPT ![m] = r]

PopGame(m) ==
  /\ md[m].queue # <<>>
  /\ InLoop(m, "pop", [md[m] EXCEPT !.loop = "write", !.game = Head(md[m].queue),
                                    !.queue = Tail(@)])
  /\ UNCHANGED <<managerVars, gt, numGamesStarted, shouldStop, otherVars>>

WriteGame(m) ==
  /\ InLoop(m, "write", [md[m] EXCEPT !.loop = "pop", !.game = NoGame])
  /\ written' = Append(written, md[m].game)
  /\ UNCHANGED <<managerVars, gt, numGamesStarted, shouldStop, loading, main>>

\* Mistake: the loop ends as soon as its queue is read-only.
BrokenEndLoop(m) ==
  /\ md[m].readOnly
  /\ InLoop(m, "pop", [md[m] EXCEPT !.loop = "ended"])
  /\ UNCHANGED <<managerVars, gt, numGamesStarted, shouldStop, otherVars>>

\* waitPop finds the queue read-only and empty.
EndLoop(m) ==
  /\ md[m].readOnly /\ md[m].queue = <<>>
  /\ InLoop(m, "pop", [md[m] EXCEPT !.loop = "ended"])
  /\ UNCHANGED <<managerVars, gt, numGamesStarted, shouldStop, otherVars>>

\* The mutex is taken once, so that whoever retired the net is done with it.
DeleteModel(m) ==
  /\ InLoop(m, "ended", [md[m] EXCEPT !.loop = "deleted", !.phase = "deleted"])
  /\ UNCHANGED <<managerVars, gt, numGamesStarted, shouldStop, otherVars>>

CheckIn(m) ==
  /\ InLoop(m, "deleted", [md[m] EXCEPT !.loop = "done"])
  /\ numDataWriteLoopsActive' = numDataWriteLoopsActive - 1
  /\ UNCHANGED <<modelDatas, gt, numGamesStarted, shouldStop, otherVars>>

(***************************************************************************)
(* The main thread.                                                        *)
(***************************************************************************)
\* All game threads have ended: nothing else asks for games.
StopAll ==
  /\ main = "joining" /\ \A g \in Games : gt[g].pc = "done"
  /\ main' = "stopping" /\ shouldStop' = TRUE
  /\ UNCHANGED <<managerVars, md, gt, numGamesStarted, loading, written>>

\* Mistake: the loading thread is not waited for.
BrokenDestroyManager ==
  /\ main = "stopping"
  /\ main' = "deleting"
  /\ md' = Close(md, modelDatas)
  /\ modelDatas' = {}
  /\ UNCHANGED <<gt, numGamesStarted, shouldStop, loading, numDataWriteLoopsActive, written>>

\* ~SelfplayManager: every net is retired ...
DestroyManager ==
  /\ main = "stopping" /\ loading = "done"
  /\ main' = "deleting"
  /\ md' = Close(md, modelDatas)
  /\ modelDatas' = {}
  /\ UNCHANGED <<gt, numGamesStarted, shouldStop, loading, numDataWriteLoopsActive, written>>

\* ... and the writing loops waited for.
Exit ==
  /\ main = "deleting" /\ numDataWriteLoopsActive = 0
  /\ main' = "done"
  /\ UNCHANGED <<managerVars, md, gt, numGamesStarted, shouldStop, loading, written>>

Ended == main = "done" /\ UNCHANGED vars

(***************************************************************************)
(* The specification.                                                      *)
(***************************************************************************)
Play(g) ==
  \/ SeeStop(g) \/ SeeGoOn(g) \/ AcquireLatest(g) \/ StartGame(g)
  \/ ReleaseOld(g) \/ SetNNEval(g)
  \/ FinishGame(g) \/ FindData(g) \/ PushGame(g) \/ Release(g)
Write(m) == PopGame(m) \/ WriteGame(m) \/ EndLoop(m) \/ DeleteModel(m) \/ CheckIn(m)

Load == CheckStop \/ NoNewModel \/ \E m \in Models : LoadModel(m)
Main == StopAll \/ DestroyManager \/ Exit

Next ==
  \/ \E g \in Games : Play(g) \/ AcquireNewer(g)
  \/ \E m \in Models : Write(m)
  \/ Load \/ Signal \/ Main \/ Ended

\* Every thread runs and games end; nobody need send a signal or train a net.
Fairness ==
  /\ \A g \in Games : WF_vars(Play(g))
  /\ \A m \in Models : WF_vars(Write(m))
  /\ WF_vars(Load) /\ WF_vars(Main)

Spec == Init /\ [][Next]_vars /\ Fairness

(***************************************************************************)
(* Properties.                                                             *)
(***************************************************************************)
\* The nets a thread has acquired, and how often they are acquired in all.
Holds(g) == {gt[g].eval, gt[g].old} \ {NoModel}
Holders(m) == {g \in Games : m \in Holds(g)}

TypeOK ==
  /\ modelDatas \subseteq Models
  /\ md \in [Models ->
        [phase : {"unloaded", "loaded", "deleted"}, acquireCount : Int, queue : Seq(Nat),
         readOnly : BOOLEAN, loop : {"none", "pop", "write", "ended", "deleted", "done"},
         game : Nat \cup {NoGame}]]
  /\ gt \in [Games ->
        [pc : {"loop", "acquire", "start", "play", "switch", "set", "enqueue", "push",
               "release", "quit", "done"},
         eval : Models \cup {NoModel}, old : Models \cup {NoModel},
         bots : Models \cup {NoModel}, game : Nat \cup {NoGame}]]
  /\ numGamesStarted \in Nat /\ shouldStop \in BOOLEAN
  /\ loading \in {"check", "load", "done"}
  /\ main \in {"joining", "stopping", "deleting", "done"}
  /\ numDataWriteLoopsActive \in Int /\ written \in Seq(Nat)

\* A net that a game thread has acquired stays managed: nobody retires it, and
\* nobody deletes the data the thread pushes to without the mutex ("the caller
\* has acquired the model as well, so it won't be cleaned up underneath us"),
\* nor the evaluator that its searches use, also while it changes nets.
HeldModelsManaged ==
  \A g \in Games :
    /\ \A m \in Holds(g) : /\ m \in modelDatas /\ md[m].phase = "loaded"
                          /\ ~md[m].readOnly
    /\ gt[g].pc = "play" => gt[g].bots = gt[g].eval
    /\ gt[g].pc = "switch" => gt[g].bots = gt[g].old

\* What the manager and selfplay.cpp assert: the count of a net is that of its
\* holders, a net whose writing loop ends is neither acquired nor managed, the
\* last loop to check in leaves no net managed, a thread that acquires the
\* latest net finds one, and nothing is acquired when the manager is destroyed.
AssertionsHold ==
  /\ \A m \in Models :
       /\ md[m].acquireCount = Cardinality(Holders(m))
       /\ md[m].loop \in {"ended", "deleted"} => md[m].acquireCount = 0 /\ m \notin modelDatas
  /\ numDataWriteLoopsActive =
       Cardinality({m \in Models : md[m].loop \in {"pop", "write", "ended", "deleted"}})
  /\ \A m \in Models : md[m].loop = "deleted" /\ numDataWriteLoopsActive = 1
                         => modelDatas = {}
  /\ \A g \in Games : gt[g].pc = "acquire" => modelDatas # {}
  /\ main # "joining" => \A m \in Models : md[m].acquireCount = 0

\* Whatever the order of loads and releases, a net that is not the latest and
\* not in use is retired at once: old nets do not pile up in memory.
UnusedModelsRetired ==
  \A m \in modelDatas : m # Latest => md[m].acquireCount > 0

\* A game that has been finished is written, whichever of the writer, the next
\* net, and the signal to stop comes first.
FinishedGamesWritten ==
  \A k \in 0..(MaxGames - 1) :
    (\E g \in Games : gt[g].pc = "enqueue" /\ gt[g].game = k)
      ~> (\E i \in DOMAIN written : written[i] = k)

\* Self-play ends once there have been enough games or the signal has come: no
\* thread waits for a queue nobody empties, no loop for a game nobody pushes.
SelfplayEnds == <>(main = "done")
=============================================================================
