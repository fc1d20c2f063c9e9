# A TLA+ verification project for KidGo (KataGo with a web service)

KidGo is the KataGo engine (`cpp/`: a multi-threaded Monte-Carlo tree search for
Go guided by a neural net, in C++) and a web service around it
(`cpp/web_service/`: Python asyncio). This directory specifies the parts of it in
which threads, coroutines and processes wait for one another, model-checks them
on small instances with TLC, and proves their main invariants for every instance
with TLAPS. Every definition that stands for code says in `PROJECT.json` ("map")
which lines it stands for.

## 1. The system

| Part | State | Operations | Hard because | Correct if |
|---|---|---|---|---|
| `AsyncBot` (`search/asyncbot.cpp`) | flags `isRunning`, `isKilled`, `shouldStopNow`; the queued request; a search thread and per search a callback thread | genMove (sync, async, analyze), ponder, analyze, setters, stop, kill, destroy | a mutex and three condition variables, notifications outside the mutex, setters that run outside it | one search at a time, nobody touches it meanwhile, moves and reports belong to the search, calls return |
| Analysis engine (`command/analysis.cpp`) | `openRequests`, a priority queue, a status per request, one `AsyncBot` per thread | query, terminate, end of input, the analysis loop | lock-free status protocol between two threads, deletion of requests, shutdown in steps | exactly one final response, last of its request; terminate hits its own request only |
| `ThreadSafeQueue` (`core/threadsafequeue.h`) | two vectors and a head index, `closed`, `readOnly`, two condition variables | push and pop in blocking, forced, trying and batch forms, close, read-only | notifies only on boundary crossings | first in, first out; no lost wakeup |
| `WaitableFlag` (`core/threadsafecounter.h`) | an atomic Boolean, `finished` | set, setPermanently, wait | reads the flag outside the mutex | waits end |
| Web engine (`web_service/engine.py`) | a KataGo process, jobs with status, results and deadlines, a write lock | submit, cancel, read answers, reap, restart | every `await` lets others run; the process dies or hangs at any time | quotas hold, ended jobs stay ended, every job ends |
| Web pool (`web_service/engine_pool.py`) | up to three engines, retired jobs, a lock | submit (may evict, start and wait for an engine), cancel, poll | awaits inside the lock, readers without it | no job is lost with its engine, the bound on engines holds |
| `NNEvaluator` (`neuralnet/nneval.cpp`) | query queue, result buffers, server threads, cache, counters | evaluate, serve, kill and respawn | hand-off of results, batches, counters | every evaluation is answered |
| Search tree (`search/search.cpp`, `searchnode.cpp`, `searchupdatehelpers.cpp`) | nodes with an atomic state, child arrays, edge visits, statistics, virtual losses; the root; `numPlayoutsShared`, `shouldStopNow` | playouts of many threads; clear, move, begin | lock-free expansion and growth, transpositions and cycles, statistics recomputed by one thread for others, a tree kept for the next search | no visit or virtual loss lost, no node half-made visible, the limit passed by no more than the threads, searches end |
| Self-play (`program/selfplaymanager.cpp`, `command/selfplay.cpp`) | nets with reference counts, a bounded data queue and a writing loop each; game threads; `shouldStop` | load, acquire, change net, release, enqueue, write, destroy | the push happens outside the mutex, nets retire themselves, three kinds of threads end in order | nets stay while held and go when not, finished games are written, the program ends |
| Go board (`game/board.cpp`) | colors, chains as circular lists with a head each, their sizes and liberties, hash, ko point, captures | play, pass, undo, set stones by hand; predictions of a move | everything is kept incrementally; undo rebuilds what a move destroyed | agrees with the stones, and with the rules of Go |
| Go rules (`game/boardhistory.cpp`, `rules.cpp`) | history, ko tables, phases | play, pass, score | superko, phases | follows the rules |
| Contribute (`command/contribute.cpp`, `distributed/`) | tasks, downloads, uploads, pause and stop flags | work loops | several flags and joins | stops when told |
| Time controls, book, data files, GTP, other commands, backends, utilities, HTTP layer, browser client, Python training | | | mostly sequential, numeric or I/O | |

How they interact: GTP and the analysis threads call `AsyncBot`; its search
threads call `NNEvaluator`, whose threads share `ThreadSafeQueue`; the analysis
engine uses the priority variant of that queue for requests and the plain one for
output; the self-play manager uses it for finished games, one queue for each net; the
threads of a search share its tree; contribute pauses its
threads with a `WaitableFlag`. The web pool owns web engines; each owns a process
that is the analysis engine, and talks to it in lines of JSON. The API handlers
call the pool; the browser polls it.

`PROJECT.json` lists every part under "components", those not modelled too, and
under "hazards" what in this code is hard to test, line by line.

## 2. The modules

`SearchService`, `FifoChannel`, `JobBoard` and `GoBoard` are abstract specifications:
what a component promises, without locks, threads or bookkeeping. The others are
translated from the source.

**AsyncBot** (`search/asyncbot.cpp`). One action is one section of code from taking
`controlMutex` to releasing it or waiting (so the mutex is not a variable), or one
lock-free step. The user thread (`userPc`, `userOp`) makes one call at a time:
`AskSearch` / `WaitForSearchToEnd` / `QueueSearch` / `NotifyThread` is a genMove or
analyze call (`RefuseSearch` when killed, or a ponder while something runs);
`AskStop` / `SearchHasEnded` is stopAndWait, and with `MutateSearch` a setter, with
`DestructorKills` and `DestructorJoins` the destructor. `StopWithoutWait` and
`SetKilled` may come from any thread. The search thread's loop is `ThreadSleeps` to
`Deliver`; the callback thread is the four `Callback...` actions. Of `Search` there
is left that it begins, that a playout gives the root values, that it looks at
`shouldStopNow` and its limits, and that it returns, or throws. Constants say which
requests have a move callback, are synchronous, ponder, limit themselves, report,
and throw. A search that throws while its callback thread exists ends the whole
process (a joinable `std::thread` is destroyed) and is excluded by an assumption.

**AnalysisEngine** (`command/analysis.cpp`). The reading thread (`apiPc`) accepts or
rejects queries, each of up to `MaxTurns` requests, pushes them one by one,
terminates any set of open requests, one `FlagTerminated` / `ActOnTerminated` pair
each while it holds `openRequestsMutex`, and goes through the shutdown. An analysis
thread (`worker`) pops the best request, claims it by compare-and-swap, prepares its
bot, searches, reports, clears and deletes. The bot inside is AsyncBot's protocol as
its user sees it: `BotOf(t)` is the `SearchService` that thread `t` uses. AsyncBot and
AnalysisEngine may be extended by one module: AsyncBot's specification is `BotSpec`, its
variables are `asyncVars`. Priorities order the queue; `stop`, `killed` and `root` are the
bot's flags. Lines are counted when they enter the output queue, per request and
kind; `writeOpen` says whether that queue still takes them.

**ThreadSafeQueue** (`core/threadsafequeue.h`). Elements are numbered in the order of
successful pushes, `eltsEnqueue`, `eltsDequeue` and `headIdx` are the code's. A
blocking call is `Call...` and then one or more visits to the critical section;
between them the thread may be in the wait set of a condition variable, which a
notification empties. `received` is what all pops returned, in order.

**WaitableFlag** (`core/threadsafecounter.h`). The read outside the mutex (`Wait`)
and the entry into the wait (`Sleep`) are two actions, as in the code.

**WebEngine** (`web_service/engine.py`). asyncio switches at awaits only, so an
action is the code between two of them. `_supervise` is `Spawn` ... `Restart`;
`write` is a queue of messages at a lock: `WriteSends` or `WriteFails`, then
`WriteEnds`, when `AfterWrite` runs what follows the await in the coroutine that
wrote; `_reap` is `Reap...`, and `ReapGoesOn` after its own await; `Answer` and
`AnswerFails` are `_message`. `Submit(j, o)` is for either owner; a job has its owner while
it is in the dictionary. A task that `Close` cancels takes its message with it (`Leave`). The process is external: it answers each turn of a
query once, in any order, without results only if terminated, or dies. `results`
holds the turns whose final answer is stored: a partial report never follows the
final one (`FinalIsLast` of AnalysisEngine), so partial ones change nothing that the
properties see. Deadlines are events that may happen at any time.

**WebPool** (`web_service/engine_pool.py`). A submission waits for the lock (`Enter`,
or `Refuse`), may `Evict` an idle engine and await its close (`Evicted`), start an
engine, wait until it is `Loaded` or `LoadFails`, and then write. An engine is
loading, ready or failed; the jobs of each and `retired_jobs` are sequences, because
the code keeps the newest (`Newest`); a job that is forgotten leaves its own (`Without`).
`PoolJobs` is what a poll sees.

**NNEval** (`neuralnet/nneval.cpp`). An action is a section under `bufferMutex` or
under the mutex of one result buffer, or one operation of the query queue, which is taken
for the `FifoChannel` it implements. A search thread (`client`) evaluates (`CacheHit`, or
`CountEval`, `PushQuery`, `TakeResult`) or waits for somebody else's evaluation
(`WaitForNextNNEvalIfAny`, `LookAgain`); a server thread is `ServerStarts` ...
`BatchDone`; one thread (`main`) spawns and kills server threads, and kills them only when
the search's threads are joined, as all callers do (`nneval.h:227` says that the call is
not thread-safe). The cap on a batch may be changed at any time, so `PopBatch` takes any.
A thread in its own playout may find the position in the cache or not: both are
possible. One thing the model shows that the comment at `nneval.h:217` ("wait until at
least one finishes") does not say: a thread that comes to wait while notified threads have
not left yet takes the turn of one of them and returns at once, and that one waits for the
next batch. `CountersSettle` and `CallsReturn` hold all the same.

**SearchTree** (`search/search.cpp`, `searchnode.cpp`, `searchupdatehelpers.cpp`,
`searchexplorehelpers.cpp`). An action is one atomic operation on shared memory, or one section
under a node's mutex or `statsLock`, with the thread-local code around it. `nd` holds the nodes: a
node is its position, as the table of graph search has it, and the root is outside the table. `th`
holds the threads, each with the frames of `playoutDescend` (`path`). The loop is `EnterLoop`,
`StartPlayout`, `FinishPlayout`, `StopSearching`; a playout arrives (`VisitTerminal`,
`VisitNode`), evaluates and expands (`StoreOutput` ... `PublishExpansion`), selects
(`Select...`, `ForcePass`), makes room and claims the slot (`GrowChildren` ... `LostRace`),
descends or closes a cycle (`CatchUp`, `Descend`, `CloseCycle`), returns (`ReturnToParent`)
and updates statistics (`AnnounceVisit` ... `LeaveChild`). Between searches, when
`performTaskWithThreads` has returned, there are `ClearSearch`, `MakeMove` and `BeginSearch`.
Which child is best is arithmetic: any child or new move that the code could select may be
selected. What averages a node has is arithmetic too: `seen` is what they were computed from.
`Reached` is mark and sweep: the positions that every set closed under children, with the root's
in it, contains. The rules are a constant (`Leads`, `Superko`, `Terminal`), and so are the sizes of
the child arrays (`Levels`), which are 8, 64 and 512 in the code.

**SelfplayManager** (`program/selfplaymanager.cpp`, `command/selfplay.cpp`). An action is a
section under `managerMutex`, an operation of a net's queue (again a `FifoChannel`), or a read
of `shouldStop`. `gt` are the game threads with the nets each holds; `md` the nets with their
counts, queues and writing loops; `main` joins the game threads, then the loading thread, then
destroys the manager, as the command does. `AcquireNewer` / `ReleaseOld` / `SetNNEval` is
`checkForNewNNEval` and what play.cpp does with its answer: for a moment the thread holds both nets
and searches with the old one.

**Board** (`game/board.cpp`, `board.h`). `GoGrid` has the points, groups and liberties as
the rules define them; `GoBoard`, on top of it, is the abstract specification: a position of
colors, ko ban and stones lost, and the positions before the recorded moves. `BoardOps`
translates the functions of the class on a record of its arrays: chains as circular lists,
each with a head that holds its number of stones and liberties; merging, removing and
splitting of chains; the hash as the set of what was XORed into it. Where the code walks a
chain, so does a recursive function on sets of points or on paths. `Board` is its user: moves and passes recorded
(`PlayMoveRecorded`, `PassRecorded`), undone in reverse order (`Undo`) or kept for good
(`Forget`), and stones set by hand, singly or as lists, while no move is recorded. A move
played without a record is a recorded one whose record is dropped.

`MC...` modules give constants their values. `...Proofs` modules hold the theorems.
Operators named `Broken...` are the code with one plausible mistake; no action uses
them. Each is the "as" of a mutant in `PROJECT.json`, which shows that the property
beside it can fail.

## 3. The runs

| Run | Instance | Question |
|---|---|---|
| `asyncbot` | a synchronous genMove, a ponder and an analysis with callbacks; the ponder throws | exclusion, reports, wakeups, moves; the threads implement `SearchService` with its fairness; calls return |
| `analysis` | 2 requests in queries of up to 2 turns, 2 threads, one partial report | one final response, in order; stops and deletions hit nobody else; accepted and terminated requests are answered; quitting ends |
| `queue` | 2 producers, 2 consumers, size 2, batches of 2 and 3, 4 pushes | wakeups, no deadlock, `FifoChannel` (which has the order) with its fairness |
| `waitableflag` | 2 threads | *violated*: see findings |
| `webengine` | 2 jobs (a two-turn review and a human move), each for either of 2 owners, quotas 2 and 1 | quotas, an engine for every job, completeness; `JobBoard` with its fairness: ended jobs stay ended, every job ends |
| `webpool` | 4 jobs on 4 models for 3 places, 2 owners, small quotas, a short `retired_jobs` | shared quota, no job lost, the lock released |
| `webpool_poll` | the same | *violated*: see findings |
| `nneval` | 3 search threads, 2 server threads, batches of up to 2 | buffers are not reused under a server thread; counters settle; evaluations and naps end |
| `search_tree` | 2 threads, one search of 3 playouts, 4 positions with a transposition, a cycle, a superko move and a terminal one; arrays of 1, 2 and 3 slots | slots, states, virtual losses, visits, averages and the limit, in every interleaving of the lock-free steps |
| `search_reuse` | the same positions, searches of 2 and of 1 playouts, with moves, other allowed moves or a clear between | the tree at rest is whole and has no disallowed root child; each search ends |
| `selfplay` | 2 game threads, 2 nets, 3 games, queues of one, nets changed in the middle of games, a signal at any time | held nets stay, assertions hold, finished games are written, the program ends |
| `board` | 2 by 3 points, empty at first; any move, pass, undo and stone; 2 lists of stones; suicide allowed; 2 moves recorded | the chains, liberties and hash agree with the stones, predictions with the moves; `GoBoard` |

Bounds, and why they are enough. Two threads on each side are what it takes for one
to overtake another or to steal a wakeup; the queue of two with batches of three and
four pushes crosses both boundaries by more than one and swaps the vectors twice.
Two requests and two threads let a thread go on to its next one while the reading thread still
holds a pointer to the last. Three kinds of search have all combinations that
`AsyncBot` distinguishes; each may be asked for once per behaviour (`launched`), in
any order. Two jobs that are one owner's or two owners' are in progress together or refuse
one another, by the owner's quota of one; the quota of two is out of reach in `webengine` and
is proved (section 4). Four models for three places force an eviction. On 2 by 3 points there are
chains of up to six stones with shared liberties, captures, suicides of several stones, ko, and stones set
that split a chain; two recorded moves let an undo follow an undo. Three search threads are what it
takes for one to evaluate, one to be notified and one to take its turn, and two
servers for a batch to be counted off while another is in progress. Two threads meet at a node in
every pair of steps; one playout makes a child, the second a transposition or a grandchild, the third
goes through the cycle or makes the array grow under the other thread, and a limit of three is
passed by one. Two nets and three games have a net retired while it is held, while it is in a
queue, and while it is idle, and both threads blocked at a full queue. Unbounded data are bounded by
`MaxRequests`, `MaxTurns`, `MaxPartials` (AnalysisEngine), `MaxPushes` (queue), `Limits`
(SearchTree), `MaxModels`, `MaxGames` (SelfplayManager), `MaxRecords` (Board) and the sets of jobs and searches. Each is a guard on the environment's action, never on the code's.

Deadlock is checked in `analysis`, `queue`, `nneval`, `search_tree`, `search_reuse`,
`selfplay` and `board` (where the searches are over, or the program has ended, the next-state relation says
so by a stuttering action of its own: `Idle`, `Ended`). It is not checked where the system may stop:
`asyncbot` (after a throw the destructor waits for ever; `ThreadsComeBack` and the fairness of
`SearchService` speak of a search thread that lives), the web runs (all jobs used up after a
shutdown) and `waitableflag`.

Fairness. A thread or coroutine that can take a step does (weak fairness per thread):
the operating system and the event loop see to that. Nothing makes the user ask,
the process answer, a spurious wakeup come, or a search without a limit end. A mutex
that is free is taken sooner or later, also by a thread before which others release and take it
again (strong fairness, of `CloseRequest` in AnalysisEngine only: the standard library promises as
little, but a thread that reads requests for ever without letting others in would need input for
ever). In SearchTree a thread takes some step as long as it can; which child it chooses, or whether
it stops early, is nobody's promise, so a search ends by its limit. In SelfplayManager games end
and nets are written; no signal and no new net need come. The web engine's fairness only says that the
loop runs, that deadlines are noticed, and that a process that was killed exits.

### Findings

- `WaitableFlag::waitUntilFalse` can sleep for ever after `setPermanently(false)`:
  it reads the flag before it takes the mutex and trusts the copy. A contribute
  thread caught there never comes back, and the program does not exit
  (`threadsafecounter.h:98`, `contribute.cpp:690`).
- While an engine is being evicted, its finished jobs are in no dictionary for as long
  as the engine takes to close; a poll in that time fails with 404
  (`engine_pool.py:66`, `engine.py:161`).

## 4. The proofs

All are safety properties `Spec => []P` or `Spec => [][A]_vars`, for every value of the
constants that satisfies the named assumptions (`AsyncBotConstants`, `AnalysisConstants`,
`QueueConstants`, `EngineConstants`, `PoolConstants`, `NNEvalConstants`, `SelfplayAssumption`
and the seven of SearchTree): any numbers of threads, jobs, models, positions and moves, any capacities, quotas
and limits. In each proof module `IInv` is inductive (one lemma or step per action); the
properties follow from it. BoardProofs is different: see there.

- **AnalysisEngineProofs, the bots** (`BotSpec`, `BotInv`). None of AsyncBot's properties is inductive. `UserInv` says what the user
  thread's position implies about the request, `ThreadInv` that a request is in progress
  exactly while the search thread has to act on it, `CallbackInv` how far the callback
  thread is within one search, and `MoveInv` where a move that is waited for is.
  With `NoLostWakeup` they are inductive. `Refinement` shows that every step is one of
  `SearchService` or a stutter: `QueueSearch` launches, `Deliver` finishes, `ThreadExits`
  abandons.
- **AnalysisEngineProofs, the engine.** `PlaceInv`: a request is in one place at a time. `TargetInv`:
  what the reading thread's loop still has to do. `StatusInv`: the status word agrees with
  where the analysis thread is. `StopInv`: whose stop it is. `FinalInv`: who owes the
  final response; `ApiOwes` is the debt the reading thread takes over with its exchange.
  `BotsAsService` joins the two halves: every step of the engine is, for the bot of each thread, a step
  of `SearchService` or none, so the engine asks of a bot only what `Refinement` says a bot can do.
- **ThreadSafeQueueProofs.** The properties with `CallInv` are inductive. The work is in
  the sequence lemmas: cutting and joining (`Slice`, `Cut`, `Join3`), `PushAppends`,
  and `PopsKeepOrder`, which covers the swap of the vectors. `Refinement` shows that every step is one
  of `FifoChannel` or a stutter: a batch takes the oldest elements (`PopsGive`, by `SplitAlike`:
  two cuts of a sequence at the same place are equal), and `waitPop` asks for one (`DemandInv`).
- **WebEngineProofs.** `JobInv`: the status of a job agrees with its deadlines, turns, owner and
  results. `WriteInv` and `TaskInv`: the lock holds one message of `_supervise` and one of `_reap`
  exactly while these wait in `write`. `StopInv`: a job is told to end once it is settled how.
  With `NoJobWithoutEngine` they are inductive. `QuotaKept` is one conjunct of `JobInv`: `Submit` checks and
  enters a job without an await in between. `Refinement` shows that every step is one of `JobBoard` or a stutter.
- **WebPoolProofs.** The quota is checked long before the job counts. `QuotaInv` therefore
  reserves its place: as long as a submission is evicting or loading, the jobs in progress are
  fewer than the limits, its own owner's too. That needs `LockInv` (one submission has the lock,
  and has an engine to close or to wait for) and `PlaceInv` (a job is on the engine of its model
  or retired, and an active one on an engine that is there, so the check sees it: `QuotaChecked`).
  `ResidentBound`, which counts the engine being closed, is inductive with them.
- **NNEvalProofs.** `BufferHeldWhileServed` is inductive with `ServerInv` (a server thread
  has rows only while it serves) and `CountedInv` (a buffer about to be pushed is cleared).
  What a sequence holds after an append, a split or a tail is in `HoldsAppend`,
  `HoldsSplit` and `HoldsTail`; steps that move no buffer are covered by `BuffersStay`.
  `CountInv` says what each counter counts (evaluations that are pushed, queued or in a batch; naps
  that are waiting or told to wake up) as the cardinality of a set of threads, and that nobody searches
  but while server threads run; `CountersSettle` follows.
- **SelfplayManagerProofs.** `GameInv`: where a game thread is says which nets it holds.
  `ModelInv`: where its writing loop is says in what phase a net is, and a net is managed exactly
  while it is loaded and its queue open. `CountInv` and `ActiveInv` are the two counts as
  cardinalities: a step adds one holder, takes one away (`OneHolderMore`, `OneHolderLess`) or
  changes none (`SameHolders`). `LastInv`: all nets but the last are in use; it needs that
  whoever releases or loads cleans up in the same section of the mutex. `MainInv`: what has ended when the
  main thread goes on.
- **SearchTreeProofs, first part** (`IInv`). `ThreadsInv`: each frame of a playout is linked to the one below it by
  the slot it went through, so what a thread knows of its node when it comes back still
  holds. `NodesInv`: what is evaluated, and where slots and edges lead. `LeafInv`: one thread
  at a time is between storing a node's output and publishing its children, and the node stays
  unevaluated until it claims it. `UpdateInv`: one thread at a time recomputes a node; if it has
  missed an edge visit, then the counter is above what it will take back or somebody is about to
  announce the visit. This is why leaving one's update to another thread is safe. `CountInv`:
  the playouts beyond the limit are at most the threads that know of the limit, less one.
- **SearchTreeProofs, second part** (`SearchInv`, `AllowedInv`, inductive given `IInv`). Every step of a
  thread is first reduced to its effect (`Effect`, `Affects`): what becomes of the thread's record and of one
  node. Each part is then proved from the effects. `RoomInv`: the state of a node says how many arrays
  it has. `SlotInv`: slots are filled in order and with no move twice, and a thread with a new child in
  mind has seen all slots before the one it will claim filled; when the arrays are full it has one to grow to,
  for which `RoomAssumption` (the arrays hold every move there is) is needed. `OutsideInv`: threads outside a
  playout have no frames. `VisitInv`: whoever fills a slot or stores an output is on the way to the first visit of
  the node. `LossInv`: the virtual losses of a node are as many as the frames of playouts that hold one.
  `SumInv`: the visits of a node's edges and its own are its visits, those that `dirty` counts and those about to be
  announced, less what the updating thread has added and not yet taken back. `AllowedInv`: the move a thread has in mind for a
  new slot of the root is one that the search allows. Between searches these say that the tree is at rest (`Calm`),
  which `clearSearch`, `makeMove` and the filtering and sweep of `beginSearch` keep; a node
  that the sweep keeps has its children kept.

- **BoardProofs, predictions.** `Predicted`: `BookkeepingExact => PredictionsExact` in every state, on a board
  of any size (`SizeAssumption`). `GroupLeast` says what a group is, whatever recursion finds it: the least set
  with the point that is closed under neighbours of its colour. From it: groups that meet are one (`GroupShared`), and a group
  depends only on the stones of its colour (`GroupDepends`), so that after a move the group of the new stone is its own
  point and the groups of its colour beside it, without those that were taken (`PutIs`, `AfterIs`), and what the move takes is the
  groups in atari beside it (`TakenIs`, `CaughtIs`). What each function computes from heads, counts and the circular lists is then compared
  with that: `SuicidesPredicted`, `CapturesPredicted`, `HashPredicted`, `LibertiesPredicted`, `BoundsPredicted` (which adds up
  what each neighbour brings), `KoCapturePredicted`.
- **BoardProofs, the rules.** `RulesKeepCalm`: a board that implements `GoBoard` never has a group without liberties, in its
  position or among those that undo brings back (`CalmInv`, inductive under `GoBoard`'s steps). It rests on two
  lemmas: taking stones away stifles nobody (`RemovalFrees`), and after a move with its captures and its suicide nobody is
  stifled (`MoveFrees`).

Only model-checked:

- everything about liveness and fairness (`ThreadsComeBack`, `ResponsesCome`, `QuitEnds`, `CallsReturn`, `SearchEnds`,
  `FinishedGamesWritten`, `SelfplayEnds`, `LockReleased`, and of `ImplementsService`, `ImplementsChannel` and `ImplementsJobBoard`
  the fairness), which is out of the prover's reach;
- `BookkeepingExact` and `ImplementsGoBoard`, on which the two theorems about Board rest: that moves, undo and the setters keep chains and
  lists exact is a fact about what floods (`AddChainHelper`, `RebuildChainHelper`), walks (`Stroll`) and folds along a chain
  compute for every input. That is induction over data, and the library's induction theorems take an operator as a parameter,
  which the provers cannot instantiate.

Some results are parts of what a run checks: `ServiceSteps`, `BoardSteps` and `ChannelSteps`
(the steps of `ImplementsService`, `ImplementsJobBoard` and `ImplementsChannel`), `RequestKeptWhileRunning`, `NothingLostOrReordered` and
`DrainedBeforeRefused` (implied by those of the abstract specifications), and the type invariants. `ResidentBound`,
`UnusedModelsRetired` and `BotsServe` are proved and no run lists them.

## 5. The plan

Done, in this order: AsyncBot with SearchService, AnalysisEngine, ThreadSafeQueue with
FifoChannel, WaitableFlag, WebEngine with JobBoard, WebPool, NNEval, SearchTree, SelfplayManager, Board
with GoBoard; then the proofs about all of them but WaitableFlag, of Board those that need no induction over data.

Next:

1. Of Board the lemmas on lists: what a walk visits after a merge, a removal and a split, and with them
   `BookkeepingExact` as an inductive invariant.
2. Smaller parts: the manager calls of the contribute client, its shutdown loops.

## 6. Not modelled, and why

Floating-point formulas (PUCT, utilities, book values), tensors and backends, formats and
parsers, HTTP and browser code, and the offline Python training have little control to
check and much arithmetic that TLC and TLAPS do not have. In the modelled parts these are
left out: what a search computes; JSON text; logging; the web service's events to
listeners and its `max_positions` quota (a second counter beside the two that are
modelled); the pool's own `close`, which ends the program; of the search tree the weights and
values, time limits and pondering factors, searches without graph search (where a node has one
parent, a special case of what is modelled but for the table), and the recursive recomputation when a tree
is reused, which reads a tree at rest (`QuietAtRest`) and writes numbers; of self-play what only
the distributed client calls (`acquireModel` by name, `loadModelNoDataWritingLoop`,
`withDataWriters`, `cleanupUnusedModelsOlderThan`, `clearUnusedModelCaches`), the validation
data, and the exception for a net whose name is managed already. Of the Go board the ladder search and the
pass-alive and territory regions are left out: searches over a board as Board has it, which they leave as it was.
History, ko rules beyond the simple ko, scoring and time controls are sequential and
unit-tested; the models take from them that moves lead from position to position. Memory is sequentially
consistent in the models; the code's atomics use acquire and release, or stronger, on
every flag that the models read outside a mutex.
