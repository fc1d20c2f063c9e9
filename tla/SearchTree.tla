----------------------------- MODULE SearchTree -----------------------------
(***************************************************************************)
(* The search tree of cpp/search/search.cpp, shared by the threads of one  *)
(* search: playoutDescend and what it calls, the loop around it, and what  *)
(* happens to the tree between searches.  A node is identified by its      *)
(* position (useGraphSearch: the graph hash), so two paths may meet in a   *)
(* node and a path may come back to one.  The root is a node of its own,   *)
(* outside the node table.  A position that the table does not hold is a   *)
(* node in its initial state.                                              *)
(*                                                                         *)
(* Evaluations, utilities and selection values are left out: any child     *)
(* the code could select may be selected.  What a node's averages were     *)
(* computed from is kept instead: the edge visits read for them.           *)
(***************************************************************************)
EXTENDS Integers, Sequences, FiniteSets

CONSTANTS
  Threads,
  Positions, Start, \* positions, and the one the game starts from
  Moves, Pass,
  Root, None,    \* the root node; no move
  Leads,         \* Leads[p][m]: the position after m, legal and not avoided in p
  Terminal,      \* positions in which the game is over
  Superko,       \* <<p, m>>: m is legal in p on some paths to p only
  Levels,        \* slots of a node with one, two and three child arrays
  Limits,        \* maxPlayouts of each search of a behaviour: bounds them
  Weightless,    \* human SL: moves whose visits may count for the child alone
  MorePassing,   \* enableMorePassingHacks
  CatchUpLeak    \* graphSearchCatchUpLeakProb > 0

Nodes == Positions \cup {Root}
Slots == 1..Levels[3]

ASSUME ThreadsAssumption == IsFiniteSet(Threads) /\ Threads # {}
ASSUME PositionsAssumption == Start \in Positions /\ Terminal \subseteq Positions
ASSUME NamesAssumption == Root \notin Positions /\ None \notin Moves
ASSUME LeadsAssumption ==
  /\ DOMAIN Leads = Positions
  /\ \A p \in Positions : /\ DOMAIN Leads[p] \subseteq Moves
                          /\ \A m \in DOMAIN Leads[p] : Leads[p][m] \in Positions
ASSUME LevelsAssumption ==
  /\ Levels \in [1..3 -> Nat]
  /\ 0 < Levels[1] /\ Levels[1] < Levels[2] /\ Levels[2] < Levels[3]
ASSUME LimitsAssumption == Limits \in Seq(Nat)
\* The arrays hold every move there is.
ASSUME RoomAssumption ==
  \A p \in Positions : /\ IsFiniteSet(DOMAIN Leads[p])
                       /\ Cardinality(DOMAIN Leads[p]) <= Levels[3]

VARIABLES
  nd,            \* the nodes
  th,            \* the search threads
  rootPos,       \* the position searched
  allowed,       \* moves legal at the root that isAllowedRootMove lets through:
                 \* pass is one
  playouts, shouldStopNow,  \* numPlayoutsShared, shouldStopNow
  searches       \* searches begun so far

searchVars == <<rootPos, allowed, playouts, shouldStopNow, searches>>
vars == <<nd, th, searchVars>>

\* The states of a node, numbered as in the code.
Unevaluated == 0
Evaluating == 1
Expanded == {2, 4, 6}
Growing == {3, 5}

\* Slots that a node in state s, or seen in it, has.
Capacity(s) == IF s < 2 THEN 0 ELSE Levels[s \div 2]

NoEdges == [i \in Slots |-> 0]
FreshNode ==
  [state |-> Unevaluated, output |-> FALSE, arrays |-> 0,
   slot |-> [i \in Slots |-> None], edge |-> NoEdges, visits |-> 0,
   leaf |-> 0,             \* visits that are evaluations of the node itself
   seen |-> NoEdges,       \* edge visits its averages were computed from
   dirty |-> 0, vl |-> 0]

\* A thread: where it is, the node it is in and the frames of playoutDescend
\* above it, and the locals of that function and of updateStatsAfterPlayout.
FreshThread ==
  [pc |-> "done", cur |-> Root, path |-> <<>>, snap |-> 0, idx |-> 1, move |-> None,
   count |-> TRUE, counted |-> TRUE, ret |-> FALSE, pending |-> 0,
   read |-> NoEdges, mine |-> 0]

Init ==
  /\ nd = [n \in Nodes |-> FreshNode]
  /\ th = [t \in Threads |-> FreshThread]
  /\ rootPos = Start /\ allowed = Moves
  /\ playouts = 0 /\ shouldStopNow = FALSE /\ searches = 0

At(n) == IF n = Root THEN rootPos ELSE n

\* The moves of a node that may be searched, and the node one leads to.
Playable(n) == {m \in DOMAIN Leads[At(n)] : n = Root => m \in allowed}
ChildOf(n, m) == Leads[At(n)][m]

\* The children found in a node seen in state s: slots up to the first empty.
Found(n, s) == {i \in Slots : /\ i <= Capacity(s)
                              /\ \A j \in 1..i : nd[n].slot[j] # None}
MovesFound(n, s) == {nd[n].slot[i] : i \in Found(n, s)}

Child(t) == ChildOf(th[t].cur, th[t].move)

\* Thread t is at pc and goes on as r says.
Step(t, pc, r) == th[t].pc = pc /\ th' = [th EXCEPT ![t] = r]

(***************************************************************************)
(* Definitions named Broken... are the code with one plausible mistake in  *)
(* it; no action uses them.  Each shows that some property below can fail. *)
(***************************************************************************)

(***************************************************************************)
(* The loop of a search thread.                                            *)
(***************************************************************************)
Limit == IF searches = 0 THEN 0 ELSE Limits[searches]

EnterLoop(t) ==
  /\ Step(t, "begin", [th[t] EXCEPT !.pc = "loop", !.mine = playouts])
  /\ UNCHANGED <<nd, searchVars>>

StartPlayout(t) ==
  /\ Step(t, "loop", [th[t] EXCEPT !.pc = "visit"])
  /\ th[t].mine < Limit /\ ~shouldStopNow
  /\ UNCHANGED <<nd, searchVars>>

\* The limit on playouts is reached, or shouldStopEarly says so, or another
\* thread has stopped.
StopSearching(t) ==
  /\ Step(t, "loop", FreshThread)
  /\ shouldStopNow' = TRUE
  /\ UNCHANGED <<nd, rootPos, allowed, playouts, searches>>

\* Mistake: a thread compares the limit with its own playouts.
BrokenFinishPlayout(t) ==
  LET done == IF th[t].counted THEN 1 ELSE 0
  IN  /\ th[t].path = <<>>
      /\ playouts' = playouts + done
      /\ Step(t, "return", [FreshThread EXCEPT !.pc = "loop", !.mine = th[t].mine + done])
      /\ UNCHANGED <<nd, rootPos, allowed, shouldStopNow, searches>>

\* A thread knows the count as of the last playout it finished itself.
FinishPlayout(t) ==
  LET now == playouts + 1
  IN  /\ th[t].path = <<>>
      /\ playouts' = IF th[t].counted THEN now ELSE playouts
      /\ Step(t, "return", [FreshThread EXCEPT !.pc = "loop",
                               !.mine = IF th[t].counted THEN now ELSE th[t].mine])
      /\ UNCHANGED <<nd, rootPos, allowed, shouldStopNow, searches>>

(***************************************************************************)
(* playoutDescend: arriving at a node.                                     *)
(***************************************************************************)
Return(t, ret) ==
  [FreshThread EXCEPT !.pc = "return", !.ret = ret, !.cur = th[t].cur, !.path = th[t].path,
                      !.counted = th[t].counted, !.mine = th[t].mine]
GiveUp(t) == [Return(t, FALSE) EXCEPT !.counted = FALSE]

\* Thread t, about to select a child of its node, seen in state s.
Selecting(t, pc, s) == [Return(t, FALSE) EXCEPT !.pc = pc, !.snap = s]

IsTerminal(n) == n # Root /\ n \in Terminal

AddLeafValue(n) == nd' = [nd EXCEPT ![n].visits = @ + 1, ![n].leaf = @ + 1]

VisitTerminal(t) ==
  /\ IsTerminal(th[t].cur)
  /\ AddLeafValue(th[t].cur)
  /\ Step(t, "visit", Return(t, TRUE))
  /\ UNCHANGED searchVars

\* The node's state, read once, decides what to do.
VisitNode(t) ==
  LET s == nd[th[t].cur].state
  IN  /\ ~IsTerminal(th[t].cur)
      /\ Step(t, "visit",
              IF s = Unevaluated THEN [th[t] EXCEPT !.pc = "evaluate"]
              ELSE IF s = Evaluating THEN GiveUp(t)
              ELSE Selecting(t, "select", s))
      /\ UNCHANGED <<nd, searchVars>>

\* Mistake: whoever has an evaluation goes on to expand the node.
BrokenStoreOutput(t) ==
  /\ Step(t, "evaluate", [th[t] EXCEPT !.pc = "leaf"])
  /\ nd' = [nd EXCEPT ![th[t].cur].output = TRUE]
  /\ UNCHANGED searchVars

\* Each thread evaluates; storeNNOutputIfNull lets the first one go on.
StoreOutput(t) ==
  LET n == th[t].cur
  IN  /\ nd' = [nd EXCEPT ![n].output = TRUE]
      /\ Step(t, "evaluate", IF nd[n].output THEN GiveUp(t)
                             ELSE [th[t] EXCEPT !.pc = "leaf"])
      /\ UNCHANGED searchVars

\* The evaluation becomes the node's first visit ...
CountEvaluation(t) ==
  /\ Step(t, "leaf", [th[t] EXCEPT !.pc = "expand"])
  /\ AddLeafValue(th[t].cur)
  /\ UNCHANGED searchVars

\* ... before the state says that there is one.
ClaimExpansion(t) ==
  LET n == th[t].cur
  IN  /\ IF nd[n].state = Unevaluated
         THEN /\ nd' = [nd EXCEPT ![n].state = Evaluating, ![n].arrays = 1]
              /\ Step(t, "expand", [th[t] EXCEPT !.pc = "publish"])
         ELSE Step(t, "expand", GiveUp(t)) /\ UNCHANGED nd
      /\ UNCHANGED searchVars

PublishExpansion(t) ==
  /\ Step(t, "publish", Return(t, TRUE))
  /\ nd' = [nd EXCEPT ![th[t].cur].state = 2]
  /\ UNCHANGED searchVars

(***************************************************************************)
(* Choosing a child (selectBestChildToDescend) and making room for it.     *)
(***************************************************************************)
\* Every move is forbidden: the evaluation is counted once more.
SelectNothing(t) ==
  LET n == th[t].cur
  IN  /\ Found(n, th[t].snap) = {} /\ Playable(n) = {}
      /\ AddLeafValue(n)
      /\ Step(t, "select", Return(t, TRUE))
      /\ UNCHANGED searchVars

\* A new child for move m takes the slot after those found, if there is one.
NewChild(t, m, count) ==
  LET idx == Cardinality(Found(th[t].cur, th[t].snap)) + 1
      room == idx <= Capacity(th[t].snap)
  IN  [th[t] EXCEPT !.pc = IF room THEN "find" ELSE "grow", !.idx = idx, !.move = m,
                    !.count = count, !.snap = IF room THEN 0 ELSE @]

\* May the visit of move m count for the child and not for the edge?
CountChoices(m) == IF m \in Weightless THEN BOOLEAN ELSE {TRUE}

SelectExisting(t, i, count) ==
  LET n == th[t].cur
      m == nd[n].slot[i]
  IN  /\ i \in Found(n, th[t].snap)
      /\ count \in CountChoices(m)
      /\ Step(t, "select", [th[t] EXCEPT !.pc = "catchUp", !.idx = i, !.move = m,
                                         !.count = count, !.snap = 0])
      /\ nd' = [nd EXCEPT ![ChildOf(n, m)].vl = @ + 1]
      /\ UNCHANGED searchVars

SelectNew(t, m, count) ==
  /\ m \in Playable(th[t].cur) \ MovesFound(th[t].cur, th[t].snap)
  /\ count \in CountChoices(m)
  /\ Step(t, "select", NewChild(t, m, count))
  /\ UNCHANGED <<nd, searchVars>>

\* Once a node has been searched a little, a first pass among its children,
\* or a first move other than pass, gets a playout that does not count.
ForcePass(t, m) ==
  LET n == th[t].cur
      found == Found(n, th[t].snap)
  IN  /\ MorePassing
      /\ m \in Playable(n) \ MovesFound(n, th[t].snap)
      /\ \E i, j \in found : nd[n].edge[i] > 0 /\ nd[n].edge[j] > 0
                             /\ (i # j \/ nd[n].edge[i] > 1)
      /\ \A k \in MovesFound(n, th[t].snap) : (k = Pass) # (m = Pass)
      /\ Step(t, "select", [NewChild(t, m, FALSE) EXCEPT !.counted = FALSE])
      /\ UNCHANGED <<nd, searchVars>>

\* The chosen move is illegal on this path: the output is regenerated, the
\* playout ends here and counts for the path above.
SelectIllegal(t, m) ==
  /\ <<At(th[t].cur), m>> \in Superko
  /\ m \in Playable(th[t].cur) \cup MovesFound(th[t].cur, th[t].snap)
  /\ nd' = [nd EXCEPT ![th[t].cur].output = TRUE]
  /\ Step(t, "select", Return(t, TRUE))
  /\ UNCHANGED searchVars

\* Mistake: a thread that finds another one growing the node goes on.
BrokenGrowChildren(t) ==
  LET n == th[t].cur
      s == th[t].snap
  IN  /\ s < 6
      /\ IF s \in Growing \/ nd[n].state # s
         THEN Step(t, "grow", [th[t] EXCEPT !.pc = "find", !.snap = 0]) /\ UNCHANGED nd
         ELSE /\ nd' = [nd EXCEPT ![n].state = s + 1, ![n].arrays = @ + 1]
              /\ Step(t, "grow", [th[t] EXCEPT !.pc = "grown", !.snap = s + 1])
      /\ UNCHANGED searchVars

\* maybeExpandChildrenCapacityForNewChild: one thread adds an array, the others
\* select again.  With three arrays there is always room (RoomAssumption).
GrowChildren(t) ==
  LET n == th[t].cur
      s == th[t].snap
  IN  /\ s < 6
      /\ IF s \in Growing \/ nd[n].state # s
         THEN Step(t, "grow", Selecting(t, "reload", s)) /\ UNCHANGED nd
         ELSE /\ nd' = [nd EXCEPT ![n].state = s + 1, ![n].arrays = @ + 1]
              /\ Step(t, "grow", [th[t] EXCEPT !.pc = "grown", !.snap = s + 1])
      /\ UNCHANGED searchVars

\* Mistake: ... with the state of the node that it had seen before.
BrokenSelectAgain(t) ==
  /\ Step(t, "reload", Selecting(t, "select", th[t].snap))
  /\ UNCHANGED <<nd, searchVars>>

SelectAgain(t) ==
  /\ Step(t, "reload", Selecting(t, "select", nd[th[t].cur].state))
  /\ UNCHANGED <<nd, searchVars>>

PublishGrowth(t) ==
  /\ Step(t, "grown", [th[t] EXCEPT !.pc = "find", !.snap = 0])
  /\ nd' = [nd EXCEPT ![th[t].cur].state = th[t].snap + 1]
  /\ UNCHANGED searchVars

\* allocateOrFindNode, and a virtual loss on what it returns.
FindNode(t) ==
  /\ Step(t, "find", [th[t] EXCEPT !.pc = "claim"])
  /\ nd' = [nd EXCEPT ![Child(t)].vl = @ + 1]
  /\ UNCHANGED searchVars

\* Mistake: the virtual loss stays on the child of the playout given up.
BrokenLostRace(t) ==
  /\ Step(t, "claim", GiveUp(t))
  /\ nd[th[t].cur].slot[th[t].idx] # None
  /\ UNCHANGED <<nd, searchVars>>

\* Under the node's mutex: the slot is free, or this playout is given up.
ClaimSlot(t) ==
  LET n == th[t].cur
  IN  /\ Step(t, "claim", [th[t] EXCEPT !.pc = "catchUp"])
      /\ nd[n].slot[th[t].idx] = None
      /\ nd' = [nd EXCEPT ![n].slot[th[t].idx] = th[t].move]
      /\ UNCHANGED searchVars

LostRace(t) ==
  /\ Step(t, "claim", GiveUp(t))
  /\ nd[th[t].cur].slot[th[t].idx] # None
  /\ nd' = [nd EXCEPT ![Child(t)].vl = @ - 1]
  /\ UNCHANGED searchVars

(***************************************************************************)
(* Descending, and coming back.                                            *)
(***************************************************************************)
AddEdgeVisit(t) == nd' = [nd EXCEPT ![th[t].cur].edge[th[t].idx] = @ + 1]

EdgeBehind(t) == nd[th[t].cur].edge[th[t].idx] < nd[Child(t)].visits

\* maybeCatchUpEdgeVisits: the child has visits this edge does not account for.
CatchUp(t) ==
  /\ Step(t, "catchUp", [th[t] EXCEPT !.pc = "announce"])
  /\ th[t].count /\ EdgeBehind(t)
  /\ AddEdgeVisit(t)
  /\ UNCHANGED searchVars

NotCaughtUp(t) == ~th[t].count \/ ~EdgeBehind(t) \/ CatchUpLeak

\* graphPath: the nodes of this playout.
Visited(t) == {th[t].cur} \cup {th[t].path[i].node : i \in DOMAIN th[t].path}

Descend(t) ==
  /\ th[t].pc = "catchUp" /\ NotCaughtUp(t)
  /\ Child(t) \notin Visited(t)
  /\ Step(t, "catchUp",
          [Return(t, FALSE) EXCEPT !.pc = "visit", !.cur = Child(t),
             !.path = Append(@, [node |-> th[t].cur, idx |-> th[t].idx,
                                 move |-> th[t].move, count |-> th[t].count])])
  /\ UNCHANGED <<nd, searchVars>>

\* A cycle ends the playout, which counts.
CloseCycle(t) ==
  /\ th[t].pc = "catchUp" /\ NotCaughtUp(t)
  /\ Child(t) \in Visited(t)
  /\ IF th[t].count
     THEN AddEdgeVisit(t) /\ Step(t, "catchUp", [th[t] EXCEPT !.pc = "announce"])
     ELSE /\ nd' = [nd EXCEPT ![Child(t)].vl = @ - 1]
          /\ Step(t, "catchUp", Return(t, FALSE))
  /\ UNCHANGED searchVars

Above(t) == SubSeq(th[t].path, 1, Len(th[t].path) - 1)

\* The thread as it was in the frame above.
Popped(t) ==
  LET f == th[t].path[Len(th[t].path)]
  IN  [th[t] EXCEPT !.cur = f.node, !.idx = f.idx, !.move = f.move, !.count = f.count,
                    !.path = Above(t)]

ReturnToParent(t) ==
  LET f == th[t].path[Len(th[t].path)]
  IN  /\ th[t].pc = "return" /\ th[t].path # <<>>
      /\ IF th[t].ret /\ f.count
         THEN /\ nd' = [nd EXCEPT ![f.node].edge[f.idx] = @ + 1]
              /\ Step(t, "return", [Popped(t) EXCEPT !.pc = "announce"])
         ELSE /\ nd' = [nd EXCEPT ![ChildOf(f.node, f.move)].vl = @ - 1]
              /\ Step(t, "return", [Return(t, FALSE) EXCEPT !.cur = f.node, !.path = Above(t)])
      /\ UNCHANGED searchVars

(***************************************************************************)
(* updateStatsAfterPlayout: one thread recomputes for all.                 *)
(***************************************************************************)
AnnounceVisit(t) ==
  LET n == th[t].cur
  IN  /\ nd' = [nd EXCEPT ![n].dirty = @ + 1]
      /\ Step(t, "announce", IF nd[n].dirty > 0 THEN [th[t] EXCEPT !.pc = "leave"]
                             ELSE [th[t] EXCEPT !.pc = "recompute", !.pending = 1])
      /\ UNCHANGED searchVars

\* recomputeNodeStats: the children are read ...
EdgesOf(n) ==
  [i \in Slots |-> IF nd[n].slot[i] # None /\ nd[ChildOf(n, nd[n].slot[i])].visits > 0
                   THEN nd[n].edge[i] ELSE 0]

ReadChildren(t) ==
  /\ Step(t, "recompute", [th[t] EXCEPT !.pc = "store", !.read = EdgesOf(th[t].cur)])
  /\ UNCHANGED <<nd, searchVars>>

\* Mistake: one visit is added, whoever else announced one.
BrokenStoreStats(t) ==
  /\ Step(t, "store", [th[t] EXCEPT !.pc = "settle", !.read = NoEdges])
  /\ nd' = [nd EXCEPT ![th[t].cur].seen = th[t].read, ![th[t].cur].visits = @ + 1]
  /\ UNCHANGED searchVars

\* ... and the averages and visits of the node stored, under statsLock.
StoreStats(t) ==
  /\ Step(t, "store", [th[t] EXCEPT !.pc = "settle", !.read = NoEdges])
  /\ nd' = [nd EXCEPT ![th[t].cur].seen = th[t].read,
                      ![th[t].cur].visits = @ + th[t].pending]
  /\ UNCHANGED searchVars

\* Mistake: those that announced a visit meanwhile are forgotten.
BrokenSettle(t) ==
  /\ Step(t, "settle", [th[t] EXCEPT !.pc = "leave", !.pending = 0])
  /\ nd' = [nd EXCEPT ![th[t].cur].dirty = 0]
  /\ UNCHANGED searchVars

\* Take back what was done; go round again for those that came meanwhile.
Settle(t) ==
  LET n == th[t].cur
      left == nd[n].dirty - th[t].pending
  IN  /\ nd' = [nd EXCEPT ![n].dirty = left]
      /\ Step(t, "settle", IF left = 0
                           THEN [th[t] EXCEPT !.pc = "leave", !.pending = 0]
                           ELSE [th[t] EXCEPT !.pc = "recompute", !.pending = left])
      /\ UNCHANGED searchVars

\* The virtual loss on the child is taken back.
LeaveChild(t) ==
  /\ Step(t, "leave", Return(t, TRUE))
  /\ nd' = [nd EXCEPT ![Child(t)].vl = @ - 1]
  /\ UNCHANGED searchVars

(***************************************************************************)
(* Between searches: no thread runs.                                       *)
(***************************************************************************)
AtRest == \A t \in Threads : th[t].pc = "done"

Sum(f) == Cardinality(UNION {{i} \X (1..f[i]) : i \in Slots})

\* The positions reached from a root at pos: the mark of mark and sweep.
Steps(nodes, n, pos) == {Leads[pos][m] : m \in {nodes[n].slot[i] : i \in Slots} \ {None}}
Reached(nodes, pos) ==
  {p \in Positions :
     \A S \in SUBSET Positions :
       (Steps(nodes, Root, pos) \subseteq S /\ \A q \in S : Steps(nodes, q, q) \subseteq S)
         => p \in S}

\* Mistake: the walk that marks the nodes turns back before a childless one.
BrokenSwept(nodes, pos) ==
  [n \in Nodes |-> IF n = Root \/ (n \in Reached(nodes, pos) /\ nodes[n].slot[1] # None)
                   THEN nodes[n] ELSE FreshNode]

Swept(nodes, pos) ==
  [n \in Nodes |-> IF n = Root \/ n \in Reached(nodes, pos) THEN nodes[n] ELSE FreshNode]

\* clearSearch: every node is deleted.
ClearSearch ==
  /\ AtRest /\ searches < Len(Limits)
  /\ nd' = [n \in Nodes |-> FreshNode]
  /\ UNCHANGED <<th, searchVars>>

\* makeMove: the child becomes the root, if the node has an output and nothing
\* calls for a new tree.
MakeMove(m, clear) ==
  LET child == Leads[rootPos][m]
      kept == ~clear /\ (\E i \in Slots : nd[Root].slot[i] = m) /\ nd[child].output
  IN  /\ AtRest /\ searches < Len(Limits)
      /\ m \in DOMAIN Leads[rootPos]
      /\ rootPos' = child
      /\ nd' = IF kept THEN Swept([nd EXCEPT ![Root] = nd[child]], child)
               ELSE [n \in Nodes |-> FreshNode]
      /\ UNCHANGED <<th, allowed, playouts, shouldStopNow, searches>>

\* The slots of the root's children whose moves are in S, and what is at the
\* first slots when the children are moved down to them.
Kept(S) == {i \in Slots : nd[Root].slot[i] \in S}
Moved(S, slots, nothing) ==
  [i \in Slots |->
     LET from == {j \in Kept(S) : Cardinality({k \in Kept(S) : k <= j}) = i}
     IN  IF from = {} THEN nothing ELSE slots[CHOOSE j \in from : TRUE]]

\* collapseChildrenCapacity: the least state with room for k children.
Collapsed(s, k) ==
  IF k <= Levels[1] /\ s > 2 THEN 2 ELSE IF k <= Levels[2] /\ s > 4 THEN 4 ELSE s

\* Mistake: the visits of the children taken away are still counted.
BrokenFilteredRoot(S) ==
  LET edge == Moved(S, nd[Root].edge, 0)
      state == Collapsed(nd[Root].state, Cardinality(Kept(S)))
  IN  [nd[Root] EXCEPT !.slot = Moved(S, nd[Root].slot, None), !.edge = edge,
                       !.seen = edge, !.state = state, !.arrays = state \div 2]

FilteredRoot(S) ==
  LET edge == Moved(S, nd[Root].edge, 0)
      state == Collapsed(nd[Root].state, Cardinality(Kept(S)))
  IN  [nd[Root] EXCEPT !.slot = Moved(S, nd[Root].slot, None), !.edge = edge,
                       !.seen = edge, !.state = state, !.arrays = state \div 2,
                       !.visits = 1 + Sum(edge), !.leaf = 1]

\* Mistake: the tree is kept as it is.
BrokenBeginSearch(S) ==
  /\ AtRest /\ searches < Len(Limits)
  /\ searches' = searches + 1
  /\ allowed' = S
  /\ playouts' = 0 /\ shouldStopNow' = FALSE
  /\ th' = [t \in Threads |-> [FreshThread EXCEPT !.pc = "begin"]]
  /\ UNCHANGED <<nd, rootPos>>

\* beginSearch: a tree that is kept loses the children not allowed at the root.
BeginSearch(S) ==
  LET filtered == \E i \in Slots : nd[Root].slot[i] \notin S \cup {None}
  IN  /\ AtRest /\ searches < Len(Limits)
      /\ searches' = searches + 1
      /\ allowed' = S
      /\ nd' = IF filtered THEN Swept([nd EXCEPT ![Root] = FilteredRoot(S)], rootPos)
               ELSE nd
      /\ playouts' = 0 /\ shouldStopNow' = FALSE
      /\ th' = [t \in Threads |-> [FreshThread EXCEPT !.pc = "begin"]]
      /\ UNCHANGED rootPos

(***************************************************************************)
(* The specification.                                                      *)
(***************************************************************************)
ThreadStep(t) ==
  \/ EnterLoop(t) \/ StartPlayout(t) \/ FinishPlayout(t)
  \/ VisitTerminal(t) \/ VisitNode(t)
  \/ StoreOutput(t) \/ CountEvaluation(t)
  \/ ClaimExpansion(t) \/ PublishExpansion(t)
  \/ SelectNothing(t)
  \/ \E i \in Slots, count \in BOOLEAN : SelectExisting(t, i, count)
  \/ \E m \in Moves, count \in BOOLEAN : SelectNew(t, m, count)
  \/ \E m \in Moves : ForcePass(t, m) \/ SelectIllegal(t, m)
  \/ GrowChildren(t) \/ SelectAgain(t) \/ PublishGrowth(t)
  \/ FindNode(t) \/ ClaimSlot(t) \/ LostRace(t)
  \/ CatchUp(t) \/ Descend(t) \/ CloseCycle(t) \/ ReturnToParent(t)
  \/ AnnounceVisit(t) \/ ReadChildren(t) \/ StoreStats(t) \/ Settle(t) \/ LeaveChild(t)

\* Once the limit is reached a thread in the loop can only stop.
LimitReached(t) == th[t].mine >= Limit \/ shouldStopNow

\* Nobody asks for another search.
Idle == AtRest /\ UNCHANGED vars

BetweenSearches ==
  \/ ClearSearch \/ Idle
  \/ \E m \in Moves, clear \in BOOLEAN : MakeMove(m, clear)
  \/ \E S \in SUBSET Moves : Pass \in S /\ BeginSearch(S)

Next ==
  \/ \E t \in Threads : ThreadStep(t) \/ StopSearching(t)
  \/ BetweenSearches

Fairness ==
  \A t \in Threads : WF_vars(ThreadStep(t)) /\ WF_vars(LimitReached(t) /\ StopSearching(t))

Spec == Init /\ [][Next]_vars /\ Fairness

(***************************************************************************)
(* Properties.                                                             *)
(***************************************************************************)
In(t, pcs, n) == th[t].pc \in pcs /\ th[t].cur = n

TypeOK ==
  /\ nd \in [Nodes -> [state : 0..6, output : BOOLEAN, arrays : Nat,
                       slot : [Slots -> Moves \cup {None}], edge : [Slots -> Nat],
                       visits : Nat, leaf : Nat, seen : [Slots -> Nat], dirty : Nat,
                       vl : Int]]
  /\ th \in [Threads ->
        [pc : {"begin", "loop", "visit", "evaluate", "leaf", "expand", "publish", "select",
               "grow", "reload", "grown", "find", "claim", "catchUp", "announce",
               "recompute", "store", "settle", "leave", "return", "done"},
         cur : Nodes,
         path : Seq([node : Nodes, idx : Slots, move : Moves, count : BOOLEAN]),
         snap : 0..6, idx : Nat, move : Moves \cup {None}, count : BOOLEAN,
         counted : BOOLEAN, ret : BOOLEAN, pending : Nat, read : [Slots -> Nat],
         mine : Nat]]
  /\ rootPos \in Positions /\ allowed \subseteq Moves
  /\ playouts \in Nat /\ shouldStopNow \in BOOLEAN /\ searches \in 0..Len(Limits)

\* What may be followed without a lock is there.  A filled slot is within the
\* arrays that the state promises, the filled slots come first, and no move has
\* two: selectBestChildToDescend stops at the first empty slot and reads the
\* rest without the mutex, while other threads fill slots and add arrays.
SlotsWellFormed ==
  /\ \A t \in Threads : th[t].pc = "grow" => th[t].snap < 6
  /\ \A n \in Nodes :
       /\ nd[n].arrays >= nd[n].state \div 2
       /\ \A i \in Slots : nd[n].slot[i] # None =>
            /\ nd[n].slot[i] \in DOMAIN Leads[At(n)]
            /\ i <= Capacity(nd[n].state)
            /\ \A j \in 1..(i - 1) : nd[n].slot[j] \notin {None, nd[n].slot[i]}

\* A node leaves the unevaluated state with its statistics in place, and only
\* the thread whose output was stored moves the state on ("to avoid races where
\* we update the state while the node stats aren't updated yet"); an edge that
\* counts leads to a node that has a visit.
EvaluatedBeforeExpanded ==
  /\ \A n \in Nodes : nd[n].state # Unevaluated => nd[n].output /\ nd[n].visits > 0
  /\ \A t \in Threads : th[t].pc = "expand" => nd[th[t].cur].state = Unevaluated
  /\ \A n \in Nodes, i \in Slots :
       nd[n].edge[i] > 0 => /\ nd[n].slot[i] # None
                            /\ nd[ChildOf(n, nd[n].slot[i])].visits > 0

\* Every virtual loss is held by a frame of a playout under way that goes
\* through the node: none stays behind, whichever way a playout ends.  Frame 0
\* is the one the thread is in, the others are those above it.
Losing == {"claim", "catchUp", "announce", "recompute", "store", "settle", "leave"}
Held(r, n) ==
  {i \in 0..Len(r.path) :
     IF i = 0 THEN r.pc \in Losing /\ ChildOf(r.cur, r.move) = n
     ELSE ChildOf(r.path[i].node, r.path[i].move) = n}
Holders(n) == UNION {{t} \X Held(th[t], n) : t \in Threads}
VirtualLossesHeld == \A n \in Nodes : nd[n].vl = Cardinality(Holders(n))

\* The visits of a node are its own evaluations and the visits of its edges,
\* but for those announced, or about to be, and not yet added: with threads
\* recomputing for each other, no visit is dropped or added twice.
Due(n) ==
  nd[n].dirty + Cardinality({t \in Threads : In(t, {"announce"}, n)})
VisitsAccounted ==
  \A n \in Nodes :
    nd[n].leaf + Sum(nd[n].edge) =
      nd[n].visits + Due(n)
        - (IF \E t \in Threads : In(t, {"settle"}, n)
           THEN th[CHOOSE t \in Threads : In(t, {"settle"}, n)].pending ELSE 0)

\* A node that nobody is about to recompute has averages computed from the
\* edge visits it has now: the thread that found the counter above zero and
\* left its update to another is not forgotten.
StatsUpToDate ==
  \A n \in Nodes :
    nd[n].dirty = 0 /\ (\A t \in Threads : ~In(t, {"announce"}, n))
      => nd[n].seen = nd[n].edge

\* What a tree at rest is for recursivelyRecomputeStats, makeMove and the next
\* search, wherever its root was moved: no virtual losses, no node half way between
\* two states or without a visit, all visits those of evaluations and edges.
QuietAtRest ==
  AtRest =>
    \A n \in {Root} \cup Reached(nd, rootPos) :
      /\ nd[n].vl = 0 /\ nd[n].dirty = 0
      /\ nd[n].state \notin {Evaluating} \cup Growing
      /\ n # Root => nd[n].visits > 0
      /\ nd[n].visits = nd[n].leaf + Sum(nd[n].edge)

\* The children of the root are moves that the search under way allows, also
\* those of a tree that an earlier search, with other moves allowed, has grown.
RootMovesAllowed ==
  ~AtRest => \A i \in Slots : nd[Root].slot[i] \in allowed \cup {None}

\* A thread compares the limit with a count that may be out of date, so the
\* search may pass the limit: by one playout for each other thread, no more.
LimitPassedByThreads == playouts <= Limit + Cardinality(Threads) - 1

\* A search ends: threads that give up because another one is evaluating,
\* growing or ahead at a slot do not keep each other from the limit.
SearchEnds == (\E t \in Threads : th[t].pc # "done") ~> AtRest
=============================================================================
