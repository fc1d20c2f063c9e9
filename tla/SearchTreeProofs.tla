-------------------------- MODULE SearchTreeProofs --------------------------
(***************************************************************************)
(* For any positions, moves, capacities, limits and threads: a search      *)
(* passes its limit by the other threads' playouts at most; a node is      *)
(* expanded only when it is evaluated, an edge with visits leads to a node *)
(* with visits; and averages are those of the edge visits, unless somebody *)
(* is about to recompute them (IInv, first part).                          *)
(*                                                                         *)
(* From IInv then (second part): slots are filled in order, within their   *)
(* arrays and with no move twice; every virtual loss is held by a frame of *)
(* a playout; the visits of a node are its own and those of its edges; the *)
(* tree is at rest and whole between searches; and its root has allowed    *)
(* children only.  There each step is first reduced to its effect on its   *)
(* thread and on one node; the parts of the invariant follow from that.    *)
(***************************************************************************)
EXTENDS SearchTree, FiniteSetTheorems, SequenceTheorems, TLAPS

NodeRecs ==
  [state : 0..6, output : BOOLEAN, arrays : Nat, slot : [Slots -> Moves \cup {None}],
   edge : [Slots -> Nat], visits : Nat, leaf : Nat, seen : [Slots -> Nat], dirty : Nat,
   vl : Int]
Frames == [node : Nodes, idx : Slots, move : Moves, count : BOOLEAN]
Playing ==
  {"visit", "evaluate", "leaf", "expand", "publish", "select", "grow", "reload", "grown",
   "find", "claim", "catchUp", "announce", "recompute", "store", "settle", "leave", "return"}
ThreadRecs ==
  [pc : {"begin", "loop", "done"} \cup Playing, cur : Nodes, path : Seq(Frames), snap : 0..6,
   idx : Nat, move : Moves \cup {None}, count : BOOLEAN, counted : BOOLEAN, ret : BOOLEAN,
   pending : Nat, read : [Slots -> Nat], mine : Nat]

(***************************************************************************)
(* The inductive invariant.                                                *)
(***************************************************************************)
\* Where a thread r is, the frames above it and the nodes they are in.
AtChild == {"catchUp", "announce", "recompute", "store", "settle", "leave"}
ForSlot == {"grown", "find", "claim"} \cup AtChild
InNode == {"select", "reload", "grow"} \cup ForSlot

Below(r, i) == IF i < Len(r.path) THEN r.path[i + 1].node ELSE r.cur
Linked(r) ==
  \A i \in 1..Len(r.path) :
    LET f == r.path[i]
    IN  /\ nd[f.node].slot[f.idx] = f.move /\ nd[f.node].state > 1
        /\ f.move \in DOMAIN Leads[At(f.node)] /\ ChildOf(f.node, f.move) = Below(r, i)
Placed(r) ==
  /\ r.pc \in InNode => nd[r.cur].state > 1
  /\ r.pc \in {"grow"} \cup ForSlot => r.move \in DOMAIN Leads[At(r.cur)]
  /\ r.pc = "grow" => r.idx \in 1..(Capacity(r.snap) + 1)
  /\ r.pc = "grown" => r.snap \in {3, 5}
  /\ r.pc \in ForSlot => r.idx \in Slots
  /\ r.pc \in AtChild => nd[r.cur].slot[r.idx] = r.move
  /\ r.pc = "return" /\ r.ret => nd[r.cur].visits > 0
  /\ r.pc = "done" => r.path = <<>>
ThreadsInv == \A t \in Threads : Linked(th[t]) /\ Placed(th[t])

\* A node that has been evaluated, and where its slots and edges lead.
Evaluated(d) == d.state # Unevaluated => d.output /\ d.visits > 0
NodeOK(n) ==
  /\ Evaluated(nd[n])
  /\ \A i \in Slots :
       /\ nd[n].slot[i] # None => nd[n].slot[i] \in DOMAIN Leads[At(n)]
       /\ nd[n].edge[i] > 0 => /\ nd[n].slot[i] # None
                               /\ nd[ChildOf(n, nd[n].slot[i])].visits > 0
NodesInv == \A n \in Nodes : NodeOK(n)

\* One thread at a time evaluates and expands a node.
Leafing == {"leaf", "expand", "publish"}
LeafInv ==
  /\ \A t \in Threads :
       /\ th[t].pc \in {"leaf", "expand"} => /\ nd[th[t].cur].output
                                             /\ nd[th[t].cur].state = Unevaluated
       /\ th[t].pc = "expand" => nd[th[t].cur].visits > 0
       /\ th[t].pc = "publish" => nd[th[t].cur].state = Evaluating
  /\ \A t, u \in Threads :
       th[t].pc \in Leafing /\ th[u].pc \in Leafing /\ th[t].cur = th[u].cur => t = u

\* One thread at a time recomputes a node, for as many as the counter says;
\* if it has missed an edge visit, then somebody has announced it or will.
Updating == {"recompute", "store", "settle"}
Announced(n) == \E t \in Threads : In(t, {"announce"}, n)
Missed(t) ==
  \/ th[t].pc = "store" /\ th[t].read # nd[th[t].cur].edge
  \/ th[t].pc = "settle" /\ nd[th[t].cur].seen # nd[th[t].cur].edge
UpdateInv ==
  /\ \A t, u \in Threads :
       th[t].pc \in Updating /\ th[u].pc \in Updating /\ th[t].cur = th[u].cur => t = u
  /\ \A n \in Nodes : nd[n].dirty # 0 => \E t \in Threads : In(t, Updating, n)
  /\ \A t \in Threads : th[t].pc \in Updating =>
       /\ th[t].pending # 0 /\ th[t].pending <= nd[th[t].cur].dirty
       /\ Missed(t) => th[t].pending < nd[th[t].cur].dirty \/ Announced(th[t].cur)
  /\ \A n \in Nodes : nd[n].dirty = 0 /\ ~Announced(n) => nd[n].seen = nd[n].edge

\* How many playouts there have been beyond the limit is how many threads know
\* that it is reached, less one.
Knowing == {t \in Threads : th[t].pc = "done" \/ th[t].mine >= Limit}
CountInv ==
  /\ searches = 0 => playouts = 0 /\ AtRest
  /\ \A t \in Threads : th[t].pc \in Playing => th[t].mine < Limit
  /\ \/ playouts < Limit
     \/ playouts = 0 /\ Limit = 0
     \/ playouts <= Limit - 1 + Cardinality(Knowing)

IInv == TypeOK /\ ThreadsInv /\ NodesInv /\ LeafInv /\ UpdateInv /\ CountInv

LEMMA TypeOKIs ==
  TypeOK <=> /\ nd \in [Nodes -> NodeRecs] /\ th \in [Threads -> ThreadRecs]
             /\ rootPos \in Positions /\ allowed \subseteq Moves
             /\ playouts \in Nat /\ shouldStopNow \in BOOLEAN /\ searches \in 0..Len(Limits)
<1>1. ThreadRecs =
        [pc : {"begin", "loop", "visit", "evaluate", "leaf", "expand", "publish", "select",
               "grow", "reload", "grown", "find", "claim", "catchUp", "announce",
               "recompute", "store", "settle", "leave", "return", "done"},
         cur : Nodes,
         path : Seq([node : Nodes, idx : Slots, move : Moves, count : BOOLEAN]),
         snap : 0..6, idx : Nat, move : Moves \cup {None}, count : BOOLEAN,
         counted : BOOLEAN, ret : BOOLEAN, pending : Nat, read : [Slots -> Nat],
         mine : Nat]
  <2>1. {"begin", "loop", "done"} \cup Playing =
          {"begin", "loop", "visit", "evaluate", "leaf", "expand", "publish", "select",
           "grow", "reload", "grown", "find", "claim", "catchUp", "announce",
           "recompute", "store", "settle", "leave", "return", "done"}
    BY DEF Playing
  <2> QED
    BY Zenon, <2>1 DEF ThreadRecs, Frames
<1> QED
  BY <1>1 DEF TypeOK, NodeRecs

(***************************************************************************)
(* Constants.                                                              *)
(***************************************************************************)
LEMMA LevelsFacts ==
  /\ Levels[1] \in Nat /\ Levels[2] \in Nat /\ Levels[3] \in Nat
  /\ 0 < Levels[1] /\ Levels[1] < Levels[2] /\ Levels[2] < Levels[3]
  /\ Slots \subseteq Nat \ {0} /\ 1 \in Slots /\ IsFiniteSet(Slots)
  /\ \A s \in 0..6 : Capacity(s) \in Nat /\ Capacity(s) <= Levels[3]
                     /\ (s < 6 => Capacity(s) + 1 <= Levels[3])
<1>1. /\ Levels[1] \in Nat /\ Levels[2] \in Nat /\ Levels[3] \in Nat
      /\ 0 < Levels[1] /\ Levels[1] < Levels[2] /\ Levels[2] < Levels[3]
  BY LevelsAssumption
<1>2. IsFiniteSet(Slots) /\ Slots \subseteq Nat \ {0} /\ 1 \in Slots
  <2>1. 1 \in Int /\ Levels[3] \in Int /\ 1 <= Levels[3]
    BY <1>1
  <2>2. IsFiniteSet(1..Levels[3])
    BY <2>1, FS_Interval
  <2> QED
    BY <2>1, <2>2 DEF Slots
<1>3. ASSUME NEW s \in 0..6
      PROVE  /\ Capacity(s) \in Nat /\ Capacity(s) <= Levels[3]
             /\ s < 6 => Capacity(s) + 1 <= Levels[3]
  <2>1. CASE s < 2
    BY <1>1, <2>1 DEF Capacity
  <2>2. CASE s \in 2..5
    <3>1. s \div 2 \in {1, 2}
      BY <2>2
    <3> QED
      BY <1>1, <2>2, <3>1 DEF Capacity
  <2>3. CASE s = 6
    <3>1. s \div 2 = 3
      BY <2>3
    <3> QED
      BY <1>1, <2>3, <3>1 DEF Capacity
  <2> QED
    BY <2>1, <2>2, <2>3
<1> QED
  BY <1>1, <1>2, <1>3

\* Moves lead from nodes to nodes.
LEMMA ChildIsNode ==
  ASSUME rootPos \in Positions, NEW n \in Nodes, NEW m \in DOMAIN Leads[At(n)]
  PROVE  /\ m \in Moves /\ m # None /\ At(n) \in Positions
         /\ ChildOf(n, m) \in Nodes /\ ChildOf(n, m) \in Positions /\ ChildOf(n, m) # Root
BY PositionsAssumption, NamesAssumption, LeadsAssumption DEF At, ChildOf, Nodes

LEMMA FreshThreadIs ==
  /\ FreshThread \in ThreadRecs /\ FreshThread.pc = "done" /\ FreshThread.path = <<>>
  /\ FreshThread.mine = 0
<1>1. NoEdges \in [Slots -> Nat]
  BY DEF NoEdges
<1>2. <<>> \in Seq(Frames)
  BY EmptySeq
<1> QED
  BY <1>1, <1>2 DEF FreshThread, ThreadRecs, Nodes, Playing

LEMMA FreshNodeIs ==
  /\ FreshNode \in NodeRecs /\ FreshNode.state = Unevaluated /\ FreshNode.visits = 0
  /\ FreshNode.dirty = 0 /\ FreshNode.edge = NoEdges /\ FreshNode.seen = NoEdges
  /\ FreshNode.slot = [i \in Slots |-> None] /\ NoEdges \in [Slots -> Nat]
<1>1. NoEdges \in [Slots -> Nat]
  BY DEF NoEdges
<1> QED
  BY <1>1 DEF FreshNode, NodeRecs, Unevaluated

\* What a node keeps when its state or its virtual losses change.
LEMMA StateChanges ==
  \A e \in NodeRecs, s \in 0..6, a \in Nat :
    LET q == [e EXCEPT !.state = s, !.arrays = a]
    IN  /\ q \in NodeRecs /\ q.visits = e.visits /\ e.visits \in Nat
        /\ q.state = s /\ q.output = e.output /\ q.slot = e.slot
        /\ q.edge = e.edge /\ q.seen = e.seen /\ q.dirty = e.dirty
BY ZenonT(30) DEF NodeRecs

LEMMA LossChanges ==
  \A e \in NodeRecs, v \in Int :
    LET q == [e EXCEPT !.vl = v]
    IN  /\ q \in NodeRecs /\ q.visits = e.visits /\ e.visits \in Nat
        /\ q.state = e.state /\ q.output = e.output /\ q.slot = e.slot
        /\ q.edge = e.edge /\ q.seen = e.seen /\ q.dirty = e.dirty
BY DEF NodeRecs

\* A thread that returns, gives up or goes on to select a child, is where it was.
LEMMA ReturnIs ==
  ASSUME NEW t \in Threads, th[t] \in ThreadRecs
  PROVE  /\ \A ret \in BOOLEAN :
              LET r == Return(t, ret)
              IN  /\ r \in ThreadRecs /\ r.pc = "return" /\ r.ret = ret /\ r.cur = th[t].cur
                  /\ r.path = th[t].path /\ r.mine = th[t].mine
         /\ LET r == GiveUp(t)
            IN  /\ r \in ThreadRecs /\ r.pc = "return" /\ r.ret = FALSE /\ r.cur = th[t].cur
                /\ r.path = th[t].path /\ r.mine = th[t].mine
         /\ \A s \in 0..6, pc \in Playing :
              LET r == Selecting(t, pc, s)
              IN  /\ r \in ThreadRecs /\ r.pc = pc /\ r.snap = s /\ r.cur = th[t].cur
                  /\ r.path = th[t].path /\ r.mine = th[t].mine
<1>1. ASSUME NEW ret \in BOOLEAN
      PROVE  LET r == Return(t, ret)
             IN  /\ r \in ThreadRecs /\ r.pc = "return" /\ r.ret = ret /\ r.cur = th[t].cur
                 /\ r.path = th[t].path /\ r.mine = th[t].mine
  BY FreshThreadIs, ZenonT(30) DEF Return, ThreadRecs, Playing
<1>2. \A r \in ThreadRecs : LET q == [r EXCEPT !.counted = FALSE]
                            IN  /\ q \in ThreadRecs /\ q.pc = r.pc /\ q.ret = r.ret
                                /\ q.cur = r.cur /\ q.path = r.path /\ q.mine = r.mine
  BY DEF ThreadRecs
<1>4. LET r == GiveUp(t)
      IN  /\ r \in ThreadRecs /\ r.pc = "return" /\ r.ret = FALSE /\ r.cur = th[t].cur
          /\ r.path = th[t].path /\ r.mine = th[t].mine
  <2>1. PICK q : q = Return(t, FALSE)
    OBVIOUS
  <2>2. /\ q \in ThreadRecs /\ q.pc = "return" /\ q.ret = FALSE /\ q.cur = th[t].cur
        /\ q.path = th[t].path /\ q.mine = th[t].mine
    BY <1>1, <2>1
  <2>3. GiveUp(t) = [q EXCEPT !.counted = FALSE]
    BY <2>1 DEF GiveUp
  <2> QED
    BY <1>2, <2>2, <2>3
<1>5. ASSUME NEW s \in 0..6, NEW pc \in Playing
      PROVE  LET r == Selecting(t, pc, s)
             IN  /\ r \in ThreadRecs /\ r.pc = pc /\ r.snap = s /\ r.cur = th[t].cur
                 /\ r.path = th[t].path /\ r.mine = th[t].mine
  <2>1. PICK q : q = Return(t, FALSE)
    OBVIOUS
  <2>2. /\ q \in ThreadRecs /\ q.cur = th[t].cur
        /\ q.path = th[t].path /\ q.mine = th[t].mine
    BY <1>1, <2>1
  <2>3. Selecting(t, pc, s) = [q EXCEPT !.pc = pc, !.snap = s]
    BY <2>1 DEF Selecting
  <2>4. PICK p : p = [q EXCEPT !.pc = pc, !.snap = s]
    OBVIOUS
  <2>5. /\ p \in ThreadRecs /\ p.pc = pc /\ p.snap = s
        /\ p.cur = q.cur /\ p.path = q.path /\ p.mine = q.mine
    BY <2>2, <2>4 DEF ThreadRecs
  <2> QED
    BY <2>2, <2>3, <2>4, <2>5
<1> QED
  BY <1>1, <1>4, <1>5

(***************************************************************************)
(* What a step of a search leaves as it was.                               *)
(***************************************************************************)
\* Within a search, slots that are filled stay, and nodes do not lose their
\* visits or go back to being unexpanded.
Grows ==
  /\ rootPos' = rootPos
  /\ \A n \in Nodes :
       /\ \A i \in Slots : nd[n].slot[i] # None => nd'[n].slot[i] = nd[n].slot[i]
       /\ nd[n].visits > 0 => nd'[n].visits > 0
       /\ nd[n].state > 1 => nd'[n].state > 1

LEMMA StillThere ==
  ASSUME IInv, Grows, NEW r \in ThreadRecs
  PROVE  /\ Linked(r) => Linked(r)'
         /\ Placed(r) => Placed(r)'
<1>1. /\ nd \in [Nodes -> NodeRecs] /\ rootPos \in Positions
      /\ \A n : At(n)' = At(n) /\ \A m : ChildOf(n, m)' = ChildOf(n, m)
  BY TypeOKIs DEF IInv, Grows, At, ChildOf
<1>2. ASSUME Linked(r), NEW i \in 1..Len(r.path)
      PROVE  LET f == r.path[i]
             IN  /\ nd'[f.node].slot[f.idx] = f.move /\ nd'[f.node].state > 1
                 /\ f.move \in DOMAIN Leads[At(f.node)'] /\ ChildOf(f.node, f.move)' = Below(r, i)
  <2> DEFINE f == r.path[i]
  <2>1. f \in Frames
    BY DEF ThreadRecs
  <2>2. /\ nd[f.node].slot[f.idx] = f.move /\ nd[f.node].state > 1
        /\ f.move \in DOMAIN Leads[At(f.node)] /\ ChildOf(f.node, f.move) = Below(r, i)
    BY <1>2 DEF Linked
  <2>3. f.node \in Nodes /\ f.idx \in Slots /\ f.move # None
    BY <2>1, NamesAssumption DEF Frames
  <2> HIDE DEF f
  <2>4. nd'[f.node].slot[f.idx] = f.move /\ nd'[f.node].state > 1
    BY <2>2, <2>3 DEF Grows
  <2> QED
    BY <1>1, <2>2, <2>4 DEF f
<1>3. Linked(r) => Linked(r)'
  BY <1>2 DEF Linked
<1>4. ASSUME Placed(r) PROVE Placed(r)'
  <2>1. r.cur \in Nodes
    BY DEF ThreadRecs
  <2>2. r.pc \in AtChild => r.idx \in Slots /\ r.move # None /\ nd[r.cur].slot[r.idx] = r.move
    <3>1. r.pc \in AtChild => r.move \in DOMAIN Leads[At(r.cur)] /\ r.idx \in Slots
                             /\ nd[r.cur].slot[r.idx] = r.move
      BY <1>4 DEF Placed, ForSlot
    <3> QED
      BY <1>1, <2>1, <3>1, ChildIsNode
  <2>3. r.pc \in AtChild => nd'[r.cur].slot[r.idx] = r.move
    BY <2>1, <2>2 DEF Grows
  <2>4. /\ nd[r.cur].visits > 0 => nd'[r.cur].visits > 0
        /\ nd[r.cur].state > 1 => nd'[r.cur].state > 1
    BY <2>1 DEF Grows
  <2> QED
    BY <1>1, <1>4, <2>3, <2>4 DEF Placed
<1> QED
  BY <1>3, <1>4

\* The threads are in their places if the one that has moved is.
LEMMA OthersStay ==
  ASSUME IInv, Grows, NEW t \in Threads, NEW r \in ThreadRecs, th' = [th EXCEPT ![t] = r],
         Linked(r)', Placed(r)'
  PROVE  ThreadsInv'
<1>1. th \in [Threads -> ThreadRecs]
  BY TypeOKIs DEF IInv
<1> SUFFICES ASSUME NEW u \in Threads PROVE (Linked(th[u]) /\ Placed(th[u]))'
  BY SMTT(30) DEF ThreadsInv
<1>2. CASE u = t
  <2>1. th'[u] = r
    BY <1>1, <1>2
  <2> QED
    BY <2>1 DEF Linked, Placed, Below
<1>3. CASE u # t
  <2>1. PICK q \in ThreadRecs : q = th[u] /\ q = th'[u]
    BY <1>1, <1>3
  <2>2. Linked(q) /\ Placed(q)
    BY <2>1 DEF IInv, ThreadsInv
  <2>3. Linked(q)' /\ Placed(q)'
    BY <2>2, StillThere
  <2> QED
    BY <2>1, <2>3, ZenonT(30) DEF Linked, Placed, Below
<1> QED
  BY <1>2, <1>3

\* A node n becomes d, which keeps what n has; an edge that counts in d and did
\* not in n leads to a node with visits.
Keeps(n, d) ==
  /\ Evaluated(d) /\ d.visits >= nd[n].visits
  /\ nd[n].state > 1 => d.state > 1
  /\ \A i \in Slots :
       /\ nd[n].slot[i] # None => d.slot[i] = nd[n].slot[i]
       /\ d.slot[i] # None => d.slot[i] \in DOMAIN Leads[At(n)]
       /\ \/ d.edge[i] = nd[n].edge[i]
          \/ d.slot[i] # None /\ nd[ChildOf(n, d.slot[i])].visits > 0

LEMMA NodeGrows ==
  ASSUME IInv, NEW n \in Nodes, NEW d \in NodeRecs, nd' = [nd EXCEPT ![n] = d],
         rootPos' = rootPos, Keeps(n, d)
  PROVE  /\ nd' \in [Nodes -> NodeRecs] /\ Grows /\ NodesInv'
         /\ nd'[n] = d /\ \A k \in Nodes \ {n} : nd'[k] = nd[k]
<1>1. /\ nd \in [Nodes -> NodeRecs] /\ rootPos \in Positions
      /\ \A k : At(k)' = At(k) /\ \A m : ChildOf(k, m)' = ChildOf(k, m)
  BY TypeOKIs DEF IInv, At, ChildOf
<1>2. /\ nd' \in [Nodes -> NodeRecs] /\ nd'[n] = d
      /\ \A k \in Nodes \ {n} : nd'[k] = nd[k]
  BY <1>1
<1>3. \A k \in Nodes : nd[k].visits \in Nat /\ nd'[k].visits \in Nat
  BY <1>1, <1>2 DEF NodeRecs
<1>4. Grows
  BY <1>2, <1>3 DEF Grows, Keeps
<1>5. ASSUME NEW k \in Nodes PROVE NodeOK(k)'
  <2>1. Evaluated(nd'[k])
    BY <1>2 DEF IInv, NodesInv, NodeOK, Keeps
  <2>2. ASSUME NEW i \in Slots
        PROVE  /\ nd'[k].slot[i] # None => nd'[k].slot[i] \in DOMAIN Leads[At(k)]
               /\ nd'[k].edge[i] > 0 => nd'[k].slot[i] # None
                                         /\ nd[ChildOf(k, nd'[k].slot[i])].visits > 0
    BY <1>2 DEF IInv, NodesInv, NodeOK, Keeps
  <2>3. ASSUME NEW i \in Slots, nd'[k].edge[i] > 0
        PROVE  nd'[ChildOf(k, nd'[k].slot[i])].visits > 0
    <3>1. ChildOf(k, nd'[k].slot[i]) \in Nodes
      BY <1>1, <2>2, <2>3, ChildIsNode
    <3> QED
      BY <1>4, <2>2, <2>3, <3>1 DEF Grows
  <2> QED
    BY <1>1, <2>1, <2>2, <2>3 DEF NodeOK, Evaluated
<1> QED
  BY <1>2, <1>4, <1>5 DEF NodesInv

(***************************************************************************)
(* What a step does not touch of the other parts of the invariant.         *)
(***************************************************************************)
\* A playout goes on: nothing is counted.
LEMMA CountKept ==
  ASSUME IInv, NEW t \in Threads, NEW r \in ThreadRecs, th' = [th EXCEPT ![t] = r],
         th[t].pc \in Playing, r.pc \in Playing, r.mine = th[t].mine, UNCHANGED searchVars
  PROVE  CountInv'
<1>1. th \in [Threads -> ThreadRecs] /\ th' \in [Threads -> ThreadRecs]
  BY TypeOKIs DEF IInv
<1>2. Limit' = Limit /\ playouts' = playouts /\ searches' = searches
  BY DEF searchVars, Limit
<1>3. "done" \notin Playing
  BY DEF Playing
<1>4. ~AtRest
  BY <1>3 DEF AtRest
<1>5. \A u \in Threads : /\ th'[u].mine = th[u].mine
                         /\ th'[u].pc = "done" <=> th[u].pc = "done"
                         /\ th'[u].pc \in Playing <=> th[u].pc \in Playing
  BY <1>1, <1>3
<1>6. Knowing' = Knowing
  BY <1>2, <1>5 DEF Knowing
<1> QED
  BY <1>2, <1>4, <1>5, <1>6 DEF IInv, CountInv

\* Nobody but thread t sees what it does to a node it evaluates or expands.
LeafOK(r) ==
  /\ r.pc \in {"leaf", "expand"} => nd[r.cur].output /\ nd[r.cur].state = Unevaluated
  /\ r.pc = "expand" => nd[r.cur].visits > 0
  /\ r.pc = "publish" => nd[r.cur].state = Evaluating
Tame(n, d) ==
  /\ nd[n].output => d.output
  /\ nd[n].state < 2 => d.state = nd[n].state
Alone(t, n) == \A u \in Threads \ {t} : th[u].pc \in Leafing => th[u].cur # n

LEMMA LeafKept ==
  ASSUME IInv, NEW t \in Threads, NEW r \in ThreadRecs, NEW n \in Nodes, NEW d \in NodeRecs,
         th' = [th EXCEPT ![t] = r], nd' = [nd EXCEPT ![n] = d], d.visits >= nd[n].visits,
         Tame(n, d) \/ Alone(t, n), LeafOK(r)', r.pc \in Leafing => Alone(t, r.cur)
  PROVE  LeafInv'
<1>1. /\ th \in [Threads -> ThreadRecs] /\ th' \in [Threads -> ThreadRecs]
      /\ nd \in [Nodes -> NodeRecs]
  BY TypeOKIs DEF IInv
<1>2. th'[t] = r /\ \A u \in Threads \ {t} : th'[u] = th[u] /\ th[u].cur \in Nodes
  BY <1>1 DEF ThreadRecs
<1>3. nd'[n] = d /\ \A k \in Nodes \ {n} : nd'[k] = nd[k]
  BY <1>1
<1>4. d.visits \in Nat /\ nd[n].visits \in Nat
  BY <1>1 DEF NodeRecs
<1>5. ASSUME NEW u \in Threads
      PROVE  /\ th'[u].pc \in {"leaf", "expand"} => /\ nd'[th'[u].cur].output
                                                    /\ nd'[th'[u].cur].state = Unevaluated
             /\ th'[u].pc = "expand" => nd'[th'[u].cur].visits > 0
             /\ th'[u].pc = "publish" => nd'[th'[u].cur].state = Evaluating
  <2>1. CASE u = t
    BY <1>2, <2>1 DEF LeafOK
  <2>2. CASE u # t /\ th[u].cur # n
    BY <1>2, <1>3, <2>2 DEF IInv, LeafInv
  <2>3. CASE u # t /\ th[u].cur = n /\ th[u].pc \in Leafing
    <3>1. Tame(n, d)
      BY <2>3 DEF Alone
    <3> QED
      BY <1>2, <1>3, <1>4, <2>3, <3>1 DEF IInv, LeafInv, Tame, Unevaluated, Evaluating
  <2>4. CASE u # t /\ th[u].pc \notin Leafing
    BY <1>2, <2>4 DEF Leafing
  <2> QED
    BY <2>1, <2>2, <2>3, <2>4
<1>6. ASSUME NEW u \in Threads, NEW w \in Threads, th'[u].pc \in Leafing,
             th'[w].pc \in Leafing, th'[u].cur = th'[w].cur
      PROVE  u = w
  <2>1. CASE u = t \/ w = t
    BY <1>2, <1>6, <2>1 DEF Alone
  <2>2. CASE u # t /\ w # t
    BY <1>2, <1>6, <2>2 DEF IInv, LeafInv
  <2> QED
    BY <2>1, <2>2
<1> QED
  BY <1>5, <1>6 DEF LeafInv

LEMMA LeafQuiet ==
  ASSUME IInv, NEW t \in Threads, NEW r \in ThreadRecs, NEW n \in Nodes, NEW d \in NodeRecs,
         th' = [th EXCEPT ![t] = r], nd' = [nd EXCEPT ![n] = d], d.visits >= nd[n].visits,
         Tame(n, d), r.pc \notin Leafing
  PROVE  LeafInv'
<1>1. LeafOK(r)'
  BY DEF LeafOK, Leafing
<1> QED
  BY <1>1, LeafKept

\* A step away from the statistics.
Away == Playing \ (Updating \cup {"announce"})
SameEdges(n, d) == d.edge = nd[n].edge /\ d.seen = nd[n].seen /\ d.dirty = nd[n].dirty

LEMMA UpdateKept ==
  ASSUME IInv, NEW t \in Threads, NEW r \in ThreadRecs, NEW n \in Nodes, NEW d \in NodeRecs,
         th' = [th EXCEPT ![t] = r], nd' = [nd EXCEPT ![n] = d],
         th[t].pc \notin Updating \cup {"announce"}, r.pc \notin Updating \cup {"announce"},
         SameEdges(n, d)
  PROVE  UpdateInv'
<1>1. /\ th \in [Threads -> ThreadRecs] /\ th' \in [Threads -> ThreadRecs]
      /\ nd \in [Nodes -> NodeRecs]
  BY TypeOKIs DEF IInv
<1>2. \A k \in Nodes : /\ nd'[k].edge = nd[k].edge /\ nd'[k].seen = nd[k].seen
                       /\ nd'[k].dirty = nd[k].dirty
  BY <1>1 DEF SameEdges
<1>3. th'[t] = r /\ \A u \in Threads \ {t} : th'[u] = th[u] /\ th[u].cur \in Nodes
  BY <1>1 DEF ThreadRecs
<1>4. \A u \in Threads : th[u].pc \in Updating \cup {"announce"}
                           \/ th'[u].pc \in Updating \cup {"announce"} => u # t
  BY <1>3
<1>5. /\ \A k : Announced(k)' <=> Announced(k)
      /\ \A k : (\E u \in Threads : In(u, Updating, k))' <=> \E u \in Threads : In(u, Updating, k)
  BY <1>3, <1>4 DEF Announced, In
<1>6. ASSUME NEW u \in Threads, th'[u].pc \in Updating
      PROVE  /\ u # t /\ th'[u] = th[u] /\ th[u].pc \in Updating /\ th[u].cur \in Nodes
             /\ Missed(u)' <=> Missed(u)
  BY <1>2, <1>3, <1>4, <1>6 DEF Missed
<1>7. ASSUME NEW u \in Threads, th'[u].pc \in Updating
      PROVE  /\ th'[u].pending # 0 /\ th'[u].pending <= nd'[th'[u].cur].dirty
             /\ Missed(u)' => \/ th'[u].pending < nd'[th'[u].cur].dirty
                              \/ Announced(th[u].cur)'
  <2>1. PICK k \in Nodes : k = th[u].cur
    BY <1>3, <1>6, <1>7
  <2>2. th'[u].cur = k /\ th[u].cur = k /\ th[u].pc \in Updating /\ th'[u].pending = th[u].pending
    BY <1>6, <2>1, <1>7
  <2>3. /\ th[u].pending # 0 /\ th[u].pending <= nd[k].dirty
        /\ Missed(u) => th[u].pending < nd[k].dirty \/ Announced(k)
    BY <2>1, <2>2 DEF IInv, UpdateInv
  <2>4. Announced(k)' => Announced(th[u].cur)'
    BY <2>2 DEF Announced, In
  <2> QED
    BY <1>2, <1>5, <1>6, <1>7, <2>2, <2>3, <2>4
<1>8. \A u, w \in Threads :
        th'[u].pc \in Updating /\ th'[w].pc \in Updating /\ th'[u].cur = th'[w].cur => u = w
  BY <1>6 DEF IInv, UpdateInv
<1>9. \A k \in Nodes : /\ nd'[k].dirty # 0 => \E u \in Threads : In(u, Updating, k)'
                       /\ nd'[k].dirty = 0 /\ ~Announced(k)' => nd'[k].seen = nd'[k].edge
  BY <1>2, <1>5 DEF IInv, UpdateInv
<1> QED
  BY <1>7, <1>8, <1>9 DEF UpdateInv

(***************************************************************************)
(* The steps of a playout.                                                 *)
(***************************************************************************)
LEMMA Plays ==
  ASSUME IInv, NEW t \in Threads, NEW r \in ThreadRecs, NEW n \in Nodes, NEW d \in NodeRecs,
         th' = [th EXCEPT ![t] = r], nd' = [nd EXCEPT ![n] = d], UNCHANGED searchVars,
         th[t].pc \in Playing, r.pc \in Playing, r.mine = th[t].mine,
         Keeps(n, d), Linked(r), Placed(r)', LeafInv', UpdateInv'
  PROVE  IInv'
<1>1. /\ rootPos' = rootPos /\ allowed' = allowed /\ playouts' = playouts
      /\ shouldStopNow' = shouldStopNow /\ searches' = searches
  BY DEF searchVars
<1>2. nd' \in [Nodes -> NodeRecs] /\ Grows /\ NodesInv'
  BY <1>1, NodeGrows
<1>3. Linked(r)'
  BY <1>2, StillThere
<1>4. ThreadsInv'
  BY <1>2, <1>3, OthersStay
<1>5. CountInv'
  BY CountKept
<1>6. th' \in [Threads -> ThreadRecs]
  BY TypeOKIs DEF IInv
<1>7. TypeOK'
  BY <1>1, <1>2, <1>6, TypeOKIs, ZenonT(30) DEF IInv, TypeOK, NodeRecs, ThreadRecs, Frames, Playing
<1> QED
  BY <1>2, <1>4, <1>5, <1>7 DEF IInv

\* Neither evaluating nor at the statistics.
Plain == Playing \ (Leafing \cup Updating \cup {"announce"})

LEMMA PlaysOn ==
  ASSUME IInv, NEW t \in Threads, NEW r \in ThreadRecs, NEW n \in Nodes, NEW d \in NodeRecs,
         th' = [th EXCEPT ![t] = r], nd' = [nd EXCEPT ![n] = d], UNCHANGED searchVars,
         th[t].pc \in Plain, r.pc \in Plain, r.mine = th[t].mine,
         Keeps(n, d), SameEdges(n, d), Tame(n, d), Linked(r), Placed(r)'
  PROVE  IInv'
<1>1. th[t].pc \in Playing /\ r.pc \in Playing /\ th[t].pc \in Away /\ r.pc \in Away
      /\ r.pc \notin Leafing
  BY DEF Plain, Away
<1>2. LeafOK(r)'
  BY <1>1 DEF LeafOK, Leafing
<1>3. LeafInv'
  BY <1>1, <1>2, LeafKept DEF Keeps
<1>4. UpdateInv'
  BY <1>1, UpdateKept DEF Away
<1> QED
  BY <1>1, <1>3, <1>4, Plays

\* What is known of a thread and its node.
LEMMA Here ==
  ASSUME IInv, NEW t \in Threads
  PROVE  /\ nd \in [Nodes -> NodeRecs] /\ th \in [Threads -> ThreadRecs]
         /\ th[t] \in ThreadRecs /\ th[t].cur \in Nodes /\ nd[th[t].cur] \in NodeRecs
         /\ \A n \in Nodes : NodeOK(n)
         /\ Linked(th[t]) /\ Placed(th[t]) /\ rootPos \in Positions
<1>1. nd \in [Nodes -> NodeRecs] /\ th \in [Threads -> ThreadRecs] /\ rootPos \in Positions
  BY TypeOKIs DEF IInv
<1>2. th[t] \in ThreadRecs /\ th[t].cur \in Nodes
  BY <1>1 DEF ThreadRecs
<1> QED
  BY <1>1, <1>2 DEF IInv, ThreadsInv, NodesInv

LEMMA SamePath ==
  ASSUME IInv, NEW t \in Threads, NEW r, r.path = th[t].path, r.cur = th[t].cur
  PROVE  Linked(r)
<1>1. PICK q : q = th[t]
  OBVIOUS
<1>2. Linked(q) /\ r.path = q.path /\ r.cur = q.cur
  BY <1>1, Here
<1> QED
  BY <1>2 DEF Linked, Below

\* A node whose slots and edges stay.
LEMMA StaysAs ==
  ASSUME IInv, NEW n \in Nodes, NEW d \in NodeRecs, d.slot = nd[n].slot, d.edge = nd[n].edge,
         d.visits >= nd[n].visits, nd[n].state > 1 => d.state > 1, Evaluated(d)
  PROVE  Keeps(n, d)
BY DEF Keeps, IInv, NodesInv, NodeOK

LEMMA StaysEvaluated ==
  ASSUME IInv, NEW n \in Nodes, NEW d \in NodeRecs, d.visits >= nd[n].visits,
         d.output = nd[n].output, d.state # Unevaluated => nd[n].state # Unevaluated
  PROVE  Evaluated(d)
<1>1. PICK c \in NodeRecs : c = nd[n] /\ Evaluated(c)
  BY TypeOKIs DEF IInv, NodesInv, NodeOK
<1>2. c.visits \in Nat /\ d.visits \in Nat /\ d.visits >= c.visits
  BY <1>1 DEF NodeRecs
<1>3. ASSUME d.state # Unevaluated
      PROVE  d.output /\ d.visits > 0
  <2>1. c.output /\ c.visits > 0
    BY <1>1, <1>3 DEF Evaluated
  <2> QED
    BY <1>1, <1>2, <2>1
<1> QED
  BY <1>3 DEF Evaluated

\* Only the thread moves.
LEMMA ThreadMoves ==
  ASSUME IInv, NEW t \in Threads, NEW r \in ThreadRecs, th' = [th EXCEPT ![t] = r],
         UNCHANGED <<nd, searchVars>>, th[t].pc \in Plain, r.pc \in Plain,
         r.mine = th[t].mine, Linked(r), Placed(r)
  PROVE  IInv'
<1>1. PICK d : d = nd[Root]
  OBVIOUS
<1>2. Root \in Nodes /\ nd \in [Nodes -> NodeRecs] /\ NodeOK(Root)
  BY Here DEF Nodes
<1>3. d \in NodeRecs /\ nd' = [nd EXCEPT ![Root] = d] /\ d.visits >= nd[Root].visits
  <2>1. d.visits \in Int
    BY <1>1, <1>2 DEF NodeRecs
  <2> QED
    BY <1>1, <1>2, <2>1
<1>4. Keeps(Root, d)
  BY <1>1, <1>2, <1>3, StaysAs DEF NodeOK
<1>5. SameEdges(Root, d) /\ Tame(Root, d)
  BY <1>1 DEF SameEdges, Tame
<1>6. Placed(r)'
  <2>1. rootPos' = rootPos /\ nd' = nd
    BY DEF searchVars
  <2> QED
    BY <2>1 DEF Placed, At
<1> QED
  BY <1>2, <1>3, <1>4, <1>5, <1>6, PlaysOn

\* Only the thread moves, within its node.
LEMMA ThreadPlays ==
  ASSUME IInv, NEW t \in Threads, NEW r \in ThreadRecs, th' = [th EXCEPT ![t] = r],
         UNCHANGED <<nd, searchVars>>, th[t].pc \in Plain, r.pc \in Plain,
         r.mine = th[t].mine, r.path = th[t].path, r.cur = th[t].cur, Placed(r)
  PROVE  IInv'
BY SamePath, ThreadMoves

\* The thread moves, within its node, and a node changes that keeps its edges.
LEMMA NodePlays ==
  ASSUME IInv, NEW t \in Threads, NEW r \in ThreadRecs, NEW n \in Nodes, NEW d \in NodeRecs,
         th' = [th EXCEPT ![t] = r], nd' = [nd EXCEPT ![n] = d], UNCHANGED searchVars,
         th[t].pc \in Plain, r.pc \in Plain,
         r.mine = th[t].mine, r.path = th[t].path, r.cur = th[t].cur,
         Keeps(n, d), SameEdges(n, d), Tame(n, d), Placed(r)'
  PROVE  IInv'
BY SamePath, PlaysOn

\* An evaluation of node n is one visit more.
LEMMA LeafValue ==
  ASSUME IInv, NEW n \in Nodes, NEW d, d = [nd[n] EXCEPT !.visits = @ + 1, !.leaf = @ + 1],
         nd[n].state # Unevaluated => nd[n].output
  PROVE  /\ d \in NodeRecs /\ Keeps(n, d) /\ SameEdges(n, d) /\ Tame(n, d)
         /\ d.visits > 0 /\ d.state = nd[n].state /\ d.output = nd[n].output
         /\ [nd EXCEPT ![n].visits = @ + 1, ![n].leaf = @ + 1] = [nd EXCEPT ![n] = d]
<1>1. nd \in [Nodes -> NodeRecs]
  BY TypeOKIs DEF IInv
<1>2. /\ d \in NodeRecs /\ d.visits = nd[n].visits + 1 /\ nd[n].visits \in Nat
      /\ d.state = nd[n].state /\ d.output = nd[n].output /\ d.slot = nd[n].slot
      /\ d.edge = nd[n].edge /\ d.seen = nd[n].seen /\ d.dirty = nd[n].dirty
  <2>1. PICK c : c = nd[n]
    OBVIOUS
  <2>2. c \in NodeRecs /\ d = [c EXCEPT !.visits = @ + 1, !.leaf = @ + 1]
    BY <1>1, <2>1
  <2>3. /\ d \in NodeRecs /\ d.visits = c.visits + 1 /\ c.visits \in Nat
        /\ d.state = c.state /\ d.output = c.output /\ d.slot = c.slot
        /\ d.edge = c.edge /\ d.seen = c.seen /\ d.dirty = c.dirty
    <3>1. c.visits \in Nat /\ c.leaf \in Nat
      BY <2>2 DEF NodeRecs
    <3>2. PICK v \in Nat, l \in Nat : v = c.visits + 1 /\ l = c.leaf + 1
      BY <3>1
    <3>3. d = [c EXCEPT !.visits = v, !.leaf = l]
      BY <2>2, <3>2
    <3>4. \A e \in NodeRecs : LET q == [e EXCEPT !.visits = v, !.leaf = l]
                              IN  /\ q \in NodeRecs /\ q.visits = v
                                  /\ q.state = e.state /\ q.output = e.output
                                  /\ q.slot = e.slot /\ q.edge = e.edge
                                  /\ q.seen = e.seen /\ q.dirty = e.dirty
      BY DEF NodeRecs
    <3> QED
      BY ZenonT(30), <2>2, <3>1, <3>2, <3>3, <3>4
  <2> QED
    BY <2>1, <2>3
<1>3. Keeps(n, d)
  <2>1. Evaluated(d)
    BY <1>2 DEF Evaluated
  <2>2. d.visits >= nd[n].visits
    BY <1>2
  <2> QED
    BY <1>2, <2>1, <2>2, StaysAs
<1>4. [nd EXCEPT ![n].visits = @ + 1, ![n].leaf = @ + 1] = [nd EXCEPT ![n] = d]
  BY <1>1 DEF NodeRecs
<1> QED
  BY <1>2, <1>3, <1>4 DEF SameEdges, Tame

LEMMA VisitTerminalStep ==
  ASSUME IInv, NEW t \in Threads, VisitTerminal(t)
  PROVE  IInv'
<1> DEFINE n == th[t].cur
<1>1. PICK d : d = [nd[n] EXCEPT !.visits = @ + 1, !.leaf = @ + 1]
  OBVIOUS
<1>2. PICK r : r = Return(t, TRUE)
  OBVIOUS
<1>3. n \in Nodes /\ NodeOK(n) /\ th \in [Threads -> ThreadRecs] /\ nd \in [Nodes -> NodeRecs]
  BY Here
<1>4. r \in ThreadRecs /\ r.pc = "return" /\ r.cur = n /\ r.path = th[t].path
      /\ r.mine = th[t].mine
  BY Zenon, <1>2, <1>3, ReturnIs
<1>5. /\ d \in NodeRecs /\ Keeps(n, d) /\ SameEdges(n, d) /\ Tame(n, d) /\ d.visits > 0
      /\ nd' = [nd EXCEPT ![n] = d]
  BY Zenon, <1>1, <1>3, LeafValue DEF VisitTerminal, AddLeafValue, NodeOK, Evaluated
<1>6. th[t].pc = "visit" /\ th' = [th EXCEPT ![t] = r] /\ UNCHANGED searchVars
  BY <1>2 DEF VisitTerminal, Step
<1>7. Placed(r)'
  BY <1>3, <1>4, <1>5 DEF Placed, InNode, ForSlot, AtChild
<1>8. th[t].pc \in Plain /\ r.pc \in Plain
  BY <1>4, <1>6 DEF Plain, Playing, Leafing, Updating
<1> QED
  BY <1>3, <1>4, <1>5, <1>6, <1>7, <1>8, NodePlays

LEMMA VisitNodeStep ==
  ASSUME IInv, NEW t \in Threads, VisitNode(t)
  PROVE  IInv'
<1> DEFINE n == th[t].cur
           s == nd[n].state
<1>1. PICK r : r = IF s = Unevaluated THEN [th[t] EXCEPT !.pc = "evaluate"]
                   ELSE IF s = Evaluating THEN GiveUp(t)
                   ELSE Selecting(t, "select", s)
  OBVIOUS
<1>2. n \in Nodes /\ th[t] \in ThreadRecs /\ s \in 0..6
  BY Here DEF NodeRecs
<1>3. th[t].pc = "visit" /\ th' = [th EXCEPT ![t] = r] /\ UNCHANGED <<nd, searchVars>>
  BY <1>1 DEF VisitNode, Step
<1>4. /\ r \in ThreadRecs /\ r.pc \in Plain /\ r.cur = n /\ r.path = th[t].path
      /\ r.mine = th[t].mine /\ Placed(r)
  <2>1. CASE s = Unevaluated
    <3>1. r = [th[t] EXCEPT !.pc = "evaluate"]
      BY <1>1, <2>1
    <3>2. r \in ThreadRecs /\ r.pc = "evaluate" /\ r.cur = n /\ r.path = th[t].path
          /\ r.mine = th[t].mine
      BY <1>2, <3>1 DEF ThreadRecs, Playing
    <3> QED
      BY <3>2 DEF Placed, InNode, ForSlot, AtChild, Plain, Playing, Leafing, Updating
  <2>2. CASE s = Evaluating
    <3>1. r = GiveUp(t)
      BY <1>1, <2>2 DEF Unevaluated, Evaluating
    <3>2. r \in ThreadRecs /\ r.pc = "return" /\ r.cur = n /\ r.path = th[t].path
          /\ r.mine = th[t].mine /\ r.ret = FALSE
      BY <1>2, <3>1, ReturnIs
    <3> QED
      BY <3>2 DEF Placed, InNode, ForSlot, AtChild, Plain, Playing, Leafing, Updating
  <2>3. CASE s # Unevaluated /\ s # Evaluating
    <3>1. r = Selecting(t, "select", s)
      BY <1>1, <2>3
    <3>2. r \in ThreadRecs /\ r.pc = "select" /\ r.cur = n /\ r.path = th[t].path
          /\ r.mine = th[t].mine
      <4>1. "select" \in Playing
        BY DEF Playing
      <4> QED
        BY <1>2, <3>1, <4>1, ReturnIs
    <3>3. nd[r.cur].state > 1
      BY <1>2, <2>3, <3>2 DEF Unevaluated, Evaluating
    <3> QED
      BY <3>2, <3>3 DEF Placed, InNode, ForSlot, AtChild, Plain, Playing, Leafing, Updating
  <2> QED
    BY <2>1, <2>2, <2>3
<1>5. th[t].pc \in Plain
  BY <1>3 DEF Plain, Playing, Leafing, Updating
<1> QED
  BY <1>3, <1>4, <1>5, ThreadPlays

\* A thread that evaluates or expands its node, or is about to: the edges stay.
LEMMA EvaluatorPlays ==
  ASSUME IInv, NEW t \in Threads, NEW r \in ThreadRecs, NEW n \in Nodes, NEW d \in NodeRecs,
         th' = [th EXCEPT ![t] = r], nd' = [nd EXCEPT ![n] = d], UNCHANGED searchVars,
         th[t].pc \in Away, r.pc \in Away,
         r.mine = th[t].mine, r.path = th[t].path, r.cur = th[t].cur,
         Keeps(n, d), SameEdges(n, d), Tame(n, d) \/ Alone(t, n),
         LeafOK(r)', r.pc \in Leafing => Alone(t, r.cur), Placed(r)'
  PROVE  IInv'
<1>1. LeafInv'
  BY LeafKept DEF Keeps
<1>2. UpdateInv'
  BY UpdateKept DEF Away
<1>3. Linked(r)
  BY SamePath
<1>4. th[t].pc \in Playing /\ r.pc \in Playing
  BY DEF Away
<1> QED
  BY <1>1, <1>2, <1>3, <1>4, Plays

\* The thread that evaluates or expands a node is alone there.
LEMMA IsAlone ==
  ASSUME IInv, NEW t \in Threads
  PROVE  /\ th[t].pc \in Leafing => Alone(t, th[t].cur)
         /\ ~nd[th[t].cur].output => Alone(t, th[t].cur)
<1>1. th[t].pc \in Leafing => Alone(t, th[t].cur)
  BY DEF IInv, LeafInv, Alone
<1>2. ASSUME ~nd[th[t].cur].output, NEW u \in Threads \ {t}, th[u].pc \in Leafing
      PROVE  th[u].cur # th[t].cur
  <2>1. nd[th[u].cur].output
    <3>1. CASE th[u].pc \in {"leaf", "expand"}
      BY <1>2, <3>1 DEF IInv, LeafInv
    <3>2. CASE th[u].pc = "publish"
      <4>1. nd[th[u].cur].state # Unevaluated
        BY <1>2, <3>2 DEF IInv, LeafInv, Unevaluated, Evaluating
      <4>2. th[u].cur \in Nodes
        BY <1>2, Here
      <4> QED
        BY <4>1, <4>2 DEF IInv, NodesInv, NodeOK, Evaluated
    <3> QED
      BY <1>2, <3>1, <3>2 DEF Leafing
  <2> QED
    BY <1>2, <2>1
<1> QED
  BY <1>1, <1>2 DEF Alone

LEMMA StoreOutputStep ==
  ASSUME IInv, NEW t \in Threads, StoreOutput(t)
  PROVE  IInv'
<1> DEFINE n == th[t].cur
<1>1. PICK d : d = [nd[n] EXCEPT !.output = TRUE]
  OBVIOUS
<1>2. PICK r : r = IF nd[n].output THEN GiveUp(t) ELSE [th[t] EXCEPT !.pc = "leaf"]
  OBVIOUS
<1>3. n \in Nodes /\ NodeOK(n) /\ th[t] \in ThreadRecs /\ nd[n] \in NodeRecs
      /\ nd \in [Nodes -> NodeRecs]
  BY Here
<1>4. /\ d \in NodeRecs /\ d.visits = nd[n].visits /\ nd[n].visits \in Nat
      /\ d.state = nd[n].state /\ d.output = TRUE /\ d.slot = nd[n].slot
      /\ d.edge = nd[n].edge /\ d.seen = nd[n].seen /\ d.dirty = nd[n].dirty
  BY <1>1, <1>3 DEF NodeRecs
<1>5. Keeps(n, d) /\ SameEdges(n, d) /\ Tame(n, d)
  <2>1. Evaluated(d) /\ d.visits >= nd[n].visits
    BY <1>3, <1>4 DEF NodeOK, Evaluated
  <2> QED
    BY <1>3, <1>4, <2>1, StaysAs DEF SameEdges, Tame
<1>6. th[t].pc = "evaluate" /\ th' = [th EXCEPT ![t] = r] /\ UNCHANGED searchVars
      /\ nd' = [nd EXCEPT ![n] = d]
  BY <1>1, <1>2 DEF StoreOutput, Step
<1>7. CASE nd[n].output
  <2>1. r = GiveUp(t)
    BY <1>2, <1>7
  <2>2. r \in ThreadRecs /\ r.pc = "return" /\ r.cur = n /\ r.path = th[t].path
        /\ r.mine = th[t].mine /\ r.ret = FALSE
    BY <1>3, <2>1, ReturnIs
  <2>3. Placed(r)'
    BY <2>2 DEF Placed, InNode, ForSlot, AtChild
  <2>4. th[t].pc \in Plain /\ r.pc \in Plain
    BY <1>6, <2>2 DEF Plain, Playing, Leafing, Updating
  <2> QED
    BY <1>3, <1>4, <1>5, <1>6, <2>2, <2>3, <2>4, NodePlays
<1>8. CASE ~nd[n].output
  <2>1. r = [th[t] EXCEPT !.pc = "leaf"]
    BY <1>2, <1>8
  <2>2. r \in ThreadRecs /\ r.pc = "leaf" /\ r.cur = n /\ r.path = th[t].path
        /\ r.mine = th[t].mine
    BY <1>3, <2>1 DEF ThreadRecs, Playing
  <2>3. Placed(r)'
    BY <2>2 DEF Placed, InNode, ForSlot, AtChild
  <2>4. th[t].pc \in Away /\ r.pc \in Away
    BY <1>6, <2>2 DEF Away, Playing, Updating
  <2>5. nd'[n] = d
    BY <1>3, <1>6
  <2>6. LeafOK(r)'
    BY <1>3, <1>4, <1>8, <2>2, <2>5 DEF LeafOK, NodeOK, Evaluated
  <2>7. Alone(t, r.cur)
    BY <1>8, <2>2, IsAlone
  <2> QED
    BY <1>3, <1>4, <1>5, <1>6, <2>2, <2>3, <2>4, <2>6, <2>7, EvaluatorPlays
<1> QED
  BY <1>7, <1>8

LEMMA CountEvaluationStep ==
  ASSUME IInv, NEW t \in Threads, CountEvaluation(t)
  PROVE  IInv'
<1> DEFINE n == th[t].cur
<1>1. PICK d : d = [nd[n] EXCEPT !.visits = @ + 1, !.leaf = @ + 1]
  OBVIOUS
<1>2. PICK r : r = [th[t] EXCEPT !.pc = "expand"]
  OBVIOUS
<1>3. n \in Nodes /\ NodeOK(n) /\ th[t] \in ThreadRecs /\ nd \in [Nodes -> NodeRecs]
  BY Here
<1>4. r \in ThreadRecs /\ r.pc = "expand" /\ r.cur = n /\ r.path = th[t].path
      /\ r.mine = th[t].mine
  BY <1>2, <1>3 DEF ThreadRecs, Playing
<1>5. th[t].pc = "leaf" /\ th' = [th EXCEPT ![t] = r] /\ UNCHANGED searchVars
  BY <1>2 DEF CountEvaluation, Step
<1>6. nd[n].output /\ nd[n].state = Unevaluated
  BY <1>5 DEF IInv, LeafInv
<1>7. /\ d \in NodeRecs /\ Keeps(n, d) /\ SameEdges(n, d) /\ Tame(n, d) /\ d.visits > 0
      /\ d.state = nd[n].state /\ d.output = nd[n].output /\ nd' = [nd EXCEPT ![n] = d]
  BY Zenon, <1>1, <1>3, <1>6, LeafValue DEF CountEvaluation, AddLeafValue
<1>8. Placed(r)'
  BY <1>4 DEF Placed, InNode, ForSlot, AtChild
<1>9. nd'[n] = d
  BY <1>3, <1>7
<1>10. LeafOK(r)'
  BY <1>4, <1>6, <1>7, <1>9 DEF LeafOK
<1>11. Alone(t, r.cur)
  BY <1>4, <1>5, IsAlone DEF Leafing
<1>12. th[t].pc \in Away /\ r.pc \in Away
  BY <1>4, <1>5 DEF Away, Playing, Updating
<1> QED
  BY <1>3, <1>4, <1>5, <1>7, <1>8, <1>10, <1>11, <1>12, EvaluatorPlays

LEMMA ClaimExpansionStep ==
  ASSUME IInv, NEW t \in Threads, ClaimExpansion(t)
  PROVE  IInv'
<1> DEFINE n == th[t].cur
<1>1. PICK d : d = [nd[n] EXCEPT !.state = Evaluating, !.arrays = 1]
  OBVIOUS
<1>2. PICK r : r = [th[t] EXCEPT !.pc = "publish"]
  OBVIOUS
<1>3. n \in Nodes /\ NodeOK(n) /\ th[t] \in ThreadRecs /\ nd \in [Nodes -> NodeRecs]
      /\ nd[n] \in NodeRecs
  BY Here
<1>4. r \in ThreadRecs /\ r.pc = "publish" /\ r.cur = n /\ r.path = th[t].path
      /\ r.mine = th[t].mine
  BY <1>2, <1>3 DEF ThreadRecs, Playing
<1>5. th[t].pc = "expand" /\ UNCHANGED searchVars
  BY DEF ClaimExpansion, Step
<1>6. nd[n].output /\ nd[n].state = Unevaluated /\ nd[n].visits > 0
  BY <1>5 DEF IInv, LeafInv
<1>7. th' = [th EXCEPT ![t] = r] /\ nd' = [nd EXCEPT ![n] = d]
  BY <1>1, <1>2, <1>3, <1>6 DEF ClaimExpansion, Step
<1>8. /\ d \in NodeRecs /\ d.visits = nd[n].visits /\ nd[n].visits \in Nat
      /\ d.state = Evaluating /\ d.output = nd[n].output /\ d.slot = nd[n].slot
      /\ d.edge = nd[n].edge /\ d.seen = nd[n].seen /\ d.dirty = nd[n].dirty
  <2>1. PICK v \in 0..6, w \in Nat : v = Evaluating /\ w = 1
    BY DEF Evaluating
  <2>2. PICK c \in NodeRecs : c = nd[n]
    BY <1>3
  <2>3. d = [c EXCEPT !.state = v, !.arrays = w]
    BY <1>1, <2>1, <2>2
  <2> HIDE DEF n
  <2>4. /\ d \in NodeRecs /\ d.visits = c.visits /\ c.visits \in Nat
        /\ d.state = v /\ d.output = c.output /\ d.slot = c.slot
        /\ d.edge = c.edge /\ d.seen = c.seen /\ d.dirty = c.dirty
    BY <2>3 DEF NodeRecs
  <2> QED
    BY <2>1, <2>2, <2>4
<1>9. Keeps(n, d) /\ SameEdges(n, d)
  <2>1. Evaluated(d) /\ d.visits >= nd[n].visits /\ ~(nd[n].state > 1)
    BY <1>6, <1>8 DEF Evaluated, Unevaluated
  <2> QED
    BY <1>3, <1>8, <2>1, StaysAs DEF SameEdges
<1>10. Placed(r)'
  BY <1>4 DEF Placed, InNode, ForSlot, AtChild
<1>11. nd'[n] = d
  BY <1>3, <1>7
<1>12. LeafOK(r)'
  BY <1>4, <1>8, <1>11 DEF LeafOK
<1>13. Alone(t, n)
  BY <1>5, IsAlone DEF Leafing
<1>14. th[t].pc \in Away /\ r.pc \in Away
  BY <1>4, <1>5 DEF Away, Playing, Updating
<1> QED
  BY <1>3, <1>4, <1>5, <1>7, <1>8, <1>9, <1>10, <1>12, <1>13, <1>14, EvaluatorPlays

LEMMA PublishExpansionStep ==
  ASSUME IInv, NEW t \in Threads, PublishExpansion(t)
  PROVE  IInv'
<1> DEFINE n == th[t].cur
<1>1. PICK d : d = [nd[n] EXCEPT !.state = 2]
  OBVIOUS
<1>2. PICK r : r = Return(t, TRUE)
  OBVIOUS
<1>3. n \in Nodes /\ NodeOK(n) /\ th[t] \in ThreadRecs /\ nd \in [Nodes -> NodeRecs]
      /\ nd[n] \in NodeRecs
  BY Here
<1>4. r \in ThreadRecs /\ r.pc = "return" /\ r.cur = n /\ r.path = th[t].path
      /\ r.mine = th[t].mine
  BY <1>2, <1>3, ReturnIs
<1>5. th[t].pc = "publish" /\ UNCHANGED searchVars
      /\ th' = [th EXCEPT ![t] = r] /\ nd' = [nd EXCEPT ![n] = d]
  BY <1>1, <1>2, <1>3 DEF PublishExpansion, Step
<1>6. nd[n].state = Evaluating
  BY <1>5 DEF IInv, LeafInv
<1>7. nd[n].output /\ nd[n].visits > 0
  BY <1>3, <1>6 DEF NodeOK, Evaluated, Evaluating, Unevaluated
<1>8. /\ d \in NodeRecs /\ d.visits = nd[n].visits /\ nd[n].visits \in Nat
      /\ d.state = 2 /\ d.output = nd[n].output /\ d.slot = nd[n].slot
      /\ d.edge = nd[n].edge /\ d.seen = nd[n].seen /\ d.dirty = nd[n].dirty
  BY <1>1, <1>3, SMTT(30) DEF NodeRecs
<1>9. Keeps(n, d) /\ SameEdges(n, d)
  <2>1. Evaluated(d) /\ d.visits >= nd[n].visits /\ d.state > 1
    BY <1>7, <1>8 DEF Evaluated
  <2> QED
    BY <1>3, <1>8, <2>1, StaysAs DEF SameEdges
<1>10. nd'[n] = d
  BY <1>3, <1>5
<1>11. Placed(r)'
  BY <1>4, <1>7, <1>8, <1>10 DEF Placed, InNode, ForSlot, AtChild
<1>12. LeafOK(r)' /\ r.pc \notin Leafing
  BY <1>4 DEF LeafOK, Leafing
<1>13. Alone(t, n)
  BY <1>5, IsAlone DEF Leafing
<1>14. th[t].pc \in Away /\ r.pc \in Away
  BY <1>4, <1>5 DEF Away, Playing, Updating
<1> QED
  BY <1>3, <1>4, <1>5, <1>8, <1>9, <1>11, <1>12, <1>13, <1>14, EvaluatorPlays

\* The thread moves, and a virtual loss is taken or given back.
LEMMA LossPlays ==
  ASSUME IInv, NEW t \in Threads, NEW r \in ThreadRecs, NEW n \in Nodes, NEW v \in Int,
         th' = [th EXCEPT ![t] = r], nd' = [nd EXCEPT ![n].vl = v], UNCHANGED searchVars,
         th[t].pc \in Plain, r.pc \in Plain, r.mine = th[t].mine, Linked(r), Placed(r)
  PROVE  IInv'
<1>1. PICK d : d = [nd[n] EXCEPT !.vl = v]
  OBVIOUS
<1>2. nd \in [Nodes -> NodeRecs] /\ NodeOK(n)
  BY Here
<1>3. /\ d \in NodeRecs /\ d.visits = nd[n].visits /\ nd[n].visits \in Nat
      /\ d.state = nd[n].state /\ d.output = nd[n].output /\ d.slot = nd[n].slot
      /\ d.edge = nd[n].edge /\ d.seen = nd[n].seen /\ d.dirty = nd[n].dirty
  BY <1>1, <1>2, LossChanges
<1>4. nd' = [nd EXCEPT ![n] = d]
  BY <1>1
<1>5. Keeps(n, d) /\ SameEdges(n, d) /\ Tame(n, d)
  <2>1. Evaluated(d) /\ d.visits >= nd[n].visits
    BY <1>2, <1>3 DEF NodeOK, Evaluated
  <2> QED
    BY <1>3, <2>1, StaysAs DEF SameEdges, Tame
<1>6. Placed(r)'
  <2>1. rootPos' = rootPos
    BY DEF searchVars
  <2>2. Grows
    BY <1>3, <1>4, <1>5, <2>1, NodeGrows
  <2> QED
    BY <2>2, StillThere
<1> QED
  BY <1>3, <1>4, <1>5, <1>6, PlaysOn

LEMMA FoundFits ==
  ASSUME NEW n, NEW s \in 0..6
  PROVE  Cardinality(Found(n, s)) \in Nat /\ Cardinality(Found(n, s)) <= Capacity(s)
<1>1. Capacity(s) \in Nat /\ Slots \subseteq Nat \ {0}
  BY LevelsFacts
<1>2. IsFiniteSet(1..Capacity(s)) /\ Cardinality(1..Capacity(s)) = Capacity(s)
  BY <1>1, FS_Interval
<1>3. Found(n, s) \subseteq 1..Capacity(s)
  <2> SUFFICES ASSUME NEW i \in Found(n, s) PROVE i \in 1..Capacity(s)
    OBVIOUS
  <2>1. i \in Slots /\ i <= Capacity(s)
    BY DEF Found
  <2> QED
    BY <1>1, <2>1
<1>4. IsFiniteSet(Found(n, s)) /\ Cardinality(Found(n, s)) <= Cardinality(1..Capacity(s))
  BY <1>2, <1>3, FS_Subset
<1> QED
  BY <1>2, <1>4, FS_CardinalityType

LEMMA SelectNothingStep ==
  ASSUME IInv, NEW t \in Threads, SelectNothing(t)
  PROVE  IInv'
<1> DEFINE n == th[t].cur
<1>1. PICK d : d = [nd[n] EXCEPT !.visits = @ + 1, !.leaf = @ + 1]
  OBVIOUS
<1>2. PICK r : r = Return(t, TRUE)
  OBVIOUS
<1>3. n \in Nodes /\ NodeOK(n) /\ th \in [Threads -> ThreadRecs] /\ nd \in [Nodes -> NodeRecs]
  BY Here
<1>4. r \in ThreadRecs /\ r.pc = "return" /\ r.cur = n /\ r.path = th[t].path
      /\ r.mine = th[t].mine
  BY Zenon, <1>2, <1>3, ReturnIs
<1>5. /\ d \in NodeRecs /\ Keeps(n, d) /\ SameEdges(n, d) /\ Tame(n, d) /\ d.visits > 0
      /\ nd' = [nd EXCEPT ![n] = d]
  BY Zenon, <1>1, <1>3, LeafValue DEF SelectNothing, AddLeafValue, NodeOK, Evaluated
<1>6. th[t].pc = "select" /\ th' = [th EXCEPT ![t] = r] /\ UNCHANGED searchVars
  BY <1>2 DEF SelectNothing, Step
<1>7. Placed(r)'
  BY <1>3, <1>4, <1>5 DEF Placed, InNode, ForSlot, AtChild
<1>8. th[t].pc \in Plain /\ r.pc \in Plain
  BY <1>4, <1>6 DEF Plain, Playing, Leafing, Updating
<1> QED
  BY <1>3, <1>4, <1>5, <1>6, <1>7, <1>8, NodePlays

LEMMA SelectExistingStep ==
  ASSUME IInv, NEW t \in Threads, NEW i \in Slots, NEW count \in BOOLEAN,
         SelectExisting(t, i, count)
  PROVE  IInv'
<1> DEFINE n == th[t].cur
           m == nd[n].slot[i]
<1>1. PICK r : r = [th[t] EXCEPT !.pc = "catchUp", !.idx = i, !.move = m,
                                 !.count = count, !.snap = 0]
  OBVIOUS
<1>2. n \in Nodes /\ NodeOK(n) /\ th[t] \in ThreadRecs /\ nd \in [Nodes -> NodeRecs]
      /\ rootPos \in Positions /\ Placed(th[t])
  BY Here
<1>3. i \in Nat /\ i > 0
  BY LevelsFacts
<1>4. m # None
  <2>1. \A j \in 1..i : nd[n].slot[j] # None
    BY Zenon DEF SelectExisting, Found
  <2>2. i \in 1..i
    BY <1>3
  <2> QED
    BY SMTT(30), <2>1, <2>2
<1>5. m \in DOMAIN Leads[At(n)]
  BY <1>2, <1>4 DEF NodeOK
<1>6. m \in Moves /\ ChildOf(n, m) \in Nodes
  BY <1>2, <1>5, ChildIsNode
<1>7. r \in ThreadRecs /\ r.pc = "catchUp" /\ r.cur = n /\ r.path = th[t].path
      /\ r.mine = th[t].mine /\ r.idx = i /\ r.move = m
  <2>1. PICK q \in ThreadRecs, w \in Moves : q = th[t] /\ w = m
    BY <1>2, <1>6
  <2>2. PICK pc \in Playing, z \in 0..6 : pc = "catchUp" /\ z = 0
    BY DEF Playing
  <2>3. r = [q EXCEPT !.pc = pc, !.idx = i, !.move = w, !.count = count, !.snap = z]
    BY <1>1, <2>1, <2>2
  <2>4. /\ r \in ThreadRecs /\ r.pc = pc /\ r.cur = q.cur /\ r.path = q.path
        /\ r.mine = q.mine /\ r.idx = i /\ r.move = w
    BY Zenon, <1>3, <2>3 DEF ThreadRecs
  <2> QED
    BY <2>1, <2>2, <2>4
<1>8. th[t].pc = "select" /\ th' = [th EXCEPT ![t] = r] /\ UNCHANGED searchVars
  BY Zenon, <1>1 DEF SelectExisting, Step
<1>9. nd[n].state > 1
  BY <1>2, <1>8 DEF Placed, InNode
<1>10. Placed(r)
  BY <1>5, <1>7, <1>9 DEF Placed, InNode, ForSlot, AtChild
<1>11. PICK c \in Nodes : c = ChildOf(n, m)
  BY <1>6
<1>12. PICK v \in Int : v = nd[c].vl + 1
  BY SMTT(30), <1>2 DEF NodeRecs
<1>13. nd' = [nd EXCEPT ![c].vl = v]
  BY Zenon, <1>2, <1>11, <1>12 DEF SelectExisting
<1>14. Linked(r)
  BY <1>7, SamePath
<1>15. th[t].pc \in Plain /\ r.pc \in Plain
  BY <1>7, <1>8 DEF Plain, Playing, Leafing, Updating
<1> QED
  BY <1>7, <1>8, <1>10, <1>13, <1>14, <1>15, LossPlays

\* A thread that has chosen a new child.
LEMMA NewChildIs ==
  ASSUME IInv, NEW t \in Threads, th[t].pc = "select", NEW m \in Playable(th[t].cur),
         NEW count \in BOOLEAN, NEW r, r = NewChild(t, m, count)
  PROVE  /\ r \in ThreadRecs /\ r.pc \in Plain /\ r.pc \in {"find", "grow"} /\ r.cur = th[t].cur
         /\ r.path = th[t].path /\ r.mine = th[t].mine /\ Placed(r)
<1> DEFINE n == th[t].cur
<1>1. n \in Nodes /\ th[t] \in ThreadRecs /\ rootPos \in Positions /\ Placed(th[t])
  BY Here
<1>2. th[t].snap \in 0..6
  BY <1>1 DEF ThreadRecs
<1>3. PICK idx \in Nat : idx = Cardinality(Found(n, th[t].snap)) + 1
  BY <1>2, FoundFits
<1>4. PICK cap \in Nat : cap = Capacity(th[t].snap)
  BY <1>2, LevelsFacts
<1>5. idx > 0 /\ idx <= cap + 1 /\ cap <= Levels[3] /\ Levels[3] \in Nat
  BY <1>2, <1>3, <1>4, FoundFits, LevelsFacts
<1>6. m \in DOMAIN Leads[At(n)]
  BY DEF Playable
<1>7. m \in Moves
  BY <1>1, <1>6, ChildIsNode
<1>8. nd[n].state > 1
  BY <1>1 DEF Placed, InNode
<1>9. CASE idx <= cap
  <2>1. r = [th[t] EXCEPT !.pc = "find", !.idx = idx, !.move = m, !.count = count, !.snap = 0]
    BY <1>3, <1>4, <1>9 DEF NewChild
  <2>2. r \in ThreadRecs /\ r.pc = "find" /\ r.cur = n /\ r.path = th[t].path
        /\ r.mine = th[t].mine /\ r.idx = idx /\ r.move = m
    <3>1. PICK q \in ThreadRecs, w \in Moves : q = th[t] /\ w = m
      BY <1>1, <1>7
    <3>2. PICK pc \in Playing, z \in 0..6 : pc = "find" /\ z = 0
      BY DEF Playing
    <3>3. r = [q EXCEPT !.pc = pc, !.idx = idx, !.move = w, !.count = count, !.snap = z]
      BY <2>1, <3>1, <3>2
    <3>4. /\ r \in ThreadRecs /\ r.pc = pc /\ r.cur = q.cur /\ r.path = q.path
          /\ r.mine = q.mine /\ r.idx = idx /\ r.move = w
      BY ZenonT(30), <3>3 DEF ThreadRecs
    <3> QED
      BY <3>1, <3>2, <3>4
  <2>3. idx \in Slots
    BY <1>5, <1>9 DEF Slots
  <2> QED
    BY <1>6, <1>8, <2>2, <2>3
    DEF Placed, InNode, ForSlot, AtChild, Plain, Playing, Leafing, Updating
<1>10. CASE ~(idx <= cap)
  <2>1. r = [th[t] EXCEPT !.pc = "grow", !.idx = idx, !.move = m, !.count = count]
    <3>1. r = [th[t] EXCEPT !.pc = "grow", !.idx = idx, !.move = m, !.count = count,
                            !.snap = @]
      BY <1>3, <1>4, <1>10 DEF NewChild
    <3> QED
      BY <1>1, <3>1 DEF ThreadRecs
  <2>2. r \in ThreadRecs /\ r.pc = "grow" /\ r.cur = n /\ r.path = th[t].path
        /\ r.mine = th[t].mine /\ r.idx = idx /\ r.move = m /\ r.snap = th[t].snap
    BY ZenonT(30), <1>1, <1>7, <2>1 DEF ThreadRecs, Playing
  <2>3. r.idx \in 1..(Capacity(r.snap) + 1)
    BY <1>4, <1>5, <2>2
  <2> QED
    BY <1>6, <1>8, <2>2, <2>3
    DEF Placed, InNode, ForSlot, AtChild, Plain, Playing, Leafing, Updating
<1> QED
  BY <1>9, <1>10

LEMMA SelectNewStep ==
  ASSUME IInv, NEW t \in Threads, NEW m \in Moves, NEW count \in BOOLEAN, SelectNew(t, m, count)
  PROVE  IInv'
<1>1. PICK r : r = NewChild(t, m, count)
  OBVIOUS
<1>2. /\ th[t].pc = "select" /\ th' = [th EXCEPT ![t] = r] /\ UNCHANGED <<nd, searchVars>>
      /\ m \in Playable(th[t].cur)
  BY <1>1 DEF SelectNew, Step
<1>3. /\ r \in ThreadRecs /\ r.pc \in Plain /\ r.cur = th[t].cur
      /\ r.path = th[t].path /\ r.mine = th[t].mine /\ Placed(r)
  BY <1>1, <1>2, NewChildIs
<1>4. th[t].pc \in Plain
  BY <1>2 DEF Plain, Playing, Leafing, Updating
<1> QED
  BY <1>2, <1>3, <1>4, ThreadPlays

LEMMA ForcePassStep ==
  ASSUME IInv, NEW t \in Threads, NEW m \in Moves, ForcePass(t, m)
  PROVE  IInv'
<1>1. PICK q : q = NewChild(t, m, FALSE)
  OBVIOUS
<1>2. PICK r : r = [q EXCEPT !.counted = FALSE]
  OBVIOUS
<1>3. /\ th[t].pc = "select" /\ th' = [th EXCEPT ![t] = r] /\ UNCHANGED <<nd, searchVars>>
      /\ m \in Playable(th[t].cur)
  BY <1>1, <1>2 DEF ForcePass, Step
<1>4. /\ q \in ThreadRecs /\ q.pc \in Plain /\ q.pc \in {"find", "grow"} /\ q.cur = th[t].cur
      /\ q.path = th[t].path /\ q.mine = th[t].mine /\ Placed(q)
  BY <1>1, <1>3, NewChildIs
<1>5. /\ r \in ThreadRecs /\ r.pc = q.pc /\ r.cur = q.cur /\ r.path = q.path
      /\ r.mine = q.mine /\ r.idx = q.idx /\ r.move = q.move /\ r.snap = q.snap
  BY <1>2, <1>4 DEF ThreadRecs
<1>6. Placed(r)
  BY <1>4, <1>5 DEF Placed
<1>7. th[t].pc \in Plain
  BY <1>3 DEF Plain, Playing, Leafing, Updating
<1> QED
  BY <1>3, <1>4, <1>5, <1>6, <1>7, ThreadPlays

LEMMA SelectIllegalStep ==
  ASSUME IInv, NEW t \in Threads, NEW m \in Moves, SelectIllegal(t, m)
  PROVE  IInv'
<1> DEFINE n == th[t].cur
<1>1. PICK d : d = [nd[n] EXCEPT !.output = TRUE]
  OBVIOUS
<1>2. PICK r : r = Return(t, TRUE)
  OBVIOUS
<1>3. n \in Nodes /\ NodeOK(n) /\ th[t] \in ThreadRecs /\ nd[n] \in NodeRecs
      /\ nd \in [Nodes -> NodeRecs] /\ Placed(th[t])
  BY Here
<1>4. /\ d \in NodeRecs /\ d.visits = nd[n].visits /\ nd[n].visits \in Nat
      /\ d.state = nd[n].state /\ d.output = TRUE /\ d.slot = nd[n].slot
      /\ d.edge = nd[n].edge /\ d.seen = nd[n].seen /\ d.dirty = nd[n].dirty
  BY <1>1, <1>3 DEF NodeRecs
<1>5. Keeps(n, d) /\ SameEdges(n, d) /\ Tame(n, d)
  <2>1. Evaluated(d) /\ d.visits >= nd[n].visits
    BY <1>3, <1>4 DEF NodeOK, Evaluated
  <2> QED
    BY <1>3, <1>4, <2>1, StaysAs DEF SameEdges, Tame
<1>6. th[t].pc = "select" /\ th' = [th EXCEPT ![t] = r] /\ UNCHANGED searchVars
      /\ nd' = [nd EXCEPT ![n] = d]
  BY <1>1, <1>2 DEF SelectIllegal, Step
<1>7. r \in ThreadRecs /\ r.pc = "return" /\ r.cur = n /\ r.path = th[t].path
      /\ r.mine = th[t].mine
  BY <1>2, <1>3, ReturnIs
<1>8. nd[n].visits > 0
  <2>1. nd[n].state > 1
    BY <1>3, <1>6 DEF Placed, InNode
  <2> QED
    BY <1>3, <2>1 DEF NodeOK, Evaluated, Unevaluated
<1>9. Placed(r)'
  BY <1>3, <1>4, <1>6, <1>7, <1>8 DEF Placed, InNode, ForSlot, AtChild
<1>10. th[t].pc \in Plain /\ r.pc \in Plain
  BY <1>6, <1>7 DEF Plain, Playing, Leafing, Updating
<1> QED
  BY <1>3, <1>4, <1>5, <1>6, <1>7, <1>9, <1>10, NodePlays

LEMMA GrowChildrenStep ==
  ASSUME IInv, NEW t \in Threads, GrowChildren(t)
  PROVE  IInv'
<1> DEFINE n == th[t].cur
           s == th[t].snap
<1>1. n \in Nodes /\ NodeOK(n) /\ th[t] \in ThreadRecs /\ nd[n] \in NodeRecs
      /\ nd \in [Nodes -> NodeRecs] /\ Placed(th[t])
  BY Here
<1>2. th[t].pc = "grow" /\ UNCHANGED searchVars /\ s \in 0..5
  BY <1>1 DEF GrowChildren, Step, ThreadRecs
<1>3. nd[n].state > 1
  BY <1>1, <1>2 DEF Placed, InNode
<1>4. th[t].pc \in Plain
  BY <1>2 DEF Plain, Playing, Leafing, Updating
<1>5. CASE s \in Growing \/ nd[n].state # s
  <2>1. PICK r : r = Selecting(t, "reload", s)
    OBVIOUS
  <2>2. th' = [th EXCEPT ![t] = r] /\ UNCHANGED <<nd, searchVars>>
    BY <1>2, <1>5, <2>1 DEF GrowChildren, Step
  <2>3. r \in ThreadRecs /\ r.pc = "reload" /\ r.cur = n /\ r.path = th[t].path
        /\ r.mine = th[t].mine
    <3>1. "reload" \in Playing
      BY DEF Playing
    <3>2. PICK z \in 0..6 : z = s
      BY <1>2
    <3> QED
      BY <1>1, <2>1, <3>1, <3>2, ReturnIs, ZenonT(30)
  <2>4. Placed(r)
    BY <1>3, <2>3 DEF Placed, InNode, ForSlot, AtChild
  <2>5. r.pc \in Plain
    BY <2>3 DEF Plain, Playing, Leafing, Updating
  <2> QED
    BY <1>4, <2>2, <2>3, <2>4, <2>5, ThreadPlays
<1>6. CASE ~(s \in Growing \/ nd[n].state # s)
  <2>1. PICK d : d = [nd[n] EXCEPT !.state = s + 1, !.arrays = @ + 1]
    OBVIOUS
  <2>2. PICK r : r = [th[t] EXCEPT !.pc = "grown", !.snap = s + 1]
    OBVIOUS
  <2>3. th' = [th EXCEPT ![t] = r] /\ nd' = [nd EXCEPT ![n] = d]
    BY <1>1, <1>6, <2>1, <2>2 DEF GrowChildren, Step
  <2>4. s \in {2, 4} /\ nd[n].state = s
    BY <1>2, <1>3, <1>6 DEF Growing
  <2>5. PICK z \in 0..6 : z = s + 1
    BY <2>4
  <2>6. r \in ThreadRecs /\ r.pc = "grown" /\ r.cur = n /\ r.path = th[t].path
        /\ r.mine = th[t].mine /\ r.snap = z /\ r.idx = th[t].idx /\ r.move = th[t].move
    <3>1. r = [th[t] EXCEPT !.pc = "grown", !.snap = z]
      BY <2>2, <2>5
    <3> QED
      BY <1>1, <3>1 DEF ThreadRecs, Playing
  <2>7. /\ d \in NodeRecs /\ d.visits = nd[n].visits /\ nd[n].visits \in Nat
        /\ d.state = z /\ d.output = nd[n].output /\ d.slot = nd[n].slot
        /\ d.edge = nd[n].edge /\ d.seen = nd[n].seen /\ d.dirty = nd[n].dirty
    <3>1. PICK c \in NodeRecs : c = nd[n]
      BY <1>1
    <3>2. PICK w \in Nat : w = c.arrays + 1
      BY DEF NodeRecs
    <3>3. d = [c EXCEPT !.state = z, !.arrays = w]
      BY <2>1, <2>5, <3>1, <3>2
    <3> HIDE DEF n, s
    <3>4. /\ d \in NodeRecs /\ d.visits = c.visits /\ c.visits \in Nat
          /\ d.state = z /\ d.output = c.output /\ d.slot = c.slot
          /\ d.edge = c.edge /\ d.seen = c.seen /\ d.dirty = c.dirty
      BY <3>3 DEF NodeRecs
    <3> QED
      BY <3>1, <3>4
  <2>8. Keeps(n, d) /\ SameEdges(n, d) /\ Tame(n, d)
    <3>1. d.visits >= nd[n].visits
      BY <2>7
    <3>2. d.state > 1 /\ ~(nd[n].state < 2) /\ nd[n].state # Unevaluated
      BY <2>4, <2>5, <2>7 DEF Unevaluated
    <3>3. Evaluated(d)
      BY <1>1, <2>7, <3>1, <3>2, StaysEvaluated
    <3> QED
      BY <1>1, <2>7, <3>1, <3>2, <3>3, StaysAs DEF SameEdges, Tame
  <2>9. th[t].idx \in Slots /\ th[t].move \in DOMAIN Leads[At(n)]
    <3>1. th[t].idx \in 1..(Capacity(s) + 1) /\ th[t].move \in DOMAIN Leads[At(n)]
      BY <1>1, <1>2 DEF Placed
    <3>2. Capacity(s) \in Nat /\ Capacity(s) + 1 <= Levels[3] /\ Levels[3] \in Nat
      BY <1>2, LevelsFacts
    <3> QED
      BY <3>1, <3>2 DEF Slots
  <2>10. nd'[r.cur].state > 1 /\ At(r.cur)' = At(n)
    <3>1. nd'[n] = d
      BY <1>1, <2>3
    <3> QED
      BY <1>2, <2>4, <2>5, <2>6, <2>7, <3>1 DEF searchVars, At
  <2>11. Placed(r)'
    BY <2>4, <2>5, <2>6, <2>9, <2>10 DEF Placed, InNode, ForSlot, AtChild
  <2>12. r.pc \in Plain
    BY <2>6 DEF Plain, Playing, Leafing, Updating
  <2> QED
    BY <1>1, <1>2, <1>4, <2>3, <2>6, <2>7, <2>8, <2>11, <2>12, NodePlays
<1> QED
  BY <1>5, <1>6

LEMMA SelectAgainStep ==
  ASSUME IInv, NEW t \in Threads, SelectAgain(t)
  PROVE  IInv'
<1> DEFINE n == th[t].cur
           s == nd[n].state
<1>1. n \in Nodes /\ th[t] \in ThreadRecs /\ nd[n] \in NodeRecs /\ Placed(th[t])
  BY Here
<1>2. PICK r : r = Selecting(t, "select", s)
  OBVIOUS
<1>3. th[t].pc = "reload" /\ th' = [th EXCEPT ![t] = r] /\ UNCHANGED <<nd, searchVars>>
  BY <1>2 DEF SelectAgain, Step
<1>4. s \in 0..6 /\ s > 1
  BY <1>1, <1>3 DEF NodeRecs, Placed, InNode
<1>5. r \in ThreadRecs /\ r.pc = "select" /\ r.cur = n /\ r.path = th[t].path
      /\ r.mine = th[t].mine
  <2>1. "select" \in Playing
    BY DEF Playing
  <2> QED
    BY <1>1, <1>2, <1>4, <2>1, ReturnIs
<1>6. Placed(r)
  BY <1>4, <1>5 DEF Placed, InNode, ForSlot, AtChild
<1>7. th[t].pc \in Plain /\ r.pc \in Plain
  BY <1>3, <1>5 DEF Plain, Playing, Leafing, Updating
<1> QED
  BY <1>3, <1>5, <1>6, <1>7, ThreadPlays

LEMMA PublishGrowthStep ==
  ASSUME IInv, NEW t \in Threads, PublishGrowth(t)
  PROVE  IInv'
<1> DEFINE n == th[t].cur
<1>1. n \in Nodes /\ NodeOK(n) /\ th[t] \in ThreadRecs /\ nd[n] \in NodeRecs
      /\ nd \in [Nodes -> NodeRecs] /\ Placed(th[t])
  BY Here
<1>2. PICK d : d = [nd[n] EXCEPT !.state = th[t].snap + 1]
  OBVIOUS
<1>3. PICK r : r = [th[t] EXCEPT !.pc = "find", !.snap = 0]
  OBVIOUS
<1>4. th[t].pc = "grown" /\ th' = [th EXCEPT ![t] = r] /\ UNCHANGED searchVars
      /\ nd' = [nd EXCEPT ![n] = d]
  BY <1>1, <1>2, <1>3 DEF PublishGrowth, Step
<1>5. /\ nd[n].state > 1 /\ th[t].snap \in {3, 5} /\ th[t].idx \in Slots
      /\ th[t].move \in DOMAIN Leads[At(n)]
  BY <1>1, <1>4 DEF Placed, InNode, ForSlot
<1>6. PICK z \in {4, 6} : z = th[t].snap + 1
  BY <1>5
<1>7. r \in ThreadRecs /\ r.pc = "find" /\ r.cur = n /\ r.path = th[t].path
      /\ r.mine = th[t].mine /\ r.idx = th[t].idx /\ r.move = th[t].move
  <2>1. PICK q \in ThreadRecs : q = th[t]
    BY <1>1
  <2>2. PICK pc \in Playing, v \in 0..6 : pc = "find" /\ v = 0
    BY DEF Playing
  <2>3. r = [q EXCEPT !.pc = pc, !.snap = v]
    BY <1>3, <2>1, <2>2
  <2>4. r \in ThreadRecs /\ r.pc = pc /\ r.cur = q.cur /\ r.path = q.path
        /\ r.mine = q.mine /\ r.idx = q.idx /\ r.move = q.move
    BY <2>3 DEF ThreadRecs
  <2> QED
    BY <2>1, <2>2, <2>4
<1>8. /\ d \in NodeRecs /\ d.visits = nd[n].visits /\ nd[n].visits \in Nat
      /\ d.state = z /\ d.output = nd[n].output /\ d.slot = nd[n].slot
      /\ d.edge = nd[n].edge /\ d.seen = nd[n].seen /\ d.dirty = nd[n].dirty
  <2>1. d = [nd[n] EXCEPT !.state = z] /\ z \in 0..6
    BY <1>2, <1>6
  <2> QED
    BY <1>1, <2>1 DEF NodeRecs
<1>9. Keeps(n, d) /\ SameEdges(n, d) /\ Tame(n, d)
  <2>1. d.visits >= nd[n].visits
    BY <1>8
  <2>2. d.state > 1 /\ ~(nd[n].state < 2) /\ nd[n].state # Unevaluated
    <3>1. nd[n].state \in Int
      BY <1>1 DEF NodeRecs
    <3> QED
      BY <1>5, <1>6, <1>8, <3>1 DEF Unevaluated
  <2>3. Evaluated(d)
    BY <1>1, <1>8, <2>1, <2>2, StaysEvaluated
  <2> QED
    BY <1>1, <1>8, <2>1, <2>2, <2>3, StaysAs DEF SameEdges, Tame
<1>10. nd'[r.cur].state > 1 /\ At(r.cur)' = At(n)
  <2>1. nd'[n] = d
    BY <1>1, <1>4
  <2> QED
    BY <1>4, <1>6, <1>7, <1>8, <2>1 DEF searchVars, At
<1>11. Placed(r)'
  BY <1>5, <1>7, <1>10 DEF Placed, InNode, ForSlot, AtChild
<1>12. th[t].pc \in Plain /\ r.pc \in Plain
  BY <1>4, <1>7 DEF Plain, Playing, Leafing, Updating
<1> QED
  BY <1>1, <1>4, <1>7, <1>8, <1>9, <1>11, <1>12, NodePlays

\* A thread that has a child in mind.
LEMMA ChildHere ==
  ASSUME IInv, NEW t \in Threads, th[t].pc \in {"grow"} \cup ForSlot
  PROVE  /\ th[t].move \in DOMAIN Leads[At(th[t].cur)] /\ th[t].move \in Moves
         /\ th[t].move # None /\ Child(t) \in Nodes /\ nd[th[t].cur].state > 1
<1>1. /\ th[t].cur \in Nodes /\ rootPos \in Positions /\ nd[th[t].cur].state > 1
      /\ th[t].move \in DOMAIN Leads[At(th[t].cur)]
  BY Here DEF Placed, InNode
<1> QED
  BY <1>1, ChildIsNode DEF Child

LEMMA FindNodeStep ==
  ASSUME IInv, NEW t \in Threads, FindNode(t)
  PROVE  IInv'
<1>1. th[t].cur \in Nodes /\ th[t] \in ThreadRecs /\ nd \in [Nodes -> NodeRecs]
      /\ Placed(th[t])
  BY Here
<1>2. PICK r : r = [th[t] EXCEPT !.pc = "claim"]
  OBVIOUS
<1>3. th[t].pc = "find" /\ th' = [th EXCEPT ![t] = r] /\ UNCHANGED searchVars
  BY <1>2 DEF FindNode, Step
<1>4. PICK c \in Nodes : c = Child(t)
  BY <1>3, ChildHere DEF ForSlot
<1>5. PICK v \in Int : v = nd[c].vl + 1
  BY <1>1 DEF NodeRecs
<1>6. nd' = [nd EXCEPT ![c].vl = v]
  BY <1>1, <1>4, <1>5 DEF FindNode
<1>7. r \in ThreadRecs /\ r.pc = "claim" /\ r.cur = th[t].cur /\ r.path = th[t].path
      /\ r.mine = th[t].mine /\ r.idx = th[t].idx /\ r.move = th[t].move
  BY <1>1, <1>2 DEF ThreadRecs, Playing
<1>8. Placed(r)
  BY <1>1, <1>3, <1>7 DEF Placed, InNode, ForSlot, AtChild
<1>9. Linked(r)
  BY <1>7, SamePath
<1>10. th[t].pc \in Plain /\ r.pc \in Plain
  BY <1>3, <1>7 DEF Plain, Playing, Leafing, Updating
<1> QED
  BY <1>3, <1>6, <1>7, <1>8, <1>9, <1>10, LossPlays

LEMMA LostRaceStep ==
  ASSUME IInv, NEW t \in Threads, LostRace(t)
  PROVE  IInv'
<1>1. th[t].cur \in Nodes /\ th[t] \in ThreadRecs /\ nd \in [Nodes -> NodeRecs]
  BY Here
<1>2. PICK r : r = GiveUp(t)
  OBVIOUS
<1>3. th[t].pc = "claim" /\ th' = [th EXCEPT ![t] = r] /\ UNCHANGED searchVars
  BY <1>2 DEF LostRace, Step
<1>4. PICK c \in Nodes : c = Child(t)
  BY <1>3, ChildHere DEF ForSlot
<1>5. PICK v \in Int : v = nd[c].vl - 1
  BY <1>1 DEF NodeRecs
<1>6. nd' = [nd EXCEPT ![c].vl = v]
  BY <1>1, <1>4, <1>5 DEF LostRace
<1>7. r \in ThreadRecs /\ r.pc = "return" /\ r.cur = th[t].cur /\ r.path = th[t].path
      /\ r.mine = th[t].mine /\ r.ret = FALSE
  BY <1>1, <1>2, ReturnIs
<1>8. Placed(r)
  BY <1>7 DEF Placed, InNode, ForSlot, AtChild
<1>9. Linked(r)
  BY <1>7, SamePath
<1>10. th[t].pc \in Plain /\ r.pc \in Plain
  BY <1>3, <1>7 DEF Plain, Playing, Leafing, Updating
<1> QED
  BY <1>3, <1>6, <1>7, <1>8, <1>9, <1>10, LossPlays

LEMMA LeaveChildStep ==
  ASSUME IInv, NEW t \in Threads, LeaveChild(t)
  PROVE  IInv'
<1>1. th[t].cur \in Nodes /\ th[t] \in ThreadRecs /\ nd \in [Nodes -> NodeRecs]
      /\ NodeOK(th[t].cur)
  BY Here
<1>2. PICK r : r = Return(t, TRUE)
  OBVIOUS
<1>3. th[t].pc = "leave" /\ th' = [th EXCEPT ![t] = r] /\ UNCHANGED searchVars
  BY <1>2 DEF LeaveChild, Step
<1>4. PICK c \in Nodes : c = Child(t)
  BY <1>3, ChildHere DEF ForSlot, AtChild
<1>5. PICK v \in Int : v = nd[c].vl - 1
  BY <1>1 DEF NodeRecs
<1>6. nd' = [nd EXCEPT ![c].vl = v]
  BY <1>1, <1>4, <1>5 DEF LeaveChild
<1>7. r \in ThreadRecs /\ r.pc = "return" /\ r.cur = th[t].cur /\ r.path = th[t].path
      /\ r.mine = th[t].mine
  BY <1>1, <1>2, ReturnIs
<1>8. nd[th[t].cur].visits > 0
  <2>1. nd[th[t].cur].state > 1
    BY <1>3, ChildHere DEF ForSlot, AtChild
  <2> QED
    BY <1>1, <2>1 DEF NodeOK, Evaluated, Unevaluated
<1>9. Placed(r)
  BY <1>7, <1>8 DEF Placed, InNode, ForSlot, AtChild
<1>10. Linked(r)
  BY <1>7, SamePath
<1>11. th[t].pc \in Plain /\ r.pc \in Plain
  BY <1>3, <1>7 DEF Plain, Playing, Leafing, Updating
<1> QED
  BY <1>3, <1>6, <1>7, <1>9, <1>10, <1>11, LossPlays

LEMMA ClaimSlotStep ==
  ASSUME IInv, NEW t \in Threads, ClaimSlot(t)
  PROVE  IInv'
<1> DEFINE n == th[t].cur
           i == th[t].idx
           m == th[t].move
<1>1. n \in Nodes /\ NodeOK(n) /\ th[t] \in ThreadRecs /\ nd[n] \in NodeRecs
      /\ nd \in [Nodes -> NodeRecs] /\ Placed(th[t])
  BY Here
<1>2. PICK r : r = [th[t] EXCEPT !.pc = "catchUp"]
  OBVIOUS
<1>3. PICK d : d = [nd[n] EXCEPT !.slot[i] = m]
  OBVIOUS
<1>4. th[t].pc = "claim" /\ th' = [th EXCEPT ![t] = r] /\ UNCHANGED searchVars
      /\ nd' = [nd EXCEPT ![n] = d] /\ nd[n].slot[i] = None
  BY <1>1, <1>2, <1>3 DEF ClaimSlot, Step
<1>5. m \in DOMAIN Leads[At(n)] /\ m \in Moves /\ nd[n].state > 1 /\ i \in Slots
  BY <1>1, <1>4, ChildHere DEF Placed, ForSlot
<1>6. r \in ThreadRecs /\ r.pc = "catchUp" /\ r.cur = n /\ r.path = th[t].path
      /\ r.mine = th[t].mine /\ r.idx = i /\ r.move = m
  BY <1>1, <1>2 DEF ThreadRecs, Playing
<1>7. /\ d \in NodeRecs /\ d.visits = nd[n].visits /\ nd[n].visits \in Nat
      /\ d.state = nd[n].state /\ d.output = nd[n].output
      /\ d.slot = [nd[n].slot EXCEPT ![i] = m]
      /\ d.edge = nd[n].edge /\ d.seen = nd[n].seen /\ d.dirty = nd[n].dirty
  <2>1. PICK sl : sl = [nd[n].slot EXCEPT ![i] = m]
    OBVIOUS
  <2>2. sl \in [Slots -> Moves \cup {None}]
    BY <1>1, <1>5, <2>1 DEF NodeRecs
  <2>3. d = [nd[n] EXCEPT !.slot = sl]
    BY <1>3, <2>1
  <2> QED
    BY <1>1, <2>1, <2>2, <2>3 DEF NodeRecs
<1>8. d.slot[i] = m /\ \A j \in Slots \ {i} : d.slot[j] = nd[n].slot[j]
  BY SMTT(30), <1>1, <1>5, <1>7 DEF NodeRecs
<1>9. Keeps(n, d) /\ SameEdges(n, d) /\ Tame(n, d)
  <2>1. Evaluated(d) /\ d.visits >= nd[n].visits
    <3>1. d.visits >= nd[n].visits
      BY <1>7
    <3> QED
      BY <1>1, <1>7, <3>1, StaysEvaluated
  <2>2. \A j \in Slots : /\ nd[n].slot[j] # None => d.slot[j] = nd[n].slot[j]
                         /\ d.slot[j] # None => d.slot[j] \in DOMAIN Leads[At(n)]
    BY SMTT(30), <1>1, <1>4, <1>5, <1>8 DEF NodeOK
  <2> QED
    BY <1>7, <2>1, <2>2 DEF Keeps, SameEdges, Tame
<1>10. nd'[r.cur].state > 1 /\ At(r.cur)' = At(n) /\ nd'[r.cur].slot[i] = m
  <2>1. nd'[n] = d
    BY <1>1, <1>4
  <2> QED
    BY <1>4, <1>5, <1>6, <1>7, <1>8, <2>1 DEF searchVars, At
<1>11. Placed(r)'
  BY <1>5, <1>6, <1>10 DEF Placed, InNode, ForSlot, AtChild
<1>12. th[t].pc \in Plain /\ r.pc \in Plain
  BY <1>4, <1>6 DEF Plain, Playing, Leafing, Updating
<1> QED
  BY <1>1, <1>4, <1>6, <1>7, <1>9, <1>11, <1>12, NodePlays

\* An edge gets a visit, which the thread goes on to announce: those who are
\* recomputing the node may have missed it.
LEMMA EdgePlays ==
  ASSUME IInv, NEW t \in Threads, NEW r \in ThreadRecs, NEW n \in Nodes, NEW i \in Slots,
         th' = [th EXCEPT ![t] = r], nd' = [nd EXCEPT ![n].edge[i] = @ + 1],
         UNCHANGED searchVars, th[t].pc \in Plain, r.pc = "announce", r.cur = n,
         r.mine = th[t].mine, Linked(r), Placed(r),
         nd[n].slot[i] # None, nd[ChildOf(n, nd[n].slot[i])].visits > 0
  PROVE  IInv'
<1>1. /\ nd \in [Nodes -> NodeRecs] /\ th \in [Threads -> ThreadRecs] /\ NodeOK(n)
      /\ nd[n] \in NodeRecs
  BY Here
<1>2. PICK e \in [Slots -> Nat] : e = [nd[n].edge EXCEPT ![i] = @ + 1]
  BY <1>1 DEF NodeRecs
<1>3. PICK d : d = [nd[n] EXCEPT !.edge = e]
  OBVIOUS
<1>4. nd' = [nd EXCEPT ![n] = d]
  BY <1>1, <1>2, <1>3 DEF NodeRecs
<1>5. /\ d \in NodeRecs /\ d.visits = nd[n].visits /\ nd[n].visits \in Nat
      /\ d.state = nd[n].state /\ d.output = nd[n].output /\ d.slot = nd[n].slot
      /\ d.edge = e /\ d.seen = nd[n].seen /\ d.dirty = nd[n].dirty
  BY <1>1, <1>3 DEF NodeRecs
<1>6. \A j \in Slots \ {i} : d.edge[j] = nd[n].edge[j]
  BY <1>1, <1>2, <1>5 DEF NodeRecs
<1>7. Keeps(n, d) /\ Tame(n, d)
  <2>1. Evaluated(d) /\ d.visits >= nd[n].visits
    BY <1>1, <1>5 DEF NodeOK, Evaluated
  <2>2. \A j \in Slots : d.slot[j] # None => d.slot[j] \in DOMAIN Leads[At(n)]
    BY <1>1, <1>5 DEF NodeOK
  <2> QED
    BY <1>5, <1>6, <2>1, <2>2 DEF Keeps, Tame
<1>8. /\ th'[t] = r /\ \A u \in Threads \ {t} : th'[u] = th[u] /\ th[u].cur \in Nodes
      /\ nd'[n] = d /\ \A k \in Nodes \ {n} : nd'[k] = nd[k]
  BY <1>1, <1>4 DEF ThreadRecs
<1>9. r.pc \in Playing /\ th[t].pc \in Playing /\ r.pc \notin Leafing /\ th[t].pc \in Plain
  BY DEF Plain, Playing, Leafing
<1>10. LeafInv'
  <2>1. d.visits >= nd[n].visits
    BY <1>5
  <2> QED
    BY <1>4, <1>5, <1>7, <1>9, <2>1, LeafQuiet
<1>11. UpdateInv'
  <2>1. Announced(n)'
    BY <1>8 DEF Announced, In
  <2>2. \A k : Announced(k) => Announced(k)'
    BY <1>8, <1>9 DEF Announced, In, Plain
  <2>3. \A k \in Nodes : nd'[k].seen = nd[k].seen /\ nd'[k].dirty = nd[k].dirty
    BY <1>5, <1>8
  <2>4. ASSUME NEW u \in Threads, th'[u].pc \in Updating
        PROVE  u # t /\ th'[u] = th[u] /\ th[u].pc \in Updating /\ th[u].cur \in Nodes
    BY <1>8, <2>4 DEF Updating
  <2>5. ASSUME NEW u \in Threads, th'[u].pc \in Updating
        PROVE  /\ th'[u].pending # 0 /\ th'[u].pending <= nd'[th'[u].cur].dirty
               /\ Missed(u)' => \/ th'[u].pending < nd'[th'[u].cur].dirty
                                \/ Announced(th[u].cur)'
    <3>1. PICK k \in Nodes : k = th[u].cur
      BY <2>4, <2>5
    <3>2. th'[u] = th[u] /\ th'[u].cur = k /\ th[u].cur = k /\ th[u].pc \in Updating
      BY <2>4, <2>5, <3>1
    <3>3. /\ th[u].pending # 0 /\ th[u].pending <= nd[k].dirty
          /\ Missed(u) => th[u].pending < nd[k].dirty \/ Announced(k)
      BY <3>1, <3>2 DEF IInv, UpdateInv
    <3>4. Announced(k)' => Announced(th[u].cur)'
      BY <3>2 DEF Announced, In
    <3>5. k # n => (Missed(u)' <=> Missed(u))
      BY <1>8, <3>2 DEF Missed
    <3> QED
      BY <2>1, <2>2, <2>3, <3>2, <3>3, <3>4, <3>5
  <2>6. \A u, w \in Threads :
          th'[u].pc \in Updating /\ th'[w].pc \in Updating /\ th'[u].cur = th'[w].cur => u = w
    BY <2>4 DEF IInv, UpdateInv
  <2>7. \A k \in Nodes : nd'[k].dirty # 0 => \E u \in Threads : In(u, Updating, k)'
    <3>1. ASSUME NEW k \in Nodes, nd'[k].dirty # 0
          PROVE  \E u \in Threads : In(u, Updating, k)'
      <4>1. PICK u \in Threads : In(u, Updating, k)
        BY <2>3, <3>1 DEF IInv, UpdateInv
      <4>2. u # t
        BY <1>9, <4>1 DEF In, Plain
      <4> QED
        BY <1>8, <4>1, <4>2 DEF In
    <3> QED
      BY <3>1
  <2>8. \A k \in Nodes : nd'[k].dirty = 0 /\ ~Announced(k)' => nd'[k].seen = nd'[k].edge
    <3>1. ASSUME NEW k \in Nodes, nd'[k].dirty = 0, ~Announced(k)'
          PROVE  nd'[k].seen = nd'[k].edge
      <4>1. k # n
        BY <2>1, <3>1
      <4>2. ~Announced(k) /\ nd[k].dirty = 0
        BY <2>2, <2>3, <3>1
      <4> QED
        BY <1>8, <4>1, <4>2 DEF IInv, UpdateInv
    <3> QED
      BY <3>1
  <2> QED
    BY <2>5, <2>6, <2>7, <2>8 DEF UpdateInv
<1>12. Placed(r)'
  <2>1. rootPos' = rootPos
    BY DEF searchVars
  <2>2. Grows
    BY <1>4, <1>5, <1>7, <2>1, NodeGrows
  <2> QED
    BY <2>2, StillThere
<1> QED
  BY <1>4, <1>5, <1>7, <1>9, <1>10, <1>11, <1>12, Plays

\* A thread that has its child in its slot, and may give the edge a visit.
LEMMA AtChildIs ==
  ASSUME IInv, NEW t \in Threads, th[t].pc \in AtChild
  PROVE  /\ th[t].idx \in Slots /\ nd[th[t].cur].slot[th[t].idx] = th[t].move
         /\ th[t].move # None
         /\ Child(t) = ChildOf(th[t].cur, nd[th[t].cur].slot[th[t].idx])
BY Here, ChildHere DEF Placed, ForSlot, Child

LEMMA ChildVisited ==
  ASSUME IInv, NEW t \in Threads, th[t].pc = "catchUp",
         nd[Child(t)].visits > 0, th' = [th EXCEPT ![t] = [th[t] EXCEPT !.pc = "announce"]],
         AddEdgeVisit(t), UNCHANGED searchVars
  PROVE  IInv'
<1>1. PICK r : r = [th[t] EXCEPT !.pc = "announce"]
  OBVIOUS
<1>2. th[t] \in ThreadRecs /\ th[t].cur \in Nodes /\ Placed(th[t])
  BY Here
<1>3. r \in ThreadRecs /\ r.pc = "announce" /\ r.cur = th[t].cur /\ r.path = th[t].path
      /\ r.mine = th[t].mine /\ r.idx = th[t].idx /\ r.move = th[t].move
  BY <1>1, <1>2 DEF ThreadRecs, Playing
<1>4. Placed(r)
  BY <1>2, <1>3 DEF Placed, InNode, ForSlot, AtChild
<1>5. Linked(r)
  BY <1>3, SamePath
<1>6. PICK n \in Nodes, i \in Slots : n = th[t].cur /\ i = th[t].idx
  BY <1>2, AtChildIs DEF AtChild
<1>7. nd[n].slot[i] # None /\ nd[ChildOf(n, nd[n].slot[i])].visits > 0
  BY <1>6, AtChildIs DEF AtChild
<1>8. th' = [th EXCEPT ![t] = r] /\ nd' = [nd EXCEPT ![n].edge[i] = @ + 1]
  BY <1>1, <1>6 DEF AddEdgeVisit
<1>9. th[t].pc \in Plain
  BY DEF Plain, Playing, Leafing, Updating
<1> QED
  BY ZenonT(30), <1>3, <1>4, <1>5, <1>6, <1>7, <1>8, <1>9, EdgePlays

LEMMA CatchUpStep ==
  ASSUME IInv, NEW t \in Threads, CatchUp(t)
  PROVE  IInv'
<1> DEFINE n == th[t].cur
           i == th[t].idx
<1>1. th[t].pc = "catchUp" /\ th' = [th EXCEPT ![t] = [th[t] EXCEPT !.pc = "announce"]]
  BY DEF CatchUp, Step
<1>2. n \in Nodes /\ nd \in [Nodes -> NodeRecs] /\ i \in Slots
  BY <1>1, Here, AtChildIs DEF AtChild
<1>3. Child(t) \in Nodes
  BY <1>1, ChildHere DEF ForSlot, AtChild
<1>4. nd[n].edge[i] \in Nat /\ nd[Child(t)].visits \in Nat
  BY <1>2, <1>3 DEF NodeRecs
<1>5. nd[Child(t)].visits > 0
  BY <1>4 DEF CatchUp, EdgeBehind
<1> QED
  BY <1>1, <1>5, ChildVisited DEF CatchUp

\* The nodes of a playout have been visited before.
LEMMA VisitedIs ==
  ASSUME IInv, NEW t \in Threads, th[t].pc = "catchUp", NEW n \in Visited(t)
  PROVE  nd[n].visits > 0
<1>1. /\ th[t] \in ThreadRecs /\ th[t].cur \in Nodes /\ nd \in [Nodes -> NodeRecs]
      /\ \A k \in Nodes : NodeOK(k)
  BY Here
<1>2. \A k \in Nodes : nd[k].state > 1 => nd[k].visits > 0
  BY <1>1 DEF NodeOK, Evaluated, Unevaluated
<1>3. CASE n = th[t].cur
  BY <1>1, <1>2, <1>3, ChildHere DEF ForSlot, AtChild
<1>4. ASSUME NEW i \in DOMAIN th[t].path, n = th[t].path[i].node
      PROVE  nd[n].visits > 0
  <2>1. PICK q \in ThreadRecs : q = th[t]
    BY <1>1
  <2>2. i \in 1..Len(q.path) /\ q.path[i] \in Frames
    BY <1>4, <2>1 DEF ThreadRecs
  <2>3. nd[q.path[i].node].state > 1
    <3>1. Linked(q)
      BY <2>1, Here
    <3> QED
      BY <2>2, <3>1 DEF Linked
  <2> QED
    BY <1>2, <1>4, <2>1, <2>2, <2>3 DEF Frames
<1> QED
  BY <1>3, <1>4 DEF Visited

LEMMA CloseCycleStep ==
  ASSUME IInv, NEW t \in Threads, CloseCycle(t)
  PROVE  IInv'
<1>1. th[t].pc = "catchUp" /\ UNCHANGED searchVars /\ Child(t) \in Visited(t)
  BY DEF CloseCycle
<1>2. CASE th[t].count
  BY <1>1, <1>2, VisitedIs, ChildVisited DEF CloseCycle, Step
<1>3. CASE ~th[t].count
  <2>1. th[t].cur \in Nodes /\ th[t] \in ThreadRecs /\ nd \in [Nodes -> NodeRecs]
    BY Here
  <2>2. PICK r : r = Return(t, FALSE)
    OBVIOUS
  <2>3. th' = [th EXCEPT ![t] = r]
    BY <1>3, <2>2 DEF CloseCycle, Step
  <2>4. PICK c \in Nodes : c = Child(t)
    BY <1>1, ChildHere DEF ForSlot, AtChild
  <2>5. PICK v \in Int : v = nd[c].vl - 1
    BY <2>1 DEF NodeRecs
  <2>6. nd' = [nd EXCEPT ![c].vl = v]
    BY <1>3, <2>1, <2>4, <2>5 DEF CloseCycle
  <2>7. r \in ThreadRecs /\ r.pc = "return" /\ r.cur = th[t].cur /\ r.path = th[t].path
        /\ r.mine = th[t].mine /\ r.ret = FALSE
    BY <2>1, <2>2, ReturnIs
  <2>8. Placed(r)
    BY <2>7 DEF Placed, InNode, ForSlot, AtChild
  <2>9. Linked(r)
    BY <2>7, SamePath
  <2>10. th[t].pc \in Plain /\ r.pc \in Plain
    BY <1>1, <2>7 DEF Plain, Playing, Leafing, Updating
  <2> QED
    BY <1>1, <2>3, <2>6, <2>7, <2>8, <2>9, <2>10, LossPlays
<1> QED
  BY <1>2, <1>3

\* A frame more, and a frame less.
LEMMA FramePushed ==
  ASSUME NEW q \in ThreadRecs, NEW r \in ThreadRecs, NEW f \in Frames, Linked(q),
         f.node = q.cur, nd[q.cur].slot[f.idx] = f.move, nd[q.cur].state > 1,
         f.move \in DOMAIN Leads[At(q.cur)],
         r.path = Append(q.path, f), r.cur = ChildOf(q.cur, f.move)
  PROVE  Linked(r)
<1>1. q.path \in Seq(Frames)
  BY DEF ThreadRecs
<1>2. /\ Len(r.path) = Len(q.path) + 1 /\ Len(q.path) \in Nat
      /\ r.path[Len(q.path) + 1] = f
      /\ \A i \in 1..Len(q.path) : r.path[i] = q.path[i]
  BY SMTT(30), <1>1
<1>3. ASSUME NEW i \in 1..Len(r.path)
      PROVE  LET g == r.path[i]
             IN  /\ nd[g.node].slot[g.idx] = g.move /\ nd[g.node].state > 1
                 /\ g.move \in DOMAIN Leads[At(g.node)] /\ ChildOf(g.node, g.move) = Below(r, i)
  <2>1. CASE i = Len(q.path) + 1
    <3>1. r.path[i] = f /\ Below(r, i) = r.cur
      BY <1>2, <2>1 DEF Below
    <3> QED
      BY <3>1
  <2>2. CASE i # Len(q.path) + 1
    <3>1. i \in 1..Len(q.path)
      BY <1>2, <2>2
    <3>2. Below(r, i) = Below(q, i)
      <4>1. CASE i < Len(q.path)
        <5>1. i + 1 \in 1..Len(q.path) /\ i < Len(r.path)
          BY <1>2, <3>1, <4>1
        <5> QED
          BY <1>2, <4>1, <5>1 DEF Below
      <4>2. CASE i = Len(q.path)
        BY SMTT(30), <1>2, <4>2 DEF Below
      <4> QED
        BY <1>2, <3>1, <4>1, <4>2
    <3> QED
      BY <1>2, <3>1, <3>2 DEF Linked
  <2> QED
    BY <2>1, <2>2
<1> QED
  BY <1>3 DEF Linked

LEMMA FramePopped ==
  ASSUME NEW q \in ThreadRecs, NEW r \in ThreadRecs, Linked(q), q.path # <<>>,
         r.path = SubSeq(q.path, 1, Len(q.path) - 1), r.cur = q.path[Len(q.path)].node
  PROVE  Linked(r) /\ Len(q.path) \in 1..Len(q.path)
<1>1. q.path \in Seq(Frames)
  BY DEF ThreadRecs
<1>2. /\ Len(q.path) \in 1..Len(q.path) /\ Len(r.path) = Len(q.path) - 1
      /\ \A i \in 1..(Len(q.path) - 1) : r.path[i] = q.path[i]
  BY <1>1
<1>3. ASSUME NEW i \in 1..Len(r.path)
      PROVE  LET g == r.path[i]
             IN  /\ nd[g.node].slot[g.idx] = g.move /\ nd[g.node].state > 1
                 /\ g.move \in DOMAIN Leads[At(g.node)] /\ ChildOf(g.node, g.move) = Below(r, i)
  <2>1. i \in 1..Len(q.path) /\ r.path[i] = q.path[i] /\ i < Len(q.path)
    BY <1>2
  <2>2. Below(r, i) = Below(q, i)
    <3>1. CASE i < Len(r.path)
      <4>1. i + 1 \in 1..(Len(q.path) - 1)
        BY <1>2, <3>1
      <4> QED
        BY <1>2, <2>1, <3>1, <4>1 DEF Below
    <3>2. CASE i = Len(r.path)
      BY <1>2, <2>1, <3>2 DEF Below
    <3> QED
      BY <1>2, <3>1, <3>2
  <2> QED
    BY <2>1, <2>2 DEF Linked
<1> QED
  BY SMTT(30), <1>2, <1>3 DEF Linked

LEMMA DescendStep ==
  ASSUME IInv, NEW t \in Threads, Descend(t)
  PROVE  IInv'
<1>1. th[t].pc = "catchUp" /\ UNCHANGED <<nd, searchVars>>
  BY DEF Descend
<1>2. PICK q \in ThreadRecs : q = th[t]
  BY Here
<1>3. /\ q.idx \in Slots /\ q.move \in DOMAIN Leads[At(q.cur)] /\ q.move \in Moves
      /\ nd[q.cur].slot[q.idx] = q.move /\ nd[q.cur].state > 1 /\ q.cur \in Nodes
      /\ Child(t) \in Nodes /\ Child(t) = ChildOf(q.cur, q.move) /\ Linked(q)
  BY <1>1, <1>2, AtChildIs, ChildHere, Here DEF AtChild, ForSlot, Child
<1>4. PICK f \in Frames : f = [node |-> q.cur, idx |-> q.idx, move |-> q.move, count |-> q.count]
  BY <1>3 DEF Frames, ThreadRecs
<1>5. PICK p : p = Return(t, FALSE)
  OBVIOUS
<1>6. p \in ThreadRecs /\ p.path = q.path /\ p.mine = q.mine
  BY <1>2, <1>5, ReturnIs
<1>7. PICK pc \in Playing : pc = "visit"
  BY DEF Playing
<1>8. PICK s \in Seq(Frames) : s = Append(q.path, f)
  <2>1. q.path \in Seq(Frames)
    BY DEF ThreadRecs
  <2> QED
    BY <2>1, AppendProperties
<1>9. PICK r : r = [p EXCEPT !.pc = pc, !.cur = Child(t), !.path = s]
  OBVIOUS
<1>10. /\ r \in ThreadRecs /\ r.pc = pc /\ r.cur = Child(t) /\ r.path = s
       /\ r.mine = q.mine
  BY <1>3, <1>6, <1>9 DEF ThreadRecs
<1>11. th' = [th EXCEPT ![t] = r]
  BY <1>2, <1>4, <1>5, <1>6, <1>7, <1>8, <1>9 DEF Descend, Step
<1>12. Linked(r)
  BY <1>3, <1>4, <1>8, <1>10, FramePushed
<1>13. Placed(r)
  BY <1>7, <1>10 DEF Placed, InNode, ForSlot, AtChild
<1>14. th[t].pc \in Plain /\ r.pc \in Plain
  BY <1>1, <1>7, <1>10 DEF Plain, Playing, Leafing, Updating
<1> QED
  BY <1>1, <1>2, <1>10, <1>11, <1>12, <1>13, <1>14, ThreadMoves

LEMMA ReturnToParentStep ==
  ASSUME IInv, NEW t \in Threads, ReturnToParent(t)
  PROVE  IInv'
<1>1. th[t].pc = "return" /\ th[t].path # <<>> /\ UNCHANGED searchVars
  BY Zenon DEF ReturnToParent
<1>2. PICK q \in ThreadRecs : q = th[t]
  BY Here
<1>3. Linked(q) /\ Placed(q) /\ nd \in [Nodes -> NodeRecs] /\ rootPos \in Positions
      /\ th \in [Threads -> ThreadRecs]
  BY <1>2, Here
<1>4. q.path \in Seq(Frames) /\ Len(q.path) \in 1..Len(q.path)
  <2>1. q.path \in Seq(Frames)
    BY DEF ThreadRecs
  <2> QED
    BY <1>1, <1>2, <2>1
<1>5. PICK f \in Frames : f = q.path[Len(q.path)]
  BY <1>4
<1>6. f.node \in Nodes /\ f.idx \in Slots /\ f.move \in Moves /\ f.count \in BOOLEAN
  BY DEF Frames
<1>7. /\ nd[f.node].slot[f.idx] = f.move /\ nd[f.node].state > 1
      /\ f.move \in DOMAIN Leads[At(f.node)] /\ ChildOf(f.node, f.move) = q.cur
  <2>1. Below(q, Len(q.path)) = q.cur
    BY <1>4 DEF Below
  <2> QED
    BY <1>3, <1>4, <1>5, <2>1 DEF Linked
<1>8. PICK s \in Seq(Frames) : s = SubSeq(q.path, 1, Len(q.path) - 1)
  <2>1. Len(q.path) - 1 \in 0..Len(q.path)
    BY <1>4
  <2>2. SubSeq(q.path, 1, Len(q.path) - 1) \in Seq(Frames)
    <3>1. \A i \in 1..(Len(q.path) - 1) : i \in 1..Len(q.path)
      BY <1>4
    <3> QED
      BY <1>4, <2>1, <3>1, SubSeqProperties
  <2> QED
    BY <2>2
<1>9. Above(t) = s
  BY <1>2, <1>8 DEF Above
<1>10. CASE q.ret /\ f.count
  <2>1. PICK pc \in Playing : pc = "announce"
    BY DEF Playing
  <2>2. PICK r : r = [q EXCEPT !.cur = f.node, !.idx = f.idx, !.move = f.move,
                               !.count = f.count, !.path = s, !.pc = pc]
    OBVIOUS
  <2>3. f.idx \in Nat /\ f.move \in Moves \cup {None}
    BY <1>6, LevelsFacts
  <2>4. /\ r \in ThreadRecs /\ r.pc = pc /\ r.cur = f.node /\ r.idx = f.idx
        /\ r.move = f.move /\ r.path = s /\ r.mine = q.mine
    BY Zenon, <1>6, <2>2, <2>3 DEF ThreadRecs
  <2>5. [Popped(t) EXCEPT !.pc = "announce"] = r
    BY <1>2, <1>5, <1>9, <2>1, <2>2 DEF Popped
  <2>6. th' = [th EXCEPT ![t] = r] /\ nd' = [nd EXCEPT ![f.node].edge[f.idx] = @ + 1]
    BY Zenon, <1>2, <1>5, <1>10, <2>5 DEF ReturnToParent, Step
  <2>7. Linked(r)
    BY <1>1, <1>2, <1>3, <1>5, <1>8, <2>4, FramePopped
  <2>8. Placed(r)
    BY <1>6, <1>7, <2>1, <2>4 DEF Placed, InNode, ForSlot, AtChild
  <2>9. nd[q.cur].visits > 0
    BY <1>1, <1>2, <1>3, <1>10 DEF Placed
  <2>10. nd[f.node].slot[f.idx] # None
         /\ nd[ChildOf(f.node, nd[f.node].slot[f.idx])].visits > 0
    BY <1>6, <1>7, <2>9, NamesAssumption
  <2>11. th[t].pc \in Plain
    BY <1>1 DEF Plain, Playing, Leafing, Updating
  <2> QED
    BY <1>1, <1>2, <1>6, <2>1, <2>4, <2>6, <2>7, <2>8, <2>10, <2>11, EdgePlays
<1>11. CASE ~(q.ret /\ f.count)
  <2>1. PICK p : p = Return(t, FALSE)
    OBVIOUS
  <2>2. p \in ThreadRecs /\ p.pc = "return" /\ p.ret = FALSE /\ p.mine = q.mine
    BY <1>2, <2>1, ReturnIs
  <2>3. PICK r : r = [p EXCEPT !.cur = f.node, !.path = s]
    OBVIOUS
  <2>4. /\ r \in ThreadRecs /\ r.pc = "return" /\ r.ret = FALSE /\ r.cur = f.node
        /\ r.path = s /\ r.mine = q.mine
    BY <1>6, <2>2, <2>3 DEF ThreadRecs
  <2>5. PICK c \in Nodes : c = ChildOf(f.node, f.move)
    BY <1>2, <1>7, Here
  <2>6. PICK v \in Int : v = nd[c].vl - 1
    BY <1>3 DEF NodeRecs
  <2>7. th' = [th EXCEPT ![t] = r] /\ nd' = [nd EXCEPT ![c].vl = v]
    BY Zenon, <1>2, <1>3, <1>5, <1>9, <1>11, <2>1, <2>3, <2>5, <2>6 DEF ReturnToParent, Step
  <2>8. Linked(r)
    BY <1>1, <1>2, <1>3, <1>5, <1>8, <2>4, FramePopped
  <2>9. Placed(r)
    BY <2>4 DEF Placed, InNode, ForSlot, AtChild
  <2>10. th[t].pc \in Plain /\ r.pc \in Plain
    BY <1>1, <2>4 DEF Plain, Playing, Leafing, Updating
  <2> QED
    BY <1>1, <1>2, <2>4, <2>5, <2>6, <2>7, <2>8, <2>9, <2>10, LossPlays
<1> QED
  BY SMTT(30), <1>10, <1>11

(***************************************************************************)
(* The steps of updateStatsAfterPlayout.                                   *)
(***************************************************************************)
Others(t, pcs, n) == \E u \in Threads \ {t} : In(u, pcs, n)

\* Thread t goes on with the update of node n, which becomes d.
LEMMA UpdateMoves ==
  ASSUME IInv, NEW t \in Threads, NEW r \in ThreadRecs, NEW n \in Nodes, NEW d \in NodeRecs,
         th' = [th EXCEPT ![t] = r], nd' = [nd EXCEPT ![n] = d],
         th[t].cur = n, r.cur = n,
         th[t].pc \in Updating \cup {"announce"}, r.pc \in Updating \cup {"leave"},
         d.edge = nd[n].edge,
         r.pc \in Updating => ~Others(t, Updating, n),
         d.dirty # 0 => r.pc \in Updating \/ Others(t, Updating, n),
         r.pc \in Updating => r.pending # 0 /\ r.pending <= d.dirty,
         (r.pc = "store" /\ r.read # d.edge) \/ (r.pc = "settle" /\ d.seen # d.edge)
           => r.pending < d.dirty \/ Others(t, {"announce"}, n),
         \A u \in Threads \ {t} : In(u, Updating, n) =>
           d.seen = nd[n].seen /\ th[u].pending < d.dirty,
         d.dirty = 0 => d.seen = d.edge \/ Others(t, {"announce"}, n)
  PROVE  UpdateInv'
<1>1. /\ th \in [Threads -> ThreadRecs] /\ th' \in [Threads -> ThreadRecs]
      /\ nd \in [Nodes -> NodeRecs]
  BY TypeOKIs DEF IInv
<1>2. /\ th'[t] = r /\ \A u \in Threads \ {t} : th'[u] = th[u] /\ th[u].cur \in Nodes
      /\ nd'[n] = d /\ \A k \in Nodes \ {n} : nd'[k] = nd[k]
  BY <1>1 DEF ThreadRecs
<1>3. r.pc # "announce" /\ "announce" \notin Updating
  BY DEF Updating
<1>4. /\ Announced(n)' <=> Others(t, {"announce"}, n)
      /\ \A k \in Nodes \ {n} : Announced(k)' <=> Announced(k)
  BY <1>2, <1>3 DEF Announced, In, Others
<1>5. \A k \in Nodes \ {n} :
        (\E u \in Threads : In(u, Updating, k))' <=> \E u \in Threads : In(u, Updating, k)
  BY <1>2 DEF In
<1>6. ASSUME NEW u \in Threads, NEW w \in Threads, th'[u].pc \in Updating,
             th'[w].pc \in Updating, th'[u].cur = th'[w].cur
      PROVE  u = w
  <2>1. CASE u # t /\ w # t
    BY <1>2, <1>6, <2>1 DEF IInv, UpdateInv
  <2>2. CASE u = t /\ w # t
    BY <1>2, <1>6, <2>2 DEF Others, In
  <2>3. CASE u # t /\ w = t
    BY <1>2, <1>6, <2>3 DEF Others, In
  <2> QED
    BY <2>1, <2>2, <2>3
<1>7. ASSUME NEW k \in Nodes, nd'[k].dirty # 0
      PROVE  (\E u \in Threads : In(u, Updating, k))'
  <2>1. CASE k = n
    BY <1>2, <1>7, <2>1 DEF Others, In
  <2>2. CASE k # n
    BY <1>2, <1>5, <1>7, <2>2 DEF IInv, UpdateInv
  <2> QED
    BY <2>1, <2>2
<1>8. ASSUME NEW k \in Nodes, nd'[k].dirty = 0, ~Announced(k)'
      PROVE  nd'[k].seen = nd'[k].edge
  <2>1. CASE k = n
    BY <1>2, <1>4, <1>8, <2>1
  <2>2. CASE k # n
    BY <1>2, <1>4, <1>8, <2>2 DEF IInv, UpdateInv
  <2> QED
    BY <2>1, <2>2
<1>9. ASSUME NEW u \in Threads, th'[u].pc \in Updating
      PROVE  /\ th'[u].pending # 0 /\ th'[u].pending <= nd'[th'[u].cur].dirty
             /\ Missed(u)' => \/ th'[u].pending < nd'[th'[u].cur].dirty
                              \/ Announced(th[u].cur)'
  <2>1. CASE u = t
    BY <1>2, <1>4, <1>9, <2>1 DEF Missed
  <2>2. CASE u # t
    <3>1. PICK k \in Nodes : k = th[u].cur /\ k = th'[u].cur /\ th'[u] = th[u]
      BY <1>2, <2>2
    <3>2. /\ th[u].pending # 0 /\ th[u].pending <= nd[k].dirty
          /\ Missed(u) => th[u].pending < nd[k].dirty \/ Announced(k)
      BY <1>9, <3>1 DEF IInv, UpdateInv
    <3>3. CASE k = n
      <4>1. th[u].pending \in Nat /\ d.dirty \in Nat
        BY <1>1 DEF ThreadRecs, NodeRecs
      <4>2. th[u].pending < d.dirty
        BY <1>9, <2>2, <3>1, <3>3 DEF In
      <4>3. th[u].pending <= d.dirty
        BY <4>1, <4>2
      <4> QED
        BY <1>2, <3>1, <3>2, <3>3, <4>2, <4>3
    <3>4. CASE k # n
      <4>1. Missed(u)' <=> Missed(u)
        BY <1>2, <2>2, <3>1, <3>4 DEF Missed
      <4>2. Announced(k) => Announced(th[u].cur)'
        BY <1>4, <3>1, <3>4
      <4> QED
        BY <1>2, <3>1, <3>2, <3>4, <4>1, <4>2
    <3> QED
      BY <3>3, <3>4
  <2> QED
    BY <2>1, <2>2
<1>10. \A u \in Threads : th'[u].pc \in Updating => th'[u].cur = th[u].cur
  BY <1>2
<1> QED
  BY <1>6, <1>7, <1>8, <1>9, <1>10 DEF UpdateInv

\* ... and nothing else of the node changes but its statistics.
LEMMA UpdatePlays ==
  ASSUME IInv, NEW t \in Threads, NEW r \in ThreadRecs, NEW n \in Nodes, NEW d \in NodeRecs,
         th' = [th EXCEPT ![t] = r], nd' = [nd EXCEPT ![n] = d], UNCHANGED searchVars,
         th[t].pc \in Updating \cup {"announce"}, r.pc \in Updating \cup {"leave"},
         n = th[t].cur, r.cur = n, r.idx = th[t].idx, r.move = th[t].move,
         r.path = th[t].path, r.mine = th[t].mine,
         d.slot = nd[n].slot, d.edge = nd[n].edge, d.state = nd[n].state,
         d.output = nd[n].output, d.visits >= nd[n].visits, UpdateInv'
  PROVE  IInv'
<1>1. nd[n] \in NodeRecs /\ NodeOK(n) /\ Placed(th[t])
  BY Here
<1>2. Evaluated(d)
  BY StaysEvaluated
<1>3. Keeps(n, d) /\ Tame(n, d)
  BY <1>2, StaysAs DEF Tame
<1>4. /\ th[t].pc \in AtChild /\ r.pc \in AtChild /\ th[t].pc \in Playing /\ r.pc \in Playing
      /\ r.pc \notin Leafing
  BY DEF Updating, AtChild, Playing, Leafing
<1>5. Placed(r)
  BY <1>1, <1>4 DEF Placed, InNode, ForSlot, AtChild
<1>6. Placed(r)'
  <2>1. rootPos' = rootPos
    BY DEF searchVars
  <2>2. Grows
    BY <1>3, <2>1, NodeGrows
  <2> QED
    BY <1>5, <2>2, StillThere
<1>7. LeafInv'
  BY <1>3, <1>4, LeafQuiet
<1>8. Linked(r)
  BY SamePath
<1> QED
  BY <1>3, <1>4, <1>6, <1>7, <1>8, Plays

LEMMA AnnounceVisitStep ==
  ASSUME IInv, NEW t \in Threads, AnnounceVisit(t)
  PROVE  IInv'
<1>1. PICK n \in Nodes : n = th[t].cur
  BY Here
<1>2. nd[n] \in NodeRecs /\ th[t] \in ThreadRecs /\ th \in [Threads -> ThreadRecs]
  BY <1>1, Here
<1>3. PICK v \in Nat : v = nd[n].dirty + 1
  BY <1>2 DEF NodeRecs
<1>4. PICK d : d = [nd[n] EXCEPT !.dirty = v]
  OBVIOUS
<1>5. /\ d \in NodeRecs /\ d.visits = nd[n].visits /\ nd[n].visits \in Nat
      /\ d.state = nd[n].state /\ d.output = nd[n].output /\ d.slot = nd[n].slot
      /\ d.edge = nd[n].edge /\ d.seen = nd[n].seen /\ d.dirty = v /\ nd[n].dirty \in Nat
  BY <1>2, <1>4 DEF NodeRecs
<1>6. PICK r : r = IF nd[n].dirty > 0 THEN [th[t] EXCEPT !.pc = "leave"]
                   ELSE [th[t] EXCEPT !.pc = "recompute", !.pending = 1]
  OBVIOUS
<1>7. th[t].pc = "announce" /\ th' = [th EXCEPT ![t] = r] /\ nd' = [nd EXCEPT ![n] = d]
      /\ UNCHANGED searchVars
  BY <1>1, <1>3, <1>4, <1>6 DEF AnnounceVisit, Step
<1>8. /\ r \in ThreadRecs /\ r.cur = n /\ r.idx = th[t].idx /\ r.move = th[t].move
      /\ r.path = th[t].path /\ r.mine = th[t].mine
      /\ nd[n].dirty > 0 => r.pc = "leave"
      /\ nd[n].dirty = 0 => r.pc = "recompute" /\ r.pending = 1
  <2>1. PICK q \in ThreadRecs : q = th[t]
    BY <1>2
  <2>2. CASE nd[n].dirty > 0
    <3>1. PICK pc \in Playing : pc = "leave"
      BY DEF Playing
    <3>2. r = [q EXCEPT !.pc = pc] /\ nd[n].dirty # 0
      BY <1>5, <1>6, <2>1, <2>2, <3>1
    <3>3. r \in ThreadRecs /\ r.cur = q.cur /\ r.idx = q.idx /\ r.move = q.move
          /\ r.path = q.path /\ r.mine = q.mine /\ r.pc = pc
      BY <3>2 DEF ThreadRecs
    <3> QED
      BY <1>1, <2>1, <2>2, <3>1, <3>2, <3>3
  <2>3. CASE nd[n].dirty = 0
    <3>1. PICK pc \in Playing, one \in Nat : pc = "recompute" /\ one = 1
      BY DEF Playing
    <3>2. r = [q EXCEPT !.pc = pc, !.pending = one] /\ ~(nd[n].dirty > 0)
      BY <1>6, <2>1, <2>3, <3>1
    <3>3. r \in ThreadRecs /\ r.cur = q.cur /\ r.idx = q.idx /\ r.move = q.move
          /\ r.path = q.path /\ r.mine = q.mine /\ r.pc = pc /\ r.pending = one
      BY <3>2 DEF ThreadRecs
    <3> QED
      BY <1>1, <2>1, <2>3, <3>1, <3>2, <3>3
  <2> QED
    BY <1>5, <2>2, <2>3
<1>9. r.pc \in Updating \cup {"leave"} /\ th[t].pc \in Updating \cup {"announce"}
  BY <1>5, <1>7, <1>8 DEF Updating
<1>10. ASSUME NEW u \in Threads \ {t}, In(u, Updating, n)
       PROVE  /\ th[u].pending \in Nat /\ th[u].pending # 0 /\ th[u].pending <= nd[n].dirty
  BY <1>2, <1>10 DEF IInv, UpdateInv, In, ThreadRecs
<1>11. nd[n].dirty > 0 => Others(t, Updating, n)
  <2>1. \A u \in Threads : In(u, Updating, n) => u # t
    BY <1>7 DEF In, Updating
  <2> QED
    BY <1>5, <2>1 DEF IInv, UpdateInv, Others
<1>12. nd[n].dirty = 0 => ~Others(t, Updating, n)
  BY <1>10 DEF Others
<1>13. UpdateInv'
  <2>1. r.pc \in Updating => nd[n].dirty = 0 /\ r.pc = "recompute" /\ r.pending = 1 /\ v = 1
    BY <1>3, <1>5, <1>8 DEF Updating
  <2>2. r.pc \in Updating => ~Others(t, Updating, n)
    BY <1>12, <2>1
  <2>3. d.dirty # 0 => r.pc \in Updating \/ Others(t, Updating, n)
    BY <1>5, <1>8, <1>11 DEF Updating
  <2>4. r.pc \in Updating => r.pending # 0 /\ r.pending <= d.dirty
    BY <1>5, <2>1
  <2>5. r.pc # "store" /\ r.pc # "settle"
    BY <2>1 DEF Updating
  <2>6. \A u \in Threads \ {t} : In(u, Updating, n) =>
          d.seen = nd[n].seen /\ th[u].pending < d.dirty
    BY <1>3, <1>5, <1>10
  <2>7. d.dirty # 0
    BY <1>3, <1>5
  <2> QED
    BY <1>1, <1>5, <1>7, <1>8, <1>9, <2>2, <2>3, <2>4, <2>5, <2>6, <2>7, UpdateMoves
<1>14. d.visits >= nd[n].visits
  BY <1>5
<1> QED
  BY <1>1, <1>5, <1>7, <1>8, <1>9, <1>13, <1>14, UpdatePlays

LEMMA ReadChildrenStep ==
  ASSUME IInv, NEW t \in Threads, ReadChildren(t)
  PROVE  IInv'
<1>1. PICK n \in Nodes : n = th[t].cur
  BY Here
<1>2. /\ nd \in [Nodes -> NodeRecs] /\ th[t] \in ThreadRecs /\ th \in [Threads -> ThreadRecs]
      /\ NodeOK(n)
  BY <1>1, Here
<1>3. PICK d \in NodeRecs : d = nd[n]
  BY <1>2
<1>4. EdgesOf(n) = d.edge /\ d.edge \in [Slots -> Nat]
  BY <1>2, <1>3 DEF EdgesOf, NodeOK, NodeRecs
<1>5. PICK e \in [Slots -> Nat], pc \in Playing : e = d.edge /\ pc = "store"
  BY <1>4 DEF Playing
<1>6. PICK r : r = [th[t] EXCEPT !.pc = pc, !.read = e]
  OBVIOUS
<1>7. th[t].pc = "recompute" /\ th' = [th EXCEPT ![t] = r] /\ nd' = nd
      /\ UNCHANGED searchVars
  BY <1>1, <1>4, <1>5, <1>6 DEF ReadChildren, Step
<1>8. nd' = [nd EXCEPT ![n] = d]
  BY <1>2, <1>3, <1>7
<1>9. /\ r \in ThreadRecs /\ r.cur = n /\ r.idx = th[t].idx /\ r.move = th[t].move
      /\ r.path = th[t].path /\ r.mine = th[t].mine /\ r.pc = "store"
      /\ r.read = d.edge /\ r.pending = th[t].pending
  BY <1>1, <1>2, <1>5, <1>6 DEF ThreadRecs
<1>10. r.pc \in Updating \cup {"leave"} /\ th[t].pc \in Updating \cup {"announce"}
       /\ th[t].pc \in Updating
  BY <1>7, <1>9 DEF Updating
<1>11. /\ th[t].pending # 0 /\ th[t].pending <= nd[n].dirty /\ th[t].pending \in Nat
       /\ nd[n].dirty \in Nat
  BY <1>1, <1>2, <1>10 DEF IInv, UpdateInv, ThreadRecs, NodeRecs
<1>12. ~Others(t, Updating, n)
  BY <1>1, <1>10 DEF IInv, UpdateInv, Others, In
<1>13. UpdateInv'
  <2>1. \A u \in Threads \ {t} : ~In(u, Updating, n)
    BY <1>12 DEF Others
  <2>2. d.dirty # 0
    BY <1>3, <1>11
  <2>3. r.pc \in Updating /\ r.pc # "settle"
    BY <1>9 DEF Updating
  <2> QED
    BY <1>1, <1>3, <1>7, <1>8, <1>9, <1>10, <1>11, <1>12, <2>1, <2>2, <2>3, UpdateMoves
<1>14. d.visits >= nd[n].visits
  <2>1. d.visits \in Nat
    BY DEF NodeRecs
  <2> QED
    BY <1>3, <2>1
<1> QED
  BY <1>1, <1>3, <1>7, <1>8, <1>9, <1>10, <1>13, <1>14, UpdatePlays

\* The thread that recomputes a node: alone, and with visits to add.
LEMMA UpdaterIs ==
  ASSUME IInv, NEW t \in Threads, th[t].pc \in Updating
  PROVE  LET n == th[t].cur
         IN  /\ ~Others(t, Updating, n) /\ \A u \in Threads \ {t} : ~In(u, Updating, n)
             /\ th[t].pending \in Nat /\ nd[n].dirty \in Nat
             /\ th[t].pending # 0 /\ th[t].pending <= nd[n].dirty /\ nd[n].dirty # 0
             /\ Missed(t) => th[t].pending < nd[n].dirty \/ Others(t, {"announce"}, n)
<1>1. PICK n \in Nodes : n = th[t].cur
  BY Here
<1>2. nd[n] \in NodeRecs /\ th[t] \in ThreadRecs
  BY <1>1, Here
<1>3. \A u \in Threads \ {t} : ~In(u, Updating, n)
  BY <1>1 DEF IInv, UpdateInv, In
<1>4. th[t].pending \in Nat /\ nd[n].dirty \in Nat
  BY <1>2 DEF NodeRecs, ThreadRecs
<1>5. /\ th[t].pending # 0 /\ th[t].pending <= nd[n].dirty
      /\ Missed(t) => th[t].pending < nd[n].dirty \/ Announced(n)
  BY <1>1 DEF IInv, UpdateInv
<1>6. Announced(n) => Others(t, {"announce"}, n)
  BY DEF Announced, Others, In, Updating
<1>7. nd[n].dirty # 0
  BY <1>4, <1>5
<1> QED
  BY <1>1, <1>3, <1>4, <1>5, <1>6, <1>7 DEF Others

LEMMA StoreStatsStep ==
  ASSUME IInv, NEW t \in Threads, StoreStats(t)
  PROVE  IInv'
<1>1. PICK n \in Nodes, q \in ThreadRecs, c \in NodeRecs :
        n = th[t].cur /\ q = th[t] /\ c = nd[n]
  BY Here
<1>2. th[t].pc = "store" /\ th[t].pc \in Updating /\ UNCHANGED searchVars
  BY DEF StoreStats, Step, Updating
<1>3. PICK v \in Nat : v = c.visits + q.pending /\ c.visits \in Nat
  BY DEF NodeRecs, ThreadRecs
<1>4. PICK e \in [Slots -> Nat] : e = q.read
  BY DEF ThreadRecs
<1>5. PICK d : d = [c EXCEPT !.seen = e, !.visits = v]
  OBVIOUS
<1>6. /\ d \in NodeRecs /\ d.visits = v /\ d.state = c.state /\ d.output = c.output
      /\ d.slot = c.slot /\ d.edge = c.edge /\ d.seen = e /\ d.dirty = c.dirty
  BY <1>5 DEF NodeRecs
<1>7. PICK pc \in Playing, z \in [Slots -> Nat] : pc = "settle" /\ z = NoEdges
  BY FreshNodeIs DEF Playing
<1>8. PICK r : r = [q EXCEPT !.pc = pc, !.read = z]
  OBVIOUS
<1>9. r \in ThreadRecs /\ r.cur = q.cur /\ r.idx = q.idx /\ r.move = q.move
      /\ r.path = q.path /\ r.mine = q.mine /\ r.pc = pc /\ r.pending = q.pending
  BY <1>8 DEF ThreadRecs
<1>10. th' = [th EXCEPT ![t] = r]
  BY <1>1, <1>7, <1>8 DEF StoreStats, Step
<1>11. nd' = [nd EXCEPT ![n] = d]
  <2>1. nd \in [Nodes -> NodeRecs]
    BY Here
  <2>2. nd' = [nd EXCEPT ![n].seen = e, ![n].visits = @ + q.pending]
    BY <1>1, <1>4 DEF StoreStats
  <2> QED
    BY <1>1, <1>3, <1>5, <2>1, <2>2 DEF NodeRecs
<1>12. r.pc \in Updating
  BY <1>7, <1>9 DEF Updating
<1>13. UpdateInv'
  <2>1. q.read # d.edge => r.pending < d.dirty \/ Others(t, {"announce"}, n)
    BY <1>1, <1>2, <1>6, <1>9, UpdaterIs DEF Missed
  <2>2. r.pc = "settle"
    BY <1>7, <1>9
  <2>3. /\ ~Others(t, Updating, n) /\ d.dirty # 0
        /\ r.pending # 0 /\ r.pending <= d.dirty
        /\ \A u \in Threads \ {t} : ~In(u, Updating, n)
    BY <1>1, <1>2, <1>6, <1>9, UpdaterIs
  <2> QED
    BY ZenonT(30), <1>1, <1>2, <1>4, <1>6, <1>9, <1>10, <1>11, <1>12, <2>1, <2>2, <2>3, UpdateMoves
<1>14. d.visits >= nd[n].visits
  <2>1. q.pending \in Nat
    BY DEF ThreadRecs
  <2> QED
    BY <1>1, <1>3, <1>6, <2>1
<1> QED
  BY <1>1, <1>2, <1>6, <1>9, <1>10, <1>11, <1>12, <1>13, <1>14, UpdatePlays

LEMMA SettleStep ==
  ASSUME IInv, NEW t \in Threads, Settle(t)
  PROVE  IInv'
<1>1. PICK n \in Nodes, q \in ThreadRecs, c \in NodeRecs :
        n = th[t].cur /\ q = th[t] /\ c = nd[n]
  BY Here
<1>2. th[t].pc = "settle" /\ th[t].pc \in Updating /\ UNCHANGED searchVars
  BY DEF Settle, Step, Updating
<1>3. q.pending \in Nat /\ c.dirty \in Nat /\ q.pending # 0 /\ q.pending <= c.dirty
  BY <1>1, <1>2, UpdaterIs
<1>4. PICK left \in Nat : left = c.dirty - q.pending
  BY <1>3
<1>5. PICK d : d = [c EXCEPT !.dirty = left]
  OBVIOUS
<1>6. /\ d \in NodeRecs /\ d.visits = c.visits /\ d.state = c.state /\ d.output = c.output
      /\ d.slot = c.slot /\ d.edge = c.edge /\ d.seen = c.seen /\ d.dirty = left
      /\ c.visits \in Nat
  BY <1>5 DEF NodeRecs
<1>7. nd' = [nd EXCEPT ![n] = d]
  BY <1>1, <1>4, <1>5 DEF Settle
<1>8. PICK a \in Playing, b \in Playing, z \in Nat : a = "leave" /\ b = "recompute" /\ z = 0
  BY DEF Playing
<1>9. PICK r : r = IF left = 0 THEN [q EXCEPT !.pc = a, !.pending = z]
                   ELSE [q EXCEPT !.pc = b, !.pending = left]
  OBVIOUS
<1>10. th' = [th EXCEPT ![t] = r]
  BY <1>1, <1>4, <1>8, <1>9 DEF Settle, Step
<1>11. /\ r \in ThreadRecs /\ r.cur = q.cur /\ r.idx = q.idx /\ r.move = q.move
       /\ r.path = q.path /\ r.mine = q.mine
       /\ left = 0 => r.pc = a
       /\ left # 0 => r.pc = b /\ r.pending = left
  <2>1. CASE left = 0
    <3>1. r = [q EXCEPT !.pc = a, !.pending = z]
      BY <1>9, <2>1
    <3> QED
      BY <2>1, <3>1 DEF ThreadRecs
  <2>2. CASE left # 0
    <3>1. r = [q EXCEPT !.pc = b, !.pending = left]
      BY <1>9, <2>2
    <3> QED
      BY <2>2, <3>1 DEF ThreadRecs
  <2> QED
    BY <2>1, <2>2
<1>12. r.pc \in Updating \cup {"leave"}
  BY <1>8, <1>11 DEF Updating
<1>13. UpdateInv'
  <2>1. ~Others(t, Updating, n) /\ \A u \in Threads \ {t} : ~In(u, Updating, n)
    BY <1>1, <1>2, UpdaterIs
  <2>2. d.dirty # 0 => r.pc \in Updating
    BY <1>6, <1>8, <1>11 DEF Updating
  <2>3. r.pc \in Updating => r.pending # 0 /\ r.pending <= d.dirty
    BY <1>6, <1>8, <1>11 DEF Updating
  <2>4. r.pc # "store" /\ r.pc # "settle"
    BY <1>8, <1>11
  <2>5. d.dirty = 0 => d.seen = d.edge \/ Others(t, {"announce"}, n)
    <3>1. ASSUME left = 0, c.seen # c.edge
          PROVE  Others(t, {"announce"}, n)
      <4>1. ~(q.pending < c.dirty)
        BY <1>3, <1>4, <3>1
      <4>2. Missed(t)
        BY <1>1, <1>2, <3>1 DEF Missed
      <4> QED
        BY <1>1, <1>2, <4>1, <4>2, UpdaterIs
    <3> QED
      BY <1>6, <3>1
  <2> QED
    BY <1>1, <1>2, <1>6, <1>7, <1>10, <1>11, <1>12, <2>1, <2>2, <2>3, <2>4, <2>5, UpdateMoves
<1>14. d.visits >= nd[n].visits
  BY <1>1, <1>6
<1> QED
  BY <1>1, <1>2, <1>6, <1>7, <1>10, <1>11, <1>12, <1>13, <1>14, UpdatePlays

(***************************************************************************)
(* The loop of a search thread.                                            *)
(***************************************************************************)
\* A thread outside a playout, or on its way in or out.
LEMMA LoopMoves ==
  ASSUME IInv, NEW t \in Threads, NEW r \in ThreadRecs, th' = [th EXCEPT ![t] = r],
         UNCHANGED <<nd, rootPos, allowed, searches>>,
         playouts' \in Nat, shouldStopNow' \in BOOLEAN,
         th[t].pc \in {"begin", "loop", "return"}, r.pc \in {"loop", "visit", "done"},
         Linked(r), Placed(r), CountInv'
  PROVE  IInv'
<1>1. PICK d : d = nd[Root]
  OBVIOUS
<1>2. Root \in Nodes /\ nd \in [Nodes -> NodeRecs] /\ th \in [Threads -> ThreadRecs]
  BY Here DEF Nodes
<1>3. d \in NodeRecs /\ nd' = [nd EXCEPT ![Root] = d] /\ d.visits >= nd[Root].visits
  <2>1. d.visits \in Int
    BY <1>1, <1>2 DEF NodeRecs
  <2> QED
    BY <1>1, <1>2, <2>1
<1>4. SameEdges(Root, d) /\ Tame(Root, d)
  BY <1>1 DEF SameEdges, Tame
<1>5. LeafInv'
  <2>1. r.pc \notin Leafing
    BY DEF Leafing
  <2> QED
    BY <1>2, <1>3, <1>4, <2>1, LeafQuiet
<1>6. UpdateInv'
  <2>1. th[t].pc \notin Updating \cup {"announce"} /\ r.pc \notin Updating \cup {"announce"}
    BY DEF Updating
  <2> QED
    BY <1>2, <1>3, <1>4, <2>1, UpdateKept
<1>7. Grows
  BY DEF Grows
<1>8. ThreadsInv'
  <2>1. Linked(r)' /\ Placed(r)'
    BY <1>7, StillThere
  <2> QED
    BY <1>7, <2>1, OthersStay
<1>9. NodesInv'
  BY DEF IInv, NodesInv, NodeOK, Evaluated, At, ChildOf
<1>10. TypeOK'
  <2>1. th' \in [Threads -> ThreadRecs]
    BY <1>2
  <2> QED
    BY <2>1, TypeOKIs DEF IInv, TypeOK, NodeRecs, ThreadRecs, Frames, Playing
<1> QED
  BY <1>5, <1>6, <1>8, <1>9, <1>10 DEF IInv

LEMMA LimitIs ==
  ASSUME IInv
  PROVE  /\ Limit \in Nat /\ playouts \in Nat /\ Knowing \subseteq Threads
         /\ IsFiniteSet(Knowing) /\ Cardinality(Knowing) \in Nat
         /\ \A t \in Threads : th[t].pc # "done" => searches # 0
<1>1. Limit \in Nat /\ playouts \in Nat
  BY TypeOKIs, LimitsAssumption DEF IInv, Limit
<1>2. Knowing \subseteq Threads
  BY DEF Knowing
<1>3. IsFiniteSet(Knowing)
  BY <1>2, ThreadsAssumption, FS_Subset
<1>4. Cardinality(Knowing) \in Nat
  BY <1>3, FS_CardinalityType
<1> QED
  BY <1>1, <1>2, <1>3, <1>4 DEF IInv, CountInv, AtRest

\* No playout is counted, and no thread forgets that the limit is reached.
LEMMA CountSame ==
  ASSUME IInv, NEW t \in Threads, NEW r \in ThreadRecs, th' = [th EXCEPT ![t] = r],
         playouts' = playouts, searches' = searches, th[t].pc # "done",
         r.pc \in Playing => r.mine < Limit,
         t \in Knowing /\ playouts >= Limit => r.pc = "done" \/ r.mine >= Limit
  PROVE  CountInv'
<1>1. th \in [Threads -> ThreadRecs]
  BY TypeOKIs DEF IInv
<1>2. th'[t] = r /\ \A u \in Threads \ {t} : th'[u] = th[u]
  BY <1>1
<1>3. Limit' = Limit
  BY DEF Limit
<1>4. searches # 0
  BY LimitIs
<1>5. \A u \in Threads : th'[u].pc \in Playing => th'[u].mine < Limit
  BY <1>2 DEF IInv, CountInv
<1>6. ASSUME playouts >= Limit
      PROVE  Knowing \subseteq Knowing'
  BY <1>2, <1>3, <1>6 DEF Knowing
<1>7. IsFiniteSet(Knowing')
  <2>1. Knowing' \subseteq Threads
    BY DEF Knowing
  <2> QED
    BY <2>1, ThreadsAssumption, FS_Subset
<1>8. CASE playouts < Limit
  BY <1>3, <1>4, <1>5, <1>8 DEF CountInv
<1>9. CASE ~(playouts < Limit)
  <2>1. playouts >= Limit
    BY <1>9, LimitIs
  <2>2. Cardinality(Knowing) <= Cardinality(Knowing') /\ Cardinality(Knowing') \in Nat
    BY <1>6, <1>7, <2>1, FS_Subset, FS_CardinalityType
  <2>3. (playouts = 0 /\ Limit = 0) \/ playouts <= Limit - 1 + Cardinality(Knowing)
    BY <1>9 DEF IInv, CountInv
  <2>4. (playouts = 0 /\ Limit = 0) \/ playouts <= Limit - 1 + Cardinality(Knowing')
    BY <2>2, <2>3, LimitIs
  <2> QED
    BY <1>3, <1>4, <1>5, <2>4 DEF CountInv
<1> QED
  BY <1>8, <1>9

LEMMA EnterLoopStep ==
  ASSUME IInv, NEW t \in Threads, EnterLoop(t)
  PROVE  IInv'
<1>1. PICK q \in ThreadRecs : q = th[t]
  BY Here
<1>2. PICK r : r = [q EXCEPT !.pc = "loop", !.mine = playouts]
  OBVIOUS
<1>3. th[t].pc = "begin" /\ th' = [th EXCEPT ![t] = r] /\ UNCHANGED <<nd, searchVars>>
  BY <1>1, <1>2 DEF EnterLoop, Step
<1>4. r \in ThreadRecs /\ r.pc = "loop" /\ r.mine = playouts /\ r.path = q.path /\ r.cur = q.cur
  BY <1>2, LimitIs DEF ThreadRecs
<1>5. Placed(r) /\ Linked(r)
  BY <1>1, <1>4, SamePath DEF Placed, InNode, ForSlot, AtChild
<1>6. CountInv'
  <2>1. r.pc \notin Playing
    BY <1>4 DEF Playing
  <2> QED
    BY <1>3, <1>4, <2>1, CountSame DEF searchVars
<1>7. playouts' \in Nat /\ shouldStopNow' \in BOOLEAN
  BY <1>3, TypeOKIs DEF IInv, searchVars
<1> QED
  BY <1>3, <1>4, <1>5, <1>6, <1>7, LoopMoves DEF searchVars

LEMMA StartPlayoutStep ==
  ASSUME IInv, NEW t \in Threads, StartPlayout(t)
  PROVE  IInv'
<1>1. PICK q \in ThreadRecs : q = th[t]
  BY Here
<1>2. PICK pc \in Playing : pc = "visit"
  BY DEF Playing
<1>3. PICK r : r = [q EXCEPT !.pc = pc]
  OBVIOUS
<1>4. th[t].pc = "loop" /\ th' = [th EXCEPT ![t] = r] /\ UNCHANGED <<nd, searchVars>>
      /\ q.mine < Limit
  BY <1>1, <1>2, <1>3 DEF StartPlayout, Step
<1>5. r \in ThreadRecs /\ r.pc = "visit" /\ r.mine = q.mine /\ r.path = q.path /\ r.cur = q.cur
  BY <1>2, <1>3 DEF ThreadRecs
<1>6. Placed(r) /\ Linked(r)
  BY <1>1, <1>5, SamePath DEF Placed, InNode, ForSlot, AtChild
<1>7. CountInv'
  <2>1. t \in Knowing => r.mine >= Limit
    BY <1>1, <1>4, <1>5 DEF Knowing
  <2> QED
    BY <1>4, <1>5, <2>1, CountSame DEF searchVars
<1>8. playouts' \in Nat /\ shouldStopNow' \in BOOLEAN
  BY <1>4, TypeOKIs DEF IInv, searchVars
<1> QED
  BY <1>4, <1>5, <1>6, <1>7, <1>8, LoopMoves DEF searchVars

LEMMA StopSearchingStep ==
  ASSUME IInv, NEW t \in Threads, StopSearching(t)
  PROVE  IInv'
<1>1. PICK r \in ThreadRecs : r = FreshThread
  BY FreshThreadIs
<1>2. r.pc = "done" /\ r.path = <<>> /\ r.mine = 0
  BY <1>1, FreshThreadIs
<1>3. /\ th[t].pc = "loop" /\ th' = [th EXCEPT ![t] = r] /\ shouldStopNow' = TRUE
      /\ UNCHANGED <<nd, rootPos, allowed, playouts, searches>>
  BY <1>1 DEF StopSearching, Step
<1>4. Placed(r) /\ Linked(r)
  BY <1>2 DEF Placed, Linked, InNode, ForSlot, AtChild
<1>5. CountInv'
  <2>1. r.pc \notin Playing
    BY <1>2 DEF Playing
  <2> QED
    BY <1>2, <1>3, <2>1, CountSame
<1>6. playouts' \in Nat
  BY <1>3, LimitIs
<1> QED
  BY <1>2, <1>3, <1>4, <1>5, <1>6, LoopMoves

LEMMA FinishPlayoutStep ==
  ASSUME IInv, NEW t \in Threads, FinishPlayout(t)
  PROVE  IInv'
<1>1. PICK q \in ThreadRecs : q = th[t]
  BY Here
<1>2. PICK fresh \in ThreadRecs : fresh = FreshThread /\ fresh.path = <<>>
  BY FreshThreadIs
<1>3. PICK mine \in Nat : mine = IF q.counted THEN playouts + 1 ELSE q.mine
  BY LimitIs DEF ThreadRecs
<1>4. PICK r : r = [fresh EXCEPT !.pc = "loop", !.mine = mine]
  OBVIOUS
<1>5. /\ th[t].pc = "return" /\ th' = [th EXCEPT ![t] = r]
      /\ playouts' = IF q.counted THEN playouts + 1 ELSE playouts
      /\ UNCHANGED <<nd, rootPos, allowed, shouldStopNow, searches>>
  BY <1>1, <1>2, <1>3, <1>4 DEF FinishPlayout, Step
<1>6. r \in ThreadRecs /\ r.pc = "loop" /\ r.mine = mine /\ r.path = <<>>
  BY <1>2, <1>4 DEF ThreadRecs
<1>7. Placed(r) /\ Linked(r)
  BY <1>6 DEF Placed, Linked, InNode, ForSlot, AtChild
<1>8. q.mine < Limit /\ t \notin Knowing /\ r.pc \notin Playing /\ q.mine \in Nat
  <2>1. th[t].pc \in Playing
    BY <1>5 DEF Playing
  <2>2. q.mine < Limit /\ q.mine \in Nat
    BY <1>1, <2>1 DEF IInv, CountInv, ThreadRecs
  <2> QED
    BY <1>1, <1>5, <1>6, <2>2, LimitIs DEF Knowing, Playing
<1>9. CountInv'
  <2>1. CASE ~q.counted
    <3>1. playouts' = playouts /\ searches' = searches /\ th[t].pc # "done"
      BY <1>5, <2>1
    <3>2. th' = [th EXCEPT ![t] = r]
      BY <1>5
    <3> QED
      BY <1>6, <1>8, <3>1, <3>2, CountSame
  <2>2. CASE q.counted
    <3>1. playouts' = playouts + 1 /\ mine = playouts + 1 /\ Limit' = Limit
      BY <1>3, <1>5, <2>2 DEF Limit
    <3>2. th \in [Threads -> ThreadRecs]
      BY Here
    <3>3. th'[t] = r /\ \A u \in Threads \ {t} : th'[u] = th[u]
      BY <1>5, <3>2
    <3>4. searches' # 0
      BY <1>5, LimitIs
    <3>5. \A u \in Threads : th'[u].pc \in Playing => th'[u].mine < Limit
      BY <1>8, <3>3 DEF IInv, CountInv
    <3>6. CASE playouts + 1 < Limit
      BY <3>1, <3>4, <3>5, <3>6 DEF CountInv
    <3>7. CASE ~(playouts + 1 < Limit)
      <4>1. mine >= Limit
        BY <3>1, <3>7, LimitIs
      <4>2. Knowing' = Knowing \cup {t}
        BY <1>6, <3>1, <3>3, <4>1 DEF Knowing
      <4>3. Cardinality(Knowing') = Cardinality(Knowing) + 1
        BY <1>8, <4>2, LimitIs, FS_AddElement
      <4>4. Limit # 0
        BY <1>8, LimitIs
      <4>5. playouts < Limit \/ playouts <= Limit - 1 + Cardinality(Knowing)
        BY <4>4 DEF IInv, CountInv
      <4>6. playouts + 1 <= Limit - 1 + Cardinality(Knowing')
        BY <4>3, <4>5, LimitIs
      <4> QED
        BY <3>1, <3>4, <3>5, <4>6 DEF CountInv
    <3> QED
      BY <3>6, <3>7
  <2> QED
    BY <2>1, <2>2
<1>10. playouts' \in Nat /\ shouldStopNow' \in BOOLEAN
  BY <1>5, LimitIs, TypeOKIs DEF IInv
<1> QED
  BY <1>5, <1>6, <1>7, <1>9, <1>10, LoopMoves

(***************************************************************************)
(* Between searches.                                                       *)
(***************************************************************************)
\* With no thread running, nothing waits to be recomputed.
LEMMA RestIs ==
  ASSUME IInv, AtRest, NEW n \in Nodes
  PROVE  nd[n] \in NodeRecs /\ NodeOK(n) /\ nd[n].dirty = 0 /\ nd[n].seen = nd[n].edge
<1>1. \A t \in Threads : th[t].pc \notin Updating \cup {"announce"}
  BY DEF AtRest, Updating
<1>2. nd[n].dirty = 0
  BY <1>1 DEF IInv, UpdateInv, In
<1>3. ~Announced(n)
  BY <1>1 DEF Announced, In
<1>4. nd[n] \in NodeRecs
  BY TypeOKIs DEF IInv
<1> QED
  BY <1>2, <1>3, <1>4 DEF IInv, UpdateInv, NodesInv

LEMMA RestMoves ==
  ASSUME nd' \in [Nodes -> NodeRecs], th' \in [Threads -> ThreadRecs],
         rootPos' \in Positions, allowed' \subseteq Moves, playouts' \in Nat,
         shouldStopNow' \in BOOLEAN, searches' \in 0..Len(Limits),
         \A t \in Threads : th'[t].pc \in {"begin", "done"} /\ th'[t].path = <<>>,
         \A n \in Nodes : nd'[n].dirty = 0 /\ nd'[n].seen = nd'[n].edge,
         NodesInv', CountInv'
  PROVE  IInv'
<1>1. \A t \in Threads : th'[t].pc \notin Leafing \cup Updating \cup InNode \cup {"return"}
  BY DEF Leafing, Updating, InNode, ForSlot, AtChild
<1>2. ThreadsInv'
  BY <1>1 DEF ThreadsInv, Linked, Placed, InNode, ForSlot
<1>3. LeafInv'
  BY <1>1 DEF LeafInv, Leafing
<1>4. UpdateInv'
  BY <1>1 DEF UpdateInv
<1>5. TypeOK'
  BY TypeOKIs DEF TypeOK, NodeRecs, ThreadRecs, Frames, Playing
<1> QED
  BY <1>2, <1>3, <1>4, <1>5 DEF IInv

\* The mark of mark and sweep follows the children of the nodes it reaches.
LEMMA ReachedIs ==
  ASSUME NEW nodes, NEW pos
  PROVE  /\ Reached(nodes, pos) \subseteq Positions
         /\ \A p \in Positions : p \in Steps(nodes, Root, pos) => p \in Reached(nodes, pos)
         /\ \A q \in Reached(nodes, pos), p \in Positions :
              p \in Steps(nodes, q, q) => p \in Reached(nodes, pos)
BY DEF Reached

\* Nodes that keep what they have, or are new, lead to nodes that do.
LEMMA SweptIs ==
  ASSUME NEW nodes \in [Nodes -> NodeRecs], NEW pos \in Positions,
         \A n \in Nodes : Evaluated(nodes[n]),
         \A n \in Nodes, i \in Slots :
           LET p == IF n = Root THEN pos ELSE n
               m == nodes[n].slot[i]
           IN  /\ m # None => m \in DOMAIN Leads[p]
               /\ nodes[n].edge[i] > 0 => m # None /\ nodes[Leads[p][m]].visits > 0,
         nd' = Swept(nodes, pos), rootPos' = pos
  PROVE  /\ nd' \in [Nodes -> NodeRecs] /\ NodesInv'
         /\ \A n \in Nodes : nd'[n] \in {nodes[n], FreshNode}
<1>1. \A n \in Nodes : nd'[n] = IF n = Root \/ n \in Reached(nodes, pos) THEN nodes[n]
                                ELSE FreshNode
  BY DEF Swept
<1>2. nd' \in [Nodes -> NodeRecs]
  BY FreshNodeIs DEF Swept
<1>3. ASSUME NEW n \in Nodes PROVE NodeOK(n)'
  <2> DEFINE p == IF n = Root THEN pos ELSE n
  <2>1. At(n)' = p /\ p \in Positions
    BY SMTT(30) DEF At, Nodes
  <2>2. CASE nd'[n] = nodes[n] /\ (n = Root \/ n \in Reached(nodes, pos))
    <3>1. Evaluated(nd'[n])
      BY SMTT(30), <2>2
    <3>2. ASSUME NEW i \in Slots
          PROVE  /\ nd'[n].slot[i] # None => nd'[n].slot[i] \in DOMAIN Leads[p]
                 /\ nd'[n].edge[i] > 0 => /\ nd'[n].slot[i] # None
                                          /\ nd'[Leads[p][nd'[n].slot[i]]].visits > 0
      <4>1. PICK m : m = nodes[n].slot[i]
        OBVIOUS
      <4>2. /\ m # None => m \in DOMAIN Leads[p]
            /\ nodes[n].edge[i] > 0 => m # None /\ nodes[Leads[p][m]].visits > 0
        BY <4>1
      <4>3. ASSUME m # None
            PROVE  nd'[Leads[p][m]] = nodes[Leads[p][m]]
        <5>1. PICK c : c = Leads[p][m]
          OBVIOUS
        <5>2. c \in Positions /\ c \in Nodes
          BY <2>1, <4>2, <4>3, <5>1, LeadsAssumption DEF Nodes
        <5>3. c \in Steps(nodes, n, p)
          BY <4>1, <4>3, <5>1 DEF Steps
        <5>4. c \in Reached(nodes, pos)
          <6>1. CASE n = Root
            BY <5>2, <5>3, <6>1, ReachedIs
          <6>2. CASE n # Root
            BY <2>2, <5>2, <5>3, <6>2, ReachedIs
          <6> QED
            BY <6>1, <6>2
        <5> QED
          BY <1>1, <5>1, <5>2, <5>4
      <4> QED
        BY <2>2, <4>1, <4>2, <4>3
    <3> QED
      BY <2>1, <3>1, <3>2 DEF NodeOK, ChildOf, Evaluated
  <2>3. CASE nd'[n] = FreshNode
    <3>1. \A i \in Slots : nd'[n].slot[i] = None /\ ~(nd'[n].edge[i] > 0)
      BY <2>3, FreshNodeIs DEF NoEdges
    <3>2. nd'[n].state = Unevaluated
      BY <2>3, FreshNodeIs
    <3> QED
      BY <3>1, <3>2 DEF NodeOK, Evaluated
  <2> QED
    BY <1>1, <2>2, <2>3
<1> QED
  BY <1>1, <1>2, <1>3 DEF NodesInv

\* Every node is new.
LEMMA ClearedIs ==
  ASSUME nd' = [n \in Nodes |-> FreshNode]
  PROVE  /\ nd' \in [Nodes -> NodeRecs] /\ NodesInv'
         /\ \A n \in Nodes : nd'[n].dirty = 0 /\ nd'[n].seen = nd'[n].edge
<1>1. ASSUME NEW n \in Nodes PROVE NodeOK(n)'
  <2>1. nd'[n] = FreshNode
    OBVIOUS
  <2>2. \A i \in Slots : nd'[n].slot[i] = None /\ ~(nd'[n].edge[i] > 0)
    BY <2>1, FreshNodeIs DEF NoEdges
  <2> QED
    BY <2>1, <2>2, FreshNodeIs DEF NodeOK, Evaluated
<1> QED
  BY <1>1, FreshNodeIs DEF NodesInv

LEMMA SumIs ==
  ASSUME NEW f \in [Slots -> Nat]
  PROVE  Sum(f) \in Nat /\ IsFiniteSet(UNION {{i} \X (1..f[i]) : i \in Slots})
<1> DEFINE T == {{i} \X (1..f[i]) : i \in Slots}
           g == [i \in Slots |-> {i} \X (1..f[i])]
<1>1. g \in Surjection(Slots, T)
  BY DEF Surjection
<1>2. IsFiniteSet(T)
  BY <1>1, LevelsFacts, FS_Surjection
<1>3. ASSUME NEW i \in Slots
      PROVE  IsFiniteSet({i} \X (1..f[i]))
  <2>1. IsFiniteSet(1..f[i])
    <3>1. 1 \in Int /\ f[i] \in Int
      OBVIOUS
    <3> QED
      BY <3>1, FS_Interval
  <2>2. IsFiniteSet({i})
    BY FS_Singleton
  <2> QED
    BY <2>1, <2>2, FS_Product
<1>4. \A s \in T : IsFiniteSet(s)
  BY <1>3
<1>5. IsFiniteSet(UNION T)
  <2> HIDE DEF T
  <2> QED
    BY <1>2, <1>4, FS_UNION
<1> QED
  BY <1>5, FS_CardinalityType DEF Sum

\* Moving the root's children down: each slot gets what one kept slot had.
LEMMA MovedIs ==
  ASSUME NEW S, NEW i \in Slots
  PROVE  \/ \A slots, nothing : Moved(S, slots, nothing)[i] = nothing
         \/ \E j \in Kept(S) : \A slots, nothing : Moved(S, slots, nothing)[i] = slots[j]
<1> DEFINE from == {j \in Kept(S) : Cardinality({k \in Kept(S) : k <= j}) = i}
<1>1. CASE from = {}
  BY <1>1 DEF Moved
<1>2. CASE from # {}
  <2>1. PICK j : j = CHOOSE k \in from : TRUE
    OBVIOUS
  <2>2. j \in Kept(S)
    BY <1>2, <2>1
  <2>3. \A slots, nothing : Moved(S, slots, nothing)[i] = slots[j]
    BY <1>2, <2>1 DEF Moved
  <2> QED
    BY <2>2, <2>3
<1> QED
  BY <1>1, <1>2

LEMMA FilteredIs ==
  ASSUME IInv, NEW S \in SUBSET Moves
  PROVE  LET d == FilteredRoot(S)
         IN  /\ d \in NodeRecs /\ Evaluated(d) /\ d.seen = d.edge /\ d.dirty = nd[Root].dirty
             /\ \A i \in Slots :
                  /\ d.slot[i] # None => d.slot[i] \in DOMAIN Leads[rootPos]
                  /\ d.edge[i] > 0 => /\ d.slot[i] # None
                                      /\ nd[Leads[rootPos][d.slot[i]]].visits > 0
<1>1. PICK c \in NodeRecs : c = nd[Root] /\ NodeOK(Root)
  BY TypeOKIs DEF IInv, NodesInv, Nodes
<1>2. At(Root) = rootPos
  BY DEF At
<1>3. PICK slot, edge : slot = Moved(S, c.slot, None) /\ edge = Moved(S, c.edge, 0)
  OBVIOUS
<1>4. ASSUME NEW i \in Slots
      PROVE  \/ slot[i] = None /\ edge[i] = 0
             \/ \E j \in Slots : slot[i] = c.slot[j] /\ edge[i] = c.edge[j] /\ slot[i] \in S
  <2>1. CASE \A slots, nothing : Moved(S, slots, nothing)[i] = nothing
    BY <1>3, <2>1
  <2>2. ASSUME NEW j \in Kept(S),
               \A slots, nothing : Moved(S, slots, nothing)[i] = slots[j]
        PROVE  /\ j \in Slots /\ slot[i] = c.slot[j] /\ edge[i] = c.edge[j] /\ slot[i] \in S
    BY <1>1, <1>3, <2>2 DEF Kept
  <2> QED
    BY <2>1, <2>2, MovedIs
<1>5. slot \in [Slots -> Moves \cup {None}] /\ edge \in [Slots -> Nat]
  <2>1. slot = [i \in Slots |-> slot[i]] /\ edge = [i \in Slots |-> edge[i]]
    BY <1>3 DEF Moved
  <2>2. \A i \in Slots : slot[i] \in Moves \cup {None} /\ edge[i] \in Nat
    BY <1>4 DEF NodeRecs
  <2> QED
    BY <2>1, <2>2
<1>6. PICK state \in 0..6, arrays \in Nat :
        /\ state = Collapsed(c.state, Cardinality(Kept(S))) /\ arrays = state \div 2
        /\ state # Unevaluated => c.state # Unevaluated
  <2>1. c.state \in 0..6
    BY DEF NodeRecs
  <2>2. \A a \in 0..6 : \A k : /\ Collapsed(a, k) \in {2, 4, a}
                               /\ Collapsed(a, k) = a \/ a > 2
    BY DEF Collapsed
  <2>3. PICK s \in 0..6 :
          s = Collapsed(c.state, Cardinality(Kept(S))) /\ (s = c.state \/ c.state > 2)
    <3>1. PICK a \in 0..6 : a = c.state
      BY <2>1
    <3>2. PICK s : s = Collapsed(a, Cardinality(Kept(S)))
      OBVIOUS
    <3>3. s \in {2, 4, a}
      BY <2>2, <3>2
    <3>4. s = a \/ a > 2
      BY <2>2, <3>2
    <3>5. s \in 0..6
      BY <3>3
    <3> QED
      BY <3>1, <3>2, <3>4, <3>5
  <2>4. s \div 2 \in Nat
    OBVIOUS
  <2> QED
    BY <2>1, <2>3, <2>4 DEF Unevaluated
<1>7. PICK v \in Nat : v = 1 + Sum(edge) /\ v > 0
  <2>1. Sum(edge) \in Nat
    BY <1>5, SumIs
  <2> QED
    BY <2>1
<1>8. PICK one \in Nat : one = 1
  OBVIOUS
<1>9. PICK d : d = [c EXCEPT !.slot = slot, !.edge = edge, !.seen = edge, !.state = state,
                             !.arrays = arrays, !.visits = v, !.leaf = one]
  OBVIOUS
<1>10. d = FilteredRoot(S)
  BY <1>1, <1>3, <1>6, <1>7, <1>8, <1>9 DEF FilteredRoot
<1>11. /\ d \in NodeRecs /\ d.slot = slot /\ d.edge = edge /\ d.seen = edge
       /\ d.state = state /\ d.visits = v /\ d.output = c.output /\ d.dirty = c.dirty
  BY <1>5, <1>9 DEF NodeRecs
<1>12. Evaluated(d)
  BY <1>1, <1>6, <1>7, <1>11 DEF Evaluated, NodeOK
<1>13. ASSUME NEW i \in Slots
       PROVE  /\ slot[i] # None => slot[i] \in DOMAIN Leads[rootPos]
              /\ edge[i] > 0 => slot[i] # None /\ nd[Leads[rootPos][slot[i]]].visits > 0
  <2>1. CASE slot[i] = None /\ edge[i] = 0
    BY <2>1
  <2>2. ASSUME NEW j \in Slots, slot[i] = c.slot[j], edge[i] = c.edge[j]
        PROVE  /\ slot[i] # None => slot[i] \in DOMAIN Leads[rootPos]
               /\ edge[i] > 0 => slot[i] # None /\ nd[Leads[rootPos][slot[i]]].visits > 0
    BY <1>1, <1>2, <2>2 DEF NodeOK, ChildOf
  <2> QED
    BY <1>4, <2>1, <2>2
<1> QED
  BY <1>1, <1>10, <1>11, <1>12, <1>13

LEMMA MakeMoveStep ==
  ASSUME IInv, NEW m \in Moves, NEW clear \in BOOLEAN, MakeMove(m, clear)
  PROVE  IInv'
<1> DEFINE child == Leads[rootPos][m]
           kept == ~clear /\ (\E i \in Slots : nd[Root].slot[i] = m) /\ nd[child].output
           nodes == [nd EXCEPT ![Root] = nd[child]]
<1>1. /\ AtRest /\ m \in DOMAIN Leads[rootPos] /\ rootPos' = child
      /\ nd' = IF kept THEN Swept(nodes, child) ELSE [n \in Nodes |-> FreshNode]
      /\ UNCHANGED <<th, allowed, playouts, shouldStopNow, searches>>
  BY DEF MakeMove
<1>2. /\ nd \in [Nodes -> NodeRecs] /\ th \in [Threads -> ThreadRecs] /\ rootPos \in Positions
      /\ allowed \subseteq Moves /\ playouts \in Nat /\ shouldStopNow \in BOOLEAN
      /\ searches \in 0..Len(Limits)
  BY TypeOKIs DEF IInv
<1>3. child \in Positions /\ child \in Nodes
  BY <1>1, <1>2, LeadsAssumption DEF Nodes
<1> HIDE DEF child
<1>4. /\ nd' \in [Nodes -> NodeRecs] /\ NodesInv'
      /\ \A n \in Nodes : nd'[n].dirty = 0 /\ nd'[n].seen = nd'[n].edge
  <2>1. CASE kept
    <3>1. nd' = Swept(nodes, child)
      BY <1>1, <2>1
    <3>2. nodes \in [Nodes -> NodeRecs]
      BY <1>2, <1>3
    <3>3. \A n \in Nodes : nodes[n] = IF n = Root THEN nd[child] ELSE nd[n]
      BY <1>2
    <3>4. ASSUME NEW n \in Nodes
          PROVE  /\ Evaluated(nodes[n]) /\ nodes[n].dirty = 0 /\ nodes[n].seen = nodes[n].edge
                 /\ \A i \in Slots :
                      LET p == IF n = Root THEN child ELSE n
                          k == nodes[n].slot[i]
                      IN  /\ k # None => k \in DOMAIN Leads[p]
                          /\ nodes[n].edge[i] > 0 =>
                               k # None /\ nodes[Leads[p][k]].visits > 0
      <4>1. PICK p \in Positions : p = IF n = Root THEN child ELSE n
        BY <1>3 DEF Nodes
      <4>2. nodes[n] = nd[p] /\ p \in Nodes /\ p # Root /\ At(p) = p
        BY <3>3, <4>1, NamesAssumption DEF Nodes, At
      <4>3. NodeOK(p) /\ nd[p].dirty = 0 /\ nd[p].seen = nd[p].edge
        BY <1>1, <4>2, RestIs
      <4>4. \A k \in DOMAIN Leads[p] : nodes[Leads[p][k]] = nd[Leads[p][k]]
        BY <3>3, LeadsAssumption, NamesAssumption DEF Nodes
      <4> HIDE DEF nodes
      <4> QED
        BY <4>1, <4>2, <4>3, <4>4, SMTT(30) DEF NodeOK, ChildOf
    <3> HIDE DEF nodes
    <3>5. nd' \in [Nodes -> NodeRecs] /\ NodesInv'
          /\ \A n \in Nodes : nd'[n] \in {nodes[n], FreshNode}
      BY <1>1, <1>3, <3>1, <3>2, <3>4, SweptIs
    <3> QED
      BY <3>4, <3>5, FreshNodeIs
  <2>2. CASE ~kept
    BY <1>1, <2>2, ClearedIs
  <2> QED
    BY <2>1, <2>2
<1>5. \A t \in Threads : th'[t].pc \in {"begin", "done"} /\ th'[t].path = <<>>
  BY <1>1 DEF AtRest, IInv, ThreadsInv, Placed
<1>6. CountInv'
  BY <1>1 DEF IInv, CountInv, AtRest, Limit, Knowing
<1> QED
  BY <1>1, <1>2, <1>3, <1>4, <1>5, <1>6, RestMoves

LEMMA ClearSearchStep ==
  ASSUME IInv, ClearSearch
  PROVE  IInv'
<1>1. /\ AtRest /\ nd' = [n \in Nodes |-> FreshNode] /\ th' = th /\ rootPos' = rootPos
      /\ UNCHANGED <<allowed, playouts, shouldStopNow, searches>>
  BY DEF ClearSearch, searchVars
<1>2. /\ th \in [Threads -> ThreadRecs] /\ rootPos \in Positions
      /\ allowed \subseteq Moves /\ playouts \in Nat /\ shouldStopNow \in BOOLEAN
      /\ searches \in 0..Len(Limits)
  BY TypeOKIs DEF IInv
<1>3. /\ nd' \in [Nodes -> NodeRecs] /\ NodesInv'
      /\ \A n \in Nodes : nd'[n].dirty = 0 /\ nd'[n].seen = nd'[n].edge
  BY <1>1, ClearedIs
<1>4. \A t \in Threads : th'[t].pc \in {"begin", "done"} /\ th'[t].path = <<>>
  BY <1>1 DEF AtRest, IInv, ThreadsInv, Placed
<1>5. CountInv'
  BY <1>1 DEF IInv, CountInv, AtRest, Limit, Knowing
<1> QED
  BY <1>1, <1>2, <1>3, <1>4, <1>5, RestMoves

LEMMA BeginSearchStep ==
  ASSUME IInv, NEW S \in SUBSET Moves, BeginSearch(S)
  PROVE  IInv'
<1> DEFINE nodes == [nd EXCEPT ![Root] = FilteredRoot(S)]
           begun == [FreshThread EXCEPT !.pc = "begin"]
<1>1. /\ AtRest /\ searches < Len(Limits) /\ searches' = searches + 1 /\ allowed' = S
      /\ nd' \in {Swept(nodes, rootPos), nd}
      /\ playouts' = 0 /\ shouldStopNow' = FALSE /\ th' = [t \in Threads |-> begun]
      /\ rootPos' = rootPos
  BY DEF BeginSearch
<1>2. /\ nd \in [Nodes -> NodeRecs] /\ rootPos \in Positions /\ searches \in 0..Len(Limits)
  BY TypeOKIs DEF IInv
<1>3. begun \in ThreadRecs /\ begun.pc = "begin" /\ begun.path = <<>>
  BY FreshThreadIs DEF ThreadRecs
<1> HIDE DEF begun
<1>4. /\ nd' \in [Nodes -> NodeRecs] /\ NodesInv'
      /\ \A n \in Nodes : nd'[n].dirty = 0 /\ nd'[n].seen = nd'[n].edge
  <2>1. CASE nd' = nd
    <3>1. NodesInv'
      BY <1>1, <2>1 DEF IInv, NodesInv, NodeOK, Evaluated, At, ChildOf
    <3> QED
      BY <1>1, <1>2, <2>1, <3>1, RestIs
  <2>2. CASE nd' = Swept(nodes, rootPos)
    <3>1. PICK d \in NodeRecs : d = FilteredRoot(S)
      BY FilteredIs
    <3>2. /\ Evaluated(d) /\ d.seen = d.edge /\ d.dirty = nd[Root].dirty
          /\ \A i \in Slots :
               /\ d.slot[i] # None => d.slot[i] \in DOMAIN Leads[rootPos]
               /\ d.edge[i] > 0 => /\ d.slot[i] # None
                                   /\ nd[Leads[rootPos][d.slot[i]]].visits > 0
      BY <3>1, FilteredIs
    <3>3. /\ nodes \in [Nodes -> NodeRecs]
          /\ \A n \in Nodes : nodes[n] = IF n = Root THEN d ELSE nd[n]
      BY <1>2, <3>1
    <3> HIDE DEF nodes
    <3>4. ASSUME NEW n \in Nodes
          PROVE  /\ Evaluated(nodes[n]) /\ nodes[n].dirty = 0 /\ nodes[n].seen = nodes[n].edge
                 /\ \A i \in Slots :
                      LET p == IF n = Root THEN rootPos ELSE n
                          k == nodes[n].slot[i]
                      IN  /\ k # None => k \in DOMAIN Leads[p]
                          /\ nodes[n].edge[i] > 0 =>
                               k # None /\ nodes[Leads[p][k]].visits > 0
      <4>1. PICK p \in Positions : p = IF n = Root THEN rootPos ELSE n
        BY <1>2 DEF Nodes
      <4>2. \A k \in DOMAIN Leads[p] : nodes[Leads[p][k]] = nd[Leads[p][k]]
        BY <3>3, LeadsAssumption, NamesAssumption DEF Nodes
      <4>3. CASE n = Root
        <5>1. nd[Root].dirty = 0
          BY <1>1, <4>3, RestIs
        <5> QED
          BY <3>2, <3>3, <4>1, <4>2, <4>3, <5>1
      <4>4. CASE n # Root
        <5>1. NodeOK(n) /\ nd[n].dirty = 0 /\ nd[n].seen = nd[n].edge
          BY <1>1, RestIs
        <5> QED
          BY <3>3, <4>1, <4>2, <4>4, <5>1 DEF NodeOK, ChildOf, At
      <4> QED
        BY <4>3, <4>4
    <3>5. nd' \in [Nodes -> NodeRecs] /\ NodesInv'
          /\ \A n \in Nodes : nd'[n] \in {nodes[n], FreshNode}
      BY <1>1, <1>2, <2>2, <3>3, <3>4, SweptIs
    <3> QED
      BY <3>4, <3>5, FreshNodeIs
  <2> QED
    BY <1>1, <2>1, <2>2
<1>5. /\ th' \in [Threads -> ThreadRecs]
      /\ \A t \in Threads : th'[t].pc \in {"begin", "done"} /\ th'[t].path = <<>>
  BY <1>1, <1>3
<1>6. searches' \in 0..Len(Limits) /\ searches' # 0
  BY <1>1, <1>2, LimitsAssumption
<1>7. CountInv'
  <2>1. Limit' \in Nat
    BY <1>6, LimitsAssumption DEF Limit
  <2>2. \A t \in Threads : th'[t].pc \notin Playing
    BY <1>1, <1>3 DEF Playing
  <2> QED
    BY <1>1, <1>6, <2>1, <2>2 DEF CountInv
<1> QED
  BY <1>1, <1>2, <1>4, <1>5, <1>6, <1>7, RestMoves

(***************************************************************************)
(* The theorems of this invariant.                                         *)
(***************************************************************************)
LEMMA Initially == Init => IInv
<1> SUFFICES ASSUME Init PROVE IInv
  OBVIOUS
<1>1. \A n \in Nodes : nd[n] = FreshNode
  BY DEF Init
<1>2. \A t \in Threads : th[t] = FreshThread
  BY DEF Init
<1>3. TypeOK
  <2>1. nd \in [Nodes -> NodeRecs] /\ th \in [Threads -> ThreadRecs]
    BY FreshNodeIs, FreshThreadIs DEF Init
  <2>2. searches \in 0..Len(Limits)
    BY LimitsAssumption DEF Init
  <2> QED
    BY <2>1, <2>2, PositionsAssumption, TypeOKIs DEF Init
<1>4. ThreadsInv
  <2>1. \A r : r.pc = "done" /\ r.path = <<>> => Linked(r) /\ Placed(r)
    BY DEF Linked, Placed, InNode, ForSlot, AtChild
  <2> QED
    BY <1>2, <2>1, FreshThreadIs DEF ThreadsInv
<1>5. NodesInv
  <2>1. \A n \in Nodes, i \in Slots : nd[n].slot[i] = None /\ ~(nd[n].edge[i] > 0)
    BY <1>1, FreshNodeIs DEF NoEdges
  <2> QED
    BY <1>1, <2>1, FreshNodeIs DEF NodesInv, NodeOK, Evaluated
<1>6. LeafInv
  BY <1>2, FreshThreadIs DEF LeafInv, Leafing
<1>7. UpdateInv
  BY <1>1, <1>2, FreshNodeIs, FreshThreadIs DEF UpdateInv, Updating
<1>8. CountInv
  BY <1>2, FreshThreadIs DEF Init, CountInv, AtRest, Limit, Playing
<1> QED
  BY <1>3, <1>4, <1>5, <1>6, <1>7, <1>8 DEF IInv

LEMMA EveryStep == IInv /\ [Next]_vars => IInv'
<1> SUFFICES ASSUME IInv, [Next]_vars PROVE IInv'
  OBVIOUS
<1>1. ASSUME NEW t \in Threads, ThreadStep(t) \/ StopSearching(t) PROVE IInv'
  <2>1. CASE EnterLoop(t) \/ StartPlayout(t) \/ FinishPlayout(t) \/ StopSearching(t)
    BY <2>1, EnterLoopStep, StartPlayoutStep, FinishPlayoutStep, StopSearchingStep
  <2>2. CASE VisitTerminal(t) \/ VisitNode(t) \/ StoreOutput(t) \/ CountEvaluation(t)
             \/ ClaimExpansion(t) \/ PublishExpansion(t)
    BY <2>2, VisitTerminalStep, VisitNodeStep, StoreOutputStep, CountEvaluationStep,
       ClaimExpansionStep, PublishExpansionStep
  <2>3. CASE SelectNothing(t) \/ \E i \in Slots, count \in BOOLEAN : SelectExisting(t, i, count)
    BY <2>3, SelectNothingStep, SelectExistingStep
  <2>4. CASE \/ \E m \in Moves, count \in BOOLEAN : SelectNew(t, m, count)
             \/ \E m \in Moves : ForcePass(t, m) \/ SelectIllegal(t, m)
    BY <2>4, SelectNewStep, ForcePassStep, SelectIllegalStep
  <2>5. CASE GrowChildren(t) \/ SelectAgain(t) \/ PublishGrowth(t)
             \/ FindNode(t) \/ ClaimSlot(t) \/ LostRace(t)
    BY <2>5, GrowChildrenStep, SelectAgainStep, PublishGrowthStep, FindNodeStep,
       ClaimSlotStep, LostRaceStep
  <2>6. CASE CatchUp(t) \/ Descend(t) \/ CloseCycle(t) \/ ReturnToParent(t)
    BY <2>6, CatchUpStep, DescendStep, CloseCycleStep, ReturnToParentStep
  <2>7. CASE AnnounceVisit(t) \/ ReadChildren(t) \/ StoreStats(t) \/ Settle(t) \/ LeaveChild(t)
    BY <2>7, AnnounceVisitStep, ReadChildrenStep, StoreStatsStep, SettleStep, LeaveChildStep
  <2> QED
    BY <1>1, <2>1, <2>2, <2>3, <2>4, <2>5, <2>6, <2>7 DEF ThreadStep
<1>2. ASSUME BetweenSearches \/ UNCHANGED vars PROVE IInv'
  <2>1. CASE UNCHANGED vars
    <3>1. /\ nd' = nd /\ th' = th /\ rootPos' = rootPos /\ allowed' = allowed
          /\ playouts' = playouts /\ shouldStopNow' = shouldStopNow /\ searches' = searches
      BY <2>1 DEF vars, searchVars
    <3>2. TypeOK'
      BY <3>1 DEF IInv, TypeOK
    <3>3. ThreadsInv'
      BY <3>1, ZenonT(60) DEF IInv, ThreadsInv, Linked, Placed, Below, At, ChildOf
    <3>4. NodesInv'
      BY <3>1 DEF IInv, NodesInv, NodeOK, Evaluated, At, ChildOf
    <3>5. LeafInv'
      BY <3>1 DEF IInv, LeafInv
    <3>6. UpdateInv'
      BY <3>1 DEF IInv, UpdateInv, Announced, In, Missed
    <3>7. CountInv'
      BY <3>1 DEF IInv, CountInv, AtRest, Limit, Knowing
    <3> QED
      BY <3>2, <3>3, <3>4, <3>5, <3>6, <3>7 DEF IInv
  <2>2. CASE ClearSearch \/ \E m \in Moves, clear \in BOOLEAN : MakeMove(m, clear)
    BY <2>2, ClearSearchStep, MakeMoveStep
  <2>3. CASE \E S \in SUBSET Moves : Pass \in S /\ BeginSearch(S)
    BY <2>3, BeginSearchStep
  <2> QED
    BY <1>2, <2>1, <2>2, <2>3 DEF BetweenSearches, Idle
<1> QED
  BY <1>1, <1>2 DEF Next

\* The invariant holds, with it the types: in every state of the search threads
\* and between searches.
THEOREM Inductive == Spec => []IInv
BY Initially, EveryStep, PTL DEF Spec

THEOREM TypesKept == Spec => []TypeOK
<1>1. IInv => TypeOK
  BY DEF IInv
<1> QED
  BY <1>1, Inductive, PTL

\* However many threads there are, and however stale their counts, a search
\* runs no more playouts beyond its limit than it has other threads.
THEOREM LimitPassed == Spec => []LimitPassedByThreads
<1>1. IInv => LimitPassedByThreads
  <2> SUFFICES ASSUME IInv PROVE LimitPassedByThreads
    OBVIOUS
  <2>1. Cardinality(Threads) \in Nat /\ Cardinality(Knowing) <= Cardinality(Threads)
    BY LimitIs, ThreadsAssumption, FS_Subset, FS_CardinalityType
  <2>2. Cardinality(Threads) # 0
    BY ThreadsAssumption, FS_EmptySet
  <2>3. \/ playouts < Limit
        \/ playouts = 0 /\ Limit = 0
        \/ playouts <= Limit - 1 + Cardinality(Knowing)
    BY DEF IInv, CountInv
  <2>4. playouts <= Limit + Cardinality(Threads) - 1
    BY <2>1, <2>2, <2>3, LimitIs
  <2> QED
    BY <2>4 DEF LimitPassedByThreads
<1> QED
  BY <1>1, Inductive, PTL

\* A node leaves the unevaluated state with an output and a visit, by the thread
\* that found it so; an edge that counts leads to a node that has a visit.
THEOREM EvaluatedFirst == Spec => []EvaluatedBeforeExpanded
<1>1. IInv => EvaluatedBeforeExpanded
  BY DEF IInv, NodesInv, NodeOK, Evaluated, LeafInv, EvaluatedBeforeExpanded
<1> QED
  BY <1>1, Inductive, PTL

\* The averages of a node with no update announced are those of its edge visits.
THEOREM StatsFollow == Spec => []StatsUpToDate
<1>1. IInv => StatsUpToDate
  BY DEF IInv, UpdateInv, Announced, StatsUpToDate
<1> QED
  BY <1>1, Inductive, PTL


(***************************************************************************)
(* What one step of a thread does: thread t becomes r and node n becomes d *)
(* (most often they are written q and e before the step).                  *)
(***************************************************************************)
Does(t, r, n, d) ==
  /\ th' = [th EXCEPT ![t] = r] /\ nd' = [nd EXCEPT ![n] = d]
  /\ rootPos' = rootPos /\ allowed' = allowed

SameNode(q, r) == r.cur = q.cur /\ r.path = q.path
SameSlot(q, r) == SameNode(q, r) /\ r.idx = q.idx /\ r.move = q.move

SameRoom(e, d) == d.state = e.state /\ d.arrays = e.arrays /\ d.slot = e.slot
SameCounts(e, d) ==
  d.edge = e.edge /\ d.visits = e.visits /\ d.leaf = e.leaf /\ d.dirty = e.dirty
\* Virtual losses and output may differ, separately.
SameLoss(e, d) == d.vl = e.vl
SameOutput(e, d) == d.output = e.output
Loses(e, d, x) == /\ SameRoom(e, d) /\ SameCounts(e, d) /\ SameOutput(e, d)
                  /\ d.vl = e.vl + x
Counts(e, d) == SameRoom(e, d) /\ SameLoss(e, d) /\ SameOutput(e, d)

\* The loop around playouts: the thread has no frames.
Turns(q, r, e, d) ==
  /\ d = e
  /\ q.pc \in {"begin", "loop"} \/ (q.pc = "return" /\ q.path = <<>>)
  /\ r.pc \in {"loop", "visit", "done"} /\ r.path \in {q.path, <<>>}

\* Arriving at a node.
Arrives(q, r, e, d) ==
  /\ d = e /\ q.pc = "visit" /\ SameNode(q, r)
  /\ \/ r.pc = "evaluate"
     \/ r.pc = "return" /\ e.state # Unevaluated
     \/ r.pc = "select" /\ e.state # Unevaluated /\ r.snap = e.state

\* An evaluation counted.
CountsLeaf(q, r, e, d) ==
  /\ <<q.pc, r.pc>> \in {<<"visit", "return">>, <<"leaf", "expand">>, <<"select", "return">>}
  /\ SameNode(q, r)
  /\ Counts(e, d) /\ d.edge = e.edge /\ d.dirty = e.dirty
  /\ d.visits = e.visits + 1 /\ d.leaf = e.leaf + 1

\* An output stored: by the thread that goes on to the leaf, after somebody's,
\* or again for a path on which a move is illegal.
StoresOutput(q, r, e, d) ==
  /\ SameNode(q, r) /\ SameRoom(e, d) /\ SameCounts(e, d) /\ SameLoss(e, d) /\ d.output
  /\ \/ q.pc = "evaluate" /\ r.pc = "leaf"
     \/ q.pc = "evaluate" /\ r.pc = "return" /\ e.output
     \/ q.pc = "select" /\ r.pc = "return" /\ e.visits > 0

\* The node moves on to another state.
Changes(q, r, e, d) ==
  /\ SameNode(q, r) /\ SameCounts(e, d) /\ SameLoss(e, d) /\ SameOutput(e, d)
  /\ d.slot = e.slot
  /\ \/ /\ q.pc = "expand" /\ r.pc = "publish" /\ e.state = 0 /\ d.state = 1 /\ d.arrays = 1
     \/ /\ q.pc = "publish" /\ r.pc = "return" /\ e.state = 1 /\ d.state = 2
        /\ d.arrays = e.arrays
     \/ /\ q.pc = "grow" /\ r.pc = "grown" /\ e.state \in {2, 4} /\ q.snap = e.state
        /\ d.state = e.state + 1 /\ d.arrays = e.arrays + 1 /\ r.snap = d.state
        /\ r.idx = q.idx /\ r.move = q.move
     \/ /\ q.pc = "grown" /\ r.pc = "find" /\ q.snap \in {3, 5} /\ d.state = q.snap + 1
        /\ d.arrays = e.arrays /\ r.idx = q.idx /\ r.move = q.move

\* A new child chosen, or the node's state read again.
Chooses(q, r, n, e, d) ==
  /\ d = e /\ SameNode(q, r)
  /\ \/ q.pc = "grow" /\ r.pc = "reload"
     \/ q.pc = "reload" /\ r.pc = "select" /\ r.snap = e.state
     \/ /\ q.pc = "select" /\ q.snap \in 0..6
        /\ r.move \in Playable(n) \ MovesFound(n, q.snap)
        /\ r.idx = Cardinality(Found(n, q.snap)) + 1
        /\ \/ r.pc = "find" /\ r.idx <= Capacity(q.snap)
           \/ r.pc = "grow" /\ r.idx > Capacity(q.snap) /\ r.snap = q.snap

\* A virtual loss on a child of the node.
Takes(q, r, n, e, d) ==
  /\ Loses(e, d, 1) /\ SameNode(q, r) /\ n = ChildOf(r.cur, r.move)
  /\ \/ /\ q.pc = "select" /\ r.pc = "catchUp"
        /\ r.idx \in Slots /\ nd[r.cur].slot[r.idx] = r.move
     \/ q.pc = "find" /\ r.pc = "claim" /\ SameSlot(q, r)

Claims(q, r, e, d) ==
  /\ SameSlot(q, r) /\ q.pc = "claim" /\ r.pc = "catchUp"
  /\ q.idx \in Slots /\ e.slot[q.idx] = None
  /\ d.slot = [e.slot EXCEPT ![q.idx] = q.move]
  /\ d.state = e.state /\ d.arrays = e.arrays
  /\ SameCounts(e, d) /\ SameLoss(e, d) /\ SameOutput(e, d)

\* The virtual loss on the child taken back.
LetsGo(q, r, n, e, d) ==
  /\ Loses(e, d, -1) /\ SameNode(q, r) /\ n = ChildOf(q.cur, q.move)
  /\ q.pc \in {"claim", "catchUp", "leave"} /\ r.pc = "return"
  /\ q.pc = "catchUp" => e.visits > 0

\* Into the child, and back.
Descends(q, r, e, d) ==
  /\ d = e /\ q.pc = "catchUp" /\ r.pc = "visit"
  /\ r.cur = ChildOf(q.cur, q.move)
  /\ \E f \in Frames : /\ f.node = q.cur /\ f.move = q.move
                       /\ r.path = Append(q.path, f)

Top(q) == q.path[Len(q.path)]
Pops(q, r) ==
  /\ q.pc = "return" /\ q.path # <<>>
  /\ r.path = SubSeq(q.path, 1, Len(q.path) - 1) /\ r.cur = Top(q).node
Returns(q, r, n, e, d) ==
  /\ Pops(q, r) /\ r.pc = "return"
  /\ Loses(e, d, -1) /\ n = ChildOf(Top(q).node, Top(q).move)

\* A visit of the edge to the child counted.
AddsEdge(q, r, n, e, d) ==
  /\ \/ q.pc = "catchUp" /\ SameSlot(q, r) /\ nd[ChildOf(q.cur, q.move)].visits > 0
     \/ Pops(q, r) /\ r.move = Top(q).move
  /\ r.pc = "announce" /\ n = r.cur
  /\ Counts(e, d) /\ d.visits = e.visits /\ d.leaf = e.leaf /\ d.dirty = e.dirty
  /\ \E i \in Slots : d.edge = [e.edge EXCEPT ![i] = @ + 1]

\* The update of a node's averages.
Updates(q, r, e, d) ==
  /\ SameSlot(q, r) /\ Counts(e, d) /\ d.edge = e.edge /\ d.leaf = e.leaf
  /\ \/ /\ q.pc = "announce" /\ r.pc \in {"leave", "recompute"}
        /\ d.visits = e.visits /\ d.dirty = e.dirty + 1
     \/ q.pc = "recompute" /\ r.pc = "store" /\ d = e
     \/ /\ q.pc = "store" /\ r.pc = "settle" /\ r.pending = q.pending
        /\ d.visits = e.visits + q.pending /\ d.dirty = e.dirty
     \/ /\ q.pc = "settle" /\ r.pc \in {"leave", "recompute"}
        /\ d.visits = e.visits /\ d.dirty = e.dirty - q.pending

\* What a step does to the node the thread is in ...
InPlace(q, r, n, e, d) ==
  /\ n = q.cur
  /\ \/ Arrives(q, r, e, d) \/ CountsLeaf(q, r, e, d) \/ StoresOutput(q, r, e, d)
     \/ Changes(q, r, e, d) \/ Chooses(q, r, n, e, d) \/ Claims(q, r, e, d)
     \/ Updates(q, r, e, d)
\* ... or elsewhere.
Elsewhere(q, r, n, e, d) ==
  \/ Turns(q, r, e, d) \/ Takes(q, r, n, e, d) \/ LetsGo(q, r, n, e, d)
  \/ Descends(q, r, e, d) \/ AddsEdge(q, r, n, e, d) \/ Returns(q, r, n, e, d)
Effect(t, r, n, d) ==
  /\ Does(t, r, n, d)
  /\ InPlace(th[t], r, n, nd[n], d) \/ Elsewhere(th[t], r, n, nd[n], d)
Affects(t) == \E r \in ThreadRecs, n \in Nodes, d \in NodeRecs : Effect(t, r, n, d)

\* A thread that goes on to another place, with one local or none changed.
Pcs == {"begin", "loop", "done"} \cup Playing
LEMMA GoesTo ==
  ASSUME NEW q \in ThreadRecs, NEW pc \in Pcs, NEW r, r = [q EXCEPT !.pc = pc]
  PROVE  /\ r \in ThreadRecs /\ r.pc = pc /\ SameSlot(q, r)
         /\ r.snap = q.snap /\ r.pending = q.pending
BY DEF ThreadRecs, SameSlot, SameNode, Pcs

LEMMA GoesToSeen ==
  ASSUME NEW q \in ThreadRecs, NEW pc \in Pcs, NEW s \in 0..6, NEW p, p = [q EXCEPT !.pc = pc],
         NEW r, r = [p EXCEPT !.snap = s]
  PROVE  r \in ThreadRecs /\ r.pc = pc /\ SameSlot(q, r) /\ r.snap = s
BY DEF ThreadRecs, SameSlot, SameNode, Pcs

LEMMA GoesToPending ==
  ASSUME NEW q \in ThreadRecs, NEW pc \in Pcs, NEW k \in Nat, NEW p, p = [q EXCEPT !.pc = pc],
         NEW r, r = [p EXCEPT !.pending = k]
  PROVE  r \in ThreadRecs /\ r.pc = pc /\ SameSlot(q, r)
BY DEF ThreadRecs, SameSlot, SameNode, Pcs

LEMMA GoesToRead ==
  ASSUME NEW q \in ThreadRecs, NEW pc \in Pcs, NEW f \in [Slots -> Nat], NEW p, p = [q EXCEPT !.pc = pc],
         NEW r, r = [p EXCEPT !.read = f]
  PROVE  r \in ThreadRecs /\ r.pc = pc /\ SameSlot(q, r) /\ r.pending = q.pending
BY DEF ThreadRecs, SameSlot, SameNode, Pcs

LEMMA GoesToCounted ==
  ASSUME NEW q \in ThreadRecs, NEW pc \in Pcs, NEW k \in Nat, NEW p, p = [q EXCEPT !.pc = pc],
         NEW r, r = [p EXCEPT !.mine = k]
  PROVE  r \in ThreadRecs /\ r.pc = pc /\ SameSlot(q, r)
BY DEF ThreadRecs, SameSlot, SameNode, Pcs

\* A node in which one field changes, or two.
LEMMA LossBecomes ==
  ASSUME NEW e \in NodeRecs, NEW v \in Int, NEW d, d = [e EXCEPT !.vl = v]
  PROVE  /\ d \in NodeRecs /\ SameRoom(e, d) /\ SameCounts(e, d) /\ SameOutput(e, d)
         /\ d.vl = v
BY DEF NodeRecs, SameRoom, SameCounts, SameOutput

LEMMA StateBecomes ==
  ASSUME NEW e \in NodeRecs, NEW s \in 0..6, NEW a \in Nat, NEW c, c = [e EXCEPT !.state = s],
         NEW d, d = [c EXCEPT !.arrays = a]
  PROVE  /\ d \in NodeRecs /\ SameCounts(e, d) /\ SameLoss(e, d) /\ SameOutput(e, d)
         /\ d.slot = e.slot /\ d.state = s /\ d.arrays = a
BY DEF NodeRecs, SameCounts, SameLoss, SameOutput

LEMMA OutputBecomes ==
  ASSUME NEW e \in NodeRecs, NEW d, d = [e EXCEPT !.output = TRUE]
  PROVE  /\ d \in NodeRecs /\ SameCounts(e, d) /\ SameLoss(e, d) /\ SameRoom(e, d)
         /\ d.output
BY DEF NodeRecs, SameCounts, SameLoss, SameRoom

LEMMA VisitsBecome ==
  ASSUME NEW e \in NodeRecs, NEW v \in Nat, NEW k \in Nat, NEW c, c = [e EXCEPT !.visits = v],
         NEW d, d = [c EXCEPT !.leaf = k]
  PROVE  /\ d \in NodeRecs /\ Counts(e, d) /\ d.edge = e.edge /\ d.dirty = e.dirty
         /\ d.visits = v /\ d.leaf = k
BY DEF NodeRecs, Counts, SameLoss, SameRoom, SameOutput

LEMMA SlotsBecome ==
  ASSUME NEW e \in NodeRecs, NEW f \in [Slots -> Moves \cup {None}], NEW d,
         d = [e EXCEPT !.slot = f]
  PROVE  /\ d \in NodeRecs /\ SameCounts(e, d) /\ SameLoss(e, d) /\ SameOutput(e, d)
         /\ d.state = e.state /\ d.arrays = e.arrays /\ d.slot = f
BY DEF NodeRecs, SameCounts, SameLoss, SameOutput

LEMMA EdgesBecome ==
  ASSUME NEW e \in NodeRecs, NEW f \in [Slots -> Nat], NEW d, d = [e EXCEPT !.edge = f]
  PROVE  /\ d \in NodeRecs /\ Counts(e, d) /\ d.edge = f /\ d.dirty = e.dirty
         /\ d.visits = e.visits /\ d.leaf = e.leaf
BY DEF NodeRecs, Counts, SameLoss, SameRoom, SameOutput

LEMMA DirtyBecomes ==
  ASSUME NEW e \in NodeRecs, NEW k \in Nat, NEW d, d = [e EXCEPT !.dirty = k]
  PROVE  /\ d \in NodeRecs /\ Counts(e, d) /\ d.edge = e.edge /\ d.dirty = k
         /\ d.visits = e.visits /\ d.leaf = e.leaf
BY DEF NodeRecs, Counts, SameLoss, SameRoom, SameOutput

LEMMA StatsBecome ==
  ASSUME NEW e \in NodeRecs, NEW f \in [Slots -> Nat], NEW v \in Nat, NEW c, c = [e EXCEPT !.seen = f],
         NEW d, d = [c EXCEPT !.visits = v]
  PROVE  /\ d \in NodeRecs /\ Counts(e, d) /\ d.edge = e.edge /\ d.dirty = e.dirty
         /\ d.visits = v /\ d.leaf = e.leaf
BY DEF NodeRecs, Counts, SameLoss, SameRoom, SameOutput

(***************************************************************************)
(* The effects of the steps.                                               *)
(***************************************************************************)
LEMMA NodeHere ==
  ASSUME IInv, NEW n \in Nodes
  PROVE  /\ nd[n] \in NodeRecs /\ nd = [nd EXCEPT ![n] = nd[n]]
         /\ nd \in [Nodes -> NodeRecs] /\ NodeOK(n)
<1>1. nd \in [Nodes -> NodeRecs]
  BY TypeOKIs DEF IInv
<1> QED
  BY <1>1 DEF IInv, NodesInv

\* Only the thread changes.
LEMMA OnlyThread ==
  ASSUME IInv, NEW t \in Threads, NEW r \in ThreadRecs, th' = [th EXCEPT ![t] = r],
         UNCHANGED <<nd, rootPos, allowed>>,
         LET q == th[t]
             n == q.cur
             e == nd[n]
         IN  Turns(q, r, e, e) \/ Arrives(q, r, e, e) \/ Chooses(q, r, n, e, e)
             \/ Descends(q, r, e, e) \/ Updates(q, r, e, e)
  PROVE  Affects(t)
<1>1. PICK n \in Nodes : n = th[t].cur
  BY Here
<1>2. PICK d \in NodeRecs : d = nd[n]
  BY NodeHere
<1>3. nd' = [nd EXCEPT ![n] = d]
  BY <1>2, NodeHere
<1>4. Does(t, r, n, d)
  BY <1>3 DEF Does
<1>5. InPlace(th[t], r, n, nd[n], d) \/ Elsewhere(th[t], r, n, nd[n], d)
  BY <1>1, <1>2 DEF InPlace, Elsewhere
<1> QED
  BY <1>4, <1>5 DEF Affects, Effect

\* The thread and its node change.
LEMMA ThreadAndNode ==
  ASSUME IInv, NEW t \in Threads, NEW r \in ThreadRecs, NEW n \in Nodes, NEW d \in NodeRecs,
         n = th[t].cur, th' = [th EXCEPT ![t] = r], nd' = [nd EXCEPT ![n] = d],
         UNCHANGED <<rootPos, allowed>>,
         LET q == th[t]
             e == nd[n]
         IN  \/ CountsLeaf(q, r, e, d) \/ StoresOutput(q, r, e, d) \/ Changes(q, r, e, d)
             \/ Claims(q, r, e, d) \/ Updates(q, r, e, d)
  PROVE  Affects(t)
<1>1. Does(t, r, n, d)
  BY DEF Does
<1>2. InPlace(th[t], r, n, nd[n], d)
  BY DEF InPlace
<1> QED
  BY <1>1, <1>2 DEF Affects, Effect

\* The thread changes and a node, its own or another.
LEMMA ThreadAndChild ==
  ASSUME IInv, NEW t \in Threads, NEW r \in ThreadRecs, NEW n \in Nodes, NEW d \in NodeRecs,
         th' = [th EXCEPT ![t] = r], nd' = [nd EXCEPT ![n] = d],
         UNCHANGED <<rootPos, allowed>>,
         LET q == th[t]
             e == nd[n]
         IN  \/ Takes(q, r, n, e, d) \/ LetsGo(q, r, n, e, d) \/ AddsEdge(q, r, n, e, d)
             \/ Returns(q, r, n, e, d)
  PROVE  Affects(t)
<1>1. Does(t, r, n, d)
  BY DEF Does
<1>2. Elsewhere(th[t], r, n, nd[n], d)
  BY DEF Elsewhere
<1> QED
  BY <1>1, <1>2 DEF Affects, Effect

LEMMA LoopEffect ==
  ASSUME IInv, NEW t \in Threads,
         EnterLoop(t) \/ StartPlayout(t) \/ StopSearching(t) \/ FinishPlayout(t)
  PROVE  Affects(t)
<1>1. PICK q \in ThreadRecs : q = th[t]
  BY Here
<1>2. PICK k \in Nat : k = playouts
  BY TypeOKIs DEF IInv
<1>3. q.mine \in Nat
  BY DEF ThreadRecs
<1>4. "loop" \in Pcs /\ "visit" \in Pcs
  BY DEF Pcs, Playing
<1>5. CASE EnterLoop(t)
  <2>1. PICK p, r : p = [q EXCEPT !.pc = "loop"] /\ r = [p EXCEPT !.mine = k]
    OBVIOUS
  <2>2. r \in ThreadRecs /\ r.pc = "loop" /\ SameSlot(q, r)
    BY <1>4, <2>1, GoesToCounted
  <2>3. q.pc = "begin" /\ th' = [th EXCEPT ![t] = r] /\ UNCHANGED <<nd, rootPos, allowed>>
    BY <1>1, <1>2, <1>5, <2>1 DEF EnterLoop, Step, searchVars
  <2>4. Turns(q, r, nd[q.cur], nd[q.cur])
    BY <2>2, <2>3 DEF Turns, SameSlot, SameNode
  <2> QED
    BY <1>1, <2>2, <2>3, <2>4, OnlyThread
<1>6. CASE StartPlayout(t)
  <2>1. PICK r : r = [q EXCEPT !.pc = "visit"]
    OBVIOUS
  <2>2. r \in ThreadRecs /\ r.pc = "visit" /\ SameSlot(q, r)
    BY <1>4, <2>1, GoesTo
  <2>3. q.pc = "loop" /\ th' = [th EXCEPT ![t] = r] /\ UNCHANGED <<nd, rootPos, allowed>>
    BY <1>1, <1>6, <2>1 DEF StartPlayout, Step, searchVars
  <2>4. Turns(q, r, nd[q.cur], nd[q.cur])
    BY <2>2, <2>3 DEF Turns, SameSlot, SameNode
  <2> QED
    BY <1>1, <2>2, <2>3, <2>4, OnlyThread
<1>7. CASE StopSearching(t)
  <2>1. PICK r : r = FreshThread
    OBVIOUS
  <2>2. r \in ThreadRecs /\ r.pc = "done" /\ r.path = <<>>
    BY <2>1, FreshThreadIs
  <2>3. q.pc = "loop" /\ th' = [th EXCEPT ![t] = r] /\ UNCHANGED <<nd, rootPos, allowed>>
    BY <1>1, <1>7, <2>1 DEF StopSearching, Step
  <2>4. Turns(q, r, nd[q.cur], nd[q.cur])
    BY <2>2, <2>3 DEF Turns
  <2> QED
    BY <1>1, <2>2, <2>3, <2>4, OnlyThread
<1>8. CASE FinishPlayout(t)
  <2>1. PICK v \in Nat : v = IF q.counted THEN playouts + 1 ELSE q.mine
    BY <1>2, <1>3
  <2>0. PICK f \in ThreadRecs : f = FreshThread /\ f.path = <<>>
    BY FreshThreadIs
  <2>2. PICK p, r : p = [f EXCEPT !.pc = "loop"] /\ r = [p EXCEPT !.mine = v]
    OBVIOUS
  <2>3. r \in ThreadRecs /\ r.pc = "loop" /\ r.path = <<>>
    <3>1. r \in ThreadRecs /\ r.pc = "loop" /\ SameSlot(f, r)
      BY <1>4, <2>2, GoesToCounted
    <3> QED
      BY <2>0, <3>1 DEF SameSlot, SameNode
  <2>4. /\ q.pc = "return" /\ q.path = <<>> /\ th' = [th EXCEPT ![t] = r]
        /\ UNCHANGED <<nd, rootPos, allowed>>
    BY <1>1, <1>8, <2>0, <2>1, <2>2 DEF FinishPlayout, Step
  <2>5. Turns(q, r, nd[q.cur], nd[q.cur])
    BY <2>3, <2>4 DEF Turns
  <2> QED
    BY <1>1, <2>3, <2>4, <2>5, OnlyThread
<1> QED
  BY <1>5, <1>6, <1>7, <1>8

\* An evaluation counted, in a node and by a thread that returns or goes on.
LEMMA CountsLeafIs ==
  ASSUME IInv, NEW t \in Threads, NEW r \in ThreadRecs, th' = [th EXCEPT ![t] = r],
         AddLeafValue(th[t].cur), UNCHANGED <<rootPos, allowed>>, SameNode(th[t], r),
         <<th[t].pc, r.pc>> \in {<<"visit", "return">>, <<"leaf", "expand">>,
                               <<"select", "return">>}
  PROVE  Affects(t)
<1>1. PICK n \in Nodes : n = th[t].cur
  BY Here
<1>2. PICK e \in NodeRecs : e = nd[n]
  BY NodeHere
<1>3. PICK v \in Nat, k \in Nat : v = e.visits + 1 /\ k = e.leaf + 1
  BY DEF NodeRecs
<1>4. PICK c, d : c = [e EXCEPT !.visits = v] /\ d = [c EXCEPT !.leaf = k]
  OBVIOUS
<1>5. /\ d \in NodeRecs /\ Counts(e, d) /\ d.edge = e.edge /\ d.dirty = e.dirty
      /\ d.visits = v /\ d.leaf = k
  BY <1>4 DEF NodeRecs, Counts, SameRoom, SameLoss, SameOutput
<1>6. nd' = [nd EXCEPT ![n] = d]
  BY ZenonT(30), <1>1, <1>2, <1>3, <1>4, NodeHere DEF AddLeafValue, NodeRecs
<1>7. CountsLeaf(th[t], r, e, d)
  BY <1>3, <1>5 DEF CountsLeaf
<1> QED
  BY <1>1, <1>2, <1>5, <1>6, <1>7, ThreadAndNode

LEMMA VisitTerminalEffect ==
  ASSUME IInv, NEW t \in Threads, VisitTerminal(t)
  PROVE  Affects(t)
<1>1. PICK r \in ThreadRecs : r = Return(t, TRUE) /\ r.pc = "return" /\ SameNode(th[t], r)
  BY Here, ReturnIs DEF SameNode
<1>2. th[t].pc = "visit" /\ th' = [th EXCEPT ![t] = r] /\ AddLeafValue(th[t].cur)
      /\ UNCHANGED <<rootPos, allowed>>
  BY <1>1 DEF VisitTerminal, Step, searchVars
<1> QED
  BY <1>1, <1>2, CountsLeafIs

LEMMA CountEvaluationEffect ==
  ASSUME IInv, NEW t \in Threads, CountEvaluation(t)
  PROVE  Affects(t)
<1>1. PICK q \in ThreadRecs : q = th[t]
  BY Here
<1>2. PICK r : r = [q EXCEPT !.pc = "expand"]
  OBVIOUS
<1>3. r \in ThreadRecs /\ r.pc = "expand" /\ SameNode(q, r)
  <2>1. "expand" \in Pcs
    BY DEF Pcs, Playing
  <2> QED
    BY <1>2, <2>1, GoesTo DEF SameSlot
<1>4. q.pc = "leaf" /\ th' = [th EXCEPT ![t] = r] /\ AddLeafValue(q.cur)
      /\ UNCHANGED <<rootPos, allowed>>
  BY <1>1, <1>2 DEF CountEvaluation, Step, searchVars
<1> QED
  BY <1>1, <1>3, <1>4, CountsLeafIs

LEMMA SelectNothingEffect ==
  ASSUME IInv, NEW t \in Threads, SelectNothing(t)
  PROVE  Affects(t)
<1>1. PICK r \in ThreadRecs : r = Return(t, TRUE) /\ r.pc = "return" /\ SameNode(th[t], r)
  BY Here, ReturnIs DEF SameNode
<1>2. th[t].pc = "select" /\ th' = [th EXCEPT ![t] = r] /\ AddLeafValue(th[t].cur)
      /\ UNCHANGED <<rootPos, allowed>>
  BY <1>1 DEF SelectNothing, Step, searchVars
<1> QED
  BY <1>1, <1>2, CountsLeafIs

LEMMA VisitNodeEffect ==
  ASSUME IInv, NEW t \in Threads, VisitNode(t)
  PROVE  Affects(t)
<1>1. PICK q \in ThreadRecs : q = th[t]
  BY Here
<1>2. PICK n \in Nodes : n = q.cur
  BY DEF ThreadRecs
<1>3. PICK s \in 0..6 : s = nd[n].state
  BY <1>2, NodeHere DEF NodeRecs
<1>4. PICK r : r = IF s = Unevaluated THEN [q EXCEPT !.pc = "evaluate"]
                   ELSE IF s = Evaluating THEN GiveUp(t)
                   ELSE Selecting(t, "select", s)
  OBVIOUS
<1>5. /\ r \in ThreadRecs /\ SameNode(q, r)
      /\ \/ r.pc = "evaluate"
         \/ r.pc = "return" /\ s # Unevaluated
         \/ r.pc = "select" /\ s # Unevaluated /\ r.snap = s
  <2>1. CASE s = Unevaluated
    <3>1. "evaluate" \in Pcs /\ r = [q EXCEPT !.pc = "evaluate"]
      BY <1>4, <2>1 DEF Pcs, Playing
    <3> QED
      BY <3>1, GoesTo DEF SameSlot
  <2>2. CASE s = Evaluating
    <3>1. r = GiveUp(t) /\ s # Unevaluated
      BY <1>4, <2>2 DEF Unevaluated, Evaluating
    <3> QED
      BY <1>1, <3>1, ReturnIs DEF SameNode
  <2>3. CASE s # Unevaluated /\ s # Evaluating
    <3>1. "select" \in Playing /\ r = Selecting(t, "select", s)
      BY <1>4, <2>3 DEF Playing
    <3> QED
      BY <1>1, <2>3, <3>1, ReturnIs DEF SameNode
  <2> QED
    BY <2>1, <2>2, <2>3
<1>6. q.pc = "visit" /\ th' = [th EXCEPT ![t] = r] /\ UNCHANGED <<nd, rootPos, allowed>>
  BY <1>1, <1>2, <1>3, <1>4 DEF VisitNode, Step, searchVars
<1>7. Arrives(q, r, nd[n], nd[n])
  BY <1>3, <1>5, <1>6 DEF Arrives
<1> QED
  BY <1>1, <1>2, <1>5, <1>6, <1>7, OnlyThread

LEMMA StoreOutputEffect ==
  ASSUME IInv, NEW t \in Threads, StoreOutput(t)
  PROVE  Affects(t)
<1>1. PICK q \in ThreadRecs : q = th[t]
  BY Here
<1>2. PICK n \in Nodes : n = q.cur
  BY DEF ThreadRecs
<1>3. PICK e \in NodeRecs : e = nd[n]
  BY NodeHere
<1>4. PICK d : d = [e EXCEPT !.output = TRUE]
  OBVIOUS
<1>5. d \in NodeRecs /\ SameCounts(e, d) /\ SameLoss(e, d) /\ SameRoom(e, d) /\ d.output
  BY <1>4, OutputBecomes
<1>6. PICK r : r = IF e.output THEN GiveUp(t) ELSE [q EXCEPT !.pc = "leaf"]
  OBVIOUS
<1>7. /\ r \in ThreadRecs /\ SameNode(q, r)
      /\ r.pc = "leaf" \/ (r.pc = "return" /\ e.output)
  <2>1. CASE e.output
    BY <1>1, <1>6, <2>1, ReturnIs DEF SameNode
  <2>2. CASE ~e.output
    <3>1. "leaf" \in Pcs /\ r = [q EXCEPT !.pc = "leaf"]
      BY <1>6, <2>2 DEF Pcs, Playing
    <3> QED
      BY <3>1, GoesTo DEF SameSlot
  <2> QED
    BY <2>1, <2>2
<1>8. /\ q.pc = "evaluate" /\ th' = [th EXCEPT ![t] = r] /\ nd' = [nd EXCEPT ![n] = d]
      /\ UNCHANGED <<rootPos, allowed>>
  BY <1>1, <1>2, <1>3, <1>4, <1>6 DEF StoreOutput, Step, searchVars
<1>9. StoresOutput(q, r, e, d)
  BY <1>5, <1>7, <1>8 DEF StoresOutput
<1> QED
  BY <1>1, <1>2, <1>3, <1>5, <1>7, <1>8, <1>9, ThreadAndNode

LEMMA ClaimExpansionEffect ==
  ASSUME IInv, NEW t \in Threads, ClaimExpansion(t)
  PROVE  Affects(t)
<1>1. PICK q \in ThreadRecs : q = th[t]
  BY Here
<1>2. PICK n \in Nodes : n = q.cur
  BY DEF ThreadRecs
<1>3. PICK e \in NodeRecs : e = nd[n]
  BY NodeHere
<1>4. q.pc = "expand" /\ e.state = Unevaluated
  BY <1>1, <1>2, <1>3 DEF ClaimExpansion, Step, IInv, LeafInv
<1>0. PICK s \in 0..6, a \in Nat : s = 1 /\ a = 1
  OBVIOUS
<1>5. PICK c, d : c = [e EXCEPT !.state = s] /\ d = [c EXCEPT !.arrays = a]
  OBVIOUS
<1>6. /\ d \in NodeRecs /\ SameCounts(e, d) /\ SameLoss(e, d) /\ SameOutput(e, d)
      /\ d.slot = e.slot /\ d.state = s /\ d.arrays = a
  BY <1>5 DEF NodeRecs, SameCounts, SameLoss, SameOutput
<1>7. PICK r : r = [q EXCEPT !.pc = "publish"]
  OBVIOUS
<1>8. r \in ThreadRecs /\ r.pc = "publish" /\ SameNode(q, r)
  <2>1. "publish" \in Pcs
    BY DEF Pcs, Playing
  <2> QED
    BY <1>7, <2>1, GoesTo DEF SameSlot
<1>9. th' = [th EXCEPT ![t] = r] /\ nd' = [nd EXCEPT ![n] = d] /\ UNCHANGED <<rootPos, allowed>>
  <2>1. /\ nd' = [nd EXCEPT ![n].state = s, ![n].arrays = a]
        /\ Step(t, "expand", [th[t] EXCEPT !.pc = "publish"]) /\ UNCHANGED searchVars
    BY <1>0, <1>1, <1>2, <1>3, <1>4 DEF ClaimExpansion, Evaluating
  <2>2. nd' = [nd EXCEPT ![n] = d]
    BY <1>3, <1>5, <2>1, NodeHere DEF NodeRecs
  <2> QED
    BY <1>1, <1>7, <2>1, <2>2 DEF Step, searchVars
<1>10. Changes(q, r, e, d)
  BY <1>0, <1>4, <1>6, <1>8 DEF Changes, Unevaluated
<1> QED
  BY <1>1, <1>2, <1>3, <1>6, <1>8, <1>9, <1>10, ThreadAndNode

LEMMA PublishExpansionEffect ==
  ASSUME IInv, NEW t \in Threads, PublishExpansion(t)
  PROVE  Affects(t)
<1>1. PICK q \in ThreadRecs : q = th[t]
  BY Here
<1>2. PICK n \in Nodes : n = q.cur
  BY DEF ThreadRecs
<1>3. PICK e \in NodeRecs : e = nd[n]
  BY NodeHere
<1>4. q.pc = "publish" /\ e.state = 1
  BY <1>1, <1>2, <1>3 DEF PublishExpansion, Step, IInv, LeafInv, Evaluating
<1>5. PICK a \in Nat : a = e.arrays
  BY DEF NodeRecs
<1>0. PICK s \in 0..6 : s = 2
  OBVIOUS
<1>6. PICK c, d : c = [e EXCEPT !.state = s] /\ d = [c EXCEPT !.arrays = a]
  OBVIOUS
<1>7. /\ d \in NodeRecs /\ SameCounts(e, d) /\ SameLoss(e, d) /\ SameOutput(e, d)
      /\ d.slot = e.slot /\ d.state = s /\ d.arrays = a
  BY <1>6 DEF NodeRecs, SameCounts, SameLoss, SameOutput
<1>8. [e EXCEPT !.state = s] = d
  BY <1>5, <1>6 DEF NodeRecs
<1>9. PICK r \in ThreadRecs : r = Return(t, TRUE) /\ r.pc = "return" /\ SameNode(q, r)
  BY <1>1, ReturnIs DEF SameNode
<1>10. th' = [th EXCEPT ![t] = r] /\ nd' = [nd EXCEPT ![n] = d] /\ UNCHANGED <<rootPos, allowed>>
  BY <1>0, <1>1, <1>2, <1>3, <1>8, <1>9 DEF PublishExpansion, Step, searchVars
<1>11. Changes(q, r, e, d)
  BY <1>0, <1>4, <1>5, <1>7, <1>9 DEF Changes
<1> QED
  BY <1>1, <1>2, <1>3, <1>7, <1>9, <1>10, <1>11, ThreadAndNode

\* A virtual loss taken or taken back.
LEMMA LossIs ==
  ASSUME IInv, NEW n \in Nodes, NEW x \in Int, NEW v \in Int, v = nd[n].vl + x,
         nd' = [nd EXCEPT ![n].vl = v]
  PROVE  \E d \in NodeRecs : Loses(nd[n], d, x) /\ nd' = [nd EXCEPT ![n] = d]
<1>1. PICK e \in NodeRecs : e = nd[n]
  BY NodeHere
<1>2. PICK d : d = [e EXCEPT !.vl = v]
  OBVIOUS
<1>3. /\ d \in NodeRecs /\ SameRoom(e, d) /\ SameCounts(e, d) /\ SameOutput(e, d)
      /\ d.vl = v
  BY <1>2, LossBecomes
<1>4. nd' = [nd EXCEPT ![n] = d]
  BY <1>1, <1>2
<1>5. Loses(e, d, x)
  BY <1>1, <1>3 DEF Loses
<1> QED
  BY <1>1, <1>3, <1>4, <1>5

LEMMA SelectExistingEffect ==
  ASSUME IInv, NEW t \in Threads, NEW i \in Slots, NEW count \in BOOLEAN,
         SelectExisting(t, i, count)
  PROVE  Affects(t)
<1>1. PICK q \in ThreadRecs : q = th[t]
  BY Here
<1>2. PICK n \in Nodes : n = q.cur
  BY DEF ThreadRecs
<1>3. PICK m : m = nd[n].slot[i]
  OBVIOUS
<1>4. i \in Nat /\ i > 0 /\ NodeOK(n) /\ rootPos \in Positions
  BY <1>1, LevelsFacts, Here
<1>5. m # None
  <2>1. \A j \in 1..i : nd[n].slot[j] # None
    BY Zenon, <1>1, <1>2 DEF SelectExisting, Found
  <2>2. i \in 1..i
    BY <1>4
  <2> QED
    BY SMTT(30), <1>3, <2>1, <2>2
<1>6. m \in Moves /\ ChildOf(n, m) \in Nodes
  BY <1>3, <1>4, <1>5, ChildIsNode DEF NodeOK
<1>7. PICK pc \in Pcs, z \in 0..6 : pc = "catchUp" /\ z = 0
  BY DEF Pcs, Playing
<1>8. PICK r : r = [q EXCEPT !.pc = pc, !.idx = i, !.move = m, !.count = count, !.snap = z]
  OBVIOUS
<1>9. r \in ThreadRecs /\ r.pc = pc /\ SameNode(q, r) /\ r.idx = i /\ r.move = m
  BY <1>4, <1>6, <1>8 DEF ThreadRecs, SameNode, Pcs
<1>10. PICK c \in Nodes : c = ChildOf(n, m)
  BY <1>6
<1>11. PICK v \in Int : v = nd[c].vl + 1
  BY NodeHere DEF NodeRecs
<1>12. q.pc = "select" /\ th' = [th EXCEPT ![t] = r] /\ UNCHANGED <<rootPos, allowed>>
  BY ZenonT(30), <1>1, <1>2, <1>3, <1>7, <1>8 DEF SelectExisting, Step, searchVars
<1>13. nd' = [nd EXCEPT ![c].vl = v]
  <2>1. nd \in [Nodes -> NodeRecs]
    BY NodeHere
  <2> QED
    BY Zenon, <1>1, <1>2, <1>3, <1>10, <1>11, <2>1 DEF SelectExisting
<1>14. PICK d \in NodeRecs : Loses(nd[c], d, 1) /\ nd' = [nd EXCEPT ![c] = d]
  BY <1>11, <1>13, LossIs, 1 \in Int
<1>15. r.cur = n
  BY <1>2, <1>9 DEF SameNode
<1>16. Takes(q, r, c, nd[c], d)
  BY <1>3, <1>7, <1>9, <1>10, <1>12, <1>14, <1>15 DEF Takes
<1> QED
  BY <1>1, <1>9, <1>12, <1>14, <1>16, ThreadAndChild

\* A thread about to look for the slot of a new child.
LEMMA NewChildEffect ==
  ASSUME IInv, NEW t \in Threads, th[t].pc = "select", NEW count \in BOOLEAN,
         NEW m \in Playable(th[t].cur) \ MovesFound(th[t].cur, th[t].snap),
         NEW r \in ThreadRecs, NEW p, p = NewChild(t, m, count),
         r.pc = p.pc, r.cur = p.cur, r.path = p.path, r.idx = p.idx, r.move = p.move,
         r.snap = p.snap, th' = [th EXCEPT ![t] = r], UNCHANGED <<nd, rootPos, allowed>>
  PROVE  Affects(t)
<1>1. PICK q \in ThreadRecs : q = th[t]
  BY Here
<1>2. PICK n \in Nodes : n = q.cur
  BY DEF ThreadRecs
<1>3. q.snap \in 0..6 /\ q.pc = "select"
  BY <1>1 DEF ThreadRecs
<1>4. PICK idx \in Nat : idx = Cardinality(Found(n, q.snap)) + 1
  BY <1>3, FoundFits
<1>5. PICK cap \in Nat : cap = Capacity(q.snap)
  BY <1>3, LevelsFacts
<1>6. m \in Moves
  BY <1>1, <1>2, ChildIsNode, Here DEF Playable
<1>7. p = [q EXCEPT !.pc = IF idx <= cap THEN "find" ELSE "grow", !.idx = idx, !.move = m,
                    !.count = count, !.snap = IF idx <= cap THEN 0 ELSE @]
  BY <1>1, <1>2, <1>4, <1>5 DEF NewChild
<1>8. PICK pc \in Pcs, s \in 0..6 : /\ pc = IF idx <= cap THEN "find" ELSE "grow"
                                    /\ s = IF idx <= cap THEN 0 ELSE q.snap
  BY <1>3 DEF Pcs, Playing
<1>9. p = [q EXCEPT !.pc = pc, !.idx = idx, !.move = m, !.count = count, !.snap = s]
  BY <1>7, <1>8 DEF ThreadRecs
<1>10. /\ p.pc = pc /\ p.cur = q.cur /\ p.path = q.path /\ p.idx = idx /\ p.move = m
       /\ p.snap = s
  BY <1>6, <1>9 DEF ThreadRecs
<1>11. SameNode(q, r) /\ r.pc = pc /\ r.idx = idx /\ r.move = m /\ r.snap = s
  BY <1>10 DEF SameNode
<1>12. \/ r.pc = "find" /\ r.idx <= Capacity(q.snap)
       \/ r.pc = "grow" /\ r.idx > Capacity(q.snap) /\ r.snap = q.snap
  BY <1>5, <1>8, <1>11
<1>13. r.move \in Playable(n) \ MovesFound(n, q.snap)
  BY <1>1, <1>2, <1>11
<1>14. Chooses(q, r, n, nd[n], nd[n])
  BY <1>3, <1>4, <1>11, <1>12, <1>13 DEF Chooses
<1> QED
  BY <1>1, <1>2, <1>14, OnlyThread

LEMMA SelectNewEffect ==
  ASSUME IInv, NEW t \in Threads, NEW m \in Moves, NEW count \in BOOLEAN, SelectNew(t, m, count)
  PROVE  Affects(t)
<1>1. PICK r : r = NewChild(t, m, count)
  OBVIOUS
<1>2. /\ th[t].pc = "select" /\ th' = [th EXCEPT ![t] = r] /\ UNCHANGED <<nd, rootPos, allowed>>
      /\ m \in Playable(th[t].cur) \ MovesFound(th[t].cur, th[t].snap)
  BY <1>1 DEF SelectNew, Step, searchVars
<1>3. r \in ThreadRecs
  BY <1>1, <1>2, NewChildIs
<1> QED
  BY <1>1, <1>2, <1>3, NewChildEffect

LEMMA ForcePassEffect ==
  ASSUME IInv, NEW t \in Threads, NEW m \in Moves, ForcePass(t, m)
  PROVE  Affects(t)
<1>1. PICK p : p = NewChild(t, m, FALSE)
  OBVIOUS
<1>2. PICK r : r = [p EXCEPT !.counted = FALSE]
  OBVIOUS
<1>3. /\ th[t].pc = "select" /\ th' = [th EXCEPT ![t] = r] /\ UNCHANGED <<nd, rootPos, allowed>>
      /\ m \in Playable(th[t].cur) \ MovesFound(th[t].cur, th[t].snap)
  BY <1>1, <1>2 DEF ForcePass, Step, searchVars
<1>4. p \in ThreadRecs
  BY <1>1, <1>3, NewChildIs
<1>5. /\ r \in ThreadRecs /\ r.pc = p.pc /\ r.cur = p.cur /\ r.path = p.path
      /\ r.idx = p.idx /\ r.move = p.move /\ r.snap = p.snap
  BY <1>2, <1>4 DEF ThreadRecs
<1> QED
  BY <1>1, <1>3, <1>5, NewChildEffect

LEMMA SelectIllegalEffect ==
  ASSUME IInv, NEW t \in Threads, NEW m \in Moves, SelectIllegal(t, m)
  PROVE  Affects(t)
<1>1. PICK n \in Nodes : n = th[t].cur
  BY Here
<1>2. PICK e \in NodeRecs : e = nd[n] /\ NodeOK(n)
  BY NodeHere
<1>3. PICK d : d = [e EXCEPT !.output = TRUE]
  OBVIOUS
<1>4. d \in NodeRecs /\ SameCounts(e, d) /\ SameLoss(e, d) /\ SameRoom(e, d) /\ d.output
  BY <1>3, OutputBecomes
<1>5. PICK r \in ThreadRecs : r = Return(t, TRUE) /\ r.pc = "return" /\ SameNode(th[t], r)
  BY Here, ReturnIs DEF SameNode
<1>6. /\ th[t].pc = "select" /\ th' = [th EXCEPT ![t] = r] /\ nd' = [nd EXCEPT ![n] = d]
      /\ UNCHANGED <<rootPos, allowed>>
  BY <1>1, <1>2, <1>3, <1>5 DEF SelectIllegal, Step, searchVars
<1>7. e.visits > 0
  <2>1. e.state > 1
    BY <1>1, <1>2, <1>6, Here DEF Placed, InNode
  <2> QED
    BY <1>2, <2>1 DEF NodeOK, Evaluated, Unevaluated
<1>8. StoresOutput(th[t], r, e, d)
  BY <1>4, <1>5, <1>6, <1>7 DEF StoresOutput
<1> QED
  BY <1>1, <1>2, <1>4, <1>5, <1>6, <1>8, ThreadAndNode

LEMMA GrowChildrenEffect ==
  ASSUME IInv, NEW t \in Threads, GrowChildren(t)
  PROVE  Affects(t)
<1>1. PICK q \in ThreadRecs : q = th[t]
  BY Here
<1>2. PICK n \in Nodes : n = q.cur
  BY DEF ThreadRecs
<1>3. PICK e \in NodeRecs : e = nd[n]
  BY NodeHere
<1>4. PICK s \in 0..5 : s = q.snap
  BY <1>1 DEF GrowChildren, ThreadRecs
<1>5. q.pc = "grow" /\ UNCHANGED <<rootPos, allowed>>
  BY <1>1 DEF GrowChildren, Step, searchVars
<1>6. CASE s \in Growing \/ e.state # s
  <2>1. PICK z \in 0..6, pc \in Playing : z = s /\ pc = "reload"
    BY DEF Playing
  <2>2. PICK r : r = Selecting(t, pc, z)
    OBVIOUS
  <2>3. r \in ThreadRecs /\ r.pc = pc /\ SameNode(q, r)
    BY <1>1, <2>2, ReturnIs DEF SameNode
  <2>4. th' = [th EXCEPT ![t] = r] /\ UNCHANGED <<nd, rootPos, allowed>>
    BY <1>1, <1>2, <1>3, <1>4, <1>6, <2>1, <2>2 DEF GrowChildren, Step, searchVars
  <2>5. Chooses(q, r, n, e, e)
    BY <1>5, <2>1, <2>3 DEF Chooses
  <2> QED
    BY <1>1, <1>2, <1>3, <2>3, <2>4, <2>5, OnlyThread
<1>7. CASE ~(s \in Growing \/ e.state # s)
  <2>0. e.state > 1
    BY <1>1, <1>2, <1>3, <1>5, Here DEF Placed, InNode
  <2>1. s \in {2, 4} /\ e.state = s
    BY <1>7, <2>0 DEF Growing
  <2>2. PICK z \in 0..6, a \in Nat, pc \in Pcs : z = s + 1 /\ a = e.arrays + 1 /\ pc = "grown"
    BY <2>1 DEF NodeRecs, Pcs, Playing
  <2>3. PICK c, d : c = [e EXCEPT !.state = z] /\ d = [c EXCEPT !.arrays = a]
    OBVIOUS
  <2>4. /\ d \in NodeRecs /\ SameCounts(e, d) /\ SameLoss(e, d) /\ SameOutput(e, d)
        /\ d.slot = e.slot /\ d.state = z /\ d.arrays = a
    BY <2>3 DEF NodeRecs, SameCounts, SameLoss, SameOutput
  <2>5. PICK p, r : p = [q EXCEPT !.pc = pc] /\ r = [p EXCEPT !.snap = z]
    OBVIOUS
  <2>6. r \in ThreadRecs /\ r.pc = pc /\ SameSlot(q, r) /\ r.snap = z
    BY <2>5 DEF ThreadRecs, SameSlot, SameNode, Pcs
  <2>7. th' = [th EXCEPT ![t] = r]
    BY <1>1, <1>2, <1>3, <1>4, <1>7, <2>2, <2>5 DEF GrowChildren, Step
  <2>8. nd' = [nd EXCEPT ![n] = d]
    <3>1. nd' = [nd EXCEPT ![n].state = z, ![n].arrays = @ + 1]
      BY <1>1, <1>2, <1>3, <1>4, <1>7, <2>2 DEF GrowChildren
    <3> QED
      BY <1>3, <2>2, <2>3, <3>1, NodeHere DEF NodeRecs
  <2>9. Changes(q, r, e, d)
    BY <1>4, <1>5, <2>1, <2>2, <2>4, <2>6 DEF Changes, SameSlot
  <2> QED
    BY <1>1, <1>2, <1>3, <1>5, <2>4, <2>6, <2>7, <2>8, <2>9, ThreadAndNode
<1> QED
  BY <1>6, <1>7

LEMMA SelectAgainEffect ==
  ASSUME IInv, NEW t \in Threads, SelectAgain(t)
  PROVE  Affects(t)
<1>1. PICK q \in ThreadRecs : q = th[t]
  BY Here
<1>2. PICK n \in Nodes : n = q.cur
  BY DEF ThreadRecs
<1>3. PICK s \in 0..6, pc \in Playing : s = nd[n].state /\ pc = "select"
  BY NodeHere DEF NodeRecs, Playing
<1>4. PICK r : r = Selecting(t, pc, s)
  OBVIOUS
<1>5. r \in ThreadRecs /\ r.pc = pc /\ SameNode(q, r) /\ r.snap = s
  BY <1>1, <1>4, ReturnIs DEF SameNode
<1>6. q.pc = "reload" /\ th' = [th EXCEPT ![t] = r] /\ UNCHANGED <<nd, rootPos, allowed>>
  BY <1>1, <1>2, <1>3, <1>4 DEF SelectAgain, Step, searchVars
<1>7. Chooses(q, r, n, nd[n], nd[n])
  BY <1>3, <1>5, <1>6 DEF Chooses
<1> QED
  BY <1>1, <1>2, <1>5, <1>6, <1>7, OnlyThread

LEMMA PublishGrowthEffect ==
  ASSUME IInv, NEW t \in Threads, PublishGrowth(t)
  PROVE  Affects(t)
<1>1. PICK q \in ThreadRecs : q = th[t]
  BY Here
<1>2. PICK n \in Nodes : n = q.cur
  BY DEF ThreadRecs
<1>3. PICK e \in NodeRecs : e = nd[n]
  BY NodeHere
<1>4. q.pc = "grown" /\ q.snap \in {3, 5}
  BY <1>1, Here DEF PublishGrowth, Step, Placed
<1>5. PICK s \in 0..6, a \in Nat, pc \in Pcs, z \in 0..6 :
        s = q.snap + 1 /\ a = e.arrays /\ pc = "find" /\ z = 0
  BY <1>4 DEF NodeRecs, Pcs, Playing
<1>6. PICK c, d : c = [e EXCEPT !.state = s] /\ d = [c EXCEPT !.arrays = a]
  OBVIOUS
<1>7. /\ d \in NodeRecs /\ SameCounts(e, d) /\ SameLoss(e, d) /\ SameOutput(e, d)
      /\ d.slot = e.slot /\ d.state = s /\ d.arrays = a
  BY <1>6 DEF NodeRecs, SameCounts, SameLoss, SameOutput
<1>8. [e EXCEPT !.state = s] = d
  BY <1>5, <1>6 DEF NodeRecs
<1>9. PICK p, r : p = [q EXCEPT !.pc = pc] /\ r = [p EXCEPT !.snap = z]
  OBVIOUS
<1>10. r \in ThreadRecs /\ r.pc = pc /\ SameSlot(q, r)
  BY <1>9 DEF ThreadRecs, SameSlot, SameNode, Pcs
<1>11. th' = [th EXCEPT ![t] = r] /\ nd' = [nd EXCEPT ![n] = d] /\ UNCHANGED <<rootPos, allowed>>
  BY <1>1, <1>2, <1>3, <1>5, <1>8, <1>9 DEF PublishGrowth, Step, searchVars
<1>12. Changes(q, r, e, d)
  BY <1>4, <1>5, <1>7, <1>10 DEF Changes, SameSlot
<1> QED
  BY <1>1, <1>2, <1>3, <1>7, <1>10, <1>11, <1>12, ThreadAndNode

LEMMA FindNodeEffect ==
  ASSUME IInv, NEW t \in Threads, FindNode(t)
  PROVE  Affects(t)
<1>1. PICK q \in ThreadRecs : q = th[t]
  BY Here
<1>2. q.pc = "find"
  BY <1>1 DEF FindNode, Step
<1>3. PICK c \in Nodes : c = Child(t)
  BY <1>1, <1>2, ChildHere DEF ForSlot
<1>4. PICK pc \in Pcs, v \in Int : pc = "claim" /\ v = nd[c].vl + 1
  BY NodeHere DEF NodeRecs, Pcs, Playing
<1>5. PICK r : r = [q EXCEPT !.pc = pc]
  OBVIOUS
<1>6. r \in ThreadRecs /\ r.pc = pc /\ SameSlot(q, r)
  BY <1>5, GoesTo
<1>7. th' = [th EXCEPT ![t] = r] /\ UNCHANGED <<rootPos, allowed>>
  BY <1>1, <1>4, <1>5 DEF FindNode, Step, searchVars
<1>8. nd' = [nd EXCEPT ![c].vl = v]
  <2>1. nd \in [Nodes -> NodeRecs]
    BY NodeHere
  <2> QED
    BY <1>3, <1>4, <2>1 DEF FindNode
<1>9. PICK d \in NodeRecs : Loses(nd[c], d, 1) /\ nd' = [nd EXCEPT ![c] = d]
  BY <1>4, <1>8, LossIs, 1 \in Int
<1>10. Takes(q, r, c, nd[c], d)
  BY <1>1, <1>2, <1>3, <1>4, <1>6, <1>9 DEF Takes, SameSlot, SameNode, Child
<1> QED
  BY <1>1, <1>6, <1>7, <1>9, <1>10, ThreadAndChild

\* The virtual loss on the child taken back, and the node left.
LEMMA LetsGoIs ==
  ASSUME IInv, NEW t \in Threads, NEW r \in ThreadRecs, th' = [th EXCEPT ![t] = r],
         r.pc = "return", SameNode(th[t], r), UNCHANGED <<rootPos, allowed>>,
         th[t].pc \in {"claim", "catchUp", "leave"},
         th[t].pc = "catchUp" => nd[Child(t)].visits > 0,
         nd' = [nd EXCEPT ![Child(t)].vl = @ - 1]
  PROVE  Affects(t)
<1>1. PICK c \in Nodes : c = Child(t)
  BY ChildHere DEF ForSlot, AtChild
<1>2. PICK v \in Int, x \in Int : v = nd[c].vl + x /\ x = -1
  BY NodeHere DEF NodeRecs
<1>3. nd' = [nd EXCEPT ![c].vl = v]
  <2>1. nd \in [Nodes -> NodeRecs] /\ nd[c].vl - 1 = v
    BY <1>2, NodeHere DEF NodeRecs
  <2> QED
    BY <1>1, <2>1
<1>4. PICK d \in NodeRecs : Loses(nd[c], d, x) /\ nd' = [nd EXCEPT ![c] = d]
  BY ZenonT(30), <1>2, <1>3, LossIs
<1>5. LetsGo(th[t], r, c, nd[c], d)
  BY <1>1, <1>2, <1>4 DEF LetsGo, Child
<1> QED
  BY <1>4, <1>5, ThreadAndChild

LEMMA LostRaceEffect ==
  ASSUME IInv, NEW t \in Threads, LostRace(t)
  PROVE  Affects(t)
<1>1. PICK r \in ThreadRecs : r = GiveUp(t) /\ r.pc = "return" /\ SameNode(th[t], r)
  BY Here, ReturnIs DEF SameNode
<1>2. /\ th[t].pc = "claim" /\ th' = [th EXCEPT ![t] = r] /\ UNCHANGED <<rootPos, allowed>>
      /\ nd' = [nd EXCEPT ![Child(t)].vl = @ - 1]
  BY <1>1 DEF LostRace, Step, searchVars
<1> QED
  BY <1>1, <1>2, LetsGoIs

LEMMA LeaveChildEffect ==
  ASSUME IInv, NEW t \in Threads, LeaveChild(t)
  PROVE  Affects(t)
<1>1. PICK r \in ThreadRecs : r = Return(t, TRUE) /\ r.pc = "return" /\ SameNode(th[t], r)
  BY Here, ReturnIs DEF SameNode
<1>2. /\ th[t].pc = "leave" /\ th' = [th EXCEPT ![t] = r] /\ UNCHANGED <<rootPos, allowed>>
      /\ nd' = [nd EXCEPT ![Child(t)].vl = @ - 1]
  BY <1>1 DEF LeaveChild, Step, searchVars
<1> QED
  BY <1>1, <1>2, LetsGoIs

LEMMA ClaimSlotEffect ==
  ASSUME IInv, NEW t \in Threads, ClaimSlot(t)
  PROVE  Affects(t)
<1>1. PICK q \in ThreadRecs : q = th[t]
  BY Here
<1>2. PICK n \in Nodes : n = q.cur
  BY DEF ThreadRecs
<1>3. PICK e \in NodeRecs : e = nd[n]
  BY NodeHere
<1>4. q.pc = "claim" /\ e.slot[q.idx] = None /\ UNCHANGED <<rootPos, allowed>>
  BY <1>1, <1>2, <1>3 DEF ClaimSlot, Step, searchVars
<1>5. q.idx \in Slots /\ q.move \in Moves
  BY <1>1, <1>4, ChildHere, Here DEF Placed, ForSlot
<1>6. PICK f \in [Slots -> Moves \cup {None}] : f = [e.slot EXCEPT ![q.idx] = q.move]
  BY <1>5 DEF NodeRecs
<1>7. PICK d : d = [e EXCEPT !.slot = f]
  OBVIOUS
<1>8. /\ d \in NodeRecs /\ SameCounts(e, d) /\ SameLoss(e, d) /\ SameOutput(e, d)
      /\ d.state = e.state /\ d.arrays = e.arrays /\ d.slot = f
  BY <1>7, SlotsBecome
<1>9. PICK pc \in Pcs : pc = "catchUp"
  BY DEF Pcs, Playing
<1>10. PICK r : r = [q EXCEPT !.pc = pc]
  OBVIOUS
<1>11. r \in ThreadRecs /\ r.pc = pc /\ SameSlot(q, r)
  BY <1>10, GoesTo
<1>12. th' = [th EXCEPT ![t] = r] /\ nd' = [nd EXCEPT ![n] = d]
  BY <1>1, <1>2, <1>3, <1>6, <1>7, <1>9, <1>10 DEF ClaimSlot, Step
<1>13. Claims(q, r, e, d)
  BY <1>4, <1>5, <1>6, <1>8, <1>9, <1>11 DEF Claims
<1> QED
  BY <1>1, <1>2, <1>3, <1>4, <1>8, <1>11, <1>12, <1>13, ThreadAndNode

\* A visit of an edge counted, which the thread goes on to announce.
LEMMA EdgeIs ==
  ASSUME IInv, NEW n \in Nodes, NEW i \in Slots, nd' = [nd EXCEPT ![n].edge[i] = @ + 1]
  PROVE  \E d \in NodeRecs :
           /\ Counts(nd[n], d) /\ nd' = [nd EXCEPT ![n] = d]
           /\ d.visits = nd[n].visits /\ d.leaf = nd[n].leaf /\ d.dirty = nd[n].dirty
           /\ d.edge = [nd[n].edge EXCEPT ![i] = @ + 1]
<1>1. PICK e \in NodeRecs : e = nd[n]
  BY NodeHere
<1>2. PICK f \in [Slots -> Nat] : f = [e.edge EXCEPT ![i] = @ + 1]
  <2>1. PICK g \in [Slots -> Nat] : g = e.edge
    BY DEF NodeRecs
  <2>2. PICK v \in Nat : v = g[i] + 1
    OBVIOUS
  <2>3. [g EXCEPT ![i] = v] \in [Slots -> Nat]
    OBVIOUS
  <2> QED
    BY <2>1, <2>2, <2>3
<1>3. PICK d : d = [e EXCEPT !.edge = f]
  OBVIOUS
<1>4. /\ d \in NodeRecs /\ Counts(e, d) /\ d.edge = f /\ d.dirty = e.dirty
      /\ d.visits = e.visits /\ d.leaf = e.leaf
  BY <1>3, EdgesBecome
<1>5. nd' = [nd EXCEPT ![n] = d]
  BY <1>1, <1>2, <1>3, NodeHere DEF NodeRecs
<1> QED
  BY <1>1, <1>2, <1>4, <1>5

LEMMA CountsChild ==
  ASSUME IInv, NEW t \in Threads, th[t].pc = "catchUp", nd[Child(t)].visits > 0,
         th' = [th EXCEPT ![t] = [th[t] EXCEPT !.pc = "announce"]],
         AddEdgeVisit(t), UNCHANGED searchVars
  PROVE  Affects(t)
<1>1. PICK q \in ThreadRecs : q = th[t]
  BY Here
<1>2. PICK n \in Nodes, i \in Slots : n = q.cur /\ i = q.idx
  BY <1>1, Here, AtChildIs DEF AtChild
<1>3. nd' = [nd EXCEPT ![n].edge[i] = @ + 1]
  BY <1>1, <1>2 DEF AddEdgeVisit
<1>4. PICK d \in NodeRecs :
        /\ Counts(nd[n], d) /\ nd' = [nd EXCEPT ![n] = d]
        /\ d.visits = nd[n].visits /\ d.leaf = nd[n].leaf /\ d.dirty = nd[n].dirty
        /\ d.edge = [nd[n].edge EXCEPT ![i] = @ + 1]
  BY <1>3, EdgeIs
<1>5. PICK pc \in Pcs : pc = "announce"
  BY DEF Pcs, Playing
<1>6. PICK r : r = [q EXCEPT !.pc = pc]
  OBVIOUS
<1>7. r \in ThreadRecs /\ r.pc = pc /\ SameSlot(q, r)
  BY <1>6, GoesTo
<1>8. th' = [th EXCEPT ![t] = r] /\ UNCHANGED <<rootPos, allowed>>
  BY <1>1, <1>5, <1>6 DEF searchVars
<1>9. n = r.cur /\ nd[ChildOf(q.cur, q.move)].visits > 0 /\ q.pc = "catchUp"
  BY <1>1, <1>2, <1>7 DEF SameSlot, SameNode, Child
<1>10. AddsEdge(q, r, n, nd[n], d)
  BY <1>4, <1>5, <1>7, <1>9 DEF AddsEdge
<1> QED
  BY <1>1, <1>4, <1>7, <1>8, <1>10, ThreadAndChild

LEMMA CatchUpEffect ==
  ASSUME IInv, NEW t \in Threads, CatchUp(t)
  PROVE  Affects(t)
<1>1. th[t].pc = "catchUp" /\ th' = [th EXCEPT ![t] = [th[t] EXCEPT !.pc = "announce"]]
  BY DEF CatchUp, Step
<1>2. th[t].cur \in Nodes /\ nd \in [Nodes -> NodeRecs] /\ th[t].idx \in Slots
  BY <1>1, Here, AtChildIs DEF AtChild
<1>3. Child(t) \in Nodes
  BY <1>1, ChildHere DEF ForSlot, AtChild
<1>4. nd[th[t].cur].edge[th[t].idx] \in Nat /\ nd[Child(t)].visits \in Nat
  BY <1>2, <1>3 DEF NodeRecs
<1>5. nd[Child(t)].visits > 0
  BY <1>4 DEF CatchUp, EdgeBehind
<1> QED
  BY <1>1, <1>5, CountsChild DEF CatchUp

LEMMA CloseCycleEffect ==
  ASSUME IInv, NEW t \in Threads, CloseCycle(t)
  PROVE  Affects(t)
<1>1. th[t].pc = "catchUp" /\ UNCHANGED searchVars /\ Child(t) \in Visited(t)
  BY DEF CloseCycle
<1>2. nd[Child(t)].visits > 0
  BY <1>1, VisitedIs
<1>3. CASE th[t].count
  BY <1>1, <1>2, <1>3, CountsChild DEF CloseCycle, Step
<1>4. CASE ~th[t].count
  <2>1. PICK r \in ThreadRecs : r = Return(t, FALSE) /\ r.pc = "return" /\ SameNode(th[t], r)
    BY Here, ReturnIs DEF SameNode
  <2>2. /\ th' = [th EXCEPT ![t] = r] /\ nd' = [nd EXCEPT ![Child(t)].vl = @ - 1]
        /\ UNCHANGED <<rootPos, allowed>>
    BY <1>4, <2>1 DEF CloseCycle, Step, searchVars
  <2> QED
    BY <1>1, <1>2, <2>1, <2>2, LetsGoIs
<1> QED
  BY <1>3, <1>4

LEMMA DescendEffect ==
  ASSUME IInv, NEW t \in Threads, Descend(t)
  PROVE  Affects(t)
<1>1. th[t].pc = "catchUp" /\ UNCHANGED <<nd, searchVars>>
  BY DEF Descend
<1>2. PICK q \in ThreadRecs : q = th[t]
  BY Here
<1>3. /\ q.idx \in Slots /\ q.move \in Moves /\ q.cur \in Nodes
      /\ Child(t) \in Nodes /\ Child(t) = ChildOf(q.cur, q.move)
  BY <1>1, <1>2, AtChildIs, ChildHere, Here DEF AtChild, ForSlot, Child
<1>4. PICK f \in Frames : f = [node |-> q.cur, idx |-> q.idx, move |-> q.move, count |-> q.count]
  BY <1>3 DEF Frames, ThreadRecs
<1>5. PICK p : p = Return(t, FALSE)
  OBVIOUS
<1>6. p \in ThreadRecs /\ p.path = q.path
  BY <1>2, <1>5, ReturnIs
<1>7. PICK pc \in Playing : pc = "visit"
  BY DEF Playing
<1>8. PICK s \in Seq(Frames) : s = Append(q.path, f)
  <2>1. q.path \in Seq(Frames)
    BY DEF ThreadRecs
  <2> QED
    BY <2>1, AppendProperties
<1>9. PICK r : r = [p EXCEPT !.pc = pc, !.cur = Child(t), !.path = s]
  OBVIOUS
<1>10. r \in ThreadRecs /\ r.pc = pc /\ r.cur = Child(t) /\ r.path = s
  BY <1>3, <1>6, <1>9 DEF ThreadRecs
<1>11. th' = [th EXCEPT ![t] = r] /\ UNCHANGED <<nd, rootPos, allowed>>
  <2>1. th' = [th EXCEPT ![t] = r]
    BY <1>2, <1>4, <1>5, <1>6, <1>7, <1>8, <1>9 DEF Descend, Step
  <2> QED
    BY <1>1, <2>1 DEF searchVars
<1>12. Descends(q, r, nd[q.cur], nd[q.cur])
  <2>1. q.pc = "catchUp" /\ r.pc = "visit" /\ r.cur = ChildOf(q.cur, q.move)
    BY <1>1, <1>2, <1>3, <1>7, <1>10
  <2>2. f.node = q.cur /\ f.move = q.move /\ r.path = Append(q.path, f)
    BY <1>4, <1>8, <1>10
  <2> QED
    BY <2>1, <2>2 DEF Descends
<1> QED
  BY <1>2, <1>10, <1>11, <1>12, OnlyThread

LEMMA ReturnToParentEffect ==
  ASSUME IInv, NEW t \in Threads, ReturnToParent(t)
  PROVE  Affects(t)
<1>1. th[t].pc = "return" /\ th[t].path # <<>> /\ UNCHANGED searchVars
  BY DEF ReturnToParent
<1>2. PICK q \in ThreadRecs : q = th[t]
  BY Here
<1>4. q.path \in Seq(Frames) /\ Len(q.path) \in 1..Len(q.path)
  <2>1. q.path \in Seq(Frames)
    BY DEF ThreadRecs
  <2> QED
    BY <1>1, <1>2, <2>1
<1>5. PICK f \in Frames : f = Top(q)
  BY <1>4 DEF Top
<1>6. f.node \in Nodes /\ f.idx \in Slots /\ f.move \in Moves /\ f.count \in BOOLEAN
  BY DEF Frames
<1>7. ChildOf(f.node, f.move) = q.cur /\ q.cur \in Nodes
  <2>1. Below(q, Len(q.path)) = q.cur
    BY <1>4 DEF Below
  <2>2. Linked(q) /\ q.cur \in Nodes
    BY <1>2, Here
  <2> QED
    BY <1>4, <1>5, <2>1, <2>2 DEF Linked, Top
<1>8. PICK s \in Seq(Frames) : s = SubSeq(q.path, 1, Len(q.path) - 1)
  <2>1. Len(q.path) - 1 \in 0..Len(q.path)
    BY <1>4
  <2>2. SubSeq(q.path, 1, Len(q.path) - 1) \in Seq(Frames)
    <3>1. \A i \in 1..(Len(q.path) - 1) : i \in 1..Len(q.path)
      BY <1>4
    <3> QED
      BY <1>4, <2>1, <3>1, SubSeqProperties
  <2> QED
    BY <2>2
<1>9. Above(t) = s /\ f = th[t].path[Len(th[t].path)] /\ UNCHANGED <<rootPos, allowed>>
  BY <1>1, <1>2, <1>5, <1>8 DEF Above, Top, searchVars
<1>10. CASE q.ret /\ f.count
  <2>1. PICK pc \in Playing : pc = "announce"
    BY DEF Playing
  <2>2. PICK r : r = [q EXCEPT !.cur = f.node, !.idx = f.idx, !.move = f.move,
                               !.count = f.count, !.path = s, !.pc = pc]
    OBVIOUS
  <2>3. f.idx \in Nat /\ f.move \in Moves \cup {None}
    BY <1>6, LevelsFacts
  <2>4. /\ r \in ThreadRecs /\ r.pc = pc /\ r.cur = f.node /\ r.move = f.move
        /\ r.path = s
    BY <1>6, <2>2, <2>3 DEF ThreadRecs
  <2>5. [Popped(t) EXCEPT !.pc = "announce"] = r
    BY <1>2, <1>9, <2>1, <2>2 DEF Popped
  <2>6. th' = [th EXCEPT ![t] = r] /\ nd' = [nd EXCEPT ![f.node].edge[f.idx] = @ + 1]
    BY Zenon, <1>2, <1>9, <1>10, <2>5 DEF ReturnToParent, Step
  <2>7. PICK n \in Nodes, i \in Slots : n = f.node /\ i = f.idx
    BY <1>6
  <2>8. PICK d \in NodeRecs :
          /\ Counts(nd[n], d) /\ nd' = [nd EXCEPT ![n] = d]
          /\ d.visits = nd[n].visits /\ d.leaf = nd[n].leaf /\ d.dirty = nd[n].dirty
          /\ d.edge = [nd[n].edge EXCEPT ![i] = @ + 1]
    BY <2>6, <2>7, EdgeIs
  <2>9. Pops(q, r) /\ r.move = Top(q).move
    BY <1>1, <1>2, <1>5, <1>8, <2>4 DEF Pops
  <2>10. AddsEdge(q, r, n, nd[n], d)
    BY <2>1, <2>4, <2>7, <2>8, <2>9 DEF AddsEdge
  <2>11. nd' = [nd EXCEPT ![n] = d] /\ th' = [th EXCEPT ![t] = r]
    BY <2>6, <2>8
  <2> QED
    BY <1>2, <1>9, <2>4, <2>10, <2>11, ThreadAndChild
<1>11. CASE ~(q.ret /\ f.count)
  <2>1. PICK p : p = Return(t, FALSE)
    OBVIOUS
  <2>2. p \in ThreadRecs /\ p.pc = "return"
    BY <1>2, <2>1, ReturnIs
  <2>3. PICK r : r = [p EXCEPT !.cur = f.node, !.path = s]
    OBVIOUS
  <2>4. /\ r \in ThreadRecs /\ r.pc = "return" /\ r.cur = f.node /\ r.path = s
    BY <1>6, <2>2, <2>3 DEF ThreadRecs
  <2>5. PICK c \in Nodes : c = ChildOf(f.node, f.move)
    BY <1>7
  <2>6. PICK v \in Int, x \in Int : v = nd[c].vl + x /\ x = -1
    BY SMTT(30), NodeHere DEF NodeRecs
  <2>7. th' = [th EXCEPT ![t] = r] /\ nd' = [nd EXCEPT ![c].vl = v]
    <3>1. nd \in [Nodes -> NodeRecs] /\ nd[c].vl - 1 = v
      BY <2>6, NodeHere DEF NodeRecs
    <3> QED
      BY Zenon, <1>2, <1>9, <1>11, <2>1, <2>3, <2>5, <3>1 DEF ReturnToParent, Step
  <2>8. PICK d \in NodeRecs : Loses(nd[c], d, x) /\ nd' = [nd EXCEPT ![c] = d]
    BY <2>6, <2>7, LossIs
  <2>9. Pops(q, r)
    BY <1>1, <1>2, <1>5, <1>8, <2>4 DEF Pops
  <2>10. Returns(q, r, c, nd[c], d)
    BY <1>5, <2>4, <2>5, <2>6, <2>8, <2>9 DEF Returns
  <2> QED
    BY <1>2, <1>9, <2>4, <2>7, <2>8, <2>10, ThreadAndChild
<1> QED
  BY <1>10, <1>11

LEMMA AnnounceVisitEffect ==
  ASSUME IInv, NEW t \in Threads, AnnounceVisit(t)
  PROVE  Affects(t)
<1>1. PICK q \in ThreadRecs : q = th[t]
  BY Here
<1>2. PICK n \in Nodes : n = q.cur
  BY DEF ThreadRecs
<1>3. PICK e \in NodeRecs : e = nd[n]
  BY NodeHere
<1>4. PICK v \in Nat : v = e.dirty + 1
  BY DEF NodeRecs
<1>5. PICK d : d = [e EXCEPT !.dirty = v]
  OBVIOUS
<1>6. /\ d \in NodeRecs /\ Counts(e, d) /\ d.edge = e.edge /\ d.dirty = v
      /\ d.visits = e.visits /\ d.leaf = e.leaf
  BY <1>5, DirtyBecomes
<1>7. PICK a \in Pcs, b \in Pcs, k \in Nat : a = "leave" /\ b = "recompute" /\ k = 1
  BY DEF Pcs, Playing
<1>8. PICK r : r = IF e.dirty > 0 THEN [q EXCEPT !.pc = a] ELSE [q EXCEPT !.pc = b, !.pending = k]
  OBVIOUS
<1>9. r \in ThreadRecs /\ SameSlot(q, r) /\ r.pc \in {"leave", "recompute"}
  <2>1. CASE e.dirty > 0
    BY <1>7, <1>8, <2>1, GoesTo
  <2>2. CASE ~(e.dirty > 0)
    <3>1. r = [q EXCEPT !.pc = b, !.pending = k]
      BY <1>8, <2>2
    <3>2. r \in ThreadRecs /\ SameSlot(q, r) /\ r.pc = b
      BY <3>1 DEF ThreadRecs, SameSlot, SameNode, Pcs
    <3> QED
      BY <1>7, <3>2
  <2> QED
    BY <2>1, <2>2
<1>10. /\ q.pc = "announce" /\ th' = [th EXCEPT ![t] = r] /\ nd' = [nd EXCEPT ![n] = d]
       /\ UNCHANGED <<rootPos, allowed>>
  BY <1>1, <1>2, <1>3, <1>4, <1>5, <1>7, <1>8 DEF AnnounceVisit, Step, searchVars
<1>11. Updates(q, r, e, d)
  BY <1>4, <1>6, <1>9, <1>10 DEF Updates
<1> QED
  BY <1>1, <1>2, <1>3, <1>6, <1>9, <1>10, <1>11, ThreadAndNode

LEMMA ReadChildrenEffect ==
  ASSUME IInv, NEW t \in Threads, ReadChildren(t)
  PROVE  Affects(t)
<1>1. PICK q \in ThreadRecs : q = th[t]
  BY Here
<1>2. PICK n \in Nodes : n = q.cur
  BY DEF ThreadRecs
<1>3. PICK e \in NodeRecs : e = nd[n]
  BY NodeHere
<1>4. EdgesOf(n) = e.edge /\ e.edge \in [Slots -> Nat]
  BY <1>3, NodeHere DEF EdgesOf, NodeOK, NodeRecs
<1>5. PICK f \in [Slots -> Nat], pc \in Pcs : f = e.edge /\ pc = "store"
  BY <1>4 DEF Pcs, Playing
<1>6. PICK r : r = [q EXCEPT !.pc = pc, !.read = f]
  OBVIOUS
<1>7. r \in ThreadRecs /\ SameSlot(q, r) /\ r.pc = pc
  BY <1>6 DEF ThreadRecs, SameSlot, SameNode, Pcs
<1>8. q.pc = "recompute" /\ th' = [th EXCEPT ![t] = r] /\ UNCHANGED <<nd, rootPos, allowed>>
  BY <1>1, <1>2, <1>4, <1>5, <1>6 DEF ReadChildren, Step, searchVars
<1>9. Updates(q, r, e, e)
  BY <1>5, <1>7, <1>8 DEF Updates, Counts, SameRoom, SameLoss, SameOutput
<1> QED
  BY <1>1, <1>2, <1>3, <1>7, <1>8, <1>9, OnlyThread

LEMMA StoreStatsEffect ==
  ASSUME IInv, NEW t \in Threads, StoreStats(t)
  PROVE  Affects(t)
<1>1. PICK q \in ThreadRecs : q = th[t]
  BY Here
<1>2. PICK n \in Nodes : n = q.cur
  BY DEF ThreadRecs
<1>3. PICK e \in NodeRecs : e = nd[n]
  BY NodeHere
<1>4. PICK v \in Nat : v = e.visits + q.pending
  BY DEF NodeRecs, ThreadRecs
<1>5. PICK f \in [Slots -> Nat] : f = q.read
  BY DEF ThreadRecs
<1>6. PICK c, d : c = [e EXCEPT !.seen = f] /\ d = [c EXCEPT !.visits = v]
  OBVIOUS
<1>7. /\ d \in NodeRecs /\ Counts(e, d) /\ d.edge = e.edge /\ d.dirty = e.dirty
      /\ d.visits = v /\ d.leaf = e.leaf
  BY <1>6 DEF NodeRecs, Counts, SameRoom, SameLoss, SameOutput
<1>8. PICK pc \in Pcs, z \in [Slots -> Nat] : pc = "settle" /\ z = NoEdges
  BY FreshNodeIs DEF Pcs, Playing
<1>9. PICK r : r = [q EXCEPT !.pc = pc, !.read = z]
  OBVIOUS
<1>10. r \in ThreadRecs /\ SameSlot(q, r) /\ r.pc = pc /\ r.pending = q.pending
  BY <1>9 DEF ThreadRecs, SameSlot, SameNode, Pcs
<1>11. q.pc = "store" /\ th' = [th EXCEPT ![t] = r] /\ UNCHANGED <<rootPos, allowed>>
  BY <1>1, <1>8, <1>9 DEF StoreStats, Step, searchVars
<1>12. nd' = [nd EXCEPT ![n] = d]
  <2>1. nd' = [nd EXCEPT ![n].seen = f, ![n].visits = @ + q.pending]
    BY <1>1, <1>2, <1>5 DEF StoreStats
  <2> QED
    BY <1>3, <1>4, <1>6, <2>1, NodeHere DEF NodeRecs
<1>13. Updates(q, r, e, d)
  BY <1>4, <1>7, <1>8, <1>10, <1>11 DEF Updates
<1> QED
  BY <1>1, <1>2, <1>3, <1>7, <1>10, <1>11, <1>12, <1>13, ThreadAndNode

LEMMA SettleEffect ==
  ASSUME IInv, NEW t \in Threads, Settle(t)
  PROVE  Affects(t)
<1>1. PICK q \in ThreadRecs : q = th[t]
  BY Here
<1>2. PICK n \in Nodes : n = q.cur
  BY DEF ThreadRecs
<1>3. PICK e \in NodeRecs : e = nd[n]
  BY NodeHere
<1>4. q.pc = "settle" /\ UNCHANGED <<rootPos, allowed>>
  BY <1>1 DEF Settle, Step, searchVars
<1>5. PICK left \in Nat : left = e.dirty - q.pending
  <2>1. q.pending \in Nat /\ e.dirty \in Nat /\ q.pending <= e.dirty
    BY <1>1, <1>2, <1>3, <1>4, UpdaterIs DEF Updating
  <2> QED
    BY <2>1
<1>6. PICK d : d = [e EXCEPT !.dirty = left]
  OBVIOUS
<1>7. /\ d \in NodeRecs /\ Counts(e, d) /\ d.edge = e.edge /\ d.dirty = left
      /\ d.visits = e.visits /\ d.leaf = e.leaf
  BY <1>6, DirtyBecomes
<1>8. PICK a \in Pcs, b \in Pcs, z \in Nat : a = "leave" /\ b = "recompute" /\ z = 0
  BY DEF Pcs, Playing
<1>9. PICK r : r = IF left = 0 THEN [q EXCEPT !.pc = a, !.pending = z]
                   ELSE [q EXCEPT !.pc = b, !.pending = left]
  OBVIOUS
<1>10. r \in ThreadRecs /\ SameSlot(q, r) /\ r.pc \in {a, b}
  <2>1. CASE left = 0
    <3>1. r = [q EXCEPT !.pc = a, !.pending = z]
      BY <1>9, <2>1
    <3> QED
      BY <3>1 DEF ThreadRecs, SameSlot, SameNode, Pcs
  <2>2. CASE left # 0
    <3>1. r = [q EXCEPT !.pc = b, !.pending = left]
      BY <1>9, <2>2
    <3> QED
      BY <3>1 DEF ThreadRecs, SameSlot, SameNode, Pcs
  <2> QED
    BY <2>1, <2>2
<1>11. th' = [th EXCEPT ![t] = r] /\ nd' = [nd EXCEPT ![n] = d]
  BY <1>1, <1>2, <1>3, <1>5, <1>6, <1>8, <1>9 DEF Settle, Step
<1>12. Updates(q, r, e, d)
  BY <1>4, <1>5, <1>7, <1>8, <1>10 DEF Updates
<1> QED
  BY <1>1, <1>2, <1>3, <1>4, <1>7, <1>10, <1>11, <1>12, ThreadAndNode

\* Every step of a thread has an effect of one of these kinds.
LEMMA EveryEffect ==
  ASSUME IInv, NEW t \in Threads, ThreadStep(t) \/ StopSearching(t)
  PROVE  Affects(t)
BY LoopEffect, VisitTerminalEffect, VisitNodeEffect, StoreOutputEffect,
   CountEvaluationEffect, ClaimExpansionEffect, PublishExpansionEffect,
   SelectNothingEffect, SelectExistingEffect, SelectNewEffect, ForcePassEffect,
   SelectIllegalEffect, GrowChildrenEffect, SelectAgainEffect, PublishGrowthEffect,
   FindNodeEffect, ClaimSlotEffect, LostRaceEffect, CatchUpEffect, DescendEffect,
   CloseCycleEffect, ReturnToParentEffect, AnnounceVisitEffect, ReadChildrenEffect,
   StoreStatsEffect, SettleEffect, LeaveChildEffect DEF ThreadStep

\* One thread and one node change.
LEMMA AfterEffect ==
  ASSUME IInv, NEW t \in Threads, NEW r \in ThreadRecs, NEW n \in Nodes, NEW d \in NodeRecs,
         Does(t, r, n, d)
  PROVE  /\ th \in [Threads -> ThreadRecs] /\ nd \in [Nodes -> NodeRecs]
         /\ th[t] \in ThreadRecs /\ nd[n] \in NodeRecs /\ th[t].cur \in Nodes
         /\ th' \in [Threads -> ThreadRecs] /\ nd' \in [Nodes -> NodeRecs]
         /\ th'[t] = r /\ \A u \in Threads \ {t} : th'[u] = th[u]
         /\ nd'[n] = d /\ \A k \in Nodes \ {n} : nd'[k] = nd[k]
         /\ \A k : At(k)' = At(k) /\ \A m : ChildOf(k, m)' = ChildOf(k, m)
<1>1. th \in [Threads -> ThreadRecs] /\ nd \in [Nodes -> NodeRecs] /\ th[t].cur \in Nodes
  BY Here
<1>2. th' = [th EXCEPT ![t] = r] /\ nd' = [nd EXCEPT ![n] = d] /\ rootPos' = rootPos
  BY DEF Does
<1> QED
  BY <1>1, <1>2 DEF At, ChildOf

(***************************************************************************)
(* States and arrays: the state says how many arrays there are, and which  *)
(* thread is about to move it on.                                          *)
(***************************************************************************)
RoomInv ==
  /\ \A n \in Nodes :
       /\ nd[n].arrays = (nd[n].state + 1) \div 2
       /\ nd[n].state \in Growing => \E t \in Threads : In(t, {"grown"}, n)
       /\ nd[n].state = Evaluating => \E t \in Threads : In(t, {"publish"}, n)
  /\ \A t \in Threads :
       /\ th[t].pc = "grown" => nd[th[t].cur].state = th[t].snap
       /\ th[t].pc \in {"select", "grow"} => th[t].snap <= nd[th[t].cur].state
  /\ \A t, u \in Threads :
       th[t].pc = "grown" /\ th[u].pc = "grown" /\ th[t].cur = th[u].cur => t = u

\* A step changes the state of a node as Changes says, or not at all.
KeepsRoom(q, r, n, e, d) ==
  /\ d.state = e.state /\ d.arrays = e.arrays
  /\ q.pc \notin {"grown", "publish"} /\ r.pc \notin {"grown", "publish"}
  /\ r.pc \in {"select", "grow"} => r.cur = n /\ r.snap <= e.state

LEMMA RoomEffect ==
  ASSUME IInv, RoomInv, NEW t \in Threads, NEW r \in ThreadRecs, NEW n \in Nodes,
         NEW d \in NodeRecs, Effect(t, r, n, d)
  PROVE  \/ KeepsRoom(th[t], r, n, nd[n], d)
         \/ Changes(th[t], r, nd[n], d) /\ n = th[t].cur
<1>1. PICK q \in ThreadRecs, e \in NodeRecs : q = th[t] /\ e = nd[n]
  BY NodeHere, Here
<1>2. e.state \in Int /\ (q.pc \in {"select", "grow"} => q.snap <= nd[q.cur].state)
  <2>1. e.state \in Int
    BY DEF NodeRecs
  <2> QED
    BY <1>1, <2>1 DEF RoomInv
<1> SUFFICES KeepsRoom(q, r, n, e, d) \/ (Changes(q, r, e, d) /\ n = q.cur)
  BY <1>1
<1>3. CASE n = q.cur /\ Arrives(q, r, e, d)
  BY <1>2, <1>3 DEF Arrives, KeepsRoom, SameNode
<1>4. CASE CountsLeaf(q, r, e, d)
  BY <1>4 DEF CountsLeaf, KeepsRoom, Counts, SameRoom
<1>5. CASE StoresOutput(q, r, e, d)
  BY <1>5 DEF StoresOutput, KeepsRoom, SameRoom
<1>6. CASE n = q.cur /\ Chooses(q, r, n, e, d)
  BY <1>1, <1>2, <1>6 DEF Chooses, KeepsRoom, SameNode
<1>7. CASE Claims(q, r, e, d)
  BY <1>7 DEF Claims, KeepsRoom
<1>8. CASE Updates(q, r, e, d)
  BY <1>8 DEF Updates, KeepsRoom, Counts, SameRoom
<1>9. CASE Turns(q, r, e, d)
  BY <1>9 DEF Turns, KeepsRoom
<1>10. CASE Takes(q, r, n, e, d)
  BY <1>10 DEF Takes, KeepsRoom, Loses, SameRoom
<1>11. CASE LetsGo(q, r, n, e, d) \/ Returns(q, r, n, e, d)
  BY <1>11 DEF LetsGo, Returns, Pops, KeepsRoom, Loses, SameRoom
<1>12. CASE Descends(q, r, e, d)
  BY <1>12 DEF Descends, KeepsRoom
<1>13. CASE AddsEdge(q, r, n, e, d)
  BY <1>13 DEF AddsEdge, Pops, KeepsRoom, Counts, SameRoom
<1> QED
  BY <1>1, <1>3, <1>4, <1>5, <1>6, <1>7, <1>8, <1>9, <1>10, <1>11, <1>12, <1>13
     DEF Effect, InPlace, Elsewhere

LEMMA RoomKept ==
  ASSUME IInv, RoomInv, NEW t \in Threads, NEW r \in ThreadRecs, NEW n \in Nodes,
         NEW d \in NodeRecs, Effect(t, r, n, d)
  PROVE  RoomInv'
<1>1. PICK q \in ThreadRecs, e \in NodeRecs : q = th[t] /\ e = nd[n]
  BY NodeHere, Here
<1>2. /\ th \in [Threads -> ThreadRecs] /\ nd \in [Nodes -> NodeRecs]
      /\ th'[t] = r /\ \A u \in Threads \ {t} : th'[u] = th[u]
      /\ nd'[n] = d /\ \A k \in Nodes \ {n} : nd'[k] = nd[k]
  BY AfterEffect DEF Effect
<1>3. CASE KeepsRoom(q, r, n, e, d)
  <2>1. \A k \in Nodes : nd'[k].state = nd[k].state /\ nd'[k].arrays = nd[k].arrays
    BY <1>1, <1>2, <1>3 DEF KeepsRoom
  <2>2. ASSUME NEW u \in Threads, NEW pc \in {"grown", "publish"}, NEW k, In(u, {pc}, k)
        PROVE  In(u, {pc}, k)'
    BY <1>1, <1>2, <1>3, <2>2 DEF KeepsRoom, In
  <2>3. \A u \in Threads : th'[u].pc = "grown" => u # t /\ th'[u] = th[u]
    BY <1>2, <1>3 DEF KeepsRoom
  <2>4. ASSUME NEW u \in Threads, th'[u].pc \in {"select", "grow"}
        PROVE  th'[u].snap <= nd'[th'[u].cur].state
    <3>1. CASE u = t
      BY <1>1, <1>2, <1>3, <2>1, <2>4, <3>1 DEF KeepsRoom
    <3>2. CASE u # t
      BY SMTT(30), <1>2, <2>1, <2>4, <3>2 DEF RoomInv, ThreadRecs
    <3> QED
      BY <3>1, <3>2
  <2>5. \A u \in Threads : th'[u].pc = "grown" => nd'[th'[u].cur].state = th'[u].snap
    BY SMTT(30), <1>2, <2>1, <2>3 DEF RoomInv, ThreadRecs
  <2>6. \A u, w \in Threads :
          th'[u].pc = "grown" /\ th'[w].pc = "grown" /\ th'[u].cur = th'[w].cur => u = w
    BY <2>3 DEF RoomInv
  <2>7. \A k \in Nodes :
          /\ nd'[k].arrays = (nd'[k].state + 1) \div 2
          /\ nd'[k].state \in Growing => \E u \in Threads : In(u, {"grown"}, k)'
          /\ nd'[k].state = Evaluating => \E u \in Threads : In(u, {"publish"}, k)'
    BY <2>1, <2>2 DEF RoomInv
  <2> QED
    BY <2>4, <2>5, <2>6, <2>7 DEF RoomInv
<1>4. CASE Changes(q, r, e, d) /\ n = q.cur
  <2>1. /\ e.state \in 0..6 /\ e.arrays = (e.state + 1) \div 2 /\ r.cur = n
        /\ q.pc = "grown" => e.state = q.snap
    BY <1>1, <1>4 DEF NodeRecs, RoomInv, Changes, SameNode
  <2>2. /\ d.arrays = (d.state + 1) \div 2 /\ e.state < d.state /\ d.state \in 1..6
        /\ d.state \in Growing => r.pc = "grown" /\ r.snap = d.state
        /\ d.state = 1 => r.pc = "publish"
        /\ r.pc = "grown" => d.state = r.snap /\ e.state \in {2, 4}
        /\ r.pc \notin {"select", "grow"}
    <3>1. CASE q.pc = "expand"
      BY <1>4, <2>1, <3>1 DEF Changes, Growing
    <3>2. CASE q.pc = "publish"
      BY <1>4, <2>1, <3>2 DEF Changes, Growing
    <3>3. CASE q.pc = "grow"
      BY <1>4, <2>1, <3>3 DEF Changes, Growing
    <3>4. CASE q.pc = "grown"
      BY <1>4, <2>1, <3>4 DEF Changes, Growing
    <3> QED
      BY <1>4, <3>1, <3>2, <3>3, <3>4 DEF Changes
  <2>3. \A u \in Threads \ {t} : th[u].pc = "grown" => th[u].cur # n
    <3>1. ASSUME NEW u \in Threads \ {t}, th[u].pc = "grown", th[u].cur = n
          PROVE  FALSE
      <4>0. u \in Threads /\ Placed(th[u])
        BY Here
      <4>1. e.state = th[u].snap /\ th[u].snap \in {3, 5}
        BY <1>1, <3>1, <4>0 DEF RoomInv, Placed
      <4>2. q.pc = "grown"
        BY <1>4, <4>1 DEF Changes
      <4> QED
        BY <1>1, <1>4, <3>1, <4>2 DEF RoomInv
    <3> QED
      BY <3>1
  <2>4. ASSUME NEW u \in Threads, th'[u].pc \in {"select", "grow"}
        PROVE  th'[u].snap <= nd'[th'[u].cur].state
    <3>1. u # t /\ th'[u] = th[u]
      BY <1>2, <2>2, <2>4
    <3>2. PICK k \in Nodes : k = th[u].cur
      BY <1>2 DEF ThreadRecs
    <3>3. th[u].snap \in Int /\ nd[k].state \in Int /\ th[u].snap <= nd[k].state
      <4>1. th[u].snap \in 0..6
        BY <1>2 DEF ThreadRecs
      <4>2. nd[k].state \in 0..6
        BY <1>2 DEF NodeRecs
      <4>3. th[u].snap <= nd[k].state
        BY <2>4, <3>1, <3>2 DEF RoomInv
      <4> QED
        BY <4>1, <4>2, <4>3
    <3>4. nd'[k].state \in Int /\ nd'[k].state >= nd[k].state
      BY <1>1, <1>2, <2>1, <2>2, <3>3
    <3> QED
      BY <3>1, <3>2, <3>3, <3>4
  <2>5. ASSUME NEW u \in Threads, th'[u].pc = "grown"
        PROVE  nd'[th'[u].cur].state = th'[u].snap
    <3>1. CASE u = t
      BY <1>2, <2>1, <2>2, <2>5, <3>1
    <3>2. CASE u # t
      BY SMTT(30), <1>2, <2>3, <2>5, <3>2 DEF RoomInv, ThreadRecs
    <3> QED
      BY <3>1, <3>2
  <2>6. ASSUME NEW u \in Threads, NEW w \in Threads, th'[u].pc = "grown",
               th'[w].pc = "grown", th'[u].cur = th'[w].cur
        PROVE  u = w
    <3>1. CASE u # t /\ w # t
      BY <1>2, <2>6, <3>1 DEF RoomInv
    <3>2. CASE u = t \/ w = t
      BY <1>2, <2>1, <2>3, <2>6, <3>2
    <3> QED
      BY <3>1, <3>2
  <2>7. ASSUME NEW k \in Nodes
        PROVE  /\ nd'[k].arrays = (nd'[k].state + 1) \div 2
               /\ nd'[k].state \in Growing => \E u \in Threads : In(u, {"grown"}, k)'
               /\ nd'[k].state = Evaluating => \E u \in Threads : In(u, {"publish"}, k)'
    <3>1. CASE k = n
      BY <1>2, <2>1, <2>2, <3>1 DEF In, Evaluating
    <3>2. CASE k # n
      <4>1. ASSUME NEW u \in Threads, NEW pc \in {"grown", "publish"}, In(u, {pc}, k)
            PROVE  In(u, {pc}, k)'
        BY <1>1, <1>2, <1>4, <3>2, <4>1 DEF In
      <4> QED
        BY <1>2, <3>2, <4>1 DEF RoomInv
    <3> QED
      BY <3>1, <3>2
  <2> QED
    BY <2>4, <2>5, <2>6, <2>7 DEF RoomInv
<1> QED
  BY <1>1, <1>3, <1>4, RoomEffect

(***************************************************************************)
(* Slots: filled in order, within the arrays, with no move twice; and a    *)
(* thread with a new child in mind has a slot to look for.                 *)
(***************************************************************************)
Before(slot, i, m) == \A j \in Slots : j < i => slot[j] \notin {None, m}
Ordered(slot, s) ==
  \A i \in Slots : slot[i] # None => i <= Capacity(s) /\ Before(slot, i, slot[i])

ForMove == {"grow", "grown", "find", "claim"}
Fits(r, slot, s) ==
  /\ r.pc \in ForMove => Before(slot, r.idx, r.move)
  /\ r.pc \in {"find", "claim"} => r.idx <= Capacity(s)
  /\ r.pc = "grown" => r.idx <= Capacity(r.snap + 1)
  /\ r.pc = "grow" => r.snap < 6 /\ r.idx = Capacity(r.snap) + 1

SlotInv ==
  /\ \A n \in Nodes : Ordered(nd[n].slot, nd[n].state)
  /\ \A t \in Threads :
       LET e == nd[th[t].cur]
       IN  Fits(th[t], e.slot, e.state)

LEMMA CapacityIs ==
  /\ \A a, b \in 0..6 : a <= b => Capacity(a) <= Capacity(b)
  /\ \A s \in {2, 4} : Capacity(s) + 1 <= Capacity(s + 2)
  /\ Capacity(6) = Levels[3] /\ \A s \in 0..6 : Capacity(s) \in Nat
<1>1. /\ Levels[1] \in Nat /\ Levels[2] \in Nat /\ Levels[3] \in Nat
      /\ 0 < Levels[1] /\ Levels[1] < Levels[2] /\ Levels[2] < Levels[3]
  BY LevelsFacts
<1>2. /\ \A s \in {0, 1} : Capacity(s) = 0
      /\ Capacity(2) = Levels[1] /\ Capacity(3) = Levels[1]
      /\ Capacity(4) = Levels[2] /\ Capacity(5) = Levels[2] /\ Capacity(6) = Levels[3]
  <2>1. 2 \div 2 = 1 /\ 3 \div 2 = 1 /\ 4 \div 2 = 2 /\ 5 \div 2 = 2 /\ 6 \div 2 = 3
    OBVIOUS
  <2> QED
    BY <2>1 DEF Capacity
<1> QED
  BY <1>1, <1>2

\* A set of numbers that has those below each of its own is a first part.
LEMMA FirstPart ==
  ASSUME NEW N \in Nat, NEW S \in SUBSET (1..N), \A j \in S : 1..j \subseteq S
  PROVE  S = 1..Cardinality(S) /\ Cardinality(S) \in 0..N
<1>1. \A k \in Nat : IsFiniteSet(1..k) /\ Cardinality(1..k) = k
  <2>1. ASSUME NEW k \in Nat PROVE IsFiniteSet(1..k) /\ Cardinality(1..k) = k
    BY FS_Interval
  <2> QED
    BY <2>1
<1>2. IsFiniteSet(S) /\ Cardinality(S) <= N /\ Cardinality(S) \in Nat
  <2>1. PICK T : T = 1..N
    OBVIOUS
  <2>2. IsFiniteSet(T) /\ Cardinality(T) = N /\ S \in SUBSET T
    BY <1>1, <2>1
  <2>3. IsFiniteSet(S) /\ Cardinality(S) <= Cardinality(T)
    BY <2>2, FS_Subset
  <2> QED
    BY <2>2, <2>3, FS_CardinalityType
<1>3. PICK c \in Nat : c = Cardinality(S)
  BY <1>2
<1>4. \A j \in S : j <= c
  <2>1. ASSUME NEW j \in S PROVE j <= c
    <3>1. j \in Nat /\ 1..j \in SUBSET S
      OBVIOUS
    <3>2. Cardinality(1..j) <= c
      BY <1>2, <1>3, <3>1, FS_Subset
    <3> QED
      BY <1>1, <3>1, <3>2
  <2> QED
    BY <2>1
<1>5. S \in SUBSET (1..c)
  BY <1>4
<1>6. S = 1..c
  BY <1>1, <1>3, <1>5, FS_Subset
<1> QED
  BY <1>2, <1>3, <1>6

LEMMA FoundIs ==
  ASSUME NEW n, NEW s \in 0..6
  PROVE  Found(n, s) = 1..Cardinality(Found(n, s)) /\ Cardinality(Found(n, s)) \in Nat
<1>1. Levels[3] \in Nat /\ Slots = 1..Levels[3]
  BY LevelsFacts DEF Slots
<1>2. ASSUME NEW j \in Found(n, s) PROVE 1..j \subseteq Found(n, s)
  <2>1. j \in Slots /\ j <= Capacity(s) /\ \A i \in 1..j : nd[n].slot[i] # None
    BY DEF Found
  <2>2. Capacity(s) \in Nat
    BY LevelsFacts
  <2>3. ASSUME NEW i \in 1..j PROVE i \in Found(n, s)
    <3>1. i \in Slots /\ i <= Capacity(s) /\ 1..i \subseteq 1..j
      BY <1>1, <2>1, <2>2
    <3> QED
      BY <2>1, <3>1 DEF Found
  <2> QED
    BY <2>3
<1>3. Found(n, s) \in SUBSET (1..Levels[3])
  BY <1>1 DEF Found
<1> QED
  BY <1>1, <1>2, <1>3, FirstPart

\* A node all of whose slots are filled has every move there is.
LEMMA RoomForMove ==
  ASSUME IInv, NEW n \in Nodes, Ordered(nd[n].slot, nd[n].state),
         NEW m \in DOMAIN Leads[At(n)], \A i \in Slots : nd[n].slot[i] \notin {None, m}
  PROVE  FALSE
<1>1. PICK D : D = DOMAIN Leads[At(n)]
  OBVIOUS
<1>2. At(n) \in Positions
  BY ChildIsNode, Here, TypeOKIs DEF IInv
<1>3. IsFiniteSet(D) /\ Cardinality(D) <= Levels[3] /\ m \in D
  BY <1>1, <1>2, RoomAssumption
<1>4. IsFiniteSet(D \ {m}) /\ Cardinality(D \ {m}) = Cardinality(D) - 1
  BY <1>3, FS_RemoveElement
<1>5. PICK f : f = [i \in Slots |-> nd[n].slot[i]]
  OBVIOUS
<1>6. f \in [Slots -> D \ {m}]
  BY <1>1, <1>5, NodeHere DEF NodeOK
<1>7. \A i, j \in Slots : f[i] = f[j] => i = j
  <2>1. \A i, j \in Slots : j < i => f[j] # f[i]
    BY <1>5 DEF Ordered, Before
  <2> QED
    BY <2>1, LevelsFacts
<1>8. f \in Injection(Slots, D \ {m})
  BY <1>6, <1>7 DEF Injection, IsInjective
<1>9. Cardinality(Slots) <= Cardinality(D \ {m})
  BY <1>4, <1>8, FS_Injection
<1>10. Cardinality(Slots) = Levels[3]
  <2>1. Levels[3] \in Nat /\ 0 < Levels[3] /\ 1 \in Int
    BY LevelsFacts
  <2> QED
    BY <2>1, FS_Interval DEF Slots
<1>11. Cardinality(D) \in Nat /\ Levels[3] \in Nat
  BY <1>3, LevelsFacts, FS_CardinalityType
<1> QED
  BY <1>3, <1>4, <1>9, <1>10, <1>11

\* The slot after the children found is the one for a move not found.
LEMMA ChosenFits ==
  ASSUME IInv, NEW n \in Nodes, Ordered(nd[n].slot, nd[n].state), NEW s \in 0..6,
         NEW m \in Playable(n) \ MovesFound(n, s), NEW idx, idx = Cardinality(Found(n, s)) + 1
  PROVE  /\ Before(nd[n].slot, idx, m)
         /\ idx > Capacity(s) => s < 6 /\ idx = Capacity(s) + 1
<1>1. PICK k \in Nat : k = Cardinality(Found(n, s)) /\ Found(n, s) = 1..k /\ idx = k + 1
  BY FoundIs
<1>2. \A j \in 1..k : nd[n].slot[j] \notin {None, m}
  <2>1. ASSUME NEW j \in 1..k PROVE nd[n].slot[j] \notin {None, m}
    <3>1. j \in Found(n, s) /\ j \in 1..j
      <4>1. j \in 1..j
        OBVIOUS
      <4>2. Found(n, s) = 1..k
        BY <1>1
      <4> QED
        BY <4>1, <4>2
    <3>2. nd[n].slot[j] # None
      BY <3>1 DEF Found
    <3>3. nd[n].slot[j] \in MovesFound(n, s)
      BY <3>1 DEF MovesFound
    <3> QED
      BY <3>2, <3>3
  <2> QED
    BY <2>1
<1>3. Before(nd[n].slot, idx, m)
  <2>1. idx = k + 1
    BY <1>1
  <2>2. \A j \in Slots : j < k + 1 => j \in 1..k
    BY LevelsFacts
  <2> QED
    BY <1>2, <2>1, <2>2 DEF Before
<1>4. ASSUME idx > Capacity(s) PROVE s < 6 /\ idx = Capacity(s) + 1
  <2>1. k <= Capacity(s) /\ Capacity(s) \in Nat
    <3>1. Cardinality(Found(n, s)) <= Capacity(s) /\ Capacity(s) \in Nat
      BY FoundFits, LevelsFacts
    <3>2. k = Cardinality(Found(n, s))
      BY <1>1
    <3> QED
      BY <3>1, <3>2
  <2>2. idx = Capacity(s) + 1 /\ k = Capacity(s)
    BY <1>1, <1>4, <2>1
  <2>3. ASSUME s = 6 PROVE FALSE
    <3>1. k = Levels[3] /\ Slots = 1..k
      BY <2>2, <2>3, CapacityIs DEF Slots
    <3>2. m \in DOMAIN Leads[At(n)]
      BY DEF Playable
    <3> QED
      BY <1>2, <3>1, <3>2, RoomForMove
  <2> QED
    BY <2>2, <2>3
<1> QED
  BY <1>3, <1>4

\* Slots that are filled stay, the state goes up.
LEMMA FitsStill ==
  ASSUME NEW r, NEW slot, NEW a \in 0..6, NEW sl, NEW b \in 0..6, a <= b,
         \A j \in Slots : slot[j] # None => sl[j] = slot[j], Fits(r, slot, a),
         r.pc \in {"find", "claim"} => r.idx \in Nat
  PROVE  Fits(r, sl, b)
<1>1. Capacity(a) <= Capacity(b) /\ Capacity(a) \in Nat /\ Capacity(b) \in Nat
  BY CapacityIs
<1> QED
  BY <1>1 DEF Fits, Before

LEMMA OrderedStill ==
  ASSUME NEW slot, NEW a \in 0..6, NEW b \in 0..6, a <= b, Ordered(slot, a)
  PROVE  Ordered(slot, b)
<1>1. Capacity(a) <= Capacity(b) /\ Capacity(a) \in Nat /\ Capacity(b) \in Nat
  BY CapacityIs
<1> QED
  BY <1>1, LevelsFacts DEF Ordered

\* A slot claimed: the first that was empty.
LEMMA OrderedClaimed ==
  ASSUME NEW slot \in [Slots -> Moves \cup {None}], NEW s \in 0..6, NEW i \in Slots, NEW m \in Moves,
         Ordered(slot, s), slot[i] = None, Before(slot, i, m), i <= Capacity(s)
  PROVE  Ordered([slot EXCEPT ![i] = m], s)
<1>1. PICK sl : sl = [slot EXCEPT ![i] = m]
  OBVIOUS
<1>2. sl[i] = m /\ \A j \in Slots \ {i} : sl[j] = slot[j]
  BY <1>1
<1>3. m # None
  BY NamesAssumption
<1>4. ASSUME NEW k \in Slots, sl[k] # None
      PROVE  k <= Capacity(s) /\ Before(sl, k, sl[k])
  <2>1. CASE k = i
    BY <1>2, <2>1, LevelsFacts DEF Before
  <2>2. CASE k # i
    <3>1. slot[k] # None /\ sl[k] = slot[k]
      BY <1>2, <1>4, <2>2
    <3>2. k <= Capacity(s) /\ Before(slot, k, slot[k])
      BY <3>1 DEF Ordered
    <3>3. ~(i < k)
      BY <3>2 DEF Before
    <3> QED
      BY <1>2, <3>1, <3>2, <3>3 DEF Before
  <2> QED
    BY <2>1, <2>2
<1> QED
  BY <1>1, <1>4 DEF Ordered

\* What a step does to the slots of a node, and to the thread's place for one.
LEMMA SlotEffect ==
  ASSUME IInv, RoomInv, SlotInv, NEW t \in Threads, NEW r \in ThreadRecs, NEW n \in Nodes,
         NEW d \in NodeRecs, Effect(t, r, n, d)
  PROVE  /\ nd[n].state <= d.state
         /\ d.slot # nd[n].slot =>
              /\ Claims(th[t], r, nd[n], d) /\ n = th[t].cur
         /\ Fits(r, nd[r.cur].slot, nd'[r.cur].state)
<1>1. PICK q \in ThreadRecs, e \in NodeRecs : q = th[t] /\ e = nd[n]
  BY NodeHere, Here
<1>2. e.state \in 0..6 /\ d.state \in 0..6 /\ q.snap \in 0..6
  <2>1. e.state \in 0..6 /\ d.state \in 0..6
    BY DEF NodeRecs
  <2>2. q.snap \in 0..6
    BY DEF ThreadRecs
  <2> QED
    BY <2>1, <2>2
<1>3. /\ Fits(q, nd[q.cur].slot, nd[q.cur].state) /\ q.cur \in Nodes /\ r.cur \in Nodes
      /\ nd'[n] = d /\ \A k \in Nodes \ {n} : nd'[k] = nd[k]
  <2>1. q.cur \in Nodes /\ r.cur \in Nodes
    BY DEF ThreadRecs
  <2> QED
    BY <1>1, <2>1, AfterEffect DEF Effect, SlotInv
<1>4. CASE KeepsRoom(q, r, n, e, d)
  <2>1. nd[n].state <= d.state /\ nd'[r.cur].state = nd[r.cur].state
    BY <1>1, <1>2, <1>3, <1>4 DEF KeepsRoom
  <2>2. d.slot # e.slot => Claims(q, r, e, d) /\ n = q.cur
    <3>1. Arrives(q, r, e, d) \/ Chooses(q, r, n, e, d) \/ Turns(q, r, e, d)
          \/ Descends(q, r, e, d) => d.slot = e.slot
      BY DEF Arrives, Chooses, Turns, Descends
    <3>2. CountsLeaf(q, r, e, d) \/ StoresOutput(q, r, e, d) \/ Changes(q, r, e, d)
          \/ Updates(q, r, e, d) => d.slot = e.slot
      BY DEF CountsLeaf, StoresOutput, Changes, Updates, Counts, SameRoom
    <3>3. Takes(q, r, n, e, d) \/ LetsGo(q, r, n, e, d) \/ AddsEdge(q, r, n, e, d)
          \/ Returns(q, r, n, e, d) => d.slot = e.slot
      BY DEF Takes, LetsGo, AddsEdge, Returns, Loses, Counts, SameRoom
    <3> QED
      BY <1>1, <3>1, <3>2, <3>3 DEF Effect, InPlace, Elsewhere
  <2>3. Fits(r, nd[r.cur].slot, nd[r.cur].state)
    <3>1. CASE r.pc \notin ForMove
      BY <3>1 DEF Fits, ForMove
    <3>2. CASE r.pc \in ForMove
      <4>1. \/ Chooses(q, r, n, e, d) /\ n = q.cur
            \/ Takes(q, r, n, e, d)
        <5>1. ~Arrives(q, r, e, d) /\ ~CountsLeaf(q, r, e, d) /\ ~StoresOutput(q, r, e, d)
          BY <3>2 DEF ForMove, Arrives, CountsLeaf, StoresOutput
        <5>2. ~Changes(q, r, e, d) /\ ~Claims(q, r, e, d) /\ ~Updates(q, r, e, d)
          BY <1>4, <3>2 DEF KeepsRoom, ForMove, Changes, Claims, Updates
        <5>3. ~Turns(q, r, e, d) /\ ~LetsGo(q, r, n, e, d) /\ ~Descends(q, r, e, d)
              /\ ~AddsEdge(q, r, n, e, d) /\ ~Returns(q, r, n, e, d)
          BY <3>2 DEF ForMove, Turns, LetsGo, Descends, AddsEdge, Returns
        <5> QED
          BY <1>1, <5>1, <5>2, <5>3 DEF Effect, InPlace, Elsewhere
      <4>2. CASE Takes(q, r, n, e, d)
        BY <1>3, <3>2, <4>2 DEF Takes, Fits, ForMove, SameSlot, SameNode
      <4>3. CASE Chooses(q, r, n, e, d) /\ n = q.cur
        <5>1. /\ q.pc = "select" /\ r.cur = n /\ r.move \in Playable(n) \ MovesFound(n, q.snap)
              /\ r.idx = Cardinality(Found(n, q.snap)) + 1
              /\ \/ r.pc = "find" /\ r.idx <= Capacity(q.snap)
                 \/ r.pc = "grow" /\ r.idx > Capacity(q.snap) /\ r.snap = q.snap
          BY <3>2, <4>3 DEF Chooses, ForMove, SameNode
        <5>2. Ordered(nd[n].slot, nd[n].state)
          BY DEF SlotInv
        <5>3. /\ Before(nd[n].slot, r.idx, r.move)
              /\ r.idx > Capacity(q.snap) => q.snap < 6 /\ r.idx = Capacity(q.snap) + 1
          BY <1>2, <5>1, <5>2, ChosenFits
        <5>4. Capacity(q.snap) <= Capacity(e.state) /\ Capacity(q.snap) \in Nat
              /\ Capacity(e.state) \in Nat
          <6>1. q.snap <= e.state
            BY <1>1, <4>3, <5>1 DEF RoomInv
          <6> QED
            BY <1>2, <6>1, CapacityIs
        <5>5. r.pc = "find" => r.idx <= Capacity(e.state)
          <6>1. r.idx \in Nat
            BY DEF ThreadRecs
          <6> QED
            BY <5>1, <5>4, <6>1
        <5> QED
          BY <1>1, <5>1, <5>3, <5>5 DEF Fits, ForMove
      <4> QED
        BY <4>1, <4>2, <4>3
    <3> QED
      BY <3>1, <3>2
  <2> QED
    BY <1>1, <2>1, <2>2, <2>3
<1>5. CASE Changes(q, r, e, d) /\ n = q.cur
  <2>1. d.slot = e.slot /\ r.cur = n /\ nd'[r.cur].state = d.state
    BY <1>3, <1>5 DEF Changes, SameNode
  <2>2. q.pc = "grown" => e.state = q.snap
    BY <1>1, <1>5 DEF RoomInv
  <2>3. nd[n].state <= d.state
    BY <1>1, <1>2, <1>5, <2>2 DEF Changes
  <2>4. Fits(r, e.slot, d.state)
    <3>1. CASE r.pc \notin ForMove
      BY <3>1 DEF Fits, ForMove
    <3>2. CASE r.pc = "grown"
      <4>1. /\ q.pc = "grow" /\ e.state \in {2, 4} /\ r.snap = e.state + 1 /\ q.snap = e.state
            /\ r.idx = q.idx /\ r.move = q.move
        BY <1>5, <3>2 DEF Changes
      <4>2. Before(e.slot, q.idx, q.move) /\ q.idx = Capacity(e.state) + 1
        BY <1>1, <1>3, <1>5, <4>1 DEF Fits, ForMove
      <4>3. q.idx <= Capacity(r.snap + 1)
        BY <4>1, <4>2, CapacityIs
      <4> QED
        BY <3>2, <4>1, <4>2, <4>3 DEF Fits
    <3>3. CASE r.pc = "find"
      <4>1. q.pc = "grown" /\ d.state = q.snap + 1 /\ r.idx = q.idx /\ r.move = q.move
        BY <1>5, <3>3 DEF Changes
      <4>2. Before(e.slot, q.idx, q.move) /\ q.idx <= Capacity(d.state)
        BY <1>1, <1>3, <1>5, <4>1 DEF Fits, ForMove
      <4> QED
        BY <3>3, <4>1, <4>2 DEF Fits
    <3> QED
      BY <1>5, <3>1, <3>2, <3>3 DEF Changes, ForMove
  <2> QED
    BY <1>1, <2>1, <2>3, <2>4
<1> QED
  BY <1>1, <1>4, <1>5, RoomEffect

LEMMA SlotKept ==
  ASSUME IInv, RoomInv, SlotInv, NEW t \in Threads, NEW r \in ThreadRecs, NEW n \in Nodes,
         NEW d \in NodeRecs, Effect(t, r, n, d)
  PROVE  SlotInv'
<1>1. PICK q \in ThreadRecs, e \in NodeRecs : q = th[t] /\ e = nd[n]
  BY NodeHere, Here
<1>2. /\ th \in [Threads -> ThreadRecs] /\ nd \in [Nodes -> NodeRecs]
      /\ th'[t] = r /\ \A u \in Threads \ {t} : th'[u] = th[u]
      /\ nd'[n] = d /\ \A k \in Nodes \ {n} : nd'[k] = nd[k]
      /\ nd' \in [Nodes -> NodeRecs]
  BY AfterEffect DEF Effect
<1>3. /\ e.state <= d.state /\ Fits(r, nd[r.cur].slot, nd'[r.cur].state)
      /\ d.slot # e.slot => Claims(q, r, e, d) /\ n = q.cur
  BY <1>1, SlotEffect
<1>4. e.state \in 0..6 /\ d.state \in 0..6 /\ e.slot \in [Slots -> Moves \cup {None}]
  BY DEF NodeRecs
<1>5. Ordered(d.slot, d.state) /\ \A j \in Slots : e.slot[j] # None => d.slot[j] = e.slot[j]
  <2>1. Ordered(e.slot, e.state)
    BY <1>1 DEF SlotInv
  <2>2. CASE d.slot = e.slot
    BY <1>3, <1>4, <2>1, <2>2, OrderedStill
  <2>3. CASE d.slot # e.slot
    <3>1. /\ q.pc = "claim" /\ q.idx \in Slots /\ e.slot[q.idx] = None
          /\ d.slot = [e.slot EXCEPT ![q.idx] = q.move] /\ d.state = e.state
      BY <1>3, <2>3 DEF Claims
    <3>2. Before(e.slot, q.idx, q.move) /\ q.idx <= Capacity(e.state)
      BY <1>1, <1>3, <2>3, <3>1 DEF SlotInv, Fits, ForMove
    <3>3. q.move \in Moves
      BY <1>1, <3>1, ChildHere DEF ForSlot
    <3>4. Ordered(d.slot, d.state)
      BY <1>4, <2>1, <3>1, <3>2, <3>3, OrderedClaimed
    <3> QED
      BY <1>4, <3>1, <3>4
  <2> QED
    BY <2>2, <2>3
<1>6. ASSUME NEW k \in Nodes
      PROVE  /\ Ordered(nd'[k].slot, nd'[k].state)
             /\ nd[k].state <= nd'[k].state /\ nd[k].state \in 0..6 /\ nd'[k].state \in 0..6
             /\ \A j \in Slots : nd[k].slot[j] # None => nd'[k].slot[j] = nd[k].slot[j]
  <2>1. nd[k].state \in 0..6 /\ nd'[k].state \in 0..6
    BY <1>2 DEF NodeRecs
  <2>2. CASE k = n
    BY <1>1, <1>2, <1>3, <1>5, <2>1, <2>2
  <2>3. CASE k # n
    BY <1>2, <2>1, <2>3 DEF SlotInv
  <2> QED
    BY <2>2, <2>3
<1>7. ASSUME NEW u \in Threads
      PROVE  Fits(th'[u], nd'[th'[u].cur].slot, nd'[th'[u].cur].state)
  <2>1. PICK p \in ThreadRecs : p = th'[u]
    BY <1>2
  <2>2. PICK k \in Nodes : k = p.cur
    BY DEF ThreadRecs
  <2>3. p.idx \in Nat
    BY DEF ThreadRecs
  <2>4. CASE u = t
    <3>1. p = r /\ Fits(p, nd[k].slot, nd'[k].state)
      BY <1>2, <1>3, <2>1, <2>2, <2>4
    <3> QED
      BY <1>6, <2>1, <2>2, <2>3, <3>1, FitsStill
  <2>5. CASE u # t
    <3>1. p = th[u] /\ Fits(p, nd[k].slot, nd[k].state)
      BY <1>2, <2>1, <2>2, <2>5 DEF SlotInv
    <3> QED
      BY SMTT(30), <1>6, <2>1, <2>2, <2>3, <3>1, FitsStill
  <2> QED
    BY <2>4, <2>5
<1> QED
  BY <1>6, <1>7 DEF SlotInv

(***************************************************************************)
(* Visits: whoever fills a slot, or stores an output, is on the way to the *)
(* first visit of the node, if it has none.                                *)
(***************************************************************************)
OutsideInv == \A t \in Threads : th[t].pc \in {"begin", "loop", "done"} => th[t].path = <<>>

\* A thread on its way to a first visit of node c.
Comes(r, c) ==
  \/ r.pc = "catchUp" /\ ChildOf(r.cur, r.move) = c
  \/ r.pc \in {"visit", "evaluate", "leaf"} /\ r.cur = c
Awaited(c) == nd[c].visits > 0 \/ \E t \in Threads : Comes(th[t], c)
VisitInv ==
  /\ \A n \in Nodes, i \in Slots :
       nd[n].slot[i] # None => Awaited(ChildOf(n, nd[n].slot[i]))
  /\ \A n \in Nodes :
       nd[n].output => nd[n].visits > 0 \/ \E t \in Threads : In(t, {"leaf"}, n)

LEMMA OutsideKept ==
  ASSUME IInv, OutsideInv, NEW t \in Threads, NEW r \in ThreadRecs, NEW n \in Nodes,
         NEW d \in NodeRecs, Effect(t, r, n, d)
  PROVE  OutsideInv'
<1>1. PICK q \in ThreadRecs, e \in NodeRecs : q = th[t] /\ e = nd[n]
  BY NodeHere, Here
<1>2. th'[t] = r /\ \A u \in Threads \ {t} : th'[u] = th[u]
  BY AfterEffect DEF Effect
<1>3. r.pc \in {"begin", "loop", "done"} => r.path = <<>>
  <2>1. ASSUME r.pc \in {"begin", "loop", "done"} PROVE Turns(q, r, e, d)
    <3>1. ~InPlace(q, r, n, e, d)
      BY <2>1 DEF InPlace, Arrives, CountsLeaf, StoresOutput, Changes, Chooses, Claims, Updates
    <3>2. Elsewhere(q, r, n, e, d)
      BY <1>1, <3>1 DEF Effect
    <3> QED
      BY <2>1, <3>2 DEF Elsewhere, Takes, LetsGo, Descends, AddsEdge, Returns
  <2> QED
    BY <1>1, <2>1 DEF Turns, OutsideInv
<1> QED
  BY <1>2, <1>3 DEF OutsideInv

\* No step takes visits away.
LEMMA VisitsGrow ==
  ASSUME NEW q \in ThreadRecs, NEW r, NEW n, NEW e \in NodeRecs, NEW d,
         InPlace(q, r, n, e, d) \/ Elsewhere(q, r, n, e, d)
  PROVE  d.visits >= e.visits
<1>1. e.visits \in Nat /\ q.pending \in Nat
  <2>1. e.visits \in Nat
    BY DEF NodeRecs
  <2> QED
    BY <2>1 DEF ThreadRecs
<1>2. CASE Arrives(q, r, e, d) \/ Chooses(q, r, n, e, d) \/ Turns(q, r, e, d) \/ Descends(q, r, e, d)
  BY <1>1, <1>2 DEF Arrives, Chooses, Turns, Descends
<1>3. CASE CountsLeaf(q, r, e, d) \/ AddsEdge(q, r, n, e, d)
  BY <1>1, <1>3 DEF CountsLeaf, AddsEdge
<1>4. CASE StoresOutput(q, r, e, d) \/ Changes(q, r, e, d) \/ Claims(q, r, e, d)
  BY <1>1, <1>4 DEF StoresOutput, Changes, Claims, SameCounts
<1>5. CASE Updates(q, r, e, d)
  BY <1>1, <1>5 DEF Updates
<1>6. CASE Takes(q, r, n, e, d) \/ LetsGo(q, r, n, e, d) \/ Returns(q, r, n, e, d)
  BY <1>1, <1>6 DEF Takes, LetsGo, Returns, Loses, SameCounts
<1> QED
  BY <1>2, <1>3, <1>4, <1>5, <1>6 DEF InPlace, Elsewhere

\* A thread on its way to a first visit goes on, or there is a visit, or
\* another thread is on its way.
LEMMA ComesStill ==
  ASSUME IInv, VisitInv, NEW t \in Threads, NEW r \in ThreadRecs, NEW n \in Nodes,
         NEW d \in NodeRecs, Effect(t, r, n, d), NEW c \in Nodes, Comes(th[t], c)
  PROVE  \/ nd[c].visits > 0 \/ nd'[c].visits > 0
         \/ Comes(r, c)
         \/ \E u \in Threads \ {t} : Comes(th[u], c)
<1>1. PICK q \in ThreadRecs, e \in NodeRecs : q = th[t] /\ e = nd[n]
  BY NodeHere, Here
<1>2. nd'[n] = d /\ e.visits \in Nat
  BY AfterEffect DEF Effect, NodeRecs
<1> SUFFICES \/ nd[c].visits > 0 \/ nd'[c].visits > 0
             \/ Comes(r, c)
             \/ \E u \in Threads \ {t} : Comes(th[u], c)
  OBVIOUS
<1>3. InPlace(q, r, n, e, d) \/ Elsewhere(q, r, n, e, d)
  BY <1>1 DEF Effect
<1>4. CASE q.pc = "catchUp" /\ ChildOf(q.cur, q.move) = c
  <2>1. LetsGo(q, r, n, e, d) \/ Descends(q, r, e, d) \/ AddsEdge(q, r, n, e, d)
    BY <1>3, <1>4 DEF InPlace, Elsewhere, Arrives, CountsLeaf, StoresOutput, Changes, Chooses,
       Claims, Updates, Turns, Takes, Returns, Pops
  <2>2. CASE LetsGo(q, r, n, e, d)
    BY <1>1, <1>4, <2>2 DEF LetsGo
  <2>3. CASE Descends(q, r, e, d)
    BY <1>4, <2>3 DEF Descends, Comes
  <2>4. CASE AddsEdge(q, r, n, e, d)
    BY <1>4, <2>4 DEF AddsEdge, Pops
  <2> QED
    BY <2>1, <2>2, <2>3, <2>4
<1>5. CASE q.pc \in {"visit", "evaluate", "leaf"} /\ q.cur = c
  <2>1. /\ n = c
        /\ \/ q.pc = "visit" /\ Arrives(q, r, e, d)
           \/ CountsLeaf(q, r, e, d)
           \/ q.pc = "evaluate" /\ StoresOutput(q, r, e, d)
    BY <1>3, <1>5 DEF InPlace, Elsewhere, Arrives, StoresOutput, Changes, Chooses,
       Claims, Updates, Turns, Takes, LetsGo, Descends, AddsEdge, Returns, Pops
  <2>2. CASE Arrives(q, r, e, d)
    <3>1. e.state # Unevaluated => e.visits > 0
      BY <1>1, Here DEF NodeOK, Evaluated
    <3> QED
      BY <1>1, <1>5, <2>1, <2>2, <3>1 DEF Arrives, SameNode, Comes
  <2>3. CASE CountsLeaf(q, r, e, d)
    BY <1>2, <2>1, <2>3 DEF CountsLeaf
  <2>4. CASE q.pc = "evaluate" /\ StoresOutput(q, r, e, d)
    <3>1. CASE r.pc = "leaf"
      BY <1>5, <2>4, <3>1 DEF StoresOutput, SameNode, Comes
    <3>2. CASE r.pc # "leaf"
      <4>1. e.output
        BY <2>4, <3>2 DEF StoresOutput
      <4>2. e.visits > 0 \/ \E u \in Threads : In(u, {"leaf"}, n)
        BY <1>1, <4>1 DEF VisitInv
      <4> QED
        BY <1>1, <2>1, <2>4, <4>2 DEF In, Comes
    <3> QED
      BY <3>1, <3>2
  <2> QED
    BY <2>1, <2>2, <2>3, <2>4
<1> QED
  BY <1>1, <1>4, <1>5 DEF Comes

LEMMA VisitKept ==
  ASSUME IInv, RoomInv, SlotInv, VisitInv, NEW t \in Threads, NEW r \in ThreadRecs,
         NEW n \in Nodes, NEW d \in NodeRecs, Effect(t, r, n, d)
  PROVE  VisitInv'
<1>1. PICK q \in ThreadRecs, e \in NodeRecs : q = th[t] /\ e = nd[n]
  BY NodeHere, Here
<1>2. /\ th'[t] = r /\ \A u \in Threads \ {t} : th'[u] = th[u]
      /\ nd'[n] = d /\ \A k \in Nodes \ {n} : nd'[k] = nd[k]
      /\ \A k, m : ChildOf(k, m)' = ChildOf(k, m)
      /\ nd' \in [Nodes -> NodeRecs]
  <2>1. Does(t, r, n, d)
    BY DEF Effect
  <2>2. th'[t] = r /\ \A u \in Threads \ {t} : th'[u] = th[u]
    BY <2>1, AfterEffect
  <2>3. /\ nd'[n] = d /\ \A k \in Nodes \ {n} : nd'[k] = nd[k]
        /\ nd' \in [Nodes -> NodeRecs]
    BY <2>1, AfterEffect
  <2>4. \A k, m : ChildOf(k, m)' = ChildOf(k, m)
    BY <2>1 DEF Does, ChildOf, At
  <2> QED
    BY <2>2, <2>3, <2>4
<1>3. InPlace(q, r, n, e, d) \/ Elsewhere(q, r, n, e, d)
  BY <1>1 DEF Effect
<1>4. ASSUME NEW k \in Nodes, nd[k].visits > 0 PROVE nd'[k].visits > 0
  <2>1. CASE k # n
    BY <1>2, <1>4, <2>1
  <2>2. CASE k = n
    <3>1. d.visits >= e.visits
      BY <1>3, VisitsGrow
    <3>2. e.visits \in Nat /\ d.visits \in Nat
      BY DEF NodeRecs
    <3> QED
      BY <1>1, <1>2, <1>4, <2>2, <3>1, <3>2
  <2> QED
    BY <2>1, <2>2
<1>5. ASSUME NEW u \in Threads, NEW c, Comes(th'[u], c)
      PROVE  Awaited(c)'
  <2>1. ChildOf(th'[u].cur, th'[u].move) = ChildOf(th[u].cur, th[u].move)'
    BY <1>2
  <2>2. Comes(th[u], c)'
    BY <1>5, <2>1 DEF Comes
  <2> QED
    BY <2>2 DEF Awaited
<1>6. ASSUME NEW c \in Nodes, Awaited(c) PROVE Awaited(c)'
  <2>1. CASE nd[c].visits > 0 \/ nd'[c].visits > 0
    BY <1>4, <2>1 DEF Awaited
  <2>2. ASSUME NEW u \in Threads \ {t}, Comes(th[u], c) PROVE Awaited(c)'
    BY <1>2, <1>5, <2>2
  <2>3. ASSUME Comes(r, c) PROVE Awaited(c)'
    BY <1>2, <1>5, <2>3
  <2>4. CASE Comes(th[t], c)
    BY <2>1, <2>2, <2>3, <2>4, ComesStill
  <2> QED
    BY <1>6, <2>1, <2>2, <2>4 DEF Awaited
<1>7. ASSUME NEW k \in Nodes, NEW i \in Slots, nd'[k].slot[i] # None
      PROVE  Awaited(ChildOf(k, nd[k].slot[i]))'
  <2>1. PICK m : m = nd'[k].slot[i]
    OBVIOUS
  <2>2. PICK c : c = ChildOf(k, m) /\ c = ChildOf(k, nd[k].slot[i])'
    BY <1>2, <2>1
  <2>3. Awaited(c)'
    <3>1. CASE nd[k].slot[i] = m
      <4>1. m # None /\ m \in DOMAIN Leads[At(k)] /\ rootPos \in Positions
        BY <1>7, <2>1, <3>1, Here DEF NodeOK
      <4>2. c \in Nodes
        BY <2>2, <4>1, ChildIsNode
      <4>3. Awaited(c)
        BY <2>2, <3>1, <4>1 DEF VisitInv
      <4> QED
        BY <1>6, <4>2, <4>3
    <3>2. CASE nd[k].slot[i] # m
      <4>1. k = n /\ d.slot # e.slot
        BY <1>1, <1>2, <2>1, <3>2
      <4>2. Claims(q, r, e, d) /\ n = q.cur
        BY <1>1, <4>1, SlotEffect
      <4>3. e.slot \in [Slots -> Moves \cup {None}] /\ d.slot = [e.slot EXCEPT ![q.idx] = q.move]
        BY <4>2 DEF NodeRecs, Claims
      <4>4. m = q.move
        BY <1>1, <1>2, <2>1, <3>2, <4>1, <4>3
      <4>5. r.pc = "catchUp" /\ r.cur = k /\ r.move = m
        BY <4>1, <4>2, <4>4 DEF Claims, SameSlot, SameNode
      <4>6. Comes(r, c)
        BY <2>2, <4>5 DEF Comes
      <4> QED
        BY <1>2, <1>5, <4>6
    <3> QED
      BY <3>1, <3>2
  <2> QED
    BY <2>2, <2>3 DEF Awaited
<1>8. ASSUME NEW k \in Nodes, nd'[k].output
      PROVE  nd'[k].visits > 0 \/ \E u \in Threads : In(u, {"leaf"}, k)'
  <2>1. CASE nd[k].output
    <3>1. CASE nd[k].visits > 0
      BY <1>4, <3>1
    <3>2. ASSUME NEW u \in Threads, In(u, {"leaf"}, k), u # t
          PROVE  In(u, {"leaf"}, k)'
      BY <1>2, <3>2 DEF In
    <3>3. ASSUME In(t, {"leaf"}, k) PROVE nd'[k].visits > 0
      <4>1. q.pc = "leaf" /\ q.cur = k
        BY <1>1, <3>3 DEF In
      <4>2. n = k /\ CountsLeaf(q, r, e, d)
        BY <1>3, <4>1 DEF InPlace, Elsewhere, Arrives, StoresOutput, Changes, Chooses,
           Claims, Updates, Turns, Takes, LetsGo, Descends, AddsEdge, Returns, Pops
      <4>3. e.visits \in Nat
        BY DEF NodeRecs
      <4> QED
        BY <1>2, <4>2, <4>3 DEF CountsLeaf
    <3> QED
      BY <2>1, <3>1, <3>2, <3>3 DEF VisitInv
  <2>2. CASE ~nd[k].output
    <3>1. k = n /\ ~e.output /\ d.output
      BY <1>1, <1>2, <1>8, <2>2
    <3>2. StoresOutput(q, r, e, d) /\ n = q.cur
      <4>1. ~Arrives(q, r, e, d) /\ ~Chooses(q, r, n, e, d) /\ ~Turns(q, r, e, d)
            /\ ~Descends(q, r, e, d)
        BY <3>1 DEF Arrives, Chooses, Turns, Descends
      <4>2. ~CountsLeaf(q, r, e, d) /\ ~AddsEdge(q, r, n, e, d) /\ ~Updates(q, r, e, d)
        BY <3>1 DEF CountsLeaf, AddsEdge, Updates, Counts, SameOutput
      <4>3. ~Changes(q, r, e, d) /\ ~Claims(q, r, e, d)
        BY <3>1 DEF Changes, Claims, SameOutput
      <4>4. ~Takes(q, r, n, e, d) /\ ~LetsGo(q, r, n, e, d) /\ ~Returns(q, r, n, e, d)
        BY <3>1 DEF Takes, LetsGo, Returns, Loses, SameOutput
      <4> QED
        BY <1>3, <4>1, <4>2, <4>3, <4>4 DEF InPlace, Elsewhere
    <3>3. CASE r.pc = "leaf"
      BY <1>2, <3>1, <3>2, <3>3 DEF StoresOutput, SameNode, In
    <3>4. CASE r.pc # "leaf"
      BY <1>1, <1>4, <3>1, <3>2, <3>4 DEF StoresOutput
    <3> QED
      BY <3>3, <3>4
  <2> QED
    BY <2>1, <2>2
<1> QED
  BY <1>7, <1>8 DEF VisitInv

(***************************************************************************)
(* Virtual losses: each is held by one frame of a playout.                 *)
(***************************************************************************)
LossInv ==
  \A n \in Nodes : IsFiniteSet(Holders(n)) /\ nd[n].vl = Cardinality(Holders(n))

\* What a step of a thread does to the frames that hold a loss of a node, H
\* before and G after it, and to the number of losses.
HeldAs(H, G, a, b) ==
  \/ G = H /\ b = a
  \/ \E x : x \notin H /\ G = H \cup {x} /\ b = a + 1
  \/ \E x \in H : G = H \ {x} /\ b = a - 1
  \/ \E x \in H : \E y : y \notin H /\ G = (H \ {x}) \cup {y} /\ b = a

\* The frames of a thread whose path stays.
LEMMA HeldHere ==
  ASSUME NEW q \in ThreadRecs, NEW r \in ThreadRecs, SameNode(q, r)
  PROVE  /\ \A k : Held(q, k) \ {0} = Held(r, k) \ {0}
         /\ \A k : 0 \in Held(r, k) <=> r.pc \in Losing /\ ChildOf(r.cur, r.move) = k
         /\ \A k : 0 \in Held(q, k) <=> q.pc \in Losing /\ ChildOf(q.cur, q.move) = k
<1>1. r.path = q.path /\ Len(q.path) \in Nat
  <2>1. q.path \in Seq(Frames)
    BY DEF ThreadRecs
  <2> QED
    BY <2>1 DEF SameNode
<1> QED
  BY <1>1 DEF Held

LEMMA HeldSame ==
  ASSUME NEW q \in ThreadRecs, NEW r \in ThreadRecs, SameNode(q, r), NEW k,
         \/ q.pc \notin Losing /\ r.pc \notin Losing
         \/ q.pc \in Losing /\ r.pc \in Losing /\ r.move = q.move
  PROVE  Held(r, k) = Held(q, k)
<1>1. r.cur = q.cur
  BY DEF SameNode
<1>2. 0 \in Held(r, k) <=> 0 \in Held(q, k)
  BY <1>1, HeldHere
<1> QED
  BY <1>2, HeldHere

LEMMA HeldElsewhere ==
  ASSUME IInv, OutsideInv, NEW t \in Threads, NEW r \in ThreadRecs, NEW n \in Nodes,
         NEW d \in NodeRecs, Elsewhere(th[t], r, n, nd[n], d), NEW k \in Nodes,
         NEW v, v = IF k = n THEN d.vl ELSE nd[k].vl
  PROVE  HeldAs(Held(th[t], k), Held(r, k), nd[k].vl, v)
<1>1. PICK q \in ThreadRecs, e \in NodeRecs : q = th[t] /\ e = nd[n]
  BY NodeHere, Here
<1>2. PICK H, G, a : H = Held(q, k) /\ G = Held(r, k) /\ a = nd[k].vl
  OBVIOUS
<1>3. /\ q.path \in Seq(Frames) /\ Len(q.path) \in Nat /\ r.path \in Seq(Frames)
      /\ Len(r.path) \in Nat
  <2>1. q.path \in Seq(Frames)
    BY DEF ThreadRecs
  <2>2. r.path \in Seq(Frames)
    BY DEF ThreadRecs
  <2> QED
    BY <2>1, <2>2
<1> SUFFICES HeldAs(H, G, a, v)
  BY <1>1, <1>2
<1>4. CASE Turns(q, r, e, d)
  <2>1. q.path = <<>> /\ r.path = <<>>
    BY <1>1, <1>4 DEF Turns, OutsideInv
  <2>2. q.pc \notin Losing /\ r.pc \notin Losing
    BY <1>4 DEF Turns, Losing
  <2>3. H = {} /\ G = {}
    BY <1>2, <2>1, <2>2 DEF Held
  <2> QED
    BY <1>1, <1>2, <1>4, <2>3 DEF Turns, HeldAs
<1>5. CASE Takes(q, r, n, e, d)
  <2>1. q.pc \notin Losing /\ r.pc \in Losing /\ n = ChildOf(r.cur, r.move) /\ d.vl = e.vl + 1
        /\ SameNode(q, r)
    BY <1>5 DEF Takes, Losing, Loses
  <2>2. 0 \notin H /\ H \ {0} = G \ {0} /\ (0 \in G <=> k = n)
    BY <1>2, <2>1, HeldHere
  <2>3. CASE k = n
    <3>1. G = H \cup {0} /\ v = a + 1
      BY <1>1, <1>2, <2>1, <2>2, <2>3
    <3> QED
      BY <2>2, <3>1 DEF HeldAs
  <2>4. CASE k # n
    <3>1. G = H /\ v = a
      BY <1>2, <2>2, <2>4
    <3> QED
      BY <3>1 DEF HeldAs
  <2> QED
    BY <2>3, <2>4
<1>6. CASE LetsGo(q, r, n, e, d)
  <2>1. r.pc \notin Losing /\ q.pc \in Losing /\ n = ChildOf(q.cur, q.move) /\ d.vl = e.vl + (-1)
        /\ SameNode(q, r)
    BY <1>6 DEF LetsGo, Losing, Loses
  <2>2. 0 \notin G /\ H \ {0} = G \ {0} /\ (0 \in H <=> k = n)
    BY <1>2, <2>1, HeldHere
  <2>3. CASE k = n
    <3>1. G = H \ {0} /\ v = a - 1
      <4>1. e.vl \in Int
        BY DEF NodeRecs
      <4> QED
        BY <1>1, <1>2, <2>1, <2>2, <2>3, <4>1
    <3> QED
      BY <2>2, <2>3, <3>1 DEF HeldAs
  <2>4. CASE k # n
    <3>1. G = H /\ v = a
      BY <1>2, <2>2, <2>4
    <3> QED
      BY <3>1 DEF HeldAs
  <2> QED
    BY <2>3, <2>4
<1>7. CASE Descends(q, r, e, d)
  <2>1. PICK f \in Frames : f.node = q.cur /\ f.move = q.move /\ r.path = Append(q.path, f)
    BY <1>7 DEF Descends
  <2>2. PICK l \in Nat : l = Len(q.path)
    BY <1>3
  <2>3. /\ Len(r.path) = l + 1 /\ r.path[l + 1] = f
        /\ \A i \in 1..l : r.path[i] = q.path[i]
    BY <1>3, <2>1, <2>2
  <2>4. q.pc \in Losing /\ r.pc \notin Losing /\ v = a
    BY <1>1, <1>2, <1>7 DEF Descends, Losing
  <2>5. \A i : i \in G <=> (i \in H /\ i # 0) \/ (i = l + 1 /\ ChildOf(q.cur, q.move) = k)
    BY <1>2, <2>1, <2>2, <2>3, <2>4 DEF Held
  <2>6. 0 \in H <=> ChildOf(q.cur, q.move) = k
    BY <1>2, <2>2, <2>4 DEF Held
  <2>7. l + 1 \notin H
    BY <1>2, <2>2 DEF Held
  <2>8. CASE 0 \in H
    <3>1. G = (H \ {0}) \cup {l + 1}
      BY <2>5, <2>6, <2>8
    <3> QED
      BY <2>4, <2>7, <2>8, <3>1 DEF HeldAs
  <2>9. CASE 0 \notin H
    <3>1. G = H
      BY <2>5, <2>6, <2>9
    <3> QED
      BY <2>4, <3>1 DEF HeldAs
  <2> QED
    BY <2>8, <2>9
<1>8. ASSUME Pops(q, r)
      PROVE  /\ Len(q.path) \in H <=> ChildOf(Top(q).node, Top(q).move) = k
             /\ G \ {0} = H \ {Len(q.path)} /\ Len(q.path) # 0 /\ 0 \notin H
             /\ 0 \in G <=> r.pc \in Losing /\ ChildOf(r.cur, r.move) = k
  <2>1. PICK l \in Nat : l = Len(q.path) /\ l # 0
    <3>1. q.path # <<>>
      BY <1>8 DEF Pops
    <3> QED
      BY <1>3, <3>1, EmptySeq
  <2>2. Len(r.path) = l - 1 /\ \A i \in 1..(l - 1) : r.path[i] = q.path[i]
    BY <1>3, <1>8, <2>1 DEF Pops
  <2>3. q.pc \notin Losing
    BY <1>8 DEF Pops, Losing
  <2>4. l \in H <=> ChildOf(Top(q).node, Top(q).move) = k
    BY <1>2, <2>1 DEF Held, Top
  <2>5. \A i : i \in G /\ i # 0 <=> i \in H /\ i # l
    BY SMTT(30), <1>2, <2>1, <2>2, <2>3 DEF Held
  <2>6. 0 \notin H
    BY <1>2, <2>3 DEF Held
  <2>7. 0 \in G <=> r.pc \in Losing /\ ChildOf(r.cur, r.move) = k
    BY <1>2, <1>3 DEF Held
  <2>8. G \ {0} = H \ {l}
    BY <2>5, <2>6
  <2> QED
    BY <2>1, <2>4, <2>6, <2>7, <2>8
<1>9. CASE Returns(q, r, n, e, d)
  <2>1. /\ Pops(q, r) /\ r.pc \notin Losing /\ n = ChildOf(Top(q).node, Top(q).move)
        /\ d.vl = e.vl + (-1)
    BY <1>9 DEF Returns, Loses, Losing
  <2>2. PICK l : l = Len(q.path)
    OBVIOUS
  <2>3. G = H \ {l} /\ (l \in H <=> k = n)
    BY <1>8, <2>1, <2>2
  <2>4. CASE k = n
    <3>1. v = a - 1
      <4>1. e.vl \in Int
        BY DEF NodeRecs
      <4> QED
        BY <1>1, <1>2, <2>1, <2>4, <4>1
    <3> QED
      BY <2>3, <2>4, <3>1 DEF HeldAs
  <2>5. CASE k # n
    <3>1. G = H /\ v = a
      BY <1>2, <2>3, <2>5
    <3> QED
      BY <3>1 DEF HeldAs
  <2> QED
    BY <2>4, <2>5
<1>10. CASE AddsEdge(q, r, n, e, d)
  <2>1. v = a /\ r.pc \in Losing
    BY <1>1, <1>2, <1>10 DEF AddsEdge, Counts, SameLoss, Losing
  <2>2. CASE q.pc = "catchUp" /\ SameSlot(q, r)
    <3>1. q.pc \in Losing /\ SameNode(q, r) /\ r.move = q.move
      BY <2>2 DEF SameSlot, Losing
    <3>2. G = H
      BY <1>2, <2>1, <3>1, HeldSame
    <3> QED
      BY <2>1, <3>2 DEF HeldAs
  <2>3. CASE Pops(q, r) /\ r.move = Top(q).move
    <3>1. r.cur = Top(q).node /\ r.move = Top(q).move
      BY <2>3 DEF Pops
    <3>2. PICK l : l = Len(q.path)
      OBVIOUS
    <3>3. (l \in H <=> 0 \in G) /\ G \ {0} = H \ {l} /\ 0 \notin H
      BY <1>8, <2>1, <2>3, <3>1, <3>2
    <3>4. CASE l \in H
      <4>1. G = (H \ {l}) \cup {0}
        BY <3>3, <3>4
      <4> QED
        BY <2>1, <3>3, <3>4, <4>1 DEF HeldAs
    <3>5. CASE l \notin H
      <4>1. G = H
        BY <3>3, <3>5
      <4> QED
        BY <2>1, <4>1 DEF HeldAs
    <3> QED
      BY <3>4, <3>5
  <2> QED
    BY <1>10, <2>2, <2>3 DEF AddsEdge
<1> QED
  BY <1>1, <1>4, <1>5, <1>6, <1>7, <1>9, <1>10 DEF Elsewhere

LEMMA HeldInPlace ==
  ASSUME IInv, NEW t \in Threads, NEW r \in ThreadRecs, NEW n \in Nodes,
         NEW d \in NodeRecs, InPlace(th[t], r, n, nd[n], d), NEW k \in Nodes
  PROVE  Held(th[t], k) = Held(r, k) /\ d.vl = nd[n].vl
<1>1. PICK q \in ThreadRecs, e \in NodeRecs : q = th[t] /\ e = nd[n]
  BY NodeHere, Here
<1> SUFFICES Held(q, k) = Held(r, k) /\ d.vl = e.vl
  BY <1>1
<1>2. CASE Arrives(q, r, e, d)
  <2>1. SameNode(q, r) /\ q.pc \notin Losing /\ r.pc \notin Losing /\ d = e
    BY <1>2 DEF Arrives, Losing
  <2> QED
    BY <2>1, HeldSame
<1>3. CASE CountsLeaf(q, r, e, d)
  <2>1. SameNode(q, r) /\ q.pc \notin Losing /\ r.pc \notin Losing /\ d.vl = e.vl
    BY <1>3 DEF CountsLeaf, Losing, Counts, SameLoss
  <2> QED
    BY <2>1, HeldSame
<1>4. CASE StoresOutput(q, r, e, d)
  <2>1. SameNode(q, r) /\ q.pc \notin Losing /\ r.pc \notin Losing /\ d.vl = e.vl
    BY <1>4 DEF StoresOutput, Losing, SameLoss
  <2> QED
    BY <2>1, HeldSame
<1>5. CASE Changes(q, r, e, d)
  <2>1. SameNode(q, r) /\ q.pc \notin Losing /\ r.pc \notin Losing /\ d.vl = e.vl
    BY <1>5 DEF Changes, Losing, SameLoss
  <2> QED
    BY <2>1, HeldSame
<1>6. CASE Chooses(q, r, n, e, d)
  <2>1. SameNode(q, r) /\ q.pc \notin Losing /\ r.pc \notin Losing /\ d = e
    BY <1>6 DEF Chooses, Losing
  <2> QED
    BY <2>1, HeldSame
<1>7. CASE Claims(q, r, e, d)
  <2>1. SameNode(q, r) /\ r.move = q.move /\ q.pc \in Losing /\ r.pc \in Losing /\ d.vl = e.vl
    BY <1>7 DEF Claims, Losing, SameLoss, SameSlot
  <2> QED
    BY <2>1, HeldSame
<1>8. CASE Updates(q, r, e, d)
  <2>1. SameNode(q, r) /\ r.move = q.move /\ q.pc \in Losing /\ r.pc \in Losing /\ d.vl = e.vl
    BY <1>8 DEF Updates, Losing, Counts, SameLoss, SameSlot
  <2> QED
    BY <2>1, HeldSame
<1> QED
  BY <1>1, <1>2, <1>3, <1>4, <1>5, <1>6, <1>7, <1>8 DEF InPlace

\* The holders of a node, and those after a step of thread t.
LEMMA HoldersAre ==
  ASSUME NEW k
  PROVE  \A x : x \in Holders(k) <=> \E u \in Threads : \E i \in Held(th[u], k) : x = <<u, i>>
BY DEF Holders

LEMMA HoldersMove ==
  ASSUME IInv, NEW t \in Threads, NEW r \in ThreadRecs, NEW n \in Nodes, NEW d \in NodeRecs,
         Does(t, r, n, d), NEW k
  PROVE  \A x : x \in Holders(k)' <=>
                \/ x \in Holders(k) /\ x \notin {t} \X Held(th[t], k)
                \/ x \in {t} \X Held(r, k)
<1>1. /\ th'[t] = r /\ \A u \in Threads \ {t} : th'[u] = th[u]
      /\ \A a, m : ChildOf(a, m)' = ChildOf(a, m)
  BY AfterEffect
<1>2. \A u \in Threads : Held(th[u], k)' = Held(th'[u], k)
  BY <1>1 DEF Held
<1>3. \A x : x \in Holders(k)' <=> \E u \in Threads : \E i \in Held(th[u], k)' : x = <<u, i>>
  BY DEF Holders
<1>4. PICK H, G : H = Held(th[t], k) /\ G = Held(r, k)
  OBVIOUS
<1> SUFFICES ASSUME NEW x
             PROVE  x \in Holders(k)' <=>
                    (x \in Holders(k) /\ x \notin {t} \X H) \/ x \in {t} \X G
  BY <1>4
<1>5. ASSUME x \in Holders(k)'
      PROVE  (x \in Holders(k) /\ x \notin {t} \X H) \/ x \in {t} \X G
  <2>1. PICK u, i : u \in Threads /\ i \in Held(th'[u], k) /\ x = <<u, i>>
    BY <1>2, <1>3, <1>5
  <2>2. CASE u = t
    BY <1>1, <1>4, <2>1, <2>2
  <2>3. CASE u # t
    <3>1. i \in Held(th[u], k)
      BY <1>1, <2>1, <2>3
    <3>2. x \in Holders(k)
      BY <2>1, <3>1, HoldersAre
    <3> QED
      BY <2>1, <2>3, <3>2
  <2> QED
    BY <2>2, <2>3
<1>6. ASSUME x \in {t} \X G PROVE x \in Holders(k)'
  <2>1. PICK i : i \in Held(th'[t], k) /\ x = <<t, i>>
    BY <1>1, <1>4, <1>6
  <2>2. i \in Held(th[t], k)'
    BY <1>2, <2>1
  <2> QED
    BY <1>3, <2>1, <2>2
<1>7. ASSUME x \in Holders(k), x \notin {t} \X H PROVE x \in Holders(k)'
  <2>1. PICK u, i : u \in Threads /\ i \in Held(th[u], k) /\ x = <<u, i>>
    BY <1>7, HoldersAre
  <2>2. u # t
    BY <1>4, <1>7, <2>1
  <2>3. i \in Held(th[u], k)'
    BY <1>1, <1>2, <2>1, <2>2
  <2> QED
    BY <1>3, <2>1, <2>3
<1> QED
  BY <1>5, <1>6, <1>7

LEMMA LossKept ==
  ASSUME IInv, OutsideInv, LossInv, NEW t \in Threads, NEW r \in ThreadRecs, NEW n \in Nodes,
         NEW d \in NodeRecs, Effect(t, r, n, d)
  PROVE  LossInv'
<1> SUFFICES ASSUME NEW k \in Nodes
             PROVE  (IsFiniteSet(Holders(k)) /\ nd[k].vl = Cardinality(Holders(k)))'
  BY DEF LossInv
<1>1. Does(t, r, n, d) /\ nd'[n] = d /\ \A j \in Nodes \ {n} : nd'[j] = nd[j]
  BY AfterEffect DEF Effect
<1>2. PICK H, G, a, b : H = Held(th[t], k) /\ G = Held(r, k) /\ a = nd[k].vl /\ b = nd'[k].vl
  OBVIOUS
<1>3. HeldAs(H, G, a, b)
  <2>1. b = IF k = n THEN d.vl ELSE nd[k].vl
    BY <1>1, <1>2
  <2>2. CASE InPlace(th[t], r, n, nd[n], d)
    <3>1. H = G /\ a = b
      BY <1>2, <2>1, <2>2, HeldInPlace
    <3> QED
      BY <3>1 DEF HeldAs
  <2>3. CASE Elsewhere(th[t], r, n, nd[n], d)
    BY <1>2, <2>1, <2>3, HeldElsewhere
  <2> QED
    BY <2>2, <2>3 DEF Effect
<1>4. PICK X, Y : X = Holders(k) /\ Y = Holders(k)'
  OBVIOUS
<1>5. IsFiniteSet(X) /\ a = Cardinality(X) /\ a \in Nat
  BY <1>2, <1>4, FS_CardinalityType DEF LossInv
<1>6. \A i : <<t, i>> \in X <=> i \in H
  <2>1. \A x : x \in X <=> \E u \in Threads : \E i \in Held(th[u], k) : x = <<u, i>>
    BY <1>4, HoldersAre
  <2> QED
    BY <1>2, <2>1
<1>7. \A x : x \in Y <=> (x \in X /\ x \notin {t} \X H) \/ x \in {t} \X G
  BY <1>1, <1>2, <1>4, HoldersMove
<1>8. \A x : x \in {t} \X H => x \in X
  BY <1>6
<1>9. CASE G = H /\ b = a
  <2>1. Y = X
    BY <1>7, <1>8, <1>9
  <2> QED
    BY <1>2, <1>4, <1>5, <1>9, <2>1
<1>10. ASSUME NEW x, x \notin H, G = H \cup {x}, b = a + 1
       PROVE  IsFiniteSet(Y) /\ b = Cardinality(Y)
  <2>1. Y = X \cup {<<t, x>>} /\ <<t, x>> \notin X
    BY <1>6, <1>7, <1>8, <1>10
  <2> QED
    BY <1>5, <1>10, <2>1, FS_AddElement
<1>11. ASSUME NEW x \in H, G = H \ {x}, b = a - 1
       PROVE  IsFiniteSet(Y) /\ b = Cardinality(Y)
  <2>1. Y = X \ {<<t, x>>} /\ <<t, x>> \in X
    BY <1>6, <1>7, <1>8, <1>11
  <2> QED
    BY <1>5, <1>11, <2>1, FS_RemoveElement
<1>12. ASSUME NEW x \in H, NEW y, y \notin H, G = (H \ {x}) \cup {y}, b = a
       PROVE  IsFiniteSet(Y) /\ b = Cardinality(Y)
  <2>1. PICK Z : Z = X \ {<<t, x>>}
    OBVIOUS
  <2>2. <<t, x>> \in X /\ <<t, y>> \notin X
    BY <1>6, <1>12
  <2>3. Y = Z \cup {<<t, y>>} /\ <<t, y>> \notin Z
    BY <1>7, <1>8, <1>12, <2>1, <2>2
  <2>4. IsFiniteSet(Z) /\ Cardinality(Z) = a - 1
    BY <1>5, <2>1, <2>2, FS_RemoveElement
  <2>5. IsFiniteSet(Y) /\ Cardinality(Y) = Cardinality(Z) + 1
    BY <2>3, <2>4, FS_AddElement
  <2> QED
    BY <1>5, <1>12, <2>4, <2>5
<1> QED
  BY <1>2, <1>3, <1>4, <1>9, <1>10, <1>11, <1>12 DEF HeldAs

(***************************************************************************)
(* The sum of visits: those of the edges, those of the node, and those     *)
(* announced and not yet added.                                            *)
(***************************************************************************)
Announcing(n) == {t \in Threads : In(t, {"announce"}, n)}
\* What the thread between storing and settling has added already.
Settling(n) == IF \E t \in Threads : In(t, {"settle"}, n)
               THEN th[CHOOSE t \in Threads : In(t, {"settle"}, n)].pending ELSE 0
SumInv ==
  \A n \in Nodes :
    nd[n].leaf + Sum(nd[n].edge) =
      nd[n].visits + nd[n].dirty + Cardinality(Announcing(n)) - Settling(n)

LEMMA SumMore ==
  ASSUME NEW f \in [Slots -> Nat], NEW i \in Slots
  PROVE  Sum([f EXCEPT ![i] = @ + 1]) = Sum(f) + 1
<1>1. PICK g \in [Slots -> Nat] : g = [f EXCEPT ![i] = @ + 1]
  <2>1. [f EXCEPT ![i] = @ + 1] \in [Slots -> Nat]
    OBVIOUS
  <2> QED
    BY <2>1
<1> DEFINE X == UNION {{j} \X (1..f[j]) : j \in Slots}
           Y == UNION {{j} \X (1..g[j]) : j \in Slots}
<1>2. \A x : x \in X <=> \E j \in Slots, k \in Nat : x = <<j, k>> /\ 1 <= k /\ k <= f[j]
  <2>1. \A j \in Slots : \A k : k \in 1..f[j] <=> k \in Nat /\ 1 <= k /\ k <= f[j]
    OBVIOUS
  <2> QED
    BY <2>1
<1>3. \A x : x \in Y <=> \E j \in Slots, k \in Nat : x = <<j, k>> /\ 1 <= k /\ k <= g[j]
  <2>1. \A j \in Slots : \A k : k \in 1..g[j] <=> k \in Nat /\ 1 <= k /\ k <= g[j]
    OBVIOUS
  <2> QED
    BY <2>1
<1>4. \A j \in Slots : g[j] = IF j = i THEN f[i] + 1 ELSE f[j]
  BY <1>1
<1>5. \A j \in Slots, k \in Nat :
        1 <= k /\ k <= g[j] <=> (1 <= k /\ k <= f[j]) \/ (j = i /\ k = f[i] + 1)
  BY <1>4
<1>6. f[i] + 1 \in Nat
  OBVIOUS
<1>7. IsFiniteSet(X) /\ Cardinality(X) = Sum(f) /\ Cardinality(Y) = Sum(g)
  BY SumIs DEF Sum
<1> HIDE DEF X, Y
<1>8. Y = X \cup {<<i, f[i] + 1>>}
  BY <1>2, <1>3, <1>5, <1>6
<1>9. <<i, f[i] + 1>> \notin X
  BY <1>2
<1>10. Cardinality(Y) = Cardinality(X) + 1
  BY <1>8, <1>9, <1>7, FS_AddElement
<1> QED
  BY <1>1, <1>7, <1>10

\* The thread that settles a node is the only one there.
LEMMA SettlingIs ==
  ASSUME IInv, NEW n \in Nodes
  PROVE  /\ \A t \in Threads : In(t, {"settle"}, n) => Settling(n) = th[t].pending
         /\ (\A t \in Threads : ~In(t, {"settle"}, n)) => Settling(n) = 0
         /\ IsFiniteSet(Announcing(n)) /\ Cardinality(Announcing(n)) \in Nat
         /\ Settling(n) \in Nat
<1>1. ASSUME NEW t \in Threads, In(t, {"settle"}, n)
      PROVE  Settling(n) = th[t].pending
  <2>1. \A u \in Threads : In(u, {"settle"}, n) => u = t
    BY <1>1 DEF IInv, UpdateInv, Updating, In
  <2>2. (CHOOSE u \in Threads : In(u, {"settle"}, n)) = t
    BY <1>1, <2>1
  <2> QED
    BY <1>1, <2>2 DEF Settling
<1>2. (\A t \in Threads : ~In(t, {"settle"}, n)) => Settling(n) = 0
  BY DEF Settling
<1>3. \A t \in Threads : th[t].pending \in Nat
  BY Here DEF ThreadRecs
<1>4. Settling(n) \in Nat
  BY <1>1, <1>2, <1>3
<1>5. IsFiniteSet(Announcing(n)) /\ Cardinality(Announcing(n)) \in Nat
  BY ThreadsAssumption, FS_Subset, FS_CardinalityType DEF Announcing
<1> QED
  BY <1>1, <1>2, <1>4, <1>5

LEMMA AnnouncingIs ==
  ASSUME IInv, NEW t \in Threads, NEW r \in ThreadRecs, NEW n \in Nodes, NEW d \in NodeRecs,
         Does(t, r, n, d), NEW k \in Nodes
  PROVE  Announcing(k)' =
           IF r.pc = "announce" /\ r.cur = k THEN Announcing(k) \cup {t}
           ELSE Announcing(k) \ {t}
<1>1. th'[t] = r /\ \A u \in Threads \ {t} : th'[u] = th[u]
  BY AfterEffect
<1> QED
  BY <1>1 DEF Announcing, In

\* What is settled changes only with a thread that begins or ends to settle.
LEMMA SettlingStays ==
  ASSUME IInv, IInv', NEW t \in Threads, NEW r \in ThreadRecs, NEW n \in Nodes, NEW d \in NodeRecs,
         Does(t, r, n, d), NEW k \in Nodes,
         ~In(t, {"settle"}, k), r.pc # "settle" \/ r.cur # k
  PROVE  Settling(k)' = Settling(k)
<1>1. th'[t] = r /\ \A u \in Threads \ {t} : th'[u] = th[u]
  BY AfterEffect
<1>2. \A u \in Threads : In(u, {"settle"}, k)' <=> In(u, {"settle"}, k)
  BY <1>1 DEF In
<1>3. CASE \E u \in Threads : In(u, {"settle"}, k)
  <2>1. PICK u \in Threads : In(u, {"settle"}, k)
    BY <1>3
  <2>2. u # t /\ th'[u] = th[u] /\ In(u, {"settle"}, k)'
    BY <1>1, <1>2, <2>1
  <2>3. Settling(k) = th[u].pending
    BY <2>1, SettlingIs
  <2>4. \A w \in Threads : In(w, {"settle"}, k) => w = u
    BY <2>1 DEF IInv, UpdateInv, Updating, In
  <2>5. \A w \in Threads : In(w, {"settle"}, k)' => w = u
    BY <1>2, <2>4
  <2>6. (CHOOSE w \in Threads : In(w, {"settle"}, k)') = u
    BY <2>2, <2>5
  <2>7. Settling(k)' = th'[u].pending
    BY <2>2, <2>6 DEF Settling
  <2> QED
    BY <2>2, <2>3, <2>7
<1>4. CASE \A u \in Threads : ~In(u, {"settle"}, k)
  BY <1>2, <1>4 DEF Settling
<1> QED
  BY <1>3, <1>4

LEMMA SumKept ==
  ASSUME IInv, IInv', SumInv, NEW t \in Threads, NEW r \in ThreadRecs, NEW n \in Nodes,
         NEW d \in NodeRecs, Effect(t, r, n, d)
  PROVE  SumInv'
<1>1. PICK q \in ThreadRecs, e \in NodeRecs : q = th[t] /\ e = nd[n]
  BY NodeHere, Here
<1>2. /\ Does(t, r, n, d) /\ nd'[n] = d /\ \A k \in Nodes \ {n} : nd'[k] = nd[k]
      /\ th'[t] = r
  BY AfterEffect DEF Effect
<1>3. InPlace(q, r, n, e, d) \/ Elsewhere(q, r, n, e, d)
  BY <1>1 DEF Effect
<1>4. /\ e.leaf \in Nat /\ e.visits \in Nat /\ e.dirty \in Nat /\ e.edge \in [Slots -> Nat]
      /\ q.pending \in Nat
  <2>1. e.leaf \in Nat /\ e.visits \in Nat /\ e.dirty \in Nat /\ e.edge \in [Slots -> Nat]
    BY DEF NodeRecs
  <2>2. q.pending \in Nat
    BY DEF ThreadRecs
  <2> QED
    BY <2>1, <2>2
<1>5. PICK S \in Nat : S = Sum(e.edge)
  BY <1>4, SumIs
<1>6. PICK A, B : A = Announcing(n) /\ B = Announcing(n)'
  OBVIOUS
<1>7. PICK a \in Nat, x \in Nat : a = Cardinality(A) /\ IsFiniteSet(A) /\ x = Settling(n)
  BY <1>6, SettlingIs
<1>8. e.leaf + S = e.visits + e.dirty + a - x
  BY <1>1, <1>5, <1>6, <1>7 DEF SumInv
<1>9. B = IF r.pc = "announce" /\ r.cur = n THEN A \cup {t} ELSE A \ {t}
  BY <1>2, <1>6, AnnouncingIs
<1>10. t \in A <=> q.pc = "announce" /\ q.cur = n
  BY <1>1, <1>6 DEF Announcing, In
\* Nodes in which the thread neither was nor is to announce or settle.
<1>11. ASSUME NEW k \in Nodes,
              q.cur = k => q.pc \notin {"announce", "settle"},
              r.cur = k => r.pc \notin {"announce", "settle"}
       PROVE  Announcing(k)' = Announcing(k) /\ Settling(k)' = Settling(k)
  <2>1. ~In(t, {"settle"}, k) /\ t \notin Announcing(k)
    BY <1>1, <1>11 DEF In, Announcing
  <2>2. Settling(k)' = Settling(k)
    BY <1>2, <1>11, <2>1, SettlingStays
  <2>3. ~(r.pc = "announce" /\ r.cur = k)
    BY <1>11
  <2>4. Announcing(k)' = Announcing(k) \ {t}
    BY <1>2, <2>3, AnnouncingIs
  <2> QED
    BY <2>1, <2>2, <2>4
<1>12. SUFFICES ASSUME NEW k \in Nodes
                PROVE  nd'[k].leaf + Sum(nd'[k].edge) =
                         nd'[k].visits + nd'[k].dirty + Cardinality(Announcing(k)') - Settling(k)'
  BY DEF SumInv
<1>13. CASE k # n
  <2>1. q.cur = k => q.pc \notin {"announce", "settle"}
    <3>1. ASSUME q.cur = k, q.pc \in {"announce", "settle"} PROVE FALSE
      <4>1. ~InPlace(q, r, n, e, d)
        BY <1>13, <3>1 DEF InPlace
      <4> QED
        BY <1>3, <3>1, <4>1 DEF Elsewhere, Turns, Takes, LetsGo, Descends, AddsEdge, Returns, Pops
    <3> QED
      BY <3>1
  <2>2. r.cur = k => r.pc \notin {"announce", "settle"}
    <3>1. ASSUME r.cur = k, r.pc \in {"announce", "settle"} PROVE FALSE
      <4>1. CASE InPlace(q, r, n, e, d)
        BY <1>13, <3>1, <4>1 DEF InPlace, Arrives, CountsLeaf, StoresOutput, Changes, Chooses,
           Claims, Updates, SameSlot, SameNode
      <4>2. CASE Elsewhere(q, r, n, e, d)
        BY <1>13, <3>1, <4>2 DEF Elsewhere, Turns, Takes, LetsGo, Descends, AddsEdge, Returns
      <4> QED
        BY <1>3, <4>1, <4>2
    <3> QED
      BY <3>1
  <2>3. nd'[k] = nd[k] /\ Announcing(k)' = Announcing(k) /\ Settling(k)' = Settling(k)
    BY <1>2, <1>11, <1>13, <2>1, <2>2
  <2> QED
    BY <2>3 DEF SumInv
<1> SUFFICES ASSUME k = n
             PROVE  d.leaf + Sum(d.edge) = d.visits + d.dirty + Cardinality(B) - Settling(n)'
  BY <1>2, <1>6, <1>13
<1>14. ASSUME q.pc \notin {"announce", "settle"}, r.pc \notin {"announce", "settle"}
       PROVE  B = A /\ Settling(n)' = x
  BY <1>6, <1>7, <1>11, <1>14
<1>15. CASE CountsLeaf(q, r, e, d)
  <2>1. q.pc \notin {"announce", "settle"} /\ r.pc \notin {"announce", "settle"}
    BY <1>15 DEF CountsLeaf
  <2>2. d.edge = e.edge /\ d.dirty = e.dirty /\ d.visits = e.visits + 1 /\ d.leaf = e.leaf + 1
    BY <1>15 DEF CountsLeaf
  <2> QED
    BY <1>4, <1>5, <1>7, <1>8, <1>14, <2>1, <2>2
<1>16. CASE AddsEdge(q, r, n, e, d)
  <2>1. PICK i \in Slots : d.edge = [e.edge EXCEPT ![i] = @ + 1]
    BY <1>16 DEF AddsEdge
  <2>2. Sum(d.edge) = S + 1
    BY <1>4, <1>5, <2>1, SumMore
  <2>3. /\ q.pc \notin {"announce", "settle"} /\ r.pc = "announce" /\ r.cur = n
        /\ d.visits = e.visits /\ d.leaf = e.leaf /\ d.dirty = e.dirty
    BY <1>16 DEF AddsEdge, Pops
  <2>4. B = A \cup {t} /\ t \notin A
    BY <1>9, <1>10, <2>3
  <2>5. Cardinality(B) = a + 1
    BY <1>7, <2>4, FS_AddElement
  <2>6. Settling(n)' = x
    <3>1. ~In(t, {"settle"}, n)
      BY <1>1, <2>3 DEF In
    <3> QED
      BY <1>2, <1>7, <2>3, <3>1, SettlingStays
  <2> QED
    BY <1>4, <1>5, <1>7, <1>8, <2>2, <2>3, <2>5, <2>6
<1>17. CASE n = q.cur /\ Updates(q, r, e, d)
  <2>1. d.edge = e.edge /\ d.leaf = e.leaf /\ r.cur = n
    BY <1>17 DEF Updates, SameSlot, SameNode
  <2>2. CASE q.pc = "announce"
    <3>1. r.pc \notin {"announce", "settle"} /\ d.visits = e.visits /\ d.dirty = e.dirty + 1
      BY <1>17, <2>2 DEF Updates
    <3>2. B = A \ {t} /\ t \in A
      BY <1>9, <1>10, <1>17, <2>2, <3>1
    <3>3. Cardinality(B) = a - 1
      BY <1>7, <3>2, FS_RemoveElement
    <3>4. Settling(n)' = x
      <4>1. ~In(t, {"settle"}, n)
        BY <1>1, <2>2 DEF In
      <4> QED
        BY <1>2, <1>7, <3>1, <4>1, SettlingStays
    <3> QED
      BY <1>4, <1>5, <1>7, <1>8, <2>1, <3>1, <3>3, <3>4
  <2>3. CASE q.pc = "recompute"
    <3>1. r.pc = "store" /\ d = e
      BY <1>17, <2>3 DEF Updates
    <3> QED
      BY <1>5, <1>7, <1>8, <1>14, <2>3, <3>1
  <2>4. CASE q.pc = "store"
    <3>1. /\ r.pc = "settle" /\ r.pending = q.pending
          /\ d.visits = e.visits + q.pending /\ d.dirty = e.dirty
      BY <1>17, <2>4 DEF Updates
    <3>2. B = A
      BY <1>9, <1>10, <2>4, <3>1
    <3>3. x = 0
      <4>1. \A u \in Threads \ {t} : ~In(u, Updating, n)
        BY <1>1, <1>17, <2>4, UpdaterIs DEF Updating
      <4>2. \A u \in Threads : ~In(u, {"settle"}, n)
        BY <1>1, <2>4, <4>1 DEF In, Updating
      <4> QED
        BY <1>7, <4>2, SettlingIs
    <3>4. Settling(n)' = q.pending
      <4>1. In(t, {"settle"}, n)'
        BY <1>2, <2>1, <3>1 DEF In
      <4>2. \A u \in Threads : In(u, {"settle"}, n)' => u = t
        BY <4>1 DEF IInv, UpdateInv, Updating, In
      <4>3. (CHOOSE u \in Threads : In(u, {"settle"}, n)') = t
        BY <4>1, <4>2
      <4> QED
        BY <1>2, <3>1, <4>1, <4>3 DEF Settling
    <3> QED
      BY <1>4, <1>5, <1>7, <1>8, <2>1, <3>1, <3>2, <3>3, <3>4
  <2>5. CASE q.pc = "settle"
    <3>1. r.pc \in {"leave", "recompute"} /\ d.visits = e.visits /\ d.dirty = e.dirty - q.pending
      BY <1>17, <2>5 DEF Updates
    <3>2. B = A
      BY <1>9, <1>10, <2>5, <3>1
    <3>3. x = q.pending
      <4>1. In(t, {"settle"}, n)
        BY <1>1, <1>17, <2>5 DEF In
      <4> QED
        BY <1>1, <1>7, <4>1, SettlingIs
    <3>4. Settling(n)' = 0
      <4>1. \A u \in Threads \ {t} : ~In(u, Updating, n)
        BY <1>1, <1>17, <2>5, UpdaterIs DEF Updating
      <4>2. \A u \in Threads : ~In(u, {"settle"}, n)'
        <5>1. \A u \in Threads \ {t} : th'[u] = th[u]
          BY <1>2, AfterEffect
        <5> QED
          BY <1>2, <3>1, <4>1, <5>1 DEF In, Updating
      <4> QED
        BY <4>2 DEF Settling
    <3> QED
      BY <1>4, <1>5, <1>7, <1>8, <2>1, <3>1, <3>2, <3>3, <3>4
  <2> QED
    BY <1>17, <2>2, <2>3, <2>4, <2>5 DEF Updates
<1>18. ASSUME q.pc \notin {"announce", "settle"}, r.pc \notin {"announce", "settle"},
              d = e \/ SameCounts(e, d)
       PROVE  d.leaf + Sum(d.edge) = d.visits + d.dirty + Cardinality(B) - Settling(n)'
  <2>1. d.edge = e.edge /\ d.visits = e.visits /\ d.leaf = e.leaf /\ d.dirty = e.dirty
    BY <1>18 DEF SameCounts
  <2> QED
    BY <1>5, <1>7, <1>8, <1>14, <1>18, <2>1
<1>19. CASE Arrives(q, r, e, d) \/ Chooses(q, r, n, e, d) \/ Turns(q, r, e, d)
            \/ Descends(q, r, e, d)
  BY <1>18, <1>19 DEF Arrives, Chooses, Turns, Descends
<1>20. CASE StoresOutput(q, r, e, d) \/ Changes(q, r, e, d) \/ Claims(q, r, e, d)
  <2>1. SameCounts(e, d)
    BY <1>20 DEF StoresOutput, Changes, Claims
  <2>2. q.pc \notin {"announce", "settle"} /\ r.pc \notin {"announce", "settle"}
    BY <1>20 DEF StoresOutput, Changes, Claims
  <2> QED
    BY <1>18, <2>1, <2>2
<1>21. CASE Takes(q, r, n, e, d) \/ LetsGo(q, r, n, e, d) \/ Returns(q, r, n, e, d)
  <2>1. SameCounts(e, d)
    BY <1>21 DEF Takes, LetsGo, Returns, Loses
  <2>2. q.pc \notin {"announce", "settle"} /\ r.pc \notin {"announce", "settle"}
    BY <1>21 DEF Takes, LetsGo, Returns, Pops
  <2> QED
    BY <1>18, <2>1, <2>2
<1> QED
  BY <1>3, <1>15, <1>16, <1>17, <1>19, <1>20, <1>21 DEF InPlace, Elsewhere

(***************************************************************************)
(* Moves at the root.                                                      *)
(***************************************************************************)
AllowedInv ==
  /\ RootMovesAllowed
  /\ \A t \in Threads : In(t, ForMove, Root) => th[t].move \in allowed

\* A thread gets a move in mind for its node: one that it may search there.
LEMMA MoveInMind ==
  ASSUME NEW q, NEW r, NEW n, NEW e, NEW d,
         InPlace(q, r, n, e, d) \/ Elsewhere(q, r, n, e, d), r.pc \in ForMove
  PROVE  /\ r.cur = q.cur
         /\ (q.pc \in ForMove /\ r.move = q.move) \/ r.move \in Playable(q.cur)
<1>1. ~Arrives(q, r, e, d) /\ ~CountsLeaf(q, r, e, d) /\ ~StoresOutput(q, r, e, d)
      /\ ~Claims(q, r, e, d) /\ ~Updates(q, r, e, d)
  BY DEF ForMove, Arrives, CountsLeaf, StoresOutput, Claims, Updates
<1>2. ~Turns(q, r, e, d) /\ ~LetsGo(q, r, n, e, d) /\ ~Descends(q, r, e, d)
      /\ ~AddsEdge(q, r, n, e, d) /\ ~Returns(q, r, n, e, d)
  BY DEF ForMove, Turns, LetsGo, Descends, AddsEdge, Returns
<1>3. CASE Changes(q, r, e, d)
  BY <1>3 DEF Changes, SameNode, ForMove
<1>4. CASE Chooses(q, r, n, e, d) /\ n = q.cur
  BY <1>4 DEF Chooses, SameNode, ForMove
<1>5. CASE Takes(q, r, n, e, d)
  BY <1>5 DEF Takes, SameSlot, SameNode, ForMove
<1> QED
  BY <1>1, <1>2, <1>3, <1>4, <1>5 DEF InPlace, Elsewhere

LEMMA EffectRuns ==
  ASSUME NEW q, NEW r, NEW n, NEW e, NEW d,
         InPlace(q, r, n, e, d) \/ Elsewhere(q, r, n, e, d)
  PROVE  q.pc # "done"
<1>1. InPlace(q, r, n, e, d) => q.pc # "done"
  BY DEF InPlace, Arrives, CountsLeaf, StoresOutput, Changes, Chooses, Claims, Updates
<1>2. Elsewhere(q, r, n, e, d) => q.pc # "done"
  BY DEF Elsewhere, Turns, Takes, LetsGo, Descends, AddsEdge, Returns, Pops
<1> QED
  BY <1>1, <1>2

LEMMA AllowedKept ==
  ASSUME IInv, RoomInv, SlotInv, AllowedInv, NEW t \in Threads, NEW r \in ThreadRecs,
         NEW n \in Nodes, NEW d \in NodeRecs, Effect(t, r, n, d)
  PROVE  AllowedInv'
<1>1. PICK q \in ThreadRecs, e \in NodeRecs : q = th[t] /\ e = nd[n]
  BY NodeHere, Here
<1>2. /\ th'[t] = r /\ \A u \in Threads \ {t} : th'[u] = th[u]
      /\ nd'[n] = d /\ \A k \in Nodes \ {n} : nd'[k] = nd[k]
  BY AfterEffect DEF Effect
<1>3. allowed' = allowed /\ (InPlace(q, r, n, e, d) \/ Elsewhere(q, r, n, e, d))
  BY <1>1 DEF Effect, Does
<1>4. \A i \in Slots : nd[Root].slot[i] \in allowed \cup {None}
  <2>1. ~AtRest
    BY <1>1, <1>3, EffectRuns DEF AtRest
  <2> QED
    BY <2>1 DEF AllowedInv, RootMovesAllowed
<1>5. \A i \in Slots : nd'[Root].slot[i] \in allowed \cup {None}
  <2>1. Root \in Nodes
    BY DEF Nodes
  <2>2. CASE n = Root /\ d.slot # e.slot
    <3>1. Claims(q, r, e, d) /\ n = q.cur
      BY <1>1, <2>2, SlotEffect
    <3>2. q.move \in allowed
      BY <1>1, <2>2, <3>1 DEF Claims, AllowedInv, In, ForMove
    <3>3. e.slot \in [Slots -> Moves \cup {None}] /\ d.slot = [e.slot EXCEPT ![q.idx] = q.move]
      BY <3>1 DEF NodeRecs, Claims
    <3>4. \A i \in Slots : d.slot[i] \in {e.slot[i], q.move}
      BY <3>3
    <3> QED
      BY <1>1, <1>2, <1>4, <2>2, <3>2, <3>4
  <2>3. CASE ~(n = Root /\ d.slot # e.slot)
    BY <1>1, <1>2, <1>4, <2>1, <2>3
  <2> QED
    BY <2>2, <2>3
<1>6. r.pc \in ForMove /\ r.cur = Root => r.move \in allowed
  <2> SUFFICES ASSUME r.pc \in ForMove, r.cur = Root PROVE r.move \in allowed
    OBVIOUS
  <2>1. q.cur = Root /\ ((q.pc \in ForMove /\ r.move = q.move) \/ r.move \in Playable(Root))
    BY <1>3, MoveInMind
  <2>2. q.pc \in ForMove => q.move \in allowed
    BY <1>1, <2>1 DEF AllowedInv, In
  <2> QED
    BY <2>1, <2>2 DEF Playable
<1>7. \A u \in Threads : In(u, ForMove, Root)' => th'[u].move \in allowed
  BY <1>2, <1>6 DEF AllowedInv, In
<1> QED
  BY <1>3, <1>5, <1>7 DEF AllowedInv, RootMovesAllowed

(***************************************************************************)
(* Between searches.                                                       *)
(***************************************************************************)
SearchInv == RoomInv /\ SlotInv /\ OutsideInv /\ VisitInv /\ LossInv /\ SumInv

\* A node that nobody is in, and a tree of such nodes.
Whole(e) ==
  /\ e.arrays = (e.state + 1) \div 2 /\ e.state \notin {Evaluating} \cup Growing
  /\ Ordered(e.slot, e.state)
  /\ e.output => e.visits > 0
  /\ e.vl = 0 /\ e.dirty = 0 /\ e.leaf + Sum(e.edge) = e.visits
ChildrenVisited ==
  \A n \in Nodes, i \in Slots :
    nd[n].slot[i] # None => nd[ChildOf(n, nd[n].slot[i])].visits > 0
Waiting == \A t \in Threads : th[t].pc \in {"begin", "done"} /\ th[t].path = <<>>
Calm == Waiting /\ ChildrenVisited /\ \A n \in Nodes : Whole(nd[n])

LEMMA NobodyIn ==
  ASSUME Waiting, NEW k
  PROVE  /\ Holders(k) = {} /\ Announcing(k) = {} /\ Settling(k) = 0
         /\ \A t \in Threads : \A c : ~Comes(th[t], c)
<1>1. \A t \in Threads : th[t].pc \notin Losing \cup {"announce", "settle", "catchUp", "visit",
                                                      "evaluate", "leaf"}
  BY DEF Waiting, Losing
<1>2. \A t \in Threads : Held(th[t], k) = {}
  <2>1. \A t \in Threads : th[t].path = <<>> /\ th[t].pc \notin Losing
    BY <1>1 DEF Waiting
  <2> QED
    BY <2>1 DEF Held
<1>3. Holders(k) = {}
  BY <1>2 DEF Holders
<1>4. Announcing(k) = {} /\ Settling(k) = 0
  BY <1>1 DEF Announcing, Settling, In
<1> QED
  BY <1>1, <1>3, <1>4 DEF Comes

LEMMA RestCalm ==
  ASSUME IInv, SearchInv, AtRest
  PROVE  Calm
<1>1. Waiting
  <2>1. \A t \in Threads : th[t].pc = "done" /\ th[t].path = <<>>
    BY DEF SearchInv, OutsideInv, AtRest
  <2> QED
    BY <2>1 DEF Waiting
<1>2. \A t \in Threads : th[t].pc = "done"
  BY DEF AtRest
<1>3. ChildrenVisited
  BY <1>1, NobodyIn DEF SearchInv, VisitInv, ChildrenVisited, Awaited
<1>4. ASSUME NEW n \in Nodes PROVE Whole(nd[n])
  <2>1. PICK e \in NodeRecs : e = nd[n]
    BY NodeHere
  <2>2. e.dirty = 0
    BY <2>1, RestIs
  <2>3. e.arrays = (e.state + 1) \div 2 /\ e.state \notin {Evaluating} \cup Growing
    BY <1>2, <2>1 DEF SearchInv, RoomInv, In
  <2>4. Ordered(e.slot, e.state)
    BY <2>1 DEF SearchInv, SlotInv
  <2>5. e.output => e.visits > 0
    BY <1>2, <2>1 DEF SearchInv, VisitInv, In
  <2>6. e.vl = 0
    <3>1. e.vl = Cardinality(Holders(n)) /\ Holders(n) = {}
      BY <1>1, <2>1, NobodyIn DEF SearchInv, LossInv
    <3> QED
      BY <3>1, FS_EmptySet
  <2>7. e.leaf + Sum(e.edge) = e.visits
    <3>1. e.leaf + Sum(e.edge) = e.visits + e.dirty + Cardinality(Announcing(n)) - Settling(n)
      BY <2>1 DEF SearchInv, SumInv
    <3>2. Cardinality(Announcing(n)) = 0 /\ Settling(n) = 0
      BY <1>1, NobodyIn, FS_EmptySet
    <3>3. e.visits \in Nat
      BY DEF NodeRecs
    <3> QED
      BY <2>2, <3>1, <3>2, <3>3
  <2> QED
    BY <2>1, <2>2, <2>3, <2>4, <2>5, <2>6, <2>7 DEF Whole
<1> QED
  BY <1>1, <1>3, <1>4 DEF Calm

LEMMA CalmIs == IInv /\ Calm => SearchInv
<1> SUFFICES ASSUME IInv, Calm PROVE SearchInv
  OBVIOUS
<1>1. Waiting /\ \A n \in Nodes : Whole(nd[n])
  BY DEF Calm
<1>2. \A t \in Threads : th[t].pc \in {"begin", "done"} /\ th[t].path = <<>>
  BY <1>1 DEF Waiting
<1>3. RoomInv
  <2>1. \A t \in Threads : th[t].pc \notin {"grown", "select", "grow"}
    BY <1>2
  <2> QED
    BY <1>1, <2>1 DEF RoomInv, Whole
<1>4. SlotInv
  <2>1. \A t \in Threads : th[t].pc \notin {"grow", "grown", "find", "claim"}
    BY <1>2
  <2> QED
    BY <1>1, <2>1 DEF SlotInv, Whole, Fits, ForMove
<1>5. OutsideInv
  BY <1>2 DEF OutsideInv
<1>6. VisitInv
  BY <1>1 DEF Calm, ChildrenVisited, VisitInv, Awaited, Whole
<1>7. LossInv
  BY <1>1, NobodyIn, FS_EmptySet DEF LossInv, Whole
<1>8. SumInv
  <2>1. ASSUME NEW n \in Nodes
        PROVE  nd[n].leaf + Sum(nd[n].edge) =
                 nd[n].visits + nd[n].dirty + Cardinality(Announcing(n)) - Settling(n)
    <3>1. nd[n].leaf + Sum(nd[n].edge) = nd[n].visits /\ nd[n].dirty = 0
      BY <1>1 DEF Whole
    <3>2. Cardinality(Announcing(n)) = 0 /\ Settling(n) = 0
      BY <1>1, NobodyIn, FS_EmptySet
    <3>3. nd[n].visits \in Nat
      BY NodeHere DEF NodeRecs
    <3> QED
      BY <3>1, <3>2, <3>3
  <2> QED
    BY <2>1 DEF SumInv
<1> QED
  BY <1>3, <1>4, <1>5, <1>6, <1>7, <1>8 DEF SearchInv

LEMMA CalmAfter == IInv' /\ Calm' => SearchInv'
BY CalmIs, PTL

LEMMA FreshIsWhole == Whole(FreshNode)
<1>1. PICK e \in NodeRecs : e = FreshNode
  BY FreshNodeIs
<1>2. /\ e.state = 0 /\ e.arrays = 0 /\ e.output = FALSE /\ e.vl = 0 /\ e.dirty = 0
      /\ e.leaf = 0 /\ e.visits = 0 /\ e.edge = NoEdges /\ e.slot = [i \in Slots |-> None]
  BY <1>1 DEF FreshNode, Unevaluated
<1>3. Sum(e.edge) = 0
  <2>1. UNION {{i} \X (1..NoEdges[i]) : i \in Slots} = {}
    BY DEF NoEdges
  <2> QED
    BY <1>2, <2>1, FS_EmptySet DEF Sum
<1>4. (0 + 1) \div 2 = 0
  OBVIOUS
<1>5. Ordered(e.slot, e.state)
  BY <1>2 DEF Ordered
<1> QED
  BY <1>1, <1>2, <1>3, <1>4, <1>5 DEF Whole, Evaluating, Growing

\* A tree swept: nodes are kept with their children, or new.
LEMMA SweptCalm ==
  ASSUME NEW nodes \in [Nodes -> NodeRecs], NEW pos \in Positions,
         \A n \in Nodes : Whole(nodes[n]),
         \A n \in Nodes, i \in Slots :
           LET p == IF n = Root THEN pos ELSE n
               m == nodes[n].slot[i]
           IN  m # None => m \in DOMAIN Leads[p] /\ nodes[Leads[p][m]].visits > 0,
         nd' = Swept(nodes, pos), rootPos' = pos
  PROVE  ChildrenVisited' /\ \A n \in Nodes : Whole(nd'[n])
<1>1. \A n \in Nodes : nd'[n] = IF n = Root \/ n \in Reached(nodes, pos) THEN nodes[n]
                                ELSE FreshNode
  BY DEF Swept
<1>2. \A n \in Nodes : Whole(nd'[n])
  BY <1>1, FreshIsWhole
<1>3. ASSUME NEW n \in Nodes, NEW i \in Slots, nd'[n].slot[i] # None
      PROVE  nd'[ChildOf(n, nd[n].slot[i])'].visits > 0
  <2>1. nd'[n] = nodes[n] /\ (n = Root \/ n \in Reached(nodes, pos))
    <3>1. \A j \in Slots : FreshNode.slot[j] = None
      BY FreshNodeIs
    <3> QED
      BY <1>1, <1>3, <3>1
  <2>2. PICK p \in Positions : p = (IF n = Root THEN pos ELSE n)
    BY DEF Nodes
  <2>3. PICK m : m = nodes[n].slot[i]
    OBVIOUS
  <2>4. m # None /\ m \in DOMAIN Leads[p] /\ nodes[Leads[p][m]].visits > 0
    BY <1>3, <2>1, <2>2, <2>3
  <2>5. PICK c : c = Leads[p][m]
    OBVIOUS
  <2>6. c \in Positions /\ c \in Nodes /\ c \in Steps(nodes, n, p)
    BY <2>3, <2>4, <2>5, LeadsAssumption DEF Nodes, Steps
  <2>7. c \in Reached(nodes, pos)
    <3>1. CASE n = Root
      BY <2>2, <2>6, <3>1, ReachedIs
    <3>2. CASE n # Root
      BY <2>1, <2>2, <2>6, <3>2, ReachedIs
    <3> QED
      BY <3>1, <3>2
  <2>8. nd'[c] = nodes[c]
    BY <1>1, <2>6, <2>7
  <2>9. ChildOf(n, nd[n].slot[i])' = c
    BY <2>1, <2>2, <2>3, <2>5 DEF ChildOf, At
  <2> QED
    BY <2>4, <2>5, <2>8, <2>9
<1> QED
  BY <1>2, <1>3 DEF ChildrenVisited

LEMMA ClearedCalm ==
  ASSUME nd' = [n \in Nodes |-> FreshNode]
  PROVE  ChildrenVisited' /\ \A n \in Nodes : Whole(nd'[n])
<1>1. \A n \in Nodes : nd'[n] = FreshNode
  OBVIOUS
<1>2. \A n \in Nodes : \A i \in Slots : nd'[n].slot[i] = None
  BY <1>1, FreshNodeIs
<1> QED
  BY <1>1, <1>2, FreshIsWhole DEF ChildrenVisited

LEMMA MoveCalm ==
  ASSUME IInv, SearchInv, NEW m \in Moves, NEW clear \in BOOLEAN, MakeMove(m, clear)
  PROVE  Calm'
<1> DEFINE child == Leads[rootPos][m]
           kept == ~clear /\ (\E i \in Slots : nd[Root].slot[i] = m) /\ nd[child].output
           nodes == [nd EXCEPT ![Root] = nd[child]]
<1>1. /\ AtRest /\ m \in DOMAIN Leads[rootPos] /\ rootPos' = child /\ th' = th
      /\ nd' = IF kept THEN Swept(nodes, child) ELSE [n \in Nodes |-> FreshNode]
  BY DEF MakeMove
<1>2. Calm
  BY <1>1, RestCalm
<1>3. nd \in [Nodes -> NodeRecs] /\ rootPos \in Positions
  BY TypeOKIs DEF IInv
<1>4. child \in Positions /\ child \in Nodes
  BY <1>1, <1>3, LeadsAssumption DEF Nodes
<1> HIDE DEF child
<1>5. ChildrenVisited' /\ \A n \in Nodes : Whole(nd'[n])
  <2>1. CASE kept
    <3>1. nd' = Swept(nodes, child)
      BY <1>1, <2>1
    <3>2. nodes \in [Nodes -> NodeRecs] /\ \A n \in Nodes : nodes[n] = IF n = Root THEN nd[child] ELSE nd[n]
      BY <1>3, <1>4
    <3> HIDE DEF nodes
    <3>3. \A n \in Nodes : Whole(nodes[n])
      BY <1>2, <1>4, <3>2 DEF Calm
    <3>4. ASSUME NEW n \in Nodes, NEW i \in Slots, NEW p, p = (IF n = Root THEN child ELSE n),
                 NEW k, k = nodes[n].slot[i], k # None
          PROVE  k \in DOMAIN Leads[p] /\ nodes[Leads[p][k]].visits > 0
      <4>1. p \in Positions /\ p \in Nodes /\ p # Root /\ At(p) = p
        BY <1>4, <3>4, NamesAssumption DEF Nodes, At
      <4>2. k = nd[p].slot[i]
        BY <3>2, <3>4
      <4>3. k \in DOMAIN Leads[p]
        BY <3>4, <4>1, <4>2, NodeHere DEF NodeOK
      <4>4. nd[Leads[p][k]].visits > 0
        BY <1>2, <3>4, <4>1, <4>2 DEF Calm, ChildrenVisited, ChildOf
      <4>5. Leads[p][k] \in Nodes /\ Leads[p][k] # Root
        BY <4>1, <4>3, LeadsAssumption, NamesAssumption DEF Nodes
      <4> QED
        BY <3>2, <4>3, <4>4, <4>5
    <3> QED
      BY <1>1, <1>4, <3>1, <3>2, <3>3, <3>4, SweptCalm
  <2>2. CASE ~kept
    BY <1>1, <2>2, ClearedCalm
  <2> QED
    BY <2>1, <2>2
<1>6. Waiting'
  BY <1>1, <1>2 DEF Calm, Waiting
<1> QED
  BY <1>5, <1>6 DEF Calm

LEMMA ClearCalm ==
  ASSUME IInv, SearchInv, ClearSearch
  PROVE  Calm'
<1>1. AtRest /\ nd' = [n \in Nodes |-> FreshNode] /\ th' = th
  BY DEF ClearSearch
<1>2. Waiting'
  BY <1>1, RestCalm DEF Calm, Waiting
<1> QED
  BY <1>1, <1>2, ClearedCalm DEF Calm

\* The rank of a slot among those kept: one for each number up to theirs.
Rank(K, j) == Cardinality({k \in K : k <= j})
LEMMA RankIs ==
  ASSUME NEW K \in SUBSET Slots
  PROVE  /\ IsFiniteSet(K) /\ Cardinality(K) \in Nat
         /\ \A j \in K : Rank(K, j) \in 1..Cardinality(K)
         /\ \A i, j \in K : i # j => Rank(K, i) # Rank(K, j)
         /\ \A c \in 1..Cardinality(K) : \E j \in K : Rank(K, j) = c
<1>1. IsFiniteSet(K) /\ Cardinality(K) \in Nat
  BY LevelsFacts, FS_Subset, FS_CardinalityType
<1>2. ASSUME NEW j \in K
      PROVE  /\ IsFiniteSet({k \in K : k <= j})
             /\ Rank(K, j) \in Nat /\ Rank(K, j) <= Cardinality(K) /\ Rank(K, j) # 0
  <2>1. PICK X : X = {k \in K : k <= j}
    OBVIOUS
  <2>2. X \in SUBSET K /\ j \in X
    BY <2>1, LevelsFacts
  <2>3. IsFiniteSet(X) /\ Cardinality(X) <= Cardinality(K) /\ Cardinality(X) \in Nat
    BY <1>1, <2>2, FS_Subset, FS_CardinalityType
  <2>4. Cardinality(X) # 0
    BY <2>2, <2>3, FS_EmptySet
  <2> QED
    BY <2>1, <2>3, <2>4 DEF Rank
<1>3. ASSUME NEW i \in K, NEW j \in K, i < j
      PROVE  Rank(K, i) < Rank(K, j)
  <2>1. PICK X : X = {k \in K : k <= i}
    OBVIOUS
  <2>2. PICK Y : Y = {k \in K : k <= j}
    OBVIOUS
  <2>3. i \in Nat /\ j \in Nat /\ K \in SUBSET Nat
    BY LevelsFacts
  <2>4. X \in SUBSET Y /\ j \in Y /\ j \notin X
    <3>1. \A k \in X : k \in K /\ k \in Nat /\ k <= i
      BY <2>1, <2>3
    <3>2. \A k \in X : k \in Y
      BY <1>3, <2>2, <2>3, <3>1
    <3>3. j \in Y /\ j \notin X
      BY <1>3, <2>2, <2>3, <3>1
    <3> QED
      BY <3>2, <3>3
  <2>5. IsFiniteSet(X) /\ IsFiniteSet(Y)
    BY <1>2, <2>1, <2>2
  <2>6. Cardinality(X) <= Cardinality(Y) /\ Cardinality(X) # Cardinality(Y)
    BY <2>4, <2>5, FS_Subset
  <2>7. Cardinality(X) \in Nat /\ Cardinality(Y) \in Nat
    BY <2>5, FS_CardinalityType
  <2> QED
    BY <2>1, <2>2, <2>6, <2>7 DEF Rank
<1>4. \A i, j \in K : i # j => Rank(K, i) # Rank(K, j)
  <2>1. ASSUME NEW i \in K, NEW j \in K, i # j PROVE Rank(K, i) # Rank(K, j)
    <3>1. i \in Nat /\ j \in Nat
      BY LevelsFacts
    <3>2. Rank(K, i) < Rank(K, j) \/ Rank(K, j) < Rank(K, i)
      BY <1>3, <2>1, <3>1
    <3>3. Rank(K, i) \in Nat /\ Rank(K, j) \in Nat
      BY <1>2
    <3>4. PICK x \in Nat, y \in Nat : x = Rank(K, i) /\ y = Rank(K, j)
      BY <3>3
    <3> QED
      BY <3>2, <3>4
  <2> QED
    BY <2>1
<1>5. PICK N \in Nat : N = Cardinality(K)
  BY <1>1
<1>6. PICK T : T = 1..N
  OBVIOUS
<1>7. IsFiniteSet(T) /\ Cardinality(T) = N
  <2>1. 1 \in Int /\ N \in Int
    OBVIOUS
  <2> QED
    BY <1>6, <2>1, FS_Interval
<1>8. PICK f : f = [j \in K |-> Rank(K, j)]
  OBVIOUS
<1>9. f \in [K -> T]
  <2>1. ASSUME NEW j \in K PROVE Rank(K, j) \in T
    <3>1. PICK r \in Nat : r = Rank(K, j) /\ r <= N /\ r # 0
      BY <1>2, <1>5
    <3> QED
      BY <1>6, <3>1
  <2> QED
    BY <1>8, <2>1
<1>10. f \in Injection(K, T)
  BY <1>4, <1>8, <1>9 DEF Injection, IsInjective
<1>11. f \in Surjection(K, T)
  BY <1>5, <1>7, <1>10, FS_Injection
<1>12. \A c \in T : \E j \in K : f[j] = c
  BY <1>11 DEF Surjection
<1>13. \A j \in K : Rank(K, j) \in 1..Cardinality(K)
  BY <1>5, <1>6, <1>8, <1>9
<1>14. \A c \in 1..Cardinality(K) : \E j \in K : Rank(K, j) = c
  BY <1>5, <1>6, <1>8, <1>12
<1> QED
  BY <1>1, <1>4, <1>13, <1>14

\* The state of a node that keeps k of its children has room for them.
LEMMA CollapsedIs ==
  ASSUME NEW s \in 0..6, s \notin {Evaluating} \cup Growing, NEW k \in Nat, k <= Capacity(s)
  PROVE  /\ Collapsed(s, k) \in {0, 2, 4, 6} /\ k <= Capacity(Collapsed(s, k))
         /\ Collapsed(s, k) \div 2 = (Collapsed(s, k) + 1) \div 2
<1>1. /\ Levels[1] \in Nat /\ Levels[2] \in Nat /\ Levels[3] \in Nat
  BY LevelsFacts
<1>2. Capacity(0) = 0 /\ Capacity(2) = Levels[1] /\ Capacity(4) = Levels[2]
  <2>1. 2 \div 2 = 1 /\ 4 \div 2 = 2
    OBVIOUS
  <2> QED
    BY <2>1 DEF Capacity
<1>3. s \in {0, 2, 4, 6}
  BY DEF Evaluating, Growing
<1>4. PICK c : c = Collapsed(s, k)
  OBVIOUS
<1>5. c \in {0, 2, 4, 6} /\ k <= Capacity(c)
  BY <1>1, <1>2, <1>3, <1>4 DEF Collapsed
<1>6. \A x \in {0, 2, 4, 6} : x \div 2 = (x + 1) \div 2
  OBVIOUS
<1> QED
  BY <1>4, <1>5, <1>6

\* The children kept, moved down, are in order.
LEMMA MovedOrdered ==
  ASSUME NEW S \in SUBSET Moves, NEW c \in NodeRecs, c = nd[Root], NEW s, Ordered(c.slot, s),
         s \in 0..6, NEW z \in 0..6, Cardinality(Kept(S)) <= Capacity(s) => Cardinality(Kept(S)) <= Capacity(z)
  PROVE  /\ Cardinality(Kept(S)) \in Nat /\ Cardinality(Kept(S)) <= Capacity(s)
         /\ Ordered(Moved(S, c.slot, None), z)
<1>1. PICK K \in SUBSET Slots : K = Kept(S)
  BY DEF Kept
<1>2. PICK N \in Nat : N = Cardinality(K) /\ IsFiniteSet(K)
  BY RankIs
<1>3. \A j \in K : c.slot[j] \in S /\ c.slot[j] # None
  BY <1>1, NamesAssumption DEF Kept
<1>4. Capacity(s) \in Nat /\ Capacity(z) \in Nat
  BY CapacityIs
<1>5. N <= Capacity(s)
  <2>1. PICK T : T = 1..Capacity(s)
    OBVIOUS
  <2>2. IsFiniteSet(T) /\ Cardinality(T) = Capacity(s)
    <3>1. 1 \in Int /\ Capacity(s) \in Int
      BY <1>4
    <3> QED
      BY <1>4, <2>1, <3>1, FS_Interval
  <2>3. K \in SUBSET T
    <3>1. \A j \in K : j \in Nat /\ 1 <= j /\ j <= Capacity(s)
      BY <1>3, LevelsFacts DEF Ordered
    <3> QED
      BY <1>4, <2>1, <3>1
  <2> QED
    BY <1>2, <2>2, <2>3, FS_Subset
<1>6. PICK f : f = Moved(S, c.slot, None)
  OBVIOUS
<1>7. ASSUME NEW i \in Slots
      PROVE  \/ f[i] = None /\ \A j \in K : Rank(K, j) # i
             \/ \E j \in K : Rank(K, j) = i /\ f[i] = c.slot[j]
  <2> DEFINE from == {j \in K : Rank(K, j) = i}
  <2>1. f[i] = IF from = {} THEN None ELSE c.slot[CHOOSE j \in from : TRUE]
    BY <1>1, <1>6 DEF Moved, Rank
  <2>2. CASE from = {}
    BY <2>1, <2>2
  <2>3. CASE from # {}
    <3>1. PICK j : j = CHOOSE k \in from : TRUE
      OBVIOUS
    <3>2. j \in from
      BY <2>3, <3>1
    <3> QED
      BY <2>1, <2>3, <3>1, <3>2
  <2> QED
    BY <2>2, <2>3
<1>8. ASSUME NEW i \in Slots, f[i] # None
      PROVE  i <= Capacity(z) /\ Before(f, i, f[i])
  <2>1. PICK j \in K : Rank(K, j) = i /\ f[i] = c.slot[j]
    BY <1>7, <1>8
  <2>2. i \in 1..N
    BY <1>2, <2>1, RankIs
  <2>3. i <= Capacity(z)
    BY <1>1, <1>2, <1>4, <1>5, <2>2
  <2>4. ASSUME NEW h \in Slots, h < i
        PROVE  f[h] # None /\ f[h] # f[i]
    <3>1. h \in 1..N
      BY <2>2, <2>4, LevelsFacts
    <3>2. \E k \in K : Rank(K, k) = h
      BY <1>2, <3>1, RankIs
    <3>3. PICK k \in K : Rank(K, k) = h /\ f[h] = c.slot[k]
      BY <1>7, <3>2
    <3>4. k # j
      BY <2>1, <2>4, <3>3, LevelsFacts
    <3>5. c.slot[k] # c.slot[j]
      <4>1. k \in Nat /\ j \in Nat
        BY LevelsFacts
      <4>2. CASE k < j
        BY <1>3, <4>2 DEF Ordered, Before
      <4>3. CASE j < k
        BY <1>3, <4>3 DEF Ordered, Before
      <4> QED
        BY <3>4, <4>1, <4>2, <4>3
    <3> QED
      BY <1>3, <2>1, <3>3, <3>5
  <2> QED
    BY <2>3, <2>4 DEF Before
<1> QED
  BY <1>1, <1>2, <1>5, <1>6, <1>8 DEF Ordered

\* The filtered root is like any node at rest, and its children were there.
LEMMA FilteredWhole ==
  ASSUME IInv, NEW S \in SUBSET Moves, Whole(nd[Root])
  PROVE  /\ Whole(FilteredRoot(S))
         /\ \A i \in Slots : FilteredRoot(S).slot[i] # None =>
              \E j \in Slots : FilteredRoot(S).slot[i] = nd[Root].slot[j]
<1>1. PICK c \in NodeRecs : c = nd[Root]
  BY TypeOKIs DEF IInv, Nodes
<1>2. PICK slot, edge : slot = Moved(S, c.slot, None) /\ edge = Moved(S, c.edge, 0)
  OBVIOUS
<1>3. ASSUME NEW i \in Slots
      PROVE  \/ slot[i] = None /\ edge[i] = 0
             \/ \E j \in Slots : slot[i] = c.slot[j] /\ edge[i] = c.edge[j]
  <2>1. CASE \A slots, nothing : Moved(S, slots, nothing)[i] = nothing
    BY <1>2, <2>1
  <2>2. ASSUME NEW j \in Kept(S),
               \A slots, nothing : Moved(S, slots, nothing)[i] = slots[j]
        PROVE  j \in Slots /\ slot[i] = c.slot[j] /\ edge[i] = c.edge[j]
    BY <1>1, <1>2, <2>2 DEF Kept
  <2> QED
    BY <2>1, <2>2, MovedIs
<1>4. slot \in [Slots -> Moves \cup {None}] /\ edge \in [Slots -> Nat]
  <2>1. slot = [i \in Slots |-> slot[i]] /\ edge = [i \in Slots |-> edge[i]]
    BY <1>2 DEF Moved
  <2>2. \A i \in Slots : slot[i] \in Moves \cup {None} /\ edge[i] \in Nat
    BY <1>3 DEF NodeRecs
  <2> QED
    BY <2>1, <2>2
<1>5. /\ c.state \in 0..6 /\ c.state \notin {Evaluating} \cup Growing
      /\ Ordered(c.slot, c.state) /\ c.vl = 0 /\ c.dirty = 0
  <2>1. c.state \in 0..6
    BY DEF NodeRecs
  <2> QED
    BY <1>1, <2>1 DEF Whole
<1>6. PICK k \in Nat : k = Cardinality(Kept(S)) /\ k <= Capacity(c.state)
  <2>1. 0 \in 0..6
    OBVIOUS
  <2>2. Cardinality(Kept(S)) \in Nat
    BY RankIs DEF Kept
  <2>3. PICK z \in 0..6 : z = c.state
    BY <1>5
  <2> QED
    BY <1>1, <1>5, <2>2, <2>3, MovedOrdered
<1>7. PICK state \in {0, 2, 4, 6} :
        /\ state = Collapsed(c.state, k) /\ k <= Capacity(state)
        /\ state \div 2 = (state + 1) \div 2
  BY <1>5, <1>6, CollapsedIs
<1>8. Ordered(slot, state)
  <2>1. state \in 0..6
    OBVIOUS
  <2> QED
    BY <1>1, <1>2, <1>5, <1>6, <1>7, <2>1, MovedOrdered
<1>9. PICK arrays \in Nat : arrays = state \div 2
  <2>1. state \div 2 \in Nat
    OBVIOUS
  <2> QED
    BY <2>1
<1>10. PICK v \in Nat : v = 1 + Sum(edge) /\ v > 0
  <2>1. Sum(edge) \in Nat
    BY <1>4, SumIs
  <2> QED
    BY <2>1
<1>11. PICK one \in Nat : one = 1
  OBVIOUS
<1>12. PICK d : d = [c EXCEPT !.slot = slot, !.edge = edge, !.seen = edge, !.state = state,
                              !.arrays = arrays, !.visits = v, !.leaf = one]
  OBVIOUS
<1>13. d = FilteredRoot(S)
  BY <1>1, <1>2, <1>6, <1>7, <1>9, <1>10, <1>11, <1>12 DEF FilteredRoot
<1>14. /\ d.slot = slot /\ d.edge = edge /\ d.state = state /\ d.visits = v /\ d.leaf = one
       /\ d.arrays = arrays /\ d.output = c.output /\ d.dirty = c.dirty /\ d.vl = c.vl
  <2>1. d.slot = slot /\ d.edge = edge /\ d.state = state
    BY <1>12 DEF NodeRecs
  <2>2. d.visits = v /\ d.leaf = one /\ d.arrays = arrays
    BY <1>12 DEF NodeRecs
  <2>3. d.output = c.output /\ d.dirty = c.dirty /\ d.vl = c.vl
    BY <1>12 DEF NodeRecs
  <2> QED
    BY <2>1, <2>2, <2>3
<1>15. Whole(d)
  <2>1. state \notin {Evaluating} \cup Growing
    BY DEF Evaluating, Growing
  <2> QED
    BY <1>5, <1>7, <1>8, <1>9, <1>10, <1>11, <1>14, <2>1 DEF Whole
<1> QED
  BY <1>1, <1>3, <1>13, <1>14, <1>15

LEMMA BeginCalm ==
  ASSUME IInv, SearchInv, NEW S \in SUBSET Moves, BeginSearch(S)
  PROVE  Calm'
<1> DEFINE filtered == \E i \in Slots : nd[Root].slot[i] \notin S \cup {None}
           nodes == [nd EXCEPT ![Root] = FilteredRoot(S)]
<1>1. /\ AtRest /\ rootPos' = rootPos
      /\ th' = [t \in Threads |-> [FreshThread EXCEPT !.pc = "begin"]]
      /\ nd' = IF filtered THEN Swept(nodes, rootPos) ELSE nd
  BY DEF BeginSearch
<1>2. Calm
  BY <1>1, RestCalm
<1>3. nd \in [Nodes -> NodeRecs] /\ rootPos \in Positions /\ Root \in Nodes
  BY TypeOKIs DEF IInv, Nodes
<1>4. ChildrenVisited' /\ \A n \in Nodes : Whole(nd'[n])
  <2>1. CASE filtered
    <3>1. nd' = Swept(nodes, rootPos)
      BY <1>1, <2>1
    <3>2. PICK d \in NodeRecs : d = FilteredRoot(S)
      BY FilteredIs
    <3>3. /\ nodes \in [Nodes -> NodeRecs]
          /\ \A n \in Nodes : nodes[n] = IF n = Root THEN d ELSE nd[n]
      BY <1>3, <3>2
    <3> HIDE DEF nodes
    <3>4. /\ Whole(d)
          /\ \A i \in Slots : d.slot[i] # None => \E j \in Slots : d.slot[i] = nd[Root].slot[j]
      BY <1>2, <1>3, <3>2, FilteredWhole DEF Calm
    <3>5. \A n \in Nodes : Whole(nodes[n])
      BY <1>2, <3>3, <3>4 DEF Calm
    <3>6. ASSUME NEW n \in Nodes, NEW i \in Slots,
                 NEW p, p = (IF n = Root THEN rootPos ELSE n),
                 NEW k, k = nodes[n].slot[i], k # None
          PROVE  k \in DOMAIN Leads[p] /\ nodes[Leads[p][k]].visits > 0
      <4>1. p \in Positions /\ At(n) = p
        BY <1>3, <3>6 DEF Nodes, At
      <4>2. \E j \in Slots : k = nd[n].slot[j]
        BY <3>3, <3>4, <3>6
      <4>3. PICK j \in Slots : k = nd[n].slot[j]
        BY <4>2
      <4>4. k \in DOMAIN Leads[p]
        BY <3>6, <4>1, <4>3, NodeHere DEF NodeOK
      <4>5. nd[Leads[p][k]].visits > 0
        BY <1>2, <3>6, <4>1, <4>3 DEF Calm, ChildrenVisited, ChildOf
      <4>6. Leads[p][k] \in Nodes /\ Leads[p][k] # Root
        BY <4>1, <4>4, LeadsAssumption, NamesAssumption DEF Nodes
      <4> QED
        BY <3>3, <4>4, <4>5, <4>6
    <3> QED
      BY <1>1, <1>3, <3>1, <3>3, <3>5, <3>6, SweptCalm
  <2>2. CASE ~filtered
    <3>1. nd' = nd
      BY <1>1, <2>2
    <3>2. \A n \in Nodes, i \in Slots : ChildOf(n, nd[n].slot[i])' = ChildOf(n, nd[n].slot[i])
      BY <1>1, <3>1 DEF ChildOf, At
    <3> QED
      BY <1>2, <3>1, <3>2 DEF Calm, ChildrenVisited
  <2> QED
    BY <2>1, <2>2
<1>5. Waiting'
  <2>1. \A t \in Threads : th'[t].pc = "begin" /\ th'[t].path = <<>>
    BY <1>1 DEF FreshThread
  <2> QED
    BY <2>1 DEF Waiting
<1> QED
  BY <1>4, <1>5 DEF Calm

(***************************************************************************)
(* The moves allowed at the root, between searches.                        *)
(***************************************************************************)
LEMMA NoneSearching ==
  ASSUME AtRest, th' = th
  PROVE  AllowedInv'
<1>1. AtRest'
  BY DEF AtRest
<1>2. \A t \in Threads : th'[t].pc \notin ForMove
  BY DEF AtRest, ForMove
<1> QED
  BY <1>1, <1>2 DEF AllowedInv, RootMovesAllowed, In

\* A search begins with the children that it allows.
LEMMA FilteredAllowed ==
  ASSUME IInv, NEW S \in SUBSET Moves, NEW i \in Slots
  PROVE  FilteredRoot(S).slot[i] \in S \cup {None}
<1>1. nd[Root] \in NodeRecs
  BY TypeOKIs DEF IInv, Nodes
<1>2. FilteredRoot(S).slot = Moved(S, nd[Root].slot, None)
  BY <1>1 DEF FilteredRoot, NodeRecs
<1>3. \A j \in Kept(S) : nd[Root].slot[j] \in S
  BY DEF Kept
<1> QED
  BY <1>2, <1>3, MovedIs

LEMMA SearchBegins ==
  ASSUME IInv, NEW S \in SUBSET Moves, BeginSearch(S)
  PROVE  AllowedInv'
<1> DEFINE nodes == [nd EXCEPT ![Root] = FilteredRoot(S)]
<1>1. allowed' = S /\ th' = [t \in Threads |-> [FreshThread EXCEPT !.pc = "begin"]]
  BY DEF BeginSearch
<1>2. \A t \in Threads : th'[t].pc \notin ForMove
  BY <1>1 DEF FreshThread, ForMove
<1>3. nd \in [Nodes -> NodeRecs] /\ Root \in Nodes
  BY TypeOKIs DEF IInv, Nodes
<1>4. CASE \E i \in Slots : nd[Root].slot[i] \notin S \cup {None}
  <2>1. nd'[Root] = nodes[Root]
    BY <1>3, <1>4 DEF BeginSearch, Swept
  <2>2. \A i \in Slots : nd'[Root].slot[i] \in S \cup {None}
    BY <1>3, <2>1, FilteredAllowed
  <2> QED
    BY <1>1, <1>2, <2>2 DEF AllowedInv, RootMovesAllowed, In
<1>5. CASE \A i \in Slots : nd[Root].slot[i] \in S \cup {None}
  <2>1. nd' = nd
    BY <1>5 DEF BeginSearch
  <2> QED
    BY <1>1, <1>2, <1>5, <2>1 DEF AllowedInv, RootMovesAllowed, In
<1> QED
  BY <1>4, <1>5

(***************************************************************************)
(* Every step.                                                             *)
(***************************************************************************)
LEMMA InitiallyCalm == Init => IInv /\ SearchInv /\ AllowedInv
<1> SUFFICES ASSUME Init PROVE IInv /\ SearchInv /\ AllowedInv
  OBVIOUS
<1>1. IInv
  BY Initially
<1>2. /\ \A n \in Nodes : nd[n] = FreshNode
      /\ \A t \in Threads : th[t].pc = "done" /\ th[t].path = <<>>
  BY DEF Init, FreshThread
<1>3. \A n \in Nodes : \A i \in Slots : nd[n].slot[i] = None
  BY <1>2, FreshNodeIs
<1>4. Calm
  BY <1>2, <1>3, FreshIsWhole DEF Calm, Waiting, ChildrenVisited
<1>5. AllowedInv
  BY <1>2 DEF AllowedInv, RootMovesAllowed, AtRest, In, ForMove
<1> QED
  BY <1>1, <1>4, <1>5, CalmIs

LEMMA NothingChanges ==
  ASSUME IInv, SearchInv, AllowedInv, UNCHANGED vars
  PROVE  SearchInv' /\ AllowedInv'
<1>1. nd' = nd /\ th' = th /\ rootPos' = rootPos /\ allowed' = allowed
  BY DEF vars, searchVars
<1>2. RoomInv' /\ SlotInv' /\ OutsideInv'
  BY <1>1 DEF SearchInv, RoomInv, In, SlotInv, OutsideInv
<1>3. VisitInv'
  BY <1>1 DEF SearchInv, VisitInv, Awaited, Comes, ChildOf, At, In
<1>4. LossInv'
  <2>1. \A n : Holders(n)' = Holders(n)
    BY <1>1 DEF Holders, Held, ChildOf, At
  <2> QED
    BY <1>1, <2>1 DEF SearchInv, LossInv
<1>5. SumInv'
  BY ZenonT(30), <1>1 DEF SearchInv, SumInv, Announcing, Settling, In
<1>6. AllowedInv'
  BY <1>1 DEF AllowedInv, RootMovesAllowed, AtRest, In
<1> QED
  BY <1>2, <1>3, <1>4, <1>5, <1>6 DEF SearchInv

LEMMA SearchStep ==
  ASSUME IInv, IInv', SearchInv, AllowedInv, [Next]_vars
  PROVE  SearchInv' /\ AllowedInv'
<1>1. ASSUME NEW t \in Threads, ThreadStep(t) \/ StopSearching(t)
      PROVE  SearchInv' /\ AllowedInv'
  <2>1. PICK r \in ThreadRecs, n \in Nodes, d \in NodeRecs : Effect(t, r, n, d)
    BY <1>1, EveryEffect DEF Affects
  <2>2. RoomInv /\ SlotInv /\ OutsideInv /\ VisitInv /\ LossInv /\ SumInv
    BY DEF SearchInv
  <2>3. RoomInv' /\ SlotInv'
    BY <2>1, <2>2, RoomKept, SlotKept
  <2>4. OutsideInv' /\ VisitInv'
    BY <2>1, <2>2, OutsideKept, VisitKept
  <2>5. LossInv' /\ SumInv'
    BY <2>1, <2>2, LossKept, SumKept
  <2>6. AllowedInv'
    BY <2>1, <2>2, AllowedKept
  <2> QED
    BY <2>3, <2>4, <2>5, <2>6 DEF SearchInv
<1>2. CASE UNCHANGED vars
  BY <1>2, NothingChanges
<1>3. ASSUME BetweenSearches PROVE SearchInv' /\ AllowedInv'
  <2>1. CASE Idle
    BY <2>1, NothingChanges DEF Idle
  <2>2. CASE ClearSearch
    <3>1. AllowedInv'
      BY <2>2, NoneSearching DEF ClearSearch
    <3> QED
      BY <2>2, <3>1, ClearCalm, CalmAfter
  <2>3. ASSUME NEW m \in Moves, NEW clear \in BOOLEAN, MakeMove(m, clear)
        PROVE  SearchInv' /\ AllowedInv'
    <3>1. AllowedInv'
      BY <2>3, NoneSearching DEF MakeMove
    <3> QED
      BY <2>3, <3>1, MoveCalm, CalmAfter
  <2>4. ASSUME NEW S \in SUBSET Moves, BeginSearch(S)
        PROVE  SearchInv' /\ AllowedInv'
    BY <2>4, SearchBegins, BeginCalm, CalmAfter
  <2> QED
    BY <1>3, <2>1, <2>2, <2>3, <2>4 DEF BetweenSearches
<1> QED
  BY <1>1, <1>2, <1>3 DEF Next

\* Whatever the threads do, in every search and between searches: the arrays and
\* the slots, the visits, the virtual losses and the sums are as they should be.
THEOREM Searching == Spec => [](IInv /\ SearchInv /\ AllowedInv)
<1>1. (IInv /\ SearchInv /\ AllowedInv) /\ [Next]_vars => (IInv /\ SearchInv /\ AllowedInv)'
  <2> SUFFICES ASSUME IInv, SearchInv, AllowedInv, [Next]_vars
               PROVE  (IInv /\ SearchInv /\ AllowedInv)'
    OBVIOUS
  <2>1. IInv'
    BY EveryStep
  <2>2. SearchInv' /\ AllowedInv'
    BY <2>1, SearchStep
  <2> QED
    BY <2>1, <2>2
<1> QED
  BY <1>1, InitiallyCalm, PTL DEF Spec

\* What is read without a lock is there: filled slots come first, no move has
\* two, and all are within the arrays that the state of the node promises.
THEOREM SlotsKept == Spec => []SlotsWellFormed
<1>1. IInv /\ SearchInv => SlotsWellFormed
  <2> SUFFICES ASSUME IInv, SearchInv PROVE SlotsWellFormed
    OBVIOUS
  <2>1. RoomInv /\ SlotInv
    BY DEF SearchInv
  <2>2. ASSUME NEW t \in Threads, th[t].pc = "grow" PROVE th[t].snap < 6
    BY <2>1, <2>2 DEF SlotInv, Fits
  <2>3. ASSUME NEW n \in Nodes PROVE nd[n].arrays >= nd[n].state \div 2
    <3>1. PICK s \in 0..6 : s = nd[n].state /\ nd[n].arrays = (s + 1) \div 2
      <4>1. nd[n].state \in 0..6
        BY NodeHere DEF NodeRecs
      <4> QED
        BY <2>1, <4>1 DEF RoomInv
    <3>2. (s + 1) \div 2 >= s \div 2
      OBVIOUS
    <3> QED
      BY <3>1, <3>2
  <2>4. ASSUME NEW n \in Nodes, NEW i \in Slots, nd[n].slot[i] # None
        PROVE  /\ nd[n].slot[i] \in DOMAIN Leads[At(n)]
               /\ i <= Capacity(nd[n].state)
               /\ \A j \in 1..(i - 1) : nd[n].slot[j] \notin {None, nd[n].slot[i]}
    <3>1. nd[n].slot[i] \in DOMAIN Leads[At(n)]
      BY <2>4, NodeHere DEF NodeOK
    <3>2. i <= Capacity(nd[n].state) /\ Before(nd[n].slot, i, nd[n].slot[i])
      BY <2>1, <2>4 DEF SlotInv, Ordered
    <3>3. \A j \in 1..(i - 1) : j \in Slots /\ j < i
      <4>1. PICK L \in Nat : L = Levels[3] /\ Slots = 1..L
        BY LevelsFacts DEF Slots
      <4> QED
        BY <4>1
    <3> QED
      BY <3>1, <3>2, <3>3 DEF Before
  <2> QED
    BY <2>2, <2>3, <2>4 DEF SlotsWellFormed
<1> QED
  BY <1>1, Searching, PTL

\* No virtual loss stays behind, whichever way a playout ends.
THEOREM LossesHeld == Spec => []VirtualLossesHeld
<1>1. SearchInv => VirtualLossesHeld
  BY DEF SearchInv, LossInv, VirtualLossesHeld
<1> QED
  BY <1>1, Searching, PTL

\* No visit is dropped or added twice by threads that recompute for each other.
THEOREM VisitsAdded == Spec => []VisitsAccounted
<1>1. IInv /\ SearchInv => VisitsAccounted
  <2> SUFFICES ASSUME IInv, SearchInv, NEW n \in Nodes
               PROVE  nd[n].leaf + Sum(nd[n].edge) = nd[n].visits + Due(n) - Settling(n)
    BY DEF VisitsAccounted, Settling
  <2>1. nd[n].leaf + Sum(nd[n].edge) =
          nd[n].visits + nd[n].dirty + Cardinality(Announcing(n)) - Settling(n)
    BY DEF SearchInv, SumInv
  <2>2. Due(n) = nd[n].dirty + Cardinality(Announcing(n))
    BY DEF Due, Announcing
  <2>3. /\ nd[n].visits \in Nat /\ nd[n].dirty \in Nat /\ Cardinality(Announcing(n)) \in Nat
    <3>1. nd[n].visits \in Nat /\ nd[n].dirty \in Nat
      BY NodeHere DEF NodeRecs
    <3> QED
      BY <3>1, SettlingIs
  <2>4. PICK a \in Nat, b \in Nat, c \in Nat :
          a = nd[n].visits /\ b = nd[n].dirty /\ c = Cardinality(Announcing(n))
    BY <2>3
  <2>5. Settling(n) \in Nat
    <3>1. \A t \in Threads : th[t].pending \in Nat
      BY Here DEF ThreadRecs
    <3> QED
      BY <3>1, SettlingIs
  <2>6. PICK x \in Nat : x = Settling(n)
    BY <2>5
  <2> QED
    BY <2>1, <2>2, <2>4, <2>6
<1> QED
  BY <1>1, Searching, PTL

\* A tree at rest, wherever its root was moved, has no virtual losses, no node
\* half way between two states and none without a visit, and its visits add up.
THEOREM QuietBetween == Spec => []QuietAtRest
<1>1. IInv /\ SearchInv => QuietAtRest
  <2> SUFFICES ASSUME IInv, SearchInv, AtRest PROVE QuietAtRest
    BY DEF QuietAtRest
  <2>1. Calm
    BY RestCalm
  <2>2. \A n \in Nodes : Whole(nd[n])
    BY <2>1 DEF Calm
  <2>3. rootPos \in Positions
    BY TypeOKIs DEF IInv
  <2> DEFINE seen == {p \in Positions : nd[p].visits > 0}
  <2>4. ASSUME NEW n \in Nodes, NEW p \in Positions, p \in Steps(nd, n, At(n))
        PROVE  p \in seen
    <3>1. PICK i \in Slots : nd[n].slot[i] # None /\ p = Leads[At(n)][nd[n].slot[i]]
      BY <2>4 DEF Steps
    <3> QED
      BY <2>1, <2>4, <3>1 DEF Calm, ChildrenVisited, ChildOf
  <2>5. ASSUME NEW n \in Nodes PROVE Steps(nd, n, At(n)) \subseteq Positions
    <3>1. At(n) \in Positions
      BY <2>3 DEF At, Nodes
    <3>2. \A i \in Slots : nd[n].slot[i] # None => Leads[At(n)][nd[n].slot[i]] \in Positions
      BY <3>1, NodeHere, LeadsAssumption DEF NodeOK
    <3> QED
      BY <3>2 DEF Steps
  <2>6. Steps(nd, Root, rootPos) \subseteq seen
    <3>1. Root \in Nodes /\ At(Root) = rootPos
      BY DEF Nodes, At
    <3> QED
      BY <2>4, <2>5, <3>1
  <2>7. \A q \in seen : Steps(nd, q, q) \subseteq seen
    <3>1. \A q \in seen : q \in Nodes /\ At(q) = q
      BY NamesAssumption DEF Nodes, At
    <3> QED
      BY <2>4, <2>5, <3>1
  <2>8. \A n \in Reached(nd, rootPos) : n \in seen
    <3>1. seen \in SUBSET Positions
      OBVIOUS
    <3> HIDE DEF seen
    <3> QED
      BY <2>6, <2>7, <3>1 DEF Reached
  <2>9. ASSUME NEW n \in {Root} \cup Reached(nd, rootPos)
        PROVE  /\ nd[n].vl = 0 /\ nd[n].dirty = 0
               /\ nd[n].state \notin {Evaluating} \cup Growing
               /\ n # Root => nd[n].visits > 0
               /\ nd[n].visits = nd[n].leaf + Sum(nd[n].edge)
    <3>1. n \in Nodes
      BY <2>8 DEF Nodes
    <3>2. n # Root => nd[n].visits > 0
      BY <2>8
    <3> QED
      BY <2>2, <3>1, <3>2 DEF Whole
  <2> QED
    BY <2>9 DEF QuietAtRest
<1> QED
  BY <1>1, Searching, PTL

\* While a search is under way no child of its root is a move that it forbids,
\* also in a tree that an earlier search with other moves allowed has grown.
THEOREM RootAllowed == Spec => []RootMovesAllowed
<1>1. AllowedInv => RootMovesAllowed
  BY DEF AllowedInv
<1> QED
  BY <1>1, Searching, PTL
=============================================================================
