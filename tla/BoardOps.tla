------------------------------ MODULE BoardOps ------------------------------
(***************************************************************************)
(* The functions of cpp/game/board.cpp on a board: chains of stones as     *)
(* circular lists with a head each, the numbers of stones and liberties of *)
(* a chain with its head, the position hash, the simple ko point.          *)
(* Everything is kept up to date by the moves, nothing is recomputed.      *)
(*                                                                         *)
(* A hash is the set of what was XORed into it.  Entries that board.h      *)
(* calls undefined are NULL_LOC or 0 between operations.                   *)
(***************************************************************************)
EXTENDS GoGrid

Boards ==
  [colors : [Points -> Colors],
   chain_head : [Points -> Points \cup {NULL_LOC}],
   next_in_chain : [Points -> Points \cup {NULL_LOC}],
   num_locs : [Points -> Int],
   num_liberties : [Points -> Int],
   ko_loc : Points \cup {NULL_LOC},
   pos_hash : SUBSET (Points \X Players),
   captures : [Players -> Int]]

EmptyBoard ==
  [colors |-> [l \in Points |-> C_EMPTY],
   chain_head |-> [l \in Points |-> NULL_LOC],
   next_in_chain |-> [l \in Points |-> NULL_LOC],
   num_locs |-> [l \in Points |-> 0],
   num_liberties |-> [l \in Points |-> 0],
   ko_loc |-> NULL_LOC,
   pos_hash |-> {},
   captures |-> [p \in Players |-> 0]]

Xor(S, T) == (S \ T) \cup (T \ S)
Toggle(hash, l, color) == Xor(hash, {<<l, color>>})

NumLiberties(d, l) == d.num_liberties[d.chain_head[l]]
ChainSize(d, l) == d.num_locs[d.chain_head[l]]
ImmediateLiberties(d, l) == {a \in Neighbours[l] : d.colors[a] = C_EMPTY}
Beside(d, l, color) == {a \in Neighbours[l] : d.colors[a] = color}
HeadsBeside(d, l, color) == {d.chain_head[a] : a \in Beside(d, l, color)}
InAtari(d, l) == NumLiberties(d, l) = 1

\* The stones of a chain in the order of its list, from l; a list that does
\* not lead back to l ends where it leaves the board or closes elsewhere.
Stroll(d, l) ==
  LET Walk[path \in Seq(Points)] ==
        LET n == d.next_in_chain[Last(path)]
        IN IF n \in Points \ ToSet(path) THEN Walk[Append(path, n)] ELSE path
  IN Walk[<<l>>]

IsLibertyOf(d, l, head) ==
  \E a \in Neighbours[l] : d.colors[a] = d.colors[head] /\ d.chain_head[a] = head

\* A mutant: a chain that lies on two sides of l is counted twice.
BrokenChangeSurroundingLiberties(d, l, color, delta) ==
  FoldLeft(LAMBDA e, a : [e EXCEPT !.num_liberties[d.chain_head[a]] = @ + delta],
           d, SelectSeq(Around[l], LAMBDA a : d.colors[a] = color))

\* Each chain around l is counted once, whatever the sides it lies on.
ChangeSurroundingLiberties(d, l, color, delta) ==
  [d EXCEPT !.num_liberties =
     [h \in Points |-> IF h \in HeadsBeside(d, l, color) THEN @[h] + delta ELSE @[h]]]

(***************************************************************************)
(* Chains merged, removed, added and rebuilt.                              *)
(***************************************************************************)
\* The liberties next to l that the chain of head does not have yet.
NewLiberties(d, l, head) == {a \in ImmediateLiberties(d, l) : ~IsLibertyOf(d, a, head)}

Adopt(d, l, head) ==
  [d EXCEPT !.num_liberties[head] = @ + Cardinality(NewLiberties(d, l, head)),
            !.chain_head[l] = head]

MergeChains(d, l1, l2) ==
  LET h1 == d.chain_head[l1]
      h2 == d.chain_head[l2]
      head1 == IF d.num_locs[h1] < d.num_locs[h2] THEN h2 ELSE h1
      head2 == IF head1 = h1 THEN h2 ELSE h1
      list2 == Stroll(d, head2)
      joined == FoldLeft(LAMBDA e, l : Adopt(e, l, head1), d, list2)
  IN [joined EXCEPT !.num_locs[head1] = @ + d.num_locs[head2],
                    !.next_in_chain[Last(list2)] = d.next_in_chain[head1],
                    !.next_in_chain[head1] = head2]

RemoveStone(d, l) ==
  ChangeSurroundingLiberties(
    [d EXCEPT !.colors[l] = C_EMPTY, !.pos_hash = Toggle(@, l, d.colors[l])],
    l, Opp(d.colors[l]), 1)

RemoveChain(d, l) == FoldLeft(RemoveStone, d, Stroll(d, l))

(***************************************************************************)
(* addChainHelper and rebuildChainHelper flood a region depth first and    *)
(* link its stones backwards: each new stone leads to the one before it.   *)
(* at.tail is the stone the next one is to lead to.                        *)
(***************************************************************************)
Link(d, head, tail, l) ==
  [d EXCEPT !.chain_head[l] = head, !.num_locs[head] = @ + 1, !.next_in_chain[l] = tail]

Floods == [board : Boards, tail : Points]

AddChainHelper(from, head, start, pla) ==
  LET Flood[at \in Floods, l \in Points] ==
        LET put == [Link(at.board, head, at.tail, l)
                      EXCEPT !.colors[l] = pla, !.pos_hash = Toggle(@, l, pla)]
        IN FoldLeft(LAMBDA in, a : IF in.board.colors[a] = C_EMPTY THEN Flood[in, a] ELSE in,
                    [board |-> ChangeSurroundingLiberties(put, l, Opp(pla), -1), tail |-> l],
                    Around[l])
  IN Flood[from, start]

RebuildChainHelper(from, head, start, pla) ==
  LET Flood[at \in Floods, l \in Points] ==
        LET gained == Cardinality(NewLiberties(at.board, l, head))
            put == [Link(at.board, head, at.tail, l) EXCEPT !.num_liberties[head] = @ + gained]
        IN FoldLeft(LAMBDA in, a : IF in.board.colors[a] = pla /\ in.board.chain_head[a] # head
                                   THEN Flood[in, a] ELSE in,
                    [board |-> put, tail |-> l], Around[l])
  IN Flood[from, start]

NewChain(d, l) == [d EXCEPT !.num_liberties[l] = 0, !.num_locs[l] = 0]
Closed(at, l) == [at.board EXCEPT !.next_in_chain[l] = at.tail]

AddChain(d, l, pla) ==
  Closed(AddChainHelper([board |-> NewChain(d, l), tail |-> l], l, l, pla), l)
RebuildChain(d, l, pla) ==
  Closed(RebuildChainHelper([board |-> NewChain(d, l), tail |-> l], l, l, pla), l)

Unheaded(d, S) ==
  [d EXCEPT !.chain_head = [l \in Points |-> IF l \in S THEN NULL_LOC ELSE @[l]]]

\* All chains from the colors alone; groups without liberties are allowed.
RegenChainsFromColors(d) ==
  FoldLeft(LAMBDA e, l : IF e.colors[l] # C_EMPTY /\ e.chain_head[l] = NULL_LOC
                         THEN RebuildChain(e, l, e.colors[l]) ELSE e,
           [Unheaded(d, Stones(d.colors))
              EXCEPT !.pos_hash = {<<l, d.colors[l]>> : l \in Stones(d.colors)}],
           Rows)

(***************************************************************************)
(* What the board predicts of a move before it is played.                  *)
(***************************************************************************)
IsSuicide(d, l, pla) ==
  /\ ImmediateLiberties(d, l) = {}
  /\ \A a \in Beside(d, l, pla) : NumLiberties(d, a) <= 1
  /\ \A a \in Beside(d, l, Opp(pla)) : ~InAtari(d, a)

IsIllegalSuicide(d, l, pla, multiStoneSuicide) ==
  IsSuicide(d, l, pla) /\ (multiStoneSuicide => Beside(d, l, pla) = {})

IsLegalIgnoringKo(d, l, pla, multiStoneSuicide) ==
  d.colors[l] = C_EMPTY /\ ~IsIllegalSuicide(d, l, pla, multiStoneSuicide)
IsLegal(d, l, pla, multiStoneSuicide) ==
  l # d.ko_loc /\ IsLegalIgnoringKo(d, l, pla, multiStoneSuicide)

WouldBeCapture(d, l, pla) ==
  d.colors[l] = C_EMPTY /\ \E a \in Beside(d, l, Opp(pla)) : InAtari(d, a)

\* The lone stone a move would take out of a ko mouth.
GetKoCaptureLoc(d, l, pla) ==
  LET prey == {a \in Beside(d, l, Opp(pla)) : InAtari(d, a)}
  IN IF /\ d.colors[l] = C_EMPTY
        /\ Beside(d, l, Opp(pla)) = Neighbours[l]
        /\ Cardinality(prey) = 1
        /\ \A a \in prey : ChainSize(d, a) = 1
     THEN CHOOSE a \in prey : TRUE
     ELSE NULL_LOC

GetBoundNumLibertiesAfterPlay(d, l, pla) ==
  LET immediate == Cardinality(ImmediateLiberties(d, l))
      prey == {a \in Beside(d, l, Opp(pla)) : InAtari(d, a)}
      kin == Beside(d, l, pla)
      extra(a) == NumLiberties(d, a) - 1
      \* What one direction may add: the stones of a chain taken, or the other
      \* liberties of a chain joined.
      gain(a) == IF a \in prey THEN ChainSize(d, a) ELSE IF a \in kin THEN extra(a) ELSE 0
      side(i) == l + AdjOffsets[i]
  IN [lowerBound |-> Cardinality(prey) + Max({immediate} \cup {extra(a) : a \in kin}),
      upperBound |-> immediate + gain(side(1)) + gain(side(2)) + gain(side(3)) + gain(side(4))]

\* The liberties gathered, from the empty and captured points at hand and
\* then from the chains the stone would join; the count stops at max.
GetNumLibertiesAfterPlay(d, l, pla, max) ==
  LET prey == {a \in Beside(d, l, Opp(pla)) : InAtari(d, a)}
      preyHeads == {d.chain_head[a] : a \in prey}
      empties == {m \in Points : \/ d.colors[m] = C_EMPTY
                                 \/ d.colors[m] = Opp(pla) /\ d.chain_head[m] \in preyHeads}
      joined == UNION {ToSet(Stroll(d, a)) : a \in Beside(d, l, pla)}
      libs == ImmediateLiberties(d, l) \cup prey
              \cup (((UNION {Neighbours[m] : m \in joined}) \cap empties) \ {l})
  IN IF Cardinality(libs) >= max THEN max ELSE Cardinality(libs)

\* A mutant: a chain taken from two sides is put back into the hash.
BrokenHashWithout(d, hash, S) ==
  FoldLeft(LAMBDA h, a : Xor(h, {<<m, d.colors[m]>> : m \in ToSet(Stroll(d, a))}),
           hash, SetToSeq(S))

\* Every chain that would go is taken out of the hash once.
HashWithout(d, hash, S) ==
  Xor(hash, {<<m, d.colors[m]>> : m \in UNION {ToSet(Stroll(d, a)) : a \in S}})

GetPosHashAfterMove(d, l, pla) ==
  LET put == Toggle(d.pos_hash, l, pla)
      prey == {a \in Beside(d, l, Opp(pla)) : InAtari(d, a)}
      kin == {a \in Beside(d, l, pla) : InAtari(d, a)}
  IN IF IsSuicide(d, l, pla)
     THEN Toggle(HashWithout(d, put, kin), l, pla)
     ELSE HashWithout(d, put, prey)

(***************************************************************************)
(* Moves, recorded moves and their undoing.                                *)
(***************************************************************************)
\* One neighbour of the stone just put at l: a friendly chain is merged, an
\* opposing one met for the first time loses a liberty and perhaps its life.
Meet(at, a, l, pla) ==
  LET d == at.board
      head == d.chain_head[a]
      hurt == [d EXCEPT !.num_liberties[head] = @ - 1]
  IN IF d.colors[a] = pla /\ head # d.chain_head[l]
     THEN [at EXCEPT !.board = MergeChains(hurt, a, l)]
     ELSE IF d.colors[a] = Opp(pla) /\ head \notin at.seen
     THEN IF NumLiberties(hurt, a) = 0
          THEN [board |-> RemoveChain(hurt, a), taken |-> at.taken + Len(Stroll(hurt, a)),
                ko |-> a, seen |-> at.seen \cup {head}]
          ELSE [at EXCEPT !.board = hurt, !.seen = @ \cup {head}]
     ELSE at

PutStone(d, l, pla) ==
  [d EXCEPT !.colors[l] = pla, !.pos_hash = Toggle(@, l, pla),
            !.num_locs[l] = 1, !.num_liberties[l] = Cardinality(ImmediateLiberties(d, l)),
            !.chain_head[l] = l, !.next_in_chain[l] = l]

\* A capture of one stone by a stone that stays alone with one liberty: ko.
IsKo(d, l, taken) == taken = 1 /\ ChainSize(d, l) = 1 /\ InAtari(d, l)

HandleSuicide(d, l, pla) ==
  IF NumLiberties(d, l) = 0
  THEN [RemoveChain(d, l) EXCEPT !.captures[pla] = @ + ChainSize(d, l)]
  ELSE d

PlayMoveAssumeLegal(d, l, pla) ==
  IF l = PASS_LOC THEN [d EXCEPT !.ko_loc = NULL_LOC]
  ELSE LET met == FoldLeft(LAMBDA at, a : Meet(at, a, l, pla),
                           [board |-> PutStone(d, l, pla), taken |-> 0,
                            ko |-> NULL_LOC, seen |-> {}],
                           Around[l])
           ko == IF IsKo(met.board, l, met.taken) THEN met.ko ELSE NULL_LOC
       IN HandleSuicide([met.board EXCEPT !.ko_loc = ko,
                                          !.captures[Opp(pla)] = @ + met.taken], l, pla)

\* capDirs holds the neighbours captured; {loc} stands for its fifth bit, a suicide.
RecordOf(d, l, pla) ==
  LET prey == {a \in Beside(d, l, Opp(pla)) : InAtari(d, a)}
  IN [loc |-> l, pla |-> pla, ko_loc |-> d.ko_loc,
      capDirs |-> IF l = PASS_LOC THEN {}
                  ELSE IF prey = {} /\ IsSuicide(d, l, pla) THEN {l} ELSE prey]

\* A mutant: the captures stay counted.
BrokenRefill(d, a, pla) == AddChain(d, a, pla)

\* Captured stones come back, one flood per chain: a direction already filled
\* is passed over.
Refill(d, a, pla) ==
  LET filled == AddChain(d, a, pla)
  IN [filled EXCEPT !.captures[pla] = @ - ChainSize(filled, a)]

Refilled(d, r) ==
  FoldLeft(LAMBDA e, a : IF a \in r.capDirs /\ e.colors[a] = C_EMPTY
                         THEN Refill(e, a, Opp(r.pla)) ELSE e,
           IF r.capDirs = {r.loc} THEN Refill(d, r.loc, r.pla) ELSE d,
           Around[r.loc])

MoveHead(d, l) ==
  LET new == d.next_in_chain[l]
      chain == ToSet(Stroll(d, l))
  IN [d EXCEPT !.chain_head = [m \in Points |-> IF m \in chain THEN new ELSE @[m]],
               !.num_locs[new] = d.num_locs[l],
               !.num_liberties[new] = d.num_liberties[l]]

\* The stone undone had at most one neighbour in its chain: it is cut out.
CutOut(d, l) ==
  LET e == IF d.chain_head[l] = l THEN MoveHead(d, l) ELSE d
      head == e.chain_head[l]
      before == Last(Stroll(e, l))
  IN [e EXCEPT !.next_in_chain[before] = e.next_in_chain[l],
               !.num_liberties[head] = @ - Cardinality(NewLiberties(e, l, head)) + 1,
               !.num_locs[head] = @ - 1]

\* A mutant: a chain is taken to stay whole whatever is cut out of it.
BrokenSplitUp(d, l, pla) == CutOut(d, l)

\* It had several: the chain may fall apart and what is left is rebuilt.
SplitUp(d, l, pla) ==
  FoldLeft(LAMBDA e, a : IF e.colors[a] = pla /\ e.chain_head[a] = NULL_LOC
                         THEN RebuildChain(e, a, pla) ELSE e,
           Unheaded(d, ToSet(Stroll(d, l))), Around[l])

UndoMove(d, r) ==
  LET l == r.loc
      back == [d EXCEPT !.ko_loc = r.ko_loc]
      full == Refilled(back, r)
      lifted == ChangeSurroundingLiberties(
                  [full EXCEPT !.colors[l] = C_EMPTY, !.pos_hash = Toggle(@, l, full.colors[l])],
                  l, Opp(r.pla), 1)
  IN IF l = PASS_LOC THEN back
     ELSE IF ChainSize(lifted, l) = 1 THEN lifted
     ELSE IF Cardinality(Beside(lifted, l, r.pla)) <= 1 THEN CutOut(lifted, l)
     ELSE SplitUp(lifted, l, r.pla)

(***************************************************************************)
(* Stones set by hand.                                                     *)
(***************************************************************************)
\* The whole chain goes, and all its other stones are played again.
RemoveSingleStone(d, l) ==
  FoldLeft(LAMBDA e, m : PlayMoveAssumeLegal(e, m, d.colors[l]),
           RemoveChain(d, l), Tail(Stroll(d, l)))

NoKo(d) == [d EXCEPT !.ko_loc = NULL_LOC]

StoneSet(d, l, color) ==
  NoKo(IF d.colors[l] = color THEN d
       ELSE IF d.colors[l] = C_EMPTY
       THEN IF IsIllegalSuicide(d, l, color, TRUE) THEN d ELSE PlayMoveAssumeLegal(d, l, color)
       ELSE LET e == RemoveSingleStone(d, l)
            IN IF color = C_EMPTY \/ IsSuicide(e, l, color) THEN e
               ELSE PlayMoveAssumeLegal(e, l, color))

\* A mutant: a stone that captures is not refused.
BrokenStoneSetIfLibs(d, l, color) ==
  LET old == d.colors[l]
      e == IF old = C_EMPTY THEN d ELSE RemoveSingleStone(d, l)
  IN IF old = color THEN [board |-> NoKo(d), ok |-> TRUE]
     ELSE IF color = C_EMPTY THEN [board |-> NoKo(e), ok |-> TRUE]
     ELSE IF ~IsSuicide(e, l, color)
     THEN [board |-> NoKo(PlayMoveAssumeLegal(e, l, color)), ok |-> TRUE]
     ELSE IF old = C_EMPTY THEN [board |-> d, ok |-> FALSE]
     ELSE [board |-> [PlayMoveAssumeLegal(e, l, old) EXCEPT !.ko_loc = d.ko_loc], ok |-> FALSE]

\* The board and whether the stone was set.
StoneSetIfLibs(d, l, color) ==
  LET old == d.colors[l]
      e == IF old = C_EMPTY THEN d ELSE RemoveSingleStone(d, l)
      refused == IsSuicide(e, l, color) \/ WouldBeCapture(e, l, color)
  IN IF old = color THEN [board |-> NoKo(d), ok |-> TRUE]
     ELSE IF color = C_EMPTY THEN [board |-> NoKo(e), ok |-> TRUE]
     ELSE IF ~refused THEN [board |-> NoKo(PlayMoveAssumeLegal(e, l, color)), ok |-> TRUE]
     ELSE IF old = C_EMPTY THEN [board |-> d, ok |-> FALSE]
     ELSE [board |-> [PlayMoveAssumeLegal(e, l, old) EXCEPT !.ko_loc = d.ko_loc], ok |-> FALSE]

StonesSetIfLibs(d, moves) ==
  LET step(at, l, color) == IF at.ok THEN StoneSetIfLibs(at.board, l, color) ELSE at
      twice == \E i, j \in DOMAIN moves : i # j /\ moves[i].loc = moves[j].loc
      emptied == FoldLeft(LAMBDA at, m : step(at, m.loc, C_EMPTY),
                          [board |-> d, ok |-> ~twice], moves)
  IN FoldLeft(LAMBDA at, m : step(at, m.loc, m.pla), emptied, moves)

\* The board and the number of stones removed; all groups are judged before
\* the first one goes.
StonesSetTolerantly(d, moves) ==
  LET laid == RegenChainsFromColors(
                FoldLeft(LAMBDA e, m : [e EXCEPT !.colors[m.loc] = m.pla], d, moves))
      dead == {l \in Stones(laid.colors) : NumLiberties(laid, l) = 0}
      cleared == [laid EXCEPT !.colors = Without(@, dead)]
  IN [board |-> NoKo(IF dead = {} THEN laid ELSE RegenChainsFromColors(cleared)),
      removed |-> Cardinality(dead)]

(***************************************************************************)
(* Between operations.                                                     *)
(***************************************************************************)
Position(d) == [colors |-> d.colors, ko |-> d.ko_loc, lost |-> d.captures]

\* What the next operation may rely on: nothing where the points are empty,
\* nothing of a chain anywhere but with its head.
Kept(d) ==
  LET live == Stones(d.colors)
      heads == {l \in live : d.chain_head[l] = l}
      on(S, f) == [l \in Points |-> IF l \in S THEN f[l] ELSE 0]
  IN [d EXCEPT !.chain_head = on(live, @), !.next_in_chain = on(live, @),
               !.num_locs = on(heads, @), !.num_liberties = on(heads, @)]

\* A board on which the stones of c have been set.
AsMoves(c) == [i \in DOMAIN Rows |-> [loc |-> Rows[i], pla |-> c[Rows[i]]]]
BoardOf(c) == Kept(StonesSetTolerantly(EmptyBoard, AsMoves(c)).board)
=============================================================================
