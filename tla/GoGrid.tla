------------------------------- MODULE GoGrid -------------------------------
(***************************************************************************)
(* The points of a Go board, its colours, and what groups and liberties    *)
(* are: the notions that game/board.cpp keeps incrementally, as the rules  *)
(* of the game define them.  Points are numbered as in the code, (x,y)     *)
(* being x + y * (XSize + 1) with x and y from 1: 0 and 1 are no points.   *)
(***************************************************************************)
EXTENDS Integers, Sequences, FiniteSets, SequencesExt

CONSTANTS XSize, YSize

ASSUME SizeAssumption == XSize \in Nat \ {0} /\ YSize \in Nat \ {0}

NULL_LOC == 0
PASS_LOC == 1
C_EMPTY == 0
C_BLACK == 1
C_WHITE == 2
Players == {C_BLACK, C_WHITE}
Colors == {C_EMPTY} \cup Players
Opp(p) == 3 - p

Points == {x + y * (XSize + 1) : x \in 1..XSize, y \in 1..YSize}
AdjOffsets == <<-(XSize + 1), -1, 1, XSize + 1>>
Neighbours == [l \in Points |-> {l + AdjOffsets[i] : i \in 1..4} \cap Points]
\* The neighbours of a point in the order of adj_offsets.
Around == [l \in Points |->
             SelectSeq([i \in 1..4 |-> l + AdjOffsets[i]], LAMBDA m : m \in Points)]
\* The points row by row, as the loops over y and x visit them.
Rows == [i \in 1..(XSize * YSize) |->
           1 + ((i - 1) % XSize) + (1 + (i - 1) \div XSize) * (XSize + 1)]

(***************************************************************************)
(* Groups, liberties and captures, c being a function from points to       *)
(* colours.                                                                *)
(***************************************************************************)
\* The neighbours of S that have the colour and are not in S.
Rim(c, color, S) == {m \in UNION {Neighbours[r] : r \in S} : c[m] = color} \ S

Group(c, l) ==
  LET Grow[S \in SUBSET Points] ==
        LET rim == Rim(c, c[l], S) IN IF rim = {} THEN S ELSE Grow[S \cup rim]
  IN Grow[{l}]

Liberties(c, group) == {m \in UNION {Neighbours[l] : l \in group} : c[m] = C_EMPTY}

Stones(c) == {l \in Points : c[l] # C_EMPTY}
Stifled(c) == {l \in Stones(c) : Liberties(c, Group(c, l)) = {}}
Without(c, removed) == [l \in Points |-> IF l \in removed THEN C_EMPTY ELSE c[l]]

\* The stones taken from the opponent, and then from the player, by a move.
Taken(c, l, p) ==
  LET put == [c EXCEPT ![l] = p] IN {m \in Stifled(put) : put[m] = Opp(p)}
Given(c, l, p) ==
  LET put == Without([c EXCEPT ![l] = p], Taken(c, l, p))
  IN IF Liberties(put, Group(put, l)) = {} THEN Group(put, l) ELSE {}
After(c, l, p) == Without([c EXCEPT ![l] = p], Taken(c, l, p) \cup Given(c, l, p))

\* Simple ko: the point where the answer would bring the position back.
KoAfter(c, l, p) ==
  LET d == After(c, l, p)
      back == {q \in Taken(c, l, p) : After(d, q, Opp(p)) = c}
  IN IF d # c /\ back # {} THEN CHOOSE q \in back : TRUE ELSE NULL_LOC

MayPlay(c, l, p, multiStoneSuicide) ==
  /\ c[l] = C_EMPTY
  /\ Given(c, l, p) = {} \/ (multiStoneSuicide /\ Given(c, l, p) # {l})
=============================================================================
