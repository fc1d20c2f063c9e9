------------------------------ MODULE GoBoard -------------------------------
(***************************************************************************)
(* What cpp/game/board.h promises of a Board: a position that moves and    *)
(* placements change by the rules of Go, and that undoing the recorded     *)
(* moves in reverse order brings back, with its ko ban and its captures.   *)
(***************************************************************************)
EXTENDS GoGrid

CONSTANTS
  Openings,     \* the positions a board may start from
  Placements,   \* the lists of placements that may be set at once
  Suicide,      \* isMultiStoneSuicideLegal
  MaxRecords    \* moves recorded at once: bounds the model

VARIABLES
  position,     \* its colors, ko ban, and lost: stones lost since the oldest record
  past,         \* the positions before the recorded moves
  answer        \* what the last operation returned

vars == <<position, past, answer>>

\* What the operations return: nothing that matters, whether stones were set,
\* how many were removed.
Done == <<"done">>
Set == <<"set">>
Refused == <<"refused">>
Removed(n) == <<"removed", n>>

NothingLost == [p \in Players |-> 0]
Settled(c) == [colors |-> c, ko |-> NULL_LOC, lost |-> NothingLost]

Played(pos, l, p) ==
  LET c == pos.colors
  IN [colors |-> After(c, l, p),
      ko |-> KoAfter(c, l, p),
      lost |-> [q \in Players |->
                  pos.lost[q] + Cardinality(IF q = p THEN Given(c, l, p) ELSE Taken(c, l, p))]]

Init ==
  /\ \E c \in Openings : position = Settled(Without(c, Stifled(c)))
  /\ past = << >>
  /\ answer = Done

PlayRecorded ==
  /\ Len(past) < MaxRecords
  /\ past' = Append(past, position)
  /\ answer' = Done
  /\ \E l \in Points, p \in Players :
       /\ l # position.ko
       /\ MayPlay(position.colors, l, p, Suicide)
       /\ position' = Played(position, l, p)

\* A pass lifts the ko ban.
PassRecorded ==
  /\ Len(past) < MaxRecords
  /\ position' = [position EXCEPT !.ko = NULL_LOC]
  /\ past' = Append(past, position)
  /\ answer' = Done

Undo ==
  /\ past # << >>
  /\ position' = Last(past)
  /\ past' = Front(past)
  /\ answer' = Done

Forget ==
  /\ past # << >>
  /\ position' = [position EXCEPT !.lost = NothingLost]
  /\ past' = << >>
  /\ answer' = Done

\* A stone is put as by a move; a lone stone that would die at once is not put.
SetStone ==
  /\ past = << >>
  /\ answer' = Done
  /\ UNCHANGED past
  /\ \E l \in Points, color \in Colors :
       LET c == Without(position.colors, {l})
           stays == color \in Players /\ Given(c, l, color) # {}
                    /\ (Given(c, l, color) = {l} \/ position.colors[l] # C_EMPTY)
       IN position' = IF color = position.colors[l] THEN Settled(position.colors)
                      ELSE IF color = C_EMPTY \/ stays THEN Settled(c)
                      ELSE Settled(After(c, l, color))

\* The last placement on a point counts.
Overlay(c, moves) ==
  [l \in Points |->
     LET at == {i \in DOMAIN moves : moves[i].loc = l}
     IN IF at = {} THEN c[l] ELSE moves[Max(at)].pla]
Cleared(c, moves) == Without(c, {moves[i].loc : i \in DOMAIN moves})

\* All or nothing for one stone: in case of failure the position stays.
SetStoneFailIfNoLibs ==
  /\ past = << >>
  /\ UNCHANGED past
  /\ \E l \in Points, color \in Colors :
       LET c == [position.colors EXCEPT ![l] = color] IN
       \/ answer' = Set /\ position' = Settled(c) /\ Stifled(c) = {}
       \/ answer' = Refused /\ UNCHANGED position /\ Stifled(c) # {}

\* Several stones: a list that names a point twice changes nothing; it is
\* otherwise set in full exactly when that leaves no group without liberties,
\* and else as far as that lasts.
SetStonesFailIfNoLibs ==
  /\ past = << >>
  /\ answer' \in {Set, Refused}
  /\ UNCHANGED past
  /\ \E moves \in Placements :
       LET c(n) == Overlay(Cleared(position.colors, moves), SubSeq(moves, 1, n))
           fits == {n \in 0..Len(moves) : Stifled(c(n)) = {}}
           n == CHOOSE n \in fits : \A m \in fits : m <= n
       IN IF \E i, j \in DOMAIN moves : i # j /\ moves[i].loc = moves[j].loc
          THEN position' = position /\ answer' = Refused
          ELSE /\ position' = Settled(c(n))
               /\ answer' = IF n = Len(moves) THEN Set ELSE Refused

\* Several stones, and every group left without liberties goes, at once.
SetStonesTolerant ==
  /\ past = << >>
  /\ UNCHANGED past
  /\ \E moves \in Placements :
       LET c == Overlay(position.colors, moves)
       IN /\ position' = Settled(Without(c, Stifled(c)))
          /\ answer' = Removed(Cardinality(Stifled(c)))

Next ==
  \/ PlayRecorded \/ PassRecorded \/ Undo \/ Forget
  \/ SetStone \/ SetStoneFailIfNoLibs \/ SetStonesFailIfNoLibs \/ SetStonesTolerant

Spec == Init /\ [][Next]_vars
=============================================================================
