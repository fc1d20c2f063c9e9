------------------------------- MODULE Board -------------------------------
(***************************************************************************)
(* A board of cpp/game/board.h in the hands of its user: moves that are    *)
(* recorded to be undone, and stones set by hand.  It is checked against   *)
(* GoBoard, which knows the position only.  The captures count from the    *)
(* oldest recorded move: only undo reads their difference.                 *)
(***************************************************************************)
EXTENDS BoardOps

CONSTANTS Openings, Placements, Suicide, MaxRecords

ASSUME OpeningsAssumption == Openings \subseteq [Points -> Colors]
ASSUME PlacementsAssumption ==
  \A moves \in Placements :
    /\ moves \in Seq([loc : Points, pla : Colors]) /\ moves # << >>
ASSUME LimitsAssumption == Suicide \in BOOLEAN /\ MaxRecords \in Nat

VARIABLES
  b,        \* the Board
  records,  \* the MoveRecords its user holds
  answer,   \* what the last operation returned
  past      \* history: the positions before the recorded moves

vars == <<b, records, answer, past>>

(***************************************************************************)
(* The operations.                                                         *)
(***************************************************************************)
Uncounted(d) == [d EXCEPT !.captures = [p \in Players |-> 0]]

Done == <<"done">>
Verdict(ok) == IF ok THEN <<"set">> ELSE <<"refused">>

Init ==
  /\ \E c \in Openings : b = BoardOf(c)
  /\ records = << >>
  /\ answer = Done
  /\ past = << >>

Record(l, pla) ==
  /\ Len(records) < MaxRecords
  /\ records' = Append(records, RecordOf(b, l, pla))
  /\ past' = Append(past, Position(b))
  /\ b' = Kept(PlayMoveAssumeLegal(b, l, pla))
  /\ answer' = Done

PlayMoveRecorded ==
  \E l \in Points, pla \in Players : IsLegal(b, l, pla, Suicide) /\ Record(l, pla)

PassRecorded == \E pla \in Players : Record(PASS_LOC, pla)

Undo ==
  /\ records # << >>
  /\ b' = Kept(UndoMove(b, Last(records)))
  /\ records' = Front(records)
  /\ past' = Front(past)
  /\ answer' = Done

\* The user drops its records: with it a recorded move is playMove.
Forget ==
  /\ records # << >>
  /\ b' = Uncounted(b)
  /\ records' = << >>
  /\ past' = << >>
  /\ answer' = Done

\* Stones are set while no record is held.
Set(board, returned) ==
  /\ records = << >>
  /\ b' = Uncounted(Kept(board))
  /\ answer' = returned
  /\ UNCHANGED <<records, past>>

SetStone == \E l \in Points, color \in Colors : Set(StoneSet(b, l, color), Done)

SetStoneFailIfNoLibs ==
  \E l \in Points, color \in Colors :
    LET r == StoneSetIfLibs(b, l, color) IN Set(r.board, Verdict(r.ok))

SetStonesFailIfNoLibs ==
  \E moves \in Placements :
    LET r == StonesSetIfLibs(b, moves) IN Set(r.board, Verdict(r.ok))

SetStonesTolerant ==
  \E moves \in Placements :
    LET r == StonesSetTolerantly(b, moves) IN Set(r.board, <<"removed", r.removed>>)

Next ==
  \/ PlayMoveRecorded \/ PassRecorded \/ Undo \/ Forget
  \/ SetStone \/ SetStoneFailIfNoLibs \/ SetStonesFailIfNoLibs \/ SetStonesTolerant

Spec == Init /\ [][Next]_vars

(***************************************************************************)
(* Properties.                                                             *)
(***************************************************************************)
\* The incremental bookkeeping agrees with the stones (checkConsistency, and
\* more): the list of a chain runs through exactly its connected stones,
\* which share a head among them that holds their number and the number of
\* their distinct liberties, never 0; the hash is that of the position; a ko
\* ban is on an empty point without empty neighbours.
BookkeepingExact ==
  /\ b.colors \in [Points -> Colors]
  /\ \A l \in Stones(b.colors) :
       LET group == Group(b.colors, l)
       IN /\ ToSet(Stroll(b, l)) = group
          /\ b.next_in_chain[Last(Stroll(b, l))] = l
          /\ b.chain_head[l] \in group
          /\ \A m \in group : b.chain_head[m] = b.chain_head[l]
          /\ ChainSize(b, l) = Cardinality(group)
          /\ NumLiberties(b, l) = Cardinality(Liberties(b.colors, group))
          /\ NumLiberties(b, l) > 0
  /\ b.pos_hash = {<<l, b.colors[l]>> : l \in Stones(b.colors)}
  /\ b.ko_loc # NULL_LOC =>
       b.colors[b.ko_loc] = C_EMPTY /\ ImmediateLiberties(b, b.ko_loc) = {}

\* What is computed without playing agrees with playing by the rules, for
\* every empty point and either player: suicides, captures, legality, the
\* hash after the move, the liberties of the new stone and their bounds, and
\* the stone that a capture in a ko mouth takes.
PredictionsExact ==
  \A l \in Points, p \in Players :
    b.colors[l] = C_EMPTY =>
      LET c == b.colors
          taken == Taken(c, l, p)
          given == Given(c, l, p)
          after == After(c, l, p)
          libs == IF given = {} THEN Cardinality(Liberties(after, Group(after, l))) ELSE 0
          bound == GetBoundNumLibertiesAfterPlay(b, l, p)
      IN /\ IsSuicide(b, l, p) <=> given # {}
         /\ \A multi \in BOOLEAN :
              ~IsIllegalSuicide(b, l, p, multi) <=> MayPlay(c, l, p, multi)
         /\ WouldBeCapture(b, l, p) <=> taken # {}
         /\ GetPosHashAfterMove(b, l, p) = {<<m, after[m]>> : m \in Stones(after)}
         /\ given = {} =>
              /\ bound.lowerBound <= libs /\ libs <= bound.upperBound
              /\ \A max \in 1..4 :
                   GetNumLibertiesAfterPlay(b, l, p, max) = Min({max, libs})
         /\ LET q == GetKoCaptureLoc(b, l, p)
            IN IF Beside(b, l, Opp(p)) = Neighbours[l] /\ Cardinality(taken) = 1
               THEN taken = {q} ELSE q = NULL_LOC

\* The board implements the rules of Go: captures, simple ko, undoing and
\* the setting of stones are what GoBoard says of the position alone.
Rules == INSTANCE GoBoard WITH position <- Position(b)
ImplementsGoBoard == Rules!Spec
=============================================================================
