---------------------------- MODULE MCWebEngine ----------------------------
(* A two-turn analysis and the move of a human opponent, each submitted for *)
(* alice or for bob: in progress together if one of them is bob's, one      *)
(* after the other if not.  Each can bring down the process under the other.*)
EXTENDS WebEngine

CONSTANTS review, play, alice, bob

MCTurns == [j \in {review, play} |-> IF j = review THEN {1, 2} ELSE {1}]
=============================================================================
