---------------------------- MODULE MCSearchTree ----------------------------
(* Two threads.  From the start, x leads to a and a pass to p, so a node    *)
(* grows; x leads back from a to the start, where a playout may come to a   *)
(* again: a has two parents and a cycle goes through it.  In a a pass is to *)
(* be avoided; after two passes the game is over.                           *)
EXTENDS SearchTree, TLC

CONSTANTS t1, t2

MCThreads == {t1, t2}
MCMoves == {"x", "pass"}
MCLeads ==
  [s |-> [x |-> "a", pass |-> "p"],
   a |-> [x |-> "s"],
   p |-> [pass |-> "e"],
   e |-> [pass |-> "p"]]
MCLevels == <<1, 2, 3>>
MCOneSearch == <<3>>
MCTwoSearches == <<2, 1>>
MCSuperko == {<<"s", "x">>}
MCSymmetry == Permutations(MCThreads)
=============================================================================
