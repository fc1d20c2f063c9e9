----------------------------- MODULE MCSelfplay -----------------------------
(* Two game threads, two nets, three games: a net may be retired while it   *)
(* is latest, in use, or has a game in its queue, which has room for one.    *)
EXTENDS SelfplayManager

CONSTANTS g1, g2

MCGames == {g1, g2}
=============================================================================
