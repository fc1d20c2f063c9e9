---------------------------- MODULE MCAsyncBot ----------------------------
(* Three requests cover the calls of AsyncBot: a synchronous genMove with   *)
(* reports, a ponder, and an open-ended analysis.                           *)
EXTENDS AsyncBot

CONSTANTS genMove, ponder, analyze

MCSearches == {genMove, ponder, analyze}
MCMoving == {genMove}
MCSync == {genMove}
MCPonders == {ponder}
MCLimited == {genMove}
MCReporting == {genMove, analyze}
MCEarly == {genMove}
MCPeriodic == {genMove, analyze}
MCThrowing == {ponder}
NoSearch == {}
=============================================================================
