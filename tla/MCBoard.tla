------------------------------ MODULE MCBoard ------------------------------
(* A board of two by three points, empty at first, and two lists of stones  *)
(* to be set on it.                                                         *)
EXTENDS Board

MCEmpty == {[l \in Points |-> C_EMPTY]}
\* A list that names a corner twice, and one that empties a point of a full
\* row and takes it again.
MCPlacements ==
  LET p == XSize + 2
      On(locs, colors) == [i \in DOMAIN locs |-> [loc |-> locs[i], pla |-> colors[i]]]
  IN {On(<<p, p>>, <<C_BLACK, C_WHITE>>),
      On(<<p + 1, p, p + XSize + 1>>, <<C_EMPTY, C_BLACK, C_WHITE>>)}
=============================================================================
