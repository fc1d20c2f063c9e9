------------------------------ MODULE MCNNEval ------------------------------
(* Three search threads share two server threads that take up to two rows   *)
(* at a time.                                                               *)
EXTENDS NNEval

CONSTANTS c1, c2, c3, s1, s2

MCSearchThreads == {c1, c2, c3}
MCServerThreads == {s1, s2}
=============================================================================
