------------------------- MODULE MCThreadSafeQueue -------------------------
(* Two producers and two consumers around a queue of two elements, with     *)
(* batches smaller than, equal to and larger than the queue.                *)
EXTENDS ThreadSafeQueue

CONSTANTS p1, p2, c1, c2

MCProducers == {p1, p2}
MCConsumers == {c1, c2}
=============================================================================
