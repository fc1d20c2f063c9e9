----------------------------- MODULE MCWebPool -----------------------------
(* Three opponent models for two places beside the teacher, one of them     *)
(* needed again after its eviction; alice may have one job and so may bob;  *)
(* one retired job is kept.                                                 *)
EXTENDS WebPool, TLC

CONSTANTS L2, L6, human, first, second, third, fourth, alice, bob

MCFilenames == {L9, L6, L2, human}
MCJobs == {first, second, third, fourth}
MCModelOf == (first :> human) @@ (second :> L6) @@ (third :> L2) @@ (fourth :> human)
MCOwnerOf == (first :> alice) @@ (second :> bob) @@ (third :> alice) @@ (fourth :> bob)
=============================================================================
