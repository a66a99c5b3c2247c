------------------------- MODULE MCReviewOrchestrator -------------------------
(* A pull request that moves twice; its first commit's diff has two pages. *)
EXTENDS ReviewOrchestrator, TLC

CONSTANTS s1, s2, s3, l1, l2, l3

Moves == 0 :> s1 @@ 1 :> s2 @@ 2 :> s3
DiffPages == s1 :> <<{l1}, {l2}>> @@ s2 :> <<{l2, l3}>> @@ s3 :> <<{l1}, {l3}, {l2}>>
=============================================================================
