---------------------------- MODULE MCReviewQueue ----------------------------
(* Small instances of ReviewQueue for TLC.                                 *)
EXTENDS ReviewQueue, TLC

CONSTANTS j1, j2, j3, p1, p2

\* Two pushes and a redelivery or a re-request of one PR.
PrOne == [j \in Jobs |-> p1]
ShaInOrder == j1 :> 1 @@ j2 :> 2
ShaRepeated == j1 :> 1 @@ j2 :> 1 @@ j3 :> 2

\* Two PRs, the second with one event.
PrTwo == j1 :> p1 @@ j2 :> p1 @@ j3 :> p2
ShaTwo == j1 :> 1 @@ j2 :> 2 @@ j3 :> 1

ShaOne == [j \in Jobs |-> 1]

NoFailure == {}
EveryCall == Calls
AllButReports == Calls \ {"postError", "postComment"}
SavesWork == {"create", "review", "postSuccess"}
=============================================================================
