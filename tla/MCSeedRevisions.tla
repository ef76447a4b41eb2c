-------------------------- MODULE MCSeedRevisions --------------------------
(* Three reviewed attempts with one lesson, two of one goal.              *)
EXTENDS SeedRevisions, TLC

CONSTANTS e1, e2, e3, g1, g2, lesson, k1, k2, p1, p2, p3

ThreeExperiences == {e1, e2, e3}
TwoGoals == (e1 :> g1) @@ (e2 :> g1) @@ (e3 :> g2)
OneLesson == [e \in ThreeExperiences |-> lesson]
OneSurprisingEach == {e1, e3}
AnyOrder == Permutations(Processes)
=============================================================================
