----------------------------- MODULE MCScheduler -----------------------------
(* Instances of Scheduler for TLC. *)
EXTENDS Scheduler, TLC

CONSTANTS g1, t1, t2, w1, a1

\* One goal: t2 waits for t1.
MCGoals == {g1}
ChainTasks == {t1, t2}
ChainGoal == [t \in ChainTasks |-> g1]
ChainDeps == (t1 :> {}) @@ (t2 :> {t1})
ChainRank == (t1 :> 1) @@ (t2 :> 2)
ChainType == [t \in ChainTasks |-> "work"]

MCTypes == {"work"}
MCAssignments == (w1 :> ("work" :> a1))

ClaimSessionSymmetry == Permutations(ClaimIds) \cup Permutations(Sessions)
=============================================================================
