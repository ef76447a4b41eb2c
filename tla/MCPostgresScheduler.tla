------------------------- MODULE MCPostgresScheduler -------------------------
(* Instances of PostgresScheduler for TLC. *)
EXTENDS PostgresScheduler, TLC

CONSTANTS g1, t1, t2, w1, w2, a1, p1, p2, op

\* One goal of two independent tasks.
MCGoals == {g1}
TwoTasks == {t1, t2}
TwoGoal == [t \in TwoTasks |-> g1]
TwoDeps == [t \in TwoTasks |-> {}]
TwoRank == (t1 :> 1) @@ (t2 :> 2)
TwoType == [t \in TwoTasks |-> "work"]
MCTypes == {"work"}
MCAssignments == (w1 :> ("work" :> a1)) @@ (w2 :> ("work" :> a1))

\* The connections of two workers, the second of which also runs the lease
\* maintenance of both, and the operator's.  The workers never see their leases
\* end; the operator does.
MCConns == {p1, p2, op}
MCOpsOf ==
    (p1 :> {"claimNext", "pause", "commit"})
    @@ (p2 :> {"claimTask", "claimNext", "renew", "release", "commit"})
    @@ (op :> {"register", "heartbeat", "saveApproval", "resolve", "reap"})
MCWorkersOf == (p1 :> {w1}) @@ (p2 :> {w1, w2}) @@ (op :> {w1, w2})
MCTimesOf == (p1 :> {0}) @@ (p2 :> {0}) @@ (op :> {1})

\* Both may ask for an approval.
MCGuarded == {t1, t2}

ClaimSymmetry == Permutations(ClaimIds)
=============================================================================
