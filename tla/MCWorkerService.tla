--------------------------- MODULE MCWorkerService ---------------------------
(* Instances of WorkerService for TLC. *)
EXTENDS WorkerService, TLC

CONSTANTS g1, t1, t2, w1, w2, a1, p1, p2, k1

MCGoals == {g1}
MCTypes == {"work"}
MCWorkers == {w1, w2}
MCAssignments == [w \in MCWorkers |-> ("work" :> a1)]

\* Two tasks of one goal, two workers with one process each.
TwoTasks == {t1, t2}
TwoTasksGoal == [t \in TwoTasks |-> g1]
TwoTasksDeps == [t \in TwoTasks |-> {}]
TwoTasksRank == (t1 :> 1) @@ (t2 :> 2)
TwoTasksType == [t \in TwoTasks |-> "work"]
TwoTasksAttempts == (t1 :> 2) @@ (t2 :> 1)
TwoWorkerOf == (p1 :> w1) @@ (p2 :> w2)

\* One key can come up twice in an execution, and one in both tasks.
SharedKeys == (t1 :> {<<k1>>, <<k1, k1>>}) @@ (t2 :> {<<k1>>})
=============================================================================
