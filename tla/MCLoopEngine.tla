----------------------------- MODULE MCLoopEngine -----------------------------
(* Instances of LoopEngine for TLC. *)
EXTENDS LoopEngine, TLC

CONSTANTS t1, t2, e1, e2

OneTask == {t1}
OneTaskDeps == (t1 :> {})

\* Two tasks: t2 after t1.
TwoTasks == {t1, t2}
Chain == (t1 :> {}) @@ (t2 :> {t1})


\* The dependent task comes first in the list.
MCRank == [t \in Tasks |-> IF t = t1 THEN 2 ELSE 1]
TwoTries == [t \in Tasks |-> 2]
=============================================================================
