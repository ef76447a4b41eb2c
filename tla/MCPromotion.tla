----------------------------- MODULE MCPromotion -----------------------------
(* An instance of Promotion for TLC: a champion, two challengers, and     *)
(* a run between these.                                                   *)
EXTENDS Promotion, TLC

CONSTANTS a1, a2, a3, m1, m2, r1, r2, r3, p1, p2

Two == <<"plain", "critical">>
Who(agent) == [agent |-> agent, model |-> m1]

\* Two runs against a1, and one of a2 against a3.
MCChampion == (r1 :> Who(a1)) @@ (r2 :> Who(a1)) @@ (r3 :> Who(a2))
MCChallenger == (r1 :> Who(a2)) @@ (r2 :> Who(a3)) @@ (r3 :> Who(a3))

Fair == [passed |-> TRUE, score |-> 8, ms |-> 10]
Good == [passed |-> TRUE, score |-> 10, ms |-> 15]
Slow == [passed |-> TRUE, score |-> 10, ms |-> 16]
Poor == [passed |-> TRUE, score |-> 2, ms |-> 10]
Perfect == [passed |-> TRUE, score |-> 20, ms |-> 10]
Bad  == [passed |-> FALSE, score |-> 19, ms |-> 10]

Results(plain, critical) == ("plain" :> plain) @@ ("critical" :> critical)
Observed(champion, challenger) ==
    [k \in {"plain", "critical"} |->
        ("champion" :> champion[k]) @@ ("challenger" :> challenger[k])]

\* The first command may have observed that every gate but the first is met or
\* that one of them fails, the others that all are met.
Win == Observed(Results(Fair, Fair), Results(Good, Good))
MCSpecs ==
    (r1 :> {Win} \cup
           {Observed(Results(Fair, Fair), y) :
               y \in {Results(Good, Bad), Results(Poor, Perfect), Results(Slow, Good)}})
    @@ (r2 :> {Win}) @@ (r3 :> {Win})

Ratio == <<3, 2>>

PromoterSymmetry == Permutations(Promoters)
=============================================================================
