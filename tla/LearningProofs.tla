--------------------------- MODULE LearningProofs ---------------------------
(***************************************************************************)
(* What the society learns rests on.                                       *)
(*                                                                         *)
(* Deployments, for any agents, benchmark, policy and observed results,    *)
(* and any number of evaluate and promote commands.  First the gates: a    *)
(* run that fails none of them is better in the sense of the               *)
(* documentation, which for the percentile is an argument about ranks.     *)
(* Then the commands: what is in the database while they run.              *)
(*                                                                         *)
(* Seeds, for any records, lessons, policy and any number of commands that *)
(* distil, retrieve, consolidate and roll back: what the rows and their    *)
(* history hold while a save lies between its read and its write.          *)
(***************************************************************************)
EXTENDS Promotion, SeedRevisions, FiniteSetTheorems, WellFoundedInduction,
        TLAPS

-----------------------------------------------------------------------------
(* Numbers and finite sets.                                                *)

\* A set of numbers has a least element.
LEMMA LeastNumber ==
    ASSUME NEW T \in SUBSET Nat, T # {}
    PROVE  \E x \in T : \A y \in T : x <= y
<1>1. PICK x \in T : \A y \in T : <<y, x>> \notin OpToRel(<, Nat)
    BY NatLessThanWellFounded, WFMin, Zenon
<1>2. \A y \in T : ~ (y < x)
    BY <1>1 DEF OpToRel
<1> QED BY <1>2

\* A finite, non-empty set has an element with the largest value of f: the
\* one with the fewest elements above it.
LEMMA LargestValue ==
    ASSUME NEW S, IsFiniteSet(S), S # {}, NEW f \in [S -> Nat]
    PROVE  \E x \in S : \A y \in S : f[y] <= f[x]
<1> DEFINE Above(x) == {y \in S : f[x] < f[y]}
           Count == {Cardinality(Above(x)) : x \in S}
<1>1. \A x \in S : IsFiniteSet(Above(x)) /\ Cardinality(Above(x)) \in Nat
    <2> TAKE x \in S
    <2>1. Above(x) \in SUBSET S OBVIOUS
    <2>2. IsFiniteSet(Above(x)) BY <2>1, FS_Subset
    <2> QED BY <2>2, FS_CardinalityType
<1>2. Count \in SUBSET Nat /\ Count # {}
    BY <1>1
<1>3. PICK n \in Count : \A m \in Count : n <= m
    <2> HIDE DEF Count
    <2> QED BY <1>2, LeastNumber
<1>4. PICK x \in S : n = Cardinality(Above(x))
    BY <1>3
<1>5. \A y \in S : f[y] <= f[x]
    <2> SUFFICES ASSUME NEW y \in S, f[x] < f[y] PROVE FALSE
        OBVIOUS
    <2>1. Above(y) \in SUBSET Above(x) /\ y \in Above(x) /\ y \notin Above(y)
        OBVIOUS
    <2>2. /\ Cardinality(Above(y)) <= Cardinality(Above(x))
          /\ Cardinality(Above(x)) = Cardinality(Above(y)) => Above(x) = Above(y)
        <3> HIDE DEF Above
        <3> QED BY <1>1, <2>1, FS_Subset
    <2>3. Cardinality(Above(x)) <= Cardinality(Above(y))
        BY <1>3, <1>4
    <2>4. Above(x) # Above(y)
        BY <2>1
    <2> HIDE DEF Above
    <2> QED BY <1>1, <2>2, <2>3, <2>4
<1> QED BY <1>5

\* A larger set has at least as many elements.
LEMMA CardinalityGrows ==
    ASSUME NEW S, IsFiniteSet(S), NEW A \in SUBSET S, NEW B \in SUBSET S,
           A \subseteq B
    PROVE  /\ IsFiniteSet(A) /\ IsFiniteSet(B)
           /\ Cardinality(A) \in Nat /\ Cardinality(B) \in Nat
           /\ Cardinality(A) <= Cardinality(B)
<1>1. IsFiniteSet(B) BY FS_Subset
<1>2. A \in SUBSET B OBVIOUS
<1> QED BY <1>1, <1>2, FS_Subset, FS_CardinalityType

-----------------------------------------------------------------------------
(* The gates.                                                              *)

ResultsOf == [CaseSet -> [Roles -> Result]]

LEMMA CasesFinite ==
    /\ N \in Nat /\ N > 0 /\ Cardinality(CaseSet) = N
    /\ IsFiniteSet(CaseSet) /\ CaseSet # {}
    /\ \A i \in 1 .. N : Cases[i] \in CaseSet
    /\ \A c \in CaseSet : \E i \in 1 .. N : c = Cases[i]
<1>1. N \in Nat /\ DOMAIN Cases = 1 .. N /\ Cases \in [1 .. N -> CaseSet]
    BY PromotionAssumption DEF N
<1>2. N > 0 /\ Cardinality(CaseSet) = N
    BY PromotionAssumption
<1>3. Cases \in Surjection(1 .. N, CaseSet)
    BY <1>1 DEF Surjection, CaseSet
<1>4. IsFiniteSet(1 .. N)
    BY <1>1, FS_Interval
<1>5. IsFiniteSet(CaseSet)
    BY <1>3, <1>4, FS_Surjection
<1>6. CaseSet # {}
    <2>1. 1 \in 1 .. N BY <1>1, <1>2
    <2>2. Cases[1] \in CaseSet BY <1>1, <2>1
    <2> QED BY <2>2
<1> QED BY <1>1, <1>2, <1>5, <1>6 DEF CaseSet

\* The cases that took no longer than v, and those that took less.
AtMost(spec, role, v) == {c \in CaseSet : spec[c][role].ms <= v}
Below(spec, role, v) == {c \in CaseSet : spec[c][role].ms < v}

\* The rank of the 95th percentile is the least number that is 95 of 100.
Rank == Ceiling(95 * N, 100)

LEMMA RankIsCeiling ==
    /\ Rank \in Nat /\ 1 <= Rank /\ Rank <= N
    /\ \A k \in Nat : k >= Rank <=> 100 * k >= 95 * N
BY CasesFinite DEF Rank, Ceiling

LEMMA RanksAreCounts ==
    ASSUME NEW spec \in ResultsOf, NEW role \in Roles, NEW v \in Nat
    PROVE  /\ IsFiniteSet(AtMost(spec, role, v)) /\ IsFiniteSet(Below(spec, role, v))
           /\ Cardinality(AtMost(spec, role, v)) \in Nat
           /\ Cardinality(Below(spec, role, v)) \in Nat
<1>1. AtMost(spec, role, v) \in SUBSET CaseSet /\ Below(spec, role, v) \in SUBSET CaseSet
    BY DEF AtMost, Below
<1> QED BY <1>1, CasesFinite, CardinalityGrows

\* The sorted latencies have an element at the rank: it is the least value
\* that enough cases do not exceed.
LEMMA PercentileRank ==
    ASSUME NEW spec \in ResultsOf, NEW role \in Roles
    PROVE  LET v == Percentile95(spec, role) IN
           /\ v \in Nat
           /\ Cardinality(AtMost(spec, role, v)) >= Rank
           /\ Cardinality(Below(spec, role, v)) < Rank
<1> DEFINE ms == [c \in CaseSet |-> spec[c][role].ms]
           Values == {spec[c][role].ms : c \in CaseSet}
           Enough == {v \in Values : Cardinality(AtMost(spec, role, v)) >= Rank}
<1>1. ms \in [CaseSet -> Nat] /\ Values \subseteq Nat
    BY DEF ResultsOf, Result
<1>2. Enough # {}
    <2>1. PICK x \in CaseSet : \A y \in CaseSet : ms[y] <= ms[x]
        <3> HIDE DEF ms
        <3> QED BY <1>1, CasesFinite, LargestValue
    <2>2. AtMost(spec, role, ms[x]) = CaseSet
        BY <2>1 DEF AtMost
    <2>3. ms[x] \in Enough
        BY <2>2, CasesFinite, RankIsCeiling
    <2> QED BY <2>3
<1>3. PICK v \in Enough : \A w \in Enough : v <= w
    <2>1. Enough \in SUBSET Nat BY <1>1
    <2> HIDE DEF Enough
    <2> QED BY <1>2, <2>1, LeastNumber
<1>4. v \in Nat /\ v \in Values /\ Cardinality(AtMost(spec, role, v)) >= Rank
    BY <1>1, <1>3
<1>5. Cardinality(Below(spec, role, v)) < Rank
    <2> DEFINE Less == Below(spec, role, v)
    <2>1. Less \in SUBSET CaseSet /\ IsFiniteSet(Less) /\ Cardinality(Less) \in Nat
        BY <1>4, RanksAreCounts DEF Below
    <2> SUFFICES ASSUME Cardinality(Less) >= Rank PROVE FALSE
        BY <2>1, RankIsCeiling
    <2>2. Less # {}
        <3> HIDE DEF Less
        <3> QED BY FS_EmptySet, RankIsCeiling
    <2>3. PICK x \in Less : \A y \in Less : ms[y] <= ms[x]
        <3>1. [c \in Less |-> ms[c]] \in [Less -> Nat]
            BY <1>1, <2>1
        <3> HIDE DEF ms, Less
        <3>2. \E x \in Less : \A y \in Less :
                 [c \in Less |-> ms[c]][y] <= [c \in Less |-> ms[c]][x]
            BY <2>1, <2>2, <3>1, LargestValue
        <3> QED BY <3>2
    <2>4. ms[x] < v /\ ms[x] \in Values
        BY <2>1, <2>3 DEF Below
    <2>5. Less \in SUBSET AtMost(spec, role, ms[x])
        BY <2>1, <2>3 DEF AtMost
    <2>6. Cardinality(Less) <= Cardinality(AtMost(spec, role, ms[x]))
        <3>1. ms[x] \in Nat BY <1>1, <2>1, <2>3
        <3> HIDE DEF Less, ms
        <3> QED BY <2>5, <3>1, RanksAreCounts, FS_Subset
    <2>7. ms[x] \in Nat /\ Cardinality(AtMost(spec, role, ms[x])) \in Nat
        <3>1. ms[x] \in Nat BY <1>1, <2>1, <2>3
        <3> HIDE DEF ms
        <3> QED BY <3>1, RanksAreCounts
    <2>8. ms[x] \in Enough
        <3> HIDE DEF ms, Less
        <3> QED BY <2>1, <2>4, <2>6, <2>7, RankIsCeiling
    <2> QED BY <1>3, <1>4, <2>4, <2>7, <2>8
<1>6. Percentile95(spec, role) \in {w \in Values :
                                      /\ Cardinality(AtMost(spec, role, w)) >= Rank
                                      /\ Cardinality(Below(spec, role, w)) < Rank}
    BY <1>4, <1>5 DEF Percentile95, AtMost, Below, Rank
<1> QED BY <1>1, <1>6

LEMMA PassesCount ==
    ASSUME NEW spec \in ResultsOf, NEW role \in Roles
    PROVE  Passes(spec, role) \in Nat
<1> DEFINE Passed == {c \in CaseSet : spec[c][role].passed}
<1>1. Passed \in SUBSET CaseSet OBVIOUS
<1>2. Cardinality(Passed) \in Nat
    BY <1>1, CasesFinite, CardinalityGrows
<1> QED BY <1>2 DEF Passes

LEMMA ScoreCounts ==
    ASSUME NEW spec \in ResultsOf, NEW role \in Roles
    PROVE  Score(spec, role) \in Nat
<1> DEFINE Points == UNION {{c} \X (1 .. spec[c][role].score) : c \in CaseSet}
<1>1. IsFiniteSet(CaseSet \X (1 .. 100))
    <2>1. IsFiniteSet(1 .. 100)
        <3>1. 1 \in Int /\ 100 \in Int OBVIOUS
        <3>2. \A a, b \in Int : IsFiniteSet(a .. b) BY FS_Interval
        <3> QED BY <3>1, <3>2, Zenon
    <2>2. \A T : IsFiniteSet(T) => IsFiniteSet(CaseSet \X T)
        BY CasesFinite, FS_Product
    <2> QED BY <2>1, <2>2
<1>2. Points \in SUBSET (CaseSet \X (1 .. 100))
    <2>1. \A c \in CaseSet : spec[c][role].score \in 0 .. 100
        BY DEF ResultsOf, Result
    <2>2. \A c \in CaseSet : {c} \X (1 .. spec[c][role].score)
                               \subseteq CaseSet \X (1 .. 100)
        BY <2>1
    <2> QED BY <2>2
<1>3. Cardinality(Points) \in Nat
    <2> HIDE DEF Points
    <2> QED BY <1>1, <1>2, CardinalityGrows
<1> QED BY <1>3 DEF Score

LEMMA Multiply ==
    ASSUME NEW a \in Nat, NEW b \in Nat, NEW k \in Nat, a <= b
    PROVE  a * k <= b * k
BY SMT

\* The gate on the percentiles bounds the whole distribution: whatever bound 95
\* of 100 of the champion's cases keep, 95 of 100 of the challenger's keep it
\* times the ratio.
LEMMA LatencyGate ==
    ASSUME NEW spec \in ResultsOf,
           ~ (Percentile95(spec, "challenger") * LatencyRatio[2]
                > Percentile95(spec, "champion") * LatencyRatio[1]),
           NEW ms \in Nat,
           100 * Within(spec, "champion", ms, 1) >= 95 * N
    PROVE  100 * Within(spec, "challenger", ms * LatencyRatio[1], LatencyRatio[2])
              >= 95 * N
<1> DEFINE old == Percentile95(spec, "champion")
           new == Percentile95(spec, "challenger")
           n == LatencyRatio[1]
           d == LatencyRatio[2]
<1>1. n \in Nat /\ d \in Nat
    BY PromotionAssumption
<1>2. /\ old \in Nat
      /\ Cardinality(Below(spec, "champion", old)) < Rank
    BY PercentileRank DEF Roles
<1>3. /\ new \in Nat
      /\ Cardinality(AtMost(spec, "challenger", new)) >= Rank
    BY PercentileRank DEF Roles
<1>4. \A c \in CaseSet, role \in Roles : spec[c][role].ms \in Nat
    BY DEF ResultsOf, Result
<1>5. old <= ms
    <2> SUFFICES ASSUME ms < old PROVE FALSE
        BY <1>2
    <2>1. Within(spec, "champion", ms, 1) = Cardinality(AtMost(spec, "champion", ms))
        <3>1. {c \in CaseSet : spec[c]["champion"].ms * 1 <= ms}
                 = AtMost(spec, "champion", ms)
            BY <1>4 DEF AtMost, Roles
        <3> QED BY <3>1 DEF Within
    <2>2. AtMost(spec, "champion", ms) \in SUBSET Below(spec, "champion", old)
        BY <1>2, <1>4 DEF AtMost, Below, Roles
    <2>3. /\ Cardinality(AtMost(spec, "champion", ms)) \in Nat
          /\ Cardinality(Below(spec, "champion", old)) \in Nat
          /\ Cardinality(AtMost(spec, "champion", ms))
                <= Cardinality(Below(spec, "champion", old))
        BY <1>2, <2>2, RanksAreCounts, FS_Subset DEF Roles
    <2> QED BY <1>2, <2>1, <2>3, RankIsCeiling
<1>6. new * d <= ms * n
    <2> HIDE DEF new, old, n, d
    <2>1. new * d <= old * n
        <3>1. new * d \in Nat /\ old * n \in Nat BY <1>1, <1>2, <1>3
        <3> QED BY <3>1 DEF new, old, n, d
    <2>2. old * n <= ms * n
        BY <1>1, <1>2, <1>5, Multiply
    <2> QED BY <1>1, <1>2, <1>3, <2>1, <2>2
<1> DEFINE Kept == {c \in CaseSet : spec[c]["challenger"].ms * d <= ms * n}
<1>7. AtMost(spec, "challenger", new) \in SUBSET Kept
    <2> SUFFICES ASSUME NEW c \in CaseSet, spec[c]["challenger"].ms <= new
                 PROVE  spec[c]["challenger"].ms * d <= ms * n
        BY DEF AtMost
    <2>1. spec[c]["challenger"].ms \in Nat
        BY <1>4 DEF Roles
    <2> HIDE DEF new, old, n, d
    <2>2. spec[c]["challenger"].ms * d <= new * d
        BY <1>1, <1>3, <2>1, Multiply
    <2> QED BY <1>1, <1>3, <1>6, <2>1, <2>2
<1>8. /\ Cardinality(Kept) \in Nat
      /\ Cardinality(AtMost(spec, "challenger", new)) \in Nat
      /\ Cardinality(AtMost(spec, "challenger", new)) <= Cardinality(Kept)
    <2>1. Kept \in SUBSET CaseSet /\ AtMost(spec, "challenger", new) \in SUBSET CaseSet
        BY DEF AtMost
    <2> HIDE DEF Kept, new
    <2> QED BY <1>7, <2>1, CasesFinite, CardinalityGrows
<1>9. Cardinality(Kept) >= Rank
    <2> HIDE DEF Kept, new
    <2> QED BY <1>3, <1>8, RankIsCeiling
<1>10. 100 * Cardinality(Kept) >= 95 * N
    <2> HIDE DEF Kept
    <2> QED BY <1>8, <1>9, RankIsCeiling
<1> QED BY <1>10 DEF Within

\* A run that fails no gate is better.
LEMMA NoFailedGateIsBetter ==
    ASSUME NEW spec \in ResultsOf, FailedGates(spec) = {}
    PROVE  Better(spec)
<1> DEFINE Gate(g) ==
        CASE g = "minimum_cases"  -> N < MinimumCases
          [] g = "critical_cases" ->
                \E c \in Critical : ~ spec[c]["challenger"].passed
          [] g = "pass_rate" ->
                Passes(spec, "challenger") < Passes(spec, "champion")
          [] g = "mean_score" ->
                Score(spec, "challenger") - Score(spec, "champion")
                   < MinimumDelta * N
          [] g = "per_case_regression" ->
                \E c \in CaseSet : Regression(spec, c) > MaximumRegression
          [] g = "p95_latency" ->
                Percentile95(spec, "challenger") * LatencyRatio[2]
                   > Percentile95(spec, "champion") * LatencyRatio[1]
<1>1. \A g \in {"minimum_cases", "critical_cases", "pass_rate", "mean_score",
               "per_case_regression", "p95_latency"} : ~ Gate(g)
    <2>1. FailedGates(spec) = {g \in {"minimum_cases", "critical_cases", "pass_rate",
             "mean_score", "per_case_regression", "p95_latency"} : Gate(g)}
        BY Zenon DEF FailedGates
    <2> HIDE DEF Gate
    <2> QED BY <2>1
<1>2. Passes(spec, "champion") \in Nat /\ Passes(spec, "challenger") \in Nat
    BY PassesCount DEF Roles
<1>3. Score(spec, "champion") \in Nat /\ Score(spec, "challenger") \in Nat
    BY ScoreCounts DEF Roles
<1>4. MinimumCases \in Nat /\ MinimumDelta \in Nat /\ MaximumRegression \in Nat
    BY PromotionAssumption
<1>5. N >= MinimumCases
    <2>1. ~ Gate("minimum_cases") BY <1>1
    <2> QED BY <1>4, <2>1, CasesFinite
<1>6. \A c \in Critical : spec[c]["challenger"].passed
    <2>1. ~ Gate("critical_cases") BY <1>1
    <2> QED BY <2>1
<1>7. Passes(spec, "challenger") >= Passes(spec, "champion")
    <2>1. ~ Gate("pass_rate") BY <1>1
    <2> QED BY <1>2, <2>1
<1>8. Score(spec, "challenger") >= Score(spec, "champion") + MinimumDelta * N
    <2>1. ~ Gate("mean_score") BY <1>1
    <2>2. MinimumDelta * N \in Nat BY <1>4, CasesFinite
    <2> QED BY <1>3, <2>1, <2>2
<1>9. \A c \in CaseSet : spec[c]["challenger"].score + MaximumRegression
                             >= spec[c]["champion"].score
    <2>1. ~ Gate("per_case_regression") BY <1>1
    <2>2. \A c \in CaseSet : /\ spec[c]["challenger"].score \in Nat
                             /\ spec[c]["champion"].score \in Nat
        BY DEF ResultsOf, Roles, Result
    <2> QED BY <1>4, <2>1, <2>2 DEF Regression
<1>10. ~ (Percentile95(spec, "challenger") * LatencyRatio[2]
            > Percentile95(spec, "champion") * LatencyRatio[1])
    <2>1. ~ Gate("p95_latency") BY <1>1
    <2> QED BY <2>1
<1>11. \A c \in CaseSet : spec[c]["champion"].ms \in Nat
    BY DEF ResultsOf, Roles, Result
<1> QED BY <1>5, <1>6, <1>7, <1>8, <1>9, <1>10, <1>11, LatencyGate DEF Better

-----------------------------------------------------------------------------
(* The commands.                                                           *)

Profiles == [Agents -> Models \cup {Null}]
RunRows == [champion : Identity, challenger : Identity, recommended : BOOLEAN,
            status : {"evaluated", "promoted"}]
Deployments == [champion : Identity, source : Runs]
OutcomeRows == [run : Runs, case : CaseSet, candidate : Identity,
                critical : BOOLEAN, result : Result]

Evaluators ==
    [pc : {"new", "known", "cases", "gates", "done", "failed"},
     spec : ResultsOf \cup {Null}, next : 1 .. N, role : Roles]
PromoterStates ==
    [pc : {"new", "candidate", "active", "write"}, run : Runs \cup {Null},
     raced : BOOLEAN]
EngineStates ==
    [pc : {"idle", "listed", "assigned"}, listed : Profiles \cup {Null},
     agent : Agents \cup {Null}]

TypeOK ==
    /\ profile \in Profiles
    /\ evaluator \in [Runs -> Evaluators]
    /\ outcomes \subseteq OutcomeRows
    /\ run \in [Runs -> RunRows \cup {Null}]
    /\ deployment \in Deployments \cup {Null}
    /\ promoter \in [Promoters -> PromoterStates]
    /\ engine \in EngineStates
    /\ profiles \in Nat
    /\ seen \subseteq Deployments \cup {Null}

\* The outcome of a case, if the command observed spec.
OutcomeFrom(r, spec, c, role) ==
    [run |-> r, case |-> c, candidate |-> IdentityOf(r, role),
     critical |-> c \in Critical, result |-> spec[c][role]]

\* All that is stored of the run was observed in spec.
Own(r, spec) ==
    \A o \in outcomes : o.run = r =>
       \E c \in CaseSet, role \in Roles : o = OutcomeFrom(r, spec, c, role)

\* The outcomes before the given one are stored.
Saved(r, spec, next, role) ==
    \A i \in 1 .. N, q \in Roles :
       \/ i < next
       \/ i = next /\ q = "champion" /\ role = "challenger"
       => OutcomeFrom(r, spec, Cases[i], q) \in outcomes

Full(r, spec) ==
    /\ Own(r, spec)
    /\ \A i \in 1 .. N, q \in Roles : OutcomeFrom(r, spec, Cases[i], q) \in outcomes

\* A stored run: its command is over, all it observed is stored, and a
\* recommended run failed no gate.
Recorded(r) ==
    /\ run[r] \in RunRows
    /\ evaluator[r].pc = "done"
    /\ run[r].champion = ChampionOf[r]
    /\ run[r].challenger = ChallengerOf[r]
    /\ \E spec \in SpecsOf[r] :
          Full(r, spec) /\ (run[r].recommended => FailedGates(spec) = {})

EvaluatorsSave ==
    \A r \in Runs : LET e == evaluator[r] IN
       /\ e.pc \in {"new", "known"} =>
             e.next = 1 /\ e.role = "champion" /\ \A o \in outcomes : o.run # r
       /\ e.pc \in {"cases", "gates"} => e.spec \in SpecsOf[r] /\ Own(r, e.spec)
       /\ e.pc = "cases" => Saved(r, e.spec, e.next, e.role)
       /\ e.pc = "gates" => Full(r, e.spec)

RunsRecorded == \A r \in Runs : run[r] # Null => Recorded(r)

\* What a promotion has read holds until it writes.
PromotersRead ==
    \A p \in Promoters : promoter[p].pc \in {"candidate", "active", "write"} =>
       /\ promoter[p].run \in Runs
       /\ Recorded(promoter[p].run)
       /\ run[promoter[p].run].recommended

\* ... and so does what it has compared, unless another one writes.
ChampionRead ==
    \A p \in Promoters : promoter[p].pc = "write" /\ ~ promoter[p].raced =>
       \/ deployment = Null
       \/ deployment.champion = run[promoter[p].run].champion

DeploymentRests ==
    deployment # Null =>
       /\ deployment \in Deployments
       /\ Recorded(deployment.source)
       /\ run[deployment.source].recommended
       /\ run[deployment.source].status = "promoted"
       /\ run[deployment.source].challenger = deployment.champion

DeploymentSeen == engine.pc = "listed" => deployment \in seen

PromotionInv ==
    /\ TypeOK
    /\ EvaluatorsSave
    /\ RunsRecorded
    /\ PromotersRead
    /\ ChampionRead
    /\ DeploymentRests
    /\ DeploymentSeen
    /\ RoutedToChampion

LEMMA ConstantTypes ==
    ASSUME NEW r \in Runs
    PROVE  /\ ChampionOf[r] \in Identity /\ ChallengerOf[r] \in Identity
           /\ ChampionOf[r].agent # ChallengerOf[r].agent
           /\ SpecsOf[r] \subseteq ResultsOf
           /\ \A role \in Roles : IdentityOf(r, role) \in Identity
BY PromotionAssumption DEF ResultsOf, IdentityOf

LEMMA InitTypes == Init => TypeOK
<1> SUFFICES ASSUME Init PROVE TypeOK
    OBVIOUS
<1>1. 1 \in 1 .. N /\ "champion" \in Roles
    BY CasesFinite DEF Roles
<1>2. /\ NewEvaluator \in Evaluators
      /\ NewPromoter \in PromoterStates
      /\ NewEngine \in EngineStates
    BY <1>1 DEF NewEvaluator, NewPromoter, NewEngine, Evaluators, PromoterStates,
                EngineStates
<1> QED BY <1>2 DEF Init, TypeOK, Profiles

LEMMA OutcomeTypes ==
    ASSUME TypeOK, NEW r \in Runs, evaluator[r].spec \in ResultsOf
    PROVE  /\ OutcomeOf(r) \in OutcomeRows
           /\ OutcomeOf(r) = OutcomeFrom(r, evaluator[r].spec,
                                Cases[evaluator[r].next], evaluator[r].role)
<1>1. /\ evaluator[r].next \in 1 .. N
      /\ evaluator[r].role \in Roles
      /\ Cases[evaluator[r].next] \in CaseSet
    BY CasesFinite DEF TypeOK, Evaluators
<1>2. /\ evaluator[r].spec[Cases[evaluator[r].next]][evaluator[r].role] \in Result
      /\ IdentityOf(r, evaluator[r].role) \in Identity
    BY <1>1, ConstantTypes DEF ResultsOf
<1> QED BY <1>1, <1>2 DEF OutcomeOf, OutcomeFrom, OutcomeRows

LEMMA EvaluatorTypes ==
    ASSUME PromotionInv, NEW r \in Runs, EvaluatorStep(r)
    PROVE  TypeOK'
<1> DEFINE e == evaluator[r]
<1> USE DEF EvaluatorAt
<1>0. /\ TypeOK /\ e \in Evaluators
      /\ N \in Nat /\ 1 \in 1 .. N
      /\ "champion" \in Roles /\ "challenger" \in Roles
    BY CasesFinite DEF PromotionInv, TypeOK, Roles
<1>a. ASSUME NEW identity \in Identity, Ensure(identity)
      PROVE  profile' \in Profiles
    BY <1>0, <1>a DEF TypeOK, Ensure, Identity, Profiles
<1>b. ASSUME NEW x \in Evaluators, evaluator' = [evaluator EXCEPT ![r] = x]
      PROVE  evaluator' \in [Runs -> Evaluators]
    BY <1>0, <1>b DEF TypeOK
<1>1. CASE EnsureChampion(r)
    <2>1. profile' \in Profiles
        BY <1>1, <1>a, ConstantTypes DEF EnsureChampion
    <2>2. evaluator' \in [Runs -> Evaluators]
        BY <1>0, <1>1 DEF EnsureChampion, TypeOK, Evaluators
    <2> QED BY <1>0, <1>1, <2>1, <2>2 DEF TypeOK, EnsureChampion
<1>2. CASE EnsureChallenger(r)
    <2>1. PICK spec \in SpecsOf[r] :
             evaluator' = [evaluator EXCEPT ![r].pc = "cases", ![r].spec = spec]
        BY <1>2 DEF EnsureChallenger
    <2>2. spec \in ResultsOf
        BY <2>1, ConstantTypes
    <2>3. profile' \in Profiles
        BY <1>2, <1>a, ConstantTypes DEF EnsureChallenger
    <2>4. evaluator' \in [Runs -> Evaluators]
        BY <1>0, <2>1, <2>2 DEF TypeOK, Evaluators
    <2> QED BY <1>0, <1>2, <2>3, <2>4 DEF TypeOK, EnsureChallenger
<1>3. CASE Conflict(r)
    <2>1. evaluator' \in [Runs -> Evaluators]
        BY <1>0, <1>3 DEF Conflict, TypeOK, Evaluators
    <2> QED BY <1>0, <1>3, <2>1 DEF TypeOK, Conflict
<1>4. CASE SaveOutcome(r)
    <2>1. evaluator[r].spec \in ResultsOf
        BY <1>4, ConstantTypes DEF PromotionInv, EvaluatorsSave, SaveOutcome
    <2>2. outcomes' \subseteq OutcomeRows
        BY <1>0, <1>4, <2>1, OutcomeTypes DEF SaveOutcome, TypeOK
    <2>3. evaluator' \in [Runs -> Evaluators]
        <3>1. CASE e.role = "champion"
            <4>1. [e EXCEPT !.role = "challenger"] \in Evaluators
                BY <1>0 DEF Evaluators
            <4> QED BY <1>4, <1>b, <3>1, <4>1 DEF SaveOutcome
        <3>2. CASE e.role # "champion" /\ e.next < N
            <4>1. e.role = "challenger" /\ e.next + 1 \in 1 .. N
                BY <1>0, <3>2 DEF Evaluators, Roles
            <4>2. [e EXCEPT !.role = "champion", !.next = e.next + 1] \in Evaluators
                BY <1>0, <4>1 DEF Evaluators
            <4> QED BY <1>4, <1>b, <3>2, <4>1, <4>2 DEF SaveOutcome
        <3>3. CASE e.role # "champion" /\ ~ (e.next < N)
            <4>1. [e EXCEPT !.pc = "gates"] \in Evaluators
                BY <1>0 DEF Evaluators
            <4> QED BY <1>4, <1>b, <3>3, <4>1 DEF SaveOutcome
        <3> QED BY <3>1, <3>2, <3>3
    <2> QED BY <1>0, <1>4, <2>2, <2>3 DEF TypeOK, SaveOutcome
<1>c. \A pc \in {"done", "failed"} : [NewEvaluator EXCEPT !.pc = pc] \in Evaluators
    BY <1>0 DEF NewEvaluator, Evaluators
<1>5. CASE SaveRun(r)
    <2>1. RunRecord(r) \in RunRows
        BY ConstantTypes DEF RunRecord, RunRows
    <2>2. evaluator' \in [Runs -> Evaluators]
        BY <1>5, <1>b, <1>c DEF SaveRun
    <2> QED BY <1>0, <1>5, <2>1, <2>2 DEF TypeOK, SaveRun
<1>6. CASE CrashEvaluator(r)
    <2>1. evaluator' \in [Runs -> Evaluators]
        BY <1>6, <1>b, <1>c DEF CrashEvaluator
    <2> QED BY <1>0, <1>6, <2>1 DEF TypeOK, CrashEvaluator
<1> QED BY <1>1, <1>2, <1>3, <1>4, <1>5, <1>6 DEF EvaluatorStep

LEMMA PromoterTypes ==
    ASSUME PromotionInv, NEW p \in Promoters, PromoterStep(p)
    PROVE  TypeOK'
<1> USE DEF PromoterAt, PromoterGoto
<1>0. TypeOK BY DEF PromotionInv
<1>a. NewPromoter \in PromoterStates
    BY DEF NewPromoter, PromoterStates
<1>1. CASE \E r \in Runs : ReadRun(p, r)
    <2>1. PICK r \in Runs : ReadRun(p, r)
        BY <1>1
    <2>2. [NewPromoter EXCEPT !.pc = "candidate", !.run = r] \in PromoterStates
        BY DEF NewPromoter, PromoterStates
    <2>3. promoter' \in [Promoters -> PromoterStates]
        BY <1>0, <2>1, <2>2 DEF TypeOK, ReadRun
    <2> QED BY <1>0, <2>1, <2>3 DEF TypeOK, ReadRun
<1>2. CASE ReadCandidate(p)
    <2>1. promoter' \in [Promoters -> PromoterStates]
        BY <1>0, <1>2, <1>a DEF TypeOK, ReadCandidate, Refuse, PromoterStates
    <2> QED BY <1>0, <1>2, <2>1 DEF TypeOK, ReadCandidate
<1>3. CASE ReadActive(p)
    <2>1. promoter' \in [Promoters -> PromoterStates]
        BY <1>0, <1>3, <1>a DEF TypeOK, ReadActive, Refuse, PromoterStates
    <2> QED BY <1>0, <1>3, <2>1 DEF TypeOK, ReadActive
<1>4. CASE WritePromotion(p)
    <2> DEFINE r == promoter[p].run
    <2>1. r \in Runs /\ run[r] \in RunRows
        BY <1>4 DEF PromotionInv, PromotersRead, WritePromotion, Deploy, Recorded
    <2>2. deployment' \in Deployments
        BY <1>4, <2>1 DEF WritePromotion, Deploy, Deployments, RunRows
    <2>3. run' \in [Runs -> RunRows \cup {Null}]
        BY <1>0, <1>4, <2>1 DEF WritePromotion, TypeOK, RunRows
    <2>4. promoter' \in [Promoters -> PromoterStates]
        <3>1. \A x \in PromoterStates, b \in BOOLEAN :
                 [x EXCEPT !.raced = b] \in PromoterStates
            BY DEF PromoterStates
        <3>2. \A q \in Promoters : (promoter[q].pc = "write") \in BOOLEAN
            BY Zenon
        <3>3. \A q \in Promoters :
                 [promoter[q] EXCEPT !.raced = (promoter[q].pc = "write")]
                    \in PromoterStates
            BY <1>0, <3>1, <3>2, Zenon DEF TypeOK
        <3> DEFINE next(q) ==
                IF q = p THEN NewPromoter
                ELSE [promoter[q] EXCEPT !.raced = (promoter[q].pc = "write")]
        <3>4. promoter' = [q \in Promoters |-> next(q)]
            BY <1>4, Zenon DEF WritePromotion, Deploy
        <3>5. \A q \in Promoters : next(q) \in PromoterStates
            BY <1>a, <3>3, Zenon
        <3> HIDE DEF next
        <3> QED BY <3>4, <3>5
    <2>5. seen' \subseteq Deployments \cup {Null}
        BY <1>0, <1>4, <2>2 DEF WritePromotion, Deploy, TypeOK
    <2> QED BY <1>0, <1>4, <2>2, <2>3, <2>4, <2>5 DEF WritePromotion, Deploy, TypeOK
<1> QED BY <1>1, <1>2, <1>3, <1>4 DEF PromoterStep

LEMMA OtherTypes ==
    ASSUME PromotionInv,
           \/ \E a \in Reconfigured, m \in Models : SaveAgent(a, m)
           \/ ListAgents \/ Assign \/ Block
    PROVE  TypeOK'
<1>0. TypeOK /\ Reconfigured \subseteq Agents /\ Loaded \subseteq Agents
    BY PromotionAssumption DEF PromotionInv
<1>1. CASE \E a \in Reconfigured, m \in Models : SaveAgent(a, m)
    <2>1. profile' \in Profiles /\ profiles' \in Nat
        BY <1>0, <1>1 DEF TypeOK, SaveAgent, Profiles
    <2> QED BY <1>0, <1>1, <2>1 DEF TypeOK, SaveAgent
<1>2. CASE ListAgents
    <2>1. engine' \in EngineStates
        BY <1>0, <1>2 DEF TypeOK, ListAgents, NewEngine, EngineStates
    <2> QED BY <1>0, <1>2, <2>1 DEF TypeOK, ListAgents
<1>3. CASE Assign
    <2>1. engine' \in EngineStates
        BY <1>0, <1>3 DEF TypeOK, Assign, EngineStates
    <2> QED BY <1>0, <1>3, <2>1 DEF TypeOK, Assign
<1>4. CASE Block
    <2>1. engine' \in EngineStates
        BY <1>0, <1>4 DEF TypeOK, Block, NewEngine, EngineStates
    <2> QED BY <1>0, <1>4, <2>1 DEF TypeOK, Block
<1> QED BY <1>1, <1>2, <1>3, <1>4

\* An evaluate command changes nothing of another run.
LEMMA EvaluatorFrame ==
    ASSUME PromotionInv, NEW r \in Runs, EvaluatorStep(r)
    PROVE  /\ \A s \in Runs \ {r} : evaluator'[s] = evaluator[s] /\ run'[s] = run[s]
           /\ outcomes \subseteq outcomes'
           /\ \A o \in outcomes' : o \in outcomes \/ o.run = r
           /\ evaluator[r].pc # "done"
           /\ UNCHANGED <<deployment, promoter, engine, seen>>
<1> USE DEF EvaluatorAt
<1>0. TypeOK /\ evaluator[r] \in Evaluators
    BY DEF PromotionInv, TypeOK
<1>1. CASE EnsureChampion(r)
    BY <1>0, <1>1 DEF TypeOK, EnsureChampion
<1>2. CASE EnsureChallenger(r)
    BY <1>0, <1>2 DEF TypeOK, EnsureChallenger
<1>3. CASE Conflict(r)
    BY <1>0, <1>3 DEF TypeOK, Conflict
<1>4. CASE SaveOutcome(r)
    <2>1. OutcomeOf(r).run = r
        BY DEF OutcomeOf
    <2> QED BY <1>0, <1>4, <2>1 DEF TypeOK, SaveOutcome
<1>5. CASE SaveRun(r)
    BY <1>0, <1>5 DEF TypeOK, SaveRun
<1>6. CASE CrashEvaluator(r)
    BY <1>0, <1>6 DEF TypeOK, CrashEvaluator
<1> QED BY <1>1, <1>2, <1>3, <1>4, <1>5, <1>6 DEF EvaluatorStep

LEMMA OthersStay ==
    ASSUME PromotionInv, NEW r \in Runs, EvaluatorStep(r), NEW s \in Runs \ {r}
    PROVE  /\ \A spec : Own(s, spec) => Own(s, spec)'
           /\ \A spec : Full(s, spec) => Full(s, spec)'
           /\ \A spec, next, role : Saved(s, spec, next, role) => Saved(s, spec, next, role)'
           /\ Recorded(s) => Recorded(s)'
<1>1. \A spec : Own(s, spec) => Own(s, spec)'
    BY EvaluatorFrame DEF Own
<1>2. \A spec, next, role : Saved(s, spec, next, role) => Saved(s, spec, next, role)'
    BY EvaluatorFrame DEF Saved
<1>3. \A spec : Full(s, spec) => Full(s, spec)'
    BY <1>1, EvaluatorFrame DEF Full
<1>4. Recorded(s) => Recorded(s)'
    BY <1>3, EvaluatorFrame DEF Recorded
<1> QED BY <1>1, <1>2, <1>3, <1>4

\* Storing the next outcome.
LEMMA OutcomeSaved ==
    ASSUME PromotionInv, NEW r \in Runs, SaveOutcome(r)
    PROVE  LET e == evaluator[r] IN
           (/\ e.pc \in {"cases", "gates"}
            /\ e.spec \in SpecsOf[r] /\ Own(r, e.spec)
            /\ e.pc = "cases" => Saved(r, e.spec, e.next, e.role)
            /\ e.pc = "gates" => Full(r, e.spec))'
<1> DEFINE e == evaluator[r]
           f == evaluator'[r]
           o == OutcomeFrom(r, e.spec, Cases[e.next], e.role)
<1>1. /\ TypeOK /\ e \in Evaluators /\ e.pc = "cases"
      /\ e.spec \in SpecsOf[r] /\ e.spec \in ResultsOf
      /\ Own(r, e.spec) /\ Saved(r, e.spec, e.next, e.role)
    BY ConstantTypes DEF PromotionInv, TypeOK, EvaluatorsSave, SaveOutcome, EvaluatorAt
<1>2. outcomes' = outcomes \cup {o}
    BY <1>1, OutcomeTypes DEF SaveOutcome
<1>3. e.next \in 1 .. N /\ e.role \in Roles /\ Cases[e.next] \in CaseSet /\ N \in Nat
    BY <1>1, CasesFinite DEF Evaluators
<1>4. \A x \in outcomes' : x.run = r =>
             \E c \in CaseSet, role \in Roles : x = OutcomeFrom(r, e.spec, c, role)
    <2> HIDE DEF e
    <2> QED BY <1>1, <1>2, <1>3 DEF Own
<1>5. o \in outcomes' /\ \A i \in 1 .. N, q \in Roles :
         \/ i < e.next
         \/ i = e.next /\ q = "champion" /\ e.role = "challenger"
         => OutcomeFrom(r, e.spec, Cases[i], q) \in outcomes'
    BY <1>1, <1>2 DEF Saved
<1>6. f = CASE e.role = "champion" -> [e EXCEPT !.role = "challenger"]
            [] e.role = "challenger" /\ e.next < N ->
                  [e EXCEPT !.role = "champion", !.next = e.next + 1]
            [] OTHER -> [e EXCEPT !.pc = "gates"]
    BY <1>1 DEF SaveOutcome, TypeOK
<1>7. CASE e.role = "champion"
    <2>1. f = [e EXCEPT !.role = "challenger"]
        BY <1>6, <1>7
    <2>2. f.pc = "cases" /\ f.spec = e.spec /\ f.next = e.next /\ f.role = "challenger"
        BY <1>1, <2>1 DEF Evaluators
    <2>3. \A i \in 1 .. N, q \in Roles :
             \/ i < e.next
             \/ i = e.next /\ q = "champion"
             => OutcomeFrom(r, e.spec, Cases[i], q) \in outcomes'
        BY <1>5, <1>7
    <2> QED BY <1>1, <1>4, <2>2, <2>3 DEF Own, Saved
<1>8. CASE e.role = "challenger" /\ e.next < N
    <2>1. f = [e EXCEPT !.role = "champion", !.next = e.next + 1]
        BY <1>6, <1>8
    <2>2. f.pc = "cases" /\ f.spec = e.spec /\ f.next = e.next + 1 /\ f.role = "champion"
        BY <1>1, <2>1 DEF Evaluators
    <2>3. \A i \in 1 .. N, q \in Roles :
             i < e.next + 1 => OutcomeFrom(r, e.spec, Cases[i], q) \in outcomes'
        BY <1>3, <1>5, <1>8 DEF Roles
    <2> QED BY <1>1, <1>4, <2>2, <2>3 DEF Own, Saved
<1>9. CASE e.role = "challenger" /\ ~ (e.next < N)
    <2>1. f = [e EXCEPT !.pc = "gates"]
        BY <1>6, <1>9
    <2>2. f.pc = "gates" /\ f.spec = e.spec
        BY <1>1, <2>1 DEF Evaluators
    <2>3. \A i \in 1 .. N, q \in Roles :
             OutcomeFrom(r, e.spec, Cases[i], q) \in outcomes'
        BY <1>3, <1>5, <1>9 DEF Roles
    <2> QED BY <1>1, <1>4, <2>2, <2>3 DEF Own, Full
<1> QED BY <1>3, <1>7, <1>8, <1>9 DEF Roles

\* What an evaluate command has done and stored.
LEMMA EvaluatorSaves ==
    ASSUME PromotionInv, NEW r \in Runs, EvaluatorStep(r)
    PROVE  EvaluatorsSave'
<1> USE DEF EvaluatorAt
<1> DEFINE Good(s) ==
        LET e == evaluator[s] IN
        /\ e.pc \in {"new", "known"} =>
              e.next = 1 /\ e.role = "champion" /\ \A o \in outcomes : o.run # s
        /\ e.pc \in {"cases", "gates"} => e.spec \in SpecsOf[s] /\ Own(s, e.spec)
        /\ e.pc = "cases" => Saved(s, e.spec, e.next, e.role)
        /\ e.pc = "gates" => Full(s, e.spec)
<1>0. TypeOK /\ evaluator[r] \in Evaluators /\ Good(r) /\ r \in DOMAIN evaluator
    BY DEF PromotionInv, TypeOK, EvaluatorsSave
<1>1. ASSUME NEW s \in Runs \ {r} PROVE Good(s)'
    <2>1. Good(s) BY DEF PromotionInv, EvaluatorsSave
    <2>2. evaluator'[s] = evaluator[s]
        BY EvaluatorFrame
    <2>3. (\A o \in outcomes : o.run # s) => (\A o \in outcomes' : o.run # s)
        BY EvaluatorFrame
    <2>4. \A spec : Own(s, spec) => Own(s, spec)'
        BY OthersStay
    <2>5. \A spec, next, role : Saved(s, spec, next, role) => Saved(s, spec, next, role)'
        BY OthersStay
    <2>6. \A spec : Full(s, spec) => Full(s, spec)'
        BY OthersStay
    <2> QED BY <2>1, <2>2, <2>3, <2>4, <2>5, <2>6
<1>2. Good(r)'
    <2>1. CASE EnsureChampion(r)
        <3>1. evaluator'[r] = [evaluator[r] EXCEPT !.pc = "known"] /\ outcomes' = outcomes
            BY <1>0, <2>1 DEF EnsureChampion
        <3>2. /\ evaluator'[r].pc = "known" /\ evaluator'[r].next = evaluator[r].next
              /\ evaluator'[r].role = evaluator[r].role
            BY <1>0, <3>1 DEF Evaluators
        <3> QED BY <1>0, <2>1, <3>1, <3>2 DEF EnsureChampion
    <2>2. CASE EnsureChallenger(r)
        <3>1. PICK spec \in SpecsOf[r] :
                 evaluator' = [evaluator EXCEPT ![r].pc = "cases", ![r].spec = spec]
            BY <2>2 DEF EnsureChallenger
        <3>2. /\ evaluator[r].next = 1 /\ evaluator[r].role = "champion"
              /\ \A o \in outcomes : o.run # r
            BY <1>0, <2>2 DEF EnsureChallenger
        <3>3. /\ evaluator'[r].pc = "cases" /\ evaluator'[r].spec = spec
              /\ evaluator'[r].next = 1 /\ evaluator'[r].role = "champion"
            BY <1>0, <3>1, <3>2 DEF Evaluators
        <3>4. outcomes' = outcomes
            BY <2>2 DEF EnsureChallenger
        <3> HIDE DEF Good
        <3>5. \A x : Own(r, x)'
            BY <3>2, <3>4 DEF Own
        <3>6. \A x : Saved(r, x, 1, "champion")'
            BY DEF Saved
        <3> QED BY <3>3, <3>5, <3>6 DEF Good
    <2>3. CASE Conflict(r)
        <3>1. evaluator'[r].pc = "failed"
            BY <1>0, <2>3 DEF Conflict, Evaluators
        <3> QED BY <3>1
    <2>4. CASE SaveOutcome(r)
        <3>1. LET e == evaluator[r] IN
              (/\ e.pc \in {"cases", "gates"}
               /\ e.spec \in SpecsOf[r] /\ Own(r, e.spec)
               /\ e.pc = "cases" => Saved(r, e.spec, e.next, e.role)
               /\ e.pc = "gates" => Full(r, e.spec))'
            BY <2>4, OutcomeSaved
        <3> QED BY <3>1
    <2>5. CASE SaveRun(r)
        <3>1. evaluator'[r].pc = "done"
            BY <1>0, <2>5 DEF SaveRun, NewEvaluator
        <3> QED BY <3>1
    <2>6. CASE CrashEvaluator(r)
        <3>1. evaluator'[r].pc = "failed"
            BY <1>0, <2>6 DEF CrashEvaluator, NewEvaluator
        <3> QED BY <3>1
    <2> QED BY <2>1, <2>2, <2>3, <2>4, <2>5, <2>6 DEF EvaluatorStep
<1> QED BY <1>1, <1>2 DEF EvaluatorsSave

\* A run is stored with all its outcomes, and recommended if no gate failed.
LEMMA EvaluatorRecords ==
    ASSUME PromotionInv, NEW r \in Runs, EvaluatorStep(r)
    PROVE  RunsRecorded'
<1>0. TypeOK BY DEF PromotionInv
<1>1. ASSUME NEW s \in Runs, run'[s] # Null PROVE Recorded(s)'
    <2>1. CASE s # r
        BY <1>1, <2>1, EvaluatorFrame, OthersStay DEF PromotionInv, RunsRecorded
    <2>2. CASE s = r /\ SaveRun(r)
        <3> DEFINE spec == evaluator[r].spec
        <3>1. /\ spec \in SpecsOf[r] /\ Full(r, spec)
            BY <2>2 DEF PromotionInv, EvaluatorsSave, SaveRun, EvaluatorAt
        <3>2. outcomes' = outcomes /\ run'[r] = RunRecord(r) /\ evaluator'[r].pc = "done"
            BY <1>0, <2>2 DEF SaveRun, TypeOK, NewEvaluator
        <3>3. PICK x \in SpecsOf[r] : x = spec /\ Full(r, x)
            BY <3>1
        <3>4. Full(r, x)'
            BY <3>2, <3>3 DEF Full, Own
        <3>5. /\ run'[r] \in RunRows
              /\ run'[r].champion = ChampionOf[r] /\ run'[r].challenger = ChallengerOf[r]
            BY <3>2, ConstantTypes DEF RunRecord, RunRows
        <3>6. run'[r].recommended => FailedGates(x) = {}
            <4>1. RunRecord(r).recommended = (FailedGates(spec) = {})
                BY DEF RunRecord
            <4> QED BY <3>2, <3>3, <4>1, Zenon
        <3> QED BY <2>2, <3>2, <3>4, <3>5, <3>6 DEF Recorded
    <2>3. CASE s = r /\ ~ SaveRun(r)
        <3>1. run' = run
            BY <2>3 DEF EvaluatorStep, EnsureChampion, EnsureChallenger, Conflict,
                        SaveOutcome, CrashEvaluator
        <3>2. Recorded(r)
            BY <1>1, <2>3, <3>1 DEF PromotionInv, RunsRecorded
        <3> QED BY <3>2, EvaluatorFrame DEF Recorded
    <2> QED BY <2>1, <2>2, <2>3
<1> QED BY <1>1 DEF RunsRecorded

LEMMA EvaluatorKeeps ==
    ASSUME PromotionInv, NEW r \in Runs, EvaluatorStep(r)
    PROVE  PromotionInv'
<1>1. \A s \in Runs : Recorded(s) => Recorded(s)' /\ run'[s] = run[s]
    <2> SUFFICES ASSUME NEW s \in Runs, Recorded(s)
                 PROVE  Recorded(s)' /\ run'[s] = run[s]
        OBVIOUS
    <2>1. s # r BY EvaluatorFrame DEF Recorded
    <2> QED BY <2>1, EvaluatorFrame, OthersStay
<1>2. UNCHANGED <<deployment, promoter, engine, seen>>
    BY EvaluatorFrame
<1>3. PromotersRead' /\ ChampionRead'
    BY <1>1, <1>2 DEF PromotionInv, PromotersRead, ChampionRead
<1>4. DeploymentRests'
    <2>1. deployment # Null => deployment.source \in Runs
        BY DEF PromotionInv, DeploymentRests, Deployments
    <2> QED BY <1>1, <1>2, <2>1 DEF PromotionInv, DeploymentRests
<1>5. DeploymentSeen' /\ RoutedToChampion'
    BY <1>2 DEF PromotionInv, DeploymentSeen, RoutedToChampion
<1> QED BY <1>3, <1>4, <1>5, EvaluatorTypes, EvaluatorSaves, EvaluatorRecords
        DEF PromotionInv

\* Promotions change nothing of what an evaluation stored but the status.
LEMMA PromoterKeepsRecords ==
    ASSUME PromotionInv, NEW p \in Promoters, PromoterStep(p), NEW s \in Runs,
           Recorded(s)
    PROVE  /\ Recorded(s)'
           /\ run'[s].champion = run[s].champion
           /\ run'[s].challenger = run[s].challenger
           /\ run'[s].recommended = run[s].recommended
           /\ run'[s].status \in {run[s].status, "promoted"}
<1>1. UNCHANGED <<evaluator, outcomes>>
    BY DEF PromoterStep, ReadRun, ReadCandidate, ReadActive, WritePromotion, Deploy
<1>2. run[s] \in RunRows BY DEF Recorded
<1>3. \/ run'[s] = run[s]
      \/ run'[s] = [run[s] EXCEPT !.status = "promoted"]
    <2>1. CASE WritePromotion(p)
        BY <2>1 DEF WritePromotion, PromotionInv, TypeOK
    <2>2. CASE ~ WritePromotion(p)
        BY <2>2 DEF PromoterStep, ReadRun, ReadCandidate, ReadActive
    <2> QED BY <2>1, <2>2
<1>4. /\ run'[s] \in RunRows
      /\ run'[s].champion = run[s].champion
      /\ run'[s].challenger = run[s].challenger
      /\ run'[s].recommended = run[s].recommended
      /\ run'[s].status \in {run[s].status, "promoted"}
    BY <1>2, <1>3 DEF RunRows
<1>5. Recorded(s)'
    <2>1. PICK spec \in SpecsOf[s] :
             Full(s, spec) /\ (run[s].recommended => FailedGates(spec) = {})
        BY DEF Recorded
    <2>2. Full(s, spec)'
        BY <1>1, <2>1 DEF Full, Own
    <2> QED BY <1>1, <1>4, <2>1, <2>2 DEF Recorded
<1> QED BY <1>4, <1>5

\* What a promotion knows of the run and of the deployment.
LEMMA PromoterReads ==
    ASSUME PromotionInv, NEW p \in Promoters, PromoterStep(p)
    PROVE  PromotersRead' /\ ChampionRead'
<1> USE DEF PromoterAt, PromoterGoto
<1>0. /\ TypeOK /\ promoter[p] \in PromoterStates
      /\ \A q \in Promoters : promoter[q] \in PromoterStates
    BY DEF PromotionInv, TypeOK
<1> DEFINE Reads(q) ==
        promoter[q].pc \in {"candidate", "active", "write"} =>
           /\ promoter[q].run \in Runs
           /\ Recorded(promoter[q].run)
           /\ run[promoter[q].run].recommended
           Compared(q) ==
        promoter[q].pc = "write" /\ ~ promoter[q].raced =>
           \/ deployment = Null
           \/ deployment.champion = run[promoter[q].run].champion
<1>1. \A q \in Promoters : Reads(q) /\ Compared(q)
    BY DEF PromotionInv, PromotersRead, ChampionRead
<1>2. CASE \E r \in Runs : ReadRun(p, r)
    <2>1. PICK r \in Runs : ReadRun(p, r)
        BY <1>2
    <2>2. Recorded(r) /\ run[r].recommended
        BY <2>1 DEF ReadRun, Promotable, PromotionInv, RunsRecorded
    <2>3. /\ promoter'[p].pc = "candidate" /\ promoter'[p].run = r
          /\ \A q \in Promoters \ {p} : promoter'[q] = promoter[q]
          /\ UNCHANGED <<run, evaluator, outcomes, deployment>>
        BY <1>0, <2>1 DEF ReadRun, NewPromoter, TypeOK
    <2>4. \A s \in Runs : Recorded(s) => Recorded(s)'
        BY PromoterKeepsRecords
    <2>5. \A q \in Promoters : Reads(q)' /\ Compared(q)'
        BY <1>1, <2>2, <2>3, <2>4
    <2> QED BY <2>5 DEF PromotersRead, ChampionRead
<1>3. CASE ReadCandidate(p) \/ ReadActive(p)
    <2>1. /\ \A q \in Promoters \ {p} : promoter'[q] = promoter[q]
          /\ UNCHANGED <<run, evaluator, outcomes, deployment>>
        BY <1>0, <1>3 DEF ReadCandidate, ReadActive, Refuse, TypeOK
    <2>2. \/ promoter'[p].pc = "new"
          \/ promoter'[p].pc = "active" /\ promoter[p].pc = "candidate"
                /\ promoter'[p].run = promoter[p].run
          \/ promoter'[p].pc = "write" /\ promoter[p].pc = "active"
                /\ promoter'[p].run = promoter[p].run /\ ~ Stale(promoter[p].run)
        <3>1. CASE ReadCandidate(p)
            BY <1>0, <3>1 DEF ReadCandidate, Refuse, NewPromoter, TypeOK, PromoterStates
        <3>2. CASE ReadActive(p)
            BY <1>0, <3>2 DEF ReadActive, Refuse, NewPromoter, TypeOK, PromoterStates
        <3> QED BY <1>3, <3>1, <3>2
    <2>3. \A s \in Runs : Recorded(s) => Recorded(s)'
        BY PromoterKeepsRecords
    <2>4. ASSUME NEW q \in Promoters PROVE Reads(q)' /\ Compared(q)'
        <3>1. CASE q # p
            BY <1>1, <2>1, <2>3, <3>1
        <3>2. CASE q = p
            BY <1>1, <2>1, <2>2, <2>3, <3>2 DEF Stale
        <3> QED BY <3>1, <3>2
    <2> QED BY <2>4 DEF PromotersRead, ChampionRead
<1>4. CASE WritePromotion(p)
    <2>1. promoter'[p].pc = "new"
        BY <1>0, <1>4 DEF WritePromotion, Deploy, NewPromoter
    <2>2. ASSUME NEW q \in Promoters \ {p}
          PROVE  /\ promoter'[q].pc = promoter[q].pc
                 /\ promoter'[q].run = promoter[q].run
                 /\ promoter[q].pc = "write" => promoter'[q].raced
        <3>1. promoter'[q] = [promoter[q] EXCEPT !.raced = (promoter[q].pc = "write")]
            BY <1>4, Zenon DEF WritePromotion, Deploy
        <3>2. \A x \in PromoterStates, b \in BOOLEAN :
                 LET y == [x EXCEPT !.raced = b] IN
                 y.pc = x.pc /\ y.run = x.run /\ y.raced = b
            BY DEF PromoterStates
        <3>3. (promoter[q].pc = "write") \in BOOLEAN
            BY Zenon
        <3> QED BY <1>0, <3>1, <3>2, <3>3, Zenon
    <2>3. ASSUME NEW q \in Promoters PROVE Reads(q)' /\ Compared(q)'
        <3>1. CASE q = p
            BY <2>1, <3>1
        <3>2. CASE q # p
            BY <1>1, <2>2, <3>2, PromoterKeepsRecords
        <3> QED BY <3>1, <3>2
    <2> QED BY <2>3 DEF PromotersRead, ChampionRead
<1> QED BY <1>2, <1>3, <1>4 DEF PromoterStep

LEMMA PromoterKeeps ==
    ASSUME PromotionInv, NEW p \in Promoters, PromoterStep(p)
    PROVE  PromotionInv'
<1> USE DEF PromoterAt
<1>0. TypeOK BY DEF PromotionInv
<1>1. UNCHANGED <<evaluator, outcomes, engine>>
    BY DEF PromoterStep, ReadRun, ReadCandidate, ReadActive, WritePromotion, Deploy
<1>2. EvaluatorsSave'
    BY <1>1 DEF PromotionInv, EvaluatorsSave, Own, Saved, Full
<1>3. RunsRecorded'
    <2> SUFFICES ASSUME NEW s \in Runs, run'[s] # Null PROVE Recorded(s)'
        BY DEF RunsRecorded
    <2>1. Recorded(s)
        <3>1. CASE run[s] # Null
            BY <3>1 DEF PromotionInv, RunsRecorded
        <3>2. CASE run[s] = Null
            <4>1. WritePromotion(p) /\ s = promoter[p].run
                BY <1>0, <3>2 DEF PromoterStep, ReadRun, ReadCandidate, ReadActive,
                                  WritePromotion, TypeOK
            <4> QED BY <4>1 DEF PromotionInv, PromotersRead, WritePromotion, Deploy
        <3> QED BY <3>1, <3>2
    <2> QED BY <2>1, PromoterKeepsRecords
<1>4. DeploymentRests' /\ DeploymentSeen' /\ RoutedToChampion'
    <2>1. CASE WritePromotion(p)
        <3> DEFINE r == promoter[p].run
        <3>1. r \in Runs /\ Recorded(r) /\ run[r] \in RunRows /\ run[r].recommended
            BY <2>1 DEF PromotionInv, PromotersRead, WritePromotion, Deploy, Recorded
        <3>2. deployment' = [champion |-> run[r].challenger, source |-> r]
            BY <2>1 DEF WritePromotion, Deploy
        <3>3. /\ deployment' \in Deployments
              /\ deployment'.source = r /\ deployment'.champion = run[r].challenger
            BY <3>1, <3>2 DEF Deployments, RunRows
        <3>4. run'[r].status = "promoted"
            BY <1>0, <2>1, <3>1 DEF WritePromotion, TypeOK, RunRows
        <3>5. DeploymentRests'
            BY <3>1, <3>3, <3>4, PromoterKeepsRecords DEF DeploymentRests
        <3>6. /\ engine.pc = "listed" => seen' = seen \cup {deployment'}
              /\ engine.pc # "listed" => seen' = seen
            BY <2>1 DEF WritePromotion, Deploy
        <3>7. DeploymentSeen'
            BY <1>1, <3>6 DEF DeploymentSeen
        <3>8. RoutedToChampion'
            BY <1>1, <3>6 DEF PromotionInv, RoutedToChampion
        <3> QED BY <3>5, <3>7, <3>8
    <2>2. CASE ~ WritePromotion(p)
        <3>1. UNCHANGED <<run, deployment, seen>>
            BY <2>2 DEF PromoterStep, ReadRun, ReadCandidate, ReadActive
        <3>2. DeploymentRests'
            <4>1. deployment # Null => deployment.source \in Runs
                BY DEF PromotionInv, DeploymentRests, Deployments
            <4> QED BY <3>1, <4>1, PromoterKeepsRecords DEF PromotionInv, DeploymentRests
        <3> QED BY <1>1, <3>1, <3>2 DEF PromotionInv, DeploymentSeen, RoutedToChampion
    <2> QED BY <2>1, <2>2
<1> QED BY <1>2, <1>3, <1>4, PromoterTypes, PromoterReads DEF PromotionInv

\* Profiles and the engine.
LEMMA OtherKeeps ==
    ASSUME PromotionInv,
           \/ \E a \in Reconfigured, m \in Models : SaveAgent(a, m)
           \/ ListAgents \/ Assign \/ Block
    PROVE  PromotionInv'
<1>0. TypeOK /\ engine \in EngineStates
    BY DEF PromotionInv, TypeOK
<1>1. UNCHANGED <<evaluator, outcomes, run, deployment, promoter>>
    BY DEF SaveAgent, ListAgents, Assign, Block
<1>2. /\ EvaluatorsSave' /\ RunsRecorded' /\ PromotersRead' /\ ChampionRead'
      /\ DeploymentRests'
    <2>1. EvaluatorsSave'
        BY <1>1 DEF PromotionInv, EvaluatorsSave, Own, Saved, Full
    <2>2. \A r : Recorded(r) => Recorded(r)'
        BY <1>1 DEF Recorded, Full, Own
    <2>3. RunsRecorded' /\ PromotersRead' /\ ChampionRead' /\ DeploymentRests'
        BY <1>1, <2>2 DEF PromotionInv, RunsRecorded, PromotersRead, ChampionRead,
                          DeploymentRests
    <2> QED BY <2>1, <2>3
<1>3. DeploymentSeen' /\ RoutedToChampion'
    <2>1. CASE \E a \in Reconfigured, m \in Models : SaveAgent(a, m)
        BY <1>1, <2>1 DEF SaveAgent, PromotionInv, DeploymentSeen, RoutedToChampion
    <2>2. CASE ListAgents
        <3>1. engine'.pc = "listed" /\ seen' = {deployment}
            BY <2>2 DEF ListAgents, NewEngine
        <3> QED BY <1>1, <3>1 DEF DeploymentSeen, RoutedToChampion
    <2>3. CASE Assign
        <3>1. PICK a \in Selectable(deployment) :
                 engine' = [engine EXCEPT !.pc = "assigned", !.agent = a]
            BY <2>3 DEF Assign
        <3>2. /\ engine'.pc = "assigned" /\ engine'.agent = a
              /\ engine'.listed = engine.listed
            BY <1>0, <3>1 DEF EngineStates
        <3>3. deployment \in seen /\ seen' = seen
            BY <2>3 DEF Assign, PromotionInv, DeploymentSeen
        <3>4. deployment # Null =>
                 deployment.champion = [agent |-> a, model |-> engine.listed[a]]
            BY <3>1 DEF Selectable
        <3>5. RoutedToChampion'
            BY <3>2, <3>3, <3>4 DEF RoutedToChampion
        <3> QED BY <3>2, <3>5 DEF DeploymentSeen
    <2>4. CASE Block
        <3>1. engine'.pc = "idle"
            BY <2>4 DEF Block, NewEngine
        <3> QED BY <3>1 DEF DeploymentSeen, RoutedToChampion
    <2> QED BY <2>1, <2>2, <2>3, <2>4
<1> QED BY <1>2, <1>3, OtherTypes DEF PromotionInv

LEMMA PromotionStart == Init => PromotionInv
<1> SUFFICES ASSUME Init PROVE PromotionInv
    OBVIOUS
<1>1. TypeOK BY InitTypes
<1>2. EvaluatorsSave
    BY DEF Init, NewEvaluator, EvaluatorsSave
<1>3. PromotersRead /\ ChampionRead
    BY DEF Init, NewPromoter, PromotersRead, ChampionRead
<1>4. RunsRecorded /\ DeploymentRests /\ DeploymentSeen /\ RoutedToChampion
    BY DEF Init, NewEngine, RunsRecorded, DeploymentRests, DeploymentSeen,
           RoutedToChampion
<1> QED BY <1>1, <1>2, <1>3, <1>4 DEF PromotionInv

LEMMA PromotionStep == PromotionInv /\ [Next]_vars => PromotionInv'
<1> SUFFICES ASSUME PromotionInv, [Next]_vars PROVE PromotionInv'
    OBVIOUS
<1>1. CASE \E r \in Runs : EvaluatorStep(r)
    BY <1>1, EvaluatorKeeps
<1>2. CASE \E p \in Promoters : PromoterStep(p)
    BY <1>2, PromoterKeeps
<1>3. CASE \/ \E a \in Reconfigured, m \in Models : SaveAgent(a, m)
           \/ ListAgents \/ Assign \/ Block
    BY <1>3, OtherKeeps
<1>4. CASE UNCHANGED vars
    <2>1. TypeOK'
        BY <1>4 DEF vars, PromotionInv, TypeOK
    <2>2. EvaluatorsSave'
        BY <1>4 DEF vars, PromotionInv, EvaluatorsSave, Own, Saved, Full
    <2>3. \A r : Recorded(r) => Recorded(r)'
        BY <1>4 DEF vars, Recorded, Full, Own
    <2>4. RunsRecorded' /\ PromotersRead' /\ ChampionRead' /\ DeploymentRests'
        BY <1>4, <2>3 DEF vars, PromotionInv, RunsRecorded, PromotersRead,
                          ChampionRead, DeploymentRests
    <2>5. DeploymentSeen' /\ RoutedToChampion'
        BY <1>4 DEF vars, PromotionInv, DeploymentSeen, RoutedToChampion
    <2> QED BY <2>1, <2>2, <2>4, <2>5 DEF PromotionInv
<1> QED BY <1>1, <1>2, <1>3, <1>4 DEF Next

THEOREM PromotionInvariant == Spec => []PromotionInv
<1>1. Init => PromotionInv BY PromotionStart
<1>2. PromotionInv /\ [Next]_vars => PromotionInv' BY PromotionStep
<1> QED BY <1>1, <1>2, PTL DEF Spec

-----------------------------------------------------------------------------
(* The properties.                                                         *)

\* The stored outcomes of a full run are the observed ones, one of each.
LEMMA FullIsStored ==
    ASSUME NEW r \in Runs, NEW spec \in SpecsOf[r], Full(r, spec)
    PROVE  spec \in StoredSpecs(r)
<1>1. ASSUME NEW c \in CaseSet, NEW role \in Roles
      PROVE  Evidence(r, c, role) = {spec[c][role]}
    <2> DEFINE o == OutcomeFrom(r, spec, c, role)
    <2>1. o \in outcomes
        BY CasesFinite DEF Full
    <2>2. /\ o.run = r /\ o.case = c /\ o.candidate = IdentityOf(r, role)
          /\ o.result = spec[c][role]
        BY DEF OutcomeFrom
    <2>3. ASSUME NEW x \in outcomes, x.run = r, x.case = c,
                 x.candidate = IdentityOf(r, role)
          PROVE  x.result = spec[c][role]
        <3>1. PICK d \in CaseSet, q \in Roles : x = OutcomeFrom(r, spec, d, q)
            BY <2>3 DEF Full, Own
        <3>2. /\ d = c /\ IdentityOf(r, q) = IdentityOf(r, role)
              /\ x.result = spec[d][q]
            BY <2>3, <3>1 DEF OutcomeFrom
        <3>3. q = role
            BY <3>2, ConstantTypes DEF IdentityOf, Roles
        <3> QED BY <3>2, <3>3
    <2> HIDE DEF o
    <2> QED BY <2>1, <2>2, <2>3 DEF Evidence
<1> QED BY <1>1 DEF StoredSpecs

\* Promotion!TypeOK: the rows and the commands always have their types.
THEOREM TypeCorrect == Spec => []TypeOK
<1>1. PromotionInv => TypeOK BY DEF PromotionInv
<1> QED BY <1>1, PromotionInvariant, PTL

\* Whatever evaluations end early, are run again or overlap with promotions, a
\* deployment rests on one promoted run, whose stored outcomes are complete and
\* meet every gate (evaluation.py:154, storage.py:2310).
THEOREM DeploymentsAreJustified == Spec => []DeploymentJustified
<1>1. PromotionInv => DeploymentJustified
    <2> SUFFICES ASSUME PromotionInv, deployment # Null PROVE DeploymentJustified
        BY DEF DeploymentJustified
    <2> DEFINE r == deployment.source
    <2>1. /\ r \in Runs /\ Recorded(r) /\ run[r].recommended
          /\ run[r].status = "promoted" /\ run[r].challenger = deployment.champion
        BY DEF PromotionInv, DeploymentRests, Deployments
    <2>2. PICK spec \in SpecsOf[r] : Full(r, spec) /\ FailedGates(spec) = {}
        BY <2>1 DEF Recorded
    <2>3. spec \in StoredSpecs(r) /\ Better(spec)
        BY <2>1, <2>2, FullIsStored, NoFailedGateIsBetter, ConstantTypes
    <2> QED BY <2>1, <2>3 DEF DeploymentJustified
<1> QED BY <1>1, PromotionInvariant, PTL

\* A promotion that no other promotion overtakes replaces the champion its
\* challenger was measured against (storage.py:2324).
THEOREM ChampionsAreChained == Spec => ChampionsChain
<1>1. PromotionInv =>
        [\A p \in Promoters :
          /\ deployment # Null
          /\ WritePromotion(p)
          /\ ~ promoter[p].raced
          => deployment.champion = run[promoter[p].run].champion]_vars
    BY DEF PromotionInv, ChampionRead, WritePromotion, Deploy, PromoterAt
<1> QED BY <1>1, PromotionInvariant, PTL DEF ChampionsChain

\* An assigned task went to a champion that was deployed while the engine chose
\* (engine.py:215).
THEOREM TasksAreRouted == Spec => []RoutedToChampion
<1>1. PromotionInv => RoutedToChampion BY DEF PromotionInv
<1> QED BY <1>1, PromotionInvariant, PTL

-----------------------------------------------------------------------------
(* Seeds.                                                                  *)

Lessons == {LessonOf[e] : e \in Experiences}
Strengths == {Faded, Ordinary, Strong}
ExperiencePayload == [strength : Strengths, stamp : Nat]
ItemPayload == [lesson : Lessons]
SeedPayload == ExperiencePayload \cup ItemPayload

\* A seed had a payload once.
Learned(s, known) == \E x \in known : x[1] = s

\* A lesson was learned in as many goals as the policy asks for.
Enough(lesson, known) ==
    Cardinality({GoalOf[e] : e \in {x \in Experiences : /\ LessonOf[x] = lesson
                                                        /\ Learned(x, known)}})
       >= MinimumGoals

\* A payload the seed may have: an item's lesson was learned often enough.
Sound(s, payload, known) ==
    /\ s \in Experiences => payload \in ExperiencePayload
    /\ s \in Knowledge => payload \in ItemPayload /\ Enough(payload.lesson, known)

SoundOrAbsent(s, payload, known) == payload = Absent \/ Sound(s, payload, known)

SeedSave == [seed : Seeds, payload : SeedPayload, overwrite : BOOLEAN]
Revision == [seed : Seeds, action : {"create", "update", "rollback"},
             before : SeedPayload \cup {Absent}, after : SeedPayload \cup {Absent}]
SeedSteps == {"new", "save", "write", "refresh", "gather", "screen", "decay",
              "install", "record", "ended"}
SeedProcess == [at : SeedSteps, queue : Seq(SeedSave),
                next : {"end", "refresh", "gather", "decay"},
                goal : Goals \cup {Absent}, now : Nat, lessons : SUBSET Lessons,
                undo : Nat, copy : SeedPayload \cup {Absent}, raced : BOOLEAN]

Sides(revision) == {revision.before, revision.after}

\* The saves that are still to be made are of payloads their seeds may have.
SavesSound(queue, known) ==
    \A i \in DOMAIN queue : Sound(queue[i].seed, queue[i].payload, known)

\* A record of the goal is stored, or about to be.
Covers(queue, goal, known) ==
    \A e \in OfGoal(goal) :
       Learned(e, known) \/ \E i \in DOMAIN queue : queue[i].seed = e

\* What is true of a process, whatever the others do.
SeedFits(q, rows, history, known) ==
    /\ q \in SeedProcess
    /\ q.at \in {"save", "write"} => q.queue # <<>>
    /\ SavesSound(q.queue, known)
    /\ q.at = "write" =>
          /\ SoundOrAbsent(Head(q.queue).seed, q.copy, known)
          /\ ~ q.raced => q.copy = rows[Head(q.queue).seed]
    /\ q.at \in {"install", "record"} => q.undo \in DOMAIN history
    /\ q.at = "install" => /\ Reversible(history[q.undo])
                           /\ q.copy \in Sides(history[q.undo])
    /\ q.at \in {"save", "write"} /\ q.next = "gather" =>
          Covers(q.queue, q.goal, known)
    /\ q.at = "gather" => Covers(<<>>, q.goal, known)
    /\ q.at = "screen" => \A lesson \in q.lessons : Enough(lesson, known)

SeedTypes ==
    /\ live \in [Seeds -> SeedPayload \cup {Absent}]
    /\ revisions \in Seq(Revision)
    /\ day \in Nat
    /\ ever \in SUBSET (Seeds \X SeedPayload)
    /\ proc = [p \in Processes |-> proc[p]]

\* A payload is a side of a revision that can be rolled back.
RecordedIn(history, s, payload) ==
    \E i \in DOMAIN history : /\ history[i].seed = s /\ Reversible(history[i])
                              /\ payload \in Sides(history[i])

EverRecorded == \A x \in ever : RecordedIn(revisions, x[1], x[2])

LiveSound ==
    \A s \in Seeds : /\ SoundOrAbsent(s, live[s], ever)
                     /\ live[s] # Absent => Learned(s, ever)

RevisionsSound(history, known) ==
    \A i \in DOMAIN history : \A payload \in Sides(history[i]) :
       SoundOrAbsent(history[i].seed, payload, known)

SeedInv ==
    /\ SeedTypes /\ EverRecorded /\ LiveSound /\ RevisionsSound(revisions, ever)
    /\ \A p \in Processes : SeedFits(proc[p], live, revisions, ever)

-----------------------------------------------------------------------------
(* Finite sets and sequences.                                              *)

LEMMA ImageFinite ==
    ASSUME NEW S, IsFiniteSet(S), NEW f
    PROVE  IsFiniteSet({f[x] : x \in S})
<1> DEFINE T == {f[x] : x \in S}
           g == [x \in S |-> f[x]]
<1>1. g \in [S -> T] /\ \A y \in T : \E x \in S : g[x] = y
  OBVIOUS
<1>2. g \in Surjection(S, T)
  BY <1>1 DEF Surjection
<1> QED BY <1>2, FS_Surjection

\* A finite set as a sequence.
LEMMA SetToSeqFacts ==
    ASSUME NEW S, IsFiniteSet(S)
    PROVE  /\ Cardinality(S) \in Nat
           /\ SetToSeq(S) \in [1 .. Cardinality(S) -> S]
           /\ \A x \in S : \E i \in 1 .. Cardinality(S) : SetToSeq(S)[i] = x
<1> DEFINE n == Cardinality(S)
           f == SetToSeq(S)
<1>1. n \in Nat /\ ExistsBijection(1 .. n, S)
  BY FS_CardinalityType
<1>2. \E g \in [1 .. n -> S] : IsInjective(g)
  BY <1>1 DEF ExistsBijection, Bijection, Injection
<1>3. f \in [1 .. n -> S] /\ IsInjective(f)
  BY <1>2 DEF SetToSeq
<1>4. f \in Injection(1 .. n, S)
  BY <1>3 DEF Injection
<1>5. IsFiniteSet(1 .. n) /\ Cardinality(1 .. n) = n
  BY <1>1, FS_Interval
<1>6. f \in Surjection(1 .. n, S)
  BY <1>4, <1>5, FS_Injection
<1> QED BY <1>1, <1>3, <1>6 DEF Surjection

LEMMA TailFacts ==
    ASSUME NEW S, NEW s \in Seq(S), s # <<>>
    PROVE  /\ Head(s) \in S /\ Head(s) = s[1] /\ 1 \in DOMAIN s
           /\ Tail(s) \in Seq(S) /\ Tail(s) # s
           /\ \A i \in DOMAIN Tail(s) : i + 1 \in DOMAIN s /\ Tail(s)[i] = s[i + 1]
           /\ \A i \in DOMAIN s :
                 i = 1 \/ (i - 1 \in DOMAIN Tail(s) /\ Tail(s)[i - 1] = s[i])
<1>1. Len(s) \in Nat /\ Len(s) > 0 /\ DOMAIN s = 1 .. Len(s)
  OBVIOUS
<1>2. Tail(s) \in Seq(S) /\ Len(Tail(s)) = Len(s) - 1
  OBVIOUS
<1>3. \A i \in 1 .. Len(s) - 1 : Tail(s)[i] = s[i + 1]
  OBVIOUS
<1>4. DOMAIN Tail(s) = 1 .. Len(s) - 1
  BY <1>1, <1>2
<1>5. Tail(s) # s
  <2> SUFFICES ASSUME Tail(s) = s PROVE FALSE
    OBVIOUS
  <2>1. Len(s) = Len(s) - 1
    BY <1>2
  <2> QED BY <1>1, <2>1
<1>6. Head(s) \in S /\ Head(s) = s[1] /\ 1 \in DOMAIN s
  BY <1>1
<1>7. \A i \in DOMAIN Tail(s) : i + 1 \in DOMAIN s /\ Tail(s)[i] = s[i + 1]
  BY <1>1, <1>3, <1>4
<1>8. ASSUME NEW i \in DOMAIN s, i # 1
      PROVE  i - 1 \in DOMAIN Tail(s) /\ Tail(s)[i - 1] = s[i]
  <2>1. i \in Nat /\ i - 1 \in 1 .. Len(s) - 1 /\ (i - 1) + 1 = i
    BY <1>1, <1>8
  <2> QED BY <1>3, <1>4, <2>1
<1> QED BY <1>2, <1>5, <1>6, <1>7, <1>8

\* Appending to the history keeps what is in it.
LEMMA SeedAppended ==
    ASSUME NEW S, NEW s \in Seq(S), NEW x \in S
    PROVE  /\ Append(s, x) \in Seq(S) /\ Append(s, x) # s
           /\ Len(Append(s, x)) = Len(s) + 1
           /\ DOMAIN Append(s, x) = DOMAIN s \cup {Len(s) + 1}
           /\ Append(s, x)[Len(s) + 1] = x
           /\ \A n \in DOMAIN s : Append(s, x)[n] = s[n]
<1>1. Len(s) \in Nat /\ DOMAIN s = 1 .. Len(s)
  OBVIOUS
<1>2. Append(s, x) \in Seq(S) /\ Len(Append(s, x)) = Len(s) + 1
  OBVIOUS
<1>3. Append(s, x) # s
  <2> SUFFICES ASSUME Append(s, x) = s PROVE FALSE
    OBVIOUS
  <2>1. Len(s) = Len(s) + 1
    BY <1>2
  <2> QED BY <1>1, <2>1
<1>4. DOMAIN Append(s, x) = DOMAIN s \cup {Len(s) + 1}
  BY <1>1, <1>2
<1>5. Append(s, x)[Len(s) + 1] = x
  OBVIOUS
<1>6. \A n \in DOMAIN s : Append(s, x)[n] = s[n]
  BY <1>1
<1> QED BY <1>2, <1>3, <1>4, <1>5, <1>6

-----------------------------------------------------------------------------
(* What grows with what is known.                                          *)

LEMMA EnoughStays ==
    ASSUME NEW known, NEW more, known \subseteq more, NEW lesson, Enough(lesson, known)
    PROVE  Enough(lesson, more)
<1> DEFINE T(k) == {x \in Experiences : LessonOf[x] = lesson /\ Learned(x, k)}
           G(k) == {GoalOf[e] : e \in T(k)}
<1>1. T(known) \subseteq T(more) /\ T(more) \in SUBSET Experiences
  BY DEF Learned
<1>2. IsFiniteSet(T(more)) /\ IsFiniteSet(T(known))
  BY <1>1, SeedAssumption, FS_Subset
<1>3. IsFiniteSet(G(more)) /\ G(known) \in SUBSET G(more)
  BY <1>1, <1>2, ImageFinite
<1>4. /\ Cardinality(G(known)) <= Cardinality(G(more))
      /\ Cardinality(G(known)) \in Nat /\ Cardinality(G(more)) \in Nat
  BY <1>3, FS_Subset, FS_CardinalityType
<1>5. Cardinality(G(known)) >= MinimumGoals
  BY DEF Enough
<1>6. Cardinality(G(more)) >= MinimumGoals
  <2> HIDE DEF G
  <2> QED BY <1>4, <1>5, SeedAssumption
<1> QED BY <1>6 DEF Enough

LEMMA SoundStays ==
    ASSUME NEW known, NEW more, known \subseteq more, NEW s, NEW payload
    PROVE  /\ Sound(s, payload, known) => Sound(s, payload, more)
           /\ SoundOrAbsent(s, payload, known) => SoundOrAbsent(s, payload, more)
BY EnoughStays DEF Sound, SoundOrAbsent

LEMMA CoversStays ==
    ASSUME NEW known, NEW more, known \subseteq more, NEW queue, NEW goal
    PROVE  /\ SavesSound(queue, known) => SavesSound(queue, more)
           /\ Covers(queue, goal, known) => Covers(queue, goal, more)
BY SoundStays DEF SavesSound, Covers, Learned

\* The history grows at its end.
Prolongs(history, longer) ==
    \A i \in DOMAIN history : i \in DOMAIN longer /\ longer[i] = history[i]

\* A process that does nothing itself, while a row may change: it has noticed.
LEMMA FitsStay ==
    ASSUME NEW q, NEW rows, NEW history, NEW known, SeedFits(q, rows, history, known),
           NEW rows2, NEW longer, NEW more, Prolongs(history, longer),
           known \subseteq more,
           q.at = "write" /\ ~ q.raced =>
              rows2[Head(q.queue).seed] = rows[Head(q.queue).seed]
    PROVE  SeedFits(q, rows2, longer, more)
BY SoundStays, CoversStays, EnoughStays DEF SeedFits, Prolongs

LEMMA FitsNoticed ==
    ASSUME NEW q, NEW rows \in [Seeds -> SeedPayload \cup {Absent}],
           NEW history, NEW known, SeedFits(q, rows, history, known),
           NEW s \in Seeds, NEW payload, NEW longer, NEW more,
           Prolongs(history, longer), known \subseteq more
    PROVE  SeedFits([q EXCEPT !.raced = @ \/ (q.at = "write" /\ Head(q.queue).seed = s)],
                    [rows EXCEPT ![s] = payload], longer, more)
<1> DEFINE r == [q EXCEPT !.raced = @ \/ (q.at = "write" /\ Head(q.queue).seed = s)]
           rows2 == [rows EXCEPT ![s] = payload]
<1>1. q \in SeedProcess
  BY DEF SeedFits
<1>2. (q.raced \/ (q.at = "write" /\ Head(q.queue).seed = s)) \in BOOLEAN
  BY <1>1 DEF SeedProcess
<1>3. /\ r \in SeedProcess
      /\ r.at = q.at /\ r.queue = q.queue /\ r.next = q.next /\ r.goal = q.goal
      /\ r.lessons = q.lessons /\ r.undo = q.undo /\ r.copy = q.copy
      /\ r.raced = (q.raced \/ (q.at = "write" /\ Head(q.queue).seed = s))
  BY <1>1, <1>2 DEF SeedProcess
<1>4. q.at = "write" => Head(q.queue).seed \in Seeds
  <2>1. q.at = "write" => q.queue # <<>>
    BY DEF SeedFits
  <2>2. q.queue \in Seq(SeedSave)
    BY <1>1 DEF SeedProcess
  <2>3. q.queue # <<>> => Head(q.queue) \in SeedSave
    BY <2>2, TailFacts
  <2> QED BY <2>1, <2>3 DEF SeedSave
<1> HIDE DEF r
<1>5. r.at = "write" /\ ~ r.raced => rows2[Head(r.queue).seed] = rows[Head(r.queue).seed]
  BY <1>3, <1>4
<1>6. SeedFits(r, rows, history, known)
  BY <1>3 DEF SeedFits
<1>7. SeedFits(r, rows2, longer, more)
  BY <1>5, <1>6, FitsStay
<1> QED BY <1>7 DEF r

-----------------------------------------------------------------------------
(* The saves of a command.                                                 *)

LEMMA SeedNotAbsent ==
    ASSUME NEW payload \in SeedPayload
    PROVE  payload # Absent
BY SeedAssumption
   DEF SeedPayload, ExperiencePayload, ItemPayload, Lessons, Strengths, Faded,
       Ordinary, Strong

LEMMA NewTypes == New \in SeedProcess /\ Ended \in SeedProcess
<1>1. <<>> \in Seq(SeedSave)
  OBVIOUS
<1> QED BY <1>1 DEF New, Ended, SeedProcess, SeedSteps

\* A command saves a payload for each of its seeds, and nothing else.
LEMMA SavesFacts ==
    ASSUME NEW payload, IsFiniteSet(DOMAIN payload), NEW overwrite \in BOOLEAN,
           NEW known,
           \A s \in DOMAIN payload : /\ s \in Seeds /\ payload[s] \in SeedPayload
                                     /\ Sound(s, payload[s], known)
    PROVE  /\ Saves(payload, overwrite) \in Seq(SeedSave)
           /\ SavesSound(Saves(payload, overwrite), known)
           /\ \A s \in DOMAIN payload : \E i \in DOMAIN Saves(payload, overwrite) :
                 Saves(payload, overwrite)[i].seed = s
<1> DEFINE order == SetToSeq(DOMAIN payload)
           n == Cardinality(DOMAIN payload)
           saves == Saves(payload, overwrite)
<1>1. /\ n \in Nat /\ order \in [1 .. n -> DOMAIN payload]
      /\ \A s \in DOMAIN payload : \E i \in 1 .. n : order[i] = s
  BY SetToSeqFacts
<1>2. saves = [i \in 1 .. n |-> [seed |-> order[i], payload |-> payload[order[i]],
                                 overwrite |-> overwrite]]
  BY <1>1 DEF Saves
<1> HIDE DEF order, n, saves
<1>3. \A i \in 1 .. n : order[i] \in DOMAIN payload
  BY <1>1
<1>4. \A i \in 1 .. n : saves[i] = [seed |-> order[i], payload |-> payload[order[i]],
                                    overwrite |-> overwrite]
  BY <1>2
<1>5. ASSUME NEW i \in 1 .. n PROVE saves[i] \in SeedSave
  <2>1. order[i] \in Seeds /\ payload[order[i]] \in SeedPayload
    BY <1>3
  <2>2. saves[i] = [seed |-> order[i], payload |-> payload[order[i]],
                    overwrite |-> overwrite]
    BY <1>4
  <2>3. [seed |-> order[i], payload |-> payload[order[i]], overwrite |-> overwrite]
           \in SeedSave
    BY <2>1 DEF SeedSave
  <2> QED BY <2>2, <2>3
<1>6. DOMAIN saves = 1 .. n /\ saves \in [1 .. n -> SeedSave]
  BY <1>2, <1>5
<1>7. saves \in Seq(SeedSave)
  BY <1>1, <1>6
<1>8. SavesSound(saves, known)
  BY <1>3, <1>4, <1>6 DEF SavesSound
<1>9. \A s \in DOMAIN payload : \E i \in DOMAIN saves : saves[i].seed = s
  BY <1>1, <1>4, <1>6
<1> QED BY <1>7, <1>8, <1>9 DEF saves

\* A process goes on to its next save, or to the step after the saves.
LEMMA ContinueFits ==
    ASSUME NEW q \in SeedProcess, NEW rows, NEW history, NEW known,
           SavesSound(q.queue, known),
           q.next = "gather" => Covers(q.queue, q.goal, known)
    PROVE  SeedFits(Continue(q), rows, history, known)
<1>1. CASE q.queue # <<>>
  <2> DEFINE r == [q EXCEPT !.at = "save"]
  <2>1. Continue(q) = r
    BY <1>1 DEF Continue
  <2>2. /\ r \in SeedProcess /\ r.at = "save" /\ r.queue = q.queue
        /\ r.next = q.next /\ r.goal = q.goal
    BY DEF SeedProcess, SeedSteps
  <2> HIDE DEF r
  <2> QED BY <1>1, <2>1, <2>2 DEF SeedFits
<1>2. CASE q.queue = <<>> /\ q.next = "end"
  <2>1. Continue(q) = Ended
    BY <1>2 DEF Continue
  <2>2. Ended.at = "ended" /\ Ended.queue = <<>>
    BY DEF Ended, New
  <2> QED BY <2>1, <2>2, NewTypes DEF SeedFits, SavesSound
<1>3. CASE q.queue = <<>> /\ q.next # "end"
  <2> DEFINE r == [q EXCEPT !.at = q.next]
  <2>1. Continue(q) = r
    BY <1>3 DEF Continue
  <2>2. q.next \in {"refresh", "gather", "decay"}
    BY <1>3 DEF SeedProcess
  <2>3. /\ r \in SeedProcess /\ r.at = q.next /\ r.queue = q.queue /\ r.goal = q.goal
    BY <2>2 DEF SeedProcess, SeedSteps
  <2> HIDE DEF r
  <2> QED BY <1>3, <2>1, <2>2, <2>3 DEF SeedFits
<1> QED BY <1>1, <1>2, <1>3

LEMMA SavingFits ==
    ASSUME NEW q \in SeedProcess, NEW queue \in Seq(SeedSave),
           NEW next \in {"end", "refresh", "gather", "decay"},
           NEW rows, NEW history, NEW known, SavesSound(queue, known),
           next = "gather" => Covers(queue, q.goal, known)
    PROVE  SeedFits(Saving(q, queue, next), rows, history, known)
<1> DEFINE r == [q EXCEPT !.queue = queue, !.next = next]
<1>1. r \in SeedProcess /\ r.queue = queue /\ r.next = next /\ r.goal = q.goal
  BY DEF SeedProcess
<1>2. Saving(q, queue, next) = Continue(r)
  BY DEF Saving
<1> HIDE DEF r
<1> QED BY <1>1, <1>2, ContinueFits

-----------------------------------------------------------------------------
(* Steps of one process, and steps that write a row.                       *)

LEMMA SeedLocal ==
    ASSUME SeedInv, NEW p \in Processes, NEW r, proc' = [proc EXCEPT ![p] = r],
           UNCHANGED <<live, revisions, day, ever>>,
           SeedFits(r, live, revisions, ever)
    PROVE  SeedInv'
<1>1. /\ proc' = [q \in Processes |-> proc'[q]] /\ proc'[p] = r
      /\ \A q \in Processes \ {p} : proc'[q] = proc[q]
  BY DEF SeedInv, SeedTypes
<1>2. /\ SeedTypes' /\ EverRecorded' /\ LiveSound' /\ RevisionsSound(revisions, ever)'
  BY <1>1 DEF SeedInv, SeedTypes, EverRecorded, LiveSound
<1>3. \A q \in Processes : SeedFits(proc'[q], live', revisions', ever')
  BY <1>1 DEF SeedInv
<1> QED BY <1>2, <1>3 DEF SeedInv

LEMMA RecordedStays ==
    ASSUME NEW history, NEW longer, Prolongs(history, longer), NEW s, NEW payload,
           RecordedIn(history, s, payload)
    PROVE  RecordedIn(longer, s, payload)
BY DEF RecordedIn, Prolongs

LEMMA SeedRow ==
    ASSUME SeedInv, NEW p \in Processes, NEW s \in Seeds,
           NEW payload \in SeedPayload \cup {Absent}, NEW r,
           SetLive(p, s, payload, r), UNCHANGED day,
           revisions' \in Seq(Revision), Prolongs(revisions, revisions'),
           RevisionsSound(revisions', ever'), SeedFits(r, live', revisions', ever'),
           SoundOrAbsent(s, payload, ever),
           payload # Absent => RecordedIn(revisions', s, payload)
    PROVE  SeedInv'
<1>1. /\ live \in [Seeds -> SeedPayload \cup {Absent}]
      /\ live' = [live EXCEPT ![s] = payload]
      /\ ever' = IF payload = Absent THEN ever ELSE ever \cup {<<s, payload>>}
      /\ proc' = [q \in Processes |-> proc'[q]] /\ proc'[p] = r
  BY DEF SeedInv, SeedTypes, SetLive
<1>2. ever \subseteq ever' /\ ever' \in SUBSET (Seeds \X SeedPayload)
  BY <1>1 DEF SeedInv, SeedTypes
<1>3. SeedTypes'
  BY <1>1, <1>2 DEF SeedInv, SeedTypes
<1>4. EverRecorded'
  <2> SUFFICES ASSUME NEW x \in ever' PROVE RecordedIn(revisions', x[1], x[2])
    BY DEF EverRecorded, RecordedIn, Sides, Reversible
  <2>1. CASE x \in ever
    BY <2>1, RecordedStays DEF SeedInv, EverRecorded
  <2>2. CASE x \notin ever
    <3>1. payload # Absent /\ x = <<s, payload>>
      BY <1>1, <2>2
    <3> QED BY <3>1
  <2> QED BY <2>1, <2>2
<1>5. LiveSound'
  <2>1. ASSUME NEW t \in Seeds
        PROVE  /\ SoundOrAbsent(t, live'[t], ever')
               /\ live'[t] # Absent => Learned(t, ever')
    <3>1. CASE t = s
      <4>1. live'[t] = payload /\ SoundOrAbsent(t, payload, ever')
        BY <1>1, <1>2, <3>1, SoundStays
      <4>2. payload # Absent => <<s, payload>> \in ever' /\ <<s, payload>>[1] = s
        BY <1>1
      <4>3. payload # Absent => Learned(t, ever')
        BY <3>1, <4>2 DEF Learned
      <4> QED BY <4>1, <4>3
    <3>2. CASE t # s
      <4>1. live'[t] = live[t]
        BY <1>1, <3>2
      <4>2. /\ SoundOrAbsent(t, live[t], ever)
            /\ live[t] # Absent => Learned(t, ever)
        BY DEF SeedInv, LiveSound
      <4> QED BY <1>2, <4>1, <4>2, SoundStays DEF Learned
    <3> QED BY <3>1, <3>2
  <2> QED BY <2>1 DEF LiveSound
<1>6. ASSUME NEW q \in Processes
      PROVE  SeedFits(proc'[q], live', revisions', ever')
  <2>1. CASE q = p
    BY <1>1, <2>1
  <2>2. CASE q # p
    <3>1. proc'[q] = [proc[q] EXCEPT !.raced =
             @ \/ (proc[q].at = "write" /\ Head(proc[q].queue).seed = s)]
      BY <2>2 DEF SetLive, At
    <3>2. SeedFits(proc[q], live, revisions, ever)
      BY DEF SeedInv
    <3>3. SeedFits([proc[q] EXCEPT !.raced =
                       @ \/ (proc[q].at = "write" /\ Head(proc[q].queue).seed = s)],
                   [live EXCEPT ![s] = payload], revisions', ever')
      BY <1>1, <1>2, <3>2, FitsNoticed
    <3> QED BY <1>1, <3>1, <3>3
  <2> QED BY <2>1, <2>2
<1> QED BY <1>3, <1>4, <1>5, <1>6 DEF SeedInv

-----------------------------------------------------------------------------
(* The commands and their saves.                                           *)

LEMMA RecordSaves ==
    ASSUME NEW D \in SUBSET Experiences, NEW payload \in [D -> ExperiencePayload],
           NEW overwrite \in BOOLEAN, NEW known
    PROVE  /\ Saves(payload, overwrite) \in Seq(SeedSave)
           /\ SavesSound(Saves(payload, overwrite), known)
           /\ \A e \in D : \E i \in DOMAIN Saves(payload, overwrite) :
                 Saves(payload, overwrite)[i].seed = e
<1>1. IsFiniteSet(D) /\ DOMAIN payload = D
  BY SeedAssumption, FS_Subset
<1>2. \A e \in D : e \in Seeds /\ payload[e] \in SeedPayload
  BY DEF Seeds, SeedPayload
<1>3. \A e \in D : Sound(e, payload[e], known)
  BY SeedAssumption DEF Sound
<1> QED BY <1>1, <1>2, <1>3, SavesFacts

\* A stored record is an experience payload.
LEMMA StoredTypes ==
    ASSUME SeedInv, NEW e \in Stored
    PROVE  e \in Experiences /\ live[e] \in ExperiencePayload
<1>1. e \in Seeds /\ e \in Experiences /\ live[e] # Absent
  BY DEF Stored, Seeds
<1> QED BY <1>1 DEF SeedInv, LiveSound, SoundOrAbsent, Sound

LEMMA ProcessFits ==
    ASSUME SeedInv, NEW p \in Processes
    PROVE  /\ SeedFits(proc[p], live, revisions, ever)
           /\ proc[p] \in SeedProcess /\ day \in Nat
BY DEF SeedInv, SeedTypes, SeedFits

LEMMA DistillKeeps ==
    ASSUME SeedInv, NEW p \in Processes, NEW g \in Goals, Distill(p, g)
    PROVE  SeedInv'
<1> DEFINE fresh == [e \in OfGoal(g) |-> Distilled]
           queue == Saves(fresh, FALSE)
<1>1. Distilled \in ExperiencePayload
  BY ProcessFits DEF Distilled, ExperiencePayload, Strengths
<1>2. OfGoal(g) \in SUBSET Experiences /\ fresh \in [OfGoal(g) -> ExperiencePayload]
  BY <1>1 DEF OfGoal
<1> HIDE DEF fresh
<1>3. queue \in Seq(SeedSave) /\ SavesSound(queue, ever)
  BY <1>2, RecordSaves
<1>4. proc' = [proc EXCEPT ![p] = Saving(New, queue, "end")]
  BY DEF Distill, fresh
<1> HIDE DEF queue
<1>5. SeedFits(Saving(New, queue, "end"), live, revisions, ever)
  BY <1>3, NewTypes, SavingFits
<1> QED BY <1>4, <1>5, SeedLocal DEF Distill

LEMMA RetrieveKeeps ==
    ASSUME SeedInv, NEW p \in Processes, Retrieve(p)
    PROVE  SeedInv'
<1> DEFINE retrieved == {e \in Stored : live[e].strength > Faded}
           stronger == [e \in retrieved |-> Reactivated(live[e])]
           queue == Saves(stronger, TRUE)
<1>1. \A e \in retrieved : Reactivated(live[e]) \in ExperiencePayload
  BY ProcessFits DEF Reactivated, ExperiencePayload, Strengths
<1>2. /\ retrieved \in SUBSET Experiences
      /\ stronger \in [retrieved -> ExperiencePayload]
  BY <1>1 DEF Stored
<1>3. queue \in Seq(SeedSave) /\ SavesSound(queue, ever)
  <2> HIDE DEF stronger, retrieved
  <2> QED BY <1>2, RecordSaves
<1>4. proc' = [proc EXCEPT ![p] = Saving(New, queue, "end")]
  BY DEF Retrieve
<1> HIDE DEF queue
<1>5. SeedFits(Saving(New, queue, "end"), live, revisions, ever)
  BY <1>3, NewTypes, SavingFits
<1> QED BY <1>4, <1>5, SeedLocal DEF Retrieve

LEMMA ReplayedTypes ==
    ASSUME NEW e, NEW now \in Nat
    PROVE  Replayed(e, now) \in ExperiencePayload
BY DEF Replayed, ExperiencePayload, Strengths

LEMMA ConsolidateKeeps ==
    ASSUME SeedInv, NEW p \in Processes, NEW g \in Goals, NEW apply \in BOOLEAN,
           Consolidate(p, g, apply)
    PROVE  SeedInv'
<1> DEFINE D == OfGoal(g) \ Stored
           new == [e \in D |-> Replayed(e, day)]
           queue == Saves(new, FALSE)
           q == [New EXCEPT !.goal = g, !.now = day]
           next == IF apply THEN "refresh" ELSE "end"
<1>1. D \in SUBSET Experiences /\ new \in [D -> ExperiencePayload]
  BY ProcessFits, ReplayedTypes DEF OfGoal
<1>2. queue \in Seq(SeedSave) /\ SavesSound(queue, ever)
  <2> HIDE DEF new, D
  <2> QED BY <1>1, RecordSaves
<1>3. q \in SeedProcess
  BY NewTypes, ProcessFits DEF SeedProcess
<1>4. proc' = [proc EXCEPT ![p] = Saving(q, queue, next)]
  BY DEF Consolidate
<1>5. next \in {"end", "refresh", "gather", "decay"} /\ next # "gather"
  OBVIOUS
<1> HIDE DEF queue, q, next
<1>6. SeedFits(Saving(q, queue, next), live, revisions, ever)
  BY <1>2, <1>3, <1>5, SavingFits
<1> QED BY <1>4, <1>6, SeedLocal DEF Consolidate

\* Every record of the goal is written before lessons are gathered.
LEMMA RefreshKeeps ==
    ASSUME SeedInv, NEW p \in Processes, Refresh(p)
    PROVE  SeedInv'
<1> DEFINE q == proc[p]
           D == OfGoal(q.goal)
           replay == [e \in D |-> Replayed(e, q.now)]
           queue == Saves(replay, TRUE)
<1>1. q \in SeedProcess /\ q.now \in Nat
  BY ProcessFits DEF SeedProcess
<1>2. D \in SUBSET Experiences /\ replay \in [D -> ExperiencePayload]
  BY <1>1, ReplayedTypes DEF OfGoal
<1>3. /\ queue \in Seq(SeedSave) /\ SavesSound(queue, ever)
      /\ \A e \in D : \E i \in DOMAIN queue : queue[i].seed = e
  <2> HIDE DEF replay, D
  <2> QED BY <1>2, RecordSaves
<1>4. Covers(queue, q.goal, ever)
  BY <1>3 DEF Covers
<1>5. proc' = [proc EXCEPT ![p] = Saving(q, queue, "gather")]
  BY DEF Refresh, SeedInv, SeedTypes
<1> HIDE DEF queue
<1>6. SeedFits(Saving(q, queue, "gather"), live, revisions, ever)
  BY <1>1, <1>3, <1>4, SavingFits
<1> QED BY <1>5, <1>6, SeedLocal DEF Refresh

LEMMA DecayKeeps ==
    ASSUME SeedInv, NEW p \in Processes, Decay(p)
    PROVE  SeedInv'
<1> DEFINE q == proc[p]
           due == {e \in Stored : /\ q.now > live[e].stamp
                                  /\ live[e].strength > Faded}
           weaker == [e \in due |-> Decayed(live[e])]
           queue == Saves(weaker, TRUE)
<1>1. q \in SeedProcess
  BY ProcessFits
<1>2. ASSUME NEW e \in due PROVE Decayed(live[e]) \in ExperiencePayload
  <2>1. live[e] \in [strength : {0, 1, 2}, stamp : Nat] /\ live[e].strength > 0
    BY StoredTypes DEF ExperiencePayload, Strengths, Faded, Ordinary, Strong
  <2>2. live[e].strength - 1 \in {0, 1, 2}
    BY <2>1
  <2> QED BY <2>1, <2>2 DEF Decayed, ExperiencePayload, Strengths, Faded, Ordinary, Strong
<1>3. due \in SUBSET Experiences /\ weaker \in [due -> ExperiencePayload]
  BY <1>2 DEF Stored
<1>4. queue \in Seq(SeedSave) /\ SavesSound(queue, ever)
  <2> HIDE DEF weaker, due
  <2> QED BY <1>3, RecordSaves
<1>5. proc' = [proc EXCEPT ![p] = Saving(q, queue, "end")]
  BY DEF Decay, SeedInv, SeedTypes
<1> HIDE DEF queue
<1>6. SeedFits(Saving(q, queue, "end"), live, revisions, ever)
  BY <1>1, <1>4, SavingFits
<1> QED BY <1>5, <1>6, SeedLocal DEF Decay

\* What a goal's records and the store share was learned in enough goals: the
\* goal's own records have been written by then.
LEMMA GatherKeeps ==
    ASSUME SeedInv, NEW p \in Processes, Gather(p)
    PROVE  SeedInv'
<1> DEFINE q == proc[p]
           S == Stored \cup OfGoal(q.goal)
           interest == {LessonOf[e] : e \in OfGoal(q.goal) \cap Surprising}
           lessons == interest \cap Corroborated(S)
           r == [q EXCEPT !.at = "screen", !.lessons = lessons]
<1>1. q \in SeedProcess /\ q.at = "gather" /\ SeedFits(q, live, revisions, ever)
  BY ProcessFits DEF Gather, At
<1>2. \A e \in S : e \in Experiences /\ Learned(e, ever)
  <2>1. \A e \in OfGoal(q.goal) : e \in Experiences /\ Learned(e, ever)
    BY <1>1 DEF SeedFits, Covers, OfGoal
  <2>2. \A e \in Stored : e \in Seeds /\ e \in Experiences /\ live[e] # Absent
    BY DEF Stored, Seeds
  <2> QED BY <2>1, <2>2 DEF SeedInv, LiveSound
<1>3. ASSUME NEW lesson \in Corroborated(S) PROVE Enough(lesson, ever)
  <2> DEFINE few == {e \in S : LessonOf[e] = lesson}
             all == {x \in Experiences : LessonOf[x] = lesson /\ Learned(x, ever)}
             A == {GoalOf[e] : e \in few}
             B == {GoalOf[e] : e \in all}
  <2>1. few \subseteq all /\ IsFiniteSet(all)
    BY <1>2, SeedAssumption, FS_Subset
  <2>2. IsFiniteSet(B) /\ A \in SUBSET B
    BY <2>1, ImageFinite
  <2>3. /\ Cardinality(A) <= Cardinality(B)
        /\ Cardinality(A) \in Nat /\ Cardinality(B) \in Nat
    BY <2>2, FS_Subset, FS_CardinalityType
  <2>4. Cardinality(A) >= MinimumGoals
    BY <1>3 DEF Corroborated, GoalsOf
  <2>5. Cardinality(B) >= MinimumGoals
    <3> HIDE DEF A, B
    <3> QED BY <2>3, <2>4, SeedAssumption
  <2> QED BY <2>5 DEF Enough
<1>4. lessons \in SUBSET Lessons
  BY DEF OfGoal, Lessons
<1>5. proc' = [proc EXCEPT ![p] = r]
  BY DEF Gather, SeedInv, SeedTypes
<1>6. \A lesson \in lessons : Enough(lesson, ever)
  BY <1>3
<1> HIDE DEF lessons
<1>7. /\ r \in SeedProcess /\ r.at = "screen" /\ r.lessons = lessons
      /\ r.queue = q.queue
  BY <1>1, <1>4 DEF SeedProcess, SeedSteps
<1> HIDE DEF r
<1>8. SavesSound(r.queue, ever)
  BY <1>1, <1>7 DEF SeedFits
<1>9. SeedFits(r, live, revisions, ever)
  BY <1>6, <1>7, <1>8 DEF SeedFits
<1> QED BY <1>5, <1>9, SeedLocal DEF Gather

LEMMA ScreenKeeps ==
    ASSUME SeedInv, NEW p \in Processes, Screen(p)
    PROVE  SeedInv'
<1> DEFINE q == proc[p]
           old == {live[k].lesson : k \in {j \in Knowledge : live[j] # Absent}}
           promoted == q.lessons \ old
           ids(id) == {id[lesson] : lesson \in promoted}
           items(id) == [k \in ids(id) |->
                            Item(CHOOSE lesson \in promoted : id[lesson] = k)]
<1>1. q \in SeedProcess /\ q.at = "screen" /\ SeedFits(q, live, revisions, ever)
  BY ProcessFits DEF Screen, At
<1>2. /\ promoted \in SUBSET Lessons /\ IsFiniteSet(promoted)
      /\ \A lesson \in promoted : Enough(lesson, ever)
  <2>1. IsFiniteSet(Lessons)
    BY SeedAssumption, ImageFinite DEF Lessons
  <2>2. promoted \in SUBSET Lessons
    BY <1>1 DEF SeedProcess
  <2>3. \A lesson \in promoted : Enough(lesson, ever)
    BY <1>1 DEF SeedFits
  <2> QED BY <2>1, <2>2, <2>3, FS_Subset
<1>3. PICK id \in Injection(promoted, FreshIds) :
         proc' = [proc EXCEPT ![p] = Saving(q, Saves(items(id), TRUE), "decay")]
  BY DEF Screen, SeedInv, SeedTypes
<1>4. id \in [promoted -> FreshIds]
  BY <1>3 DEF Injection
<1> HIDE DEF promoted
<1>5. IsFiniteSet(ids(id)) /\ DOMAIN items(id) = ids(id)
  BY <1>2, ImageFinite
<1>6. ASSUME NEW k \in ids(id)
      PROVE  /\ k \in Seeds /\ items(id)[k] \in SeedPayload
             /\ Sound(k, items(id)[k], ever)
  <2> DEFINE lesson == CHOOSE l \in promoted : id[l] = k
  <2>1. k \in Knowledge
    BY <1>4 DEF FreshIds
  <2>2. lesson \in promoted
    OBVIOUS
  <2>3. items(id)[k] = Item(lesson)
    OBVIOUS
  <2> HIDE DEF lesson, items
  <2>4. items(id)[k] \in ItemPayload /\ Enough(items(id)[k].lesson, ever)
    BY <1>2, <2>2, <2>3 DEF Item, ItemPayload
  <2> QED BY <2>1, <2>4, SeedAssumption DEF Seeds, SeedPayload, Sound
<1> HIDE DEF items, ids
<1> DEFINE queue == Saves(items(id), TRUE)
<1>7. queue \in Seq(SeedSave) /\ SavesSound(queue, ever)
  BY <1>5, <1>6, SavesFacts
<1> HIDE DEF queue
<1>8. SeedFits(Saving(q, queue, "decay"), live, revisions, ever)
  BY <1>1, <1>7, SavingFits
<1> QED BY <1>3, <1>8, SeedLocal DEF Screen, queue

LEMMA ReadPreviousKeeps ==
    ASSUME SeedInv, NEW p \in Processes, ReadPrevious(p)
    PROVE  SeedInv'
<1> DEFINE q == proc[p]
           s == Head(q.queue).seed
           r == [q EXCEPT !.at = "write", !.raced = FALSE, !.copy = live[s]]
<1>1. q \in SeedProcess /\ q.at = "save" /\ SeedFits(q, live, revisions, ever)
  BY ProcessFits DEF ReadPrevious, At
<1>2. s \in Seeds
  <2>1. q.queue \in Seq(SeedSave) /\ q.queue # <<>>
    BY <1>1 DEF SeedFits, SeedProcess
  <2>2. Head(q.queue) \in SeedSave
    BY <2>1, TailFacts
  <2> QED BY <2>2 DEF SeedSave
<1>3. live[s] \in SeedPayload \cup {Absent} /\ SoundOrAbsent(s, live[s], ever)
  BY <1>2 DEF SeedInv, SeedTypes, LiveSound
<1>4. proc' = [proc EXCEPT ![p] = r]
  BY DEF ReadPrevious, SeedInv, SeedTypes
<1>5. /\ r \in SeedProcess /\ r.at = "write" /\ r.queue = q.queue /\ r.copy = live[s]
      /\ r.next = q.next /\ r.goal = q.goal
  BY <1>1, <1>3 DEF SeedProcess, SeedSteps
<1> HIDE DEF r
<1>6. SeedFits(r, live, revisions, ever)
  BY <1>1, <1>3, <1>5 DEF SeedFits
<1> QED BY <1>4, <1>6, SeedLocal DEF ReadPrevious

LEMMA ReadTargetKeeps ==
    ASSUME SeedInv, NEW p \in Processes, NEW i \in DOMAIN revisions, ReadTarget(p, i)
    PROVE  SeedInv'
<1> DEFINE revision == revisions[i]
           copy == Target(revision, live[revision.seed])
           r == [New EXCEPT !.at = "install", !.undo = i, !.copy = copy]
<1>1. revision \in Revision /\ i \in Nat
  BY DEF SeedInv, SeedTypes
<1>2. copy \in Sides(revision) /\ copy \in SeedPayload \cup {Absent}
  BY <1>1 DEF Target, Sides, Revision
<1>3. proc' = [proc EXCEPT ![p] = r]
  BY DEF ReadTarget
<1> HIDE DEF copy
<1>4. r \in SeedProcess /\ r.at = "install" /\ r.queue = <<>> /\ r.undo = i /\ r.copy = copy
  BY <1>1, <1>2, NewTypes DEF SeedProcess, SeedSteps, New
<1> HIDE DEF r
<1>5. SeedFits(r, live, revisions, ever)
  BY <1>2, <1>4 DEF SeedFits, ReadTarget, SavesSound
<1> QED BY <1>3, <1>5, SeedLocal DEF ReadTarget

LEMMA EndedFits ==
    ASSUME NEW rows, NEW history, NEW known
    PROVE  SeedFits(Ended, rows, history, known)
<1>1. Ended.at = "ended" /\ Ended.queue = <<>>
  BY DEF Ended, New
<1> QED BY <1>1, NewTypes DEF SeedFits, SavesSound

LEMMA CrashKeeps ==
    ASSUME SeedInv, NEW p \in Processes, Crash(p)
    PROVE  SeedInv'
BY EndedFits, SeedLocal DEF Crash

-----------------------------------------------------------------------------
(* The steps that write a row or a revision.                               *)

\* A revision of sound sides keeps the history sound.
LEMMA HistoryStays ==
    ASSUME SeedInv, NEW revision \in Revision,
           revisions' = Append(revisions, revision), NEW known, ever \subseteq known,
           \A payload \in Sides(revision) :
              SoundOrAbsent(revision.seed, payload, known)
    PROVE  /\ revisions' \in Seq(Revision) /\ Prolongs(revisions, revisions')
           /\ RevisionsSound(revisions', known) /\ revisions' # revisions
           /\ Len(revisions') \in DOMAIN revisions'
           /\ revisions'[Len(revisions')] = revision
<1>1. revisions \in Seq(Revision)
  BY DEF SeedInv, SeedTypes
<1>2. /\ revisions' \in Seq(Revision) /\ revisions' # revisions
      /\ Len(revisions') = Len(revisions) + 1
      /\ DOMAIN revisions' = DOMAIN revisions \cup {Len(revisions) + 1}
      /\ revisions'[Len(revisions) + 1] = revision
      /\ \A n \in DOMAIN revisions : revisions'[n] = revisions[n]
  BY <1>1, SeedAppended
<1>3. \A i \in DOMAIN revisions : \A payload \in Sides(revisions[i]) :
         SoundOrAbsent(revisions[i].seed, payload, known)
  BY SoundStays DEF SeedInv, RevisionsSound
<1>4. RevisionsSound(revisions', known)
  BY <1>2, <1>3 DEF RevisionsSound
<1> QED BY <1>2, <1>4 DEF Prolongs

\* What the process at a write knows of its save.
LEMMA SaveFacts ==
    ASSUME SeedInv, NEW p \in Processes, At(p, "write")
    PROVE  LET save == Head(proc[p].queue) IN
           /\ proc[p].queue \in Seq(SeedSave) /\ proc[p].queue # <<>>
           /\ save \in SeedSave /\ save.seed \in Seeds /\ save.payload \in SeedPayload
           /\ Sound(save.seed, save.payload, ever)
           /\ proc[p].copy \in SeedPayload \cup {Absent}
           /\ SoundOrAbsent(save.seed, proc[p].copy, ever)
           /\ ~ proc[p].raced => proc[p].copy = live[save.seed]
<1>1. SeedFits(proc[p], live, revisions, ever) /\ proc[p] \in SeedProcess
  BY ProcessFits
<1>2. proc[p].queue \in Seq(SeedSave) /\ proc[p].queue # <<>>
  BY <1>1 DEF SeedFits, SeedProcess, At
<1>3. Head(proc[p].queue) \in SeedSave
  BY <1>2, TailFacts
<1>4. Sound(Head(proc[p].queue).seed, Head(proc[p].queue).payload, ever)
  <2>1. 1 \in DOMAIN proc[p].queue /\ Head(proc[p].queue) = proc[p].queue[1]
    BY <1>2, TailFacts
  <2> QED BY <1>1, <2>1 DEF SeedFits, SavesSound
<1>5. proc[p].copy \in SeedPayload \cup {Absent}
  BY <1>1 DEF SeedProcess
<1>6. /\ SoundOrAbsent(Head(proc[p].queue).seed, proc[p].copy, ever)
      /\ ~ proc[p].raced => proc[p].copy = live[Head(proc[p].queue).seed]
  BY <1>1 DEF SeedFits, At
<1>7. /\ Head(proc[p].queue).seed \in Seeds
      /\ Head(proc[p].queue).payload \in SeedPayload
  BY <1>3 DEF SeedSave
<1> QED BY <1>2, <1>3, <1>4, <1>5, <1>6, <1>7

\* After the first save, the rest of a command fits what is known then.
LEMMA RestFits ==
    ASSUME SeedInv, NEW p \in Processes, At(p, "write"),
           NEW rows, NEW history, NEW known, ever \subseteq known,
           Learned(Head(proc[p].queue).seed, known)
    PROVE  SeedFits(Continue([proc[p] EXCEPT !.copy = Absent, !.raced = FALSE,
                                             !.queue = Tail(@)]),
                    rows, history, known)
<1> DEFINE q == proc[p]
           r == [q EXCEPT !.copy = Absent, !.raced = FALSE, !.queue = Tail(@)]
<1>1. SeedFits(q, live, revisions, ever) /\ q \in SeedProcess
  BY ProcessFits
<1>2. /\ Tail(q.queue) \in Seq(SeedSave)
      /\ Head(q.queue) = q.queue[1]
      /\ \A i \in DOMAIN Tail(q.queue) :
            i + 1 \in DOMAIN q.queue /\ Tail(q.queue)[i] = q.queue[i + 1]
      /\ \A i \in DOMAIN q.queue :
            i = 1 \/ (i - 1 \in DOMAIN Tail(q.queue)
                         /\ Tail(q.queue)[i - 1] = q.queue[i])
  <2>1. q.queue \in Seq(SeedSave) /\ q.queue # <<>>
    BY SaveFacts
  <2> QED BY <2>1, TailFacts
<1>3. /\ r \in SeedProcess /\ r.queue = Tail(q.queue) /\ r.next = q.next
      /\ r.goal = q.goal
  BY <1>1, <1>2 DEF SeedProcess
<1>4. SavesSound(Tail(q.queue), known)
  <2>1. SavesSound(q.queue, known)
    BY <1>1, CoversStays DEF SeedFits
  <2> QED BY <1>2, <2>1 DEF SavesSound
<1>5. q.next = "gather" => Covers(Tail(q.queue), q.goal, known)
  <2> SUFFICES ASSUME q.next = "gather", NEW e \in OfGoal(q.goal), ~ Learned(e, known)
               PROVE  \E i \in DOMAIN Tail(q.queue) : Tail(q.queue)[i].seed = e
    BY DEF Covers
  <2>1. Covers(q.queue, q.goal, known)
    BY <1>1, CoversStays DEF SeedFits, At
  <2>2. PICK i \in DOMAIN q.queue : q.queue[i].seed = e
    BY <2>1 DEF Covers
  <2>3. i # 1
    BY <1>2, <2>2
  <2> QED BY <1>2, <2>2, <2>3
<1> HIDE DEF r
<1>6. SeedFits(Continue(r), rows, history, known)
  BY <1>3, <1>4, <1>5, ContinueFits
<1> QED BY <1>6 DEF r

LEMMA WriteKeeps ==
    ASSUME SeedInv, NEW p \in Processes, Write(p)
    PROVE  SeedInv'
<1> DEFINE save == Head(proc[p].queue)
           rest == Continue([proc[p] EXCEPT !.copy = Absent, !.raced = FALSE,
                                            !.queue = Tail(@)])
<1>1. /\ At(p, "write") /\ save.seed \in Seeds /\ save.payload \in SeedPayload
      /\ Sound(save.seed, save.payload, ever)
      /\ proc[p].copy \in SeedPayload \cup {Absent}
      /\ SoundOrAbsent(save.seed, proc[p].copy, ever)
  BY SaveFacts DEF Write
<1>2. CASE Mutates(save)
  <2>1. /\ SetLive(p, save.seed, save.payload, rest) /\ day' = day
        /\ AppendRevision(save.seed, ActionOf(proc[p].copy), proc[p].copy, save.payload)
    BY <1>2 DEF Write, Mutates, RowAfter
  <2>2. save.payload # Absent /\ ever' = ever \cup {<<save.seed, save.payload>>}
    BY <1>1, <2>1, SeedNotAbsent DEF SetLive
  <2>3. ever \subseteq ever' /\ Learned(save.seed, ever')
    <3>1. <<save.seed, save.payload>> \in ever' /\ <<save.seed, save.payload>>[1] = save.seed
      BY <2>2
    <3> QED BY <2>2, <3>1 DEF Learned
  <2>4. SeedFits(rest, live', revisions', ever')
    BY <1>1, <2>3, RestFits
  <2>5. /\ SoundOrAbsent(save.seed, save.payload, ever)
        /\ SoundOrAbsent(save.seed, proc[p].copy, ever')
        /\ SoundOrAbsent(save.seed, save.payload, ever')
    BY <1>1, <2>3, SoundStays DEF SoundOrAbsent
  <2>6. ActionOf(proc[p].copy) \in {"create", "update"}
    BY DEF ActionOf
  <2> DEFINE new == [seed |-> save.seed, action |-> ActionOf(proc[p].copy),
                     before |-> proc[p].copy, after |-> save.payload]
  <2>7. /\ new \in Revision /\ revisions' = Append(revisions, new)
        /\ new.seed = save.seed /\ Reversible(new) /\ save.payload \in Sides(new)
        /\ \A payload \in Sides(new) : SoundOrAbsent(new.seed, payload, ever')
    BY <1>1, <2>1, <2>5, <2>6 DEF Revision, Sides, Reversible, AppendRevision
  <2> HIDE DEF rest, save, new
  <2>8. /\ revisions' \in Seq(Revision) /\ Prolongs(revisions, revisions')
        /\ RevisionsSound(revisions', ever')
        /\ Len(revisions') \in DOMAIN revisions' /\ revisions'[Len(revisions')] = new
    BY <2>3, <2>7, HistoryStays
  <2>9. RecordedIn(revisions', save.seed, save.payload)
    BY <2>7, <2>8 DEF RecordedIn
  <2> QED BY <1>1, <2>1, <2>4, <2>5, <2>8, <2>9, SeedRow
<1>3. CASE ~ Mutates(save)
  <2>1. proc' = [proc EXCEPT ![p] = rest] /\ UNCHANGED <<live, revisions, day, ever>>
    BY <1>3 DEF Write
  <2>2. Learned(save.seed, ever)
    BY <1>1, <1>3 DEF Mutates, SeedInv, LiveSound
  <2>3. SeedFits(rest, live, revisions, ever)
    BY <1>1, <2>2, RestFits
  <2> HIDE DEF rest
  <2> QED BY <2>1, <2>3, SeedLocal
<1> QED BY <1>2, <1>3

LEMMA InstallKeeps ==
    ASSUME SeedInv, NEW p \in Processes, Install(p)
    PROVE  SeedInv'
<1> DEFINE q == proc[p]
           undone == revisions[q.undo]
           r == [q EXCEPT !.at = "record", !.copy = Absent]
<1>1. /\ q \in SeedProcess /\ q.at = "install" /\ SeedFits(q, live, revisions, ever)
      /\ SetLive(p, undone.seed, q.copy, r) /\ UNCHANGED <<revisions, day>>
  BY ProcessFits DEF Install, At
<1>2. /\ q.undo \in DOMAIN revisions /\ Reversible(undone) /\ q.copy \in Sides(undone)
      /\ SavesSound(q.queue, ever)
  BY <1>1 DEF SeedFits
<1>3. undone \in Revision /\ revisions \in Seq(Revision)
  BY <1>2 DEF SeedInv, SeedTypes
<1>4. undone.seed \in Seeds /\ q.copy \in SeedPayload \cup {Absent}
  BY <1>2, <1>3 DEF Revision, Sides
<1>5. SoundOrAbsent(undone.seed, q.copy, ever)
  BY <1>2 DEF SeedInv, RevisionsSound
<1>6. RecordedIn(revisions, undone.seed, q.copy)
  BY <1>2 DEF RecordedIn
<1>7. ever \subseteq ever' /\ Prolongs(revisions, revisions') /\ revisions' = revisions
  BY <1>1 DEF SetLive, Prolongs
<1>8. RevisionsSound(revisions', ever')
  BY <1>7, SoundStays DEF SeedInv, RevisionsSound
<1>9. SeedFits(r, live', revisions', ever')
  <2>1. /\ r \in SeedProcess /\ r.at = "record" /\ r.queue = q.queue /\ r.undo = q.undo
    BY <1>1 DEF SeedProcess, SeedSteps
  <2> HIDE DEF r
  <2>2. SavesSound(r.queue, ever')
    BY <1>2, <1>7, <2>1, CoversStays
  <2> QED BY <1>2, <1>7, <2>1, <2>2 DEF SeedFits
<1> HIDE DEF r, undone
<1> QED BY <1>1, <1>3, <1>4, <1>5, <1>6, <1>7, <1>8, <1>9, SeedRow

\* A rollback's own revision only extends the history.
LEMMA RecordKeeps ==
    ASSUME SeedInv, NEW p \in Processes, Record(p)
    PROVE  SeedInv'
<1> DEFINE undone == revisions[proc[p].undo]
           s == undone.seed
<1>1. /\ proc[p].undo \in DOMAIN revisions
      /\ AppendRevision(s, "rollback", live[s], undone.before)
      /\ proc' = [proc EXCEPT ![p] = Ended] /\ UNCHANGED <<live, day, ever>>
  BY ProcessFits DEF Record, At, SeedFits
<1>2. undone \in Revision
  BY <1>1 DEF SeedInv, SeedTypes
<1>3. s \in Seeds /\ undone.before \in SeedPayload \cup {Absent}
  BY <1>2 DEF Revision
<1>4. live[s] \in SeedPayload \cup {Absent} /\ SoundOrAbsent(s, live[s], ever)
  BY <1>3 DEF SeedInv, SeedTypes, LiveSound
<1>5. SoundOrAbsent(s, undone.before, ever)
  BY <1>1 DEF SeedInv, RevisionsSound, Sides
<1> DEFINE new == [seed |-> s, action |-> "rollback", before |-> live[s],
                   after |-> undone.before]
<1> HIDE DEF s, undone
<1>6. /\ new \in Revision /\ revisions' = Append(revisions, new)
      /\ \A payload \in Sides(new) : SoundOrAbsent(new.seed, payload, ever)
  BY <1>1, <1>3, <1>4, <1>5 DEF Revision, Sides, AppendRevision
<1> HIDE DEF new
<1>7. /\ revisions' \in Seq(Revision) /\ Prolongs(revisions, revisions')
      /\ RevisionsSound(revisions', ever)
  BY <1>6, HistoryStays
<1>8. SeedTypes'
  BY <1>1, <1>7 DEF SeedInv, SeedTypes
<1>9. EverRecorded'
  BY <1>1, <1>7, RecordedStays DEF SeedInv, EverRecorded
<1>10. LiveSound'
  BY <1>1 DEF SeedInv, LiveSound
<1>11. ASSUME NEW q \in Processes
       PROVE  SeedFits(proc'[q], live', revisions', ever')
  <2>1. CASE q = p
    BY <1>1, <2>1, EndedFits DEF SeedInv, SeedTypes
  <2>2. CASE q # p
    <3>1. proc'[q] = proc[q] /\ live' = live /\ ever' = ever
      BY <1>1, <2>2 DEF SeedInv, SeedTypes
    <3>2. SeedFits(proc[q], live, revisions, ever)
      BY DEF SeedInv
    <3> QED BY <1>7, <3>1, <3>2, FitsStay
  <2> QED BY <2>1, <2>2
<1> QED BY <1>1, <1>7, <1>8, <1>9, <1>10, <1>11 DEF SeedInv

LEMMA SeedInitInv == SeedInit => SeedInv
<1> SUFFICES ASSUME SeedInit PROVE SeedInv
  OBVIOUS
<1>1. revisions \in Seq(Revision) /\ DOMAIN revisions = {}
  BY DEF SeedInit
<1>2. SeedTypes
  BY <1>1 DEF SeedTypes, SeedInit
<1>3. EverRecorded /\ LiveSound /\ RevisionsSound(revisions, ever)
  BY <1>1 DEF EverRecorded, LiveSound, RevisionsSound, SoundOrAbsent, SeedInit
<1>4. \A p \in Processes : SeedFits(proc[p], live, revisions, ever)
  <2>1. New.at = "new" /\ New.queue = <<>>
    BY DEF New
  <2>2. SeedFits(New, live, revisions, ever)
    BY <2>1, NewTypes DEF SeedFits, SavesSound
  <2> QED BY <2>2 DEF SeedInit
<1> QED BY <1>2, <1>3, <1>4 DEF SeedInv

LEMMA SeedStepInv == SeedInv /\ [SeedNext]_seedVars => SeedInv'
<1> SUFFICES ASSUME SeedInv, [SeedNext]_seedVars PROVE SeedInv'
  OBVIOUS
<1>1. CASE UNCHANGED seedVars
  BY <1>1 DEF seedVars, SeedInv, SeedTypes, EverRecorded, LiveSound
<1>2. CASE Tick
  <2>1. day' \in Nat
    BY <1>2 DEF Tick, SeedInv, SeedTypes
  <2> QED BY <1>2, <2>1 DEF Tick, SeedInv, SeedTypes, EverRecorded, LiveSound
<1>3. ASSUME NEW p \in Processes, Command(p) PROVE SeedInv'
  BY <1>3, DistillKeeps, RetrieveKeeps, ConsolidateKeeps, ReadTargetKeeps DEF Command
<1>4. ASSUME NEW p \in Processes, Step(p) PROVE SeedInv'
  BY <1>4, ReadPreviousKeeps, WriteKeeps, RefreshKeeps, GatherKeeps, ScreenKeeps,
     DecayKeeps, InstallKeeps, RecordKeeps DEF Step
<1> QED BY <1>1, <1>2, <1>3, <1>4, CrashKeeps DEF SeedNext

-----------------------------------------------------------------------------
(* The theorems.                                                           *)

\* For any records, lessons, processes and crashes: the history has every
\* payload a seed ever had, rows and revisions hold knowledge that was learned
\* often enough, and every process is where the others leave it.
THEOREM SeedInvariant == SeedSpec => []SeedInv
BY SeedInitInv, SeedStepInv, PTL DEF SeedSpec

\* For any processes, races and crashes: what a seed ever had is live, or two
\* rollbacks of one recorded revision bring it back (revisions.py, rollback).
THEOREM RollbacksReachEverything == SeedSpec => []NothingLost
<1>1. ASSUME SeedInv PROVE NothingLost
  <2> SUFFICES ASSUME NEW x \in ever, live[x[1]] # x[2]
               PROVE  \E i \in DOMAIN revisions :
                         LET once == Target(revisions[i], live[x[1]])
                         IN  /\ revisions[i].seed = x[1] /\ Reversible(revisions[i])
                             /\ x[2] \in {once, Target(revisions[i], once)}
    BY DEF NothingLost
  <2>1. PICK i \in DOMAIN revisions :
           /\ revisions[i].seed = x[1] /\ Reversible(revisions[i])
           /\ x[2] = revisions[i].before \/ x[2] = revisions[i].after
    BY <1>1 DEF SeedInv, EverRecorded, RecordedIn, Sides
  <2> DEFINE once == Target(revisions[i], live[x[1]])
  <2>2. x[2] \in {once, Target(revisions[i], once)}
    BY <2>1 DEF Target
  <2> QED BY <2>1, <2>2
<1> QED BY <1>1, SeedInvariant, PTL

\* For any policy, records and overlapping consolidations and rollbacks: a
\* promoted lesson was learned in min_goals goals (consolidation.py).
THEOREM PromotionsAreCorroborated == SeedSpec => []PromotedIsCorroborated
<1>1. ASSUME SeedInv PROVE PromotedIsCorroborated
  <2> SUFFICES ASSUME NEW k \in Knowledge, live[k] # Absent
               PROVE  Enough(live[k].lesson, ever)
    BY DEF PromotedIsCorroborated, Enough, Learned
  <2>1. k \in Seeds
    BY DEF Seeds
  <2> QED BY <1>1, <2>1 DEF SeedInv, LiveSound, SoundOrAbsent, Sound
<1> QED BY <1>1, SeedInvariant, PTL

\* Nothing but its own writes takes a save from a process without ending it.
LEMMA OthersKeepQueues ==
    ASSUME SeedInv, [SeedNext]_seedVars, NEW p \in Processes, At(p, "write"), ~ Write(p)
    PROVE  (live' = live /\ revisions' = revisions) \/ proc'[p].queue = proc[p].queue
<1>1. ASSUME NEW q \in Processes, q # p, NEW s, NEW payload, NEW r,
             SetLive(q, s, payload, r)
      PROVE  proc'[p].queue = proc[p].queue
  <2>1. proc'[p] = [proc[p] EXCEPT !.raced =
                       @ \/ (At(p, "write") /\ Head(proc[p].queue).seed = s)]
    BY <1>1 DEF SetLive
  <2>2. proc[p] \in SeedProcess
    BY ProcessFits
  <2> QED BY <2>1, <2>2 DEF SeedProcess
<1>2. ASSUME NEW q \in Processes, NEW r, proc' = [proc EXCEPT ![q] = r], q # p
      PROVE  proc'[p].queue = proc[p].queue
  BY <1>2 DEF SeedInv, SeedTypes
<1>3. CASE UNCHANGED seedVars \/ Tick
  BY <1>3 DEF seedVars, Tick
<1>4. ASSUME NEW q \in Processes, Command(q) \/ Crash(q)
      PROVE  live' = live /\ revisions' = revisions
  BY <1>4 DEF Command, Distill, Retrieve, Consolidate, ReadTarget, Crash
<1>5. ASSUME NEW q \in Processes, Write(q)
      PROVE  proc'[p].queue = proc[p].queue
  BY <1>1, <1>2, <1>5 DEF Write
<1>6. ASSUME NEW q \in Processes, Install(q)
      PROVE  proc'[p].queue = proc[p].queue
  <2>1. q # p
    BY <1>6 DEF Install, At
  <2> QED BY <1>1, <1>6, <2>1 DEF Install
<1>7. ASSUME NEW q \in Processes, Record(q)
      PROVE  proc'[p].queue = proc[p].queue
  <2>1. q # p
    BY <1>7 DEF Record, At
  <2> QED BY <1>2, <1>7, <2>1 DEF Record
<1>8. ASSUME NEW q \in Processes,
             ReadPrevious(q) \/ Refresh(q) \/ Gather(q) \/ Screen(q) \/ Decay(q)
      PROVE  live' = live /\ revisions' = revisions
  BY <1>8 DEF ReadPrevious, Refresh, Gather, Screen, Decay
<1> QED BY <1>3, <1>4, <1>5, <1>6, <1>7, <1>8 DEF SeedNext, Step

\* For any processes: a save leaves one revision with the two sides of its
\* change, unless another process changed the row after it was read
\* (storage.py, save_experience and save_knowledge).
THEOREM HistoryIsTruthful == SeedSpec => HistoryTellsChanges
<1> DEFINE Tells(p) ==
       At(p, "write") /\ proc'[p].queue # proc[p].queue =>
          LET s == Head(proc[p].queue).seed
              last == revisions'[Len(revisions')]
          IN  IF revisions' = revisions THEN live' = live
              ELSE /\ last.seed = s /\ last.after = live'[s]
                   /\ ~proc[p].raced =>
                         /\ last.before = live[s]
                         /\ (last.action = "create") <=> (live[s] = Absent)
<1>1. ASSUME SeedInv, [SeedNext]_seedVars, NEW p \in Processes PROVE Tells(p)
  <2> SUFFICES ASSUME At(p, "write"), proc'[p].queue # proc[p].queue PROVE Tells(p)
    OBVIOUS
  <2> DEFINE save == Head(proc[p].queue)
  <2>1. /\ save.seed \in Seeds /\ save.payload \in SeedPayload
        /\ Sound(save.seed, save.payload, ever)
        /\ proc[p].copy \in SeedPayload \cup {Absent}
        /\ SoundOrAbsent(save.seed, proc[p].copy, ever)
        /\ ~ proc[p].raced => proc[p].copy = live[save.seed]
    BY <1>1, SaveFacts
  <2>2. CASE Write(p) /\ Mutates(save)
    <3>1. /\ AppendRevision(save.seed, ActionOf(proc[p].copy), proc[p].copy, save.payload)
          /\ live' = [live EXCEPT ![save.seed] = save.payload] /\ ever \subseteq ever'
      BY <2>2 DEF Write, Mutates, RowAfter, SetLive
    <3>2. live'[save.seed] = save.payload
      BY <1>1, <2>1, <3>1 DEF SeedInv, SeedTypes
    <3>3. ActionOf(proc[p].copy) \in {"create", "update", "rollback"}
      BY DEF ActionOf
    <3>4. SoundOrAbsent(save.seed, save.payload, ever)
      BY <2>1 DEF SoundOrAbsent
    <3> DEFINE new == [seed |-> save.seed, action |-> ActionOf(proc[p].copy),
                       before |-> proc[p].copy, after |-> save.payload]
    <3>5. /\ new \in Revision /\ revisions' = Append(revisions, new)
          /\ new.seed = save.seed /\ new.after = save.payload
          /\ new.before = proc[p].copy /\ new.action = ActionOf(proc[p].copy)
          /\ \A payload \in Sides(new) : SoundOrAbsent(new.seed, payload, ever)
      BY <2>1, <3>1, <3>3, <3>4 DEF Revision, Sides, AppendRevision
    <3> HIDE DEF save, new
    <3>6. revisions' # revisions /\ revisions'[Len(revisions')] = new
      BY <1>1, <3>5, HistoryStays
    <3>7. (new.action = "create") <=> (new.before = Absent)
      BY <3>5 DEF ActionOf
    <3> QED BY <2>1, <3>2, <3>5, <3>6, <3>7 DEF save
  <2>3. CASE Write(p) /\ ~ Mutates(save)
    BY <2>3 DEF Write
  <2>4. CASE ~ Write(p)
    <3>1. (live' = live /\ revisions' = revisions) \/ proc'[p].queue = proc[p].queue
      BY <1>1, <2>4, OthersKeepQueues
    <3> QED BY <3>1
  <2> QED BY <2>2, <2>3, <2>4
<1>2. SeedInv /\ [SeedNext]_seedVars => [\A p \in Processes : Tells(p)]_seedVars
  BY <1>1
<1> QED BY <1>2, SeedInvariant, PTL DEF SeedSpec, HistoryTellsChanges

=============================================================================
