------------------------------ MODULE Promotion ------------------------------
(***************************************************************************)
(* Champion/challenger evaluation of one task type (evaluation.py), the    *)
(* promotion of a recommended challenger (promote_evaluation), and the     *)
(* engine that routes a task of the type (engine.py).  Every evaluate,     *)
(* promote and run command is a process of its own on the same database.   *)
(* An evaluation saves one outcome after the other, then its run; it may   *)
(* end in between.  A promotion reads the run, the candidate and the       *)
(* active deployment before the transaction that writes.  An engine reads  *)
(* the agents and the deployment separately.                               *)
(*                                                                         *)
(* Scores are integers.  An agent's profile is its model: the role, the    *)
(* task types and enabled never change.                                    *)
(***************************************************************************)
EXTENDS Integers, FiniteSets, Sequences

CONSTANTS
    Agents, Models,
    Loaded,             \* agents the engine has a worker for
    Reconfigured,       \* agents that may be started with another model
    Cases,              \* the benchmark's cases, in order
    Critical,           \* its critical cases
    Runs,               \* evaluate commands, by run_id
    ChampionOf,         \* the identity a command names as champion
    ChallengerOf,       \* ... and as challenger
    SpecsOf,            \* the results a command may have observed
    Promoters,          \* promote commands
    MinimumCases, MinimumDelta, MaximumRegression,  \* PromotionPolicy
    LatencyRatio,       \* maximum_p95_latency_ratio, as a pair <<n, d>>
    MaxProfiles,        \* bound: changes of a profile
    Null

Identity == [agent : Agents, model : Models]
Roles == {"champion", "challenger"}
CaseSet == {Cases[i] : i \in DOMAIN Cases}
Result == [passed : BOOLEAN, score : 0 .. 100, ms : Nat]
N == Len(Cases)

ASSUME PromotionAssumption ==
    /\ Cases \in Seq(CaseSet)
    /\ N > 0 /\ Cardinality(CaseSet) = N    \* _validate_benchmark
    /\ Critical \subseteq CaseSet
    /\ Loaded \subseteq Agents /\ Reconfigured \subseteq Agents
    /\ ChampionOf \in [Runs -> Identity] /\ ChallengerOf \in [Runs -> Identity]
    /\ \A r \in Runs : ChampionOf[r].agent # ChallengerOf[r].agent
    /\ \A r \in Runs : SpecsOf[r] \subseteq [CaseSet -> [Roles -> Result]]
    /\ MinimumCases \in Nat \ {0}
    /\ MinimumDelta \in Nat /\ MaximumRegression \in Nat
    /\ LatencyRatio \in (Nat \ {0}) \X (Nat \ {0})

VARIABLES
    profile,        \* table agents: the model of an agent
    evaluator,      \* the evaluate commands
    outcomes,       \* table evaluation_outcomes
    run,            \* table evaluation_runs
    deployment,     \* table deployments, for the task type
    promoter,       \* the promote commands
    engine,         \* an engine that chooses an agent for a task
    profiles,       \* number of changes of a profile
    seen            \* history: the deployments while the engine chose

vars == <<profile, evaluator, outcomes, run, deployment, promoter, engine,
          profiles, seen>>

NewEvaluator == [pc |-> "new", spec |-> Null, next |-> 1, role |-> "champion"]
NewPromoter == [pc |-> "new", run |-> Null, raced |-> FALSE]
NewEngine == [pc |-> "idle", listed |-> Null, agent |-> Null]

Init ==
    /\ profile = [a \in Agents |-> Null]
    /\ evaluator = [r \in Runs |-> NewEvaluator]
    /\ outcomes = {}
    /\ run = [r \in Runs |-> Null]
    /\ deployment = Null
    /\ promoter = [p \in Promoters |-> NewPromoter]
    /\ engine = NewEngine
    /\ profiles = 0
    /\ seen = {}

-----------------------------------------------------------------------------
(* The gates.  They are given the results as the evaluator remembers them. *)

Passes(spec, role) == Cardinality({c \in CaseSet : spec[c][role].passed})
\* The sum of the scores: the points of every case, counted.
Score(spec, role) ==
    Cardinality(UNION {{c} \X (1 .. spec[c][role].score) : c \in CaseSet})
Ceiling(m, n) == (m + n - 1) \div n

\* Mistake: the index is rounded down.
Percentile95Floor(spec, role) ==
    LET ms(c) == spec[c][role].ms
        index == IF 95 * N < 100 THEN 1 ELSE (95 * N) \div 100
    IN  CHOOSE v \in {ms(c) : c \in CaseSet} :
           /\ Cardinality({c \in CaseSet : ms(c) <= v}) >= index
           /\ Cardinality({c \in CaseSet : ms(c) < v}) < index

\* _percentile_95: the element ceil(0.95 n) - 1 of the sorted latencies.
Percentile95(spec, role) ==
    LET ms(c) == spec[c][role].ms
        index == Ceiling(95 * N, 100)
    IN  CHOOSE v \in {ms(c) : c \in CaseSet} :
           /\ Cardinality({c \in CaseSet : ms(c) <= v}) >= index
           /\ Cardinality({c \in CaseSet : ms(c) < v}) < index

Regression(spec, c) == spec[c]["champion"].score - spec[c]["challenger"].score

\* _apply_gates.
FailedGates(spec) ==
    {gate \in {"minimum_cases", "critical_cases", "pass_rate", "mean_score",
               "per_case_regression", "p95_latency"} :
        CASE gate = "minimum_cases"  -> N < MinimumCases
          [] gate = "critical_cases" ->
                \E c \in Critical : ~ spec[c]["challenger"].passed
          [] gate = "pass_rate" ->
                Passes(spec, "challenger") < Passes(spec, "champion")
          [] gate = "mean_score" ->
                Score(spec, "challenger") - Score(spec, "champion")
                   < MinimumDelta * N
          [] gate = "per_case_regression" ->
                \E c \in CaseSet : Regression(spec, c) > MaximumRegression
          [] gate = "p95_latency" ->
                Percentile95(spec, "challenger") * LatencyRatio[2]
                   > Percentile95(spec, "champion") * LatencyRatio[1]}

-----------------------------------------------------------------------------
(* evaluate.                                                               *)

EvaluatorAt(r, pc) == evaluator[r].pc = pc
IdentityOf(r, role) == IF role = "champion" THEN ChampionOf[r] ELSE ChallengerOf[r]

\* _ensure_evaluation_agent: an unknown agent is registered, a known one must
\* have the model.
Compatible(identity) == profile[identity.agent] \in {Null, identity.model}

Ensure(identity) ==
    /\ Compatible(identity)
    /\ profile' = [profile EXCEPT ![identity.agent] = identity.model]

EnsureChampion(r) ==
    /\ EvaluatorAt(r, "new")
    /\ Ensure(ChampionOf[r])
    /\ evaluator' = [evaluator EXCEPT ![r].pc = "known"]
    /\ UNCHANGED <<outcomes, run, deployment, promoter, engine, profiles, seen>>

\* ... and the loop over the benchmark begins.
EnsureChallenger(r) ==
    /\ EvaluatorAt(r, "known")
    /\ Ensure(ChallengerOf[r])
    /\ \E spec \in SpecsOf[r] :
          evaluator' = [evaluator EXCEPT ![r].pc = "cases", ![r].spec = spec]
    /\ UNCHANGED <<outcomes, run, deployment, promoter, engine, profiles, seen>>

\* "candidate identity conflicts with agent".
Conflict(r) ==
    /\ \/ EvaluatorAt(r, "new") /\ ~ Compatible(ChampionOf[r])
       \/ EvaluatorAt(r, "known") /\ ~ Compatible(ChallengerOf[r])
    /\ evaluator' = [evaluator EXCEPT ![r].pc = "failed"]
    /\ UNCHANGED <<profile, outcomes, run, deployment, promoter, engine,
                   profiles, seen>>

\* _evaluate_case: the next case, for the champion and then for the challenger.
OutcomeOf(r) ==
    LET c == Cases[evaluator[r].next]
        role == evaluator[r].role
    IN  [run |-> r, case |-> c, candidate |-> IdentityOf(r, role),
         critical |-> c \in Critical, result |-> evaluator[r].spec[c][role]]

SaveOutcome(r) ==
    LET e == evaluator[r] IN
    /\ EvaluatorAt(r, "cases")
    /\ outcomes' = outcomes \cup {OutcomeOf(r)}
    /\ evaluator' = [evaluator EXCEPT ![r] =
          CASE e.role = "champion" -> [e EXCEPT !.role = "challenger"]
            [] e.role = "challenger" /\ e.next < N ->
                  [e EXCEPT !.role = "champion", !.next = e.next + 1]
            [] OTHER -> [e EXCEPT !.pc = "gates"]]
    /\ UNCHANGED <<profile, run, deployment, promoter, engine, profiles, seen>>

RunRecord(r) ==
    [champion |-> ChampionOf[r], challenger |-> ChallengerOf[r],
     recommended |-> FailedGates(evaluator[r].spec) = {},
     status |-> "evaluated"]

\* save_evaluation_run, of a run_id that is new.
SaveRun(r) ==
    /\ EvaluatorAt(r, "gates")
    /\ run' = [run EXCEPT ![r] = RunRecord(r)]
    /\ evaluator' = [evaluator EXCEPT ![r] = [NewEvaluator EXCEPT !.pc = "done"]]
    /\ UNCHANGED <<profile, outcomes, deployment, promoter, engine, profiles, seen>>

\* The command ends early; what it has saved stays.
CrashEvaluator(r) ==
    /\ evaluator[r].pc \in {"known", "cases", "gates"}
    /\ evaluator' = [evaluator EXCEPT ![r] = [NewEvaluator EXCEPT !.pc = "failed"]]
    /\ UNCHANGED <<profile, outcomes, run, deployment, promoter, engine,
                   profiles, seen>>

-----------------------------------------------------------------------------
(* promote.                                                                *)

PromoterAt(p, pc) == promoter[p].pc = pc
PromoterGoto(p, pc) == promoter' = [promoter EXCEPT ![p].pc = pc]

\* EvaluationRun.promote.
Promotable(r) ==
    /\ run[r] # Null
    /\ run[r].recommended
    /\ run[r].status = "evaluated"

ReadRun(p, r) ==
    /\ PromoterAt(p, "new")
    /\ Promotable(r)
    /\ promoter' = [promoter EXCEPT ![p] =
                       [NewPromoter EXCEPT !.pc = "candidate", !.run = r]]
    /\ UNCHANGED <<profile, evaluator, outcomes, run, deployment, engine,
                   profiles, seen>>

\* ValueError: the command ends, and may be given again.
Refuse(p) == promoter' = [promoter EXCEPT ![p] = NewPromoter]

\* The challenger must still be what was evaluated.
ReadCandidate(p) ==
    LET challenger == run[promoter[p].run].challenger IN
    /\ PromoterAt(p, "candidate")
    /\ IF profile[challenger.agent] = challenger.model
       THEN PromoterGoto(p, "active")
       ELSE Refuse(p)
    /\ UNCHANGED <<profile, evaluator, outcomes, run, deployment, engine,
                   profiles, seen>>

\* Mistake: the challenger is looked for, which is only refused when it is
\* deployed already.
StaleChallenger(r) ==
    /\ deployment # Null
    /\ deployment.champion = run[r].challenger

\* Is the champion the run was measured against still the active one?
Stale(r) ==
    /\ deployment # Null
    /\ deployment.champion # run[r].champion

ReadActive(p) ==
    /\ PromoterAt(p, "active")
    /\ IF Stale(promoter[p].run) THEN Refuse(p) ELSE PromoterGoto(p, "write")
    /\ UNCHANGED <<profile, evaluator, outcomes, run, deployment, engine,
                   profiles, seen>>

\* The promotions and the choice that are under way see the deployment change.
Deploy(p) ==
    LET r == promoter[p].run IN
    /\ PromoterAt(p, "write")
    /\ deployment' = [champion |-> run[r].challenger, source |-> r]
    /\ promoter' = [q \in Promoters |->
                       IF q = p THEN NewPromoter
                       ELSE [promoter[q] EXCEPT !.raced = PromoterAt(q, "write")]]
    /\ seen' = IF engine.pc = "listed" THEN seen \cup {deployment'} ELSE seen
    /\ UNCHANGED <<profile, evaluator, outcomes, engine, profiles>>

\* One transaction for the run and the deployment.
WritePromotion(p) ==
    /\ Deploy(p)
    /\ run' = [run EXCEPT ![promoter[p].run].status = "promoted"]

-----------------------------------------------------------------------------
(* The agents and the engine.                                              *)

\* save_agent by a command that starts with another model: the maintainer's
\* profile and those of a goal specification are written unconditionally.
SaveAgent(a, m) ==
    /\ profile[a] # m
    /\ profiles < MaxProfiles
    /\ profiles' = profiles + 1
    /\ profile' = [profile EXCEPT ![a] = m]
    /\ UNCHANGED <<evaluator, outcomes, run, deployment, promoter, engine, seen>>

\* The outer loop at its next task.
ListAgents ==
    /\ engine.pc \in {"idle", "assigned"}
    /\ engine' = [NewEngine EXCEPT !.pc = "listed", !.listed = profile]
    /\ seen' = {deployment}
    /\ UNCHANGED <<profile, evaluator, outcomes, run, deployment, promoter,
                   profiles>>

Registered == {a \in Agents : engine.listed[a] # Null}

\* Mistake: the agent's model is not compared.
SelectableByAgent(d) ==
    IF d = Null THEN Registered ELSE Registered \cap Loaded \cap {d.champion.agent}

\* The candidates of the selector; it may rank any of them first.
Selectable(d) ==
    IF d = Null THEN Registered
    ELSE {a \in Registered \cap Loaded :
             d.champion = [agent |-> a, model |-> engine.listed[a]]}

\* get_deployment, select, and the task saved as running.  A promotion may be
\* written between the look and the save; the engine does not look again.
Assign ==
    /\ engine.pc = "listed"
    /\ \E a \in Selectable(deployment) \cap Loaded :
          engine' = [engine EXCEPT !.pc = "assigned", !.agent = a]
    /\ UNCHANGED <<profile, evaluator, outcomes, run, deployment, promoter,
                   profiles, seen>>

\* LookupError or KeyError: the goal is saved as blocked and the engine ends;
\* another goal is run by another.
Block ==
    /\ engine.pc = "listed"
    /\ \/ Selectable(deployment) = {}
       \/ ~ Selectable(deployment) \subseteq Loaded
    /\ engine' = NewEngine
    /\ UNCHANGED <<profile, evaluator, outcomes, run, deployment, promoter,
                   profiles, seen>>

-----------------------------------------------------------------------------

EvaluatorStep(r) ==
    \/ EnsureChampion(r) \/ EnsureChallenger(r) \/ Conflict(r)
    \/ SaveOutcome(r) \/ SaveRun(r) \/ CrashEvaluator(r)

PromoterStep(p) ==
    \/ \E r \in Runs : ReadRun(p, r)
    \/ ReadCandidate(p) \/ ReadActive(p) \/ WritePromotion(p)

Next ==
    \/ \E r \in Runs : EvaluatorStep(r)
    \/ \E p \in Promoters : PromoterStep(p)
    \/ \E a \in Reconfigured, m \in Models : SaveAgent(a, m)
    \/ ListAgents \/ Assign \/ Block

Spec == Init /\ [][Next]_vars

-----------------------------------------------------------------------------
(* Properties.                                                             *)

\* The stored results of a candidate of run r in case c.
Evidence(r, c, role) ==
    {o.result : o \in {x \in outcomes :
        x.run = r /\ x.case = c /\ x.candidate = IdentityOf(r, role)}}

StoredSpecs(r) ==
    {spec \in SpecsOf[r] : \A c \in CaseSet, role \in Roles :
        Evidence(r, c, role) = {spec[c][role]}}

\* How many of a candidate's cases took no longer than the bound n / d.
Within(spec, role, n, d) ==
    Cardinality({c \in CaseSet : spec[c][role].ms * d <= n})

\* docs/evaluation.md, "Default gates require ...", of the results themselves.
Better(spec) ==
    /\ N >= MinimumCases
    /\ \A c \in Critical : spec[c]["challenger"].passed
    /\ Passes(spec, "challenger") >= Passes(spec, "champion")
    /\ Score(spec, "challenger") >= Score(spec, "champion") + MinimumDelta * N
    /\ \A c \in CaseSet : spec[c]["challenger"].score + MaximumRegression
                             >= spec[c]["champion"].score
    /\ \A c \in CaseSet :
          LET ms == spec[c]["champion"].ms IN
          100 * Within(spec, "champion", ms, 1) >= 95 * N =>
             100 * Within(spec, "challenger", ms * LatencyRatio[1], LatencyRatio[2])
                >= 95 * N

\* The deployed champion is the challenger of a promoted run, the database has
\* exactly one outcome of both candidates for every case of it, whichever
\* evaluations ended early, and these outcomes meet every gate.
DeploymentJustified ==
    deployment # Null =>
       /\ run[deployment.source].status = "promoted"
       /\ run[deployment.source].challenger = deployment.champion
       /\ \E spec \in StoredSpecs(deployment.source) : Better(spec)

\* docs/evaluation.md: promotion "rejects a stale champion before atomically
\* updating deployment": a champion is only replaced by one that was measured
\* against it.  promote_evaluation reads the deployment before its transaction,
\* so this is so unless another promotion is written in between.
ChampionsChain ==
    [][\A p \in Promoters :
          /\ deployment # Null
          /\ WritePromotion(p)
          /\ ~ promoter[p].raced
          => deployment.champion = run[promoter[p].run].champion]_vars

\* docs/architecture.md, "An active deployment narrows candidates to one exact
\* (agent_id, model_id)": a task is assigned to an agent that was the deployed
\* champion, with the model it was evaluated with, while the engine chose, or
\* there was no deployment when it began.
RoutedToChampion ==
    engine.pc = "assigned" =>
       \E d \in seen :
          d # Null => d.champion = [agent |-> engine.agent,
                                    model |-> engine.listed[engine.agent]]

=============================================================================
