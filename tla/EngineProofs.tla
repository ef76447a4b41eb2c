----------------------------- MODULE EngineProofs -----------------------------
(***************************************************************************)
(* What the synchronous engine and the scheduler's workers keep of each    *)
(* other's work, for any number of engines, tasks, attempts and crashes:   *)
(* the attempts' numbers, the claimed tasks, and the approved calls. And   *)
(* what one engine alone keeps through its crashes: the budget, the reasons *)
(* for a goal's end, and the tasks that have succeeded.                    *)
(***************************************************************************)
EXTENDS LoopEngine, FiniteSetTheorems, TLAPS

Numbers(t) == {a.no : a \in attempts[t]}

\* What an engine's memory says and the repository still holds.
Fits(l, asked, made) ==
    /\ l \in Local
    /\ l.pc = "claims" => l.goal \notin TerminalGoal
    /\ l.pc \in {"assign", "number", "execute", "ask", "outcome", "task"} =>
          l.work \in Tasks
    /\ l.pc = "ask" /\ l.seen = "approved" => asked[l.work] = "approved"
    /\ l.pc \in {"execute", "ask", "outcome"} =>
          l.no \in 1 .. Cardinality(made[l.work]) + 1
    /\ l.pc = "outcome" => l.result \in Results

EnginesFit ==
    /\ eng \in [Engines -> Local]
    /\ \A e \in Engines : Fits(eng[e], approval, attempts)

AttemptsFinite == \A t \in Tasks : IsFiniteSet(attempts[t])

EInv == LTypeOK /\ AttemptsFinite /\ EnginesFit /\ AttemptsNumbered

\* No step forgets an approval or an attempt.
Grows ==
    /\ \A t \in Tasks : approval[t] = "approved" => approval'[t] = "approved"
    /\ \A t \in Tasks : attempts[t] \subseteq attempts'[t]
    /\ \A t \in Tasks : IsFiniteSet(attempts'[t])

-----------------------------------------------------------------------------
(* Attempts are finite, and counted.                                       *)

LEMMA AttemptCounted ==
    ASSUME AttemptsFinite
    PROVE  AttemptCount \in Nat
<1> DEFINE F == {{t} \X attempts[t] : t \in Tasks}
           f == [t \in Tasks |-> {t} \X attempts[t]]
<1>1. f \in Surjection(Tasks, F)
  BY DEF Surjection
<1>2. IsFiniteSet(F)
  BY <1>1, FS_Surjection, EngineAssumption
<1>3. \A T \in F : IsFiniteSet(T)
  <2>1. ASSUME NEW t \in Tasks
        PROVE  IsFiniteSet({t} \X attempts[t])
    <3>1. IsFiniteSet({t})
      BY FS_Singleton
    <3>2. IsFiniteSet(attempts[t])
      BY DEF AttemptsFinite
    <3> QED BY <3>1, <3>2, FS_Product
  <2> QED BY <2>1
<1>4. IsFiniteSet(UNION F)
  BY <1>2, <1>3, FS_UNION
<1> QED BY <1>4, FS_CardinalityType DEF AttemptCount

LEMMA CountsGrow ==
    ASSUME EInv, Grows, NEW t \in Tasks
    PROVE  /\ Cardinality(attempts[t]) \in Nat
           /\ Cardinality(attempts'[t]) \in Nat
           /\ Cardinality(attempts[t]) <= Cardinality(attempts'[t])
<1>1. /\ IsFiniteSet(attempts[t]) /\ IsFiniteSet(attempts'[t])
      /\ attempts[t] \in SUBSET attempts'[t]
  BY DEF EInv, AttemptsFinite, Grows
<1> QED BY <1>1, FS_CardinalityType, FS_Subset

LEMMA StillFits ==
    ASSUME EInv, Grows, NEW l, Fits(l, approval, attempts)
    PROVE  Fits(l, approval', attempts')
<1>1. l.pc \in {"execute", "ask", "outcome"} =>
         l.no \in 1 .. Cardinality(attempts'[l.work]) + 1
  BY CountsGrow DEF Fits
<1>2. l.pc = "ask" /\ l.seen = "approved" => approval'[l.work] = "approved"
  BY DEF Fits, Grows
<1> QED BY <1>1, <1>2 DEF Fits

\* A new attempt takes the next number.
LEMMA NextNumber ==
    ASSUME NEW A, IsFiniteSet(A), NEW a,
           NEW ns, ns = {x.no : x \in A}, ns = 1 .. Cardinality(A),
           a.no \in 1 .. Cardinality(A) + 1, a.no \notin ns
    PROVE  /\ IsFiniteSet(A \cup {a})
           /\ {x.no : x \in A \cup {a}} = 1 .. Cardinality(A \cup {a})
<1>1. Cardinality(A) \in Nat
  BY FS_CardinalityType
<1>2. a \notin A
  OBVIOUS
<1>3. IsFiniteSet(A \cup {a}) /\ Cardinality(A \cup {a}) = Cardinality(A) + 1
  BY <1>2, FS_AddElement
<1>4. {x.no : x \in A \cup {a}} = ns \cup {a.no}
  OBVIOUS
<1>5. a.no = Cardinality(A) + 1
  BY <1>1
<1>6. ns \cup {a.no} = 1 .. Cardinality(A) + 1
  BY <1>1, <1>5
<1> QED BY <1>3, <1>4, <1>6

-----------------------------------------------------------------------------
(* An engine's step changes its own memory, which still fits.              *)

Remembers(e, l) == Goto(e, l) /\ Fits(l, approval, attempts)

LEMMA GotoType ==
    ASSUME EInv, Grows, NEW e \in Engines, NEW l, Remembers(e, l)
    PROVE  EnginesFit'
<1>1. eng' = [eng EXCEPT ![e] = l] /\ l \in Local
  BY DEF Remembers, Goto, Fits
<1>2. eng' \in [Engines -> Local]
  BY <1>1 DEF EInv, EnginesFit
<1>3. \A f \in Engines : eng'[f] = IF f = e THEN l ELSE eng[f]
  BY <1>1 DEF EInv, EnginesFit
<1>4. \A f \in Engines : Fits(eng'[f], approval', attempts')
  BY <1>3, StillFits DEF EInv, EnginesFit, Remembers
<1> QED BY <1>2, <1>4 DEF EnginesFit

\* Nothing in the repository binds a process at the other steps.
LEMMA FitsAnyhow ==
    ASSUME NEW l \in Local,
           l.pc \notin {"claims", "assign", "number", "execute", "ask", "outcome", "task"}
    PROVE  Fits(l, approval, attempts)
BY DEF Fits

LEMMA RunMoves ==
    ASSUME EInv, NEW e \in Engines,
           \/ LoadGoal(e) \/ CheckClaims(e) \/ CheckApprovals(e) \/ Resume(e)
           \/ EndRun(e) \/ SavePlanning(e) \/ SavePlan(e) \/ RejectPlan(e)
           \/ StartGoal(e) \/ Abort(e) \/ Crash(e)
    PROVE  \E l \in Local : Remembers(e, l)
<1> DEFINE q == eng[e]
<1>0. /\ q \in Local /\ Fits(q, approval, attempts) /\ goal \in GoalStatus
      /\ Idle \in Local /\ Idle.pc = "idle"
  BY DEF EInv, EnginesFit, LTypeOK, Idle, Local, Steps, GoalStatus, ApprovalStatus,
         TaskStatus
<1>1. CASE LoadGoal(e)
  <2> DEFINE l == [Idle EXCEPT !.pc = "claims", !.goal = goal]
  <2>1. l \in Local /\ l.pc = "claims" /\ l.goal = goal
    BY <1>0 DEF Local, Steps
  <2>2. Goto(e, l) /\ goal \notin TerminalGoal
    BY <1>1 DEF LoadGoal
  <2> HIDE DEF l
  <2> QED BY <2>1, <2>2 DEF Fits, Remembers
<1>2. CASE CheckClaims(e)
  <2>1. CASE Goto(e, Idle)
    BY <1>0, <2>1, FitsAnyhow DEF Remembers
  <2>2. CASE Goto(e, [q EXCEPT !.pc = Entry(q.goal)])
    <3>1. Entry(q.goal) \in {"approvals", "planning", "plan", "interrupted"}
      <4>1. q.goal \in {"created", "planning", "running", "paused"}
        BY <1>0, <1>2 DEF CheckClaims, At, Fits, Local, GoalStatus, TerminalGoal
      <4> QED BY <4>1 DEF Entry
    <3> DEFINE l == [q EXCEPT !.pc = Entry(q.goal)]
    <3>2. l \in Local /\ l.pc \in {"approvals", "planning", "plan", "interrupted"}
      BY <1>0, <3>1 DEF Local, Steps
    <3> HIDE DEF l
    <3> QED BY <2>2, <3>2, FitsAnyhow DEF Remembers, l
  <2> QED BY <1>2, <2>1, <2>2 DEF CheckClaims
<1>3. ASSUME NEW pc \in Steps, NEW g \in GoalStatus,
             pc \notin {"claims", "assign", "number", "execute", "ask", "outcome", "task"},
             Goto(e, [q EXCEPT !.pc = pc, !.goal = g])
      PROVE  \E l \in Local : Remembers(e, l)
  <2> DEFINE l == [q EXCEPT !.pc = pc, !.goal = g]
  <2>1. l \in Local /\ l.pc = pc
    BY <1>0 DEF Local
  <2> HIDE DEF l
  <2> QED BY <1>3, <2>1, FitsAnyhow DEF Remembers, l
<1>4. CASE CheckApprovals(e)
  BY <1>0, <1>3, <1>4, FitsAnyhow DEF CheckApprovals, Ending, Remembers, Steps, GoalStatus
<1>5. CASE Resume(e) \/ StartGoal(e)
  <2> DEFINE l == [q EXCEPT !.pc = "interrupted"]
  <2>1. l \in Local /\ l.pc = "interrupted" /\ Goto(e, l)
    BY <1>0, <1>5 DEF Local, Steps, Resume, StartGoal
  <2> HIDE DEF l
  <2> QED BY <2>1, FitsAnyhow DEF Remembers
<1>6. CASE SavePlanning(e) \/ SavePlan(e) \/ RejectPlan(e)
  BY <1>3, <1>6 DEF SavePlanning, SavePlan, RejectPlan, Ending, Steps, GoalStatus
<1>7. CASE EndRun(e) \/ Abort(e) \/ Crash(e)
  BY <1>0, <1>7, FitsAnyhow DEF EndRun, Abort, Crash, Remembers
<1> QED BY <1>1, <1>2, <1>4, <1>5, <1>6, <1>7

LEMMA LoopMoves ==
    ASSUME EInv, NEW e \in Engines,
           \/ ListInterrupted(e) \/ RecoverTask(e) \/ Recovered(e) \/ CountActions(e)
           \/ FinishGoal(e) \/ ChooseTask(e) \/ NoAgent(e) \/ StartTask(e)
           \/ NumberAttempt(e) \/ Execute(e) \/ ConsultApproval(e)
    PROVE  \E l \in Local : Remembers(e, l)
<1> DEFINE q == eng[e]
<1>0. q \in Local /\ Fits(q, approval, attempts)
  BY DEF EInv, EnginesFit
<1>1. CASE ListInterrupted(e)
  <2> DEFINE todo == {t \in Tasks : task[t] = "running"}
             l == [q EXCEPT !.pc = "recover", !.todo = todo]
  <2>1. todo \in SUBSET Tasks /\ Goto(e, l)
    BY <1>1 DEF ListInterrupted
  <2> HIDE DEF todo
  <2>2. l \in Local /\ l.pc = "recover"
    BY <1>0, <2>1 DEF Local, Steps
  <2> HIDE DEF l
  <2> QED BY <2>1, <2>2, FitsAnyhow DEF Remembers
<1>2. CASE RecoverTask(e)
  <2>1. PICK t \in Tasks : Goto(e, [q EXCEPT !.todo = q.todo \ {t}])
    BY <1>0, <1>2 DEF RecoverTask, Local
  <2> DEFINE l == [q EXCEPT !.todo = q.todo \ {t}]
  <2>2. l \in Local /\ l.pc = "recover"
    BY <1>0, <1>2 DEF Local, RecoverTask, At
  <2> HIDE DEF l
  <2> QED BY <2>1, <2>2, FitsAnyhow DEF Remembers, l
<1>3. CASE Recovered(e)
  <2> DEFINE l == [q EXCEPT !.pc = "count"]
  <2>1. l \in Local /\ l.pc = "count" /\ Goto(e, l)
    BY <1>0, <1>3 DEF Local, Steps, Recovered
  <2> HIDE DEF l
  <2> QED BY <2>1, FitsAnyhow DEF Remembers
<1>4. CASE CountActions(e)
  <2> DEFINE l == [q EXCEPT !.pc = "choose", !.actions = AttemptCount]
  <2>1. l \in Local /\ l.pc = "choose" /\ Goto(e, l)
    BY <1>0, <1>4, AttemptCounted DEF Local, Steps, CountActions, EInv
  <2> HIDE DEF l
  <2> QED BY <2>1, FitsAnyhow DEF Remembers
<1>5. CASE FinishGoal(e) \/ NoAgent(e)
  <2>1. PICK g \in GoalStatus : Goto(e, [q EXCEPT !.pc = "end", !.goal = g])
    BY <1>5 DEF FinishGoal, NoAgent, Ending, LoopVerdict, GoalStatus
  <2> DEFINE l == [q EXCEPT !.pc = "end", !.goal = g]
  <2>2. l \in Local /\ l.pc = "end"
    BY <1>0 DEF Local, Steps
  <2> HIDE DEF l
  <2> QED BY <2>1, <2>2, FitsAnyhow DEF Remembers, l
<1>6. CASE ChooseTask(e)
  <2>1. PICK t \in Tasks : Goto(e, [q EXCEPT !.pc = "assign", !.work = t])
    BY <1>6 DEF ChooseTask, Ready
  <2> DEFINE l == [q EXCEPT !.pc = "assign", !.work = t]
  <2>2. l \in Local /\ l.pc = "assign" /\ l.work = t
    BY <1>0 DEF Local, Steps
  <2> HIDE DEF l
  <2> QED BY <2>1, <2>2 DEF Remembers, Fits, l
<1>7. CASE StartTask(e)
  <2> DEFINE l == [q EXCEPT !.pc = "number"]
  <2>1. l \in Local /\ l.pc = "number" /\ l.work = q.work /\ Goto(e, l) /\ q.work \in Tasks
    BY <1>0, <1>7 DEF Local, Steps, StartTask, At, Fits
  <2> HIDE DEF l
  <2> QED BY <2>1 DEF Remembers, Fits
<1>8. CASE NumberAttempt(e)
  <2> DEFINE no == Cardinality(attempts[q.work]) + 1
             l == [q EXCEPT !.pc = "execute", !.no = no]
  <2>1. q.work \in Tasks
    BY <1>0, <1>8 DEF NumberAttempt, At, Fits
  <2>2. Cardinality(attempts[q.work]) \in Nat
    BY <2>1, FS_CardinalityType DEF EInv, AttemptsFinite
  <2>3. no \in 1 .. Cardinality(attempts[q.work]) + 1 /\ no \in Nat
    BY <2>2
  <2>4. Goto(e, l)
    BY <1>8 DEF NumberAttempt, On
  <2> HIDE DEF no
  <2>5. l \in Local /\ l.pc = "execute" /\ l.work = q.work /\ l.no = no
    BY <1>0, <2>3 DEF Local, Steps
  <2> HIDE DEF l
  <2> QED BY <2>1, <2>3, <2>4, <2>5 DEF Remembers, Fits
<1>9. CASE Execute(e)
  <2>1. PICK r \in Results : Goto(e, [q EXCEPT !.pc = "outcome", !.result = r])
    BY <1>9 DEF Execute, Reviewed
  <2> DEFINE l == [q EXCEPT !.pc = "outcome", !.result = r]
  <2>2. l \in Local /\ l.pc = "outcome" /\ l.work = q.work /\ l.no = q.no /\ l.result = r
    BY <1>0 DEF Local, Steps
  <2>3. q.pc = "execute"
    BY <1>9 DEF Execute, At
  <2> HIDE DEF l
  <2> QED BY <1>0, <2>1, <2>2, <2>3 DEF Remembers, Fits, l
<1>10. CASE ConsultApproval(e)
  <2> DEFINE l == [q EXCEPT !.pc = "ask", !.seen = approval[q.work]]
  <2>1. q.work \in Tasks /\ q.pc = "execute" /\ approval[q.work] \in ApprovalStatus
    BY <1>0, <1>10 DEF ConsultApproval, At, Fits, EInv, LTypeOK
  <2>2. /\ l \in Local /\ l.pc = "ask" /\ l.work = q.work /\ l.no = q.no
        /\ l.seen = approval[q.work]
    BY <1>0, <2>1 DEF Local, Steps
  <2>3. Goto(e, l)
    BY <1>10 DEF ConsultApproval, On
  <2> HIDE DEF l
  <2> QED BY <1>0, <2>1, <2>2, <2>3 DEF Remembers, Fits
<1> QED BY <1>1, <1>2, <1>3, <1>4, <1>5, <1>6, <1>7, <1>8, <1>9, <1>10

LEMMA OutcomeMoves ==
    ASSUME EInv, NEW e \in Engines,
           \/ CallTool(e) \/ DenyTool(e) \/ RequestApproval(e) \/ SaveOutcome(e)
           \/ FinishTask(e)
    PROVE  \E l \in Local : Remembers(e, l)
<1> DEFINE q == eng[e]
<1>0. q \in Local /\ Fits(q, approval, attempts)
  BY DEF EInv, EnginesFit
<1>1. CASE CallTool(e) \/ DenyTool(e)
  <2>1. PICK r \in Results : Goto(e, [q EXCEPT !.pc = "outcome", !.result = r])
    BY <1>1 DEF CallTool, DenyTool, Reviewed, Results
  <2> DEFINE l == [q EXCEPT !.pc = "outcome", !.result = r]
  <2>2. l \in Local /\ l.pc = "outcome" /\ l.work = q.work /\ l.no = q.no /\ l.result = r
    BY <1>0 DEF Local, Steps
  <2>3. q.pc = "ask"
    BY <1>1 DEF CallTool, DenyTool, At
  <2> HIDE DEF l
  <2> QED BY <1>0, <2>1, <2>2, <2>3 DEF Remembers, Fits, l
<1>2. CASE RequestApproval(e)
  <2> DEFINE l == [q EXCEPT !.pc = "task", !.next = "pending", !.goal = "paused"]
  <2>1. /\ l \in Local /\ l.pc = "task" /\ l.work = q.work /\ Goto(e, l)
        /\ q.work \in Tasks
    BY <1>0, <1>2 DEF Local, Steps, RequestApproval, TaskStatus, GoalStatus, At, Fits
  <2> HIDE DEF l
  <2> QED BY <2>1 DEF Remembers, Fits
<1>3. CASE SaveOutcome(e)
  <2> DEFINE status == NextTask(q.work, q.result, q.no)
             g == IF status \in {"failed", "blocked"} THEN status ELSE "running"
             n == q.actions + 1
             l == [q EXCEPT !.pc = "task", !.actions = n, !.next = status, !.goal = g]
  <2>1. q.work \in Tasks /\ q.result \in Results
    BY <1>0, <1>3 DEF SaveOutcome, At, Fits
  <2>2. status \in TaskStatus /\ g \in GoalStatus
    BY <2>1 DEF NextTask, Results, TaskStatus, GoalStatus
  <2>3. Goto(e, l)
    BY <1>3 DEF SaveOutcome, On
  <2>4. n \in Nat
    BY <1>0 DEF Local
  <2> HIDE DEF status, g, n
  <2>5. l \in Local /\ l.pc = "task" /\ l.work = q.work
    BY <1>0, <2>2, <2>4 DEF Local, Steps
  <2> HIDE DEF l
  <2> QED BY <2>1, <2>3, <2>5 DEF Remembers, Fits
<1>4. CASE FinishTask(e)
  <2>1. \E l \in Local : Goto(e, l) /\ l.pc \in {"choose", "end"}
    <3> DEFINE l1 == [Idle EXCEPT !.pc = "choose", !.goal = "running", !.actions = q.actions]
               l2 == [Idle EXCEPT !.pc = "end", !.goal = q.goal]
    <3>0. q.actions \in Nat /\ q.goal \in GoalStatus
      BY <1>0 DEF Local
    <3>1. l1 \in Local /\ l1.pc = "choose"
      BY <3>0 DEF Idle, Local, Steps, GoalStatus, ApprovalStatus, TaskStatus
    <3>2. l2 \in Local /\ l2.pc = "end"
      BY <3>0 DEF Idle, Local, Steps, ApprovalStatus, TaskStatus, GoalStatus
    <3>3. Goto(e, l1) \/ Goto(e, l2)
      BY <1>4 DEF FinishTask
    <3> HIDE DEF l1, l2
    <3> QED BY <3>1, <3>2, <3>3
  <2> QED BY <2>1, FitsAnyhow DEF Remembers
<1> QED BY <1>1, <1>2, <1>3, <1>4

-----------------------------------------------------------------------------
(* The rows a step leaves.                                                 *)

RowTypes ==
    /\ goal \in GoalStatus
    /\ task \in [Tasks -> TaskStatus]
    /\ attempts \in [Tasks -> SUBSET [no : Nat, result : Results]]
    /\ approval \in [Tasks -> ApprovalStatus]
    /\ called \subseteq Tasks
    /\ claimed \subseteq Tasks
    /\ crashes \in 0 .. MaxCrashes

Rows == RowTypes' /\ Grows /\ AttemptsNumbered'

LEMMA SameAttempts ==
    ASSUME EInv, UNCHANGED attempts
    PROVE  /\ AttemptsNumbered'
           /\ \A t \in Tasks : attempts[t] \subseteq attempts'[t]
           /\ \A t \in Tasks : IsFiniteSet(attempts'[t])
BY DEF EInv, AttemptsNumbered, AttemptsFinite

LEMMA SameApprovals ==
    ASSUME EInv, UNCHANGED <<attempts, approval>>
    PROVE  Grows /\ AttemptsNumbered'
BY SameAttempts DEF Grows

\* An attempt is added under the next number.
LEMMA AddAttempt ==
    ASSUME EInv, NEW t \in Tasks, NEW a \in [no : Nat, result : Results],
           a.no \in 1 .. Cardinality(attempts[t]) + 1, IsNewNumber(t, a.no),
           attempts' = [attempts EXCEPT ![t] = @ \cup {a}]
    PROVE  /\ attempts' \in [Tasks -> SUBSET [no : Nat, result : Results]]
           /\ AttemptsNumbered'
           /\ \A u \in Tasks : attempts[u] \subseteq attempts'[u]
           /\ \A u \in Tasks : IsFiniteSet(attempts'[u])
<1>0. attempts \in [Tasks -> SUBSET [no : Nat, result : Results]]
  BY DEF EInv, LTypeOK
<1>1. /\ attempts'[t] = attempts[t] \cup {a}
      /\ \A u \in Tasks \ {t} : attempts'[u] = attempts[u]
  BY <1>0
<1>2. attempts' \in [Tasks -> SUBSET [no : Nat, result : Results]]
  BY <1>0
<1>3. /\ \A u \in Tasks : IsFiniteSet(attempts[u])
      /\ \A u \in Tasks : {x.no : x \in attempts[u]} = 1 .. Cardinality(attempts[u])
  BY DEF EInv, AttemptsFinite, AttemptsNumbered
<1>4. a.no \notin {x.no : x \in attempts[t]}
  BY DEF IsNewNumber
<1>5. /\ IsFiniteSet(attempts'[t])
      /\ {x.no : x \in attempts'[t]} = 1 .. Cardinality(attempts'[t])
  <2> DEFINE A == attempts[t]
             ns == {x.no : x \in A}
  <2>1. /\ IsFiniteSet(A) /\ ns = 1 .. Cardinality(A) /\ ns = {x.no : x \in A}
        /\ a.no \in 1 .. Cardinality(A) + 1 /\ a.no \notin ns
    BY <1>3, <1>4
  <2>2. attempts'[t] = A \cup {a}
    BY <1>1
  <2> HIDE DEF A, ns
  <2>3. /\ IsFiniteSet(A \cup {a})
        /\ {x.no : x \in A \cup {a}} = 1 .. Cardinality(A \cup {a})
    BY <2>1, NextNumber
  <2> QED BY <2>2, <2>3
<1>6. AttemptsNumbered'
  BY <1>1, <1>3, <1>5 DEF AttemptsNumbered
<1> QED BY <1>1, <1>2, <1>3, <1>5, <1>6

LEMMA EngineRows ==
    ASSUME EInv, NEW e \in Engines, LoadGoal(e) \/ Step(e) \/ Crash(e)
    PROVE  Rows
<1> DEFINE q == eng[e]
<1>0. /\ q \in Local /\ Fits(q, approval, attempts) /\ RowTypes
  BY DEF EInv, EnginesFit, LTypeOK, RowTypes
<1>1. CASE UNCHANGED db /\ crashes' \in 0 .. MaxCrashes
  BY <1>0, <1>1, SameApprovals DEF db, Rows, RowTypes
<1>2. CASE \E g \in GoalStatus :
               goal' = g /\ UNCHANGED <<task, attempts, approval, called, claimed, crashes>>
  BY <1>0, <1>2, SameApprovals DEF Rows, RowTypes
<1>3. ASSUME task' \in [Tasks -> TaskStatus],
             UNCHANGED <<goal, attempts, approval, called, claimed, crashes>>
      PROVE  Rows
  BY <1>0, <1>3, SameApprovals DEF Rows, RowTypes
<1>4. CASE \/ LoadGoal(e) \/ CheckClaims(e) \/ CheckApprovals(e) \/ RejectPlan(e)
           \/ ListInterrupted(e) \/ Recovered(e) \/ CountActions(e) \/ FinishGoal(e)
           \/ ChooseTask(e) \/ NoAgent(e) \/ NumberAttempt(e) \/ Execute(e)
           \/ ConsultApproval(e) \/ DenyTool(e) \/ Abort(e)
  <2>1. UNCHANGED <<db, crashes>>
    BY <1>4 DEF LoadGoal, CheckClaims, CheckApprovals, RejectPlan, ListInterrupted,
         Recovered, CountActions, FinishGoal, ChooseTask, NoAgent, NumberAttempt,
         Execute, ConsultApproval, DenyTool, Abort
  <2> QED BY <1>0, <1>1, <2>1 DEF RowTypes
<1>5. CASE Crash(e)
  BY <1>0, <1>1, <1>5, EngineAssumption DEF Crash, RowTypes
<1>6. CASE Resume(e) \/ EndRun(e) \/ SavePlanning(e) \/ StartGoal(e)
  BY <1>0, <1>2, <1>6 DEF Resume, EndRun, SavePlanning, StartGoal, SaveGoal, Local,
                          GoalStatus
<1>7. CASE SavePlan(e) \/ RecoverTask(e)
  BY <1>0, <1>3, <1>7 DEF SavePlan, RecoverTask, RowTypes, TaskStatus
<1>8. CASE StartTask(e) \/ FinishTask(e)
  <2>1. PICK s \in TaskStatus : SaveTask(On(e), s)
    BY <1>0, <1>8 DEF StartTask, FinishTask, Local, TaskStatus
  <2> QED BY <1>0, <1>3, <2>1 DEF SaveTask, RowTypes
<1>9. CASE CallTool(e)
  <2>1. q.work \in Tasks /\ called' = called \cup {q.work}
    BY <1>0, <1>9 DEF CallTool, At, Fits, On
  <2> QED BY <1>0, <1>9, <2>1, SameApprovals DEF CallTool, Rows, RowTypes
<1>10. CASE RequestApproval(e)
  <2>1. /\ approval[q.work] \in {"none", "pending"}
        /\ approval' = [approval EXCEPT ![q.work] = "pending"]
    BY <1>10 DEF RequestApproval, On
  <2>2. approval' \in [Tasks -> ApprovalStatus]
    BY <1>0, <2>1 DEF RowTypes, ApprovalStatus
  <2>3. \A t \in Tasks : approval[t] = "approved" => approval'[t] = "approved"
    BY <1>0, <2>1 DEF RowTypes
  <2> QED BY <1>0, <1>10, <2>2, <2>3, SameAttempts DEF RequestApproval, Rows, RowTypes, Grows
<1>11. CASE SaveOutcome(e)
  <2> DEFINE a == [no |-> q.no, result |-> q.result]
  <2>1. /\ q.work \in Tasks /\ q.result \in Results
        /\ q.no \in 1 .. Cardinality(attempts[q.work]) + 1
        /\ IsNewNumber(q.work, q.no)
        /\ attempts' = [attempts EXCEPT ![q.work] = @ \cup {a}]
    BY <1>0, <1>11 DEF SaveOutcome, At, Fits, On
  <2>2. a \in [no : Nat, result : Results] /\ a.no = q.no
    BY <1>0, <2>1 DEF Local
  <2> HIDE DEF a
  <2>3. /\ attempts' \in [Tasks -> SUBSET [no : Nat, result : Results]]
        /\ AttemptsNumbered'
        /\ \A u \in Tasks : attempts[u] \subseteq attempts'[u]
        /\ \A u \in Tasks : IsFiniteSet(attempts'[u])
    BY <2>1, <2>2, AddAttempt
  <2> QED BY <1>0, <1>11, <2>3 DEF SaveOutcome, Rows, RowTypes, Grows
<1> QED BY <1>4, <1>5, <1>6, <1>7, <1>8, <1>9, <1>10, <1>11 DEF Step

LEMMA OutsideRows ==
    ASSUME EInv, NEW t \in Tasks,
           \/ \E d \in {"approved", "rejected"} : ResolveApproval(t, d)
           \/ ClaimTask(t)
           \/ \E r \in Results : CommitClaim(t, r)
           \/ PauseClaim(t)
           \/ \E s \in {"pending", "blocked"} : DropClaim(t, s)
    PROVE  Rows /\ UNCHANGED eng
<1>0. RowTypes
  BY DEF EInv, LTypeOK, RowTypes
<1>1. ASSUME NEW d \in {"approved", "rejected"}, ResolveApproval(t, d)
      PROVE  Rows /\ UNCHANGED eng
  <2>1. approval' \in [Tasks -> ApprovalStatus] /\ goal' \in GoalStatus
    BY <1>0, <1>1 DEF ResolveApproval, RowTypes, ApprovalStatus, GoalStatus
  <2>2. \A u \in Tasks : approval[u] = "approved" => approval'[u] = "approved"
    BY <1>0, <1>1 DEF ResolveApproval, RowTypes
  <2> QED BY <1>0, <1>1, <2>1, <2>2, SameAttempts
          DEF ResolveApproval, Rows, RowTypes, Grows
<1>2. CASE ClaimTask(t)
  BY <1>0, <1>2, SameApprovals DEF ClaimTask, Rows, RowTypes, TaskStatus
<1>3. ASSUME NEW r \in Results, CommitClaim(t, r)
      PROVE  Rows /\ UNCHANGED eng
  <2> DEFINE n == Cardinality(attempts[t])
             no == n + 1
             status == NextTask(t, r, no)
             a == [no |-> no, result |-> r]
  <2>1. /\ n \in Nat /\ {x.no : x \in attempts[t]} = 1 .. n
    BY FS_CardinalityType DEF EInv, AttemptsFinite, AttemptsNumbered
  <2>2. no \in 1 .. n + 1 /\ no \in Nat /\ IsNewNumber(t, no)
    BY <2>1 DEF IsNewNumber
  <2>3. /\ claimed' = claimed \ {t}
        /\ attempts' = [attempts EXCEPT ![t] = @ \cup {a}]
        /\ task' = [task EXCEPT ![t] = status]
        /\ goal' = CASE status \in {"failed", "blocked"} -> status
                     [] AllSucceeded' -> "succeeded"
                     [] OTHER -> goal
        /\ called' \in {called, called \cup {t}}
        /\ UNCHANGED <<approval, eng, crashes>>
    BY <1>3 DEF CommitClaim
  <2>4. status \in TaskStatus
    BY DEF NextTask, Results, TaskStatus
  <2> HIDE DEF status
  <2>5. goal' \in GoalStatus
    BY <1>0, <2>3 DEF RowTypes, GoalStatus
  <2> HIDE DEF n
  <2>6. a \in [no : Nat, result : Results] /\ a.no = no
    BY <2>2
  <2> HIDE DEF a, no
  <2>7. /\ attempts' \in [Tasks -> SUBSET [no : Nat, result : Results]]
        /\ AttemptsNumbered'
        /\ \A u \in Tasks : attempts[u] \subseteq attempts'[u]
        /\ \A u \in Tasks : IsFiniteSet(attempts'[u])
    BY <2>2, <2>3, <2>6, AddAttempt DEF n
  <2> QED BY <1>0, <2>3, <2>4, <2>5, <2>7 DEF Rows, RowTypes, Grows
<1>4. CASE PauseClaim(t)
  <2>1. approval' \in [Tasks -> ApprovalStatus]
    BY <1>0, <1>4 DEF PauseClaim, RowTypes, ApprovalStatus
  <2>2. \A u \in Tasks : approval[u] = "approved" => approval'[u] = "approved"
    BY <1>0, <1>4 DEF PauseClaim, RowTypes
  <2> QED BY <1>0, <1>4, <2>1, <2>2, SameAttempts
          DEF PauseClaim, Rows, RowTypes, Grows, TaskStatus, GoalStatus
<1>5. CASE \E s \in {"pending", "blocked"} : DropClaim(t, s)
  BY <1>0, <1>5, SameApprovals DEF DropClaim, Rows, RowTypes, TaskStatus
<1> QED BY <1>1, <1>2, <1>3, <1>4, <1>5

LEMMA EngineStep ==
    ASSUME EInv, [Next]_vars
    PROVE  EInv'
<1>1. ASSUME Rows, EnginesFit'
      PROVE  EInv'
  BY <1>1 DEF EInv, Rows, RowTypes, LTypeOK, Grows, AttemptsFinite, EnginesFit
<1>2. ASSUME NEW e \in Engines, LoadGoal(e) \/ Step(e) \/ Crash(e)
      PROVE  EInv'
  <2>1. Rows
    BY <1>2, EngineRows
  <2>2. \E l \in Local : Remembers(e, l)
    BY <1>2, RunMoves, LoopMoves, OutcomeMoves DEF Step
  <2>3. EnginesFit'
    BY <2>1, <2>2, GotoType DEF Rows
  <2> QED BY <1>1, <2>1, <2>3
<1>3. ASSUME NEW t \in Tasks,
             \/ \E d \in {"approved", "rejected"} : ResolveApproval(t, d)
             \/ ClaimTask(t)
             \/ \E r \in Results : CommitClaim(t, r)
             \/ PauseClaim(t)
             \/ \E s \in {"pending", "blocked"} : DropClaim(t, s)
      PROVE  EInv'
  <2>1. Rows /\ UNCHANGED eng
    BY <1>3, OutsideRows
  <2>2. EnginesFit'
    BY <2>1, StillFits DEF Rows, EInv, EnginesFit
  <2> QED BY <1>1, <2>1, <2>2
<1>4. CASE UNCHANGED vars
  BY <1>4 DEF vars, EInv, LTypeOK, AttemptsFinite, EnginesFit, AttemptsNumbered
<1> QED BY <1>2, <1>3, <1>4 DEF Next

LEMMA EngineInit ==
    ASSUME Init
    PROVE  EInv
<1>1. Idle \in Local /\ Idle.pc = "idle"
  BY DEF Idle, Local, Steps, GoalStatus, ApprovalStatus, TaskStatus
<1>2. LTypeOK
  BY <1>1, EngineAssumption DEF Init, LTypeOK, GoalStatus, TaskStatus, ApprovalStatus
<1>3. AttemptsFinite /\ AttemptsNumbered
  BY FS_EmptySet DEF Init, AttemptsFinite, AttemptsNumbered
<1>4. EnginesFit
  BY <1>1, FitsAnyhow DEF Init, EnginesFit
<1> QED BY <1>2, <1>3, <1>4 DEF EInv

\* An engine's memory and the rows keep their types; the actions of a run are
\* counted from a finite set of completed attempts.
THEOREM EngineTypes == Spec => []LTypeOK
BY EngineInit, EngineStep, PTL DEF Spec, EInv

\* Attempts are numbered without a gap or a repetition, however long engines
\* hold a number before they save under it, and whoever saves meanwhile.
THEOREM AttemptsAreNumbered == Spec => []AttemptsNumbered
BY EngineInit, EngineStep, PTL DEF Spec, EInv

-----------------------------------------------------------------------------
(* The calls and the claims.                                               *)

\* What an engine's step does to the calls, the claims and the tasks.
LEMMA EngineKeeps ==
    ASSUME EInv, NEW e \in Engines, LoadGoal(e) \/ Step(e) \/ Crash(e)
    PROVE  /\ claimed' = claimed
           /\ \A t \in claimed : task'[t] = task[t]
           /\ called' = called \/ (called' = called \cup {On(e)} /\ eng[e].pc = "ask"
                                                   /\ eng[e].seen = "approved")
<1>0. task \in [Tasks -> TaskStatus] /\ claimed \subseteq Tasks
  BY DEF EInv, LTypeOK
<1>1. CASE \/ LoadGoal(e) \/ CheckClaims(e) \/ CheckApprovals(e) \/ RejectPlan(e)
           \/ ListInterrupted(e) \/ Recovered(e) \/ CountActions(e) \/ FinishGoal(e)
           \/ ChooseTask(e) \/ NoAgent(e) \/ NumberAttempt(e) \/ Execute(e)
           \/ ConsultApproval(e) \/ DenyTool(e) \/ Abort(e) \/ Crash(e)
  BY <1>1 DEF db, LoadGoal, CheckClaims, CheckApprovals, RejectPlan, ListInterrupted,
         Recovered, CountActions, FinishGoal, ChooseTask, NoAgent, NumberAttempt,
         Execute, ConsultApproval, DenyTool, Abort, Crash
<1>2. CASE Resume(e) \/ EndRun(e) \/ SavePlanning(e) \/ StartGoal(e) \/ CallTool(e)
           \/ RequestApproval(e) \/ SaveOutcome(e)
  BY <1>2 DEF Resume, EndRun, SavePlanning, StartGoal, SaveGoal, CallTool,
              RequestApproval, SaveOutcome, At
<1>3. CASE SavePlan(e)
  BY <1>3 DEF SavePlan
<1>4. CASE RecoverTask(e) \/ StartTask(e) \/ FinishTask(e)
  BY <1>0, <1>4 DEF RecoverTask, StartTask, FinishTask, SaveTask
<1> QED BY <1>1, <1>2, <1>3, <1>4 DEF Step

\* A tool call that needs approval is only ever made under an approved request,
\* and that decision stays.
THEOREM GuardedCallsAreApproved == Spec => []GuardedCallsApproved
<1>1. Init => GuardedCallsApproved
  BY DEF Init, GuardedCallsApproved
<1>2. EInv /\ GuardedCallsApproved /\ [Next]_vars => GuardedCallsApproved'
  <2> SUFFICES ASSUME EInv, GuardedCallsApproved, [Next]_vars
               PROVE  GuardedCallsApproved'
    OBVIOUS
  <2>0. called \subseteq Tasks
    BY DEF EInv, LTypeOK
  <2>1. ASSUME NEW e \in Engines, LoadGoal(e) \/ Step(e) \/ Crash(e)
        PROVE  GuardedCallsApproved'
    <3>1. Grows
      BY <2>1, EngineRows DEF Rows
    <3>2. eng[e].pc = "ask" /\ eng[e].seen = "approved" =>
             On(e) \in Tasks /\ approval[On(e)] = "approved"
      BY DEF EInv, EnginesFit, Fits, On
    <3> QED BY <2>0, <2>1, <3>1, <3>2, EngineKeeps DEF Grows, GuardedCallsApproved
  <2>2. ASSUME NEW t \in Tasks,
               \/ \E d \in {"approved", "rejected"} : ResolveApproval(t, d)
               \/ ClaimTask(t)
               \/ \E r \in Results : CommitClaim(t, r)
               \/ PauseClaim(t)
               \/ \E s \in {"pending", "blocked"} : DropClaim(t, s)
        PROVE  GuardedCallsApproved'
    <3>1. Grows
      BY <2>2, OutsideRows DEF Rows
    <3>2. called' = called \/ (called' = called \cup {t} /\ approval[t] = "approved")
      BY <2>2 DEF ResolveApproval, ClaimTask, CommitClaim, PauseClaim, DropClaim
    <3> QED BY <2>0, <3>1, <3>2 DEF Grows, GuardedCallsApproved
  <2>3. CASE UNCHANGED vars
    BY <2>3 DEF vars, GuardedCallsApproved
  <2> QED BY <2>1, <2>2, <2>3 DEF Next
<1> QED BY <1>1, <1>2, EngineInit, EngineStep, PTL DEF Spec

\* No engine ever writes the row of a task that a worker's claim owns.
THEOREM ClaimedTasksRun == Spec => []ClaimedTaskRuns
<1>1. Init => ClaimedTaskRuns
  BY DEF Init, ClaimedTaskRuns
<1>2. EInv /\ ClaimedTaskRuns /\ [Next]_vars => ClaimedTaskRuns'
  <2> SUFFICES ASSUME EInv, ClaimedTaskRuns, [Next]_vars
               PROVE  ClaimedTaskRuns'
    OBVIOUS
  <2>0. task \in [Tasks -> TaskStatus] /\ claimed \subseteq Tasks
    BY DEF EInv, LTypeOK
  <2>1. ASSUME NEW e \in Engines, LoadGoal(e) \/ Step(e) \/ Crash(e)
        PROVE  ClaimedTaskRuns'
    BY <2>1, EngineKeeps DEF ClaimedTaskRuns
  <2>2. ASSUME NEW t \in Tasks,
               \/ \E d \in {"approved", "rejected"} : ResolveApproval(t, d)
               \/ ClaimTask(t)
               \/ \E r \in Results : CommitClaim(t, r)
               \/ PauseClaim(t)
               \/ \E s \in {"pending", "blocked"} : DropClaim(t, s)
        PROVE  ClaimedTaskRuns'
    <3>1. \/ UNCHANGED <<task, claimed>>
          \/ ClaimTask(t)
          \/ /\ claimed' = claimed \ {t}
             /\ \E s : task' = [task EXCEPT ![t] = s]
      BY <2>2 DEF ResolveApproval, CommitClaim, PauseClaim, DropClaim
    <3> QED BY <2>0, <3>1 DEF ClaimTask, ClaimedTaskRuns
  <2>3. CASE UNCHANGED vars
    BY <2>3 DEF vars, ClaimedTaskRuns
  <2> QED BY <2>1, <2>2, <2>3 DEF Next
<1> QED BY <1>1, <1>2, EngineInit, EngineStep, PTL DEF Spec

-----------------------------------------------------------------------------
(* One engine serves the goal, and no worker does.                         *)

OneEngine == ~ Daemons /\ \E e : Engines = {e}

\* The steps of the outer loop, and those at which a task is being worked on.
AtWork == {"number", "execute", "ask", "outcome", "task"}
InLoop == {"interrupted", "recover", "count", "choose", "assign"} \cup AtWork

Decisive == {"succeeded", "failed", "blocked"}

\* The stored goal, for an engine with l in memory: only the operator moves it
\* meanwhile, and only a paused one.
GoalKept(l) ==
    /\ l.pc = "claims" =>
          l.goal = goal \/ (l.goal = "paused" /\ goal \in {"running", "failed"})
    /\ l.pc \in {"approvals", "resume"} => goal \in {"paused", "running", "failed"}
    /\ l.pc = "resume" => \A t \in Tasks : approval[t] \notin {"pending", "rejected"}
    /\ l.pc = "planning" => goal = "created"
    /\ l.pc \in {"plan", "started"} => goal = "planning"
    /\ l.pc \in InLoop => goal = "running"
    /\ l.pc \in {"resume", "started"} \cup (InLoop \ {"task"}) => l.goal = "running"
    /\ l.pc = "task" => l.goal \in {"running", "failed", "blocked", "paused"}
    /\ l.pc = "end" =>
          /\ l.goal \in {"succeeded", "failed", "blocked", "paused"}
          /\ goal \in {"running", "planning"} \/ l.goal = "failed"
          /\ l.goal = "succeeded" => AllSucceeded

\* The rows of the tasks it has in mind, and the result it is about to save.
TasksKept(l) ==
    /\ l.pc = "recover" => \A t \in l.todo : task[t] = "running"
    /\ l.pc = "assign" => task[l.work] = "pending"
    /\ l.pc \in AtWork => task[l.work] = "running"
    /\ l.pc = "task" =>
          /\ l.next \in Decisive \cup {"pending"}
          /\ l.next = "succeeded" => Passed(l.work)

\* The budget, and a task that may still be tried has been tried less often
\* than its maximum and the crashes allow.
BudgetKept(l) ==
    /\ l.pc \in {"choose", "assign"} \cup AtWork => l.actions = AttemptCount
    /\ l.pc \in {"assign"} \cup (AtWork \ {"task"}) => AttemptCount < MaxActions
    /\ \A t \in Tasks :
          \/ task[t] \in Decisive
          \/ l.pc = "task" /\ l.work = t /\ l.next # "pending"
          \/ Cardinality(attempts[t]) < MaxAttemptsOf[t] + crashes

\* A goal that is not planned yet has no attempts, and what ended is justified.
RowsKept ==
    /\ claimed = {}
    /\ goal \in {"created", "planning"} =>
          \A t \in Tasks : task[t] \in {"absent", "pending"} /\ attempts[t] = {}
    /\ EndIsJustified
    /\ ActionsBounded

Keeps(l) == GoalKept(l) /\ TasksKept(l) /\ BudgetKept(l)

OneInv == EInv /\ RowsKept /\ \A e \in Engines : Keeps(eng[e])

LEMMA SameBudget ==
    ASSUME UNCHANGED attempts
    PROVE  AttemptCount' = AttemptCount
BY DEF AttemptCount

\* A step that writes no row keeps them; what the engine has in memory then
\* remains to be looked at.
LEMMA OnlyMemory ==
    ASSUME OneInv, NEW e, Engines = {e}, NEW l, Goto(e, l), UNCHANGED <<db, crashes>>,
           Keeps(l)
    PROVE  RowsKept' /\ Keeps(eng[e])'
<1>0. eng'[e] = l
  BY DEF OneInv, EInv, EnginesFit, Goto
<1>1. UNCHANGED <<goal, task, attempts, approval, claimed, crashes>> /\ AttemptCount' = AttemptCount
  BY SameBudget DEF db
<1>2. RowsKept'
  BY <1>1 DEF OneInv, RowsKept, EndIsJustified, ActionsBounded, Passed
<1>3. GoalKept(eng[e])'
  BY <1>0, <1>1 DEF Keeps, GoalKept, AllSucceeded
<1>4. TasksKept(eng[e])'
  BY <1>0, <1>1 DEF Keeps, TasksKept, Passed
<1>5. BudgetKept(eng[e])'
  BY <1>0, <1>1 DEF Keeps, BudgetKept
<1> QED BY <1>2, <1>3, <1>4, <1>5 DEF Keeps

\* What the memory of an idle engine keeps, crashed or done.
LEMMA IdleKeeps ==
    ASSUME OneInv, NEW e \in Engines,
           ~ (eng[e].pc = "task" /\ eng[e].next # "pending")
    PROVE  Keeps(Idle)
<1>1. BudgetKept(eng[e])
  BY DEF OneInv, Keeps
<1> QED BY <1>1 DEF Keeps, GoalKept, TasksKept, BudgetKept, Idle, InLoop, AtWork

LEMMA EntersRun ==
    ASSUME OneInv, NEW e, Engines = {e},
           \/ LoadGoal(e) \/ CheckClaims(e) \/ CheckApprovals(e) \/ RejectPlan(e)
           \/ Abort(e)
    PROVE  RowsKept' /\ Keeps(eng[e])'
<1> DEFINE q == eng[e]
<1>0. /\ e \in Engines /\ q \in Local /\ Fits(q, approval, attempts) /\ Keeps(q)
      /\ GoalKept(q) /\ TasksKept(q) /\ BudgetKept(q) /\ claimed = {}
      /\ goal \in GoalStatus
  BY DEF OneInv, EInv, EnginesFit, Keeps, RowsKept, LTypeOK
<1>1. CASE LoadGoal(e)
  <2> DEFINE l == [Idle EXCEPT !.pc = "claims", !.goal = goal]
  <2>1. Goto(e, l) /\ UNCHANGED <<db, crashes>> /\ q.pc = "idle"
    BY <1>1 DEF LoadGoal, At
  <2>2. l.pc = "claims" /\ l.goal = goal
    BY DEF Idle
  <2> HIDE DEF l
  <2>3. Keeps(l)
    BY <1>0, <2>1, <2>2
       DEF Keeps, GoalKept, TasksKept, BudgetKept, InLoop, AtWork
  <2> QED BY <2>1, <2>3, OnlyMemory
<1>2. CASE CheckClaims(e)
  <2> DEFINE l == [q EXCEPT !.pc = Entry(q.goal)]
  <2>1. Goto(e, l) /\ UNCHANGED <<db, crashes>> /\ q.pc = "claims"
    BY <1>0, <1>2 DEF CheckClaims, At
  <2>2. l.pc = Entry(q.goal) /\ l.goal = q.goal
    BY <1>0 DEF Local
  <2>3. /\ q.goal \in {"created", "planning", "running", "paused"}
        /\ q.goal = goal \/ (q.goal = "paused" /\ goal \in {"running", "failed"})
    BY <1>0, <2>1 DEF Fits, Local, GoalStatus, TerminalGoal, GoalKept
  <2> HIDE DEF l
  <2>4. Keeps(l)
    BY <1>0, <2>1, <2>2, <2>3
       DEF Keeps, GoalKept, TasksKept, BudgetKept, InLoop, AtWork, Entry
  <2> QED BY <2>1, <2>4, OnlyMemory
<1>3. CASE CheckApprovals(e)
  <2>0. q.pc = "approvals" /\ UNCHANGED <<db, crashes>>
    BY <1>3 DEF CheckApprovals, At
  <2>1. CASE Goto(e, Idle)
    BY <1>0, <2>0, <2>1, IdleKeeps, OnlyMemory
  <2>2. CASE Goto(e, Ending(e, "failed"))
    <3> DEFINE l == Ending(e, "failed")
    <3>1. l.pc = "end" /\ l.goal = "failed"
      BY <1>0 DEF Local, Ending
    <3> HIDE DEF l
    <3>2. Keeps(l)
      BY <1>0, <2>0, <3>1
         DEF Keeps, GoalKept, TasksKept, BudgetKept, InLoop, AtWork
    <3> QED BY <2>0, <2>2, <3>2, OnlyMemory DEF l
  <2>3. CASE /\ \A t \in Tasks : approval[t] \notin {"pending", "rejected"}
             /\ Goto(e, [q EXCEPT !.pc = "resume", !.goal = "running"])
    <3> DEFINE l == [q EXCEPT !.pc = "resume", !.goal = "running"]
    <3>1. l.pc = "resume" /\ l.goal = "running"
      BY <1>0 DEF Local
    <3> HIDE DEF l
    <3>2. Keeps(l)
      BY <1>0, <2>0, <2>3, <3>1
         DEF Keeps, GoalKept, TasksKept, BudgetKept, InLoop, AtWork
    <3> QED BY <2>0, <2>3, <3>2, OnlyMemory DEF l
  <2> QED BY <1>3, <2>1, <2>2, <2>3 DEF CheckApprovals
<1>4. CASE RejectPlan(e)
  <2> DEFINE l == Ending(e, "failed")
  <2>1. Goto(e, l) /\ UNCHANGED <<db, crashes>> /\ q.pc = "plan"
    BY <1>4 DEF RejectPlan, At
  <2>2. l.pc = "end" /\ l.goal = "failed"
    BY <1>0 DEF Local, Ending
  <2> HIDE DEF l
  <2>3. Keeps(l)
    BY <1>0, <2>1, <2>2
       DEF Keeps, GoalKept, TasksKept, BudgetKept, InLoop, AtWork
  <2> QED BY <2>1, <2>3, OnlyMemory
<1>5. CASE Abort(e)
  <2>1. q.pc = "outcome" /\ Goto(e, Idle) /\ UNCHANGED <<db, crashes>>
    BY <1>0, <1>5 DEF Abort, At
  <2> QED BY <1>0, <2>1, IdleKeeps, OnlyMemory
<1> QED BY <1>1, <1>2, <1>3, <1>4, <1>5

\* The steps of the loop that only read.
LEMMA ReadsLoop ==
    ASSUME OneInv, NEW e, Engines = {e},
           \/ ListInterrupted(e) \/ Recovered(e) \/ CountActions(e) \/ FinishGoal(e)
           \/ ChooseTask(e) \/ NoAgent(e) \/ NumberAttempt(e) \/ Execute(e)
           \/ ConsultApproval(e) \/ DenyTool(e)
    PROVE  RowsKept' /\ Keeps(eng[e])'
<1> DEFINE q == eng[e]
<1>0. /\ e \in Engines /\ q \in Local /\ Fits(q, approval, attempts) /\ Keeps(q)
      /\ GoalKept(q) /\ TasksKept(q) /\ BudgetKept(q) /\ claimed = {}
      /\ UNCHANGED <<db, crashes>>
  BY DEF OneInv, EInv, EnginesFit, Keeps, RowsKept, LTypeOK, ListInterrupted,
         Recovered, CountActions, FinishGoal, ChooseTask, NoAgent, NumberAttempt,
         Execute, ConsultApproval, DenyTool
<1> USE DEF Keeps, GoalKept, TasksKept, BudgetKept, InLoop, AtWork
<1>1. CASE ListInterrupted(e)
  <2> DEFINE l == [q EXCEPT !.pc = "recover", !.todo = {t \in Tasks : task[t] = "running"}]
  <2>1. Goto(e, l) /\ q.pc = "interrupted"
    BY <1>1 DEF ListInterrupted, At
  <2>2. l.pc = "recover" /\ l.goal = q.goal /\ \A t \in l.todo : task[t] = "running"
    BY <1>0 DEF Local
  <2> HIDE DEF l
  <2>3. Keeps(l)
    BY <1>0, <2>1, <2>2
  <2> QED BY <1>0, <2>1, <2>3, OnlyMemory
<1>2. CASE Recovered(e) \/ CountActions(e)
  <2>1. PICK pc \in {"count", "choose"}, n \in {q.actions, AttemptCount} :
           /\ Goto(e, [q EXCEPT !.pc = pc, !.actions = n])
           /\ q.pc \in {"recover", "count"}
           /\ pc = "choose" => n = AttemptCount
    <3>1. CASE Recovered(e)
      <4>1. [q EXCEPT !.pc = "count"] = [q EXCEPT !.pc = "count", !.actions = q.actions]
        BY <1>0 DEF Local
      <4> QED BY <3>1, <4>1 DEF Recovered, At
    <3>2. CASE CountActions(e)
      BY <3>2 DEF CountActions, At
    <3> QED BY <1>2, <3>1, <3>2
  <2> DEFINE l == [q EXCEPT !.pc = pc, !.actions = n]
  <2>2. l.pc = pc /\ l.goal = q.goal /\ l.actions = n
    BY <1>0 DEF Local
  <2> HIDE DEF l
  <2>3. Keeps(l)
    BY <1>0, <2>1, <2>2
  <2> QED BY <1>0, <2>1, <2>3, OnlyMemory DEF l
<1>3. CASE FinishGoal(e) \/ NoAgent(e)
  <2>1. PICK g \in {"succeeded", "blocked"} :
           Goto(e, Ending(e, g)) /\ q.pc = "choose" /\ (g = "succeeded" => AllSucceeded)
    BY <1>3 DEF FinishGoal, NoAgent, LoopVerdict, At
  <2> DEFINE l == Ending(e, g)
  <2>2. l.pc = "end" /\ l.goal = g
    BY <1>0 DEF Local, Ending
  <2> HIDE DEF l
  <2>3. Keeps(l)
    BY <1>0, <2>1, <2>2
  <2> QED BY <1>0, <2>1, <2>3, OnlyMemory DEF l
<1>4. CASE ChooseTask(e)
  <2>1. PICK t \in Ready : Goto(e, [q EXCEPT !.pc = "assign", !.work = t])
    BY <1>4 DEF ChooseTask
  <2>2. q.pc = "choose" /\ AttemptCount < MaxActions
    <3>1. q.pc = "choose" /\ LoopVerdict(q.actions) = "running" /\ q.actions = AttemptCount
      BY <1>0, <1>4 DEF ChooseTask, At
    <3>2. AttemptCount \in Nat /\ MaxActions \in Nat
      BY AttemptCounted, EngineAssumption DEF OneInv, EInv
    <3>3. ~ (AttemptCount >= MaxActions)
      BY <3>1 DEF LoopVerdict
    <3> QED BY <3>1, <3>2, <3>3
  <2> DEFINE l == [q EXCEPT !.pc = "assign", !.work = t]
  <2>3. /\ l.pc = "assign" /\ l.work = t /\ l.goal = q.goal /\ l.actions = q.actions
        /\ task[t] = "pending"
    BY <1>0 DEF Local, Ready
  <2> HIDE DEF l
  <2>4. Keeps(l)
    BY <1>0, <2>2, <2>3
  <2> QED BY <1>0, <2>1, <2>4, OnlyMemory DEF l
<1>5. ASSUME NEW l \in Local, Goto(e, l), l.pc \in AtWork \ {"task"},
             q.pc \in AtWork \ {"task"}, l.work = q.work, l.goal = q.goal,
             l.actions = q.actions
      PROVE  RowsKept' /\ Keeps(eng[e])'
  <2>1. Keeps(l)
    BY <1>0, <1>5
  <2> QED BY <1>0, <1>5, <2>1, OnlyMemory
<1>6. CASE NumberAttempt(e)
  <2> DEFINE n == Cardinality(attempts[q.work]) + 1
             l == [q EXCEPT !.pc = "execute", !.no = n]
  <2>0. q.work \in Tasks /\ q.pc = "number"
    BY <1>0, <1>6 DEF NumberAttempt, At, Fits
  <2>1. n \in Nat
    BY <2>0, FS_CardinalityType DEF OneInv, EInv, AttemptsFinite
  <2>2. Goto(e, l)
    BY <1>6 DEF NumberAttempt, On
  <2> HIDE DEF n
  <2>3. l \in Local /\ l.pc = "execute" /\ l.work = q.work /\ l.goal = q.goal
        /\ l.actions = q.actions
    BY <1>0, <2>1 DEF Local, Steps
  <2> HIDE DEF l
  <2> QED BY <1>5, <2>0, <2>2, <2>3
<1>7. CASE Execute(e) \/ DenyTool(e)
  <2>1. PICK r \in Results : Goto(e, Reviewed(e, r)) /\ q.pc \in {"execute", "ask"}
    BY <1>7 DEF Execute, DenyTool, At, Results
  <2> DEFINE l == Reviewed(e, r)
  <2>2. l \in Local /\ l.pc = "outcome" /\ l.work = q.work /\ l.goal = q.goal
        /\ l.actions = q.actions
    BY <1>0 DEF Local, Steps, Reviewed, Results
  <2> HIDE DEF l
  <2> QED BY <1>5, <2>1, <2>2 DEF l
<1>8. CASE ConsultApproval(e)
  <2> DEFINE l == [q EXCEPT !.pc = "ask", !.seen = approval[On(e)]]
  <2>0. q.work \in Tasks /\ q.pc = "execute" /\ Goto(e, l)
    BY <1>0, <1>8 DEF ConsultApproval, At, Fits
  <2>1. approval[On(e)] \in ApprovalStatus
    BY <2>0 DEF OneInv, EInv, LTypeOK, On
  <2>2. l \in Local /\ l.pc = "ask" /\ l.work = q.work /\ l.goal = q.goal
        /\ l.actions = q.actions
    BY <1>0, <2>1 DEF Local, Steps
  <2> HIDE DEF l
  <2> QED BY <1>5, <2>0, <2>2
<1> QED BY <1>1, <1>2, <1>3, <1>4, <1>6, <1>7, <1>8


\* A succeeded task is left alone.
Stays == \A t \in Tasks : task[t] = "succeeded" =>
            task'[t] = "succeeded" /\ attempts'[t] = attempts[t]

\* The goal in memory is written over the stored one.
LEMMA WritesGoal ==
    ASSUME OneInv, NEW e, Engines = {e},
           Resume(e) \/ EndRun(e) \/ SavePlanning(e) \/ StartGoal(e)
    PROVE  RowsKept' /\ Keeps(eng[e])'
<1> DEFINE q == eng[e]
<1>0. /\ e \in Engines /\ q \in Local /\ GoalKept(q) /\ TasksKept(q) /\ BudgetKept(q)
      /\ RowsKept /\ eng \in [Engines -> Local]
      /\ UNCHANGED <<task, attempts, approval, claimed, crashes>>
      /\ AttemptCount' = AttemptCount
  BY SameBudget DEF OneInv, EInv, EnginesFit, Keeps, Resume, EndRun, SavePlanning,
                    StartGoal, SaveGoal
<1>1. ActionsBounded'
  BY <1>0 DEF RowsKept, ActionsBounded
<1>2. ASSUME eng'[e].pc \in {"interrupted", "plan", "idle"},
             eng'[e].pc = "plan" => goal' = "planning",
             eng'[e].pc = "interrupted" => goal' = "running" /\ eng'[e].goal = "running",
             ~ (q.pc = "task" /\ q.next # "pending")
      PROVE  Keeps(eng[e])'
  <2>1. GoalKept(eng[e])' /\ TasksKept(eng[e])'
    BY <1>2 DEF GoalKept, TasksKept, InLoop, AtWork
  <2>2. BudgetKept(eng[e])'
    BY <1>0, <1>2 DEF BudgetKept, AtWork
  <2> QED BY <2>1, <2>2 DEF Keeps
<1>3. CASE Resume(e) \/ StartGoal(e)
  <2>1. /\ Goto(e, [q EXCEPT !.pc = "interrupted"])
        /\ goal' = q.goal /\ q.pc \in {"resume", "started"} /\ q.goal = "running"
    BY <1>0, <1>3 DEF Resume, StartGoal, SaveGoal, At, GoalKept
  <2>2. eng'[e].pc = "interrupted" /\ eng'[e].goal = q.goal
    BY <1>0, <2>1 DEF Local, Goto
  <2>3. \A t \in Tasks : approval[t] # "rejected"
    BY <1>0, <2>1 DEF GoalKept, RowsKept, EndIsJustified
  <2>4. RowsKept'
    BY <1>0, <1>1, <2>1, <2>3 DEF RowsKept, EndIsJustified, Passed
  <2> QED BY <1>2, <2>1, <2>2, <2>4
<1>4. CASE SavePlanning(e)
  <2>1. /\ Goto(e, [q EXCEPT !.pc = "plan", !.goal = "planning"])
        /\ goal' = "planning" /\ q.pc = "planning" /\ goal = "created"
    BY <1>0, <1>4 DEF SavePlanning, At, GoalKept
  <2>2. eng'[e].pc = "plan"
    BY <1>0, <2>1 DEF Local, Goto
  <2>3. RowsKept'
    BY <1>0, <1>1, <2>1 DEF RowsKept, EndIsJustified, Passed
  <2> QED BY <1>2, <2>1, <2>2, <2>3
<1>5. CASE EndRun(e)
  <2>1. Goto(e, Idle) /\ goal' = q.goal /\ q.pc = "end"
    BY <1>5 DEF EndRun, SaveGoal, At
  <2>2. eng'[e].pc = "idle"
    BY <1>0, <2>1 DEF Idle, Goto
  <2>3. /\ q.goal \notin {"created", "planning"}
        /\ q.goal = "succeeded" => AllSucceeded
    BY <1>0, <2>1 DEF GoalKept
  <2>4. \A t \in Tasks : approval[t] = "rejected" => q.goal = "failed"
    BY <1>0, <2>1 DEF GoalKept, RowsKept, EndIsJustified
  <2>5. RowsKept'
    BY <1>0, <1>1, <2>1, <2>3, <2>4 DEF RowsKept, EndIsJustified, Passed, AllSucceeded
  <2> QED BY <1>2, <2>1, <2>2, <2>5
<1> QED BY <1>3, <1>4, <1>5

\* The rows of tasks are written: by the plan before there are attempts, else
\* that of the task at hand.
LEMMA WritesTask ==
    ASSUME OneInv, NEW e, Engines = {e},
           SavePlan(e) \/ RecoverTask(e) \/ StartTask(e) \/ FinishTask(e)
    PROVE  RowsKept' /\ Keeps(eng[e])' /\ Stays
<1> DEFINE q == eng[e]
<1>0. /\ e \in Engines /\ q \in Local /\ Fits(q, approval, attempts)
      /\ GoalKept(q) /\ TasksKept(q) /\ BudgetKept(q) /\ RowsKept
      /\ eng \in [Engines -> Local] /\ task \in [Tasks -> TaskStatus]
      /\ UNCHANGED <<goal, attempts, approval, claimed, crashes>>
      /\ AttemptCount' = AttemptCount
  BY SameBudget DEF OneInv, EInv, LTypeOK, EnginesFit, Keeps, SavePlan, RecoverTask,
                    StartTask, FinishTask, SaveTask
<1>1. ActionsBounded'
  BY <1>0 DEF RowsKept, ActionsBounded
<1>2. CASE SavePlan(e)
  <2> DEFINE l == [q EXCEPT !.pc = "started", !.goal = "running"]
  <2>1. /\ Goto(e, l) /\ task' = [t \in Tasks |-> "pending"] /\ goal = "planning"
    BY <1>0, <1>2 DEF SavePlan, At, GoalKept
  <2>2. eng'[e].pc = "started" /\ eng'[e].goal = "running"
    BY <1>0, <2>1 DEF Local, Goto
  <2>3. \A t \in Tasks : task[t] \in {"absent", "pending"} /\ attempts[t] = {}
    BY <1>0, <2>1 DEF RowsKept
  <2>4. RowsKept' /\ Stays
    BY <1>0, <1>1, <2>1, <2>3 DEF RowsKept, EndIsJustified, Passed, Stays
  <2>5. BudgetKept(eng[e])'
    <3>1. \A t \in Tasks : /\ Cardinality(attempts[t]) = 0
                           /\ MaxAttemptsOf[t] + crashes > 0
      <4> SUFFICES ASSUME NEW t \in Tasks
                   PROVE  /\ Cardinality(attempts[t]) = 0
                          /\ MaxAttemptsOf[t] + crashes > 0
        OBVIOUS
      <4>1. Cardinality(attempts[t]) = 0
        BY <2>3, FS_EmptySet, Zenon
      <4>2. MaxAttemptsOf[t] \in Nat \ {0} /\ crashes \in Nat
        BY EngineAssumption DEF OneInv, EInv, LTypeOK
      <4> QED BY <4>1, <4>2
    <3> QED BY <1>0, <2>2, <3>1 DEF BudgetKept, AtWork
  <2>6. GoalKept(eng[e])' /\ TasksKept(eng[e])'
    BY <1>0, <2>1, <2>2 DEF GoalKept, TasksKept, InLoop, AtWork
  <2> QED BY <2>4, <2>5, <2>6 DEF Keeps
<1>3. ASSUME NEW t \in Tasks, NEW s, task' = [task EXCEPT ![t] = s],
             task[t] \in {"pending", "running"}, goal = "running",
             s = "succeeded" => Passed(t)
      PROVE  RowsKept' /\ Stays
  BY <1>0, <1>1, <1>3 DEF RowsKept, EndIsJustified, Passed, Stays
<1>4. CASE RecoverTask(e)
  <2>1. PICK t \in q.todo :
           /\ task' = [task EXCEPT ![t] = "pending"]
           /\ Goto(e, [q EXCEPT !.todo = q.todo \ {t}])
    BY <1>4 DEF RecoverTask
  <2>2. /\ q.pc = "recover" /\ t \in Tasks /\ task[t] = "running" /\ goal = "running"
        /\ q.goal = "running"
    BY <1>0, <1>4 DEF RecoverTask, At, Local, TasksKept, GoalKept, InLoop, AtWork
  <2>3. eng'[e].pc = "recover" /\ eng'[e].goal = q.goal /\ eng'[e].todo = q.todo \ {t}
    BY <1>0, <2>1, <2>2 DEF Local, Goto
  <2>4. GoalKept(eng[e])'
    BY <1>0, <2>2, <2>3 DEF GoalKept, InLoop, AtWork
  <2>5. TasksKept(eng[e])'
    <3>1. \A u \in eng'[e].todo : task'[u] = "running"
      BY <1>0, <2>1, <2>2, <2>3 DEF TasksKept, Local
    <3> QED BY <2>3, <3>1 DEF TasksKept, AtWork
  <2>6. BudgetKept(eng[e])'
    BY <1>0, <2>1, <2>2, <2>3 DEF BudgetKept, AtWork, Decisive
  <2> QED BY <1>3, <2>1, <2>2, <2>4, <2>5, <2>6 DEF Keeps
<1>5. CASE StartTask(e)
  <2> DEFINE t == q.work
  <2>1. /\ task' = [task EXCEPT ![t] = "running"] /\ q.pc = "assign"
        /\ Goto(e, [q EXCEPT !.pc = "number"])
    BY <1>5 DEF StartTask, SaveTask, At, On
  <2>2. t \in Tasks /\ task[t] = "pending" /\ goal = "running" /\ q.goal = "running"
    BY <1>0, <2>1 DEF Fits, TasksKept, GoalKept, InLoop, AtWork
  <2>3. /\ eng'[e].pc = "number" /\ eng'[e].goal = q.goal /\ eng'[e].work = t
        /\ eng'[e].actions = q.actions
    BY <1>0, <2>1 DEF Local, Goto
  <2>4. GoalKept(eng[e])'
    BY <1>0, <2>2, <2>3 DEF GoalKept, InLoop, AtWork
  <2>5. TasksKept(eng[e])'
    BY <1>0, <2>1, <2>2, <2>3 DEF TasksKept, AtWork
  <2>6. BudgetKept(eng[e])'
    BY <1>0, <2>1, <2>2, <2>3 DEF BudgetKept, AtWork, Decisive
  <2> QED BY <1>3, <2>1, <2>2, <2>4, <2>5, <2>6 DEF Keeps
<1>6. CASE FinishTask(e)
  <2> DEFINE t == q.work
  <2>1. task' = [task EXCEPT ![t] = q.next] /\ q.pc = "task"
    BY <1>6 DEF FinishTask, SaveTask, At, On
  <2>2. /\ t \in Tasks /\ task[t] = "running" /\ goal = "running"
        /\ q.next \in Decisive \cup {"pending"}
        /\ q.next = "succeeded" => Passed(t)
        /\ q.goal \in {"running", "failed", "blocked", "paused"}
    BY <1>0, <2>1 DEF Fits, TasksKept, GoalKept, InLoop, AtWork
  <2>3. /\ q.goal = "running" =>
              eng'[e].pc = "choose" /\ eng'[e].goal = "running"
              /\ eng'[e].actions = q.actions
        /\ q.goal # "running" => eng'[e].pc = "end" /\ eng'[e].goal = q.goal
    BY <1>0, <1>6 DEF FinishTask, Goto, Idle
  <2>4. GoalKept(eng[e])'
    BY <1>0, <2>2, <2>3 DEF GoalKept, InLoop, AtWork
  <2>5. TasksKept(eng[e])'
    BY <2>2, <2>3 DEF TasksKept, AtWork
  <2>6. BudgetKept(eng[e])'
    <3>1. \A u \in Tasks : \/ task'[u] \in Decisive
                           \/ Cardinality(attempts[u]) < MaxAttemptsOf[u] + crashes
      BY <1>0, <2>1, <2>2 DEF BudgetKept, Decisive
    <3> QED BY <1>0, <2>1, <2>2, <2>3, <3>1 DEF BudgetKept, AtWork
  <2> QED BY <1>3, <2>1, <2>2, <2>4, <2>5, <2>6 DEF Keeps
<1> QED BY <1>2, <1>4, <1>5, <1>6


\* One attempt more is one more in the count.
LEMMA CountOneMore ==
    ASSUME AttemptsFinite, NEW t \in Tasks, NEW a, a \notin attempts[t],
           attempts \in [Tasks -> SUBSET [no : Nat, result : Results]],
           attempts' = [attempts EXCEPT ![t] = @ \cup {a}]
    PROVE  AttemptCount' = AttemptCount + 1
<1> DEFINE U == UNION {{u} \X attempts[u] : u \in Tasks}
           F == {{u} \X attempts[u] : u \in Tasks}
           f == [u \in Tasks |-> {u} \X attempts[u]]
<1>1. IsFiniteSet(U)
  <2>1. f \in Surjection(Tasks, F)
    BY DEF Surjection
  <2>2. IsFiniteSet(F)
    BY <2>1, FS_Surjection, EngineAssumption
  <2>3. ASSUME NEW u \in Tasks
        PROVE  IsFiniteSet({u} \X attempts[u])
    BY FS_Singleton, FS_Product DEF AttemptsFinite
  <2>4. \A T \in F : IsFiniteSet(T)
    BY <2>3
  <2> QED BY <2>2, <2>4, FS_UNION
<1>2. <<t, a>> \notin U
  OBVIOUS
<1>3. UNION {{u} \X attempts'[u] : u \in Tasks} = U \cup {<<t, a>>}
  <2>1. \A u \in Tasks : attempts'[u] = IF u = t THEN attempts[t] \cup {a} ELSE attempts[u]
    OBVIOUS
  <2>2. ASSUME NEW x PROVE x \in UNION {{u} \X attempts'[u] : u \in Tasks}
                           <=> x \in U \cup {<<t, a>>}
    <3>1. ASSUME NEW u \in Tasks, x \in {u} \X attempts'[u]
          PROVE  x \in U \cup {<<t, a>>}
      <4>1. CASE u = t
        <5>1. PICK b \in attempts'[t] : x = <<t, b>>
          BY <3>1, <4>1
        <5>2. b \in attempts[t] \/ b = a
          BY <2>1, <5>1
        <5> QED BY <5>1, <5>2
      <4>2. CASE u # t
        BY <2>1, <3>1, <4>2
      <4> QED BY <4>1, <4>2
    <3>2. ASSUME NEW u \in Tasks, x \in {u} \X attempts[u]
          PROVE  x \in {u} \X attempts'[u]
      BY <2>1, <3>2
    <3>3. <<t, a>> \in {t} \X attempts'[t]
      BY <2>1
    <3> QED BY <3>1, <3>2, <3>3
  <2> QED BY <2>2
<1>4. Cardinality(U \cup {<<t, a>>}) = Cardinality(U) + 1
  BY <1>1, <1>2, FS_AddElement
<1> QED BY <1>3, <1>4 DEF AttemptCount

\* The engine works on its task: only the reviewed attempt spends a try.
LEMMA WorksOn ==
    ASSUME OneInv, NEW e, Engines = {e},
           CallTool(e) \/ RequestApproval(e) \/ SaveOutcome(e)
    PROVE  RowsKept' /\ Keeps(eng[e])' /\ Stays
<1> DEFINE q == eng[e]
           t == q.work
<1>0. /\ e \in Engines /\ q \in Local /\ Fits(q, approval, attempts)
      /\ GoalKept(q) /\ TasksKept(q) /\ BudgetKept(q) /\ RowsKept
      /\ eng \in [Engines -> Local] /\ approval \in [Tasks -> ApprovalStatus]
      /\ attempts \in [Tasks -> SUBSET [no : Nat, result : Results]]
      /\ AttemptsFinite /\ AttemptsNumbered
      /\ UNCHANGED <<goal, task, claimed, crashes>>
  BY DEF OneInv, EInv, LTypeOK, EnginesFit, Keeps, CallTool, RequestApproval,
         SaveOutcome
<1>1. q.pc \in {"ask", "outcome"}
  BY DEF CallTool, RequestApproval, SaveOutcome, At
<1>2. /\ t \in Tasks /\ task[t] = "running" /\ goal = "running" /\ q.goal = "running"
      /\ q.actions = AttemptCount /\ AttemptCount < MaxActions
      /\ \A u \in Tasks : \/ task[u] \in Decisive
                          \/ Cardinality(attempts[u]) < MaxAttemptsOf[u] + crashes
  BY <1>0, <1>1 DEF Fits, TasksKept, GoalKept, BudgetKept, InLoop, AtWork
<1>3. CASE CallTool(e)
  <2>1. PICK r \in {"pass", "fail"} : Goto(e, Reviewed(e, r))
    BY <1>3 DEF CallTool
  <2>2. /\ eng'[e].pc = "outcome" /\ eng'[e].work = t /\ eng'[e].goal = q.goal
        /\ eng'[e].actions = q.actions /\ UNCHANGED <<attempts, approval>>
    BY <1>0, <1>3, <2>1 DEF Local, Goto, Reviewed, CallTool
  <2>3. AttemptCount' = AttemptCount
    BY <2>2, SameBudget
  <2>4. RowsKept' /\ Stays
    BY <1>0, <2>2, <2>3 DEF RowsKept, EndIsJustified, ActionsBounded, Passed, Stays
  <2>5. GoalKept(eng[e])' /\ TasksKept(eng[e])'
    BY <1>0, <1>2, <2>2 DEF GoalKept, TasksKept, InLoop, AtWork
  <2>6. BudgetKept(eng[e])'
    BY <1>0, <1>2, <2>2, <2>3 DEF BudgetKept, AtWork
  <2> QED BY <2>4, <2>5, <2>6 DEF Keeps
<1>4. CASE RequestApproval(e)
  <2>1. /\ approval' = [approval EXCEPT ![t] = "pending"] /\ attempts' = attempts
        /\ approval[t] \in {"none", "pending"}
        /\ Goto(e, [q EXCEPT !.pc = "task", !.next = "pending", !.goal = "paused"])
    BY <1>4 DEF RequestApproval, On
  <2>2. /\ eng'[e].pc = "task" /\ eng'[e].work = t /\ eng'[e].goal = "paused"
        /\ eng'[e].actions = q.actions /\ eng'[e].next = "pending"
    BY <1>0, <2>1 DEF Local, Goto
  <2>3. AttemptCount' = AttemptCount
    BY <2>1, SameBudget
  <2>4. RowsKept' /\ Stays
    BY <1>0, <2>1, <2>3 DEF RowsKept, EndIsJustified, ActionsBounded, Passed, Stays
  <2>5. GoalKept(eng[e])' /\ TasksKept(eng[e])'
    BY <1>0, <1>2, <2>2 DEF GoalKept, TasksKept, InLoop, AtWork, Decisive
  <2>6. BudgetKept(eng[e])'
    BY <1>0, <1>2, <2>1, <2>2, <2>3 DEF BudgetKept, AtWork
  <2> QED BY <2>4, <2>5, <2>6 DEF Keeps
<1>5. CASE SaveOutcome(e)
  <2> DEFINE a == [no |-> q.no, result |-> q.result]
             s == NextTask(t, q.result, q.no)
             g == IF s \in {"failed", "blocked"} THEN s ELSE "running"
             n == Cardinality(attempts[t])
  <2>1. /\ attempts' = [attempts EXCEPT ![t] = @ \cup {a}] /\ approval' = approval
        /\ Goto(e, [q EXCEPT !.pc = "task", !.actions = @ + 1, !.next = s, !.goal = g])
        /\ IsNewNumber(t, q.no) /\ q.no \in 1 .. n + 1 /\ q.result \in Results
    BY <1>0, <1>5 DEF SaveOutcome, On, Fits, At
  <2>2. n \in Nat /\ IsFiniteSet(attempts[t]) /\ {x.no : x \in attempts[t]} = 1 .. n
    BY <1>0, <1>2, FS_CardinalityType DEF AttemptsFinite, AttemptsNumbered
  <2>3. a \notin attempts[t] /\ q.no = n + 1
    <3>1. q.no \notin {x.no : x \in attempts[t]} /\ a.no = q.no
      BY <2>1 DEF IsNewNumber
    <3> QED BY <2>1, <2>2, <3>1
  <2>4. AttemptCount' = AttemptCount + 1
    BY <1>0, <1>2, <2>1, <2>3, CountOneMore
  <2>5. /\ attempts'[t] = attempts[t] \cup {a}
        /\ \A u \in Tasks : u # t => attempts'[u] = attempts[u]
    BY <1>0, <1>2, <2>1
  <2>6. Cardinality(attempts'[t]) = n + 1
    <3> HIDE DEF a
    <3> QED BY <2>2, <2>3, <2>5, FS_AddElement
  <2>7. /\ s \in Decisive \cup {"pending"}
        /\ s = "succeeded" => q.result = "pass"
        /\ s = "pending" => ~ (q.no >= MaxAttemptsOf[t])
    BY <2>1 DEF NextTask, Results, Decisive
  <2>8. /\ eng'[e].pc = "task" /\ eng'[e].work = t /\ eng'[e].goal = g
        /\ eng'[e].actions = q.actions + 1 /\ eng'[e].next = s
    <3> HIDE DEF s, g
    <3> QED BY <1>0, <2>1 DEF Local, Goto
  <2>9. /\ AttemptCount \in Nat /\ MaxActions \in Nat /\ crashes \in Nat
        /\ MaxAttemptsOf[t] \in Nat
    BY <1>2, AttemptCounted, EngineAssumption DEF OneInv, EInv, LTypeOK
  <2>10. n < MaxAttemptsOf[t] + crashes
    BY <1>2 DEF Decisive
  <2>11. Passed(t)' \/ q.result # "pass"
    <3>1. a \in attempts'[t] /\ a.result = q.result
      BY <2>5
    <3> QED BY <3>1, <2>8 DEF Passed
  <2>12. \A u \in Tasks : Passed(u) => Passed(u)'
    BY <2>5 DEF Passed
  <2> HIDE DEF a, s
  <2>13. ActionsBounded'
    <3>1. AttemptCount' <= MaxActions
      BY <1>2, <2>4, <2>9
    <3>2. ASSUME NEW u \in Tasks
          PROVE  Cardinality(attempts'[u]) <= MaxAttemptsOf[u] + crashes
      <4>1. CASE u = t
        BY <2>2, <2>6, <2>9, <2>10, <4>1
      <4>2. CASE u # t
        BY <1>0, <2>5, <4>2 DEF RowsKept, ActionsBounded
      <4> QED BY <4>1, <4>2
    <3> QED BY <1>0, <3>1, <3>2 DEF ActionsBounded
  <2>14. RowsKept' /\ Stays
    BY <1>0, <1>2, <2>1, <2>5, <2>12, <2>13 DEF RowsKept, EndIsJustified, Stays
  <2>15. GoalKept(eng[e])'
    BY <1>0, <1>2, <2>8 DEF GoalKept, InLoop, AtWork
  <2>16. TasksKept(eng[e])'
    <3>1. s = "succeeded" => Passed(t)'
      BY <2>7, <2>11
    <3> QED BY <1>0, <1>2, <2>7, <2>8, <3>1 DEF TasksKept, AtWork
  <2>17. BudgetKept(eng[e])'
    <3>1. ASSUME NEW u \in Tasks
          PROVE  \/ task'[u] \in Decisive
                 \/ eng'[e].pc = "task" /\ eng'[e].work = u /\ eng'[e].next # "pending"
                 \/ Cardinality(attempts'[u]) < MaxAttemptsOf[u] + crashes'
      <4>1. CASE u = t
        BY <1>0, <2>2, <2>3, <2>6, <2>7, <2>8, <2>9, <4>1
      <4>2. CASE u # t
        BY <1>0, <1>2, <2>5, <4>2
      <4> QED BY <4>1, <4>2
    <3> QED BY <1>2, <2>4, <2>8, <3>1 DEF BudgetKept, AtWork
  <2> QED BY <2>14, <2>15, <2>16, <2>17 DEF Keeps
<1> QED BY <1>3, <1>4, <1>5

\* A crash buys every task one attempt more.
LEMMA CrashKeeps ==
    ASSUME OneInv, NEW e, Engines = {e}, Crash(e)
    PROVE  RowsKept' /\ Keeps(eng[e])'
<1>0. /\ e \in Engines /\ RowsKept /\ eng \in [Engines -> Local]
      /\ crashes \in Nat /\ crashes' = crashes + 1
      /\ UNCHANGED <<goal, task, attempts, approval, claimed>>
      /\ AttemptCount' = AttemptCount
  BY SameBudget, EngineAssumption DEF OneInv, EInv, LTypeOK, EnginesFit, Crash, db
<1>1. \A t \in Tasks :
         /\ MaxAttemptsOf[t] \in Nat /\ Cardinality(attempts[t]) \in Nat
         /\ Cardinality(attempts[t]) <= MaxAttemptsOf[t] + crashes
  BY <1>0, EngineAssumption, FS_CardinalityType
     DEF RowsKept, ActionsBounded, OneInv, EInv, AttemptsFinite
<1>2. \A t \in Tasks : Cardinality(attempts[t]) < MaxAttemptsOf[t] + crashes'
  BY <1>0, <1>1
<1>3. eng'[e].pc = "idle"
  BY <1>0 DEF Crash, Goto, Idle
<1>4. Keeps(eng[e])'
  BY <1>0, <1>2, <1>3 DEF Keeps, GoalKept, TasksKept, BudgetKept, InLoop, AtWork
<1>5. RowsKept'
  BY <1>0, <1>1, <1>2 DEF RowsKept, EndIsJustified, ActionsBounded, Passed
<1> QED BY <1>4, <1>5

\* The operator decides a request of a paused goal.
LEMMA ResolveKeeps ==
    ASSUME OneInv, NEW t \in Tasks, NEW d \in {"approved", "rejected"},
           ResolveApproval(t, d)
    PROVE  RowsKept' /\ (\A e \in Engines : Keeps(eng[e])') /\ Stays
<1>0. /\ RowsKept /\ approval \in [Tasks -> ApprovalStatus]
      /\ approval[t] = "pending" /\ goal = "paused"
      /\ approval' = [approval EXCEPT ![t] = d]
      /\ goal' = IF d = "approved" THEN "running" ELSE "failed"
      /\ UNCHANGED <<task, attempts, claimed, crashes, eng>>
      /\ AttemptCount' = AttemptCount
  BY SameBudget DEF OneInv, EInv, LTypeOK, ResolveApproval
<1>1. RowsKept' /\ Stays
  BY <1>0 DEF RowsKept, EndIsJustified, ActionsBounded, Passed, Stays
<1>2. ASSUME NEW e \in Engines
      PROVE  Keeps(eng[e])'
  <2>1. GoalKept(eng[e]) /\ TasksKept(eng[e]) /\ BudgetKept(eng[e])
    BY DEF OneInv, Keeps
  <2>2. GoalKept(eng[e])'
    BY <1>0, <2>1 DEF GoalKept, AllSucceeded, InLoop, AtWork
  <2>3. TasksKept(eng[e])'
    BY <1>0, <2>1 DEF TasksKept, Passed
  <2>4. BudgetKept(eng[e])'
    BY <1>0, <2>1 DEF BudgetKept
  <2> QED BY <2>2, <2>3, <2>4 DEF Keeps
<1> QED BY <1>1, <1>2

\* Without workers the claims of Next do not arise.
LEMMA OneEngineStep ==
    ASSUME OneEngine, OneInv, [Next]_vars
    PROVE  OneInv' /\ [Stays]_vars
<1>0. EInv' /\ claimed = {} /\ ~ Daemons
  BY EngineStep DEF OneInv, RowsKept, OneEngine
<1>1. PICK e : Engines = {e}
  BY DEF OneEngine
<1>2. CASE LoadGoal(e) \/ Step(e) \/ Crash(e)
  <2>1. CASE SavePlan(e) \/ RecoverTask(e) \/ StartTask(e) \/ FinishTask(e)
    BY <1>0, <1>1, <2>1, WritesTask DEF OneInv
  <2>2. CASE CallTool(e) \/ RequestApproval(e) \/ SaveOutcome(e)
    BY <1>0, <1>1, <2>2, WorksOn DEF OneInv
  <2>3. ASSUME UNCHANGED <<task, attempts>> PROVE Stays
    BY <2>3 DEF Stays
  <2>4. CASE \/ LoadGoal(e) \/ CheckClaims(e) \/ CheckApprovals(e) \/ RejectPlan(e)
             \/ Abort(e) \/ Crash(e)
    BY <1>0, <1>1, <2>3, <2>4, EntersRun, CrashKeeps
       DEF OneInv, LoadGoal, CheckClaims, CheckApprovals, RejectPlan, Abort, Crash, db
  <2>5. CASE Resume(e) \/ EndRun(e) \/ SavePlanning(e) \/ StartGoal(e)
    BY <1>0, <1>1, <2>3, <2>5, WritesGoal
       DEF OneInv, Resume, EndRun, SavePlanning, StartGoal, SaveGoal
  <2>6. CASE \/ ListInterrupted(e) \/ Recovered(e) \/ CountActions(e) \/ FinishGoal(e)
             \/ ChooseTask(e) \/ NoAgent(e) \/ NumberAttempt(e) \/ Execute(e)
             \/ ConsultApproval(e) \/ DenyTool(e)
    BY <1>0, <1>1, <2>3, <2>6, ReadsLoop
       DEF OneInv, ListInterrupted, Recovered, CountActions, FinishGoal, ChooseTask,
           NoAgent, NumberAttempt, Execute, ConsultApproval, DenyTool, db
  <2> QED BY <1>2, <2>1, <2>2, <2>4, <2>5, <2>6 DEF Step
<1>3. ASSUME NEW t \in Tasks, NEW d \in {"approved", "rejected"}, ResolveApproval(t, d)
      PROVE  OneInv' /\ Stays
  BY <1>0, <1>3, ResolveKeeps DEF OneInv
<1>4. ASSUME NEW t \in Tasks,
             \/ ClaimTask(t)
             \/ \E r \in Results : CommitClaim(t, r)
             \/ PauseClaim(t)
             \/ \E s \in {"pending", "blocked"} : DropClaim(t, s)
      PROVE  FALSE
  BY <1>0, <1>4 DEF ClaimTask, CommitClaim, PauseClaim, DropClaim
<1>5. CASE UNCHANGED vars
  <2>1. OneInv'
    BY <1>0, <1>5, SameBudget
       DEF vars, OneInv, RowsKept, EndIsJustified, ActionsBounded, Passed, Keeps,
           GoalKept, TasksKept, BudgetKept, AllSucceeded
  <2> QED BY <1>5, <2>1
<1> QED BY <1>1, <1>2, <1>3, <1>4, <1>5 DEF Next

LEMMA OneEngineInit == ASSUME Init PROVE OneInv
<1>0. EInv /\ goal = "created" /\ claimed = {} /\ crashes = 0
      /\ \A e \in Engines : eng[e].pc = "idle"
  BY EngineInit DEF Init, Idle
<1>1. AttemptCount = 0
  <2>1. UNION {{t} \X attempts[t] : t \in Tasks} = {}
    BY DEF Init
  <2> QED BY <2>1, FS_EmptySet DEF AttemptCount
<1>2. \A t \in Tasks : /\ task[t] = "absent" /\ attempts[t] = {} /\ approval[t] = "none"
                       /\ Cardinality(attempts[t]) = 0 /\ MaxAttemptsOf[t] \in Nat \ {0}
  BY FS_EmptySet, EngineAssumption DEF Init
<1>3. RowsKept
  BY <1>0, <1>1, <1>2, EngineAssumption DEF RowsKept, EndIsJustified, ActionsBounded
<1>4. \A e \in Engines : Keeps(eng[e])
  BY <1>0, <1>2 DEF Keeps, GoalKept, TasksKept, BudgetKept, InLoop, AtWork
<1> QED BY <1>0, <1>3, <1>4 DEF OneInv

\* The budget of a goal covers the attempts of all the runs it took, whatever
\* transactions their crashes fell between, and a task is tried once more than
\* its maximum for each crash at most (engine.py, _execute).
THEOREM ActionsAreBounded == OneEngine => (Spec => []ActionsBounded)
<1>1. OneInv => ActionsBounded
  BY DEF OneInv, RowsKept
<1>2. ASSUME OneEngine
      PROVE  Spec => []ActionsBounded
  BY <1>1, <1>2, OneEngineInit, OneEngineStep, PTL DEF Spec
<1> QED BY <1>2

\* A goal ends as its tasks and requests say, although the engine saves it in a
\* transaction after theirs, from memory (engine.py, run and _execute).
THEOREM EndsAreJustified == OneEngine => (Spec => []EndIsJustified)
<1>1. OneInv => EndIsJustified
  BY DEF OneInv, RowsKept
<1>2. ASSUME OneEngine
      PROVE  Spec => []EndIsJustified
  BY <1>1, <1>2, OneEngineInit, OneEngineStep, PTL DEF Spec
<1> QED BY <1>2

\* Neither a repeated planning nor the recovery of interrupted tasks touches a
\* task that succeeded (engine.py, _plan and _recover_interrupted_tasks).
THEOREM SucceededTasksStay == OneEngine => (Spec => SucceededStays)
<1>1. [Stays]_vars =>
         [\A t \in Tasks :
             task[t] = "succeeded" => /\ task'[t] = "succeeded"
                                      /\ attempts'[t] = attempts[t]]_vars
  BY DEF Stays
<1>2. ASSUME OneEngine
      PROVE  Spec => SucceededStays
  BY <1>1, <1>2, OneEngineInit, OneEngineStep, PTL DEF Spec, SucceededStays
<1> QED BY <1>2

===============================================================================
