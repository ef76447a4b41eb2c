--------------------------- MODULE SchedulerProofs ---------------------------
(***************************************************************************)
(* The safety of the execution plane for any number of goals, tasks,       *)
(* workers, process generations and claims, any lease and any clock bound: *)
(* its types and exclusive ownership; fencing; final outcomes and evidence; *)
(* the implementation of FencedWork; what is never taken back of claims,   *)
(* goals and dependencies; goals that reflect their tasks, although each   *)
(* transaction looks at one of them; and superseded sessions.              *)
(***************************************************************************)
EXTENDS Scheduler, TLAPS

\* What the record types say of a row of task_claims, in the form the
\* provers use: a row that is not there is NoClaim, any other has its types.
LEMMA RowTypes ==
    ASSUME TypeOK, NEW c \in ClaimIds, claims[c].status # "none"
    PROVE  claims[c] \in Claim
BY DEF TypeOK, NoClaim

LEMMA ActiveRowTypes ==
    ASSUME TypeOK, NEW c \in ClaimIds, Active(c)
    PROVE  /\ claims[c] \in Claim
           /\ claims[c].task \in Tasks
           /\ claims[c].worker \in Workers
           /\ claims[c].session \in Sessions
           /\ claims[c].agent \in Agents
           /\ claims[c].token \in Nat \ {0}
           /\ claims[c].acquired \in Int
           /\ claims[c].expires \in Int
<1>1. claims[c] \in Claim
  BY RowTypes DEF Active
<1> QED BY <1>1 DEF Claim

\* A finished row has the type of a row.
LEMMA FinishedType ==
    ASSUME TypeOK, NEW c \in ClaimIds, Active(c), NEW s \in TerminalClaim
    PROVE  Finished(c, s) \in Claim
<1>1. claims[c] \in Claim
  BY RowTypes DEF Active
<1>2. [claims[c] EXCEPT !.status = s] \in Claim
  BY <1>1 DEF Claim, TerminalClaim, ClaimStatus
<1>3. \A k \in Claim : [k EXCEPT !.acquired = 0] \in Claim
  BY DEF Claim
<1>4. \A k \in Claim : [k EXCEPT !.expires = 0] \in Claim
  BY DEF Claim
<1>5. Finished(c, s) =
        [[[claims[c] EXCEPT !.status = s] EXCEPT !.acquired = 0]
            EXCEPT !.expires = 0]
  BY <1>1 DEF Finished, Claim
<1> QED BY <1>2, <1>3, <1>4, <1>5

\* The initial database has its types.
LEMMA InitTypeOK == Init => TypeOK
BY DurationAssumption
   DEF Init, TypeOK, Times, GoalStatus, TaskStatus, Session, NoClaim,
       ApprovalStatus

\* Every transaction keeps the types.
LEMMA NextTypeOK == TypeOK /\ [Next]_vars => TypeOK'
<1> SUFFICES ASSUME TypeOK, [Next]_vars PROVE TypeOK'
  OBVIOUS
<1> USE TopologyAssumption, NullAssumption, DurationAssumption
<1>1. CASE Tick
  BY <1>1 DEF Tick, TypeOK, Times
<1>2. ASSUME NEW w \in Workers, NEW s \in Sessions, NEW at \in Read,
             RegisterWorker(w, s, at)
      PROVE  TypeOK'
  BY <1>2 DEF RegisterWorker, TypeOK, Session, Read, Times
<1>3. ASSUME NEW w \in Workers, NEW s \in Sessions, NEW at \in Read,
             Heartbeat(w, s, at)
      PROVE  TypeOK'
  BY <1>3 DEF Heartbeat, MayHeartbeat, TypeOK, Session, Read, Times
<1>4. ASSUME NEW c \in ClaimIds, NEW w \in Workers, NEW s \in Sessions,
             NEW t \in Tasks, NEW a \in Agents, NEW at \in Read,
             CreateClaim(c, w, s, t, a, at)
      PROVE  TypeOK'
  <2>1. fence' \in [Tasks -> Nat]
    BY <1>4 DEF CreateClaim, TypeOK
  <2>2. task' \in [Tasks -> [status : TaskStatus, agent : Agents \cup {Null}]]
    BY <1>4 DEF CreateClaim, TypeOK, TaskStatus
  <2>3. claims' \in [ClaimIds -> Claim \cup {NoClaim}]
    <3>1. [status |-> "active", task |-> t, worker |-> w,
           session |-> s, agent |-> a, token |-> fence[t] + 1,
           acquired |-> at, expires |-> at + Lease] \in Claim
      BY DEF TypeOK, Claim, ClaimStatus, Read, Times
    <3> QED BY <1>4, <3>1 DEF CreateClaim, TypeOK
  <2> QED BY <1>4, <2>1, <2>2, <2>3 DEF CreateClaim, TypeOK
<1>5. ASSUME NEW c \in ClaimIds, NEW at \in Read, RenewClaim(c, at)
      PROVE  TypeOK'
  <2>1. Active(c)
    BY <1>5 DEF RenewClaim, MayRenew, Owns, RequireClaim
  <2>2. claims[c] \in Claim
    BY <2>1, ActiveRowTypes
  <2>3. [claims[c] EXCEPT !.expires = at + Lease] \in Claim
    BY <2>2 DEF Claim, Read, Times
  <2>4. claims' \in [ClaimIds -> Claim \cup {NoClaim}]
    BY <1>5, <2>3 DEF RenewClaim, TypeOK
  <2> QED BY <1>5, <2>4 DEF RenewClaim, TypeOK
<1>6. ASSUME NEW c \in ClaimIds, NEW at \in Read, ReleaseClaim(c, at)
      PROVE  TypeOK'
  <2>1. Active(c)
    BY <1>6 DEF ReleaseClaim, Owns, RequireClaim
  <2>2. claims' \in [ClaimIds -> Claim \cup {NoClaim}]
    BY <1>6, <2>1, FinishedType DEF ReleaseClaim, TypeOK, TerminalClaim
  <2>3. task' \in [Tasks -> [status : TaskStatus, agent : Agents \cup {Null}]]
    BY <1>6, <2>1, ActiveRowTypes
       DEF ReleaseClaim, ResetRunning, TypeOK, TaskStatus
  <2> QED BY <1>6, <2>2, <2>3 DEF ReleaseClaim, TypeOK
<1>7. ASSUME NEW c \in ClaimIds, NEW at \in Read, PauseForApproval(c, at)
      PROVE  TypeOK'
  <2>1. Active(c)
    BY <1>7 DEF PauseForApproval, OwnsRunningWork, Owns, RequireClaim
  <2>2. claims' \in [ClaimIds -> Claim \cup {NoClaim}]
    BY <1>7, <2>1, FinishedType DEF PauseForApproval, TypeOK, TerminalClaim
  <2>3. task' \in [Tasks -> [status : TaskStatus, agent : Agents \cup {Null}]]
    BY <1>7, <2>1, ActiveRowTypes DEF PauseForApproval, TypeOK, TaskStatus
  <2>4. goal' \in [Goals -> GoalStatus]
    BY <1>7 DEF PauseForApproval, TypeOK, GoalStatus
  <2>5. approval' \in [Tasks -> ApprovalStatus]
    BY <1>7 DEF PauseForApproval, TypeOK, ApprovalStatus
  <2> QED BY <1>7, <2>2, <2>3, <2>4, <2>5 DEF PauseForApproval, TypeOK
<1>8. ASSUME NEW c \in ClaimIds, NEW at \in Read, NEW no \in 1 .. MaxAttempts,
             NEW r \in Outcomes, CommitOutcome(c, no, r, at)
      PROVE  TypeOK'
  <2>1. Active(c)
    BY <1>8 DEF CommitOutcome, OwnsRunningWork, Owns, RequireClaim
  <2> DEFINE t == claims[c].task
  <2>2. /\ t \in Tasks
        /\ claims[c].agent \in Agents
        /\ claims[c].token \in Nat
    BY <2>1, ActiveRowTypes
  <2>3. claims' \in [ClaimIds -> Claim \cup {NoClaim}]
    BY <1>8, <2>1, FinishedType DEF CommitOutcome, TypeOK, TerminalClaim
  <2>4. task' \in [Tasks -> [status : TaskStatus, agent : Agents \cup {Null}]]
    BY <1>8, <2>2 DEF CommitOutcome, TypeOK, TaskStatus, Outcomes
  <2>5. Reconciled(t, r) \in GoalStatus
    BY <2>2 DEF Reconciled, TypeOK, GoalStatus
  <2>6. goal' \in [Goals -> GoalStatus]
    BY <1>8, <2>2, <2>5 DEF CommitOutcome, TypeOK
  <2>7. attempts' \in [Tasks -> SUBSET Attempt]
    <3>1. [no |-> no, agent |-> claims[c].agent,
           token |-> claims[c].token, result |-> r] \in Attempt
      BY <2>2 DEF Attempt
    <3> QED BY <1>8, <2>2, <3>1 DEF CommitOutcome, TypeOK
  <2> QED BY <1>8, <2>3, <2>4, <2>6, <2>7 DEF CommitOutcome, TypeOK
<1>9. ASSUME NEW at \in Times, ReapExpired(at)
      PROVE  TypeOK'
  <2>1. claims' \in [ClaimIds -> Claim \cup {NoClaim}]
    BY <1>9, FinishedType
       DEF ReapExpired, ExpiredClaims, TypeOK, TerminalClaim
  <2>2. task' \in [Tasks -> [status : TaskStatus, agent : Agents \cup {Null}]]
    BY <1>9 DEF ReapExpired, TypeOK, TaskStatus
  <2> QED BY <1>9, <2>1, <2>2 DEF ReapExpired, TypeOK
<1>10. ASSUME NEW t \in Tasks, SaveApproval(t)
       PROVE  TypeOK'
  BY <1>10 DEF SaveApproval, TypeOK, ApprovalStatus
<1>11. ASSUME NEW t \in Tasks, NEW d \in {"approved", "rejected"},
              ResolveApproval(t, d)
       PROVE  TypeOK'
  BY <1>11 DEF ResolveApproval, TypeOK, ApprovalStatus, GoalStatus
<1>12. ASSUME NEW t \in Tasks, NEW d \in {"safe", "unsafe"},
              SaveDelegation(t, d)
       PROVE  TypeOK'
  BY <1>12 DEF SaveDelegation, TypeOK
<1>13. CASE UNCHANGED vars
  BY <1>13 DEF vars, TypeOK
<1> QED
  <2>1. ASSUME NEW c \in ClaimIds, NEW w \in Workers, NEW s \in Sessions,
               NEW at \in Read, ClaimNextTask(c, w, s, at)
        PROVE  TypeOK'
    BY <2>1, <1>4 DEF ClaimNextTask, Candidates
  <2>2. ASSUME NEW c \in ClaimIds, NEW w \in Workers, NEW s \in Sessions,
               NEW t \in Tasks, NEW a \in Agents, NEW at \in Read,
               ClaimTask(c, w, s, t, a, at)
        PROVE  TypeOK'
    BY <2>2, <1>4 DEF ClaimTask
  <2> QED BY <2>1, <2>2, <1>1, <1>2, <1>3, <1>5, <1>6, <1>7, <1>8, <1>9,
             <1>10, <1>11, <1>12, <1>13 DEF Next

\* The rows of the execution plane always have their types.
THEOREM TypeCorrect == Spec => []TypeOK
BY InitTypeOK, NextTypeOK, PTL DEF Spec

-----------------------------------------------------------------------------
(* What the transactions do to the rows of task_claims and tasks.          *)

\* Finishing claim c changes the status of that row only.
LEMMA FinishEffect ==
    ASSUME TypeOK, NEW c \in ClaimIds, Active(c), NEW s \in TerminalClaim,
           claims' = [claims EXCEPT ![c] = Finished(c, s)]
    PROVE  /\ claims'[c].status = s
           /\ \A d \in ClaimIds : /\ claims'[d].task = claims[d].task
                                  /\ claims'[d].token = claims[d].token
                                  /\ claims'[d].agent = claims[d].agent
           /\ \A d \in ClaimIds \ {c} : claims'[d] = claims[d]
<1>1. claims[c] \in Claim
  BY ActiveRowTypes
<1>2. claims'[c] = Finished(c, s)
  BY DEF TypeOK
<1>3. \A d \in ClaimIds \ {c} : claims'[d] = claims[d]
  BY DEF TypeOK
<1>4. /\ Finished(c, s).status = s
      /\ Finished(c, s).task = claims[c].task
      /\ Finished(c, s).token = claims[c].token
      /\ Finished(c, s).agent = claims[c].agent
  BY <1>1 DEF Finished, Claim
<1> QED BY <1>2, <1>3, <1>4

\* Claim c ends: its row becomes terminal and its task gets the row x, which
\* is not running.
EndsClaim(c, s, x) ==
    /\ Active(c)
    /\ claims' = [claims EXCEPT ![c] = Finished(c, s)]
    /\ task' = [task EXCEPT ![claims[c].task] = x]
    /\ x.status # "running"

\* The steps of Next, by what they do to claims, tasks, tokens and evidence.
LEMMA StepCases ==
    ASSUME TypeOK, [Next]_vars
    PROVE
      \/ UNCHANGED <<task, claims, fence, attempts>>
      \/ \E c \in ClaimIds, w \in Workers, s \in Sessions, t \in Tasks,
            a \in Agents, at \in Read :
            Ready(t) /\ CreateClaim(c, w, s, t, a, at)
      \/ \E c \in ClaimIds, at \in Read : RenewClaim(c, at)
      \/ \E c \in ClaimIds, at \in Read :
            \/ ReleaseClaim(c, at)
            \/ PauseForApproval(c, at)
            \/ \E no \in 1 .. MaxAttempts, r \in Outcomes :
                  CommitOutcome(c, no, r, at)
      \/ \E at \in Times : ReapExpired(at)
<1> USE TopologyAssumption
<1>1. ASSUME NEW c \in ClaimIds, NEW w \in Workers, NEW s \in Sessions,
             NEW at \in Read, ClaimNextTask(c, w, s, at)
      PROVE  \E t \in Tasks, a \in Agents :
                Ready(t) /\ CreateClaim(c, w, s, t, a, at)
  BY <1>1 DEF ClaimNextTask, Candidates
<1>2. ASSUME NEW c \in ClaimIds, NEW w \in Workers, NEW s \in Sessions,
             NEW t \in Tasks, NEW a \in Agents, NEW at \in Read,
             ClaimTask(c, w, s, t, a, at)
      PROVE  Ready(t) /\ CreateClaim(c, w, s, t, a, at)
  BY <1>2 DEF ClaimTask
<1>3. ASSUME NEW w \in Workers, NEW s \in Sessions, NEW at \in Read,
             RegisterWorker(w, s, at) \/ Heartbeat(w, s, at)
      PROVE  UNCHANGED <<task, claims, fence, attempts>>
  BY <1>3 DEF RegisterWorker, Heartbeat
<1>4. ASSUME NEW t \in Tasks,
             \/ SaveApproval(t)
             \/ \E d \in {"approved", "rejected"} : ResolveApproval(t, d)
             \/ \E d \in {"safe", "unsafe"} : SaveDelegation(t, d)
      PROVE  UNCHANGED <<task, claims, fence, attempts>>
  BY <1>4 DEF SaveApproval, ResolveApproval, SaveDelegation
<1>5. CASE Tick \/ UNCHANGED vars
  BY <1>5 DEF Tick, vars
<1>6. CASE Next
  BY <1>1, <1>2, <1>3, <1>4, <1>5, <1>6 DEF Next
<1> QED BY <1>5, <1>6

\* Releasing, pausing and committing end the caller's claim.
LEMMA EndingSteps ==
    ASSUME TypeOK, RunningIffClaimed, NEW c \in ClaimIds, NEW at \in Read,
           \/ ReleaseClaim(c, at)
           \/ PauseForApproval(c, at)
           \/ \E no \in 1 .. MaxAttempts, r \in Outcomes :
                 CommitOutcome(c, no, r, at)
    PROVE  \E s \in TerminalClaim,
              x \in [status : TaskStatus, agent : Agents \cup {Null}] :
              EndsClaim(c, s, x)
<1>1. CASE ReleaseClaim(c, at)
  <2>1. Active(c) /\ OwnsRunningTask(c)
    BY <1>1 DEF ReleaseClaim, Owns, RequireClaim, RunningIffClaimed
  <2>2. EndsClaim(c, "released", [status |-> "pending", agent |-> Null])
    BY <1>1, <2>1 DEF ReleaseClaim, ResetRunning, OwnsRunningTask, EndsClaim
  <2> QED BY <2>2 DEF TerminalClaim, TaskStatus
<1>2. CASE PauseForApproval(c, at)
  <2>1. EndsClaim(c, "released", [status |-> "pending", agent |-> Null])
    BY <1>2 DEF PauseForApproval, OwnsRunningWork, Owns, RequireClaim, EndsClaim
  <2> QED BY <2>1 DEF TerminalClaim, TaskStatus
<1>3. ASSUME NEW no \in 1 .. MaxAttempts, NEW r \in Outcomes,
             CommitOutcome(c, no, r, at)
      PROVE  \E s \in TerminalClaim,
                x \in [status : TaskStatus, agent : Agents \cup {Null}] :
                EndsClaim(c, s, x)
  <2> DEFINE x == [status |-> r,
                   agent |-> IF r = "pending" THEN Null ELSE claims[c].agent]
  <2>1. Active(c)
    BY <1>3 DEF CommitOutcome, OwnsRunningWork, Owns, RequireClaim
  <2>2. x \in [status : TaskStatus, agent : Agents \cup {Null}]
    BY <2>1, ActiveRowTypes DEF Outcomes, TaskStatus
  <2>3. EndsClaim(c, "committed", x)
    BY <1>3, <2>1 DEF CommitOutcome, EndsClaim, Outcomes
  <2> QED BY <2>2, <2>3 DEF TerminalClaim
<1> QED BY <1>1, <1>2, <1>3

-----------------------------------------------------------------------------
(* The same steps, by the rows of claims, tasks, tokens and attempts alone. *)
(* What follows from the rows holds of any store that writes them so,      *)
(* whatever it does with goals, sessions and clocks.                       *)

\* A new claim row, for a pending task that no active row owns.
GrantRow(c, w, s, t, a, at) ==
    /\ task[t].status = "pending"
    /\ ~ HasActiveClaim(t)
    /\ claims[c].status = "none"
    /\ fence' = [fence EXCEPT ![t] = fence[t] + 1]
    /\ task' = [task EXCEPT ![t] = [status |-> "running", agent |-> a]]
    /\ claims' = [claims EXCEPT ![c] =
                     [status |-> "active", task |-> t, worker |-> w,
                      session |-> s, agent |-> a, token |-> fence[t] + 1,
                      acquired |-> at, expires |-> at + Lease]]
    /\ attempts' = attempts

RenewRow(c, at) ==
    /\ Active(c)
    /\ claims' = [claims EXCEPT ![c].expires = at + Lease]
    /\ UNCHANGED <<task, fence, attempts>>

WithdrawRow(c) ==
    /\ Active(c)
    /\ claims' = [claims EXCEPT ![c] = Finished(c, "released")]
    /\ task' = [task EXCEPT ![claims[c].task] = ResetRunning(claims[c].task)]
    /\ UNCHANGED <<fence, attempts>>

SettleRow(c, no, r) ==
    LET t == claims[c].task IN
    /\ Active(c)
    /\ OwnsRunningTask(c)
    /\ IsNewAttempt(t, no)
    /\ attempts' = [attempts EXCEPT ![t] = @ \cup
                       {[no |-> no, agent |-> claims[c].agent,
                         token |-> claims[c].token, result |-> r]}]
    /\ task' = [task EXCEPT ![t] =
                   [status |-> r,
                    agent |-> IF r = "pending" THEN Null ELSE claims[c].agent]]
    /\ claims' = [claims EXCEPT ![c] = Finished(c, "committed")]
    /\ fence' = fence

\* The active claims R expire together; the tasks in B are blocked by that.
ReapRows(R, B) ==
    LET reaped == {claims[c].task : c \in R} IN
    /\ \A c \in R : Active(c)
    /\ claims' = [c \in ClaimIds |->
                     IF c \in R THEN Finished(c, "expired") ELSE claims[c]]
    /\ task' = [t \in Tasks |->
                   IF t \in reaped /\ task[t].status = "running"
                   THEN [status |-> IF t \in B THEN "blocked" ELSE "pending",
                         agent |-> Null]
                   ELSE task[t]]
    /\ UNCHANGED <<fence, attempts>>

GrantStep ==
    \E c \in ClaimIds, w \in Workers, s \in Sessions, t \in Tasks, a \in Agents,
       at \in Int : GrantRow(c, w, s, t, a, at)

KeepStep ==
    \/ UNCHANGED <<task, claims, fence, attempts>>
    \/ \E c \in ClaimIds, at \in Int : RenewRow(c, at)
    \/ \E c \in ClaimIds : WithdrawRow(c)
    \/ \E c \in ClaimIds, no \in 1 .. MaxAttempts, r \in Outcomes : SettleRow(c, no, r)
    \/ \E R \in SUBSET ClaimIds, B \in SUBSET Tasks : ReapRows(R, B)

RowStep == GrantStep \/ KeepStep

\* Every transaction of the scheduler is one.
LEMMA NextIsRowStep ==
    ASSUME TypeOK, [Next]_vars
    PROVE  /\ RowStep
           /\ \/ KeepStep
              \/ \E c \in ClaimIds, w \in Workers, s \in Sessions, t \in Tasks,
                    a \in Agents, at \in Read :
                    Ready(t) /\ CreateClaim(c, w, s, t, a, at)
<1>0. Read \subseteq Int
  BY DEF Read, Times
<1>1. ASSUME NEW c \in ClaimIds, NEW w \in Workers, NEW s \in Sessions,
             NEW t \in Tasks, NEW a \in Agents, NEW at \in Read,
             Ready(t), CreateClaim(c, w, s, t, a, at)
      PROVE  GrantStep
  <2>1. GrantRow(c, w, s, t, a, at)
    BY <1>1 DEF Ready, CreateClaim, GrantRow
  <2> QED BY <1>0, <2>1 DEF GrantStep
<1>2. ASSUME NEW c \in ClaimIds, NEW at \in Read, RenewClaim(c, at)
      PROVE  KeepStep
  <2>1. RenewRow(c, at)
    BY <1>2 DEF RenewClaim, MayRenew, Owns, RequireClaim, RenewRow
  <2> QED BY <1>0, <2>1 DEF KeepStep
<1>3. ASSUME NEW c \in ClaimIds, NEW at \in Read,
             ReleaseClaim(c, at) \/ PauseForApproval(c, at)
      PROVE  KeepStep
  <2>1. WithdrawRow(c)
    BY <1>3 DEF ReleaseClaim, PauseForApproval, OwnsRunningWork, OwnsRunningTask,
                Owns, RequireClaim, ResetRunning, WithdrawRow
  <2> QED BY <2>1 DEF KeepStep
<1>4. ASSUME NEW c \in ClaimIds, NEW at \in Read, NEW no \in 1 .. MaxAttempts,
             NEW r \in Outcomes, CommitOutcome(c, no, r, at)
      PROVE  KeepStep
  <2>1. SettleRow(c, no, r)
    BY <1>4 DEF CommitOutcome, OwnsRunningWork, Owns, RequireClaim, SettleRow
  <2> QED BY <2>1 DEF KeepStep
<1>5. ASSUME NEW at \in Times, ReapExpired(at)
      PROVE  KeepStep
  <2>1. ReapRows(ExpiredClaims(at), {t \in Tasks : delegation[t] = "unsafe"})
    BY <1>5 DEF ReapExpired, ExpiredClaims, ReapRows
  <2> QED BY <2>1 DEF KeepStep, ExpiredClaims
<1>6. ASSUME UNCHANGED <<task, claims, fence, attempts>>
      PROVE  KeepStep
  BY <1>6 DEF KeepStep
<1>7. \/ KeepStep
      \/ \E c \in ClaimIds, w \in Workers, s \in Sessions, t \in Tasks,
            a \in Agents, at \in Read :
            Ready(t) /\ CreateClaim(c, w, s, t, a, at)
  BY <1>2, <1>3, <1>4, <1>5, <1>6, StepCases
<1>8. RowStep
  BY <1>1, <1>7 DEF RowStep
<1> QED BY <1>7, <1>8

\* Withdrawing and settling end the claim.
LEMMA RowEnds ==
    ASSUME TypeOK, RunningIffClaimed, NEW c \in ClaimIds,
           \/ WithdrawRow(c)
           \/ \E no \in 1 .. MaxAttempts, r \in Outcomes : SettleRow(c, no, r)
    PROVE  \E s \in TerminalClaim,
              x \in [status : TaskStatus, agent : Agents \cup {Null}] :
              EndsClaim(c, s, x)
<1>1. CASE WithdrawRow(c)
  <2>1. EndsClaim(c, "released", [status |-> "pending", agent |-> Null])
    BY <1>1 DEF WithdrawRow, RunningIffClaimed, ResetRunning, OwnsRunningTask,
                EndsClaim
  <2> QED BY <2>1 DEF TerminalClaim, TaskStatus
<1>2. ASSUME NEW no \in 1 .. MaxAttempts, NEW r \in Outcomes, SettleRow(c, no, r)
      PROVE  \E s \in TerminalClaim,
                x \in [status : TaskStatus, agent : Agents \cup {Null}] :
                EndsClaim(c, s, x)
  <2> DEFINE x == [status |-> r,
                   agent |-> IF r = "pending" THEN Null ELSE claims[c].agent]
  <2>1. Active(c)
    BY <1>2 DEF SettleRow
  <2>2. x \in [status : TaskStatus, agent : Agents \cup {Null}]
    BY <2>1, ActiveRowTypes DEF Outcomes, TaskStatus
  <2>3. EndsClaim(c, "committed", x)
    BY <1>2, <2>1 DEF SettleRow, EndsClaim, Outcomes
  <2> QED BY <2>2, <2>3 DEF TerminalClaim
<1> QED BY <1>1, <1>2

-----------------------------------------------------------------------------
(* A task runs exactly while one active claim owns it.                     *)

LEMMA InitRunning == Init => RunningIffClaimed
BY DEF Init, RunningIffClaimed, Active, NoClaim, OwnsRunningTask

LEMMA RowRunning ==
    TypeOK /\ RunningIffClaimed /\ RowStep => RunningIffClaimed'
<1> SUFFICES ASSUME TypeOK, RunningIffClaimed, RowStep
             PROVE  RunningIffClaimed'
  OBVIOUS
<1>1. CASE UNCHANGED <<task, claims, fence, attempts>>
  BY <1>1 DEF RunningIffClaimed, Active, OwnsRunningTask, HasActiveClaim
<1>2. ASSUME NEW c \in ClaimIds, NEW w \in Workers, NEW s \in Sessions,
             NEW t \in Tasks, NEW a \in Agents, NEW at \in Int,
             GrantRow(c, w, s, t, a, at)
      PROVE  RunningIffClaimed'
  <2>1. /\ claims'[c].status = "active" 
        /\ claims'[c].task = t
        /\ claims'[c].agent = a
        /\ \A d \in ClaimIds \ {c} : claims'[d] = claims[d]
    BY <1>2 DEF GrantRow, TypeOK
  <2>2. /\ task'[t] = [status |-> "running", agent |-> a]
        /\ \A u \in Tasks \ {t} : task'[u] = task[u]
    BY <1>2 DEF GrantRow, TypeOK
  <2>3. \A d \in ClaimIds : Active(d) => /\ claims[d].task \in Tasks \ {t}
                                         /\ d # c
    BY <1>2, ActiveRowTypes DEF GrantRow, HasActiveClaim, Active
  <2> QED BY <2>1, <2>2, <2>3
          DEF RunningIffClaimed, Active, OwnsRunningTask, HasActiveClaim
<1>3. ASSUME NEW c \in ClaimIds, NEW at \in Int, RenewRow(c, at)
      PROVE  RunningIffClaimed'
  <2>1. Active(c)
    BY <1>3 DEF RenewRow
  <2>2. claims[c] \in Claim
    BY <2>1, ActiveRowTypes
  <2>3. \A d \in ClaimIds : /\ claims'[d].status = claims[d].status
                            /\ claims'[d].task = claims[d].task
                            /\ claims'[d].agent = claims[d].agent
    BY <1>3, <2>2 DEF RenewRow, TypeOK, Claim
  <2>4. task' = task
    BY <1>3 DEF RenewRow
  <2> QED BY <2>3, <2>4
          DEF RunningIffClaimed, Active, OwnsRunningTask, HasActiveClaim
<1>4. ASSUME NEW c \in ClaimIds, NEW s \in TerminalClaim,
             NEW x \in [status : TaskStatus, agent : Agents \cup {Null}],
             EndsClaim(c, s, x)
      PROVE  RunningIffClaimed'
  <2>1. Active(c) /\ claims[c].task \in Tasks
    BY <1>4, ActiveRowTypes DEF EndsClaim
  <2>2. /\ claims'[c].status \in TerminalClaim
        /\ \A d \in ClaimIds \ {c} : claims'[d] = claims[d]
    BY <1>4, <2>1, FinishEffect DEF EndsClaim
  <2>3. /\ task'[claims[c].task].status # "running"
        /\ \A u \in Tasks \ {claims[c].task} : task'[u] = task[u]
    BY <1>4, <2>1 DEF EndsClaim, TypeOK
  <2>4. \A d \in ClaimIds \ {c} :
           Active(d) => claims[d].task \in Tasks \ {claims[c].task}
    BY <2>1, ActiveRowTypes DEF RunningIffClaimed
  <2> QED BY <2>1, <2>2, <2>3, <2>4
          DEF RunningIffClaimed, Active, OwnsRunningTask, HasActiveClaim,
              TerminalClaim
<1>5. ASSUME NEW R \in SUBSET ClaimIds, NEW B \in SUBSET Tasks, ReapRows(R, B)
      PROVE  RunningIffClaimed'
  <2>1. \A d \in R : d \in ClaimIds /\ Active(d)
    BY <1>5 DEF ReapRows
  <2>2. \A d \in ClaimIds \ R : claims'[d] = claims[d]
    BY <1>5 DEF ReapRows
  <2>3. \A d \in R : claims'[d].status = "expired"
    <3> TAKE d \in R
    <3>1. claims[d] \in Claim
      BY <2>1, ActiveRowTypes
    <3> QED BY <1>5, <2>1, <3>1 DEF ReapRows, Finished, Claim
  <2>4. \A d \in R : task'[claims[d].task].status # "running"
    BY <1>5, <2>1, ActiveRowTypes DEF ReapRows
  <2>5. \A u \in Tasks : (\A d \in R : claims[d].task # u)
                            => task'[u] = task[u]
    BY <1>5 DEF ReapRows
  <2>6. \A d \in ClaimIds \ R :
           Active(d) => /\ claims[d].task \in Tasks
                        /\ task'[claims[d].task] = task[claims[d].task]
    BY <2>1, <2>5, ActiveRowTypes DEF RunningIffClaimed
  <2>7. \A d \in ClaimIds : claims'[d].status = "active" =>
           d \notin R /\ Active(d) /\ claims'[d] = claims[d]
    BY <2>2, <2>3 DEF Active
  <2>8. \A u \in Tasks : task'[u].status = "running" =>
           task'[u] = task[u] /\ \A d \in R : claims[d].task # u
    BY <1>5, <2>4, <2>5
  <2> QED BY <2>1, <2>2, <2>6, <2>7, <2>8
          DEF RunningIffClaimed, Active, OwnsRunningTask, HasActiveClaim
<1> QED BY <1>1, <1>2, <1>3, <1>4, <1>5, RowEnds DEF RowStep, GrantStep, KeepStep

\* Every transaction of the scheduler keeps it.
LEMMA NextRunning ==
    TypeOK /\ RunningIffClaimed /\ [Next]_vars => RunningIffClaimed'
BY NextIsRowStep, RowRunning

\* docs/scheduler.md, invariants 1 and 2, for every instance: a task is
\* running exactly while a single active claim owns it, under its agent.
THEOREM ExclusiveOwnership == Spec => []RunningIffClaimed
BY InitRunning, NextRunning, TypeCorrect, PTL DEF Spec

-----------------------------------------------------------------------------
(* Fencing tokens.                                                         *)

\* No step but a claim's creation changes the task and the token of a row.
LEMMA RowIdentity ==
    ASSUME TypeOK, KeepStep
    PROVE  /\ fence' = fence
           /\ \A d \in ClaimIds :
                 /\ claims'[d].task = claims[d].task
                 /\ claims'[d].token = claims[d].token
                 /\ claims'[d].status # "none" <=> claims[d].status # "none"
                 /\ claims'[d].status = "active" => Active(d)
<1>1. CASE UNCHANGED <<task, claims, fence, attempts>>
  BY <1>1 DEF Active
<1>2. ASSUME NEW c \in ClaimIds, NEW at \in Int, RenewRow(c, at)
      PROVE  /\ fence' = fence
             /\ \A d \in ClaimIds :
                   /\ claims'[d].task = claims[d].task
                   /\ claims'[d].token = claims[d].token
                   /\ claims'[d].status = claims[d].status
  <2>1. claims[c] \in Claim
    BY <1>2, ActiveRowTypes DEF RenewRow
  <2> QED BY <1>2, <2>1 DEF RenewRow, TypeOK, Claim
<1>3. ASSUME NEW c \in ClaimIds,
             \/ WithdrawRow(c)
             \/ \E no \in 1 .. MaxAttempts, r \in Outcomes : SettleRow(c, no, r)
      PROVE  /\ fence' = fence
             /\ Active(c)
             /\ \E s \in TerminalClaim :
                   claims' = [claims EXCEPT ![c] = Finished(c, s)]
  BY <1>3 DEF WithdrawRow, SettleRow, TerminalClaim
<1>4. ASSUME NEW c \in ClaimIds, Active(c), NEW s \in TerminalClaim,
             claims' = [claims EXCEPT ![c] = Finished(c, s)]
      PROVE  \A d \in ClaimIds :
                /\ claims'[d].task = claims[d].task
                /\ claims'[d].token = claims[d].token
                /\ claims'[d].status # "none" <=> claims[d].status # "none"
                /\ claims'[d].status = "active" => Active(d)
  BY <1>4, FinishEffect DEF TerminalClaim, Active
<1>5. ASSUME NEW R \in SUBSET ClaimIds, NEW B \in SUBSET Tasks, ReapRows(R, B)
      PROVE  /\ fence' = fence
             /\ \A d \in ClaimIds :
                   /\ claims'[d].task = claims[d].task
                   /\ claims'[d].token = claims[d].token
                   /\ claims'[d].status # "none" <=> claims[d].status # "none"
                   /\ claims'[d].status = "active" => Active(d)
  <2>1. fence' = fence
    BY <1>5 DEF ReapRows
  <2>2. ASSUME NEW d \in ClaimIds, d \notin R
        PROVE  claims'[d] = claims[d]
    BY <1>5, <2>2 DEF ReapRows
  <2>3. ASSUME NEW d \in R
        PROVE  /\ Active(d)
               /\ claims'[d].task = claims[d].task
               /\ claims'[d].token = claims[d].token
               /\ claims'[d].status = "expired"
    <3>1. d \in ClaimIds /\ Active(d)
      BY <1>5 DEF ReapRows
    <3>2. claims[d] \in Claim
      BY <3>1, ActiveRowTypes
    <3> QED BY <1>5, <3>1, <3>2 DEF ReapRows, Finished, Claim
  <2> QED BY <2>1, <2>2, <2>3 DEF Active
<1> QED BY <1>1, <1>2, <1>3, <1>4, <1>5 DEF KeepStep, Active

\* The same of the transactions of the scheduler.
LEMMA IdentityKept ==
    ASSUME TypeOK, [Next]_vars,
           ~ \E c \in ClaimIds, w \in Workers, s \in Sessions, t \in Tasks,
                a \in Agents, at \in Read :
                Ready(t) /\ CreateClaim(c, w, s, t, a, at)
    PROVE  /\ fence' = fence
           /\ \A d \in ClaimIds :
                 /\ claims'[d].task = claims[d].task
                 /\ claims'[d].token = claims[d].token
                 /\ claims'[d].status # "none" <=> claims[d].status # "none"
                 /\ claims'[d].status = "active" => Active(d)
BY NextIsRowStep, RowIdentity

LEMMA InitFencing == Init => FencingOrder
BY DEF Init, FencingOrder, NoClaim

LEMMA RowFencing ==
    TypeOK /\ FencingOrder /\ RowStep => FencingOrder'
<1> SUFFICES ASSUME TypeOK, FencingOrder, RowStep
             PROVE  FencingOrder'
  OBVIOUS
<1>1. ASSUME NEW c \in ClaimIds, NEW w \in Workers, NEW s \in Sessions,
             NEW t \in Tasks, NEW a \in Agents, NEW at \in Int,
             GrantRow(c, w, s, t, a, at)
      PROVE  FencingOrder'
  <2>1. /\ claims'[c].status = "active"
        /\ claims'[c].task = t
        /\ claims'[c].token = fence[t] + 1
        /\ \A d \in ClaimIds \ {c} : claims'[d] = claims[d]
    BY <1>1 DEF GrantRow, TypeOK
  <2>2. /\ fence'[t] = fence[t] + 1
        /\ \A u \in Tasks \ {t} : fence'[u] = fence[u]
        /\ \A u \in Tasks : fence[u] \in Nat /\ fence'[u] \in Nat
    BY <1>1 DEF GrantRow, TypeOK
  <2>3. \A d \in ClaimIds : claims[d].status # "none" =>
           /\ claims[d].task \in Tasks
           /\ claims[d].token \in Nat
    BY RowTypes DEF Claim
  <2>4. \A d \in ClaimIds : claims[d].status = "none" => claims[d].task = Null
    BY DEF TypeOK, Claim, ClaimStatus, NoClaim
  <2>5. \A d \in ClaimIds : Active(d) => claims[d].task # t
    BY <1>1 DEF GrantRow, HasActiveClaim
  <2>6. ASSUME NEW d \in ClaimIds, claims'[d].status # "none"
        PROVE  /\ claims'[d].token \in 1 .. fence'[claims'[d].task]
               /\ Active(d)' => claims'[d].token = fence'[claims'[d].task]
    <3>1. CASE d = c
      BY <3>1, <2>1, <2>2
    <3>2. CASE d # c
      <4>1. /\ claims[d].status # "none"
            /\ claims'[d] = claims[d]
        BY <3>2, <2>1, <2>6
      <4>2. CASE claims[d].task = t
        BY <4>1, <4>2, <2>2, <2>3, <2>5 DEF FencingOrder, Active
      <4>3. CASE claims[d].task # t
        BY <4>1, <4>3, <2>2, <2>3 DEF FencingOrder, Active
      <4> QED BY <4>2, <4>3
    <3> QED BY <3>1, <3>2
  <2>7. ASSUME NEW d \in ClaimIds, claims'[d].status # "none",
               NEW e \in ClaimIds,
               claims'[e].task = claims'[d].task,
               claims'[e].token = claims'[d].token
        PROVE  d = e
    <3>1. CASE d # c /\ e # c
      BY <3>1, <2>1, <2>7 DEF FencingOrder
    <3>2. ASSUME NEW f \in ClaimIds, f # c, claims[f].task = t
          PROVE  claims[f].token # fence[t] + 1
      <4>1. claims[f].status # "none"
        BY <3>2, <2>4, NullAssumption
      <4> QED BY <4>1, <3>2, <2>2, <2>3 DEF FencingOrder
    <3>3. CASE d = c /\ e # c
      BY <3>2, <3>3, <2>1, <2>7
    <3>4. CASE d # c /\ e = c
      BY <3>2, <3>4, <2>1, <2>7
    <3> QED BY <3>1, <3>3, <3>4
  <2> QED BY <2>6, <2>7 DEF FencingOrder
<1>2. CASE KeepStep
  BY <1>2, RowIdentity DEF FencingOrder, Active
<1> QED BY <1>1, <1>2 DEF RowStep, GrantStep

\* docs/scheduler.md, invariant 3, for every instance: the tokens of a task
\* are distinct and the active claim holds the newest.
THEOREM MonotonicFencing == Spec => []FencingOrder
BY InitFencing, NextIsRowStep, RowFencing, TypeCorrect, PTL DEF Spec

-----------------------------------------------------------------------------

\* A final attempt is what its task's status says.
ClosedTasks ==
    \A t \in Tasks : \A x \in attempts[t] :
       x.result # "pending" => task[t].status = x.result

-----------------------------------------------------------------------------
(* Ended tasks.                                                            *)

\* Only a pending or a running task is ever written.
LEMMA EndedTaskStays ==
    ASSUME TypeOK, RunningIffClaimed, RowStep,
           NEW t \in Tasks, task[t].status \notin {"pending", "running"}
    PROVE  task'[t] = task[t]
<1>1. CASE UNCHANGED <<task, claims, fence, attempts>>
  BY <1>1
<1>2. CASE GrantStep
  BY <1>2 DEF GrantStep, GrantRow, TypeOK
<1>3. ASSUME NEW c \in ClaimIds, NEW at \in Int, RenewRow(c, at)
      PROVE  task'[t] = task[t]
  BY <1>3 DEF RenewRow
<1>4. ASSUME NEW c \in ClaimIds, NEW s, NEW x, EndsClaim(c, s, x)
      PROVE  task'[t] = task[t]
  <2>1. task[claims[c].task].status = "running"
    BY <1>4 DEF EndsClaim, RunningIffClaimed, OwnsRunningTask
  <2> QED BY <1>4, <2>1 DEF EndsClaim, TypeOK
<1>5. ASSUME NEW R \in SUBSET ClaimIds, NEW B \in SUBSET Tasks, ReapRows(R, B)
      PROVE  task'[t] = task[t]
  BY <1>5 DEF ReapRows
<1> QED BY <1>1, <1>2, <1>3, <1>4, <1>5, RowEnds DEF RowStep, KeepStep

\* An attempt is added when a claim is settled, and otherwise never.
LEMMA RowAttempts ==
    ASSUME RowStep
    PROVE  \/ attempts' = attempts
           \/ \E c \in ClaimIds, no \in 1 .. MaxAttempts, r \in Outcomes :
                 SettleRow(c, no, r)
BY DEF RowStep, GrantStep, KeepStep, GrantRow, RenewRow, WithdrawRow, ReapRows

\* What settling does to the rows of its task and of the others.
LEMMA SettleEffect ==
    ASSUME TypeOK, NEW c \in ClaimIds, NEW no \in 1 .. MaxAttempts,
           NEW r \in Outcomes, SettleRow(c, no, r)
    PROVE  /\ Active(c)
           /\ claims[c].task \in Tasks
           /\ task[claims[c].task].status = "running"
           /\ task'[claims[c].task].status = r
           /\ attempts'[claims[c].task] = attempts[claims[c].task] \cup
                 {[no |-> no, agent |-> claims[c].agent,
                   token |-> claims[c].token, result |-> r]}
           /\ \A u \in Tasks \ {claims[c].task} : attempts'[u] = attempts[u]
           /\ claims' = [claims EXCEPT ![c] = Finished(c, "committed")]
           /\ fence' = fence
<1>1. Active(c) /\ task[claims[c].task].status = "running"
  BY DEF SettleRow, OwnsRunningTask
<1>2. claims[c].task \in Tasks
  BY <1>1, ActiveRowTypes
<1> QED BY <1>1, <1>2 DEF SettleRow, TypeOK

\* Attempts are added by outcome commits and by nothing else.
LEMMA AttemptsChange ==
    ASSUME TypeOK, [Next]_vars
    PROVE  \/ attempts' = attempts
           \/ \E c \in ClaimIds, at \in Read, no \in 1 .. MaxAttempts,
                 r \in Outcomes : CommitOutcome(c, no, r, at)
BY StepCases DEF CreateClaim, RenewClaim, ReleaseClaim, PauseForApproval,
                 ReapExpired

\* What an outcome commit does to the rows of its task and of the others.
LEMMA CommitEffect ==
    ASSUME TypeOK, NEW c \in ClaimIds, NEW at \in Read,
           NEW no \in 1 .. MaxAttempts, NEW r \in Outcomes,
           CommitOutcome(c, no, r, at)
    PROVE  /\ Active(c)
           /\ claims[c].task \in Tasks
           /\ task[claims[c].task].status = "running"
           /\ task'[claims[c].task].status = r
           /\ attempts'[claims[c].task] = attempts[claims[c].task] \cup
                 {[no |-> no, agent |-> claims[c].agent,
                   token |-> claims[c].token, result |-> r]}
           /\ \A u \in Tasks \ {claims[c].task} : attempts'[u] = attempts[u]
           /\ claims' = [claims EXCEPT ![c] = Finished(c, "committed")]
           /\ fence' = fence
<1>1. Active(c) /\ task[claims[c].task].status = "running"
  BY DEF CommitOutcome, OwnsRunningWork, Owns, RequireClaim, OwnsRunningTask
<1>2. claims[c].task \in Tasks
  BY <1>1, ActiveRowTypes
<1> QED BY <1>1, <1>2 DEF CommitOutcome, TypeOK

\* An empty database has no final attempt.
LEMMA InitClosed == Init => ClosedTasks
BY DEF Init, ClosedTasks

\* An old attempt keeps its task, a new one sets it.
LEMMA RowClosed ==
    TypeOK /\ RunningIffClaimed /\ ClosedTasks /\ RowStep => ClosedTasks'
<1> SUFFICES ASSUME TypeOK, RunningIffClaimed, ClosedTasks, RowStep,
                    NEW t \in Tasks, NEW x \in attempts'[t],
                    x.result # "pending"
             PROVE  task'[t].status = x.result
  BY DEF ClosedTasks
<1>1. CASE x \in attempts[t]
  <2>1. x.result \in Outcomes /\ task[t].status = x.result
    BY <1>1 DEF TypeOK, Attempt, ClosedTasks
  <2> QED BY <2>1, EndedTaskStays DEF Outcomes
<1>2. CASE x \notin attempts[t]
  <2>1. PICK c \in ClaimIds, no \in 1 .. MaxAttempts, r \in Outcomes :
             SettleRow(c, no, r)
    BY <1>2, RowAttempts
  <2>2. t = claims[c].task /\ x.result = r
    BY <1>2, <2>1, SettleEffect
  <2> QED BY <2>1, <2>2, SettleEffect
<1> QED BY <1>1, <1>2

\* An attempt that is final stays the status of its task: only pending and
\* running tasks are written, and only a commit adds an attempt.
THEOREM ClosedTasksInvariant == Spec => []ClosedTasks
BY InitClosed, NextIsRowStep, RowClosed, TypeCorrect, ExclusiveOwnership, PTL DEF Spec

-----------------------------------------------------------------------------
(* Final outcomes.                                                         *)

\* The next token is only issued to a pending task.
LEMMA FenceChange ==
    ASSUME TypeOK, RowStep, NEW t \in Tasks, task[t].status # "pending"
    PROVE  fence'[t] = fence[t]
<1>1. CASE GrantStep
  BY <1>1 DEF GrantStep, GrantRow, TypeOK
<1>2. CASE KeepStep
  BY <1>2, RowIdentity
<1> QED BY <1>1, <1>2 DEF RowStep

\* A task succeeds or fails by being settled and by nothing else.
LEMMA BecomesFinal ==
    ASSUME TypeOK, RowStep, NEW t \in Tasks,
           task'[t].status \in {"succeeded", "failed"},
           task'[t].status # task[t].status
    PROVE  \E c \in ClaimIds, no \in 1 .. MaxAttempts :
              SettleRow(c, no, task'[t].status) /\ claims[c].task = t
<1>1. CASE UNCHANGED <<task, claims, fence, attempts>>
  BY <1>1
<1>2. CASE GrantStep
  BY <1>2 DEF GrantStep, GrantRow, TypeOK
<1>3. ASSUME NEW c \in ClaimIds,
             WithdrawRow(c) \/ \E at \in Int : RenewRow(c, at)
      PROVE  FALSE
  BY <1>3 DEF RenewRow, WithdrawRow, ResetRunning, TypeOK
<1>4. ASSUME NEW c \in ClaimIds, NEW no \in 1 .. MaxAttempts,
             NEW r \in Outcomes, SettleRow(c, no, r)
      PROVE  SettleRow(c, no, task'[t].status) /\ claims[c].task = t
  BY <1>4, SettleEffect DEF SettleRow, TypeOK
<1>5. ASSUME NEW R \in SUBSET ClaimIds, NEW B \in SUBSET Tasks, ReapRows(R, B)
      PROVE  FALSE
  BY <1>5 DEF ReapRows
<1> QED BY <1>1, <1>2, <1>3, <1>4, <1>5 DEF RowStep, KeepStep

\* Initially no task is final.
LEMMA InitFinal == Init => FinalOutcomeIsLast
BY DEF Init, FinalOutcomeIsLast

\* A commit writes the final status together with its attempt, under the
\* newest token; later no token is issued and the status stays.
LEMMA RowFinal ==
    /\ TypeOK /\ RunningIffClaimed /\ FencingOrder /\ ClosedTasks
    /\ FinalOutcomeIsLast /\ RowStep
    => FinalOutcomeIsLast'
<1> SUFFICES ASSUME TypeOK, RunningIffClaimed, FencingOrder, ClosedTasks,
                    FinalOutcomeIsLast, RowStep, NEW t \in Tasks
             PROVE  /\ \A x \in attempts'[t] :
                          x.result \in {"succeeded", "failed"} =>
                             /\ x.token = fence'[t]
                             /\ task'[t].status = x.result
                    /\ task'[t].status \in {"succeeded", "failed"} =>
                          \E x \in attempts'[t] : x.result = task'[t].status
  BY DEF FinalOutcomeIsLast
<1>1. ASSUME NEW x \in attempts'[t], x.result \in {"succeeded", "failed"}
      PROVE  x.token = fence'[t]
  <2>1. CASE x \in attempts[t]
    <3>1. x.token = fence[t] /\ task[t].status = x.result
      BY <1>1, <2>1 DEF FinalOutcomeIsLast
    <3> QED BY <1>1, <3>1, FenceChange
  <2>2. CASE x \notin attempts[t]
    <3>1. PICK c \in ClaimIds, no \in 1 .. MaxAttempts, r \in Outcomes :
               SettleRow(c, no, r)
      BY <2>2, RowAttempts
    <3>2. t = claims[c].task /\ x.token = claims[c].token /\ fence' = fence
      BY <2>2, <3>1, SettleEffect
    <3>3. claims[c].token = fence[claims[c].task]
      BY <3>1, SettleEffect DEF FencingOrder, Active
    <3> QED BY <3>2, <3>3
  <2> QED BY <2>1, <2>2
<1>2. ASSUME NEW x \in attempts'[t], x.result \in {"succeeded", "failed"}
      PROVE  task'[t].status = x.result
  BY <1>2, RowClosed DEF ClosedTasks
<1>3. ASSUME task'[t].status \in {"succeeded", "failed"}
      PROVE  \E x \in attempts'[t] : x.result = task'[t].status
  <2>1. CASE task'[t].status = task[t].status
    <3>1. PICK x \in attempts[t] : x.result = task[t].status
      BY <1>3, <2>1 DEF FinalOutcomeIsLast
    <3>2. x \in attempts'[t]
      BY <3>1, RowAttempts, SettleEffect
    <3> QED BY <2>1, <3>1, <3>2
  <2>2. CASE task'[t].status # task[t].status
    <3>1. PICK c \in ClaimIds, no \in 1 .. MaxAttempts :
               SettleRow(c, no, task'[t].status) /\ claims[c].task = t
      BY <1>3, <2>2, BecomesFinal
    <3>2. task'[t].status \in Outcomes
      BY <1>3 DEF Outcomes
    <3> DEFINE x == [no |-> no, agent |-> claims[c].agent,
                     token |-> claims[c].token, result |-> task'[t].status]
    <3>3. x \in attempts'[t]
      BY <3>1, <3>2, SettleEffect
    <3>4. x.result = task'[t].status
      OBVIOUS
    <3> QED BY <3>3, <3>4
  <2> QED BY <2>1, <2>2
<1> QED BY <1>1, <1>2, <1>3

\* For every instance: the attempt that makes a task succeed or fail carries
\* the newest token the task will ever have.
THEOREM FinalOutcomes == Spec => []FinalOutcomeIsLast
BY InitFinal, NextIsRowStep, RowFinal, TypeCorrect, ExclusiveOwnership,
   MonotonicFencing, ClosedTasksInvariant, PTL DEF Spec

-----------------------------------------------------------------------------
(* Evidence.                                                               *)

\* A finished claim's row is never written again.
LEMMA TerminalStays ==
    ASSUME TypeOK, RowStep, NEW d \in ClaimIds, claims[d].status \in TerminalClaim
    PROVE  claims'[d] = claims[d]
<1> USE DEF TerminalClaim, Active
<1>1. CASE GrantStep
  BY <1>1 DEF GrantStep, GrantRow, TypeOK
<1>2. ASSUME NEW c \in ClaimIds,
             \/ \E at \in Int : RenewRow(c, at)
             \/ WithdrawRow(c)
             \/ \E no \in 1 .. MaxAttempts, r \in Outcomes : SettleRow(c, no, r)
      PROVE  claims'[d] = claims[d]
  <2>1. Active(c)
    BY <1>2 DEF RenewRow, WithdrawRow, SettleRow
  <2> QED BY <1>2, <2>1 DEF RenewRow, WithdrawRow, SettleRow, TypeOK
<1>3. ASSUME NEW R \in SUBSET ClaimIds, NEW B \in SUBSET Tasks, ReapRows(R, B)
      PROVE  claims'[d] = claims[d]
  BY <1>3 DEF ReapRows
<1> QED BY <1>1, <1>2, <1>3 DEF RowStep, KeepStep

\* A claim becomes committed by being settled only.
LEMMA BecomesCommitted ==
    ASSUME TypeOK, RowStep, NEW d \in ClaimIds,
           claims'[d].status = "committed", claims[d].status # "committed"
    PROVE  \E no \in 1 .. MaxAttempts, r \in Outcomes : SettleRow(d, no, r)
<1>1. ~ GrantStep
  BY DEF GrantStep, GrantRow, TypeOK
<1>2. ASSUME NEW c \in ClaimIds, NEW at \in Int, RenewRow(c, at)
      PROVE  FALSE
  <2>1. claims[c] \in Claim
    BY <1>2, ActiveRowTypes DEF RenewRow
  <2> QED BY <1>2, <2>1 DEF RenewRow, TypeOK, Claim
<1>3. ASSUME NEW c \in ClaimIds, WithdrawRow(c)
      PROVE  FALSE
  BY <1>3, FinishEffect DEF WithdrawRow, TerminalClaim
<1>4. ASSUME NEW c \in ClaimIds, NEW no \in 1 .. MaxAttempts,
             NEW r \in Outcomes, SettleRow(c, no, r)
      PROVE  c = d
  BY <1>4, SettleEffect DEF TypeOK
<1>5. ASSUME NEW R \in SUBSET ClaimIds, NEW B \in SUBSET Tasks, ReapRows(R, B)
      PROVE  FALSE
  <2>1. CASE d \in R
    <3>1. claims[d] \in Claim
      BY <1>5, <2>1, ActiveRowTypes DEF ReapRows
    <3> QED BY <1>5, <2>1, <3>1 DEF ReapRows, Finished, Claim
  <2>2. CASE d \notin R
    BY <1>5, <2>2 DEF ReapRows
  <2> QED BY <2>1, <2>2
<1> QED BY <1>1, <1>2, <1>3, <1>4, <1>5 DEF RowStep, KeepStep

\* Initially there are neither attempts nor claims.
LEMMA InitEvidence == Init => EvidenceIffCommitted
BY DEF Init, EvidenceIffCommitted, NoClaim

\* A commit adds an attempt with its claim's own token, which no other
\* committed claim has; everything else keeps both sides.
LEMMA RowEvidence ==
    /\ TypeOK /\ FencingOrder /\ EvidenceIffCommitted /\ RowStep
    => EvidenceIffCommitted'
<1> SUFFICES ASSUME TypeOK, FencingOrder, EvidenceIffCommitted, RowStep
             PROVE  EvidenceIffCommitted'
  OBVIOUS
<1>1. ASSUME NEW d \in ClaimIds, claims[d].status = "committed"
      PROVE  claims'[d] = claims[d] /\ claims[d].task \in Tasks
  <2>1. claims[d] \in Claim
    BY <1>1, RowTypes
  <2> QED BY <1>1, <2>1, TerminalStays DEF TerminalClaim, Claim
<1>2. ASSUME NEW t \in Tasks
      PROVE  attempts[t] \subseteq attempts'[t]
  BY RowAttempts, SettleEffect
<1>3. CASE attempts' = attempts
  <2>1. ASSUME NEW d \in ClaimIds, claims'[d].status = "committed"
        PROVE  claims[d].status = "committed"
    <3>1. ASSUME NEW no \in 1 .. MaxAttempts, NEW r \in Outcomes,
                 SettleRow(d, no, r)
          PROVE  FALSE
      <4> DEFINE x == [no |-> no, agent |-> claims[d].agent,
                       token |-> claims[d].token, result |-> r]
      <4>1. x \in attempts'[claims[d].task] /\ claims[d].task \in Tasks
        BY <3>1, SettleEffect
      <4>2. x.no = no
        OBVIOUS
      <4> QED BY <1>3, <3>1, <4>1, <4>2 DEF SettleRow, IsNewAttempt
    <3> QED BY <2>1, <3>1, BecomesCommitted
  <2> QED BY <1>1, <1>3, <2>1 DEF EvidenceIffCommitted
<1>4. ASSUME NEW c \in ClaimIds, NEW no \in 1 .. MaxAttempts,
             NEW r \in Outcomes, SettleRow(c, no, r)
      PROVE  EvidenceIffCommitted'
  <2> DEFINE x == [no |-> no, agent |-> claims[c].agent,
                   token |-> claims[c].token, result |-> r]
             t == claims[c].task
  <2>1. /\ Active(c)
        /\ t \in Tasks
        /\ attempts'[t] = attempts[t] \cup {x}
        /\ \A u \in Tasks \ {t} : attempts'[u] = attempts[u]
        /\ claims'[c].status = "committed"
        /\ claims'[c].task = t
        /\ claims'[c].token = claims[c].token
        /\ \A d \in ClaimIds \ {c} : claims'[d] = claims[d]
    BY <1>4, SettleEffect, FinishEffect DEF TerminalClaim
  <2>2. x.token = claims[c].token /\ x.no = no
    OBVIOUS
  <2>3. \A b \in attempts[t] : b.no # no
    BY <1>4 DEF SettleRow, IsNewAttempt
  <2>4. ASSUME NEW b \in attempts[t]
        PROVE  b.token # claims[c].token
    <3>1. PICK d \in ClaimIds : /\ claims[d].status = "committed"
                                /\ claims[d].task = t
                                /\ claims[d].token = b.token
      BY <2>1 DEF EvidenceIffCommitted
    <3>2. d # c
      BY <2>1, <3>1 DEF Active
    <3> QED BY <2>1, <3>1, <3>2 DEF FencingOrder, Active
  <2>5. ASSUME NEW d \in ClaimIds, claims'[d].status = "committed"
        PROVE  \E a \in attempts'[claims'[d].task] :
                  a.token = claims'[d].token
    <3>1. CASE d = c
      BY <2>1, <2>2, <3>1
    <3>2. CASE d # c
      <4>1. PICK a \in attempts[claims[d].task] : a.token = claims[d].token
        BY <2>1, <2>5, <3>2 DEF EvidenceIffCommitted
      <4> QED BY <1>1, <1>2, <2>1, <2>5, <3>2, <4>1
    <3> QED BY <3>1, <3>2
  <2>6. ASSUME NEW u \in Tasks, NEW a \in attempts'[u]
        PROVE  /\ \E d \in ClaimIds : /\ claims'[d].status = "committed"
                                      /\ claims'[d].task = u
                                      /\ claims'[d].token = a.token
               /\ \A b \in attempts'[u] :
                     a.no = b.no \/ a.token = b.token => a = b
    <3>1. CASE a \in attempts[u]
      <4>1. PICK d \in ClaimIds : /\ claims[d].status = "committed"
                                  /\ claims[d].task = u
                                  /\ claims[d].token = a.token
        BY <3>1 DEF EvidenceIffCommitted
      <4>2. claims'[d] = claims[d]
        BY <1>1, <4>1
      <4>3. ASSUME NEW b \in attempts'[u], a.no = b.no \/ a.token = b.token
            PROVE  a = b
        <5>1. CASE b \in attempts[u]
          BY <3>1, <4>3, <5>1 DEF EvidenceIffCommitted
        <5>2. CASE b \notin attempts[u]
          <6>1. u = t /\ b = x
            BY <2>1, <5>2
          <6> QED BY <2>2, <2>3, <2>4, <3>1, <4>3, <6>1
        <5> QED BY <5>1, <5>2
      <4> QED BY <4>1, <4>2, <4>3
    <3>2. CASE a \notin attempts[u]
      <4>1. u = t /\ a = x
        BY <2>1, <2>6, <3>2
      <4>2. ASSUME NEW b \in attempts'[u], a.no = b.no \/ a.token = b.token
            PROVE  a = b
        BY <2>1, <2>2, <2>3, <2>4, <4>1, <4>2
      <4> QED BY <2>1, <2>2, <4>1, <4>2
    <3> QED BY <3>1, <3>2
  <2> QED BY <2>5, <2>6 DEF EvidenceIffCommitted
<1> QED BY <1>3, <1>4, RowAttempts

\* docs/scheduler.md, invariant 5, for every instance: the attempts of a task
\* and its committed claims are the same thing.
THEOREM EvidenceIsCommitted == Spec => []EvidenceIffCommitted
BY InitEvidence, NextIsRowStep, RowEvidence, TypeCorrect, MonotonicFencing, PTL DEF Spec

-----------------------------------------------------------------------------
(* The refinement.                                                         *)

\* A task without an active claim has no holder.
LEMMA NothingHeld ==
    ASSUME NEW t \in Tasks, ~ HasActiveClaim(t)
    PROVE  HeldTokens[t] = {}
BY DEF HeldTokens, HasActiveClaim

\* A task with an active claim has that claim's token as its only holder.
LEMMA OneHeld ==
    ASSUME TypeOK, RunningIffClaimed, NEW c \in ClaimIds, Active(c)
    PROVE  HeldTokens[claims[c].task] = {claims[c].token}
<1>1. claims[c].task \in Tasks
  BY ActiveRowTypes
<1> QED BY <1>1 DEF HeldTokens, RunningIffClaimed

\* The tokens of a task stay when its active claims do.
LEMMA HeldStays ==
    ASSUME NEW t \in Tasks,
           \A d \in ClaimIds :
              \/ /\ claims'[d].status = claims[d].status
                 /\ claims'[d].task = claims[d].task
                 /\ claims'[d].token = claims[d].token
              \/ /\ ~ (Active(d) /\ claims[d].task = t)
                 /\ ~ (Active(d) /\ claims[d].task = t)'
    PROVE  HeldTokens'[t] = HeldTokens[t]
BY DEF HeldTokens, Active

\* The active claim of t has ended.
LEMMA HeldEnds ==
    ASSUME NEW t \in Tasks,
           \A d \in ClaimIds : ~ (Active(d) /\ claims[d].task = t)'
    PROVE  HeldTokens'[t] = {}
BY DEF HeldTokens, Active

\* The mapped variables are functions on the tasks.
LEMMA HeldIsFunction ==
    /\ HeldTokens = [t \in Tasks |-> HeldTokens[t]]
    /\ HeldTokens' = [t \in Tasks |-> HeldTokens'[t]]
    /\ Evidence = [t \in Tasks |-> Evidence[t]]
    /\ Evidence' = [t \in Tasks |-> Evidence'[t]]
BY DEF HeldTokens, Evidence

\* An empty database maps to the initial state of FencedWork.
LEMMA InitFenced == Init => Fenced!Init
<1> SUFFICES ASSUME Init PROVE Fenced!Init
  OBVIOUS
<1>1. \A t \in Tasks : HeldTokens[t] = {}
  BY NothingHeld DEF Init, HasActiveClaim, Active, NoClaim
<1>2. \A t \in Tasks : Evidence[t] = {}
  BY DEF Init, Evidence
<1> QED BY <1>1, <1>2, HeldIsFunction DEF Init, Fenced!Init

\* Creating a claim is a grant: its task has no holder and no final result.
LEMMA CreateIsGrant ==
    ASSUME TypeOK, RunningIffClaimed, ClosedTasks,
           NEW c \in ClaimIds, NEW w \in Workers, NEW s \in Sessions,
           NEW t \in Tasks, NEW a \in Agents, NEW at \in Int,
           GrantRow(c, w, s, t, a, at)
    PROVE  Fenced!Grant(t)
<1>1. HeldTokens[t] = {}
  BY NothingHeld DEF GrantRow
<1>2. ~ Fenced!Closed(t)
  BY DEF Fenced!Closed, Evidence, ClosedTasks, GrantRow
<1>3. fence' = [fence EXCEPT ![t] = fence[t] + 1]
  BY DEF GrantRow
<1>4. /\ claims'[c].status = "active"
      /\ claims'[c].task = t
      /\ claims'[c].token = fence[t] + 1
      /\ claims[c].status = "none"
      /\ \A d \in ClaimIds \ {c} : claims'[d] = claims[d]
  BY DEF GrantRow, TypeOK
<1>5. HeldTokens'[t] = {fence[t] + 1}
  <2>1. \A d \in ClaimIds :
           (Active(d) /\ claims[d].task = t)' <=> d = c
    BY <1>4 DEF GrantRow, HasActiveClaim, Active
  <2> QED BY <1>4, <2>1 DEF HeldTokens
<1>6. ASSUME NEW u \in Tasks \ {t}
      PROVE  HeldTokens'[u] = HeldTokens[u]
  BY <1>4, HeldStays DEF Active
<1>7. HeldTokens' = [HeldTokens EXCEPT ![t] = {fence[t] + 1}]
  BY <1>5, <1>6, HeldIsFunction
<1>8. Evidence' = Evidence
  BY DEF GrantRow, Evidence
<1> QED BY <1>1, <1>2, <1>3, <1>7, <1>8 DEF Fenced!Grant

\* Ending claim c takes the token of its task and no other.
LEMMA FinishHeld ==
    ASSUME TypeOK, RunningIffClaimed, NEW c \in ClaimIds, Active(c),
           NEW s \in TerminalClaim,
           claims' = [claims EXCEPT ![c] = Finished(c, s)]
    PROVE  /\ HeldTokens'[claims[c].task] = {}
           /\ \A u \in Tasks \ {claims[c].task} :
                 HeldTokens'[u] = HeldTokens[u]
<1>1. /\ claims'[c].status \in TerminalClaim
      /\ claims'[c].task = claims[c].task
      /\ \A d \in ClaimIds \ {c} : claims'[d] = claims[d]
      /\ claims[c].task \in Tasks
  BY FinishEffect, ActiveRowTypes
<1>2. HeldTokens'[claims[c].task] = {}
  BY <1>1, HeldEnds DEF RunningIffClaimed, Active, TerminalClaim
<1>3. ASSUME NEW u \in Tasks \ {claims[c].task}
      PROVE  HeldTokens'[u] = HeldTokens[u]
  BY <1>1, <1>3, HeldStays
<1> QED BY <1>2, <1>3

\* Settling a claim settles the grant of its task.
LEMMA RowIsSettle ==
    ASSUME TypeOK, RunningIffClaimed, NEW c \in ClaimIds,
           NEW no \in 1 .. MaxAttempts, NEW r \in Outcomes, SettleRow(c, no, r)
    PROVE  Fenced!Settle(claims[c].task, r)
<1> DEFINE t == claims[c].task
           x == [no |-> no, agent |-> claims[c].agent,
                 token |-> claims[c].token, result |-> r]
<1>1. /\ Active(c)
      /\ t \in Tasks
      /\ attempts'[t] = attempts[t] \cup {x}
      /\ \A u \in Tasks \ {t} : attempts'[u] = attempts[u]
      /\ claims' = [claims EXCEPT ![c] = Finished(c, "committed")]
      /\ fence' = fence
  BY SettleEffect
<1>2. HeldTokens[t] = {claims[c].token}
  BY <1>1, OneHeld
<1>3. HeldTokens' = [HeldTokens EXCEPT ![t] = {}]
  BY <1>1, FinishHeld, HeldIsFunction DEF TerminalClaim
<1>4. Evidence'[t] = Evidence[t] \cup {<<token, r>> : token \in HeldTokens[t]}
  <2>1. Evidence'[t] = Evidence[t] \cup {<<x.token, x.result>>}
    BY <1>1 DEF Evidence
  <2> QED BY <1>2, <2>1
<1>5. \A u \in Tasks \ {t} : Evidence'[u] = Evidence[u]
  BY <1>1 DEF Evidence
<1>6. Evidence' = [Evidence EXCEPT ![t] =
                      @ \cup {<<token, r>> : token \in HeldTokens[t]}]
  BY <1>1, <1>4, <1>5, HeldIsFunction
<1> QED BY <1>1, <1>2, <1>3, <1>6 DEF Fenced!Settle

\* Releasing and pausing withdraw one grant.
LEMMA RowIsWithdraw ==
    ASSUME TypeOK, RunningIffClaimed, NEW c \in ClaimIds, WithdrawRow(c)
    PROVE  Fenced!Withdraw({claims[c].task})
<1>1. /\ Active(c)
      /\ claims' = [claims EXCEPT ![c] = Finished(c, "released")]
      /\ UNCHANGED <<fence, attempts>>
  BY DEF WithdrawRow
<1>2. HeldTokens[claims[c].task] # {}
  BY <1>1, OneHeld
<1>3. HeldTokens' = [t \in Tasks |-> IF t \in {claims[c].task} THEN {}
                                     ELSE HeldTokens[t]]
  BY <1>1, FinishHeld, HeldIsFunction DEF TerminalClaim
<1>4. Evidence' = Evidence
  BY <1>1 DEF Evidence
<1> QED BY <1>1, <1>2, <1>3, <1>4 DEF Fenced!Withdraw

\* The reaper withdraws the grants of all expired claims at once.
LEMMA ReapIsWithdraw ==
    ASSUME TypeOK, RunningIffClaimed, NEW R \in SUBSET ClaimIds,
           NEW B \in SUBSET Tasks, ReapRows(R, B)
    PROVE  \E T \in SUBSET Tasks : Fenced!Withdraw(T)
<1> DEFINE T == {claims[c].task : c \in R}
<1>1. ASSUME NEW c \in R
      PROVE  /\ c \in ClaimIds /\ Active(c)
             /\ claims[c].task \in Tasks
             /\ claims'[c].status = "expired"
             /\ claims'[c].task = claims[c].task
  <2>1. c \in ClaimIds /\ Active(c)
    BY DEF ReapRows
  <2>2. claims[c] \in Claim
    BY <2>1, ActiveRowTypes
  <2> QED BY <2>1, <2>2 DEF ReapRows, Finished, Claim
<1>2. \A c \in ClaimIds \ R : claims'[c] = claims[c]
  BY DEF ReapRows
<1>3. \A t \in T : HeldTokens[t] # {}
  BY <1>1, OneHeld
<1>4. ASSUME NEW t \in T
      PROVE  HeldTokens'[t] = {}
  <2>1. t \in Tasks
    BY <1>1
  <2>2. ASSUME NEW d \in ClaimIds PROVE ~ (Active(d) /\ claims[d].task = t)'
    <3>1. PICK c \in R : t = claims[c].task
      OBVIOUS
    <3> QED BY <1>1, <1>2, <3>1 DEF RunningIffClaimed, Active
  <2> QED BY <2>1, <2>2, HeldEnds
<1>5. ASSUME NEW t \in Tasks \ T
      PROVE  HeldTokens'[t] = HeldTokens[t]
  <2>1. ASSUME NEW d \in ClaimIds
        PROVE  \/ /\ claims'[d].status = claims[d].status
                  /\ claims'[d].task = claims[d].task
                  /\ claims'[d].token = claims[d].token
               \/ /\ ~ (Active(d) /\ claims[d].task = t)
                  /\ ~ (Active(d) /\ claims[d].task = t)'
    BY <1>1, <1>2, <1>5 DEF Active
  <2> QED BY <2>1, HeldStays
<1>6. HeldTokens' = [t \in Tasks |-> IF t \in T THEN {} ELSE HeldTokens[t]]
  BY <1>1, <1>4, <1>5, HeldIsFunction
<1>7. UNCHANGED <<fence, Evidence>>
  BY DEF ReapRows, Evidence
<1>8. Fenced!Withdraw(T)
  BY <1>3, <1>6, <1>7 DEF Fenced!Withdraw
<1> QED BY <1>1, <1>8

\* Every step is a step of FencedWork or leaves its variables alone.
LEMMA RowIsFenced ==
    TypeOK /\ RunningIffClaimed /\ ClosedTasks /\ RowStep
    => [Fenced!Next]_(Fenced!vars)
<1> SUFFICES ASSUME TypeOK, RunningIffClaimed, ClosedTasks, RowStep
             PROVE  Fenced!Next \/ UNCHANGED Fenced!vars
  OBVIOUS
<1>1. CASE UNCHANGED <<task, claims, fence, attempts>>
  BY <1>1 DEF Fenced!vars, HeldTokens, Evidence, Active
<1>2. CASE GrantStep
  BY <1>2, CreateIsGrant DEF GrantStep, Fenced!Next
<1>3. ASSUME NEW c \in ClaimIds, NEW at \in Int, RenewRow(c, at)
      PROVE  UNCHANGED Fenced!vars
  <2>1. claims[c] \in Claim
    BY <1>3, ActiveRowTypes DEF RenewRow
  <2>2. \A d \in ClaimIds : /\ claims'[d].status = claims[d].status
                            /\ claims'[d].task = claims[d].task
                            /\ claims'[d].token = claims[d].token
    BY <1>3, <2>1 DEF RenewRow, TypeOK, Claim
  <2>3. HeldTokens' = HeldTokens
    BY <2>2, HeldStays, HeldIsFunction
  <2> QED BY <1>3, <2>3 DEF RenewRow, Evidence, Fenced!vars
<1>4. ASSUME NEW c \in ClaimIds, WithdrawRow(c)
      PROVE  Fenced!Next
  <2>1. claims[c].task \in Tasks
    BY <1>4, ActiveRowTypes DEF WithdrawRow
  <2> QED BY <1>4, <2>1, RowIsWithdraw DEF Fenced!Next
<1>5. ASSUME NEW c \in ClaimIds, NEW no \in 1 .. MaxAttempts,
             NEW r \in Outcomes, SettleRow(c, no, r)
      PROVE  Fenced!Next
  BY <1>5, RowIsSettle, SettleEffect DEF Fenced!Next
<1>6. ASSUME NEW R \in SUBSET ClaimIds, NEW B \in SUBSET Tasks, ReapRows(R, B)
      PROVE  Fenced!Next
  BY <1>6, ReapIsWithdraw DEF Fenced!Next
<1> QED BY <1>1, <1>2, <1>3, <1>4, <1>5, <1>6 DEF RowStep, KeepStep

\* The execution plane implements FencedWork, for every instance.
THEOREM ImplementsFencedWork == Spec => SchedulerImplementsFencedWork
BY InitFenced, NextIsRowStep, RowIsFenced, TypeCorrect, ExclusiveOwnership,
   ClosedTasksInvariant, PTL DEF Spec, SchedulerImplementsFencedWork, Fenced!Spec


-----------------------------------------------------------------------------
(* Claims.                                                                 *)

\* An active claim keeps its identity, whatever becomes of its status.
LEMMA ActiveKeepsIdentity ==
    ASSUME TypeOK, RowStep, NEW d \in ClaimIds, Active(d)
    PROVE  \A f \in {"task", "worker", "session", "agent", "token"} :
              claims'[d][f] = claims[d][f]
<1> SUFFICES ASSUME NEW f \in {"task", "worker", "session", "agent", "token"}
             PROVE  claims'[d][f] = claims[d][f]
  OBVIOUS
<1>0. claims[d] \in Claim
  BY ActiveRowTypes
<1>1. CASE GrantStep
  BY <1>1 DEF GrantStep, GrantRow, TypeOK, Active
<1>2. ASSUME NEW c \in ClaimIds, NEW at \in Int, RenewRow(c, at)
      PROVE  claims'[d][f] = claims[d][f]
  <2>1. claims' = [claims EXCEPT ![c].expires = at + Lease]
    BY <1>2 DEF RenewRow
  <2> QED BY <1>0, <2>1 DEF TypeOK, Claim
<1>3. ASSUME NEW c \in ClaimIds, NEW s \in TerminalClaim,
             claims' = [claims EXCEPT ![c] = Finished(c, s)]
      PROVE  claims'[d][f] = claims[d][f]
  BY <1>0, <1>3 DEF TypeOK, Claim, Finished
<1>4. ASSUME NEW c \in ClaimIds,
             \/ WithdrawRow(c)
             \/ \E no \in 1 .. MaxAttempts, r \in Outcomes : SettleRow(c, no, r)
      PROVE  claims'[d][f] = claims[d][f]
  <2>1. \E s \in TerminalClaim : claims' = [claims EXCEPT ![c] = Finished(c, s)]
    BY <1>4 DEF WithdrawRow, SettleRow, TerminalClaim
  <2> QED BY <1>3, <2>1
<1>5. ASSUME NEW R \in SUBSET ClaimIds, NEW B \in SUBSET Tasks, ReapRows(R, B)
      PROVE  claims'[d][f] = claims[d][f]
  <2>1. CASE d \in R
    <3>1. claims'[d] = Finished(d, "expired")
      BY <1>5, <2>1 DEF ReapRows
    <3> QED BY <1>0, <3>1 DEF Finished, Claim
  <2>2. CASE d \notin R
    BY <1>5, <2>2 DEF ReapRows
  <2> QED BY <2>1, <2>2
<1>6. CASE UNCHANGED <<task, claims, fence, attempts>>
  BY <1>6
<1> QED BY <1>1, <1>2, <1>4, <1>5, <1>6 DEF RowStep, KeepStep

\* docs/architecture.md, "An expired claim never becomes active again": once
\* finished, a row of task_claims is never written; until then its task,
\* worker, session, agent and token stay, whichever transaction writes the row.
THEOREM ClaimHistory == Spec => ClaimHistoryStays
<1>1. TypeOK /\ [Next]_vars =>
         \A c \in ClaimIds :
            /\ claims[c].status \in TerminalClaim => claims'[c] = claims[c]
            /\ Active(c) =>
                  \A f \in {"task", "worker", "session", "agent", "token"} :
                     claims'[c][f] = claims[c][f]
  BY NextIsRowStep, TerminalStays, ActiveKeepsIdentity
<1> QED BY <1>1, TypeCorrect, PTL DEF Spec, ClaimHistoryStays

-----------------------------------------------------------------------------
(* Dependencies.                                                           *)

\* A token is only issued to a ready task, and a succeeded one stays so.
LEMMA NextDependencies ==
    TypeOK /\ RunningIffClaimed /\ DependenciesDone /\ [Next]_vars
    => DependenciesDone'
<1> SUFFICES ASSUME TypeOK, RunningIffClaimed, DependenciesDone, [Next]_vars,
                    NEW t \in Tasks, fence'[t] > 0, NEW d \in Deps[t]
             PROVE  task'[d].status = "succeeded"
  BY DEF DependenciesDone
<1>1. d \in Tasks
  BY TopologyAssumption
<1>2. ASSUME task[d].status = "succeeded"
      PROVE  task'[d].status = "succeeded"
  BY <1>1, <1>2, NextIsRowStep, EndedTaskStays
<1>3. CASE fence[t] > 0
  BY <1>2, <1>3 DEF DependenciesDone
<1>4. CASE ~ fence[t] > 0
  <2>1. fence'[t] # fence[t]
    BY <1>4
  <2>2. PICK c \in ClaimIds, w \in Workers, s \in Sessions, u \in Tasks,
             a \in Agents, at \in Read :
             Ready(u) /\ CreateClaim(c, w, s, u, a, at)
    BY <2>1, IdentityKept
  <2>3. u = t
    BY <2>1, <2>2 DEF CreateClaim, TypeOK
  <2> QED BY <1>2, <2>2, <2>3 DEF Ready
<1> QED BY <1>3, <1>4

\* Whoever claims, through claim_task or claim_next_task: no task was ever
\* handed out before all of its dependencies had succeeded, and whatever
\* happened since, they still have.
THEOREM DependenciesAreDone == Spec => []DependenciesDone
<1>1. Init => DependenciesDone
  BY DEF Init, DependenciesDone
<1> QED BY <1>1, NextDependencies, TypeCorrect, ExclusiveOwnership, PTL DEF Spec

-----------------------------------------------------------------------------
(* Goals.                                                                  *)

\* What a step does to the goals and the approval requests besides: an outcome
\* reconciles its goal, a pause is pending, and a decision goes from a paused
\* goal to a running or a failed one.  Other steps leave the goals alone and
\* make, at most, requests.
ReconcileGoal(c, no, r) ==
    LET t == claims[c].task IN
    /\ SettleRow(c, no, r)
    /\ goal[GoalOf[t]] = "running"
    /\ goal' = [goal EXCEPT ![GoalOf[t]] = Reconciled(t, r)]
    /\ approval' = approval

PauseGoal(c) ==
    LET t == claims[c].task IN
    /\ WithdrawRow(c)
    /\ goal[GoalOf[t]] = "running"
    /\ goal' = [goal EXCEPT ![GoalOf[t]] = "paused"]
    /\ approval' = [approval EXCEPT ![t] = "pending"]

DecideGoal(t, decision) ==
    /\ UNCHANGED <<task, claims, fence, attempts>>
    /\ goal[GoalOf[t]] = "paused"
    /\ goal' = [goal EXCEPT ![GoalOf[t]] =
                   IF decision = "approved" THEN "running" ELSE "failed"]
    /\ approval' = [approval EXCEPT ![t] = decision]

KeepGoals ==
    /\ UNCHANGED <<goal, attempts>>
    /\ \A t \in Tasks : approval[t] = "pending" => approval'[t] = "pending"

GoalStep ==
    \/ \E c \in ClaimIds, no \in 1 .. MaxAttempts, r \in Outcomes :
          ReconcileGoal(c, no, r)
    \/ \E c \in ClaimIds : PauseGoal(c)
    \/ \E t \in Tasks, d \in {"approved", "rejected"} : DecideGoal(t, d)
    \/ KeepGoals

\* Every transaction of the scheduler is one.
LEMMA NextIsGoalStep ==
    ASSUME TypeOK, [Next]_vars
    PROVE  GoalStep
<1>1. ASSUME NEW c \in ClaimIds, NEW at \in Read, NEW no \in 1 .. MaxAttempts,
             NEW r \in Outcomes, CommitOutcome(c, no, r, at)
      PROVE  ReconcileGoal(c, no, r)
  BY <1>1 DEF CommitOutcome, OwnsRunningWork, Owns, RequireClaim, SettleRow,
              ReconcileGoal
<1>2. ASSUME NEW c \in ClaimIds, NEW at \in Read, PauseForApproval(c, at)
      PROVE  PauseGoal(c)
  BY <1>2 DEF PauseForApproval, OwnsRunningWork, OwnsRunningTask, Owns,
              RequireClaim, ResetRunning, WithdrawRow, PauseGoal
<1>3. ASSUME NEW t \in Tasks, NEW d \in {"approved", "rejected"},
             ResolveApproval(t, d)
      PROVE  DecideGoal(t, d)
  BY <1>3 DEF ResolveApproval, DecideGoal
<1>4. ASSUME NEW t \in Tasks, SaveApproval(t)
      PROVE  KeepGoals
  BY <1>4 DEF SaveApproval, KeepGoals, TypeOK
<1>5. ASSUME UNCHANGED <<goal, attempts, approval>>
      PROVE  KeepGoals
  BY <1>5 DEF KeepGoals
<1>6. ASSUME NEW w \in Workers, NEW p \in Sessions, NEW at \in Read,
             \/ RegisterWorker(w, p, at) \/ Heartbeat(w, p, at)
             \/ \E c \in ClaimIds : ClaimNextTask(c, w, p, at)
             \/ \E c \in ClaimIds, u \in Tasks, a \in Agents :
                   ClaimTask(c, w, p, u, a, at)
      PROVE  KeepGoals
  BY <1>5, <1>6 DEF RegisterWorker, Heartbeat, ClaimNextTask, ClaimTask,
                    CreateClaim
<1>7. ASSUME NEW c \in ClaimIds, NEW at \in Read,
             RenewClaim(c, at) \/ ReleaseClaim(c, at)
      PROVE  KeepGoals
  BY <1>5, <1>7 DEF RenewClaim, ReleaseClaim
<1>8. ASSUME \/ Tick \/ UNCHANGED vars
             \/ \E at \in Times : ReapExpired(at)
             \/ \E u \in Tasks, d \in {"safe", "unsafe"} : SaveDelegation(u, d)
      PROVE  KeepGoals
  BY <1>5, <1>8 DEF Tick, vars, ReapExpired, SaveDelegation
<1>9. CASE UNCHANGED vars
  BY <1>8, <1>9 DEF GoalStep
<1>10. CASE Next
  BY <1>1, <1>2, <1>3, <1>4, <1>6, <1>7, <1>8, <1>10 DEF Next, GoalStep
<1> QED BY <1>9, <1>10

\* A goal's status is written by three of them, from running or paused.
LEMMA GoalCases ==
    ASSUME TypeOK, GoalStep, NEW g \in Goals, goal'[g] # goal[g]
    PROVE
      \/ \E c \in ClaimIds, no \in 1 .. MaxAttempts, r \in Outcomes :
            /\ SettleRow(c, no, r)
            /\ GoalOf[claims[c].task] = g
            /\ goal[g] = "running"
            /\ goal'[g] = Reconciled(claims[c].task, r)
      \/ \E c \in ClaimIds :
            /\ Active(c)
            /\ GoalOf[claims[c].task] = g
            /\ goal[g] = "running"
            /\ goal'[g] = "paused"
            /\ approval' = [approval EXCEPT ![claims[c].task] = "pending"]
      \/ /\ goal[g] = "paused"
         /\ goal'[g] \in {"running", "failed"}
<1>1. ASSUME NEW c \in ClaimIds, NEW no \in 1 .. MaxAttempts,
             NEW r \in Outcomes, ReconcileGoal(c, no, r)
      PROVE  /\ SettleRow(c, no, r)
             /\ GoalOf[claims[c].task] = g
             /\ goal[g] = "running"
             /\ goal'[g] = Reconciled(claims[c].task, r)
  BY <1>1 DEF ReconcileGoal, TypeOK
<1>2. ASSUME NEW c \in ClaimIds, PauseGoal(c)
      PROVE  /\ Active(c)
             /\ GoalOf[claims[c].task] = g
             /\ goal[g] = "running"
             /\ goal'[g] = "paused"
             /\ approval' = [approval EXCEPT ![claims[c].task] = "pending"]
  BY <1>2 DEF PauseGoal, WithdrawRow, TypeOK
<1>3. ASSUME NEW t \in Tasks, NEW d \in {"approved", "rejected"}, DecideGoal(t, d)
      PROVE  goal[g] = "paused" /\ goal'[g] \in {"running", "failed"}
  BY <1>3 DEF DecideGoal, TypeOK
<1>4. ~ KeepGoals
  BY DEF KeepGoals
<1> QED BY <1>1, <1>2, <1>3, <1>4 DEF GoalStep

\* What the reconciliation of a running goal can write.
LEMMA ReconciledCases ==
    ASSUME NEW t \in Tasks, NEW r, goal[GoalOf[t]] = "running"
    PROVE  /\ Reconciled(t, r) \in {"running", "succeeded", "failed", "blocked"}
           /\ r = "failed" => Reconciled(t, r) = "failed"
           /\ Reconciled(t, r) = "succeeded" <=>
                 /\ r = "succeeded"
                 /\ \A u \in TasksOf(GoalOf[t]) \ {t} : task[u].status = "succeeded"
BY DEF Reconciled

\* The worker plane changes a goal's status only as _GOAL_TRANSITIONS allows, so
\* transition_goal never refuses in the middle of an outcome commit or a pause,
\* and never writes a goal that has ended.
THEOREM GoalsMoveForward == Spec => GoalTransitions
<1>1. TypeOK /\ [Next]_vars =>
         \A g \in Goals : goal'[g] # goal[g] => CanTransition(goal[g], goal'[g])
  <2> SUFFICES ASSUME TypeOK, [Next]_vars, NEW g \in Goals, goal'[g] # goal[g]
               PROVE  CanTransition(goal[g], goal'[g])
    OBVIOUS
  <2>1. ASSUME NEW c \in ClaimIds, NEW no \in 1 .. MaxAttempts,
               NEW r \in Outcomes, SettleRow(c, no, r),
               GoalOf[claims[c].task] = g, goal[g] = "running",
               goal'[g] = Reconciled(claims[c].task, r)
        PROVE  CanTransition(goal[g], goal'[g])
    <3>1. goal'[g] \in {"succeeded", "failed", "blocked"}
      BY <2>1, SettleEffect, ReconciledCases
    <3> QED BY <2>1, <3>1 DEF CanTransition
  <2> QED BY <2>1, NextIsGoalStep, GoalCases DEF CanTransition
<1> QED BY <1>1, TypeCorrect, PTL DEF Spec, GoalTransitions

\* An ended goal is never written.
LEMMA EndedGoalStays ==
    ASSUME TypeOK, GoalStep, NEW g \in Goals,
           goal[g] \in {"succeeded", "failed", "blocked"}
    PROVE  goal'[g] = goal[g]
BY GoalCases

\* What becomes of the other rows when a task of a running goal is settled.
LEMMA SettleReconciles ==
    ASSUME TypeOK, GoalStep, NEW c \in ClaimIds, NEW no \in 1 .. MaxAttempts,
           NEW r \in Outcomes, SettleRow(c, no, r)
    PROVE  LET t == claims[c].task IN
           /\ t \in Tasks /\ GoalOf[t] \in Goals
           /\ goal[GoalOf[t]] = "running"
           /\ goal'[GoalOf[t]] = Reconciled(t, r)
           /\ task'[t].status = r
           /\ \A u \in Tasks \ {t} : task'[u] = task[u]
<1> DEFINE t == claims[c].task
           x == [no |-> no, agent |-> claims[c].agent,
                 token |-> claims[c].token, result |-> r]
<1>1. /\ t \in Tasks /\ task'[t].status = r
      /\ attempts'[t] = attempts[t] \cup {x}
  BY SettleEffect
<1>2. GoalOf[t] \in Goals
  BY <1>1, TopologyAssumption
<1>3. \A b \in attempts[t] : b.no # no
  BY DEF SettleRow, IsNewAttempt
<1>4. x \notin attempts[t] /\ x \in attempts'[t]
  BY <1>1, <1>3
<1>5. /\ goal[GoalOf[t]] = "running"
      /\ goal'[GoalOf[t]] = Reconciled(t, r)
  <2>1. ASSUME NEW d \in ClaimIds, NEW n \in 1 .. MaxAttempts,
               NEW q \in Outcomes, ReconcileGoal(d, n, q)
        PROVE  goal[GoalOf[t]] = "running" /\ goal'[GoalOf[t]] = Reconciled(t, r)
    <3>1. SettleRow(d, n, q)
      BY <2>1 DEF ReconcileGoal
    <3>2. claims[d].task = t /\ q = r
      <4>1. claims[d].task = t
        BY <1>1, <1>4, <3>1, SettleEffect
      <4>2. task'[t].status = q
        BY <3>1, <4>1, SettleEffect
      <4> QED BY <1>1, <4>1, <4>2
    <3> QED BY <1>2, <2>1, <3>2 DEF ReconcileGoal, TypeOK
  <2>2. ~ (\E d \in ClaimIds : PauseGoal(d)) /\ ~ KeepGoals
    BY <1>4 DEF PauseGoal, WithdrawRow, KeepGoals
  <2>3. ~ \E u \in Tasks, d \in {"approved", "rejected"} : DecideGoal(u, d)
    BY <1>4 DEF DecideGoal
  <2> QED BY <2>1, <2>2, <2>3 DEF GoalStep
<1>6. \A u \in Tasks \ {t} : task'[u] = task[u]
  BY DEF SettleRow, TypeOK
<1> QED BY <1>1, <1>2, <1>5, <1>6

\* A pending request stays pending until it is resolved.
LEMMA PendingRequest ==
    ASSUME TypeOK, GoalStep, NEW t \in Tasks, approval[t] = "pending"
    PROVE  \/ approval'[t] = "pending"
           \/ goal'[GoalOf[t]] \in {"running", "failed"}
<1>1. GoalOf[t] \in Goals
  BY TopologyAssumption
<1>2. ASSUME NEW u \in Tasks, NEW d \in {"approved", "rejected"}, DecideGoal(u, d)
      PROVE  \/ approval'[t] = "pending"
             \/ goal'[GoalOf[t]] \in {"running", "failed"}
  BY <1>1, <1>2 DEF DecideGoal, TypeOK
<1>3. ASSUME NEW c \in ClaimIds, PauseGoal(c)
      PROVE  approval'[t] = "pending"
  BY <1>3 DEF PauseGoal, TypeOK
<1> QED BY <1>2, <1>3 DEF GoalStep, ReconcileGoal, KeepGoals

\* Each step that writes a goal or a task keeps the two in step.
LEMMA RowGoals ==
    /\ TypeOK /\ RunningIffClaimed /\ GoalReflectsTasks /\ RowStep /\ GoalStep
    => GoalReflectsTasks'
<1> SUFFICES ASSUME TypeOK, RunningIffClaimed, GoalReflectsTasks, RowStep,
                    GoalStep, NEW g \in Goals
             PROVE  /\ goal'[g] = "succeeded" =>
                          \A t \in TasksOf(g) : task'[t].status = "succeeded"
                    /\ /\ TasksOf(g) # {}
                       /\ \A t \in TasksOf(g) : task'[t].status = "succeeded"
                       => goal'[g] = "succeeded"
                    /\ \A t \in TasksOf(g) :
                          task'[t].status = "failed" => goal'[g] = "failed"
                    /\ goal'[g] = "paused" =>
                          \E t \in TasksOf(g) : approval'[t] = "pending"
  BY DEF GoalReflectsTasks, TasksOf
<1>t. \A t \in TasksOf(g) : t \in Tasks /\ GoalOf[t] = g
  BY DEF TasksOf
<1>1. ASSUME goal'[g] = "succeeded", NEW t \in TasksOf(g)
      PROVE  task'[t].status = "succeeded"
  <2>1. CASE goal[g] = "succeeded"
    BY <2>1, <1>t, EndedTaskStays DEF GoalReflectsTasks
  <2>2. CASE goal[g] # "succeeded"
    <3>1. PICK c \in ClaimIds, no \in 1 .. MaxAttempts, r \in Outcomes :
               SettleRow(c, no, r) /\ GoalOf[claims[c].task] = g
      BY <1>1, <2>2, GoalCases
    <3>2. /\ r = "succeeded"
          /\ \A u \in TasksOf(g) \ {claims[c].task} : task[u].status = "succeeded"
      BY <1>1, <3>1, SettleReconciles, ReconciledCases
    <3> QED BY <1>t, <3>1, <3>2, SettleReconciles
  <2> QED BY <2>1, <2>2
<1>2. ASSUME TasksOf(g) # {},
             \A t \in TasksOf(g) : task'[t].status = "succeeded"
      PROVE  goal'[g] = "succeeded"
  <2>1. CASE \A t \in TasksOf(g) : task[t].status = "succeeded"
    BY <1>2, <2>1, EndedGoalStays DEF GoalReflectsTasks
  <2>2. ASSUME NEW t \in TasksOf(g), task[t].status # "succeeded"
        PROVE  goal'[g] = "succeeded"
    <3>1. PICK c \in ClaimIds, no \in 1 .. MaxAttempts :
               SettleRow(c, no, "succeeded") /\ claims[c].task = t
      BY <1>2, <1>t, <2>2, BecomesFinal
    <3>2. \A u \in TasksOf(g) \ {t} : task[u].status = "succeeded"
      BY <1>2, <1>t, <3>1, SettleReconciles DEF Outcomes
    <3>3. goal'[g] = Reconciled(t, "succeeded") /\ goal[g] = "running"
      BY <1>t, <3>1, SettleReconciles DEF Outcomes
    <3> QED BY <1>t, <3>2, <3>3, ReconciledCases
  <2> QED BY <2>1, <2>2
<1>3. ASSUME NEW t \in TasksOf(g), task'[t].status = "failed"
      PROVE  goal'[g] = "failed"
  <2>1. CASE task[t].status = "failed"
    BY <2>1, EndedGoalStays DEF GoalReflectsTasks
  <2>2. CASE task[t].status # "failed"
    <3>1. PICK c \in ClaimIds, no \in 1 .. MaxAttempts :
               SettleRow(c, no, "failed") /\ claims[c].task = t
      BY <1>3, <1>t, <2>2, BecomesFinal
    <3>2. goal'[g] = Reconciled(t, "failed") /\ goal[g] = "running"
      BY <1>t, <3>1, SettleReconciles DEF Outcomes
    <3> QED BY <1>t, <3>2, ReconciledCases
  <2> QED BY <2>1, <2>2
<1>4. ASSUME goal'[g] = "paused"
      PROVE  \E t \in TasksOf(g) : approval'[t] = "pending"
  <2>1. CASE goal[g] = "paused"
    BY <1>4, <1>t, <2>1, PendingRequest DEF GoalReflectsTasks
  <2>2. CASE goal[g] # "paused"
    <3>1. PICK c \in ClaimIds :
             /\ Active(c)
             /\ GoalOf[claims[c].task] = g
             /\ approval' = [approval EXCEPT ![claims[c].task] = "pending"]
      <4>1. ASSUME NEW c \in ClaimIds, NEW no \in 1 .. MaxAttempts,
                   NEW r \in Outcomes, SettleRow(c, no, r),
                   GoalOf[claims[c].task] = g
            PROVE  FALSE
        BY <1>4, <4>1, SettleReconciles, ReconciledCases
      <4> QED BY <1>4, <2>2, <4>1, GoalCases
    <3>2. claims[c].task \in Tasks
      BY <3>1, ActiveRowTypes
    <3> QED BY <3>1, <3>2 DEF TypeOK, TasksOf
  <2> QED BY <2>1, <2>2
<1> QED BY <1>1, <1>2, <1>3, <1>4

\* _reconcile_goal_locked looks at the committed task alone unless it succeeded,
\* and pauses and approvals of sibling tasks interleave: still, for any goal and
\* any tasks, its status is the one all of its tasks account for.
THEOREM GoalsReflectTasks == Spec => []GoalReflectsTasks
<1>1. Init => GoalReflectsTasks
  BY DEF Init, GoalReflectsTasks, TasksOf
<1> QED BY <1>1, NextIsRowStep, NextIsGoalStep, RowGoals, TypeCorrect,
           ExclusiveOwnership, PTL DEF Spec

-----------------------------------------------------------------------------
(* Superseded sessions.                                                    *)

\* A claim whose worker is registered under another session.
Superseded(c) ==
    Active(c) /\ sessions[claims[c].worker].session # claims[c].session

\* The operations of a claim's holder are refused for a superseded claim.
LEMMA SupersededOwnsNothing ==
    ASSUME NEW c \in ClaimIds, Superseded(c), NEW at
    PROVE  ~ Owns(c, at)
BY DEF Superseded, Owns, RequireSession

\* An operation of the holder of claim d, which the repository accepted, is
\* about another claim and about another task.
LEMMA SupersededStays ==
    ASSUME TypeOK, RunningIffClaimed, [Next]_vars, NEW c \in ClaimIds, Superseded(c)
    PROVE  /\ claims'[c].status = "expired" \/ claims'[c] = claims[c]
           /\ attempts'[claims[c].task] = attempts[claims[c].task]
<1>0. Active(c) /\ claims[c].task \in Tasks
  BY ActiveRowTypes DEF Superseded
<1>1. attempts'[claims[c].task] = attempts[claims[c].task]
  <2>1. ASSUME NEW d \in ClaimIds, NEW at \in Read, NEW no \in 1 .. MaxAttempts,
               NEW r \in Outcomes, CommitOutcome(d, no, r, at)
        PROVE  claims[c].task # claims[d].task
    <3>1. Owns(d, at) /\ Active(d)
      BY <2>1 DEF CommitOutcome, OwnsRunningWork, Owns, RequireClaim
    <3> QED BY <1>0, <3>1, SupersededOwnsNothing DEF RunningIffClaimed
  <2> QED BY <1>0, <2>1, AttemptsChange, CommitEffect
<1>2. ASSUME NEW d \in ClaimIds, NEW w \in Workers, NEW s \in Sessions,
             NEW t \in Tasks, NEW a \in Agents, NEW at \in Read,
             CreateClaim(d, w, s, t, a, at)
      PROVE  claims'[c] = claims[c]
  BY <1>0, <1>2 DEF CreateClaim, TypeOK, Active
<1>3. ASSUME NEW d \in ClaimIds, NEW at \in Read, RenewClaim(d, at)
      PROVE  claims'[c] = claims[c]
  BY <1>3, SupersededOwnsNothing DEF RenewClaim, MayRenew, TypeOK
<1>4. ASSUME NEW d \in ClaimIds, NEW at \in Read,
             \/ ReleaseClaim(d, at)
             \/ PauseForApproval(d, at)
             \/ \E no \in 1 .. MaxAttempts, r \in Outcomes :
                   CommitOutcome(d, no, r, at)
      PROVE  claims'[c] = claims[c]
  <2>1. c # d
    BY <1>4, SupersededOwnsNothing
       DEF ReleaseClaim, PauseForApproval, CommitOutcome, OwnsRunningWork
  <2>2. PICK s \in TerminalClaim : claims' = [claims EXCEPT ![d] = Finished(d, s)]
    BY <1>4, EndingSteps DEF EndsClaim
  <2> QED BY <2>1, <2>2 DEF TypeOK
<1>5. ASSUME NEW at \in Times, ReapExpired(at)
      PROVE  claims'[c].status = "expired" \/ claims'[c] = claims[c]
  <2>1. claims[c] \in Claim
    BY <1>0, ActiveRowTypes
  <2>2. Finished(c, "expired").status = "expired"
    BY <2>1 DEF Finished, Claim
  <2> QED BY <1>5, <2>2 DEF ReapExpired
<1> QED BY <1>1, <1>2, <1>3, <1>4, <1>5, StepCases

\* docs/scheduler.md:47, registering a fresh session "supersedes the previous
\* generation".  Every fenced operation looks at the registered session first
\* (storage.py, _require_worker_session_locked), so what a superseded process
\* still sends changes nothing; only the reaper ends its claims, without
\* evidence.
THEOREM SupersededSessions == Spec => SupersededSessionIsPowerless
<1>1. TypeOK /\ RunningIffClaimed /\ [Next]_vars =>
         [\A c \in ClaimIds :
             Superseded(c) =>
                /\ claims'[c].status = "expired" \/ claims'[c] = claims[c]
                /\ attempts'[claims[c].task] = attempts[claims[c].task]]_vars
  BY SupersededStays
<1> QED BY <1>1, TypeCorrect, ExclusiveOwnership, PTL
        DEF Spec, SupersededSessionIsPowerless, Superseded

=============================================================================
