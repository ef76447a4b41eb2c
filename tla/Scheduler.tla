------------------------------ MODULE Scheduler ------------------------------
(***************************************************************************)
(* The execution plane of the repository (storage.py, scheduler.py,        *)
(* domain.py): worker sessions, fenced task claims, the fenced outcome     *)
(* commit, the approval pause and its resolution, and expiry recovery.     *)
(*                                                                         *)
(* Every action is one BEGIN IMMEDIATE transaction                         *)
(* (storage.py, _immediate_transaction): it either applies all of its      *)
(* writes or, on any exception, none, so an exception is an action that    *)
(* is not enabled.  The callers are the most general ones: any process     *)
(* generation may present any identity it was ever given, at any later     *)
(* moment, together with any time it has read, however old (`at').         *)
(* WorkerService.tla restricts the callers to the ones the code has.       *)
(***************************************************************************)
EXTENDS Integers, FiniteSets

CONSTANTS
    Goals,          \* goals, all planned: running, with pending tasks
    Tasks,          \* tasks of all goals
    GoalOf,         \* the goal of a task
    Deps,           \* the tasks a task depends on (Task.dependencies)
    Rank,           \* the order (goal_id, position, task_id)
    TypeOf,         \* Task.task_type
    Types,
    Agents,
    Workers,        \* worker_id
    Sessions,       \* session_id: one per process generation
    Assignments,    \* per worker, the agent it runs each task type with
    ClaimIds,       \* claim_id: the rows task_claims can hold
    MaxAttempts,    \* the attempt numbers a caller can present
    Lease,          \* lease_seconds
    TTL,            \* heartbeat_ttl_seconds
    MaxTime,        \* bound on the clock
    Null            \* absent agent, session or task

ASSUME TopologyAssumption ==
    /\ GoalOf \in [Tasks -> Goals]
    /\ Deps \in [Tasks -> SUBSET Tasks]
    /\ \A t \in Tasks : \A d \in Deps[t] : GoalOf[d] = GoalOf[t]
    /\ \A t \in Tasks : t \notin Deps[t]
    /\ Rank \in [Tasks -> Nat]
    /\ \A t, u \in Tasks : Rank[t] = Rank[u] => t = u
    /\ TypeOf \in [Tasks -> Types]
    /\ Assignments \in [Workers -> [Types -> Agents \cup {Null}]]

ASSUME NullAssumption ==
    /\ Null \notin Agents
    /\ Null \notin Sessions
    /\ Null \notin Tasks

ASSUME DurationAssumption ==
    /\ Lease \in Nat \ {0}
    /\ TTL \in Nat \ {0}
    /\ MaxTime \in Nat
    /\ MaxAttempts \in Nat

VARIABLES
    now,            \* the database clock
    goal,           \* goals.status
    task,           \* tasks: status and assigned_agent_id
    sessions,       \* scheduler_workers: the registered generation of a worker
    claims,         \* task_claims
    fence,          \* task_claim_fences.last_token (0: no row)
    attempts,       \* attempts + reviews + artifacts of a task
    approval,       \* the approval request of a task's guarded tool call
    delegation      \* is the latest A2A delegation of the task unsafe to redo?

vars == <<now, goal, task, sessions, claims, fence, attempts, approval,
          delegation>>

Times == 0 .. MaxTime

GoalStatus == {"created", "planning", "running", "paused",
               "succeeded", "failed", "blocked"}
TerminalGoal == {"succeeded", "failed", "blocked"}
TaskStatus == {"pending", "running", "succeeded", "failed", "blocked"}
ClaimStatus == {"active", "committed", "released", "expired"}
TerminalClaim == {"committed", "released", "expired"}
ApprovalStatus == {"none", "pending", "approved", "rejected"}
Outcomes == {"pending", "succeeded", "failed", "blocked"}

Session == [session : Sessions \cup {Null}, expires : Int]
Claim == [status : ClaimStatus, task : Tasks, worker : Workers,
          session : Sessions, agent : Agents, token : Nat \ {0},
          acquired : Int, expires : Int]
Attempt == [no : 1 .. MaxAttempts, agent : Agents, token : Nat,
            result : Outcomes]

\* A row that is not there yet.
NoClaim == [status |-> "none", task |-> Null, worker |-> Null,
            session |-> Null, agent |-> Null, token |-> 0,
            acquired |-> 0, expires |-> 0]

TypeOK ==
    /\ now \in Times
    /\ goal \in [Goals -> GoalStatus]
    /\ task \in [Tasks -> [status : TaskStatus, agent : Agents \cup {Null}]]
    /\ sessions \in [Workers -> Session]
    /\ claims \in [ClaimIds -> Claim \cup {NoClaim}]
    /\ fence \in [Tasks -> Nat]
    /\ attempts \in [Tasks -> SUBSET Attempt]
    /\ approval \in [Tasks -> ApprovalStatus]
    /\ delegation \in [Tasks -> {"safe", "unsafe"}]

Init ==
    /\ now = 0
    /\ goal = [g \in Goals |-> "running"]
    /\ task = [t \in Tasks |-> [status |-> "pending", agent |-> Null]]
    /\ sessions = [w \in Workers |-> [session |-> Null, expires |-> 0]]
    /\ claims = [c \in ClaimIds |-> NoClaim]
    /\ fence = [t \in Tasks |-> 0]
    /\ attempts = [t \in Tasks |-> {}]
    /\ approval = [t \in Tasks |-> "none"]
    /\ delegation = [t \in Tasks |-> "safe"]

-----------------------------------------------------------------------------
(* The checks every fenced operation starts with.                          *)

\* _require_worker_session_locked: the registered generation, not expired.
RequireSession(w, s, at) ==
    /\ sessions[w].session = s
    /\ at < sessions[w].expires

Active(c) == claims[c].status = "active"

\* _require_claim_locked; worker, session and token are those of the claim
\* identity the caller presents, which never change under a claim_id.
RequireClaim(c, at) ==
    /\ Active(c)
    /\ at < claims[c].expires

\* Mistake: the registered session is not checked.
OwnsWithoutSession(c, at) == RequireClaim(c, at)

\* The session and the claim checks together.
Owns(c, at) ==
    /\ RequireClaim(c, at)
    /\ RequireSession(claims[c].worker, claims[c].session, at)

RenewedAt(c) == claims[c].expires - Lease
LastHeartbeatAt(w) == sessions[w].expires - TTL

HasActiveClaim(t) == \E c \in ClaimIds : Active(c) /\ claims[c].task = t

TasksOf(g) == {t \in Tasks : GoalOf[t] = g}

\* transition_goal and _GOAL_TRANSITIONS.
CanTransition(from, to) ==
    \/ from = "created"  /\ to = "planning"
    \/ from = "planning" /\ to \in {"running", "failed"}
    \/ from = "running"  /\ to \in {"paused", "succeeded", "failed", "blocked"}
    \/ from = "paused"   /\ to \in {"running", "failed"}

-----------------------------------------------------------------------------
(* Sessions.                                                               *)

\* register_worker: an unconditional upsert, which supersedes the previous
\* generation of the worker.
RegisterWorker(w, s, at) ==
    /\ sessions' = [sessions EXCEPT ![w] =
                        [session |-> s, expires |-> at + TTL]]
    /\ UNCHANGED <<now, goal, task, claims, fence, attempts, approval,
                   delegation>>

\* heartbeat_worker and WorkerSession.heartbeat.
MayHeartbeat(w, s, at) ==
    /\ RequireSession(w, s, at)
    /\ at >= LastHeartbeatAt(w)

Heartbeat(w, s, at) ==
    /\ MayHeartbeat(w, s, at)
    /\ sessions' = [sessions EXCEPT ![w] =
                        [session |-> s, expires |-> at + TTL]]
    /\ UNCHANGED <<now, goal, task, claims, fence, attempts, approval,
                   delegation>>

-----------------------------------------------------------------------------
(* Claims.                                                                 *)

\* Mistake: a task is handed out as soon as its dependencies have started.
ReadyOnceStarted(t) ==
    /\ goal[GoalOf[t]] = "running"
    /\ task[t].status = "pending"
    /\ \A d \in Deps[t] : task[d].status # "pending"
    /\ ~ HasActiveClaim(t)

\* The conditions claim_task and claim_next_task share.
Ready(t) ==
    /\ goal[GoalOf[t]] = "running"
    /\ task[t].status = "pending"
    /\ \A d \in Deps[t] : task[d].status = "succeeded"
    /\ ~ HasActiveClaim(t)

\* Mistake: the token is counted from the committed attempts, so a claim that
\* left none gives its token to the next.
CreateClaimCountedToken(c, w, s, t, a, at) ==
    LET token == Cardinality(attempts[t]) + 1 IN
    /\ claims[c].status = "none"
    /\ fence' = [fence EXCEPT ![t] = token]
    /\ task' = [task EXCEPT ![t] = [status |-> "running", agent |-> a]]
    /\ claims' = [claims EXCEPT ![c] =
                     [status |-> "active", task |-> t, worker |-> w,
                      session |-> s, agent |-> a, token |-> token,
                      acquired |-> at, expires |-> at + Lease]]
    /\ UNCHANGED <<now, goal, sessions, attempts, approval, delegation>>

\* _create_claim_locked and TaskClaim.create: next token of the task, task
\* running under the agent, active claim row c.
CreateClaim(c, w, s, t, a, at) ==
    /\ claims[c].status = "none"
    /\ fence' = [fence EXCEPT ![t] = fence[t] + 1]
    /\ task' = [task EXCEPT ![t] = [status |-> "running", agent |-> a]]
    /\ claims' = [claims EXCEPT ![c] =
                     [status |-> "active", task |-> t, worker |-> w,
                      session |-> s, agent |-> a, token |-> fence[t] + 1,
                      acquired |-> at, expires |-> at + Lease]]
    /\ UNCHANGED <<now, goal, sessions, attempts, approval, delegation>>

\* claim_task: an explicit task, any agent.
ClaimTask(c, w, s, t, a, at) ==
    /\ RequireSession(w, s, at)
    /\ Ready(t)
    /\ CreateClaim(c, w, s, t, a, at)

\* The candidates of claim_next_task: ready tasks of an assigned type.
Candidates(w) ==
    {t \in Tasks : Ready(t) /\ Assignments[w][TypeOf[t]] # Null}

\* claim_next_task: the first candidate in (goal_id, position, task_id) order.
ClaimNextTask(c, w, s, at) ==
    /\ RequireSession(w, s, at)
    /\ \E t \in Candidates(w) :
          /\ \A u \in Candidates(w) : Rank[t] <= Rank[u]
          /\ CreateClaim(c, w, s, t, Assignments[w][TypeOf[t]], at)

\* TaskClaim.finish: a terminal row.  Its times are never read again, so the
\* model forgets them.
Finished(c, status) ==
    [claims[c] EXCEPT !.status = status, !.acquired = 0, !.expires = 0]

\* renew_claim and TaskClaim.renew.
MayRenew(c, at) ==
    /\ Owns(c, at)
    /\ at >= RenewedAt(c)

RenewClaim(c, at) ==
    /\ MayRenew(c, at)
    /\ claims' = [claims EXCEPT ![c].expires = at + Lease]
    /\ UNCHANGED <<now, goal, task, sessions, fence, attempts, approval,
                   delegation>>

\* Mistakes: the task stays running, or takes the claim's status for its own.
KeepRunning(t) == task[t]
ResetToReleased(t) == [status |-> "released", agent |-> Null]

\* A running task goes back to pending, without an agent.
ResetRunning(t) ==
    IF task[t].status = "running"
    THEN [status |-> "pending", agent |-> Null]
    ELSE task[t]

\* release_claim.
ReleaseClaim(c, at) ==
    /\ Owns(c, at)
    /\ at >= claims[c].acquired
    /\ claims' = [claims EXCEPT ![c] = Finished(c, "released")]
    /\ task' = [task EXCEPT ![claims[c].task] = ResetRunning(claims[c].task)]
    /\ UNCHANGED <<now, goal, sessions, fence, attempts, approval, delegation>>

\* The durable task still runs under the claim's agent.
OwnsRunningTask(c) ==
    LET t == claims[c].task
    IN  task[t].status = "running" /\ task[t].agent = claims[c].agent

-----------------------------------------------------------------------------
(* Outcomes.                                                               *)

\* _reconcile_goal_locked: the goal's status once task t has the status r.
Reconciled(t, r) ==
    LET g == GoalOf[t] IN
    CASE r = "failed"  -> "failed"
      [] r = "blocked" -> "blocked"
      [] r = "succeeded" /\ \A u \in TasksOf(g) \ {t} :
                                task[u].status = "succeeded" -> "succeeded"
      [] OTHER -> goal[g]

\* Mistake: only the running task is checked and not the claim.
OwnsRunningWorkUnfenced(c, at) ==
    /\ claims[c].status # "none"
    /\ OwnsRunningTask(c)
    /\ goal[GoalOf[claims[c].task]] = "running"
    /\ at >= claims[c].acquired

\* The caller still owns running work of a running goal.
OwnsRunningWork(c, at) ==
    /\ Owns(c, at)
    /\ OwnsRunningTask(c)
    /\ goal[GoalOf[claims[c].task]] = "running"
    /\ at >= claims[c].acquired

\* The unique index on attempts rejects a number the task already has.
IsNewAttempt(t, no) == \A a \in attempts[t] : a.no # no

\* commit_claim_outcome: one attempt with its review and artifact, the task's
\* new status, the goal's reconciliation and the committed claim.
CommitOutcome(c, no, r, at) ==
    LET t == claims[c].task IN
    /\ OwnsRunningWork(c, at)
    /\ IsNewAttempt(t, no)
    /\ attempts' = [attempts EXCEPT ![t] = @ \cup
                       {[no |-> no, agent |-> claims[c].agent,
                         token |-> claims[c].token, result |-> r]}]
    /\ task' = [task EXCEPT ![t] =
                   [status |-> r,
                    agent |-> IF r = "pending" THEN Null ELSE claims[c].agent]]
    /\ goal' = [goal EXCEPT ![GoalOf[t]] = Reconciled(t, r)]
    /\ claims' = [claims EXCEPT ![c] = Finished(c, "committed")]
    /\ UNCHANGED <<now, sessions, fence, approval, delegation>>

-----------------------------------------------------------------------------
(* Approvals.                                                              *)

\* ToolExecutor.execute reaches a guarded tool without a stored request and
\* saves a pending one (save_approval).  The write is not fenced: the process
\* may have lost its claim since.
SaveApproval(t) ==
    /\ fence[t] > 0
    /\ approval[t] = "none"
    /\ approval' = [approval EXCEPT ![t] = "pending"]
    /\ UNCHANGED <<now, goal, task, sessions, claims, fence, attempts,
                   delegation>>

\* pause_claim_for_approval: the request is stored (or equals the stored one,
\* so it is still pending), the claim released, the task pending, the goal
\* paused.
PauseForApproval(c, at) ==
    LET t == claims[c].task IN
    /\ OwnsRunningWork(c, at)
    /\ approval[t] \in {"none", "pending"}
    /\ approval' = [approval EXCEPT ![t] = "pending"]
    /\ claims' = [claims EXCEPT ![c] = Finished(c, "released")]
    /\ task' = [task EXCEPT ![t] = [status |-> "pending", agent |-> Null]]
    /\ goal' = [goal EXCEPT ![GoalOf[t]] = "paused"]
    /\ UNCHANGED <<now, sessions, fence, attempts, delegation>>

\* resolve_approval and save_approval_resolution: only a pending request of a
\* paused goal; approval resumes the goal and rejection fails it.
ResolveApproval(t, decision) ==
    /\ approval[t] = "pending"
    /\ goal[GoalOf[t]] = "paused"
    /\ approval' = [approval EXCEPT ![t] = decision]
    /\ goal' = [goal EXCEPT ![GoalOf[t]] =
                   IF decision = "approved" THEN "running" ELSE "failed"]
    /\ UNCHANGED <<now, task, sessions, claims, fence, attempts, delegation>>

-----------------------------------------------------------------------------
(* Recovery and the environment.                                           *)

ExpiredClaims(at) ==
    {c \in ClaimIds : Active(c) /\ claims[c].expires <= at}

\* reap_expired_claims: all the claims expired at the operator's time, and
\* their running tasks: blocked when the latest delegation could have been
\* submitted, else pending.  The goal is not reconciled.
ReapExpired(at) ==
    LET expired == ExpiredClaims(at)
        reaped == {claims[c].task : c \in expired}
    IN
    /\ expired # {}
    /\ claims' = [c \in ClaimIds |->
                     IF c \in expired
                     THEN Finished(c, "expired")
                     ELSE claims[c]]
    /\ task' = [t \in Tasks |->
                   IF t \in reaped /\ task[t].status = "running"
                   THEN [status |-> IF delegation[t] = "unsafe"
                                    THEN "blocked" ELSE "pending",
                         agent |-> Null]
                   ELSE task[t]]
    /\ UNCHANGED <<now, goal, sessions, fence, attempts, approval, delegation>>

\* save_delegation by the A2A client of a worker that runs, or ran, the task:
\* not fenced.
SaveDelegation(t, d) ==
    /\ fence[t] > 0
    /\ delegation[t] # d
    /\ delegation' = [delegation EXCEPT ![t] = d]
    /\ UNCHANGED <<now, goal, task, sessions, claims, fence, attempts,
                   approval>>

\* The database clock (scheduler_now) advances.
Tick ==
    /\ now < MaxTime
    /\ now' = now + 1
    /\ UNCHANGED <<goal, task, sessions, claims, fence, attempts, approval,
                   delegation>>

-----------------------------------------------------------------------------

\* A time read from the database clock at some earlier moment.
Read == {at \in Times : at <= now}

Next ==
    \/ Tick
    \/ \E w \in Workers, s \in Sessions, at \in Read :
          \/ RegisterWorker(w, s, at)
          \/ Heartbeat(w, s, at)
          \/ \E c \in ClaimIds : ClaimNextTask(c, w, s, at)
          \/ \E c \in ClaimIds, t \in Tasks, a \in Agents :
                ClaimTask(c, w, s, t, a, at)
    \/ \E c \in ClaimIds, at \in Read :
          \/ RenewClaim(c, at)
          \/ ReleaseClaim(c, at)
          \/ PauseForApproval(c, at)
          \/ \E no \in 1 .. MaxAttempts, r \in Outcomes :
                CommitOutcome(c, no, r, at)
    \/ \E at \in Times : ReapExpired(at)
    \/ \E t \in Tasks :
          \/ SaveApproval(t)
          \/ \E d \in {"approved", "rejected"} : ResolveApproval(t, d)
          \/ \E d \in {"safe", "unsafe"} : SaveDelegation(t, d)

Spec == Init /\ [][Next]_vars

-----------------------------------------------------------------------------
(* Properties.                                                             *)

\* docs/scheduler.md, invariants 1 and 2: a task runs exactly while one active
\* claim owns it, under that claim's agent.  Claiming, releasing, pausing,
\* committing and reaping each change both rows.
RunningIffClaimed ==
    /\ \A c, d \in ClaimIds :
          Active(c) /\ Active(d) /\ claims[c].task = claims[d].task => c = d
    /\ \A c \in ClaimIds : Active(c) => OwnsRunningTask(c)
    /\ \A t \in Tasks : task[t].status = "running" => HasActiveClaim(t)

\* docs/scheduler.md, invariant 3: tokens of a task are distinct, none is above
\* last_token, and the active claim holds the newest one.
FencingOrder ==
    \A c \in ClaimIds :
       claims[c].status # "none" =>
          /\ claims[c].token \in 1 .. fence[claims[c].task]
          /\ Active(c) => claims[c].token = fence[claims[c].task]
          /\ \A d \in ClaimIds :
                /\ claims[d].task = claims[c].task
                /\ claims[d].token = claims[c].token
                => c = d

\* docs/scheduler.md, invariant 5: a claim that was released or expired left no
\* attempt, review or artifact, and a committed one left exactly one.
EvidenceIffCommitted ==
    /\ \A c \in ClaimIds :
          claims[c].status = "committed" =>
             \E a \in attempts[claims[c].task] : a.token = claims[c].token
    /\ \A t \in Tasks : \A a \in attempts[t] :
          /\ \E c \in ClaimIds : /\ claims[c].status = "committed"
                                 /\ claims[c].task = t
                                 /\ claims[c].token = a.token
          /\ \A b \in attempts[t] : a.no = b.no \/ a.token = b.token => a = b

\* An outcome is final: the attempt that made a task succeed or fail carries
\* the newest token the task ever had, so nothing was claimed after it, and a
\* finished task has such an attempt.
FinalOutcomeIsLast ==
    \A t \in Tasks :
       /\ \A a \in attempts[t] :
             a.result \in {"succeeded", "failed"} =>
                /\ a.token = fence[t]
                /\ task[t].status = a.result
       /\ task[t].status \in {"succeeded", "failed"} =>
             \E a \in attempts[t] : a.result = task[t].status

\* No work is handed out before its dependencies are done, and they stay done.
DependenciesDone ==
    \A t \in Tasks : fence[t] > 0 =>
       \A d \in Deps[t] : task[d].status = "succeeded"

\* _reconcile_goal_locked decides from the committed task alone: still the goal
\* has succeeded exactly when all of its tasks have, a failed task always means
\* a failed goal, and a paused goal waits for a request that an operator can
\* still resolve, whichever of its tasks asked and however approvals interleave.
GoalReflectsTasks ==
    \A g \in Goals :
       /\ goal[g] = "succeeded" =>
             \A t \in TasksOf(g) : task[t].status = "succeeded"
       /\ /\ TasksOf(g) # {}
          /\ \A t \in TasksOf(g) : task[t].status = "succeeded"
          => goal[g] = "succeeded"
       /\ \A t \in TasksOf(g) : task[t].status = "failed" => goal[g] = "failed"
       /\ goal[g] = "paused" => \E t \in TasksOf(g) : approval[t] = "pending"

\* A goal that has ended stays as it is (transition_goal; the worker plane
\* never writes one), and every other change is one _GOAL_TRANSITIONS allows.
GoalTransitions ==
    [][\A g \in Goals :
          goal'[g] # goal[g] => CanTransition(goal[g], goal'[g])]_vars

\* docs/architecture.md: "An expired claim never becomes active again", nor
\* does any other finished one, and a claim's identity never changes.
ClaimHistoryStays ==
    [][\A c \in ClaimIds :
          /\ claims[c].status \in TerminalClaim => claims'[c] = claims[c]
          /\ Active(c) =>
                \A f \in {"task", "worker", "session", "agent", "token"} :
                   claims'[c][f] = claims[c][f]
      ]_vars

\* A worker generation that was superseded changes nothing it once owned: while
\* a claim's worker is registered under another session, only the reaper can
\* end the claim, and it earns no attempt.
SupersededSessionIsPowerless ==
    [][\A c \in ClaimIds :
          Active(c) /\ sessions[claims[c].worker].session # claims[c].session =>
             /\ claims'[c].status = "expired" \/ claims'[c] = claims[c]
             /\ attempts'[claims[c].task] = attempts[claims[c].task]
      ]_vars

\* The fenced claims, with their workers, sessions, leases and expiries
\* hidden, implement the grants of FencedWork: one holder at a time, ever
\* higher tokens, one result per settled grant and none for any other, and
\* no grant after a final result.
HeldTokens == [t \in Tasks |->
                 {claims[c].token : c \in {d \in ClaimIds :
                                     Active(d) /\ claims[d].task = t}}]
Evidence == [t \in Tasks |-> {<<a.token, a.result>> : a \in attempts[t]}]

Fenced == INSTANCE FencedWork
             WITH Results <- Outcomes,
                  Final <- {"succeeded", "failed", "blocked"},
                  issued <- fence,
                  held <- HeldTokens,
                  evidence <- Evidence

SchedulerImplementsFencedWork == Fenced!Spec

=============================================================================
