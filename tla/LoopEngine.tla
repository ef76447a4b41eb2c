------------------------------ MODULE LoopEngine ------------------------------
(***************************************************************************)
(* The synchronous engine (engine.py): planning, the recovery of           *)
(* interrupted tasks, and the outer loop that picks a ready task, executes *)
(* it, commits the reviewed attempt and then moves the task and the goal   *)
(* in separate transactions.  An engine process may crash between any two  *)
(* of its transactions; `run' on the same goal resumes.  The goal an       *)
(* engine writes is the one it holds in memory since it read it.           *)
(*                                                                         *)
(* Beside the engines run the operator who decides approvals and, when     *)
(* Daemons is true, the scheduler's workers.  Those are Scheduler.tla      *)
(* reduced to what an engine can see of them: the tasks they hold an       *)
(* active claim of, and the transactions that end a claim.                 *)
(***************************************************************************)
EXTENDS Integers, FiniteSets

CONSTANTS
    Engines,        \* processes that call LoopEngine.run on the goal
    Tasks,          \* the planner's tasks, the same at every planning
    Deps,           \* Task.dependencies
    Rank,           \* the order (position, task_id)
    MaxAttemptsOf,  \* Task.max_attempts
    MaxActions,     \* RunBudget.max_actions
    Guarded,        \* tasks whose worker calls a tool that needs approval
    Daemons,        \* do scheduler workers serve the goal too?
    MaxCrashes,     \* bound on the crashes of engine processes
    Null

ASSUME EngineAssumption ==
    /\ IsFiniteSet(Tasks)
    /\ Deps \in [Tasks -> SUBSET Tasks]
    /\ Rank \in [Tasks -> Nat]
    /\ \A t, u \in Tasks : Rank[t] = Rank[u] => t = u
    /\ MaxAttemptsOf \in [Tasks -> Nat \ {0}]
    /\ MaxActions \in Nat \ {0}
    /\ MaxCrashes \in Nat
    /\ Guarded \subseteq Tasks
    /\ Daemons \in BOOLEAN
    /\ Null \notin Tasks

VARIABLES
    goal,           \* goals.status
    task,           \* tasks: status ("absent" until the plan is saved)
    attempts,       \* attempts, reviews and task.attempt_completed events
    approval,       \* the approval request of a task's guarded call
    called,         \* tasks whose guarded tool was invoked (history)
    claimed,        \* tasks under an active scheduler claim
    eng,            \* the local state of a process
    crashes         \* crashes so far

vars == <<goal, task, attempts, approval, called, claimed, eng, crashes>>

GoalStatus == {"created", "planning", "running", "paused",
               "succeeded", "failed", "blocked"}
TerminalGoal == {"succeeded", "failed", "blocked"}
TaskStatus == {"absent", "pending", "running", "succeeded", "failed",
               "blocked"}
ApprovalStatus == {"none", "pending", "approved", "rejected"}
Results == {"pass", "fail", "blocked"}
Steps == {"idle", "claims", "approvals", "resume", "planning", "plan",
          "started", "interrupted", "recover", "count", "choose", "assign",
          "number", "execute", "ask", "outcome", "task", "end"}

\* goal: the goal in memory; work, no, result: the task being executed, the
\* attempt's number and result; todo: tasks still to recover; seen: the
\* approval the tool executor read; next: the status save_task is about to
\* write.
Local == [pc : Steps, goal : GoalStatus, work : Tasks \cup {Null},
          actions : Nat, no : Nat, result : Results \cup {Null},
          todo : SUBSET Tasks, seen : ApprovalStatus,
          next : TaskStatus]

Idle == [pc |-> "idle", goal |-> "created", work |-> Null, actions |-> 0,
         no |-> 0, result |-> Null, todo |-> {}, seen |-> "none",
         next |-> "absent"]

LTypeOK ==
    /\ goal \in GoalStatus
    /\ task \in [Tasks -> TaskStatus]
    /\ attempts \in [Tasks -> SUBSET [no : Nat, result : Results]]
    /\ approval \in [Tasks -> ApprovalStatus]
    /\ called \subseteq Tasks
    /\ claimed \subseteq Tasks
    /\ eng \in [Engines -> Local]
    /\ crashes \in 0 .. MaxCrashes

Init ==
    /\ goal = "created"
    /\ task = [t \in Tasks |-> "absent"]
    /\ attempts = [t \in Tasks |-> {}]
    /\ approval = [t \in Tasks |-> "none"]
    /\ called = {}
    /\ claimed = {}
    /\ eng = [e \in Engines |-> Idle]
    /\ crashes = 0

db == <<goal, task, attempts, approval, called, claimed>>

\* The step an engine takes next, with what it has in memory.
Goto(e, l) == eng' = [eng EXCEPT ![e] = l]
At(e, pc) == eng[e].pc = pc
On(e) == eng[e].work

\* transition_goal in memory, then save_goal in a transaction of its own.
Ending(e, status) == [eng[e] EXCEPT !.pc = "end", !.goal = status]

-----------------------------------------------------------------------------
(* run: load the goal and decide how to go on.                             *)

\* get_goal; a terminal goal is only reported.
LoadGoal(e) ==
    /\ At(e, "idle")
    /\ goal \notin TerminalGoal
    /\ Goto(e, [Idle EXCEPT !.pc = "claims", !.goal = goal])
    /\ UNCHANGED <<db, crashes>>

\* The goal in memory says where to enter.
Entry(status) ==
    CASE status = "paused"   -> "approvals"
      [] status = "created"  -> "planning"
      [] status = "planning" -> "plan"
      [] status = "running"  -> "interrupted"

\* list_claims: an active claim ends the run with an error.
CheckClaims(e) ==
    /\ At(e, "claims")
    /\ Goto(e, IF claimed # {} THEN Idle
               ELSE [eng[e] EXCEPT !.pc = Entry(eng[e].goal)])
    /\ UNCHANGED <<db, crashes>>

\* list_approvals of a paused goal: wait, fail, or resume.
CheckApprovals(e) ==
    LET some(status) == \E t \in Tasks : approval[t] = status IN
    /\ At(e, "approvals")
    /\ \/ some("pending") /\ Goto(e, Idle)
       \/ ~ some("pending") /\ some("rejected") /\ Goto(e, Ending(e, "failed"))
       \/ /\ ~ some("pending") /\ ~ some("rejected")
          /\ Goto(e, [eng[e] EXCEPT !.pc = "resume", !.goal = "running"])
    /\ UNCHANGED <<db, crashes>>

\* save_goal is an unconditional upsert of the goal in memory.
SaveGoal(e) ==
    /\ goal' = eng[e].goal
    /\ UNCHANGED <<task, attempts, approval, called, claimed, crashes>>

Resume(e) ==
    /\ At(e, "resume")
    /\ SaveGoal(e)
    /\ Goto(e, [eng[e] EXCEPT !.pc = "interrupted"])

\* Mistake: the goal is reported and not saved.
EndRunUnsaved(e) ==
    /\ At(e, "end")
    /\ Goto(e, Idle)
    /\ UNCHANGED <<db, crashes>>

\* The saves that end a run; the report follows.
EndRun(e) ==
    /\ At(e, "end")
    /\ SaveGoal(e)
    /\ Goto(e, Idle)

-----------------------------------------------------------------------------
(* _plan and _recover_interrupted_tasks.                                   *)

SavePlanning(e) ==
    /\ At(e, "planning")
    /\ goal' = "planning"
    /\ Goto(e, [eng[e] EXCEPT !.pc = "plan", !.goal = "planning"])
    /\ UNCHANGED <<task, attempts, approval, called, claimed, crashes>>

\* save_tasks: the whole graph as pending, unless a claim owns one of it.
SavePlan(e) ==
    /\ At(e, "plan")
    /\ claimed = {}
    /\ task' = [t \in Tasks |-> "pending"]
    /\ Goto(e, [eng[e] EXCEPT !.pc = "started", !.goal = "running"])
    /\ UNCHANGED <<goal, attempts, approval, called, claimed, crashes>>

\* The planner fails or returns an invalid graph.
RejectPlan(e) ==
    /\ At(e, "plan")
    /\ Goto(e, Ending(e, "failed"))
    /\ UNCHANGED <<db, crashes>>

StartGoal(e) ==
    /\ At(e, "started")
    /\ SaveGoal(e)
    /\ Goto(e, [eng[e] EXCEPT !.pc = "interrupted"])

\* Mistake: every task is reset, not just the interrupted ones.
ListStarted(e) ==
    /\ At(e, "interrupted")
    /\ Goto(e, [eng[e] EXCEPT !.pc = "recover",
                    !.todo = {t \in Tasks : task[t] # "pending"}])
    /\ UNCHANGED <<db, crashes>>

ListInterrupted(e) ==
    /\ At(e, "interrupted")
    /\ Goto(e, [eng[e] EXCEPT !.pc = "recover",
                    !.todo = {t \in Tasks : task[t] = "running"}])
    /\ UNCHANGED <<db, crashes>>

\* One save_task per interrupted task, in list order.
RecoverTask(e) ==
    LET todo == eng[e].todo IN
    /\ At(e, "recover")
    /\ \E t \in todo \ claimed :
          /\ \A u \in todo : Rank[t] <= Rank[u]
          /\ task' = [task EXCEPT ![t] = "pending"]
          /\ Goto(e, [eng[e] EXCEPT !.todo = todo \ {t}])
    /\ UNCHANGED <<goal, attempts, approval, called, claimed, crashes>>

Recovered(e) ==
    /\ At(e, "recover")
    /\ eng[e].todo = {}
    /\ Goto(e, [eng[e] EXCEPT !.pc = "count"])
    /\ UNCHANGED <<db, crashes>>

-----------------------------------------------------------------------------
(* _execute.                                                               *)

\* The task.attempt_completed events of the goal.
AttemptCount == Cardinality(UNION {{t} \X attempts[t] : t \in Tasks})

\* Mistake: every run has a budget of its own.
CountFromZero(e) ==
    /\ At(e, "count")
    /\ Goto(e, [eng[e] EXCEPT !.pc = "choose", !.actions = 0])
    /\ UNCHANGED <<db, crashes>>

\* The budget counts the completed attempts of every earlier run.
CountActions(e) ==
    /\ At(e, "count")
    /\ Goto(e, [eng[e] EXCEPT !.pc = "choose", !.actions = AttemptCount])
    /\ UNCHANGED <<db, crashes>>

Ready ==
    {t \in Tasks : /\ task[t] = "pending"
                   /\ \A d \in Deps[t] : task[d] = "succeeded"}

AllSucceeded == \A t \in Tasks : task[t] = "succeeded"

\* Why the loop stops on the tasks it has just listed, in the code's order.
LoopVerdict(actions) ==
    CASE AllSucceeded -> "succeeded"
      [] ~ AllSucceeded /\ (actions >= MaxActions \/ Ready = {}) -> "blocked"
      [] OTHER -> "running"

FinishGoal(e) ==
    /\ At(e, "choose")
    /\ LoopVerdict(eng[e].actions) # "running"
    /\ Goto(e, Ending(e, LoopVerdict(eng[e].actions)))
    /\ UNCHANGED <<db, crashes>>

\* The first ready task gets an agent ...
ChooseTask(e) ==
    /\ At(e, "choose")
    /\ LoopVerdict(eng[e].actions) = "running"
    /\ \E t \in Ready :
          /\ \A u \in Ready : Rank[t] <= Rank[u]
          /\ Goto(e, [eng[e] EXCEPT !.pc = "assign", !.work = t])
    /\ UNCHANGED <<db, crashes>>

\* ... or none is eligible, or the deployed champion is missing.
NoAgent(e) ==
    /\ At(e, "choose")
    /\ LoopVerdict(eng[e].actions) = "running"
    /\ Goto(e, Ending(e, "blocked"))
    /\ UNCHANGED <<db, crashes>>

\* Mistake: the claim is not looked for.
SaveTaskUnfenced(t, status) ==
    /\ task' = [task EXCEPT ![t] = status]
    /\ UNCHANGED <<goal, attempts, approval, called, claimed, crashes>>

\* save_task of the task in memory, whatever the row holds now, unless a claim
\* owns the task.
SaveTask(t, status) ==
    /\ t \notin claimed
    /\ task' = [task EXCEPT ![t] = status]
    /\ UNCHANGED <<goal, attempts, approval, called, claimed, crashes>>

StartTask(e) ==
    /\ At(e, "assign")
    /\ SaveTask(On(e), "running")
    /\ Goto(e, [eng[e] EXCEPT !.pc = "number"])

\* attempt_no = len(list_reviews(...)) + 1
NumberAttempt(e) ==
    /\ At(e, "number")
    /\ Goto(e, [eng[e] EXCEPT !.pc = "execute",
                    !.no = Cardinality(attempts[On(e)]) + 1])
    /\ UNCHANGED <<db, crashes>>

Reviewed(e, r) == [eng[e] EXCEPT !.pc = "outcome", !.result = r]

\* The worker and the reviewer run without a tool that needs approval.
Execute(e) ==
    /\ At(e, "execute")
    /\ On(e) \notin Guarded
    /\ \E r \in Results : Goto(e, Reviewed(e, r))
    /\ UNCHANGED <<db, crashes>>

\* ToolExecutor.execute: the stored request of the call decides.
ConsultApproval(e) ==
    /\ At(e, "execute")
    /\ On(e) \in Guarded
    /\ Goto(e, [eng[e] EXCEPT !.pc = "ask", !.seen = approval[On(e)]])
    /\ UNCHANGED <<db, crashes>>

\* Mistake: only a rejection keeps the tool from running.
CallUnlessRejected(e) ==
    /\ At(e, "ask")
    /\ eng[e].seen # "rejected"
    /\ called' = called \cup {On(e)}
    /\ \E r \in {"pass", "fail"} : Goto(e, Reviewed(e, r))
    /\ UNCHANGED <<goal, task, attempts, approval, claimed, crashes>>

CallTool(e) ==
    /\ At(e, "ask")
    /\ eng[e].seen = "approved"
    /\ called' = called \cup {On(e)}
    /\ \E r \in {"pass", "fail"} : Goto(e, Reviewed(e, r))
    /\ UNCHANGED <<goal, task, attempts, approval, claimed, crashes>>

\* save_approval raises when the stored request is no longer the one read: like
\* a denied tool, that is an execution error.
DenyTool(e) ==
    /\ At(e, "ask")
    /\ \/ eng[e].seen = "rejected"
       \/ /\ eng[e].seen \in {"none", "pending"}
          /\ approval[On(e)] # eng[e].seen
    /\ Goto(e, Reviewed(e, "fail"))
    /\ UNCHANGED <<db, crashes>>

\* ApprovalRequired: the request is durable before the task and the goal are.
RequestApproval(e) ==
    /\ At(e, "ask")
    /\ eng[e].seen \in {"none", "pending"}
    /\ approval[On(e)] = eng[e].seen
    /\ approval' = [approval EXCEPT ![On(e)] = "pending"]
    /\ Goto(e, [eng[e] EXCEPT !.pc = "task", !.next = "pending",
                    !.goal = "paused"])
    /\ UNCHANGED <<goal, task, attempts, called, claimed, crashes>>

\* What follows an attempt: the task's next status and the goal's.
NextTask(t, r, no) ==
    CASE r = "pass"    -> "succeeded"
      [] r = "blocked" -> "blocked"
      [] r = "fail"    -> IF no >= MaxAttemptsOf[t] THEN "failed"
                          ELSE "pending"

\* Mistake: no unique index on (goal_id, task_id, attempt_no).
AnyNumber(t, no) == TRUE

\* The unique index on attempts.
IsNewNumber(t, no) == \A a \in attempts[t] : a.no # no

\* save_attempt_outcome: attempt, review, performance and completion event in
\* one transaction; the attempt's number is unique.
SaveOutcome(e) ==
    LET t == On(e)
        l == eng[e]
        status == NextTask(t, l.result, l.no)
    IN
    /\ At(e, "outcome")
    /\ t \notin claimed
    /\ IsNewNumber(t, l.no)
    /\ attempts' = [attempts EXCEPT ![t] = @ \cup
                       {[no |-> l.no, result |-> l.result]}]
    /\ Goto(e, [l EXCEPT !.pc = "task", !.actions = @ + 1, !.next = status,
                   !.goal = IF status \in {"failed", "blocked"} THEN status
                            ELSE "running"])
    /\ UNCHANGED <<goal, task, approval, called, claimed, crashes>>

\* The save_task that follows, and then either the goal or the next round.
FinishTask(e) ==
    /\ At(e, "task")
    /\ SaveTask(On(e), eng[e].next)
    /\ Goto(e, IF eng[e].goal = "running"
               THEN [Idle EXCEPT !.pc = "choose", !.goal = "running",
                         !.actions = eng[e].actions]
               ELSE [Idle EXCEPT !.pc = "end", !.goal = eng[e].goal])

\* A write rejected because a claim owns the task (StaleClaim), or because the
\* attempt number is taken, ends the run with an error.
Abort(e) ==
    /\ \/ At(e, "plan") /\ claimed # {}
       \/ /\ At(e, "recover")
          /\ \E t \in eng[e].todo \cap claimed :
                \A u \in eng[e].todo : Rank[t] <= Rank[u]
       \/ eng[e].pc \in {"assign", "outcome", "task"} /\ On(e) \in claimed
       \/ /\ At(e, "outcome")
          /\ ~ IsNewNumber(On(e), eng[e].no)
    /\ Goto(e, Idle)
    /\ UNCHANGED <<db, crashes>>

\* The process dies: what it had in memory is gone.
Crash(e) ==
    /\ ~ At(e, "idle")
    /\ crashes < MaxCrashes
    /\ crashes' = crashes + 1
    /\ Goto(e, Idle)
    /\ UNCHANGED db

Step(e) ==
    \/ CheckClaims(e)
    \/ CheckApprovals(e)
    \/ Resume(e)
    \/ EndRun(e)
    \/ SavePlanning(e)
    \/ SavePlan(e)
    \/ RejectPlan(e)
    \/ StartGoal(e)
    \/ ListInterrupted(e)
    \/ RecoverTask(e)
    \/ Recovered(e)
    \/ CountActions(e)
    \/ FinishGoal(e)
    \/ ChooseTask(e)
    \/ NoAgent(e)
    \/ StartTask(e)
    \/ NumberAttempt(e)
    \/ Execute(e)
    \/ ConsultApproval(e)
    \/ CallTool(e)
    \/ DenyTool(e)
    \/ RequestApproval(e)
    \/ SaveOutcome(e)
    \/ FinishTask(e)
    \/ Abort(e)

-----------------------------------------------------------------------------
(* The operator and the scheduler's workers.                               *)

\* Mistake: the decision is stored without the goal.
ResolveApprovalOnly(t, decision) ==
    /\ approval[t] = "pending"
    /\ goal = "paused"
    /\ approval' = [approval EXCEPT ![t] = decision]
    /\ UNCHANGED <<goal, task, attempts, called, claimed, eng, crashes>>

\* resolve_approval with save_approval_resolution.
ResolveApproval(t, decision) ==
    /\ approval[t] = "pending"
    /\ goal = "paused"
    /\ approval' = [approval EXCEPT ![t] = decision]
    /\ goal' = IF decision = "approved" THEN "running" ELSE "failed"
    /\ UNCHANGED <<task, attempts, called, claimed, eng, crashes>>

\* claim_task and claim_next_task.
ClaimTask(t) ==
    /\ Daemons
    /\ goal = "running"
    /\ t \in Ready \ claimed
    /\ claimed' = claimed \cup {t}
    /\ task' = [task EXCEPT ![t] = "running"]
    /\ UNCHANGED <<goal, attempts, approval, called, eng, crashes>>

\* commit_claim_outcome, with _reconcile_goal_locked.
CommitClaim(t, r) ==
    LET no == Cardinality(attempts[t]) + 1
        status == NextTask(t, r, no)
    IN
    /\ t \in claimed
    /\ task[t] = "running"
    /\ goal = "running"
    /\ t \in Guarded /\ r = "pass" => approval[t] = "approved"
    /\ claimed' = claimed \ {t}
    /\ attempts' = [attempts EXCEPT ![t] = @ \cup
                       {[no |-> no, result |-> r]}]
    /\ task' = [task EXCEPT ![t] = status]
    /\ goal' = CASE status \in {"failed", "blocked"} -> status
                 [] AllSucceeded' -> "succeeded"
                 [] OTHER -> goal
    /\ called' = IF t \in Guarded /\ r = "pass" THEN called \cup {t}
                 ELSE called
    /\ UNCHANGED <<approval, eng, crashes>>

\* pause_claim_for_approval.
PauseClaim(t) ==
    /\ t \in claimed \cap Guarded
    /\ task[t] = "running"
    /\ goal = "running"
    /\ approval[t] \in {"none", "pending"}
    /\ approval' = [approval EXCEPT ![t] = "pending"]
    /\ goal' = "paused"
    /\ task' = [task EXCEPT ![t] = "pending"]
    /\ claimed' = claimed \ {t}
    /\ UNCHANGED <<attempts, called, eng, crashes>>

\* release_claim and reap_expired_claims: a running task goes back, or is
\* blocked by the reaper when it may have been delegated.
DropClaim(t, status) ==
    /\ t \in claimed
    /\ claimed' = claimed \ {t}
    /\ task' = [task EXCEPT ![t] = IF @ = "running" THEN status ELSE @]
    /\ UNCHANGED <<goal, attempts, approval, called, eng, crashes>>

-----------------------------------------------------------------------------

Next ==
    \/ \E e \in Engines : LoadGoal(e) \/ Step(e) \/ Crash(e)
    \/ \E t \in Tasks :
          \/ \E d \in {"approved", "rejected"} : ResolveApproval(t, d)
          \/ ClaimTask(t)
          \/ \E r \in Results : CommitClaim(t, r)
          \/ PauseClaim(t)
          \/ \E s \in {"pending", "blocked"} : DropClaim(t, s)

Spec == Init /\ [][Next]_vars

\* A live engine goes on, the operator runs an unfinished goal again, and
\* decides the requests it waits for.
FairSpec ==
    /\ Spec
    /\ \A e \in Engines : WF_vars(Step(e)) /\ WF_vars(LoadGoal(e))
    /\ \A t \in Tasks :
          WF_vars(\E d \in {"approved", "rejected"} : ResolveApproval(t, d))

-----------------------------------------------------------------------------
(* Properties.                                                             *)

Passed(t) == \E a \in attempts[t] : a.result = "pass"

\* docs/architecture.md: "`max_actions` bounds the whole run, including retries
\* across process restarts": the budget is recounted from the committed
\* events, so no crash between two transactions buys another action.  The
\* bound of one task, max_attempts, is passed by one attempt for each crash
\* between the outcome's transaction and the task's, and by no more.
ActionsBounded ==
    /\ AttemptCount <= MaxActions
    /\ \A t \in Tasks : Cardinality(attempts[t]) <= MaxAttemptsOf[t] + crashes

\* docs/architecture.md: resume "skips succeeded tasks": once a task is
\* succeeded it stays so and gets no further attempt.
SucceededStays ==
    [][\A t \in Tasks :
          task[t] = "succeeded" => /\ task'[t] = "succeeded"
                                   /\ attempts'[t] = attempts[t]]_vars

\* The goal's end is the one its tasks and requests account for: succeeded
\* when all tasks are, each with a passed attempt; and a rejected request
\* leaves it failed, never to be run again.
EndIsJustified ==
    /\ goal = "succeeded" => \A t \in Tasks : task[t] = "succeeded"
    /\ \A t \in Tasks : task[t] = "succeeded" => Passed(t)
    /\ \A t \in Tasks : approval[t] = "rejected" => goal = "failed"

\* Attempts of a task are numbered 1, 2, ... without a gap or a repetition,
\* although an engine reads the number long before it saves the attempt and
\* other engines and workers save attempts meanwhile.
AttemptsNumbered ==
    \A t \in Tasks :
       {a.no : a \in attempts[t]} = 1 .. Cardinality(attempts[t])

\* A guarded tool runs only once an operator approved the call, whatever
\* engines and workers consult, save and decide the request, and the decision
\* stays.
GuardedCallsApproved == \A t \in called : approval[t] = "approved"

\* docs/scheduler.md: "The synchronous `LoopEngine` and legacy per-record write
\* methods fail closed when an active scheduler claim owns a task": what an
\* engine remembers of a task never overwrites the row a worker runs.
ClaimedTaskRuns == \A t \in claimed : task[t] = "running"

\* docs/architecture.md: an interrupted goal can be resumed: however often the
\* engine crashes, the goal reaches an end.
GoalEnds == <>[](goal \in TerminalGoal)

=============================================================================
