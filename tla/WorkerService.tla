---------------------------- MODULE WorkerService ----------------------------
(***************************************************************************)
(* The worker processes (worker_service.py) on top of the repository's     *)
(* transactions (Scheduler).  A process generation is its session_id: it   *)
(* registers once, polls for a task, executes and reviews it outside any   *)
(* transaction while a lease maintainer thread renews the claim on its own *)
(* connection, stops the maintainer, renews once more and commits or       *)
(* pauses.  Processes stop, are lost, crash, or are just slow: a process   *)
(* that was superseded or reaped goes on until a transaction tells it.     *)
(*                                                                         *)
(* A transaction's time is read from the database clock before the         *)
(* transaction begins (clk, mclk) and can be old when it is used.          *)
(***************************************************************************)
EXTENDS Scheduler, Sequences

CONSTANTS
    WorkerOf,       \* the worker_id a process generation runs under
    Guarded,        \* tasks whose execution calls a tool that needs approval
    MaxAttemptsOf,  \* Task.max_attempts
    Keys,           \* idempotency keys of outbox messages
    Messages        \* the keys of the messages a passing execution can return

ASSUME ServiceAssumption ==
    /\ WorkerOf \in [Sessions -> Workers]
    /\ Guarded \subseteq Tasks
    /\ MaxAttemptsOf \in [Tasks -> 1 .. MaxAttempts]
    /\ Lease < TTL          \* WorkerServiceConfig.__post_init__
    /\ \A t \in Tasks : Messages[t] \subseteq Seq(Keys) /\ Messages[t] # {}

VARIABLES
    proc,           \* the processes: foreground thread and maintainer thread
    perf,           \* performance.attempts per agent and task type
    intents         \* keys of the outbox messages enqueued by commits

wvars == <<vars, proc, perf, intents>>

Ended == {"stopped", "lost", "paused", "crashed"}
Holding == {"count", "work", "join", "beat", "renew", "finish"}
Foreground == {"new", "register", "poll", "session", "claim"} \cup Holding \cup Ended
Maintainer == {"off", "wait", "beat", "renew", "lost"}

Process == [pc : Foreground, clk : Times, claim : ClaimIds \cup {Null},
            no : 0 .. MaxAttempts + 1,
            out : {"none", "approval"} \cup Outcomes,
            seen : Nat, maint : Maintainer, mclk : Times]

Fresh(pc) == [pc |-> pc, clk |-> 0, claim |-> Null, no |-> 0, out |-> "none",
              seen |-> 0, maint |-> "off", mclk |-> 0]

WTypeOK ==
    /\ TypeOK
    /\ proc \in [Sessions -> Process]
    /\ perf \in [Agents -> [Types -> Nat]]
    /\ intents \subseteq Keys

WInit ==
    /\ Init
    /\ proc = [p \in Sessions |-> Fresh("new")]
    /\ perf = [a \in Agents |-> [y \in Types |-> 0]]
    /\ intents = {}

-----------------------------------------------------------------------------

At(p, pc) == proc[p].pc = pc
MyTask(p) == claims[proc[p].claim].task
MyAgent(p) == claims[proc[p].claim].agent
MyType(p) == TypeOf[MyTask(p)]

Goto(p, pc) == proc' = [proc EXCEPT ![p].pc = pc]
GotoNow(p, pc) == proc' = [proc EXCEPT ![p].pc = pc, ![p].clk = now]
End(p, pc) == proc' = [proc EXCEPT ![p] = Fresh(pc)]

\* run_once starts: now = _now().  The first call registers the session, the
\* later ones heartbeat it (_ensure_session).
ReadClock(p) ==
    /\ \/ At(p, "new") /\ GotoNow(p, "register")
       \/ At(p, "poll") /\ GotoNow(p, "session")
    /\ UNCHANGED <<vars, perf, intents>>

EnsureSession(p) ==
    /\ \/ At(p, "register") /\ RegisterWorker(WorkerOf[p], p, proc[p].clk)
       \/ At(p, "session") /\ Heartbeat(WorkerOf[p], p, proc[p].clk)
    /\ Goto(p, "claim")
    /\ UNCHANGED <<perf, intents>>

\* WorkerSessionRejected escapes run_once, here and in claim_next_task: the
\* process dies with it.
SessionRejected(p) ==
    /\ \/ /\ At(p, "session")
          /\ ~ MayHeartbeat(WorkerOf[p], p, proc[p].clk)
       \/ /\ At(p, "claim")
          /\ ~ RequireSession(WorkerOf[p], p, proc[p].clk)
    /\ End(p, "crashed")
    /\ UNCHANGED <<vars, perf, intents>>

\* claim_next_task returns a claim under a fresh claim_id (uuid4); the
\* instance bounds the number of claims.
FreshId == CHOOSE c \in ClaimIds : claims[c].status = "none"

Claimed(p) ==
    /\ At(p, "claim")
    /\ \E c \in ClaimIds : claims[c].status = "none"
    /\ ClaimNextTask(FreshId, WorkerOf[p], p, proc[p].clk)
    /\ proc' = [proc EXCEPT ![p].pc = "count", ![p].claim = FreshId]
    /\ UNCHANGED <<perf, intents>>

\* ... or nothing is ready, and run waits for the poll interval.
NothingReady(p) ==
    /\ At(p, "claim")
    /\ RequireSession(WorkerOf[p], p, proc[p].clk)
    /\ Candidates(WorkerOf[p]) = {}
    /\ Goto(p, "poll")
    /\ UNCHANGED <<vars, perf, intents>>

\* Mistake: the fencing token serves as the attempt number.
CountClaims(p) ==
    /\ At(p, "count")
    /\ proc' = [proc EXCEPT ![p].pc = "work", ![p].maint = "wait",
                            ![p].no = fence[MyTask(p)]]
    /\ UNCHANGED <<vars, perf, intents>>

\* attempt_no = len(list_reviews) + 1, and the maintainer thread starts.
CountReviews(p) ==
    /\ At(p, "count")
    /\ proc' = [proc EXCEPT ![p].pc = "work", ![p].maint = "wait",
                            ![p].no = Cardinality(attempts[MyTask(p)]) + 1]
    /\ UNCHANGED <<vars, perf, intents>>

\* The resulting status of a reviewed attempt that did not pass.
Retry(p) ==
    IF proc[p].no >= MaxAttemptsOf[MyTask(p)] THEN "failed" ELSE "pending"

\* The statuses an execution and its review can lead to.
ExecutionOutcomes(p) ==
    LET t == MyTask(p) IN
    IF t \notin Guarded \/ approval[t] = "approved"
    THEN {"succeeded", "blocked", Retry(p)}
    ELSE {Retry(p)}         \* ToolDenied, once rejected

\* execute and review, then calculate_outcome: the performance record is read
\* now and written by the commit.
Execute(p) ==
    /\ At(p, "work")
    /\ MyTask(p) \in Guarded => approval[MyTask(p)] \in {"approved", "rejected"}
    /\ \E r \in ExecutionOutcomes(p) :
          proc' = [proc EXCEPT ![p].pc = "join", ![p].out = r,
                               ![p].seen = perf[MyAgent(p)][MyType(p)]]
    /\ UNCHANGED <<vars, perf, intents>>

\* ToolExecutor.execute finds no decision, stores the pending request and
\* raises ApprovalRequired.
NeedApproval(p) ==
    /\ At(p, "work")
    /\ MyTask(p) \in Guarded
    /\ approval[MyTask(p)] \in {"none", "pending"}
    /\ \/ SaveApproval(MyTask(p))
       \/ approval[MyTask(p)] = "pending" /\ UNCHANGED vars
    /\ proc' = [proc EXCEPT ![p].pc = "join", ![p].out = "approval"]
    /\ UNCHANGED <<perf, intents>>

\* Mistakes: the final clock is the one run_once started with, or the thread
\* that has lost its claim is waited for.
JoinMaintainerOldClock(p) ==
    /\ At(p, "join")
    /\ \/ proc[p].maint = "lost" /\ End(p, "lost")
       \/ /\ proc[p].maint = "wait"
          /\ proc' = [proc EXCEPT ![p].pc = "beat", ![p].maint = "off",
                                  ![p].mclk = 0]
    /\ UNCHANGED <<vars, perf, intents>>

JoinLiveMaintainer(p) ==
    /\ At(p, "join")
    /\ proc[p].maint = "wait"
    /\ proc' = [proc EXCEPT ![p].pc = "beat", ![p].clk = now,
                            ![p].maint = "off", ![p].mclk = 0]
    /\ UNCHANGED <<vars, perf, intents>>

\* maintainer.stop(): set the stop event and join the thread, which finishes
\* the iteration it is in; then maintainer.lost is tested and the clock read.
JoinMaintainer(p) ==
    /\ At(p, "join")
    /\ \/ proc[p].maint = "lost" /\ End(p, "lost")
       \/ /\ proc[p].maint = "wait"
          /\ proc' = [proc EXCEPT ![p].pc = "beat", ![p].clk = now,
                                  ![p].maint = "off", ![p].mclk = 0]
    /\ UNCHANGED <<vars, perf, intents>>

\* The final heartbeat and the final renewal share one reading of the clock;
\* the commit or pause has its own.
FinalHeartbeat(p) ==
    /\ At(p, "beat")
    /\ Heartbeat(WorkerOf[p], p, proc[p].clk)
    /\ Goto(p, "renew")
    /\ UNCHANGED <<perf, intents>>

FinalRenew(p) ==
    /\ At(p, "renew")
    /\ RenewClaim(proc[p].claim, proc[p].clk)
    /\ GotoNow(p, "finish")
    /\ UNCHANGED <<perf, intents>>

\* The keys of a sequence of messages; _enqueue_outbox_locked returns the row
\* a key already has, so what is enqueued is a set.
KeysOf(m) == {m[i] : i \in DOMAIN m}

\* A message can differ, in its payload or its number of attempts, from the row
\* its key already has: of an earlier commit, if the row is not purged, or of an
\* earlier message of the same execution.
MayConflict(m) ==
    \E i \in DOMAIN m : m[i] \in intents \/ \E j \in 1 .. i - 1 : m[j] = m[i]

\* Mistake: intents are enqueued whatever the outcome.
CommitAndEnqueue(p) ==
    /\ At(p, "finish")
    /\ proc[p].out # "approval"
    /\ CommitOutcome(proc[p].claim, proc[p].no, proc[p].out, proc[p].clk)
    /\ perf' = [perf EXCEPT ![MyAgent(p)][MyType(p)] = proc[p].seen + 1]
    /\ \E m \in Messages[MyTask(p)] : intents' = intents \cup KeysOf(m)
    /\ End(p, "poll")

\* The messages of an execution that did not pass are dropped.
Commit(p) ==
    /\ At(p, "finish")
    /\ proc[p].out # "approval"
    /\ CommitOutcome(proc[p].claim, proc[p].no, proc[p].out, proc[p].clk)
    /\ perf' = [perf EXCEPT ![MyAgent(p)][MyType(p)] = proc[p].seen + 1]
    /\ IF proc[p].out = "succeeded"
       THEN \E m \in Messages[MyTask(p)] : intents' = intents \cup KeysOf(m)
       ELSE UNCHANGED intents
    /\ End(p, "poll")

Pause(p) ==
    /\ At(p, "finish")
    /\ proc[p].out = "approval"
    /\ PauseForApproval(proc[p].claim, proc[p].clk)
    /\ End(p, "paused")
    /\ UNCHANGED <<perf, intents>>

Decided(p) == approval[MyTask(p)] \in {"approved", "rejected"}
GoalRuns(p) == goal[GoalOf[MyTask(p)]] = "running"

\* The commit and the pause look at the goal last: what fails before, fails
\* with its own exception.
FindsWorkLost(p) ==
    \/ ~ Owns(proc[p].claim, proc[p].clk)
    \/ /\ proc[p].out = "approval"
       /\ ~ Decided(p)
       /\ ~ (OwnsRunningTask(proc[p].claim) /\ GoalRuns(p))
    \/ /\ proc[p].out # "approval"
       /\ ~ OwnsRunningTask(proc[p].claim)
    \/ /\ proc[p].out # "approval"
       /\ IsNewAttempt(MyTask(p), proc[p].no)
       /\ ~ GoalRuns(p)

\* StaleClaim or WorkerSessionRejected: the process returns LOST and drops its
\* local output.
Lost(p) ==
    /\ \/ At(p, "beat") /\ ~ RequireSession(WorkerOf[p], p, proc[p].clk)
       \/ At(p, "renew") /\ ~ Owns(proc[p].claim, proc[p].clk)
       \/ At(p, "finish") /\ FindsWorkLost(p)
    /\ End(p, "lost")
    /\ UNCHANGED <<vars, perf, intents>>

\* What fails the commit or the pause of a process that owns its claim: an
\* approval decided in the meantime (pause_claim_for_approval), an attempt
\* number that exists (the unique index), a message that conflicts with the row
\* of its key (_enqueue_outbox_locked), a time before the claim's (finish).
FailsAtEnd(p) ==
    \/ proc[p].out = "approval" /\ Decided(p)
    \/ /\ proc[p].out # "approval"
       /\ OwnsRunningTask(proc[p].claim)
       /\ ~ IsNewAttempt(MyTask(p), proc[p].no)
    \/ /\ proc[p].out = "succeeded"
       /\ OwnsRunningTask(proc[p].claim)
       /\ \E m \in Messages[MyTask(p)] : MayConflict(m)
    \/ /\ OwnsRunningTask(proc[p].claim)
       /\ GoalRuns(p)
       /\ proc[p].clk < claims[proc[p].claim].acquired

\* Any other exception (ValueError, IntegrityError) escapes run_once: the
\* process dies and leaves its claim active.
RaisesError(p) ==
    \/ /\ At(p, "beat")
       /\ RequireSession(WorkerOf[p], p, proc[p].clk)
       /\ proc[p].clk < LastHeartbeatAt(WorkerOf[p])
    \/ /\ At(p, "renew")
       /\ Owns(proc[p].claim, proc[p].clk)
       /\ proc[p].clk < RenewedAt(proc[p].claim)
    \/ /\ At(p, "finish")
       /\ Owns(proc[p].claim, proc[p].clk)
       /\ FailsAtEnd(p)

Raise(p) ==
    /\ RaisesError(p)
    /\ End(p, "crashed")
    /\ UNCHANGED <<vars, perf, intents>>

\* The loop ends between two tasks: stop event, or max_tasks reached.
Stop(p) ==
    /\ At(p, "poll")
    /\ End(p, "stopped")
    /\ UNCHANGED <<vars, perf, intents>>

\* The process is killed; its daemon thread dies with it.
Crash(p) ==
    /\ proc[p].pc \notin Ended \cup {"new"}
    /\ End(p, "crashed")
    /\ UNCHANGED <<vars, perf, intents>>

-----------------------------------------------------------------------------
(* _LeaseMaintainer._run, on its own connection.                           *)

\* The wait times out (not once stop is set) and the clock is read.
MaintainerWakes(p) ==
    /\ proc[p].maint = "wait"
    /\ At(p, "work")
    /\ proc' = [proc EXCEPT ![p].maint = "beat", ![p].mclk = now]
    /\ UNCHANGED <<vars, perf, intents>>

MaintainerBeats(p) ==
    /\ proc[p].maint = "beat"
    /\ Heartbeat(WorkerOf[p], p, proc[p].mclk)
    /\ proc' = [proc EXCEPT ![p].maint = "renew"]
    /\ UNCHANGED <<perf, intents>>

MaintainerRenews(p) ==
    /\ proc[p].maint = "renew"
    /\ RenewClaim(proc[p].claim, proc[p].mclk)
    /\ proc' = [proc EXCEPT ![p].maint = "wait", ![p].mclk = 0]
    /\ UNCHANGED <<perf, intents>>

\* Any exception ends the thread and marks the claim lost: a refused
\* heartbeat or renewal, or a database error.
MaintainerLoses(p) ==
    /\ proc[p].maint \in {"beat", "renew"}
    /\ proc' = [proc EXCEPT ![p].maint = "lost", ![p].mclk = 0]
    /\ UNCHANGED <<vars, perf, intents>>

-----------------------------------------------------------------------------
(* The operator and the clock.                                             *)

\* seed-society scheduler reap --at: any time the operator gives.
Reap ==
    /\ \E at \in Times : ReapExpired(at)
    /\ UNCHANGED <<proc, perf, intents>>

\* seed-society approve and reject.
Decide ==
    /\ \E t \in Tasks, d \in {"approved", "rejected"} : ResolveApproval(t, d)
    /\ UNCHANGED <<proc, perf, intents>>

ClockAdvances ==
    /\ Tick
    /\ UNCHANGED <<proc, perf, intents>>

ForegroundStep(p) ==
    \/ ReadClock(p) \/ EnsureSession(p) \/ SessionRejected(p)
    \/ Claimed(p) \/ NothingReady(p) \/ CountReviews(p)
    \/ Execute(p) \/ NeedApproval(p) \/ JoinMaintainer(p)
    \/ FinalHeartbeat(p) \/ FinalRenew(p)
    \/ Commit(p) \/ Pause(p) \/ Lost(p) \/ Raise(p)

MaintainerStep(p) ==
    \/ MaintainerBeats(p) \/ MaintainerRenews(p) \/ MaintainerLoses(p)

WNext ==
    \/ \E p \in Sessions :
          \/ ForegroundStep(p)
          \/ MaintainerWakes(p)
          \/ MaintainerStep(p)
          \/ Stop(p)
          \/ Crash(p)
    \/ Reap
    \/ Decide
    \/ ClockAdvances

WSpec == WInit /\ [][WNext]_wvars

\* A thread that can run does run; crashes, stops, the operator and the clock
\* owe nothing.
WFairSpec ==
    /\ WSpec
    /\ \A p \in Sessions : /\ WF_wvars(ForegroundStep(p))
                           /\ WF_wvars(MaintainerStep(p))

-----------------------------------------------------------------------------
(* Properties.                                                             *)

\* The callers of worker_service.py are callers Scheduler allows: what holds
\* of the repository under arbitrary callers holds of the service.
ServiceImplementsScheduler == Spec

\* attempt_no is counted after the claim and used by the commit, with the
\* execution in between: still the attempts of a task are numbered 1, 2, ...
\* without gap, and never beyond its max_attempts.
AttemptsBounded ==
    \A t \in Tasks :
       /\ {a.no : a \in attempts[t]} = 1 .. Cardinality(attempts[t])
       /\ Cardinality(attempts[t]) <= MaxAttemptsOf[t]

\* Two messages of a sequence have one key, or one of its keys can be another
\* succeeded task's.
Repeats(m) == \E i \in DOMAIN m, j \in DOMAIN m : i # j /\ m[i] = m[j]
SharesKey(m, t) ==
    \E u \in Tasks \ {t} :
       /\ task[u].status = "succeeded"
       /\ \E n \in Messages[u] : KeysOf(m) \cap KeysOf(n) # {}

\* A process that executed its task dies of two things only (but a crash): a
\* request decided after it read it, or a message whose key another succeeded
\* task's messages have, or which its own have twice.  It never dies of a clock
\* that moved back, of an attempt number that exists, or of a message that an
\* earlier attempt at its task left behind.
OnlyConflictsRaise ==
    \A p \in Sessions : RaisesError(p) =>
       /\ At(p, "finish")
       /\ \/ proc[p].out = "approval" /\ Decided(p)
          \/ /\ proc[p].out = "succeeded"
             /\ \E m \in Messages[MyTask(p)] : MayConflict(m)
             /\ \A m \in Messages[MyTask(p)] : MayConflict(m) =>
                   Repeats(m) \/ SharesKey(m, MyTask(p))

\* What a commit leaves besides the attempt: the outbox intents of the tasks
\* whose passing outcome was committed, all of an execution's and no other's
\* (docs/scheduler.md, invariant 8), and a performance record that counts
\* committed attempts only.  Updates of the record may be lost, but never all
\* of them.
RecordsFollowCommits ==
    /\ \A t \in Tasks : task[t].status = "succeeded" =>
          \E m \in Messages[t] : KeysOf(m) \subseteq intents
    /\ \A k \in intents : \E t \in Tasks :
          /\ task[t].status = "succeeded"
          /\ \E m \in Messages[t] : k \in KeysOf(m)
    /\ \A a \in Agents, y \in Types :
          LET committed ==
                 UNION {{<<t, e>> : e \in {x \in attempts[t] : x.agent = a}}
                           : t \in {u \in Tasks : TypeOf[u] = y}}
          IN  /\ perf[a][y] <= Cardinality(committed)
              /\ committed # {} => perf[a][y] > 0

\* No process holds a claim for ever: whatever the other threads and processes
\* do, it finishes with it, and the foreground and its maintainer never wait on
\* each other.
ClaimIsSettled ==
    \A p \in Sessions : []<>(proc[p].pc \notin Holding)

=============================================================================
