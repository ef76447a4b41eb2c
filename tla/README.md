# Formal models of Seed Society

TLA+ models of the orchestration runtime in `src/seed_society`, the TLC
configurations that check them on small instances, and TLAPS proofs of theorems
about them. Paths below are relative to the repository; code paths to
`src/seed_society`.

## 1. The system

Goals are split by a planner into a graph of tasks. A task is executed by an
agent, reviewed, and succeeds, is retried, or fails. All state lives in one
database (SQLite, or PostgreSQL for the execution plane), and every component
below is a client of it: nothing is shared in memory between processes.

| Component | State it keeps | Operations | Correct when |
| --- | --- | --- | --- |
| **Execution plane** (`storage.py`, `scheduler.py`, `domain.py`) | `goals`, `tasks`, `scheduler_workers`, `task_claims`, `task_claim_fences`, `attempts`/`reviews`, `approvals`, `delegations` | register/heartbeat, claim, renew, release, commit, pause, resolve, reap: one `BEGIN IMMEDIATE` transaction each | one owner per task, fenced by tokens; evidence exactly for committed claims; goal status follows the tasks |
| **Worker service** (`worker_service.py`) | session, current claim, the maintainer thread, both in memory | poll, claim, execute and review outside any transaction, stop the maintainer, renew, commit or pause | a superseded or late process changes nothing; attempts are bounded; no hang |
| **Outbox** (`outbox.py`, `OutboxMessage`) | `outbox_messages`; the dispatcher's delivery and its maintainer thread | enqueue in the outcome commit, claim, renew, deliver, fail, expire, purge | delivered only if received; bounded deliveries; every message settles |
| **Synchronous engine** (`engine.py`) | the same rows, one save at a time; the goal and action count in memory | run/resume: plan, recover, choose, execute, save | restart-safe: budgets hold, finished work is not redone |
| **Approvals and tools** (`tools.py`) | `approvals` | consult, request, call, deny; operator decides | a guarded call runs only when approved; a paused goal can be resumed |
| **PostgreSQL plane** (`postgres_storage.py`) | as the execution plane, with row locks | as above, as READ COMMITTED transactions of several statements | as above, with concurrent transactions; deadlocks only where one operation invites them |
| **A2A delegation** (`a2a.py`, `a2a_governance.py`) | `delegations`, policy decisions | submit, poll, cancel, resume | a remote task is never submitted twice |
| **Publication** (`publication.py`, `github.py`) | `publications`, a Git checkout, GitHub | commit, push, open a pull request | only approved, tested content goes out; resumable after any step |
| **Workspace** (`workspace_tools.py`, `maintenance.py`) | files, snapshots, verification results | write, restore, run a check | outside work is never lost; gates see tested content |
| **Evaluation** (`evaluation.py`, `promote_evaluation`) | runs, outcomes, deployments | evaluate, promote | deployments rest on complete results that meet every gate; the engine runs what is deployed |
| **Knowledge** (`memory.py`, `experience.py`, `consolidation.py`, `revisions.py`, `evolution.py`) | knowledge, experience, revisions, genomes | distil, decay, promote, roll back | nothing is lost to rollback; promoted lessons are corroborated |
| Adapters and observers (`model_*.py`, `providers.py`, `http_transport.py`, `mcp*.py`, `mneme_bridge.py`, `tracing.py`, `operations.py`, `readiness.py`, `cli.py`) | none of the system's | I/O | outside these models |

How they interact: the worker service and the engine call the repository; the
tool executor, running inside a worker's or an engine's execution, saves
approvals, which the operator resolves through the CLI; the outcome commit
enqueues outbox intents, which dispatchers deliver; the reaper reads
delegations to decide whether a task may be run again. The workspace and publication
tools are called by a maintenance run's agents through the tool executor, and its review gates
read what they stored. The engine reads the deployments that promotions write.

The hard parts, listed with their lines under `hazards` in `PROJECT.json`, are
the processes that do not know they have lost a task, times that were read
before a transaction had to wait, crashes between two transactions, and
requests decided while somebody is about to ask. Where the state is not all in one database
(files, a Git repository, GitHub, remote agents, webhooks) an effect and its record are two steps.

## 2. Modules

| Module | Models | Notes |
| --- | --- | --- |
| `FencedWork` | what the execution plane promises | abstract: grants, withdrawals, results |
| `Scheduler` | the repository's transactions | one action per transaction, most general callers |
| `PostgresScheduler` | the same transactions statement by statement, with row locks | extends `Scheduler`, uses its rows and checks |
| `WorkerService` | the worker processes and their maintainer threads | extends `Scheduler`, restricts its callers |
| `Outbox` | messages, dispatchers, their maintainers, the receiver | time is relative, so the clock has no bound |
| `LoopEngine` | the synchronous engine, with workers beside it | every separate save is a step |
| `A2ADelegation` | one task delegated to a remote agent | workers, an engine, an operator; the remote agent is external |
| `Workspace` | files, snapshots, check results, the verification gate | file system and database share no transaction |
| `Publication` | commit, push, pull request, the publication gate | extends `Workspace`; Git and GitHub are external |
| `Promotion` | evaluation runs, gates, promotion, routing | every command is a process |
| `SeedRevisions` | experience, knowledge, revisions, rollback | every command is a process |
| `SchedulerProofs` | theorems about `Scheduler` | TLAPS; `WorkerProofs` and `PostgresProofs` extend it |
| `WorkerProofs`, `PostgresProofs`, `DelegationProofs`, `EngineProofs`, `OutboxProofs`, `PublicationProofs` | theorems about these components | TLAPS |
| `LearningProofs` | theorems about `Promotion` and `SeedRevisions` | TLAPS |
| `MC*` | instances for TLC | `MCPublication` serves `Workspace`, too |

Every model groups its definitions like the code: the rows and the checks
each transaction starts with, the transactions, the processes. Definitions
whose comment begins with *Mistake* are not part of a specification: each is a
variant of the definition after it with a bug a programmer could make, and shows
that a property notices it (`mutants` in `PROJECT.json`).

### Scheduler

`claims`, `fence`, `sessions`, `task`, `goal`, `approval` are the tables of the
same purpose. `attempts[t]` stands for the attempt, its review, its artifact
and its completion event, which one commit adds together; each records the
token it was committed under. A claim row is keyed by `claim_id`; the identity
a caller presents (worker, session, token) never changes under an id, so
presenting a claim is naming its row. The times of a finished claim are
forgotten, as nothing reads them. An exception rolls its transaction back and is an
action that is not enabled. The initial states have planned, running goals:
planning is in `LoopEngine`.

Callers are arbitrary. Any process may present any claim, any attempt number
and any time up to now, which models a time read before the transaction waited for
the lock. The reaper's time is the operator's (`--at`), so it may lie in the future.
Whatever is true of `Scheduler` is therefore true for every client.

`SchedulerImplementsFencedWork` maps `fence` to the tokens issued, the tokens of the
active claims to the outstanding grants and `attempts` to the evidence.

### WorkerService

`proc[p]` is a process generation: the foreground thread's position in
`run_once`, the time it holds (`clk`), its claim, attempt number, the outcome it
is about to commit, the performance record it has read, and the
position of the maintainer thread with its own time (`mclk`). A process registers
once, so a restart is another element of `Sessions` with the same `WorkerOf`.
`Lost`, `Raise` and `SessionRejected` are the three ways out that the code has: return
`LOST`, an exception that escapes, a rejected session. `MaintainerLoses` may always
fire, since any exception (a busy database too) ends that thread.

`Messages[t]` are the outbox messages a passing execution of `t` can return, each a sequence of idempotency
keys, and `intents` the keys commits have enqueued. A topic is part of its key, and payloads are left open: a message
whose key has a row already may agree with that row and be dropped, or differ from it, in which case
`_enqueue_outbox_locked` raises (`MayConflict`). The commit and the pause make their checks in the code's order, which decides
between `Lost` (`FindsWorkLost`) and `Raise` (`FailsAtEnd`): an exception that is raised before the goal is looked at
escapes although the goal has stopped, too. Purging a row only takes conflicts away, and is covered by the
message that agrees.

### Outbox

A row keeps the ticks left until its lease ends and until it is available again.
A transaction uses a time up to `MaxDelay` ticks old. `sent` and `received` record
the webhook calls made and those the receiver accepted; an acceptance may never be
heard of. `CompleteStale` is the `ValueError` that ends a dispatcher's `run`.

### LoopEngine

`eng[e]` is what the process has in memory: the goal as last read or changed, the
chosen task, the attempt number, the action count. Every save is its own step, with
`Crash` possible before and after. `claimed` and the actions after the operator's
reduce `Scheduler` to what an engine can see. The engine saves the artifact before the review;
artifacts are left out, since only an attempt refers to one. Selection is left open: some
agent executes the task or none is eligible (`NoAgent`).

### A2ADelegation

`rec[n]` is the delegation record of attempt number `n`, `decision[n]` the stored
policy decision, `latest` the newest record, which the reaper reads. `proc[a]` is the
position of a process in `delegate`, its copy of the record, and the answer it has
not yet applied; every save writes that copy (`Save`), whatever the row holds by then.
`Leave` ends the delegation in one of three ways, which decide what the commit
does: a result, `WorkerBlocked`, or any other exception, an answer that breaks off (`http.client.HTTPException`) among
the latter. A worker's commit is one transaction (`Commit`). The engine makes two, `SaveReview` for the attempt and
`SaveTask` for the task, and may crash in between; `torn` remembers the attempts to which that happened.
`posts`, `gets` and `remote` belong to the remote agent. `gets` is counted until a rival of the owner joins, and `torn` until a
claim has expired under a live process, since the properties that read them say nothing afterwards. Workers lose their claim to the reaper, dead or alive. An engine is recovered
when it is resumed, as in the CLI, where only the engine loads remote agents.
Reading the row and failing it in `ApplyInvalid` is one step. A rejected remote
task counts as failed. The consistency checks of a stored decision against its record
are left out: decisions are never changed and a record names the one it was made from.

### PostgresScheduler

`tx[p]` is the open transaction of a connection: the operation, the identities it was given,
how far it is in `LockOrder`, and for a reaper the claims it has collected. `held[p]` are the rows
it has locked. A statement locks the next row of the order and checks it (`Passes`, with the checks of
`Scheduler`), waits while another transaction holds it, or skips it where the code says `SKIP LOCKED`.
Unlocked reads see committed rows. Writes appear with the commit, all at once, as READ COMMITTED shows them to
others; a commit's own reading of the goal's tasks is made when the goal is locked (`Noted`). `Rollback`
may happen at any step. There is no clock: connections present any of their times.

### Workspace and Publication

`call` is the tool call in progress with its local variables; a maintainer makes one at a time. `snapshot`,
`results` and `record` are tables, `file` the checkout, `commits`, `head` and `index` the
repository, `remote` and `pulls` the branch and its requests. Every write to one of these stores is a step of
its own, with `Abort` (crash, failed command, lost answer) before and after. `Interfere` is other people's
doing: edits, staging, commits, closing the request. Digests are contents, so
collisions do not exist. Approvals of writes, checks and restores are left out, as any call may
have been approved; that of a publication is kept, since its payload is compared later.
`raced` remembers that others changed something while a call ran: every
call looks first and acts later, so what the properties say of published and accepted work leaves out
these cases. They include an edit while a check's command runs, which is attested though
it was not tested (the digest is taken afterwards, `workspace_tools.py:406`).

### Promotion

An evaluation saves one outcome after the other, then the run with the gates applied to the
results in its memory. A promotion reads run, candidate and deployment, then writes; `raced` remembers that
another promotion was written in between. The engine reads the agents, then the deployment, then
assigns. `seen` is a history: the deployments since it began. Scores are integers and an agent's profile is its model.
A candidate that raises counts zero milliseconds, as in the code, as one of its possible results.

### SeedRevisions

A process runs one command: distil a reviewed goal, retrieve (which strengthens what it reads), consolidate
with or without `--apply`, or roll a revision back. A save reads the row (`ReadPrevious`) before the transaction
that writes the row and its revision (`Write`); the payload comes from a still older read. A rollback reads,
installs and records in three steps. Strengths are dormant, ordinary or strong. `ever` is a
history of all payloads seeds have had. Only SQLite stores these tables.

## 3. Runs

Bounds are constants of the modules, named in each `.cfg`.

| Run | Instance | Shows |
| --- | --- | --- |
| `SchedulerFencing` | a chain of 2 tasks, 1 worker, 2 generations, 3 claims, 2 attempts, clock to 2 | types, exclusive ownership, fencing order, final outcomes, dependencies done, powerless superseded generations |
| `WorkerApproval` | 2 guarded tasks with retries, 2 workers, 4 claims, 1 message key which an execution may use twice, clock to 3 | bounded attempts, records that follow commits, which conflicts are the only exceptions; with fair threads a held claim is finished with |
| `PostgresRows` | 2 tasks of one goal, 2 workers, 3 connections (workers, maintenance, operator), 2 claims | `FencedWork`, evidence and goal status of the committed rows; who can deadlock |
| `OutboxDelivery` | 1 key, 2 dispatchers sharing a worker_id, 2 deliveries, 1 purge | delivered means received, bounds, row history; with fair dispatchers every message settles |
| `DelegationRecovery` | 1 task with 2 attempts, 2 reviews, 1 worker, 1 engine, 1 poll, 1 crash, 1 expired claim of a live worker or 1 cancel command | bounded and authorised requests, own results only, no message after an unknown one but for the named crash; the task ends |
| `EngineResume` | 1 engine, 2 tasks in a chain, 3 crashes, 4 actions | budget, no redone work, justified ends; with a fair operator the goal ends |
| `EngineMixed` | 2 engines, workers, 1 guarded task | attempt numbers, approved calls, untouched claims |
| `PublicationResume` | an edited and a created file, 1 check with 2 results, 1 change by others | what is published and accepted, recorded effects, resumability, outside work |
| `PromotionGates` | 3 agents, 3 runs of 2 cases (one critical), 2 promotions, 1 changed profile | justified deployments, chained champions, routing |
| `SeedHistory` | 3 records of 2 goals with one lesson, 1 knowledge id, 3 commands, 5 revisions, 2 days | nothing lost, corroborated promotion, truthful history |

The bounds are small because every property above concerns one task, or two that
share a goal, and at most two rivals: two generations and three claims are enough
for a holder, its successor and one more that reuses what the first left (`WorkerApproval` has four, so that
a process may pause, another commit and a third claim follow); two attempts distinguish a retry from the last try; a clock of two ticks
with a lease of one or two lets a lease end before, at and after each step, and a third tick in
`WorkerApproval` lets a session outlive its claim's lease and expire itself. Two keys or more
workers repeat these situations. A delegation has two attempts to tell a retry from a resumption, one poll, since
every further poll repeats the step, and one rival of the task's owner at a time. `MaxReviews` bounds the reviews that an engine's
crashes between its two saves add to the attempts: with two, the crash after the first review and a second attempt
behind it are in the instance, and the crash after the second is not. In `WorkerApproval` a
process ends with its first pause, so both guarded tasks cannot succeed: that two tasks share a key is in
the theorem `ErrorsAreConflicts` and not in the run. A publication
needs one file of each kind, a result to go stale and one to replace it, and one change by others at each possible
place; a promotion two challengers of one champion and a run between them; a rollback race
two commands beside the one rolled back. In `PostgresRows` each operation has a connection that
runs it beside each operation it can meet. For the theorems of section 5 no bound is needed.

`CHECK_DEADLOCK FALSE` is set where the system may stop: when the clock has
reached its bound and all claims are used, when all processes or commands have ended, or when the
goal is terminal. In `Outbox` time always passes, and deadlock is checked.

`GoalTransitions` and `ClaimHistoryStays` of `Scheduler` are in no run: `SchedulerProofs` proves them. Nor is
`ServiceImplementsScheduler`, which `WorkerProofs` proves: with a clock long enough for a session to expire,
checking it beside `ClaimIsSettled` doubles the time of `WorkerApproval`.

### Runs that find a violation

Each states what a document says and shows a behaviour of the code that differs.

| Run | Statement | What the code does |
| --- | --- | --- |
| `DelegationReplay` | docs/architecture.md:158, ambiguous or interrupted remote work blocks | at the deadline the cancel request is answered with an interrupted task; `advance` to failed raises `ValueError`, not an A2A error, so the attempt is retried and the work sent again |
| `WorkspaceRecovery` | docs/architecture.md:134, original content and mutation identities are durable and recoverable | a restore that ends between writing a file and saving its snapshot leaves content that the next restore takes for somebody else's; every later restore is refused |

### What the code does not exclude

None of this breaks a property above; each is a difference from a document, or worth knowing.

- *Unknown submissions and the engine.* docs/architecture.md:147 says that a submission whose outcome is unknown "is never automatically
  resent", docs/a2a.md:120 that "the runtime never resends automatically and the local goal blocks". The engine saves the attempt
  (`engine.py:362`) and the blocked task (`engine.py:368-369`) in two transactions. If it dies in between, `_recover_interrupted_tasks`
  (`engine.py:173-177`) makes the task pending without a look at its delegations, the next attempt number has no record, and a new
  message is sent. `UnknownNotResent` excludes this crash by name (`m \in torn`) and nothing else; without the exception TLC finds
  the trace `SaveUnknown`, `SaveReview`, `Crash`, `ResumeEngine`, a second `SendDelivered`. Under workers the two
  saves are one transaction, and the reaper reads the delegation.
- *Answers that break off.* `_request` does not catch `http.client.HTTPException` (`a2a.py:219`), which an answer cut short raises.
  The record then stays `submitting`, and because the exception is none of the executor's own (`a2a.py:894-913`) the attempt merely
  fails: the next one sends its own message, although the remote agent may be at work on the first. `UnknownNotResent` is about records
  that did become unknown.
- *Conflicting messages.* A commit whose outbox message meets a row of its key with another payload or limit raises `ValueError`
  (`storage.py:410-418`, called at 1336-1337), which `run_once` does not catch (`worker_service.py:401`). The process dies with its
  claim active and no review saved; once the claim is reaped the task is pending with as many attempts left as
  before, and the same work may kill one process after the other. `OnlyConflictsRaise` says that besides a request decided meanwhile nothing else does that, and that
  what an earlier attempt of the same task left never does.

- *Performance.* The record is read at review time (`memory.py:142`) and overwritten at commit time, so of
  concurrent reviews of one agent's work for one task type only one is counted (README.md:393 speaks of each). `RecordsFollowCommits` states what is kept.
- *Attempts and the engine.* A crash between the attempt's and the task's transaction (`engine.py:362`) buys a task
  one attempt more than `max_attempts` (docs/architecture.md:122); `ActionsBounded` shows that it is one for each crash, within `max_actions`.
- *Terminal goals.* The engine's `save_goal` (`storage.py:1404`) overwrites the end that a worker's commit has written
  (docs/architecture.md:61). `ClaimedTaskRuns` holds for tasks all the same.
- *Goals under PostgreSQL.* `claim_next_task` checks the goal in the query that locks the task, and does not lock
  the goal (`postgres_storage.py:985-1003`): a claim may start after the goal was paused or failed meanwhile
  (docs/scheduler.md:51). `claim_task` shares the goal before it locks the task, against the order of pauses and
  commits, and may deadlock; only the repository's self-test and conformance tests call it.
- *Late commits.* A transaction's time is read before it waits for the lock, so a commit can be accepted after its
  lease has ended; the claim is still the active one then, so nothing is stolen.
- *Outbox leases.* One failed renewal ends a maintainer for good, and the message may be taken over while the handler
  still runs; the receiver sees another token.
- *Delegation records.* A record that has ended is overwritten by whoever saves an older copy: an operator's failed
  cancel replaces a stored result, the worker's next poll a cancellation. After a cancel
  request that fails in transport the attempt is retried, while one that succeeds blocks the task.
- *The publication gate* asks for a pull request of the goal and compares no content (`maintenance.py:107`): a goal that
  writes and verifies again after publishing is accepted with a request that lacks the change. A closed request leads to another one on resumption.
- *Overlapping promotions.* Both read the deployment before either writes (`storage.py:2310-2337`), so the later one
  replaces a champion its challenger was never measured against (docs/evaluation.md:11-13). `ChampionsChain` excludes exactly the overlap.
- *Workers and deployments.* The worker service assigns agents statically and does not look at deployments (docs/architecture.md:91).
- *Seeds.* A rollback's own revision does not carry the replaced payload as its before side (`revisions.py:83-93`;
  `domain.py:1628` says both sides); `NothingLost` shows that two rollbacks of recorded revisions still reach everything. Each
  `consolidate --apply` fades a dormant record again for the same time. Copies read earlier overwrite retrievals and
  bring back records that were rolled back. Two consolidations at once may promote a lesson twice, and a promoted
  lesson that was rolled back is promoted again by the next one.

## 4. Fairness

- `WFairSpec`: a thread that can take its next step does. It is the operating
  system's scheduling; calls to workers and the database return. Nothing is assumed
  of crashes, stops, the clock, the operator or the reaper.
- `FairSpec` of `Outbox`: time passes and a running dispatcher runs; its webhook call has a
  wall-clock deadline (`http_transport.py`). Starting dispatchers is not assumed: the
  property asks for one that eventually stays up.
- `FairSpec` of `LoopEngine`: a live engine proceeds, the operator runs an
  unfinished goal again and decides pending requests. The last two are the
  operator's part in `docs/architecture.md`, not the code's; without them a goal may wait
  for ever. Crashes are bounded by `MaxCrashes`.

- `DFairSpec` of `A2ADelegation`: one condition, that as long as a process can go on, can take the pending task or is to be recovered
  (its claim reaped, its engine resumed, which are the operator's commands), some such step is taken. It is
  weaker than fairness of each process, which the bounded budgets make unnecessary. Nothing is assumed of the remote agent or the
  network: polls are counted.

The other modules are checked for safety only: whether a goal is published or evaluated is the agents' and
the operator's decision, and PostgreSQL's choice of a deadlock victim is not the code's.

## 5. Proofs

Every module of proofs is about one component and the actions of its specification. Its theorems hold for all values of the
constants allowed by the assumptions named in the component's module; TLC evaluates these in every run of a module that
extends it. Where an invariant of a run is not inductive, the module defines the stronger one that is; each of
these was checked by TLC on the run's instance before it was proved.

### `SchedulerProofs`

For every number of goals, tasks, workers, generations and claims, every topology allowed by `TopologyAssumption`,
every lease, TTL and clock bound (`DurationAssumption`). `NextIsRowStep` says first what a transaction does to the rows of
claims, tasks, tokens, attempts and goals (`RowStep`), whatever sessions and clocks made it possible. The
invariants of rows alone are proved of row steps, so `PostgresProofs` uses the same lemmas.

- `TypeCorrect`: `Spec => []TypeOK`. Step by step over the actions; the lemmas `RowTypes`,
  `ActiveRowTypes` and `FinishedType` say what a claim row can be.
- `ExclusiveOwnership`: `Spec => []RunningIffClaimed`. The invariant is
  inductive given the types: a task is running if and only if a single active claim owns it
  under its agent. Its three parts need one another: without "running means claimed" a claim
  could be created for a running task, without "claimed means running" a release could reset
  a task it does not own.
- `MonotonicFencing`: `Spec => []FencingOrder`. `IdentityKept` shows that only
  the creation of a claim changes a row's task and token, so the proof is about that one
  action: its token is one above every earlier one.
- `ClosedTasksInvariant`: a final attempt is what its task's status says. It is the
  part of the next invariant that is inductive by itself: `EndedTaskStays` (only pending and
  running tasks are written) keeps it, and `CommitEffect` establishes it.
- `FinalOutcomes`: `Spec => []FinalOutcomeIsLast`. A committing claim holds the newest token
  (`FencingOrder`), and no token is issued to a task that is not pending (`FenceChange`).
- `EvidenceIsCommitted`: `Spec => []EvidenceIffCommitted`. A new attempt carries its claim's own
  token, which by `FencingOrder` no committed claim can share, and finished rows stay
  (`TerminalStays`).
- `ImplementsFencedWork`: `Spec => SchedulerImplementsFencedWork`. Creating a claim is a grant
  (its task is pending, so by `ClosedTasks` not closed), an outcome commit settles it,
  releasing, pausing and reaping withdraw it, and everything else stutters.
- `ClaimHistory`, `GoalsMoveForward`: action properties from the types and the effect of each action on
  claims and goals (`GoalCases` sorts the actions by what they do to a goal).
- `DependenciesAreDone`: `Spec => []DependenciesDone`. Tokens are issued only where the
  dependencies have succeeded, and a succeeded task is never written.
- `GoalsReflectTasks`: `Spec => []GoalReflectsTasks`. Given the types and ownership its four parts are inductive
  together. `CommitReconciles` says what a commit does to all rows, `BecomesFinal` that only commits make a task
  succeed or fail, `EndedGoalStays` what no step undoes, and `PendingRequest` that a request is only decided
  together with its goal.
- `SupersededSessions`: `Spec => SupersededSessionIsPowerless`. A superseded claim owns nothing (`SupersededOwnsNothing`), so an
  operation that is accepted is about another claim, and by exclusive ownership about another task.

### `PostgresProofs`

For any connections (finitely many, `ConnectionAssumption`), operations, workers, tasks and claims. `PgInv` is the point: what a
transaction has checked so far is still true (`ChecksHold`) *because* it holds the rows the checks read (`LocksHeld`),
which nobody else holds (`LocksExclude`). Any other transaction that commits meanwhile writes only rows it holds itself, so it cannot
falsify a check. From `PgInv` every commit is a row step of `Scheduler`, and the theorems about rows follow:

- `PgEvidenceIsCommitted`, `PgGoalsReflectTasks`, `PgImplementsFencedWork`. The second rests on the goal being
  locked before its tasks are read (`Noted`): `q.goal = Reconciled(..)` from then on.
- `DeadlocksNeedClaimTask`: `PgSpec => []OnlyClaimTaskDeadlocks`. The tables have levels, and every operation but `claim_task` waits for a
  row of a higher level than all it holds (`WaitsAbove`). In a circle of waits without a `claim_task` the levels could never come back to where
  they were; reapers, which lock several rows of one level, do so in the order of the tasks' ranks.

### `WorkerProofs`

For any number of processes, workers and tasks (`ServiceAssumption`). `WInv` joins the types and `RunningIffClaimed` with what
a process knows: the times it holds were read
from the clock (`ClocksAreRead`), its claim is of its own session even if lost (`ClaimsAreOwn`), its maintainer lives during the
execution only (`MaintainersWork`), its outcome fits the attempts left (`OutcomesFit`), attempts are
numbered without gap and some are left while a task is open (`Numbering`), and *while its claim is active* the number it
counted is the next one (`CountIsCurrent`). The last is why fencing is needed: another process's commit would make
the count stale, and the theorem of exclusive ownership excludes it. From it follow

- `ServiceTypes`, `AttemptsAreBounded`: parts of `WInv`;
- `ServiceRefinesScheduler`: `WSpec => ServiceImplementsScheduler`; each step of a process is the action of `Scheduler` it
  calls, with arguments `Scheduler` allows, or leaves the rows alone;
- `ServiceRefinesFencedWork`: by the two refinements together, so the service needs no proof of its own;
- `ErrorsAreConflicts`: `WSpec => []OnlyConflictsRaise`, for any messages. `ClockInv` adds that the time read after the maintainer
  was joined is no older than any heartbeat of the session and any renewal of the claim (`FinalClockIsLast`). That a conflict is
  with another task follows from `IntentsFollow`: what is enqueued is of tasks that succeeded, and a task at commit is running;
- `RecordsAreOfCommits`: `WSpec => []RecordsFollowCommits`. `RecordInv` adds that the record a process has read counts no more
  than what is committed (`SeenIsCommitted`): written back plus one, it is still no more after the commit that goes with it.

### `DelegationProofs`

For any number of workers, engines, attempts, polls, crashes and rivals.

- `DelegationTypes`, `RequestsAreBounded`. `RequestsBounded` is not inductive: a process about to send must have an
  allowing decision on record (`DecidedFirst`) and a record in the repository (`RecordFirst`), and no other process may be about to send for
  the same attempt (`OneSender`), which holds because a record is only inserted where there is none. The
  poll budget needs that a process alone at work has the polls of the record in its copy and saves before
  it sends (`OneAtWork`, `PollsCounted`).
- `SuccessesAreOwn`: `DSpec => []SuccessIsOwnResult`. `ResultInv` adds that whoever knows of a completed remote task, by the record or by an
  answer not yet applied, is right, and that the owner works on the attempt that follows the reviews (`OwnNumber`).
- `UnknownStaysUnsent`: `DSpec => UnknownNotResent`. While no claim expires, an attempt becomes unknown in the hands of the owner only
  (`OwnUnknown`), and the owner then has it block the task (`UnknownBlocks`). Between the engine's two saves the block is still to come
  (`BlockPending`), which only the engine's crash can prevent (`LeavesSave`); `torn` then has the attempt. The theorem holds for every
  `MaxReviews`.

### `EngineProofs`

`EngineTypes`, `AttemptsAreNumbered`, `GuardedCallsAreApproved` and `ClaimedTasksRun` hold for any number of engines, tasks, crashes and
workers' steps beside them. The invariant `EInv` adds to the types and the numbering that
attempts are finite and what an engine's memory says still holds of the rows (`Fits`): a number counted is at most
one above the attempts saved, and a request seen approved is approved.

`ActionsAreBounded`, `EndsAreJustified` and `SucceededTasksStay` have the hypothesis `OneEngine`: one engine, no scheduler workers, any
crashes, any operator. That is the instance `EngineResume` checks, and the properties fail without it: workers' attempts are not counted by
the engine's budget, and a second engine or a worker may commit between this one's saves. `OneInv` follows the
engine through its saves: the stored goal (`GoalKept`), the rows of the tasks it has in mind (`TasksKept`), and
the budget, where a task that is not decided was tried less often than its maximum plus the crashes (`BudgetKept`).

### `OutboxProofs`

For any number of keys, dispatchers, leases and delays: `OutboxTypes`,
`DeliveredRowsWereReceived`, `DeliveriesAreBounded` and `RowsKeepHistory`. `OInv` says that tokens count a row's deliveries (`RowFits`),
that a call made is one of the deliveries of its row or of an earlier row of the key (`Handed`), and that a dispatcher at
work has such a delivery and knows of an acceptance only what the receiver saw (`DispatcherFits`). `RowMoves` lists the
ways one row can change; `DeliveriesAreBounded` then counts the calls as a subset of as many tokens as deliveries.

### `PublicationProofs`

For any paths, contents, checks and changes by others, with `Abort` anywhere. `PubInv` has three parts: the types; for the workspace (`WsInv`) that
a snapshot has content from outside only as the original, that what a write or a restore is about to replace is remembered, and that a
digest is of what the command has read; for the publication (`RecordInv`) what a record says of the checks it was prepared with
(`Prepared`), the effects it claims or a call is about to save (`Effects`), and what a call has looked at and relies on while
nobody interferes (`Looked`).

- `PubTypeCorrect`, `PublicationInvariant`: the invariant.
- `EffectsHappened`, `PublicationsAreVerified`, `AcceptancesAreVerified`, `OutsideWorkIsKept`: from it.
- `PublicationsResume`: `PubSpec => []PublicationResumable` needs two invariants of a checkout nobody else has changed: every
  file is the original or has a snapshot (`OwnFiles`), and the branch is the base with a part of the changes staged, or the good
  commit (`OwnCommits`). Whichever step a call has died after, one of these is what the next one accepts.

That `Null`, no file, is no content is an assumption (`WorkspaceAssumption`).

### `LearningProofs`

About `Promotion`, for any agents, benchmark, policy, results and number of commands, and about `SeedRevisions`, for any records, lessons, policy
and number of commands (the two share no state; one module holds both proofs).

- `DeploymentsAreJustified`: `Spec => []DeploymentJustified`. The gates first: a run that fails none of them is better in each sense the property
  names. For the percentile that is an argument about ranks (`LargestValue`), for the mean about points counted. Then `PromotionInv`: a
  stored run is complete and its command over (`Recorded`), so what a promotion has read of it stays true.
- `ChampionsAreChained`: what a promotion compared holds until it writes, unless another one wrote (`ChampionRead`).
- `TasksAreRouted`: the deployment is among those seen since the engine listed the agents.
- `SeedInvariant`: `SeedSpec => []SeedInv`. Each payload a seed had is a side of a revision that can be rolled back (`EverRecorded`); rows, sides of
  revisions, saves to be made and copies that were read are payloads their seeds may have (`Sound`), which for knowledge means
  that enough goals have taught its lesson; a consolidation has saved a goal's records before it gathers their lessons (`Covers`); and a
  process knows of any change to the row it has read (`SeedFits`). What `ever` and the history have is never lost, so what is true of
  an older read stays true (`FitsStay`, `FitsNoticed`).
- `RollbacksReachEverything`, `PromotionsAreCorroborated`, `HistoryIsTruthful`: from it; the first by cases of which side is live.

### Not proved

All liveness (`ClaimIsSettled`, `MessagesSettle`, `TaskEnds`, `GoalEnds`) is out of the prover's reach and is checked by TLC. The two
statements that the code does not keep have counterexamples instead. Everything else a run checks is a theorem.

## 6. Plan

1. The row locks of the PostgreSQL outbox, with the lemmas of `PostgresProofs` about locked rows; rollback of knowledge added by hand.
2. An abstract specification of publication and of delegation (what is asked of others, once) and the refinements.
3. The properties of one engine beside workers, weakened to what their budget leaves.

## 7. Not modelled

- Text, scoring and similarity (`selection.py`, `evolution.py`, `predicates.py`, the similarity in `consolidation.py`): floating
  point weights without state another component relies on.
- HTTP and stdio transports, MCP, model providers and adapters (`http_transport.py`, `mcp*.py`, `providers.py`, `model_*.py`): I/O;
  where a lost or late answer matters it is in the models of their callers.
- `mneme_bridge.py`, `tracing.py`, `operations.py`, `readiness.py`, parsing and printing in `cli.py`: copies, observation, and
  commands that appear as the environment of the models.
- `a2a_reliability.py`: a scripted self-test of the delegation executor.
- Agent cards, attestations and policy documents (`a2a_governance.py`): pure functions over parsed documents; the models take
  either verdict.
- The outbox tables of `postgres_storage.py` at the level of row locks. `commit_claim_outcome` inserts or locks outbox rows between its
  performance record and its goal (`postgres_storage.py:1296-1297`, `_enqueue_outbox_locked` at 311-345), in the order of the execution's messages. Two commits
  that enqueue the same two keys in opposite orders can deadlock on them, and `OnlyClaimTaskDeadlocks` does not speak of
  these rows; PostgreSQL aborts one of the two, and its process dies of the error.
