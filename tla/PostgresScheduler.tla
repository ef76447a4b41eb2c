-------------------------- MODULE PostgresScheduler --------------------------
(***************************************************************************)
(* The execution plane on PostgreSQL (postgres_storage.py).  The rows and  *)
(* the promises are those of Scheduler.tla; what differs is isolation.     *)
(* SQLite runs every operation under one database lock.  Here an operation *)
(* is a READ COMMITTED transaction of several statements: it locks one row *)
(* after the other, checks what it has locked, reads other rows without a  *)
(* lock, and its writes appear when it commits, with all its locks         *)
(* released.  In between, the transactions of other connections run, wait  *)
(* for its rows, or skip them.                                             *)
(*                                                                         *)
(* A transaction may roll back at any moment: an exception, a lost         *)
(* connection, a crash, or the database choosing it as deadlock victim.    *)
(*                                                                         *)
(* There is no clock: callers present any time, however old, so the clock  *)
(* of Scheduler.tla adds nothing to what they can do.                      *)
(***************************************************************************)
EXTENDS Scheduler, Sequences

CONSTANTS
    Conns,          \* database connections, each running one transaction
    OpsOf,          \* the operations a connection is used for
    WorkersOf,      \* the workers whose identities it presents
    TimesOf,        \* the times its callers present
    Guarded,        \* the tasks whose worker calls a guarded tool
    Results         \* the outcomes workers come to

Ops == {"register", "heartbeat", "claimTask", "claimNext", "renew", "release",
        "pause", "commit", "saveApproval", "resolve", "reap"}

ASSUME ConnectionAssumption ==
    /\ IsFiniteSet(Conns)
    /\ OpsOf \in [Conns -> SUBSET Ops]
    /\ WorkersOf \in [Conns -> SUBSET Workers]
    /\ TimesOf \in [Conns -> SUBSET Times]
    /\ Guarded \subseteq Tasks
    /\ Results \subseteq Outcomes

VARIABLES
    tx,             \* the open transaction of a connection
    held            \* the rows it has locked

pgVars == <<vars, tx, held>>

\* An open transaction: its arguments, the position in its lock order, and
\* what it has read for later: the claims to reap, the goal's next status.
NoTx == [op |-> "none", worker |-> Null, session |-> Null, claim |-> Null,
         task |-> Null, agent |-> Null, no |-> 0, result |-> Null, at |-> 0,
         pos |-> 1, reaped |-> {}, goal |-> Null]

Open(p) == tx[p].op # "none"

-----------------------------------------------------------------------------
(* Row locks.                                                              *)

\* Mistake: a renewal locks its claim before the session.
ClaimBeforeSession == <<"claim", "session">>

\* renew_claim.
RenewalOrder == <<"session", "claim">>

\* The order in which the statements of an operation lock rows.
LockOrder ==
    [register     |-> <<"session">>,
     heartbeat    |-> <<"session">>,
     claimTask    |-> <<"session", "goal", "task">>,
     claimNext    |-> <<"session", "task">>,
     renew        |-> RenewalOrder,
     release      |-> <<"session", "claim", "task">>,
     pause        |-> <<"session", "claim", "approval", "task", "goal">>,
     commit       |-> <<"session", "claim", "task", "performance", "goal">>,
     saveApproval |-> <<"approval">>,
     resolve      |-> <<"approval", "goal">>,
     reap         |-> <<"claim", "task">>]

AllLocked(p) == tx[p].pos > Len(LockOrder[tx[p].op])
NextKind(p) == LockOrder[tx[p].op][tx[p].pos]

\* The claim's tasks a reaper has still to lock, in (goal, task) order.
ToReap(p) == {t \in {claims[c].task : c \in tx[p].reaped} :
                 <<"task", t>> \notin held[p]}
FirstToReap(p) == CHOOSE t \in ToReap(p) : \A u \in ToReap(p) : Rank[t] <= Rank[u]

\* The row of a kind that a request is about.
RowOf(q, kind) ==
    CASE kind = "session"     -> <<kind, q.worker>>
      [] kind = "claim"       -> <<kind, q.claim>>
      [] kind = "performance" -> <<kind, <<q.agent, TypeOf[q.task]>>>>
      [] kind = "goal"        -> <<kind, GoalOf[q.task]>>
      [] OTHER                -> <<kind, q.task>>

NextRow(p) ==
    IF tx[p].op = "reap" THEN <<"task", FirstToReap(p)>>
    ELSE RowOf(tx[p], NextKind(p))

\* FOR SHARE is used by claim_task for the goal; every other lock is FOR
\* UPDATE or that of an UPDATE or upsert.
Shares(op, row) == op = "claimTask" /\ row[1] = "goal"

Conflict(op, row, q) ==
    /\ row \in held[q]
    /\ ~ (Shares(op, row) /\ Shares(tx[q].op, row))

\* Mistakes: goals, or claims, are read without FOR UPDATE.
FreeIgnoringGoals(p, op, row) ==
    row[1] = "goal" \/ \A q \in Conns \ {p} : ~ Conflict(op, row, q)

FreeIgnoringClaims(p, op, row) ==
    row[1] = "claim" \/ \A q \in Conns \ {p} : ~ Conflict(op, row, q)

Free(p, op, row) == \A q \in Conns \ {p} : ~ Conflict(op, row, q)

\* The next statement of p needs a row q has locked.  claim_next_task skips
\* locked rows and never waits for a task.
Waits(p, q) ==
    /\ p # q /\ Open(p) /\ ~ AllLocked(p)
    /\ ~ (tx[p].op = "claimNext" /\ NextKind(p) = "task")
    /\ tx[p].op = "reap" => ToReap(p) # {}
    /\ Conflict(tx[p].op, NextRow(p), q)

-----------------------------------------------------------------------------
(* What a statement checks on the row it has locked, and on rows it reads  *)
(* without a lock.                                                         *)

\* _require_worker_locked; register_worker is an unconditional upsert.
SessionOK(q) ==
    CASE q.op = "register"  -> TRUE
      [] q.op = "heartbeat" -> MayHeartbeat(q.worker, q.session, q.at)
      [] OTHER              -> RequireSession(q.worker, q.session, q.at)

\* _require_claim_locked; TaskClaim.renew and TaskClaim.finish check the time.
ClaimOK(q) ==
    /\ RequireClaim(q.claim, q.at)
    /\ q.op = "renew" => q.at >= RenewedAt(q.claim)
    /\ q.op # "renew" => q.at >= claims[q.claim].acquired

\* pause_claim_for_approval, save_approval, save_approval_resolution.
ApprovalOK(q) ==
    CASE q.op = "pause"        -> approval[q.task] \in {"none", "pending"}
      [] q.op = "saveApproval" -> approval[q.task] = "none"
      [] q.op = "resolve"      -> approval[q.task] = "pending"

\* Mistake: claim_task does not check the status of the row it has locked.
TaskOKUnchecked(q) ==
    CASE q.op = "claimTask" ->
            /\ \A d \in Deps[q.task] : task[d].status = "succeeded"
            /\ ~ HasActiveClaim(q.task)
      [] q.op = "commit" ->
            /\ OwnsRunningTask(q.claim)
            /\ IsNewAttempt(q.task, q.no)
      [] OTHER -> TRUE

\* claim_task, which has locked the goal already; commit_claim_outcome, where
\* the unique index on attempts takes part.
TaskOK(q) ==
    CASE q.op = "claimTask" ->
            /\ task[q.task].status = "pending"
            /\ \A d \in Deps[q.task] : task[d].status = "succeeded"
            /\ ~ HasActiveClaim(q.task)
      [] q.op = "commit" ->
            /\ OwnsRunningTask(q.claim)
            /\ IsNewAttempt(q.task, q.no)
      [] OTHER -> TRUE

\* claim_task, pause_claim_for_approval (which checks the task only here),
\* _reconcile_goal_locked and save_approval_resolution.
GoalOK(q) ==
    LET status == goal[GoalOf[q.task]] IN
    CASE q.op = "resolve" -> status = "paused"
      [] q.op = "pause"   -> status = "running" /\ OwnsRunningTask(q.claim)
      [] OTHER            -> status = "running"

Passes(q, kind) ==
    CASE kind = "session"  -> SessionOK(q)
      [] kind = "claim"    -> ClaimOK(q)
      [] kind = "approval" -> ApprovalOK(q)
      [] kind = "task"     -> TaskOK(q)
      [] kind = "goal"     -> GoalOK(q)
      [] OTHER             -> TRUE

\* _reconcile_goal_locked reads the goal's tasks once it holds the goal.
Noted(q, kind) ==
    IF q.op = "commit" /\ kind = "goal"
    THEN [q EXCEPT !.goal = Reconciled(q.task, q.result)]
    ELSE q

-----------------------------------------------------------------------------
(* Transactions.                                                           *)

\* The connection sends its first statement: BEGIN, the first lock and its
\* check.  A request that fails there changes nothing.
Begin(p, q) ==
    LET kind == LockOrder[q.op][1]
        row == RowOf(q, kind)
    IN
    /\ ~ Open(p)
    /\ Free(p, q.op, row)
    /\ Passes(q, kind)
    /\ tx' = [tx EXCEPT ![p] = [q EXCEPT !.pos = 2]]
    /\ held' = [held EXCEPT ![p] = {row}]
    /\ UNCHANGED vars

\* Requests a connection can make: a session and its claims are presented by
\* the process that was given them, however long ago.
BeginSession(p, w, s, at) ==
    \E op \in OpsOf[p] \cap {"register", "heartbeat", "claimNext"} :
       Begin(p, [NoTx EXCEPT !.op = op, !.worker = w, !.session = s, !.at = at])

BeginClaimTask(p, w, s, t, at) ==
    /\ "claimTask" \in OpsOf[p]
    /\ Assignments[w][TypeOf[t]] # Null
    /\ Begin(p, [NoTx EXCEPT !.op = "claimTask", !.worker = w, !.session = s,
                  !.task = t, !.agent = Assignments[w][TypeOf[t]], !.at = at])

BeginOwned(p, c, at) ==
    LET q == [NoTx EXCEPT !.worker = claims[c].worker,
                  !.session = claims[c].session, !.claim = c,
                  !.task = claims[c].task, !.agent = claims[c].agent,
                  !.at = at]
    IN
    /\ claims[c].status # "none"
    /\ claims[c].worker \in WorkersOf[p]
    /\ \/ \E op \in OpsOf[p] \cap {"renew", "release"} :
             Begin(p, [q EXCEPT !.op = op])
       \/ /\ "pause" \in OpsOf[p]
          /\ claims[c].task \in Guarded
          /\ Begin(p, [q EXCEPT !.op = "pause"])
       \/ /\ "commit" \in OpsOf[p]
          /\ \E no \in 1 .. MaxAttempts, r \in Results :
                Begin(p, [q EXCEPT !.op = "commit", !.no = no, !.result = r])

BeginApproval(p, t) ==
    \/ /\ "saveApproval" \in OpsOf[p]
       /\ t \in Guarded /\ fence[t] > 0
       /\ Begin(p, [NoTx EXCEPT !.op = "saveApproval", !.task = t])
    \/ /\ "resolve" \in OpsOf[p]
       /\ \E d \in {"approved", "rejected"} :
             Begin(p, [NoTx EXCEPT !.op = "resolve", !.task = t, !.result = d])

\* reap_expired_claims: FOR UPDATE SKIP LOCKED takes the expired claims that
\* no other transaction has locked.
BeginReap(p, at) ==
    LET reaped == {c \in ExpiredClaims(at) : Free(p, "reap", <<"claim", c>>)} IN
    /\ "reap" \in OpsOf[p]
    /\ ~ Open(p)
    /\ reaped # {}
    /\ tx' = [tx EXCEPT ![p] = [NoTx EXCEPT !.op = "reap", !.at = at,
                                   !.reaped = reaped, !.pos = 2]]
    /\ held' = [held EXCEPT ![p] = {<<"claim", c>> : c \in reaped}]
    /\ UNCHANGED vars

\* A later statement waits for its row, locks it and checks.  One that finds
\* its check failed raises, which is a Rollback.
Lock(p) ==
    LET q == tx[p]
        kind == NextKind(p)
        row == RowOf(q, kind)
    IN
    /\ Open(p) /\ ~ AllLocked(p)
    /\ q.op # "reap" /\ ~ (q.op = "claimNext" /\ kind = "task")
    /\ Free(p, q.op, row)
    /\ Passes(q, kind)
    /\ tx' = [tx EXCEPT ![p] = [Noted(q, kind) EXCEPT !.pos = @ + 1]]
    /\ held' = [held EXCEPT ![p] = @ \cup {row}]
    /\ UNCHANGED vars

\* Ready tasks of an assigned type whose row can be locked at once.
UnlockedCandidates(p) ==
    {t \in Candidates(tx[p].worker) : Free(p, "claimNext", <<"task", t>>)}

\* claim_next_task: FOR UPDATE OF t SKIP LOCKED LIMIT 1.  The goal is joined,
\* not locked.
LockNextTask(p) ==
    LET w == tx[p].worker IN
    /\ tx[p].op = "claimNext" /\ ~ AllLocked(p)
    /\ \E t \in UnlockedCandidates(p) :
          /\ \A u \in UnlockedCandidates(p) : Rank[t] <= Rank[u]
          /\ tx' = [tx EXCEPT ![p].task = t,
                             ![p].agent = Assignments[w][TypeOf[t]],
                             ![p].pos = @ + 1]
          /\ held' = [held EXCEPT ![p] = @ \cup {<<"task", t>>}]
    /\ UNCHANGED vars

\* reap_expired_claims locks the tasks of its claims one after the other.
LockReaped(p) ==
    /\ tx[p].op = "reap" /\ ~ AllLocked(p)
    /\ IF ToReap(p) = {}
       THEN tx' = [tx EXCEPT ![p].pos = @ + 1] /\ UNCHANGED held
       ELSE /\ Free(p, "reap", NextRow(p))
            /\ held' = [held EXCEPT ![p] = @ \cup {NextRow(p)}]
            /\ UNCHANGED tx
    /\ UNCHANGED vars

-----------------------------------------------------------------------------
(* What a transaction writes, all at once when it commits.                 *)

\* register_worker, heartbeat_worker.
WriteSession(q) ==
    /\ q.op \in {"register", "heartbeat"}
    /\ sessions' = [sessions EXCEPT ![q.worker] =
                        [session |-> q.session, expires |-> q.at + TTL]]
    /\ UNCHANGED <<goal, task, claims, fence, attempts, approval>>

\* _create_claim_locked; the unique index on active claims takes part.
WriteClaim(q) ==
    /\ q.op \in {"claimTask", "claimNext"}
    /\ ~ HasActiveClaim(q.task)
    /\ \E c \in ClaimIds :
          /\ claims[c].status = "none"
          /\ claims' = [claims EXCEPT ![c] =
                [status |-> "active", task |-> q.task, worker |-> q.worker,
                 session |-> q.session, agent |-> q.agent,
                 token |-> fence[q.task] + 1,
                 acquired |-> q.at, expires |-> q.at + Lease]]
    /\ fence' = [fence EXCEPT ![q.task] = @ + 1]
    /\ task' = [task EXCEPT ![q.task] = [status |-> "running", agent |-> q.agent]]
    /\ UNCHANGED <<goal, sessions, attempts, approval>>

\* renew_claim.
WriteRenewal(q) ==
    /\ q.op = "renew"
    /\ claims' = [claims EXCEPT ![q.claim].expires = q.at + Lease]
    /\ UNCHANGED <<goal, task, sessions, fence, attempts, approval>>

\* release_claim.
WriteRelease(q) ==
    /\ q.op = "release"
    /\ claims' = [claims EXCEPT ![q.claim] = Finished(q.claim, "released")]
    /\ task' = [task EXCEPT ![q.task] = ResetRunning(q.task)]
    /\ UNCHANGED <<goal, sessions, fence, attempts, approval>>

\* pause_claim_for_approval.
WritePause(q) ==
    /\ q.op = "pause"
    /\ approval' = [approval EXCEPT ![q.task] = "pending"]
    /\ claims' = [claims EXCEPT ![q.claim] = Finished(q.claim, "released")]
    /\ task' = [task EXCEPT ![q.task] = [status |-> "pending", agent |-> Null]]
    /\ goal' = [goal EXCEPT ![GoalOf[q.task]] = "paused"]
    /\ UNCHANGED <<sessions, fence, attempts>>

\* commit_claim_outcome and the target _reconcile_goal_locked has chosen.
WriteOutcome(q) ==
    /\ q.op = "commit"
    /\ attempts' = [attempts EXCEPT ![q.task] = @ \cup
                       {[no |-> q.no, agent |-> q.agent,
                         token |-> claims[q.claim].token, result |-> q.result]}]
    /\ task' = [task EXCEPT ![q.task] =
                   [status |-> q.result,
                    agent |-> IF q.result = "pending" THEN Null ELSE q.agent]]
    /\ goal' = [goal EXCEPT ![GoalOf[q.task]] = q.goal]
    /\ claims' = [claims EXCEPT ![q.claim] = Finished(q.claim, "committed")]
    /\ UNCHANGED <<sessions, fence, approval>>

\* save_approval inserts a pending request; save_approval_resolution stores a
\* decision and the goal that follows from it.
WriteApproval(q) ==
    /\ \/ /\ q.op = "saveApproval"
          /\ approval' = [approval EXCEPT ![q.task] = "pending"]
          /\ UNCHANGED goal
       \/ /\ q.op = "resolve"
          /\ approval' = [approval EXCEPT ![q.task] = q.result]
          /\ goal' = [goal EXCEPT ![GoalOf[q.task]] =
                         IF q.result = "approved" THEN "running" ELSE "failed"]
    /\ UNCHANGED <<task, sessions, claims, fence, attempts>>

\* reap_expired_claims: no delegation is consulted.
WriteReaped(q) ==
    LET reaped == {claims[c].task : c \in q.reaped} IN
    /\ q.op = "reap"
    /\ claims' = [c \in ClaimIds |->
                     IF c \in q.reaped THEN Finished(c, "expired") ELSE claims[c]]
    /\ task' = [t \in Tasks |->
                   IF t \in reaped THEN ResetRunning(t) ELSE task[t]]
    /\ UNCHANGED <<goal, sessions, fence, attempts, approval>>

Close(p) ==
    /\ tx' = [tx EXCEPT ![p] = NoTx]
    /\ held' = [held EXCEPT ![p] = {}]

Commit(p) ==
    LET q == tx[p] IN
    /\ Open(p) /\ AllLocked(p)
    /\ \/ WriteSession(q)
       \/ WriteClaim(q)
       \/ WriteRenewal(q)
       \/ WriteRelease(q)
       \/ WritePause(q)
       \/ WriteOutcome(q)
       \/ WriteApproval(q)
       \/ WriteReaped(q)
    /\ Close(p)
    /\ UNCHANGED <<now, delegation>>

Rollback(p) ==
    /\ Open(p)
    /\ Close(p)
    /\ UNCHANGED vars

-----------------------------------------------------------------------------

PgInit ==
    /\ Init
    /\ tx = [p \in Conns |-> NoTx]
    /\ held = [p \in Conns |-> {}]

PgNext ==
    \E p \in Conns :
       \/ \E at \in TimesOf[p] :
             \/ \E w \in WorkersOf[p], s \in Sessions :
                   \/ BeginSession(p, w, s, at)
                   \/ \E t \in Tasks : BeginClaimTask(p, w, s, t, at)
             \/ \E c \in ClaimIds : BeginOwned(p, c, at)
             \/ BeginReap(p, at)
       \/ \E t \in Tasks : BeginApproval(p, t)
       \/ Lock(p)
       \/ LockNextTask(p)
       \/ LockReaped(p)
       \/ Commit(p)
       \/ Rollback(p)

PgSpec == PgInit /\ [][PgNext]_pgVars

-----------------------------------------------------------------------------
(* Properties.  EvidenceIffCommitted, GoalReflectsTasks and                *)
(* SchedulerImplementsFencedWork of Scheduler.tla are checked here, of the *)
(* committed rows.                                                         *)

\* The operations of the worker service, the operator and the reaper lock
\* rows in one order: whenever transactions wait for each other in a circle,
\* a claim_task, which locks the goal before the task, takes part in it.
OnlyClaimTaskDeadlocks ==
    \A D \in SUBSET Conns :
       D # {} /\ (\A p \in D : \E q \in D : Waits(p, q)) =>
          \E p \in D : tx[p].op = "claimTask"

=============================================================================
