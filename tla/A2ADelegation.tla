---------------------------- MODULE A2ADelegation ----------------------------
(***************************************************************************)
(* One task delegated to a remote agent (a2a.py).  The worker that runs it *)
(* keeps a durable record per attempt number, sends one message, polls the *)
(* remote task and at last cancels it; every save and every request is a   *)
(* step of its own.  A successor that finds a record resumes from it.  The *)
(* task is run by scheduler workers, whose claims the reaper expires after *)
(* reading the delegation (storage.py), or by the synchronous engine, which*)
(* saves an attempt's outcome and the task in two transactions and recovers*)
(* a running task without reading its delegation.  An operator cancels from*)
(* another process, on a copy of the record of his own.                    *)
(*                                                                         *)
(* The remote agent is external: a message that arrives starts a task in   *)
(* any state, and answers may be lost, malformed or refused.               *)
(***************************************************************************)
EXTENDS Integers, FiniteSets

CONSTANTS
    Workers,        \* scheduler worker processes
    Engines,        \* synchronous engine processes
    Operator,       \* the operator's a2a cancel command
    Null,
    MaxAttempts,    \* Task.max_attempts
    MaxPolls,       \* A2ALimits.max_polls
    MaxReviews,     \* bound: reviews of the task, which exceed its attempts by
                    \* those of engines that crashed between their two saves
    MaxCrashes,     \* bound: crashes of processes
    MaxRivals       \* bound: claims that expire under a live process, and
                    \* cancel commands, together

ASSUME DelegationAssumption ==
    /\ Workers \cap Engines = {}
    /\ Operator \notin Workers \cup Engines
    /\ Null \notin Workers \cup Engines
    /\ MaxAttempts \in Nat \ {0} /\ MaxPolls \in Nat \ {0}
    /\ MaxReviews \in Nat /\ MaxReviews >= MaxAttempts
    /\ MaxCrashes \in Nat /\ MaxRivals \in Nat

VARIABLES
    task,           \* the task's status
    owner,          \* the process that runs it: claim or assigned engine
    reviews,        \* the number of reviews of the task
    decision,       \* the stored policy decision of an attempt number
    rec,            \* the delegation record of an attempt number
    latest,         \* the attempt number of the newest record
    proc,           \* the processes and the operator's command
    remote,         \* the remote task of an attempt's message (external)
    posts,          \* messages of an attempt that reached the remote (external)
    gets,           \* polls of an attempt that were sent, until a rival takes
                    \* part: history
    crashes, stalls, cancels,
    torn            \* the attempts whose outcome an engine saved and crashed
                    \* before it saved the task, until a claim expires: history

repo == <<task, owner, reviews, decision, rec, latest>>
net == <<remote, posts, gets>>
counts == <<crashes, stalls, cancels, torn>>
dvars == <<repo, proc, net, counts>>

Procs == Workers \cup Engines
Actors == Procs \cup {Operator}

\* A process whose claim has expired may count after the last review.
Nos == 1 .. MaxReviews + 1

\* "failed" stands for a rejected remote task as well.
RemoteStates == {"working", "interrupted", "completed", "failed", "canceled"}
Replies == RemoteStates \cup {"invalid", "error", "none"}

Open == {"prepared", "submitting", "accepted"}
Closed == {"completed", "failed", "canceled", "unknown"}
Statuses == Open \cup {"interrupted"} \cup Closed

Record == [status : Statuses \cup {"none"}, polls : 0 .. MaxPolls]
NoRecord == [status |-> "none", polls |-> 0]

\* DelegationRecord.advance: the successors of each status.
Transitions == [s \in Statuses \cup {"none"} |->
    CASE s = "prepared" -> {"submitting"}
      [] s = "submitting" -> {"accepted", "completed", "failed", "interrupted", "unknown"}
      [] s = "accepted" -> {"accepted", "completed", "failed", "canceled", "interrupted"}
      [] s = "interrupted" -> {"canceled"}
      [] OTHER -> {}]

Steps == {"idle", "count", "lookup", "decide", "record", "prepare", "submit",
          "send", "doubt", "refused", "apply", "poll", "get", "cancel",
          "applycancel", "giveup", "commit", "save", "crashed"}

Process == [pc : Steps, no : {0} \cup Nos, copy : Record,
            verdict : {"none", "allow", "deny"}, reply : Replies,
            out : {"none", "ok", "blocked", "error"}]

Idle == [pc |-> "idle", no |-> 0, copy |-> NoRecord, verdict |-> "none",
         reply |-> "none", out |-> "none"]
Crashed == [Idle EXCEPT !.pc = "crashed"]

DTypeOK ==
    /\ task \in {"pending", "running", "succeeded", "failed", "blocked"}
    /\ owner \in Procs \cup {Null}
    /\ reviews \in 0 .. MaxReviews
    /\ decision \in [Nos -> {"none", "allow", "deny"}]
    /\ rec \in [Nos -> Record]
    /\ latest \in {0} \cup Nos
    /\ proc \in [Actors -> Process]
    /\ remote \in [Nos -> RemoteStates \cup {"none"}]
    /\ posts \in [Nos -> Nat] /\ gets \in [Nos -> Nat]
    /\ crashes \in 0 .. MaxCrashes /\ stalls \in Nat /\ cancels \in Nat
    /\ stalls + cancels <= MaxRivals
    /\ torn \subseteq Nos

DInit ==
    /\ task = "pending" /\ owner = Null /\ reviews = 0 /\ latest = 0
    /\ decision = [n \in Nos |-> "none"]
    /\ rec = [n \in Nos |-> NoRecord]
    /\ proc = [a \in Actors |-> Idle]
    /\ remote = [n \in Nos |-> "none"]
    /\ posts = [n \in Nos |-> 0] /\ gets = [n \in Nos |-> 0]
    /\ crashes = 0 /\ stalls = 0 /\ cancels = 0 /\ torn = {}

-----------------------------------------------------------------------------

At(a, pc) == proc[a].pc = pc
No(a) == proc[a].no
Copy(a) == proc[a].copy

\* No other process works on the delegation than the task's owner.
Alone == stalls = 0 /\ cancels = 0

Goto(a, pc) == proc' = [proc EXCEPT ![a].pc = pc]

\* The delegation ends: the worker's result goes to the commit, the operator's
\* command returns or fails.
Leave(a, out) ==
    proc' = [proc EXCEPT ![a] = IF a = Operator THEN Idle
                                ELSE [Idle EXCEPT !.pc = "commit", !.out = out]]

\* save_delegation: an unconditional upsert of the caller's copy.
Save(a, status) == rec' = [rec EXCEPT ![No(a)] = [Copy(a) EXCEPT !.status = status]]

\* copy := copy.advance(status), saved, and on to pc.
Advance(a, status, pc) ==
    /\ Save(a, status)
    /\ proc' = [proc EXCEPT ![a].pc = pc, ![a].copy.status = status, ![a].reply = "none"]

-----------------------------------------------------------------------------
(* The attempt begins: claim_next_task or save_task, then execute.          *)

Start(p) ==
    /\ At(p, "idle") /\ task = "pending"
    /\ task' = "running" /\ owner' = p
    /\ Goto(p, "count")
    /\ UNCHANGED <<reviews, decision, rec, latest, net, counts>>

CountReviews(p) ==
    /\ At(p, "count")
    /\ proc' = [proc EXCEPT ![p].pc = "lookup", ![p].no = reviews + 1]
    /\ UNCHANGED <<repo, net, counts>>

\* Mistake: the newest delegation of the task, whatever its attempt.
FoundNewest(p) == IF latest = 0 THEN NoRecord ELSE rec[latest]

\* get_attempt_delegation
Found(p) == rec[No(p)]

\* A predecessor was interrupted between its save and the answer's.
InDoubt(p) == Found(p).status = "submitting"

\* _resume an attempt that has a record.
LookUp(p) ==
    /\ At(p, "lookup")
    /\ \/ Found(p).status = "none" /\ Goto(p, "decide")
       \/ Found(p).status = "completed" /\ Leave(p, "ok")
       \/ /\ InDoubt(p)
          /\ proc' = [proc EXCEPT ![p].pc = "doubt", ![p].copy = Found(p)]
       \/ /\ Found(p).status = "accepted"
          /\ proc' = [proc EXCEPT ![p].pc = "poll", ![p].copy = Found(p)]
       \/ /\ Found(p).status \in {"prepared", "interrupted", "failed", "canceled", "unknown"}
          /\ Leave(p, "blocked")
    /\ UNCHANGED <<repo, net, counts>>

\* PolicyEvaluator.decide reuses the stored decision or evaluates the policies
\* and attestations of the moment.
Decide(p) ==
    /\ At(p, "decide")
    /\ \/ decision[No(p)] = "allow" /\ Goto(p, "prepare")
       \/ decision[No(p)] = "deny" /\ Leave(p, "blocked")
       \/ /\ decision[No(p)] = "none"
          /\ \E v \in {"allow", "deny"} :
                proc' = [proc EXCEPT ![p].pc = "record", ![p].verdict = v]
    /\ UNCHANGED <<repo, net, counts>>

Allowed(p) == proc' = [proc EXCEPT ![p].pc = "prepare", ![p].verdict = "none"]

\* The UNIQUE constraint on an attempt's decision.
Undecided(p) == decision[No(p)] = "none"

\* save_policy_decision: of two evaluations of an attempt the second insert
\* raises ValueError.  PolicyDenied follows a stored denial.
RecordDecision(p) ==
    /\ At(p, "record")
    /\ \/ ~ Undecided(p) /\ Leave(p, "error") /\ UNCHANGED decision
       \/ /\ Undecided(p)
          /\ decision' = [decision EXCEPT ![No(p)] = proc[p].verdict]
          /\ IF proc[p].verdict = "allow" THEN Allowed(p) ELSE Leave(p, "blocked")
    /\ UNCHANGED <<task, owner, reviews, rec, latest, net, counts>>

\* Mistake: the record of the attempt is replaced.
AnyRecord(p) == TRUE

\* The UNIQUE constraint on an attempt's record.
Unrecorded(p) == rec[No(p)].status = "none"

\* A payload above the limit is refused.  The record is inserted under a fresh
\* identity; a second insert for the attempt raises ValueError.
Prepare(p) ==
    /\ At(p, "prepare")
    /\ \/ Leave(p, "blocked") /\ UNCHANGED <<rec, latest>>
       \/ ~ Unrecorded(p) /\ Leave(p, "error") /\ UNCHANGED <<rec, latest>>
       \/ /\ Unrecorded(p)
          /\ rec' = [rec EXCEPT ![No(p)] = [status |-> "prepared", polls |-> 0]]
          /\ latest' = No(p)
          /\ proc' = [proc EXCEPT ![p].pc = "submit", ![p].copy.status = "prepared"]
    /\ UNCHANGED <<task, owner, reviews, decision, net, counts>>

Submit(p) ==
    /\ At(p, "submit")
    /\ Advance(p, "submitting", "send")
    /\ UNCHANGED <<task, owner, reviews, decision, latest, net, counts>>

-----------------------------------------------------------------------------
(* Send Message.                                                            *)

Answered(p, r) == proc' = [proc EXCEPT ![p].pc = "apply", ![p].reply = r]

\* The message arrives.  The answer comes, with the state of the remote task or
\* without a usable one, or its loss, a 5xx or a malformed body leave doubt; an
\* answer that breaks off in the middle raises an exception nobody expects, and
\* the attempt merely fails.  What the remote task has become in secret is
\* decided when it is next asked.
SendDelivered(p) ==
    /\ At(p, "send")
    /\ posts' = [posts EXCEPT ![No(p)] = @ + 1]
    /\ \E s \in RemoteStates :
          /\ remote' = [remote EXCEPT ![No(p)] = s]
          /\ \/ Answered(p, s)
             \/ /\ s = "working"
                /\ \/ Answered(p, "invalid")
                   \/ Goto(p, "doubt")
                   \/ Leave(p, "error")
    /\ UNCHANGED <<repo, gets, counts>>

\* The message does not arrive: the connection fails, which leaves doubt, the
\* remote refuses it (4xx, redirect), the request with its tenant is too large
\* for the client, or what answers does not speak HTTP; the last two leave the
\* record as it is.
SendUndelivered(p) ==
    /\ At(p, "send")
    /\ \/ Goto(p, "doubt")
       \/ Goto(p, "refused")
       \/ Leave(p, "blocked")
       \/ Leave(p, "error")
    /\ UNCHANGED <<repo, net, counts>>

\* Mistake: A2ARemoteWorker lets A2AAmbiguousSubmission pass.
AfterDoubtRetry == "error"

\* A2ARemoteWorker raises WorkerBlocked for it.
AfterDoubt == "blocked"

\* A2AAmbiguousSubmission, or a submission found interrupted by _resume.
SaveUnknown(p) ==
    /\ At(p, "doubt")
    /\ Save(p, "unknown") /\ Leave(p, AfterDoubt)
    /\ UNCHANGED <<task, owner, reviews, decision, latest, net, counts>>

\* A2AHTTPError: WorkerBlocked is not raised, so the attempt merely fails.
SaveRefused(p) ==
    /\ At(p, "refused")
    /\ Save(p, "failed") /\ Leave(p, "error")
    /\ UNCHANGED <<task, owner, reviews, decision, latest, net, counts>>

-----------------------------------------------------------------------------
(* Answers to Send Message and Get Task: _apply_response.                   *)

StatusOf(reply) == IF reply = "working" THEN "accepted" ELSE reply

\* A valid answer the record can advance to is saved.
ApplyState(p) ==
    LET s == StatusOf(proc[p].reply) IN
    /\ At(p, "apply") /\ proc[p].reply # "invalid"
    /\ s \in Transitions[Copy(p).status]
    /\ IF s = "accepted" THEN Advance(p, s, "poll")
       ELSE Save(p, s) /\ Leave(p, IF s = "completed" THEN "ok" ELSE "blocked")
    /\ UNCHANGED <<task, owner, reviews, decision, latest, net, counts>>

\* advance raises ValueError, which is not an A2A error.
ApplyImpossible(p) ==
    /\ At(p, "apply") /\ proc[p].reply # "invalid"
    /\ StatusOf(proc[p].reply) \notin Transitions[Copy(p).status]
    /\ Leave(p, "error")
    /\ UNCHANGED <<repo, net, counts>>

\* A2AProtocolError: the stored record fails, if it is still open.
FailIfOpen(n) ==
    IF rec[n].status \in Open THEN rec' = [rec EXCEPT ![n].status = "failed"]
    ELSE UNCHANGED rec

ApplyInvalid(p) ==
    /\ At(p, "apply") /\ proc[p].reply = "invalid"
    /\ FailIfOpen(No(p)) /\ Leave(p, "blocked")
    /\ UNCHANGED <<task, owner, reviews, decision, latest, net, counts>>

-----------------------------------------------------------------------------
(* _poll.                                                                   *)

\* The count is saved before the request is sent.
PollOnce(p) ==
    /\ At(p, "poll") /\ Copy(p).polls < MaxPolls
    /\ LET copy == [status |-> "accepted", polls |-> Copy(p).polls + 1] IN
          /\ rec' = [rec EXCEPT ![No(p)] = copy]
          /\ proc' = [proc EXCEPT ![p].pc = "get", ![p].copy = copy]
    /\ UNCHANGED <<task, owner, reviews, decision, latest, net, counts>>

\* The budget is used up, or the total timeout has passed.
GiveUp(p) ==
    /\ At(p, "poll")
    /\ Goto(p, "cancel")
    /\ UNCHANGED <<repo, net, counts>>

\* The remote task goes on by itself, or because of a request whose answer was
\* lost; its moves are made when it is next asked.
Moved(n) ==
    CASE remote[n] = "working" -> RemoteStates
      [] remote[n] = "interrupted" -> {"interrupted", "canceled"}
      [] OTHER -> {remote[n]}

\* Get Task answers, fails (A2AHTTPError: poll again), has no JSON object
\* (A2AProtocolError, outside _apply_response: the record stays accepted) or
\* breaks off.
GetTask(p) ==
    /\ At(p, "get")
    /\ gets' = IF Alone THEN [gets EXCEPT ![No(p)] = @ + 1] ELSE gets
    /\ \/ \E s \in Moved(No(p)) :
             /\ remote' = [remote EXCEPT ![No(p)] = s]
             /\ Answered(p, s)
       \/ /\ \/ Answered(p, "invalid")
             \/ Goto(p, "poll")
             \/ Leave(p, "blocked")
             \/ Leave(p, "error")
          /\ UNCHANGED remote
    /\ UNCHANGED <<repo, posts, counts>>

-----------------------------------------------------------------------------
(* _cancel_known_task, by the worker or by the operator.                    *)

Cancelled(a, r) == proc' = [proc EXCEPT ![a].pc = "applycancel", ![a].reply = r]

\* A rival takes part: the polls are no longer counted.
RivalJoins == gets' = [n \in Nos |-> 0]

OperatorReads ==
    /\ At(Operator, "idle") /\ stalls + cancels < MaxRivals
    /\ cancels' = cancels + 1
    /\ \E n \in Nos :
          /\ rec[n].status \in {"accepted", "interrupted"}
          /\ proc' = [proc EXCEPT ![Operator] =
                         [Idle EXCEPT !.pc = "cancel", !.no = n, !.copy = rec[n]]]
    /\ RivalJoins
    /\ UNCHANGED <<repo, remote, posts, crashes, stalls, torn>>

\* The answer arrives, or is unusable, is lost, or breaks off, which is no
\* A2AError: the record stays as it is.
CancelTask(a) ==
    /\ At(a, "cancel")
    /\ \/ \E s \in Moved(No(a)) :
             /\ remote' = [remote EXCEPT ![No(a)] = s]
             /\ Cancelled(a, s)
       \/ /\ Cancelled(a, "invalid") \/ Cancelled(a, "error") \/ Leave(a, "error")
          /\ UNCHANGED remote
    /\ UNCHANGED <<repo, posts, gets, counts>>

\* The request failed or its answer is unusable: a copy that is accepted is
\* saved as failed.  After a failed request the worker gets an A2AHTTPError,
\* so its attempt merely fails.
CancelFailed(a) ==
    /\ At(a, "applycancel") /\ proc[a].reply \in {"error", "invalid"}
    /\ \/ Copy(a).status = "accepted" /\ Save(a, "failed")
       \/ /\ Copy(a).status # "accepted"
          /\ IF proc[a].reply = "invalid" THEN FailIfOpen(No(a)) ELSE UNCHANGED rec
    /\ Leave(a, IF proc[a].reply = "error" THEN "error" ELSE "blocked")
    /\ UNCHANGED <<task, owner, reviews, decision, latest, net, counts>>

\* The answer names a state: it is saved, and unless the remote task was
\* canceled or completed the record has to fail next.
CancelAnswered(a) ==
    LET s == StatusOf(proc[a].reply) IN
    /\ At(a, "applycancel") /\ proc[a].reply \notin {"error", "invalid"}
    /\ IF s \in Transitions[Copy(a).status]
       THEN IF s \in {"canceled", "completed"}
            THEN Save(a, s) /\ Leave(a, "blocked")
            ELSE Advance(a, s, "giveup")
       ELSE Leave(a, "error") /\ UNCHANGED rec
    /\ UNCHANGED <<task, owner, reviews, decision, latest, net, counts>>

\* cancel_not_terminal: possible from accepted only, any other status raises
\* ValueError instead of A2AProtocolError.
CancelNotTerminal(a) ==
    /\ At(a, "giveup")
    /\ IF "failed" \in Transitions[Copy(a).status]
       THEN Save(a, "failed") /\ Leave(a, "blocked")
       ELSE Leave(a, "error") /\ UNCHANGED rec
    /\ UNCHANGED <<task, owner, reviews, decision, latest, net, counts>>

-----------------------------------------------------------------------------
(* The attempt ends: commit_claim_outcome, or the engine's two saves.       *)

\* The status after n attempts, of which the last did not pass.
Retry(n) == IF n >= MaxAttempts THEN "failed" ELSE "pending"

\* The review of a result may fail.
Outcomes(p, n) ==
    CASE proc[p].out = "ok" -> {"succeeded", Retry(n)}
      [] proc[p].out = "blocked" -> {"blocked"}
      [] proc[p].out = "error" -> {Retry(n)}

Commit(w) ==
    /\ At(w, "commit") /\ owner = w /\ w \in Workers
    /\ task' \in Outcomes(w, reviews + 1)
    /\ reviews' = reviews + 1 /\ owner' = Null
    /\ proc' = [proc EXCEPT ![w] = Idle]
    /\ UNCHANGED <<decision, rec, latest, net, counts>>

\* The engine: save_attempt_outcome, then save_task in a transaction of its own.
SaveReview(e) ==
    /\ At(e, "commit") /\ owner = e /\ e \in Engines
    /\ reviews' = reviews + 1
    /\ Goto(e, "save")
    /\ UNCHANGED <<task, owner, decision, rec, latest, net, counts>>

SaveTask(e) ==
    /\ At(e, "save")
    /\ task' \in Outcomes(e, reviews)
    /\ owner' = Null
    /\ proc' = [proc EXCEPT ![e] = Idle]
    /\ UNCHANGED <<reviews, decision, rec, latest, net, counts>>

\* The claim was reaped: LOST.
CommitStale(p) ==
    /\ At(p, "commit") /\ owner # p
    /\ proc' = [proc EXCEPT ![p] = Idle]
    /\ UNCHANGED <<repo, net, counts>>

-----------------------------------------------------------------------------
(* Crashes, expired claims and recovery.                                    *)

Crash(p) ==
    /\ crashes < MaxCrashes
    /\ proc[p].pc \notin {"idle", "crashed"}
    /\ At(p, "save") => reviews < MaxReviews
    /\ crashes' = crashes + 1
    /\ proc' = [proc EXCEPT ![p] = Crashed]
    /\ torn' = IF At(p, "save") /\ stalls = 0 THEN torn \cup {reviews} ELSE torn
    /\ UNCHANGED <<repo, net, stalls, cancels>>

Unsafe == {"submitting", "unknown", "interrupted"}

UnsafeToRedo == latest # 0 /\ rec[latest].status \in Unsafe

\* Mistake: a task that is unsafe to redo is left alone.
RecoveredIfSafe == IF UnsafeToRedo THEN task ELSE "pending"

\* The recovered task's status: the newest delegation of the task decides.
Recovered == IF UnsafeToRedo THEN "blocked" ELSE "pending"

\* reap_expired_claims
Reaped ==
    /\ task' = Recovered
    /\ owner' = Null
    /\ UNCHANGED <<reviews, decision, rec, latest>>

ReapDead(w) ==
    /\ owner = w /\ At(w, "crashed")
    /\ Reaped
    /\ UNCHANGED <<proc, net, counts>>

\* The process lives, but did not renew in time.
ReapStalled(w) ==
    /\ owner = w /\ ~ At(w, "crashed")
    /\ stalls + cancels < MaxRivals /\ stalls' = stalls + 1
    /\ Reaped /\ RivalJoins
    /\ torn' = {}
    /\ UNCHANGED <<proc, remote, posts, crashes, cancels>>

\* A crashed worker starts again as a new generation, after its claim is gone.
RestartWorker(w) ==
    /\ At(w, "crashed") /\ owner # w
    /\ Goto(w, "idle")
    /\ UNCHANGED <<repo, net, counts>>

\* A crashed engine is resumed: _recover_interrupted_tasks makes the task
\* pending without a look at its delegation.
ResumeEngine(e) ==
    /\ At(e, "crashed")
    /\ Goto(e, "idle")
    /\ IF owner = e THEN task' = "pending" /\ owner' = Null
       ELSE UNCHANGED <<task, owner>>
    /\ UNCHANGED <<reviews, decision, rec, latest, net, counts>>

-----------------------------------------------------------------------------

Delegate(p) ==
    \/ CountReviews(p) \/ LookUp(p) \/ Decide(p) \/ RecordDecision(p)
    \/ Prepare(p) \/ Submit(p) \/ SendDelivered(p) \/ SendUndelivered(p)
    \/ SaveUnknown(p) \/ SaveRefused(p)
    \/ ApplyState(p) \/ ApplyImpossible(p) \/ ApplyInvalid(p)
    \/ PollOnce(p) \/ GiveUp(p) \/ GetTask(p)
    \/ CancelTask(p) \/ CancelFailed(p) \/ CancelAnswered(p) \/ CancelNotTerminal(p)
    \/ Commit(p) \/ CommitStale(p) \/ SaveReview(p) \/ SaveTask(p)

OperatorCancels ==
    \/ OperatorReads \/ CancelTask(Operator) \/ CancelFailed(Operator)
    \/ CancelAnswered(Operator) \/ CancelNotTerminal(Operator)

\* What has to be done after the crash of a process.
Recover(p) ==
    \/ p \in Workers /\ (ReapDead(p) \/ RestartWorker(p))
    \/ p \in Engines /\ ResumeEngine(p)

DNext ==
    \/ \E p \in Procs : Start(p) \/ Delegate(p) \/ Crash(p) \/ Recover(p)
    \/ \E w \in Workers : ReapStalled(w)
    \/ OperatorCancels

DSpec == DInit /\ [][DNext]_dvars

\* Whoever starts the society keeps it going: as long as pending work can be
\* taken, a process can go on, or a crashed one is to be recovered, one of that
\* happens.
Fairness == WF_dvars(\E p \in Procs : Start(p) \/ Delegate(p) \/ Recover(p))

DFairSpec == DSpec /\ Fairness

-----------------------------------------------------------------------------

\* What an attempt asks of the remote agent, over all processes that take part
\* and crash: one Send Message at most, under an allowing decision on record
\* (docs/a2a.md, "Durable recovery"), even if two processes evaluated different
\* policies; and polls within the budget of the delegation (max_polls).
RequestsBounded ==
    \A n \in Nos :
       /\ posts[n] <= 1
       /\ posts[n] > 0 => decision[n] = "allow"
       /\ Alone => gets[n] <= MaxPolls

\* A task succeeds with the completed result of its own last attempt, never
\* with that of an attempt whose review failed (get_attempt_delegation).
SuccessIsOwnResult ==
    task = "succeeded" => remote[reviews] = "completed" /\ posts[reviews] > 0

\* While the claims are renewed in time, nothing is sent after a submission
\* whose outcome is unknown: that record blocks the task (A2ARemoteWorker),
\* through every crash but one, that of an engine which has saved the attempt's
\* outcome and not yet the blocked task.
UnknownNotResent ==
    [][stalls = 0 => \A n \in Nos : posts'[n] > posts[n] =>
          \A m \in 1 .. n - 1 : rec[m].status = "unknown" => m \in torn]_dvars

\* Every delegated task ends for the society, be it in the operator's hands, and
\* is not left open for ever by what comes later.
TaskEnds == []<>(task \in {"succeeded", "failed", "blocked"})

\* docs/architecture.md, "Safety boundaries": ambiguous or interrupted remote
\* work blocks rather than replaying an unsafe side effect.
UnsafeWorkBlocks ==
    [][\A n \in Nos : posts'[n] > posts[n] =>
          \A m \in 1 .. n - 1 : rec[m].status \notin {"unknown", "interrupted"}]_dvars
=============================================================================
