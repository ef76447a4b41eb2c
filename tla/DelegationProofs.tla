--------------------------- MODULE DelegationProofs ---------------------------
(***************************************************************************)
(* What a delegated attempt asks of the remote agent is bounded, for any   *)
(* number of workers, engines, attempts, polls, crashes and rivals: it is  *)
(* the uniqueness of the attempt's record, not of its process, that keeps  *)
(* the message from being sent twice. A result is the remote agent's own,  *)
(* and work whose outcome is unknown is not sent again.                    *)
(***************************************************************************)
EXTENDS A2ADelegation, TLAPS

\* Process control states: before there is a record or after the delegation,
\* with a record at hand, and those that may still send the message.
Blank == {"idle", "count", "lookup", "decide", "record", "prepare", "commit",
          "save", "crashed"}
Recorded == {"submit", "send", "doubt", "refused", "apply", "poll", "get",
             "cancel", "applycancel", "giveup"}
Counted == {"lookup", "decide", "record", "prepare"} \cup Recorded
Authorised == {"prepare", "submit", "send"}
Sending == {"submit", "send"}

\* The steps that end an attempt.
Ends(p) == Commit(p) \/ CommitStale(p) \/ SaveReview(p) \/ SaveTask(p)

\* What holds of one process by itself.
Sound(r) ==
    /\ r \in Process
    /\ r.pc \in Counted => r.no \in Nos
    /\ r.pc \in Blank => r.copy = NoRecord
    /\ r.pc \in {"commit", "save"} => r.out # "none"

ProcsSound ==
    /\ proc \in [Actors -> Process]
    /\ \A a \in Actors : Sound(proc[a])

\* The rows of the repository, the requests and the bounds.
RowsOK ==
    /\ task \in {"pending", "running", "succeeded", "failed", "blocked"}
    /\ owner \in Procs \cup {Null}
    /\ reviews \in 0 .. MaxReviews
    /\ decision \in [Nos -> {"none", "allow", "deny"}]
    /\ rec \in [Nos -> Record]
    /\ latest \in {0} \cup Nos
    /\ remote \in [Nos -> RemoteStates \cup {"none"}]
    /\ posts \in [Nos -> Nat] /\ gets \in [Nos -> Nat]
    /\ crashes \in 0 .. MaxCrashes /\ stalls \in Nat /\ cancels \in Nat
    /\ stalls + cancels <= MaxRivals
    /\ torn \subseteq Nos

\* A task that is still to be worked on has reviews left, unless an engine that
\* saved the last one has yet to save the task, which is its own.
AttemptsLeft ==
    /\ owner # Null <=> task = "running"
    /\ \/ task \notin {"pending", "running"}
       \/ reviews < MaxReviews
       \/ \E p \in Procs : proc[p].pc = "save"
    /\ \A p \in Procs : proc[p].pc = "save" =>
          p \in Engines /\ owner = p /\ reviews > 0

TypeInv == ProcsSound /\ RowsOK /\ AttemptsLeft

\* What an actor's step does to the processes: a sound one moves alone, and
\* the record it holds is the one it prepared, found or read.
Moves(a) ==
    /\ Sound(proc'[a])
    /\ proc' = [b \in Actors |-> IF b = a THEN proc'[a] ELSE proc[b]]
    /\ proc'[a].pc \in Recorded =>
          \/ Prepare(a) \/ LookUp(a) \/ OperatorReads
          \/ /\ proc[a].pc \in Recorded /\ proc'[a].no = proc[a].no
             /\ PollOnce(a) \/ proc'[a].copy.polls = proc[a].copy.polls
    /\ proc'[a].pc \in Sending =>
          \/ Prepare(a)
          \/ proc[a].pc \in Sending /\ proc'[a].no = proc[a].no
    /\ proc'[a].pc \in Authorised =>
          \/ Decide(a) \/ RecordDecision(a)
          \/ proc[a].pc \in Authorised /\ proc'[a].no = proc[a].no
    /\ proc'[a].pc = "get" => PollOnce(a)
    /\ proc'[a].pc = "save" => SaveReview(a)

-----------------------------------------------------------------------------
(* Every step moves one process.                                           *)

LEMMA Sounds ==
    ASSUME ProcsSound, NEW a \in Actors
    PROVE  /\ Sound(proc[a]) /\ proc[a] \in Process
           /\ No(a) = proc[a].no /\ Copy(a) = proc[a].copy
           /\ Copy(a) \in Record
BY DEF ProcsSound, Sound, Process, No, Copy

LEMMA TransitionsType ==
    ASSUME NEW s \in Statuses \cup {"none"}
    PROVE  Transitions[s] \subseteq Statuses
BY DEF Transitions, Statuses, Open, Closed

\* The delegation ends, or its process.
LEMMA LeaveMoves ==
    ASSUME ProcsSound, NEW a \in Actors,
           NEW r \in [pc : {"idle", "commit", "crashed"}, no : {0},
                      copy : {NoRecord}, verdict : {"none"}, reply : {"none"},
                      out : {"none", "ok", "blocked", "error"}],
           proc' = [proc EXCEPT ![a] = r],
           r.pc = "commit" => r.out # "none"
    PROVE  Moves(a)
<1>1. proc'[a] = r
  BY DEF ProcsSound
<1>2. r \in Process
  BY DelegationAssumption DEF Process, Steps, Record, NoRecord, Replies
<1>3. proc' = [b \in Actors |-> IF b = a THEN proc'[a] ELSE proc[b]]
  BY <1>1 DEF ProcsSound
<1> QED BY <1>1, <1>2, <1>3
        DEF Moves, Sound, Counted, Blank, Recorded, Sending, Authorised

LEMMA Leaves ==
    ASSUME ProcsSound, NEW a \in Actors, NEW out \in {"ok", "blocked", "error"},
           Leave(a, out)
    PROVE  Moves(a)
<1>1. Moves(a) \/ a # Operator
  <2>1. a # Operator \/ proc' = [proc EXCEPT ![a] = Idle]
    BY DEF Leave
  <2> QED BY <2>1, LeaveMoves DEF Idle
<1>2. Moves(a) \/ a = Operator
  <2>1. a = Operator \/ proc' = [proc EXCEPT ![a] = [Idle EXCEPT !.pc = "commit", !.out = out]]
    BY DEF Leave
  <2> QED BY <2>1, LeaveMoves DEF Idle
<1> QED BY <1>1, <1>2

LEMMA ToIdle ==
    ASSUME ProcsSound, NEW a \in Actors,
           proc' = [proc EXCEPT ![a] = Idle] \/ proc' = [proc EXCEPT ![a] = Crashed]
    PROVE  Moves(a)
BY LeaveMoves DEF Idle, Crashed

\* A process goes to another control state with some fields replaced.
LEMMA StepsOn ==
    ASSUME ProcsSound, NEW a \in Actors, NEW r \in Process,
           proc' = [proc EXCEPT ![a] = r],
           r.pc # "commit",
           r.pc = "save" => SaveReview(a) /\ r.out # "none",
           r.pc \in Counted => r.no \in Nos,
           r.pc \in Blank => r.copy = NoRecord,
           r.pc \in Recorded =>
              \/ Prepare(a) \/ LookUp(a) \/ OperatorReads
              \/ /\ proc[a].pc \in Recorded /\ r.no = proc[a].no
                 /\ PollOnce(a) \/ r.copy.polls = proc[a].copy.polls,
           r.pc \in Sending =>
              Prepare(a) \/ (proc[a].pc \in Sending /\ r.no = proc[a].no),
           r.pc \in Authorised =>
              \/ Decide(a) \/ RecordDecision(a)
              \/ proc[a].pc \in Authorised /\ r.no = proc[a].no,
           r.pc = "get" => PollOnce(a)
    PROVE  Moves(a)
<1>1. proc'[a] = r
  BY DEF ProcsSound
<1>2. proc' = [b \in Actors |-> IF b = a THEN proc'[a] ELSE proc[b]]
  BY <1>1 DEF ProcsSound
<1> QED BY <1>1, <1>2 DEF Moves, Sound

\* The steps up to the record.
LEMMA EarlyMoves ==
    ASSUME TypeInv, NEW p \in Procs,
           \/ Start(p) \/ CountReviews(p) \/ LookUp(p) \/ Decide(p)
           \/ RecordDecision(p) \/ Prepare(p)
    PROVE  Moves(p)
<1> DEFINE q == proc[p]
<1>0. /\ ProcsSound /\ p \in Actors /\ q \in Process /\ Sound(q)
      /\ No(p) = q.no
  BY Sounds DEF TypeInv, Actors
<1>1. CASE Start(p)
  <2>1. q.pc = "idle" /\ proc' = [proc EXCEPT ![p] = [q EXCEPT !.pc = "count"]]
    BY <1>1 DEF Start, At, Goto
  <2>2. [q EXCEPT !.pc = "count"] \in Process
    BY <1>0 DEF Process, Steps
  <2> QED BY <1>0, <2>1, <2>2, StepsOn
          DEF Sound, Steps, Blank, Counted, Recorded, Sending, Authorised, Process
<1>2. CASE CountReviews(p)
  <2>1. /\ q.pc = "count"
        /\ proc' = [proc EXCEPT ![p] = [q EXCEPT !.pc = "lookup", !.no = reviews + 1]]
    BY <1>2 DEF CountReviews, At
  <2>2. reviews + 1 \in Nos
    BY DelegationAssumption DEF TypeInv, RowsOK, Nos
  <2>3. [q EXCEPT !.pc = "lookup", !.no = reviews + 1] \in Process
    BY <1>0, <2>2 DEF Process, Steps
  <2> QED BY <1>0, <2>1, <2>2, <2>3, StepsOn
          DEF Sound, Steps, Blank, Counted, Recorded, Sending, Authorised, Process
<1>3. CASE LookUp(p)
  <2>1. q.pc = "lookup" /\ q.no \in Nos
    BY <1>0, <1>3 DEF LookUp, At, Sound, Counted
  <2>2. rec[q.no] \in Record
    BY <2>1 DEF TypeInv, RowsOK
  <2>3. CASE Leave(p, "ok") \/ Leave(p, "blocked")
    BY <1>0, <2>3, Leaves
  <2>4. CASE proc' = [proc EXCEPT ![p] = [q EXCEPT !.pc = "decide"]]
    <3>1. [q EXCEPT !.pc = "decide"] \in Process
      BY <1>0 DEF Process, Steps
    <3> QED BY <1>0, <2>1, <2>4, <3>1, StepsOn
            DEF Sound, Steps, Blank, Counted, Recorded, Sending, Authorised, Process
  <2>5. ASSUME NEW pc \in {"doubt", "poll"},
               proc' = [proc EXCEPT ![p] = [q EXCEPT !.pc = pc, !.copy = rec[q.no]]]
        PROVE  Moves(p)
    <3>1. [q EXCEPT !.pc = pc, !.copy = rec[q.no]] \in Process
      BY <1>0, <2>2 DEF Process, Steps
    <3> QED BY <1>0, <1>3, <2>1, <2>5, <3>1, StepsOn
            DEF Sound, Steps, Blank, Counted, Recorded, Sending, Authorised, Process
  <2> QED BY <1>0, <1>3, <2>3, <2>4, <2>5 DEF LookUp, Found, Goto
<1>4. CASE Decide(p)
  <2>1. q.pc = "decide" /\ q.no \in Nos
    BY <1>0, <1>4 DEF Decide, At, Sound, Counted
  <2>2. CASE Leave(p, "blocked")
    BY <1>0, <2>2, Leaves
  <2>3. CASE proc' = [proc EXCEPT ![p] = [q EXCEPT !.pc = "prepare"]]
    <3>1. [q EXCEPT !.pc = "prepare"] \in Process
      BY <1>0 DEF Process, Steps
    <3> QED BY <1>0, <1>4, <2>1, <2>3, <3>1, StepsOn
            DEF Sound, Steps, Blank, Counted, Recorded, Sending, Authorised, Process
  <2>4. ASSUME NEW v \in {"allow", "deny"},
               proc' = [proc EXCEPT ![p] = [q EXCEPT !.pc = "record", !.verdict = v]]
        PROVE  Moves(p)
    <3>1. [q EXCEPT !.pc = "record", !.verdict = v] \in Process
      BY <1>0 DEF Process, Steps
    <3> QED BY <1>0, <2>1, <2>4, <3>1, StepsOn
            DEF Sound, Steps, Blank, Counted, Recorded, Sending, Authorised, Process
  <2> QED BY <1>4, <2>2, <2>3, <2>4 DEF Decide, Goto
<1>5. CASE RecordDecision(p)
  <2>1. q.pc = "record" /\ q.no \in Nos
    BY <1>0, <1>5 DEF RecordDecision, At, Sound, Counted
  <2>2. CASE Leave(p, "blocked") \/ Leave(p, "error")
    BY <1>0, <2>2, Leaves
  <2>3. CASE proc' = [proc EXCEPT ![p] = [q EXCEPT !.pc = "prepare", !.verdict = "none"]]
    <3>1. [q EXCEPT !.pc = "prepare", !.verdict = "none"] \in Process
      BY <1>0 DEF Process, Steps
    <3> QED BY <1>0, <1>5, <2>1, <2>3, <3>1, StepsOn
            DEF Sound, Steps, Blank, Counted, Recorded, Sending, Authorised, Process
  <2> QED BY <1>5, <2>2, <2>3 DEF RecordDecision, Allowed
<1>6. CASE Prepare(p)
  <2>1. q.pc = "prepare" /\ q.no \in Nos /\ q.copy \in Record
    BY <1>0, <1>6 DEF Prepare, At, Sound, Counted, Process
  <2>2. CASE Leave(p, "blocked") \/ Leave(p, "error")
    BY <1>0, <2>2, Leaves
  <2>3. CASE proc' = [proc EXCEPT ![p] = [q EXCEPT !.pc = "submit",
                                                   !.copy.status = "prepared"]]
    <3>1. [q EXCEPT !.pc = "submit", !.copy.status = "prepared"] \in Process
      BY <1>0, <2>1 DEF Process, Steps, Record, Statuses, Open
    <3> QED BY <1>0, <1>6, <2>1, <2>3, <3>1, StepsOn
            DEF Sound, Steps, Blank, Counted, Recorded, Sending, Authorised, Process
  <2> QED BY <1>6, <2>2, <2>3 DEF Prepare
<1> QED BY <1>1, <1>2, <1>3, <1>4, <1>5, <1>6

\* A process at a record goes on with it.
LEMMA RecordedStep ==
    ASSUME ProcsSound, NEW a \in Actors, NEW r \in Process,
           proc' = [proc EXCEPT ![a] = r], r.pc \in Recorded,
           r.no = proc[a].no, proc[a].pc \in Recorded,
           r.pc \in Sending => proc[a].pc \in Sending,
           PollOnce(a) \/ (r.copy.polls = proc[a].copy.polls /\ r.pc # "get")
    PROVE  Moves(a)
<1>1. r.no \in Nos
  BY Sounds DEF Sound, Counted
<1> QED BY <1>1, StepsOn DEF Recorded, Blank, Sending, Authorised

\* The message and its answer.
LEMMA SendMoves ==
    ASSUME TypeInv, NEW p \in Procs,
           \/ Submit(p) \/ SendDelivered(p) \/ SendUndelivered(p)
           \/ SaveUnknown(p) \/ SaveRefused(p)
    PROVE  Moves(p)
<1> DEFINE q == proc[p]
<1>0. /\ ProcsSound /\ p \in Actors /\ q \in Process /\ Sound(q)
  BY Sounds DEF TypeInv, Actors
<1>1. CASE Submit(p)
  <2>1. /\ q.pc = "submit"
        /\ proc' = [proc EXCEPT ![p] = [q EXCEPT !.pc = "send",
                                  !.copy.status = "submitting", !.reply = "none"]]
    BY <1>1 DEF Submit, At, Advance
  <2>2. [q EXCEPT !.pc = "send", !.copy.status = "submitting", !.reply = "none"]
           \in Process
    BY <1>0 DEF Process, Steps, Record, Statuses, Open, Replies
  <2> QED BY <1>0, <2>1, <2>2, RecordedStep DEF Recorded, Sending, Process, Record
<1>2. ASSUME NEW pc \in {"doubt", "refused"}, q.pc = "send",
             proc' = [proc EXCEPT ![p] = [q EXCEPT !.pc = pc]]
      PROVE  Moves(p)
  <2>1. [q EXCEPT !.pc = pc] \in Process
    BY <1>0 DEF Process, Steps
  <2> QED BY <1>0, <1>2, <2>1, RecordedStep DEF Recorded, Sending, Process
<1>3. ASSUME NEW r \in Replies, q.pc = "send", Answered(p, r)
      PROVE  Moves(p)
  <2>1. proc' = [proc EXCEPT ![p] = [q EXCEPT !.pc = "apply", !.reply = r]]
    BY <1>3 DEF Answered
  <2>2. [q EXCEPT !.pc = "apply", !.reply = r] \in Process
    BY <1>0 DEF Process, Steps
  <2> QED BY <1>0, <1>3, <2>1, <2>2, RecordedStep DEF Recorded, Sending, Process
<1>4. CASE SendDelivered(p)
  BY <1>0, <1>2, <1>3, <1>4, Leaves DEF SendDelivered, At, Goto, Replies
<1>5. CASE SendUndelivered(p)
  BY <1>0, <1>2, <1>5, Leaves DEF SendUndelivered, At, Goto
<1>6. CASE SaveUnknown(p) \/ SaveRefused(p)
  BY <1>0, <1>6, Leaves DEF SaveUnknown, SaveRefused, AfterDoubt
<1> QED BY <1>1, <1>4, <1>5, <1>6

\* Polling, by the process that owns the task or thinks it does.
LEMMA PollMoves ==
    ASSUME TypeInv, NEW p \in Procs,
           \/ ApplyState(p) \/ ApplyImpossible(p) \/ ApplyInvalid(p)
           \/ PollOnce(p) \/ GiveUp(p) \/ GetTask(p)
    PROVE  Moves(p)
<1> DEFINE q == proc[p]
<1>0. /\ ProcsSound /\ p \in Actors /\ q \in Process /\ Sound(q)
      /\ Copy(p) = q.copy /\ Copy(p) \in Record
  BY Sounds DEF TypeInv, Actors
<1>1. CASE ApplyState(p)
  <2> DEFINE s == StatusOf(q.reply)
  <2>1. q.pc = "apply" /\ s \in Statuses
    BY <1>0, <1>1, TransitionsType DEF ApplyState, At, Record
  <2>2. CASE Advance(p, s, "poll")
    <3>1. proc' = [proc EXCEPT ![p] = [q EXCEPT !.pc = "poll",
                                    !.copy.status = s, !.reply = "none"]]
      BY <2>2 DEF Advance
    <3>2. [q EXCEPT !.pc = "poll", !.copy.status = s, !.reply = "none"] \in Process
      BY <1>0, <2>1 DEF Process, Steps, Record, Replies
    <3> QED BY <1>0, <2>1, <3>1, <3>2, RecordedStep DEF Recorded, Sending, Process, Record
  <2>3. CASE Leave(p, "ok") \/ Leave(p, "blocked")
    BY <1>0, <2>3, Leaves
  <2> QED BY <1>1, <2>2, <2>3 DEF ApplyState
<1>2. CASE ApplyImpossible(p) \/ ApplyInvalid(p)
  BY <1>0, <1>2, Leaves DEF ApplyImpossible, ApplyInvalid
<1>3. CASE PollOnce(p)
  <2> DEFINE copy == [status |-> "accepted", polls |-> Copy(p).polls + 1]
  <2>1. /\ q.pc = "poll"
        /\ proc' = [proc EXCEPT ![p] = [q EXCEPT !.pc = "get", !.copy = copy]]
    BY <1>3 DEF PollOnce, At
  <2>2. copy \in Record
    BY <1>0, <1>3, DelegationAssumption DEF PollOnce, Record, Statuses, Open
  <2> HIDE DEF copy
  <2>3. [q EXCEPT !.pc = "get", !.copy = copy] \in Process
    BY <1>0, <2>2 DEF Process, Steps
  <2> QED BY <1>0, <1>3, <2>1, <2>3, RecordedStep DEF Recorded, Sending, Process
<1>4. ASSUME NEW pc \in {"cancel", "poll"}, q.pc \in {"poll", "get"},
             proc' = [proc EXCEPT ![p] = [q EXCEPT !.pc = pc]]
      PROVE  Moves(p)
  <2>1. [q EXCEPT !.pc = pc] \in Process
    BY <1>0 DEF Process, Steps
  <2> QED BY <1>0, <1>4, <2>1, RecordedStep DEF Recorded, Sending, Process
<1>5. CASE GiveUp(p)
  BY <1>4, <1>5 DEF GiveUp, At, Goto
<1>6. CASE GetTask(p)
  <2>1. q.pc = "get" /\ q.no \in Nos
    BY <1>0, <1>6 DEF GetTask, At, Sound, Counted, Recorded
  <2>2. Moved(No(p)) \subseteq RemoteStates \cup {"none"}
    BY <2>1 DEF Moved, RemoteStates, No, TypeInv, RowsOK
  <2>3. ASSUME NEW r \in Replies, Answered(p, r)
        PROVE  Moves(p)
    <3>1. proc' = [proc EXCEPT ![p] = [q EXCEPT !.pc = "apply", !.reply = r]]
      BY <2>3 DEF Answered
    <3>2. [q EXCEPT !.pc = "apply", !.reply = r] \in Process
      BY <1>0 DEF Process, Steps
    <3> QED BY <1>0, <2>1, <3>1, <3>2, RecordedStep DEF Recorded, Sending, Process
  <2>4. CASE \E s \in Moved(No(p)) : Answered(p, s)
    BY <2>2, <2>3, <2>4 DEF Replies
  <2>5. CASE Answered(p, "invalid")
    BY <2>3, <2>5 DEF Replies
  <2>6. CASE Goto(p, "poll")
    BY <1>4, <2>1, <2>6 DEF Goto
  <2>7. CASE Leave(p, "blocked") \/ Leave(p, "error")
    BY <1>0, <2>7, Leaves
  <2> QED BY <1>6, <2>4, <2>5, <2>6, <2>7 DEF GetTask
<1> QED BY <1>1, <1>2, <1>3, <1>5, <1>6

\* Cancelling, by the process or by the operator.
LEMMA CancelMoves ==
    ASSUME TypeInv, NEW a \in Actors,
           CancelTask(a) \/ CancelFailed(a) \/ CancelAnswered(a) \/ CancelNotTerminal(a)
    PROVE  Moves(a)
<1> DEFINE q == proc[a]
<1>0. /\ ProcsSound /\ q \in Process /\ Sound(q)
      /\ Copy(a) = q.copy /\ Copy(a) \in Record /\ No(a) = q.no
  BY Sounds DEF TypeInv
<1>1. CASE CancelTask(a)
  <2>1. q.pc = "cancel" /\ q.no \in Nos
    BY <1>0, <1>1 DEF CancelTask, At, Sound, Counted, Recorded
  <2>2. Moved(No(a)) \subseteq RemoteStates \cup {"none"}
    BY <1>0, <2>1 DEF Moved, RemoteStates, TypeInv, RowsOK
  <2>3. ASSUME NEW r \in Replies, Cancelled(a, r)
        PROVE  Moves(a)
    <3>1. proc' = [proc EXCEPT ![a] = [q EXCEPT !.pc = "applycancel", !.reply = r]]
      BY <2>3 DEF Cancelled
    <3>2. [q EXCEPT !.pc = "applycancel", !.reply = r] \in Process
      BY <1>0 DEF Process, Steps
    <3> QED BY <1>0, <2>1, <3>1, <3>2, RecordedStep DEF Recorded, Sending, Process
  <2>4. CASE \E s \in Moved(No(a)) : Cancelled(a, s)
    BY <2>2, <2>3, <2>4 DEF Replies
  <2>5. CASE Cancelled(a, "invalid") \/ Cancelled(a, "error")
    BY <2>3, <2>5 DEF Replies
  <2>6. CASE Leave(a, "error")
    BY <1>0, <2>6, Leaves
  <2> QED BY <1>1, <2>4, <2>5, <2>6 DEF CancelTask
<1>2. CASE CancelFailed(a)
  BY <1>0, <1>2, Leaves DEF CancelFailed
<1>3. CASE CancelAnswered(a)
  <2> DEFINE s == StatusOf(q.reply)
  <2>1. q.pc = "applycancel"
    BY <1>3 DEF CancelAnswered, At
  <2>2. CASE Advance(a, s, "giveup") /\ s \in Transitions[Copy(a).status]
    <3>1. proc' = [proc EXCEPT ![a] = [q EXCEPT !.pc = "giveup",
                                    !.copy.status = s, !.reply = "none"]]
      BY <2>2 DEF Advance
    <3>2. s \in Statuses
      BY <1>0, <2>2, TransitionsType DEF Record
    <3>3. [q EXCEPT !.pc = "giveup", !.copy.status = s, !.reply = "none"] \in Process
      BY <1>0, <3>2 DEF Process, Steps, Record, Replies
    <3> QED BY <1>0, <2>1, <3>1, <3>3, RecordedStep DEF Recorded, Sending, Process, Record
  <2>3. CASE Leave(a, "blocked") \/ Leave(a, "error")
    BY <1>0, <2>3, Leaves
  <2> QED BY <1>3, <2>2, <2>3 DEF CancelAnswered
<1>4. CASE CancelNotTerminal(a)
  BY <1>0, <1>4, Leaves DEF CancelNotTerminal
<1> QED BY <1>1, <1>2, <1>3, <1>4

LEMMA ReadMoves ==
    ASSUME TypeInv, OperatorReads
    PROVE  Moves(Operator)
<1>0. Operator \in Actors /\ ProcsSound
  BY DEF Actors, TypeInv
<1>1. PICK n \in Nos : proc' = [proc EXCEPT ![Operator] =
                          [Idle EXCEPT !.pc = "cancel", !.no = n, !.copy = rec[n]]]
  BY DEF OperatorReads
<1>2. rec[n] \in Record
  BY DEF TypeInv, RowsOK
<1> DEFINE r == [Idle EXCEPT !.pc = "cancel", !.no = n, !.copy = rec[n]]
<1>3. r \in Process /\ r.pc = "cancel" /\ r.no = n
  BY <1>2 DEF Process, Steps, Idle, Replies
<1> HIDE DEF r
<1> QED BY <1>0, <1>1, <1>3, StepsOn
        DEF r, Blank, Recorded, Sending, Authorised

\* A process ends, dies or comes back.
LEMMA ReturnMoves ==
    ASSUME TypeInv, NEW p \in Procs,
           Ends(p) \/ Crash(p) \/ RestartWorker(p) \/ ResumeEngine(p)
    PROVE  Moves(p)
<1>0. p \in Actors /\ ProcsSound /\ proc[p] \in Process /\ Sound(proc[p])
  BY Sounds DEF Actors, TypeInv
<1>1. CASE Commit(p) \/ CommitStale(p) \/ SaveTask(p) \/ Crash(p)
  BY <1>0, <1>1, ToIdle DEF Commit, CommitStale, SaveTask, Crash
<1>2. CASE RestartWorker(p) \/ ResumeEngine(p)
  <2>1. /\ proc[p].pc = "crashed"
        /\ proc' = [proc EXCEPT ![p] = [proc[p] EXCEPT !.pc = "idle"]]
    BY <1>2 DEF RestartWorker, ResumeEngine, At, Goto
  <2>2. [proc[p] EXCEPT !.pc = "idle"] \in Process
    BY <1>0 DEF Process, Steps
  <2> QED BY <1>0, <2>1, <2>2, StepsOn
          DEF Process, Sound, Counted, Blank, Recorded, Sending, Authorised
<1>3. CASE SaveReview(p)
  <2>1. /\ proc[p].pc = "commit"
        /\ proc' = [proc EXCEPT ![p] = [proc[p] EXCEPT !.pc = "save"]]
    BY <1>3 DEF SaveReview, At, Goto
  <2>2. [proc[p] EXCEPT !.pc = "save"] \in Process
    BY <1>0 DEF Process, Steps
  <2> QED BY <1>0, <1>3, <2>1, <2>2, StepsOn
          DEF Process, Sound, Counted, Blank, Recorded, Sending, Authorised
<1> QED BY <1>1, <1>2, <1>3 DEF Ends

LEMMA OneMoves ==
    ASSUME TypeInv, DNext
    PROVE  (\E a \in Actors : Moves(a)) \/ UNCHANGED proc
<1>1. ASSUME NEW p \in Procs, Start(p) \/ Delegate(p) \/ Crash(p)
      PROVE  \E a \in Actors : Moves(a)
  BY <1>1, EarlyMoves, SendMoves, PollMoves, CancelMoves, ReturnMoves
     DEF Delegate, Ends, Actors
<1>2. ASSUME NEW w \in Workers, ReapDead(w) \/ ReapStalled(w) \/ RestartWorker(w)
      PROVE  (\E a \in Actors : Moves(a)) \/ UNCHANGED proc
  BY <1>2, ReturnMoves DEF ReapDead, ReapStalled, Actors, Procs
<1>3. ASSUME NEW e \in Engines, ResumeEngine(e)
      PROVE  \E a \in Actors : Moves(a)
  BY <1>3, ReturnMoves DEF Actors, Procs
<1>4. CASE OperatorCancels
  BY <1>4, ReadMoves, CancelMoves DEF OperatorCancels, Actors
<1> QED BY <1>1, <1>2, <1>3, <1>4 DEF DNext, Recover

\* A process changes by its own steps only.
LEMMA OwnStep ==
    ASSUME TypeInv, DNext, NEW a \in Actors, proc'[a] # proc[a]
    PROVE  \/ /\ a \in Procs
              /\ \/ Start(a) \/ Delegate(a) \/ Crash(a)
                 \/ RestartWorker(a) \/ ResumeEngine(a)
           \/ a = Operator /\ OperatorCancels
<1>1. ASSUME NEW p \in Procs, \/ Start(p) \/ Delegate(p) \/ Crash(p)
                              \/ RestartWorker(p) \/ ResumeEngine(p)
      PROVE  a = p
  <2>1. Moves(p)
    BY <1>1, EarlyMoves, SendMoves, PollMoves, CancelMoves, ReturnMoves
       DEF Delegate, Ends, Actors
  <2> QED BY <2>1 DEF Moves
<1>2. ASSUME NEW w \in Workers PROVE ~ ReapDead(w) /\ ~ ReapStalled(w)
  BY DEF ReapDead, ReapStalled
<1>3. ASSUME OperatorCancels PROVE a = Operator
  <2>1. Moves(Operator)
    BY <1>3, ReadMoves, CancelMoves DEF OperatorCancels, Actors
  <2> QED BY <2>1 DEF Moves
<1> QED BY <1>1, <1>2, <1>3 DEF DNext, Recover, Procs

LEMMA ProcsStaySound ==
    ASSUME TypeInv, DNext
    PROVE  ProcsSound'
<1>1. ASSUME NEW a \in Actors, Moves(a)
      PROVE  ProcsSound'
  BY <1>1 DEF Moves, TypeInv, ProcsSound, Sound
<1> QED BY <1>1, OneMoves DEF TypeInv, ProcsSound, Sound

-----------------------------------------------------------------------------
(* Every step leaves rows of their types.                                  *)

Rest == <<task, owner, reviews, latest, counts>>

\* A step that moves no process's claim, count or bound.
LEMMA SameRest ==
    ASSUME RowsOK, UNCHANGED Rest, decision' \in [Nos -> {"none", "allow", "deny"}],
           rec' \in [Nos -> Record], remote' \in [Nos -> RemoteStates \cup {"none"}],
           posts' \in [Nos -> Nat], gets' \in [Nos -> Nat]
    PROVE  RowsOK'
BY DEF RowsOK, Rest, counts

LEMMA SaveType ==
    ASSUME TypeInv, NEW a \in Actors, NEW s \in Statuses, Save(a, s)
    PROVE  rec' \in [Nos -> Record]
BY Sounds DEF Save, TypeInv, RowsOK, Record

\* A counter of each attempt that goes up by one.
LEMMA CountUp ==
    ASSUME NEW f \in [Nos -> Nat], NEW n,
           NEW g, g = [f EXCEPT ![n] = f[n] + 1]
    PROVE  g \in [Nos -> Nat] /\ (n \in Nos => g[n] = f[n] + 1)
<1>1. \A m \in Nos : f[m] \in Nat /\ f[m] + 1 \in Nat
  OBVIOUS
<1>2. g = [m \in Nos |-> IF m = n THEN f[n] + 1 ELSE f[m]]
  OBVIOUS
<1>3. \A m \in Nos : g[m] \in Nat
  BY <1>1, <1>2
<1> QED BY <1>2, <1>3

LEMMA EarlyRows ==
    ASSUME TypeInv, NEW p \in Procs,
           \/ Start(p) \/ CountReviews(p) \/ LookUp(p) \/ Decide(p)
           \/ RecordDecision(p) \/ Prepare(p)
    PROVE  RowsOK'
<1>0. /\ RowsOK /\ p \in Actors /\ proc[p] \in Process /\ Sound(proc[p])
      /\ No(p) = proc[p].no
  BY Sounds DEF TypeInv, Actors
<1>1. CASE Start(p)
  BY <1>0, <1>1 DEF RowsOK, Start, net, counts
<1>2. CASE CountReviews(p) \/ LookUp(p) \/ Decide(p)
  BY <1>0, <1>2 DEF RowsOK, CountReviews, LookUp, Decide, repo, net, counts
<1>3. CASE RecordDecision(p)
  <2>1. proc[p].verdict \in {"none", "allow", "deny"}
    BY <1>0 DEF Process
  <2>2. decision' \in [Nos -> {"none", "allow", "deny"}]
    BY <1>0, <1>3, <2>1 DEF RowsOK, RecordDecision
  <2> QED BY <1>0, <1>3, <2>2 DEF RowsOK, RecordDecision, net, counts
<1>4. CASE Prepare(p)
  <2>1. No(p) \in Nos
    BY <1>0, <1>4 DEF Prepare, At, Sound, Counted
  <2>2. [status |-> "prepared", polls |-> 0] \in Record
    BY DelegationAssumption DEF Record, Statuses, Open
  <2>3. rec' \in [Nos -> Record] /\ latest' \in {0} \cup Nos
    <3>1. CASE UNCHANGED <<rec, latest>>
      BY <1>0, <3>1 DEF RowsOK
    <3>2. CASE /\ rec' = [rec EXCEPT ![No(p)] = [status |-> "prepared", polls |-> 0]]
               /\ latest' = No(p)
      BY <1>0, <2>1, <2>2, <3>2 DEF RowsOK
    <3> QED BY <1>4, <3>1, <3>2 DEF Prepare
  <2> QED BY <1>0, <1>4, <2>3 DEF RowsOK, Prepare, net, counts
<1> QED BY <1>1, <1>2, <1>3, <1>4

LEMMA SendRows ==
    ASSUME TypeInv, NEW p \in Procs,
           \/ Submit(p) \/ SendDelivered(p) \/ SendUndelivered(p)
           \/ SaveUnknown(p) \/ SaveRefused(p)
    PROVE  RowsOK'
<1>0. RowsOK /\ p \in Actors
  BY DEF TypeInv, Actors
<1>1. CASE Submit(p) \/ SaveUnknown(p) \/ SaveRefused(p)
  <2>1. rec' \in [Nos -> Record]
    BY <1>0, <1>1, SaveType
       DEF Submit, SaveUnknown, SaveRefused, Advance, Statuses, Open, Closed
  <2> QED BY <1>0, <1>1, <2>1 DEF RowsOK, Submit, SaveUnknown, SaveRefused, net, counts
<1>2. CASE SendDelivered(p)
  <2>1. posts' \in [Nos -> Nat] /\ remote' \in [Nos -> RemoteStates \cup {"none"}]
    <3>1. posts' = [posts EXCEPT ![No(p)] = posts[No(p)] + 1]
      BY <1>2 DEF SendDelivered
    <3>2. posts \in [Nos -> Nat]
      BY <1>0 DEF RowsOK
    <3>3. posts' \in [Nos -> Nat]
      BY <3>1, <3>2, CountUp
    <3>4. remote' \in [Nos -> RemoteStates \cup {"none"}]
      BY <1>0, <1>2 DEF RowsOK, SendDelivered
    <3> QED BY <3>3, <3>4
  <2> QED BY <1>0, <1>2, <2>1 DEF RowsOK, SendDelivered, repo, counts
<1>3. CASE SendUndelivered(p)
  BY <1>0, <1>3 DEF RowsOK, SendUndelivered, repo, net, counts
<1> QED BY <1>1, <1>2, <1>3

LEMMA PollRows ==
    ASSUME TypeInv, NEW p \in Procs,
           \/ ApplyState(p) \/ ApplyImpossible(p) \/ ApplyInvalid(p)
           \/ PollOnce(p) \/ GiveUp(p) \/ GetTask(p)
    PROVE  RowsOK'
<1>0. /\ RowsOK /\ p \in Actors /\ Sound(proc[p]) /\ No(p) = proc[p].no
      /\ Copy(p) \in Record
  BY Sounds DEF TypeInv, Actors
<1>1. CASE ApplyState(p)
  <2>1. StatusOf(proc[p].reply) \in Statuses
    BY <1>0, <1>1, TransitionsType DEF ApplyState, Record
  <2>2. rec' \in [Nos -> Record]
    BY <1>0, <1>1, <2>1, SaveType DEF ApplyState, Advance
  <2> QED BY <1>0, <1>1, <2>2 DEF RowsOK, ApplyState, net, counts
<1>2. CASE ApplyImpossible(p) \/ GiveUp(p)
  BY <1>0, <1>2 DEF RowsOK, ApplyImpossible, GiveUp, repo, net, counts
<1>3. CASE ApplyInvalid(p)
  <2>1. rec' \in [Nos -> Record]
    BY <1>0, <1>3
       DEF ApplyInvalid, FailIfOpen, RowsOK, Record, Statuses, Closed
  <2> QED BY <1>0, <1>3, <2>1 DEF RowsOK, ApplyInvalid, net, counts
<1>4. CASE PollOnce(p)
  <2>1. [status |-> "accepted", polls |-> Copy(p).polls + 1] \in Record
    BY <1>0, <1>4, DelegationAssumption DEF PollOnce, Record, Statuses, Open
  <2>2. rec' \in [Nos -> Record]
    BY <1>0, <1>4, <2>1 DEF PollOnce, RowsOK
  <2> QED BY <1>0, <1>4, <2>2 DEF RowsOK, PollOnce, net, counts
<1>5. CASE GetTask(p)
  <2>1. No(p) \in Nos
    BY <1>0, <1>5 DEF GetTask, At, Sound, Counted, Recorded
  <2>2. Moved(No(p)) \subseteq RemoteStates \cup {"none"}
    BY <1>0, <2>1 DEF Moved, RemoteStates, RowsOK
  <2>3. gets' \in [Nos -> Nat] /\ remote' \in [Nos -> RemoteStates \cup {"none"}]
    <3>1. gets' = gets \/ gets' = [gets EXCEPT ![No(p)] = gets[No(p)] + 1]
      BY <1>5 DEF GetTask
    <3>2. gets \in [Nos -> Nat]
      BY <1>0 DEF RowsOK
    <3>3. gets' \in [Nos -> Nat]
      BY <3>1, <3>2, CountUp
    <3>4. remote' \in [Nos -> RemoteStates \cup {"none"}]
      BY <1>0, <1>5, <2>2 DEF RowsOK, GetTask
    <3> QED BY <3>3, <3>4
  <2> QED BY <1>0, <1>5, <2>3 DEF RowsOK, GetTask, repo, counts
<1> QED BY <1>1, <1>2, <1>3, <1>4, <1>5

LEMMA CancelRows ==
    ASSUME TypeInv, NEW a \in Actors,
           CancelTask(a) \/ CancelFailed(a) \/ CancelAnswered(a) \/ CancelNotTerminal(a)
    PROVE  RowsOK'
<1>0. /\ RowsOK /\ Sound(proc[a]) /\ No(a) = proc[a].no /\ Copy(a) \in Record
  BY Sounds DEF TypeInv
<1>1. CASE CancelTask(a)
  <2>1. No(a) \in Nos
    BY <1>0, <1>1 DEF CancelTask, At, Sound, Counted, Recorded
  <2>2. Moved(No(a)) \subseteq RemoteStates \cup {"none"}
    BY <1>0, <2>1 DEF Moved, RowsOK, RemoteStates
  <2>3. remote' \in [Nos -> RemoteStates \cup {"none"}]
    BY <1>0, <1>1, <2>2 DEF RowsOK, CancelTask
  <2> QED BY <1>0, <1>1, <2>3 DEF RowsOK, CancelTask, repo, counts
<1>2. CASE CancelFailed(a)
  <2>1. rec' \in [Nos -> Record]
    BY <1>0, <1>2, SaveType
       DEF CancelFailed, FailIfOpen, RowsOK, Record, Statuses, Closed
  <2> QED BY <1>0, <1>2, <2>1 DEF RowsOK, CancelFailed, net, counts
<1>3. CASE CancelAnswered(a)
  <2>1. rec' \in [Nos -> Record]
    <3>1. CASE StatusOf(proc[a].reply) \in Transitions[Copy(a).status]
      <4>1. StatusOf(proc[a].reply) \in Statuses
        BY <1>0, <3>1, TransitionsType DEF Record
      <4> QED BY <1>3, <3>1, <4>1, SaveType DEF CancelAnswered, Advance
    <3> QED BY <1>0, <1>3, <3>1 DEF CancelAnswered, RowsOK
  <2> QED BY <1>0, <1>3, <2>1 DEF RowsOK, CancelAnswered, net, counts
<1>4. CASE CancelNotTerminal(a)
  <2>1. rec' \in [Nos -> Record]
    BY <1>0, <1>4, SaveType DEF CancelNotTerminal, RowsOK, Statuses, Closed
  <2> QED BY <1>0, <1>4, <2>1 DEF RowsOK, CancelNotTerminal, net, counts
<1> QED BY <1>1, <1>2, <1>3, <1>4

\* The steps that end, take away or give back the task.
LEMMA ReturnRows ==
    ASSUME TypeInv, NEW p \in Procs,
           \/ Ends(p) \/ Crash(p)
           \/ ReapDead(p) \/ RestartWorker(p) \/ ResumeEngine(p)
           \/ p \in Workers /\ ReapStalled(p)
    PROVE  RowsOK' /\ AttemptsLeft'
<1>0. /\ RowsOK /\ AttemptsLeft /\ p # Null /\ p \in Actors /\ Procs \subseteq Actors
      /\ proc[p] \in Process /\ Sound(proc[p]) /\ proc \in [Actors -> Process]
      /\ UnsafeToRedo \in BOOLEAN
      /\ MaxAttempts \in Nat /\ MaxReviews \in Nat /\ MaxAttempts <= MaxReviews
      /\ MaxCrashes \in Nat /\ MaxRivals \in Nat /\ Workers \cap Engines = {}
      /\ reviews \in Nat
  BY Sounds, DelegationAssumption
     DEF TypeInv, Procs, Actors, UnsafeToRedo, ProcsSound, RowsOK
<1>1. ASSUME NEW n \in Nat, proc[p].pc \in {"commit", "save"}, task' \in Outcomes(p, n)
      PROVE  \/ task' \in {"succeeded", "failed", "blocked"}
             \/ task' = "pending" /\ n < MaxAttempts
  <2>1. Retry(n) = "failed" \/ (Retry(n) = "pending" /\ n < MaxAttempts)
    BY <1>0 DEF Retry
  <2>2. proc[p].out \in {"ok", "blocked", "error"}
    BY <1>0, <1>1 DEF Process, Sound
  <2> QED BY <1>1, <2>1, <2>2 DEF Outcomes
<1>2. ASSUME NEW q \in Procs \ {p}, \/ proc' = [proc EXCEPT ![p] = Idle]
                                    \/ proc' = [proc EXCEPT ![p] = Crashed]
                                    \/ \E pc \in Steps : Goto(p, pc)
      PROVE  proc'[q] = proc[q]
  BY <1>0, <1>2 DEF Goto
<1>3. CASE Commit(p)
  <2>1. /\ p \in Workers /\ owner = p /\ task = "running" /\ reviews < MaxReviews
        /\ \A q \in Procs : proc[q].pc # "save"
        /\ reviews' = reviews + 1 /\ owner' = Null
        /\ proc[p].pc = "commit" /\ task' \in Outcomes(p, reviews + 1)
        /\ proc' = [proc EXCEPT ![p] = Idle]
    BY <1>0, <1>3 DEF Commit, At, AttemptsLeft
  <2>2. \/ task' \in {"succeeded", "failed", "blocked"}
        \/ task' = "pending" /\ reviews + 1 < MaxAttempts
    BY <1>0, <1>1, <2>1
  <2>3. RowsOK'
    BY <1>0, <1>3, <2>1, <2>2 DEF Commit, RowsOK, net, counts
  <2>4. \A q \in Procs : proc'[q].pc # "save"
    BY <1>0, <1>2, <2>1 DEF Idle
  <2> QED BY <1>0, <2>1, <2>2, <2>3, <2>4 DEF AttemptsLeft
<1>4. CASE SaveTask(p)
  <2>1. /\ p \in Engines /\ owner = p /\ task = "running" /\ proc[p].pc = "save"
        /\ \A q \in Procs \ {p} : proc[q].pc # "save"
        /\ reviews' = reviews /\ owner' = Null /\ task' \in Outcomes(p, reviews)
        /\ proc' = [proc EXCEPT ![p] = Idle]
    BY <1>0, <1>4 DEF SaveTask, At, AttemptsLeft
  <2>2. \/ task' \in {"succeeded", "failed", "blocked"}
        \/ task' = "pending" /\ reviews < MaxAttempts
    BY <1>0, <1>1, <2>1
  <2>3. RowsOK'
    BY <1>0, <1>4, <2>1, <2>2 DEF SaveTask, RowsOK, net, counts
  <2>4. \A q \in Procs : proc'[q].pc # "save"
    BY <1>0, <1>2, <2>1 DEF Idle
  <2> QED BY <1>0, <2>1, <2>2, <2>3, <2>4 DEF AttemptsLeft
<1>5. CASE SaveReview(p)
  <2>1. /\ p \in Engines /\ owner = p /\ task = "running" /\ reviews < MaxReviews
        /\ \A q \in Procs : proc[q].pc # "save"
        /\ reviews' = reviews + 1 /\ UNCHANGED <<task, owner>> /\ Goto(p, "save")
    BY <1>0, <1>5 DEF SaveReview, At, AttemptsLeft
  <2>2. RowsOK'
    BY <1>0, <1>5, <2>1 DEF SaveReview, RowsOK, net, counts
  <2>3. proc'[p].pc = "save" /\ \A q \in Procs \ {p} : proc'[q].pc # "save"
    BY <1>0, <1>2, <2>1 DEF Goto, Process, Steps
  <2> QED BY <1>0, <2>1, <2>2, <2>3 DEF AttemptsLeft
<1>6. CASE CommitStale(p) \/ RestartWorker(p)
  <2>1. UNCHANGED repo /\ (proc' = [proc EXCEPT ![p] = Idle] \/ Goto(p, "idle"))
        /\ proc[p].pc # "save"
    BY <1>6 DEF CommitStale, RestartWorker, At
  <2>2. RowsOK'
    BY <1>0, <1>6 DEF CommitStale, RestartWorker, RowsOK, repo, net, counts
  <2>3. \A q \in Procs : proc'[q].pc = "save" <=> proc[q].pc = "save"
    BY <1>0, <1>2, <2>1 DEF Goto, Process, Idle, Steps
  <2> QED BY <1>0, <2>1, <2>2, <2>3 DEF AttemptsLeft, repo
<1>7. CASE Crash(p)
  <2>1. /\ UNCHANGED <<task, owner, reviews>> /\ proc' = [proc EXCEPT ![p] = Crashed]
        /\ proc[p].pc = "save" => reviews < MaxReviews
        /\ torn' = torn \/ (proc[p].pc = "save" /\ torn' = torn \cup {reviews})
    BY <1>7 DEF Crash, repo, At
  <2>2. proc[p].pc = "save" => reviews \in Nos
    BY <1>0, <2>1 DEF AttemptsLeft, Nos
  <2>3. RowsOK'
    BY <1>0, <1>7, <2>1, <2>2 DEF Crash, RowsOK, repo, net
  <2>4. \A q \in Procs : proc'[q].pc = "save" <=> proc[q].pc = "save" /\ q # p
    BY <1>0, <1>2, <2>1 DEF Crashed, Idle
  <2>5. proc[p].pc # "save" \/ (reviews < MaxReviews)'
    BY <2>1
  <2> QED BY <1>0, <2>1, <2>3, <2>4, <2>5 DEF AttemptsLeft
<1>8. CASE ReapDead(p) \/ (p \in Workers /\ ReapStalled(p))
  <2>1. /\ task' \in {"pending", "blocked"} /\ task = "running" /\ owner = p
        /\ owner' = Null /\ UNCHANGED <<proc, reviews>>
        /\ \A q \in Procs : proc[q].pc # "save"
    BY <1>0, <1>8 DEF ReapDead, ReapStalled, Reaped, Recovered, AttemptsLeft, At
  <2>2. RowsOK'
    <3>1. gets' \in [Nos -> Nat] /\ torn' \subseteq Nos
      BY <1>0, <1>8 DEF ReapDead, ReapStalled, RivalJoins, RowsOK, net, counts
    <3> QED BY <1>0, <1>8, <2>1, <3>1
            DEF ReapDead, ReapStalled, Reaped, RowsOK, net, counts
  <2> QED BY <1>0, <2>1, <2>2 DEF AttemptsLeft
<1>9. CASE ResumeEngine(p)
  <2>1. /\ proc[p].pc = "crashed" /\ Goto(p, "idle") /\ reviews' = reviews
        /\ \/ owner = p /\ task' = "pending" /\ owner' = Null
           \/ UNCHANGED <<task, owner>>
    BY <1>9 DEF ResumeEngine, At
  <2>2. RowsOK'
    BY <1>0, <1>9 DEF ResumeEngine, RowsOK, net, counts
  <2>3. \A q \in Procs : proc'[q].pc = "save" <=> proc[q].pc = "save"
    BY <1>0, <1>2, <2>1 DEF Goto, Process, Steps
  <2> QED BY <1>0, <2>1, <2>2, <2>3 DEF AttemptsLeft
<1> QED BY <1>3, <1>4, <1>5, <1>6, <1>7, <1>8, <1>9 DEF Ends

\* Any other step leaves an engine's two saves alone.
LEMMA SameAttempt ==
    ASSUME TypeInv, UNCHANGED <<task, owner, reviews>>, NEW a \in Actors, Moves(a),
           proc[a].pc \notin {"commit", "save"}
    PROVE  AttemptsLeft'
<1>1. AttemptsLeft /\ Procs \subseteq Actors
  BY DEF TypeInv, Actors
<1>2. ~ SaveReview(a)
  BY DEF SaveReview, At
<1>3. \A p \in Procs : proc'[p].pc = "save" <=> proc[p].pc = "save"
  BY <1>1, <1>2 DEF Moves
<1> QED BY <1>1, <1>3 DEF AttemptsLeft

LEMMA ReadRows ==
    ASSUME TypeInv, OperatorReads
    PROVE  RowsOK' /\ AttemptsLeft'
<1>1. RowsOK'
  <2>1. gets' \in [Nos -> Nat]
    BY DEF OperatorReads, RivalJoins
  <2> QED BY <2>1, DelegationAssumption DEF TypeInv, OperatorReads, RowsOK, repo
<1>2. AttemptsLeft'
  <2>1. Operator \in Actors /\ proc[Operator].pc = "idle"
    BY DEF OperatorReads, At, Actors
  <2>2. UNCHANGED <<task, owner, reviews>>
    BY DEF OperatorReads, repo
  <2> QED BY <2>1, <2>2, ReadMoves, SameAttempt
<1> QED BY <1>1, <1>2

LEMMA StartAttempt ==
    ASSUME TypeInv, NEW p \in Procs, Start(p)
    PROVE  AttemptsLeft'
<1>1. /\ AttemptsLeft /\ Procs \subseteq Actors /\ p # Null /\ Moves(p) /\ p \in Actors
      /\ proc[p].pc = "idle" /\ task = "pending"
      /\ task' = "running" /\ owner' = p /\ reviews' = reviews
  BY EarlyMoves, DelegationAssumption DEF TypeInv, Actors, Procs, Start, At
<1>2. reviews < MaxReviews /\ \A q \in Procs : proc[q].pc # "save"
  BY <1>1, DelegationAssumption DEF AttemptsLeft, Procs
<1>3. \A q \in Procs : proc'[q].pc # "save"
  BY <1>1, <1>2 DEF Moves, SaveReview, At
<1> QED BY <1>1, <1>2, <1>3 DEF AttemptsLeft

LEMMA SameTask ==
    ASSUME NEW a \in Actors,
           \/ CountReviews(a) \/ LookUp(a) \/ Decide(a) \/ RecordDecision(a)
           \/ Prepare(a) \/ Submit(a) \/ SendDelivered(a) \/ SendUndelivered(a)
           \/ SaveUnknown(a) \/ SaveRefused(a)
           \/ ApplyState(a) \/ ApplyImpossible(a) \/ ApplyInvalid(a)
           \/ PollOnce(a) \/ GiveUp(a) \/ GetTask(a)
           \/ CancelTask(a) \/ CancelFailed(a) \/ CancelAnswered(a) \/ CancelNotTerminal(a)
    PROVE  UNCHANGED <<task, owner, reviews>> /\ proc[a].pc \notin {"commit", "save"}
BY DEF repo, At, CountReviews, LookUp, Decide, RecordDecision, Prepare, Submit,
       SendDelivered, SendUndelivered, SaveUnknown, SaveRefused,
       ApplyState, ApplyImpossible, ApplyInvalid, PollOnce, GiveUp, GetTask,
       CancelTask, CancelFailed, CancelAnswered, CancelNotTerminal

LEMMA TypesStep ==
    ASSUME TypeInv, [DNext]_dvars
    PROVE  TypeInv'
<1>1. ASSUME NEW p \in Procs, Start(p) \/ Delegate(p) \/ Crash(p)
      PROVE  RowsOK' /\ AttemptsLeft'
  <2>0. p \in Actors /\ AttemptsLeft
    BY DEF Actors, TypeInv
  <2>1. CASE Start(p)
    BY <2>1, EarlyRows, StartAttempt
  <2>2. CASE Ends(p) \/ Crash(p)
    BY <2>2, ReturnRows
  <2>3. CASE Delegate(p) /\ ~ Ends(p)
    <3>1. RowsOK'
      BY <2>0, <2>3, EarlyRows, SendRows, PollRows, CancelRows DEF Delegate, Ends
    <3>2. AttemptsLeft'
      BY <2>0, <2>3, EarlyMoves, SendMoves, PollMoves, CancelMoves, SameTask,
         SameAttempt DEF Delegate, Ends
    <3> QED BY <3>1, <3>2
  <2> QED BY <1>1, <2>1, <2>2, <2>3
<1>2. ASSUME NEW w \in Workers, ReapDead(w) \/ ReapStalled(w) \/ RestartWorker(w)
      PROVE  RowsOK' /\ AttemptsLeft'
  BY <1>2, ReturnRows DEF Procs
<1>3. ASSUME NEW e \in Engines, ResumeEngine(e)
      PROVE  RowsOK' /\ AttemptsLeft'
  BY <1>3, ReturnRows DEF Procs
<1>4. ASSUME OperatorCancels
      PROVE  RowsOK' /\ AttemptsLeft'
  BY <1>4, ReadRows, CancelMoves, CancelRows, SameTask, SameAttempt
     DEF OperatorCancels, Actors
<1>5. CASE DNext
  <2>1. ProcsSound'
    BY <1>5, ProcsStaySound
  <2>2. RowsOK' /\ AttemptsLeft'
    BY <1>1, <1>2, <1>3, <1>4, <1>5 DEF DNext, Recover
  <2> QED BY <2>1, <2>2 DEF TypeInv
<1>6. CASE UNCHANGED dvars
  <2>1. /\ UNCHANGED <<task, owner, reviews, decision, rec, latest, proc>>
        /\ UNCHANGED <<remote, posts, gets, crashes, stalls, cancels, torn>>
    BY <1>6 DEF dvars, repo, net, counts
  <2>2. ProcsSound' /\ AttemptsLeft'
    BY <2>1 DEF TypeInv, ProcsSound, Sound, AttemptsLeft
  <2>3. RowsOK'
    BY <2>1 DEF TypeInv, RowsOK
  <2> QED BY <2>2, <2>3 DEF TypeInv
<1> QED BY <1>5, <1>6

LEMMA TypesInit ==
    ASSUME DInit
    PROVE  TypeInv
<1>1. Idle \in Process /\ NoRecord \in Record
  BY DelegationAssumption DEF Idle, Process, Steps, Replies, Record, NoRecord
<1>2. ProcsSound
  BY <1>1 DEF DInit, ProcsSound, Sound, Idle, Counted, Blank, Recorded
<1>3. RowsOK
  BY <1>1, DelegationAssumption DEF DInit, RowsOK
<1>4. AttemptsLeft
  <2>1. \A p \in Procs : proc[p].pc # "save"
    BY DEF DInit, Idle, Procs, Actors
  <2>2. reviews < MaxReviews /\ owner = Null /\ task = "pending"
    BY DelegationAssumption DEF DInit
  <2> QED BY <2>1, <2>2 DEF AttemptsLeft
<1> QED BY <1>2, <1>3, <1>4 DEF TypeInv

\* A process never counts past the attempts the task has, a record never holds
\* more polls than its budget, and nothing else leaves its type.
THEOREM DelegationTypes == DSpec => []DTypeOK
<1>1. TypeInv => DTypeOK
  BY DEF TypeInv, ProcsSound, RowsOK, DTypeOK
<1>2. DInit => TypeInv
  BY TypesInit
<1>3. TypeInv /\ [DNext]_dvars => TypeInv'
  BY TypesStep
<1> QED BY <1>1, <1>2, <1>3, PTL DEF DSpec

-----------------------------------------------------------------------------
(* What a step does to the shared rows.                                    *)

\* The polls are no longer counted, and no process is alone.
RivalJoined == RivalJoins /\ ~ Alone'

LEMMA RivalsJoin ==
    ASSUME TypeInv, OperatorReads \/ \E w \in Workers : ReapStalled(w)
    PROVE  RivalJoined
<1>1. stalls \in Nat /\ cancels \in Nat
  BY DEF TypeInv, RowsOK
<1>2. CASE OperatorReads
  <2>1. RivalJoins /\ cancels' = cancels + 1
    BY <1>2 DEF OperatorReads
  <2> QED BY <1>1, <2>1 DEF RivalJoined, Alone
<1>3. ASSUME NEW w \in Workers, ReapStalled(w)
      PROVE  RivalJoined
  <2>1. RivalJoins /\ stalls' = stalls + 1
    BY <1>3 DEF ReapStalled
  <2> QED BY <1>1, <2>1 DEF RivalJoined, Alone
<1> QED BY <1>2, <1>3

\* An actor's step writes no record but that of its attempt, and leaves it
\* there; it decides, sends and polls only in the actions named for it.
Writes(a) ==
    /\ \/ rec' = rec
       \/ Prepare(a)
       \/ /\ proc[a].pc \in Recorded
          /\ \E r \in Record :
                /\ r.status # "none"
                /\ rec' = [rec EXCEPT ![No(a)] = r]
                /\ IF PollOnce(a)
                   THEN /\ r.polls = Copy(a).polls + 1
                        /\ proc'[a].copy.polls = r.polls
                   ELSE r.polls \in {Copy(a).polls, rec[No(a)].polls}
    /\ decision' = decision \/ RecordDecision(a)
    /\ posts' = posts \/ SendDelivered(a)
    /\ gets' = gets \/ GetTask(a) \/ RivalJoined

Unwritten == UNCHANGED <<rec, decision, posts>> /\ (gets' = gets \/ RivalJoined)

LEMMA UnwrittenWrites ==
    ASSUME NEW a \in Actors, Unwritten
    PROVE  Writes(a)
BY DEF Unwritten, Writes

LEMMA OwnWrites ==
    ASSUME TypeInv, NEW a \in Actors, proc[a].pc \in Recorded, ~ PollOnce(a),
           \/ \E s \in Statuses : Save(a, s)
           \/ FailIfOpen(No(a))
           \/ rec' = rec,
           UNCHANGED <<decision, posts, gets>>
    PROVE  Writes(a)
<1>0. No(a) \in Nos /\ rec[No(a)] \in Record /\ Copy(a) \in Record /\ rec \in [Nos -> Record]
  BY Sounds DEF TypeInv, RowsOK, Sound, Counted
<1>1. ASSUME NEW s \in Statuses, Save(a, s)
      PROVE  Writes(a)
  <2> DEFINE r == [Copy(a) EXCEPT !.status = s]
  <2>1. /\ r \in Record /\ r.status # "none" /\ r.polls = Copy(a).polls
        /\ rec' = [rec EXCEPT ![No(a)] = r]
    BY <1>0, <1>1 DEF Record, Save, Statuses, Open, Closed
  <2> HIDE DEF r
  <2> QED BY <2>1 DEF Writes
<1>2. CASE rec' = [rec EXCEPT ![No(a)].status = "failed"]
  <2> DEFINE r == [rec[No(a)] EXCEPT !.status = "failed"]
  <2>1. /\ r \in Record /\ r.status # "none" /\ r.polls = rec[No(a)].polls
        /\ rec' = [rec EXCEPT ![No(a)] = r]
    BY <1>0, <1>2 DEF Record, Statuses, Closed
  <2> HIDE DEF r
  <2> QED BY <2>1 DEF Writes
<1>3. CASE rec' = rec
  BY <1>3 DEF Writes
<1> QED BY <1>1, <1>2, <1>3 DEF FailIfOpen

LEMMA CancelWrites ==
    ASSUME TypeInv, NEW a \in Actors,
           CancelTask(a) \/ CancelFailed(a) \/ CancelAnswered(a) \/ CancelNotTerminal(a)
    PROVE  Writes(a)
<1>0. proc[a].pc \in Recorded /\ ~ PollOnce(a) /\ Copy(a) \in Record
  BY Sounds
     DEF CancelTask, CancelFailed, CancelAnswered, CancelNotTerminal,
         At, Recorded, PollOnce, TypeInv
<1>1. CASE CancelTask(a)
  BY <1>1, UnwrittenWrites DEF CancelTask, Unwritten, repo
<1>2. CASE CancelFailed(a)
  BY <1>0, <1>2, OwnWrites DEF CancelFailed, net, Statuses, Closed
<1>3. CASE CancelAnswered(a)
  <2> DEFINE s == StatusOf(proc[a].reply)
  <2>1. s \in Transitions[Copy(a).status] => s \in Statuses
    BY <1>0, TransitionsType DEF Record
  <2>2. (s \in Statuses /\ Save(a, s)) \/ rec' = rec
    BY <1>3, <2>1 DEF CancelAnswered, Advance
  <2> HIDE DEF s
  <2> QED BY <1>0, <1>3, <2>2, OwnWrites DEF CancelAnswered, net
<1>4. CASE CancelNotTerminal(a)
  BY <1>0, <1>4, OwnWrites DEF CancelNotTerminal, net, Statuses, Closed
<1> QED BY <1>1, <1>2, <1>3, <1>4

LEMMA DelegateWrites ==
    ASSUME TypeInv, NEW p \in Procs, Delegate(p)
    PROVE  Writes(p)
<1>0. /\ p \in Actors /\ Copy(p) \in Record /\ proc[p] \in Process
  BY Sounds DEF TypeInv, Actors
<1>1. CASE CountReviews(p) \/ LookUp(p) \/ Decide(p) \/ CommitStale(p)
           \/ SendUndelivered(p) \/ ApplyImpossible(p) \/ GiveUp(p) \/ Commit(p)
           \/ SaveReview(p) \/ SaveTask(p)
  BY <1>0, <1>1, UnwrittenWrites
     DEF Unwritten, repo, net, CountReviews, LookUp, Decide, CommitStale,
         SendUndelivered, ApplyImpossible, GiveUp, Commit, SaveReview, SaveTask
<1>2. CASE RecordDecision(p) \/ Prepare(p) \/ SendDelivered(p) \/ GetTask(p)
  BY <1>2 DEF Writes, repo, net, RecordDecision, Prepare, SendDelivered, GetTask
<1>3. CASE Submit(p) \/ SaveUnknown(p) \/ SaveRefused(p) \/ ApplyInvalid(p)
  BY <1>0, <1>3, OwnWrites
     DEF Submit, SaveUnknown, SaveRefused, ApplyInvalid, Advance, At, Recorded,
         net, PollOnce, Statuses, Open, Closed
<1>4. CASE ApplyState(p)
  <2>1. StatusOf(proc[p].reply) \in Statuses
    BY <1>0, <1>4, TransitionsType DEF ApplyState, Record
  <2> QED BY <1>0, <1>4, <2>1, OwnWrites
          DEF ApplyState, Advance, At, Recorded, net, PollOnce
<1>5. CASE PollOnce(p)
  <2> DEFINE r == [status |-> "accepted", polls |-> Copy(p).polls + 1]
  <2>1. /\ r \in Record /\ r.status # "none" /\ r.polls = Copy(p).polls + 1
        /\ rec' = [rec EXCEPT ![No(p)] = r]
    BY <1>0, <1>5, DelegationAssumption DEF PollOnce, Record, Statuses, Open
  <2>2. proc'[p].copy = r /\ proc[p].pc = "poll"
    BY <1>0, <1>5 DEF PollOnce, At, TypeInv, ProcsSound, Process
  <2> HIDE DEF r
  <2> QED BY <1>5, <2>1, <2>2 DEF Writes, PollOnce, net, Recorded
<1>6. CASE CancelTask(p) \/ CancelFailed(p) \/ CancelAnswered(p) \/ CancelNotTerminal(p)
  BY <1>0, <1>6, CancelWrites
<1> QED BY <1>1, <1>2, <1>3, <1>4, <1>5, <1>6 DEF Delegate

LEMMA OneWrites ==
    ASSUME TypeInv, DNext
    PROVE  \/ \E p \in Procs : Moves(p) /\ Writes(p)
           \/ Unwritten /\ UNCHANGED proc
           \/ OperatorCancels /\ Moves(Operator) /\ Writes(Operator)
<1>1. ASSUME NEW p \in Procs, Start(p) \/ Delegate(p) \/ Crash(p)
      PROVE  \E a \in Procs : Moves(a) /\ Writes(a)
  <2>1. p \in Actors
    BY DEF Actors
  <2>2. Moves(p)
    BY <1>1, <2>1, EarlyMoves, SendMoves, PollMoves, CancelMoves, ReturnMoves
       DEF Delegate, Ends
  <2>3. Writes(p)
    BY <1>1, <2>1, DelegateWrites, UnwrittenWrites
       DEF Start, Crash, Unwritten, repo, net
  <2> QED BY <2>1, <2>2, <2>3
<1>2. ASSUME NEW w \in Workers, ReapDead(w) \/ ReapStalled(w) \/ RestartWorker(w)
      PROVE  \/ \E a \in Procs : Moves(a) /\ Writes(a)
             \/ Unwritten /\ UNCHANGED proc
  <2>1. w \in Actors /\ w \in Procs
    BY DEF Actors, Procs
  <2>2. Unwritten
    BY <1>2, RivalsJoin
       DEF ReapDead, ReapStalled, Reaped, RestartWorker, Unwritten, repo, net
  <2> QED BY <1>2, <2>1, <2>2, ReturnMoves, UnwrittenWrites DEF ReapDead, ReapStalled
<1>3. ASSUME NEW e \in Engines, ResumeEngine(e)
      PROVE  \E a \in Procs : Moves(a) /\ Writes(a)
  <2>1. e \in Actors /\ e \in Procs
    BY DEF Actors, Procs
  <2>2. Unwritten
    BY <1>3 DEF ResumeEngine, Unwritten, net
  <2> QED BY <1>3, <2>1, <2>2, ReturnMoves, UnwrittenWrites
<1>4. ASSUME OperatorCancels
      PROVE  Moves(Operator) /\ Writes(Operator)
  <2>1. Operator \in Actors
    BY DEF Actors
  <2>2. Moves(Operator)
    BY <1>4, <2>1, ReadMoves, CancelMoves DEF OperatorCancels
  <2>3. Writes(Operator)
    BY <1>4, <2>1, CancelWrites, RivalsJoin, UnwrittenWrites
       DEF OperatorCancels, OperatorReads, Unwritten, repo
  <2> QED BY <2>1, <2>2, <2>3
<1> QED BY <1>1, <1>2, <1>3, <1>4 DEF DNext, Recover

-----------------------------------------------------------------------------
(* One message per attempt.                                                *)

\* A process about to send has an allowing decision on record.
DecidedFirst ==
    \A a \in Actors : proc[a].pc \in Authorised => decision[proc[a].no] = "allow"

\* A process at a record has one in the repository, and nothing was asked of
\* the remote agent for an attempt without a record.
RecordFirst ==
    /\ \A a \in Actors : proc[a].pc \in Recorded => rec[proc[a].no].status # "none"
    /\ \A n \in Nos : rec[n].status = "none" => posts[n] = 0 /\ gets[n] = 0

\* Of the processes that may still send, each has an attempt of its own, whose
\* message has not been sent.
OneSender ==
    /\ \A a \in Actors : proc[a].pc \in Sending => posts[proc[a].no] = 0
    /\ \A a, b \in Actors :
          proc[a].pc \in Sending /\ proc[b].pc \in Sending /\ a # b =>
             proc[a].no # proc[b].no

SentAtMostOnce ==
    \A n \in Nos : posts[n] <= 1 /\ (posts[n] > 0 => decision[n] = "allow")

Once == DecidedFirst /\ RecordFirst /\ OneSender /\ SentAtMostOnce

\* What a writing step keeps.
LEMMA Kept ==
    ASSUME TypeInv, NEW a \in Actors, Writes(a), NEW n \in Nos
    PROVE  /\ rec[n].status # "none" => rec'[n].status # "none"
           /\ decision[n] = "allow" => decision'[n] = "allow"
           /\ posts'[n] # posts[n] => SendDelivered(a) /\ n = No(a)
           /\ gets'[n] \in {gets[n], 0} \/ (GetTask(a) /\ n = No(a) /\ gets'[n] = gets[n] + 1)
<1>0. RowsOK
  BY DEF TypeInv
<1>1. rec[n].status # "none" => rec'[n].status # "none"
  BY <1>0 DEF Writes, Prepare, Unrecorded, RowsOK
<1>2. decision[n] = "allow" => decision'[n] = "allow"
  BY <1>0 DEF Writes, RecordDecision, Undecided, RowsOK
<1>3. posts'[n] # posts[n] => SendDelivered(a) /\ n = No(a)
  BY <1>0 DEF Writes, SendDelivered, RowsOK
<1>4. \/ gets'[n] \in {gets[n], 0}
      \/ GetTask(a) /\ n = No(a) /\ gets'[n] = gets[n] + 1
  BY <1>0 DEF Writes, GetTask, RivalJoined, RivalJoins, RowsOK
<1> QED BY <1>1, <1>2, <1>3, <1>4

LEMMA LeaveEnds ==
    ASSUME ProcsSound, NEW a \in Actors, NEW out, Leave(a, out)
    PROVE  proc'[a].pc \in {"idle", "commit"}
<1>1. CASE a = Operator
  BY <1>1 DEF ProcsSound, Leave, Idle
<1>2. CASE a # Operator
  <2>1. proc' = [proc EXCEPT ![a] = [Idle EXCEPT !.pc = "commit", !.out = out]]
    BY <1>2 DEF Leave
  <2> QED BY <2>1 DEF ProcsSound, Idle
<1> QED BY <1>1, <1>2

\* Which process is sent on by the evaluation of the policies...
LEMMA AllowedOnRecord ==
    ASSUME TypeInv, NEW a \in Actors, Decide(a) \/ RecordDecision(a),
           proc'[a].pc \in Authorised
    PROVE  /\ No(a) \in Nos /\ proc'[a].no = No(a)
           /\ decision'[No(a)] = "allow"
<1>0. /\ proc[a] \in Process /\ ProcsSound /\ RowsOK /\ proc \in [Actors -> Process]
      /\ No(a) = proc[a].no /\ No(a) \in Nos
  BY Sounds DEF TypeInv, ProcsSound, Sound, Decide, RecordDecision, At, Counted
<1>1. CASE Decide(a)
  <2>1. ~ Leave(a, "blocked")
    BY <1>0, LeaveEnds DEF Authorised
  <2>2. ASSUME NEW v, proc' = [proc EXCEPT ![a].pc = "record", ![a].verdict = v]
        PROVE  FALSE
    <3>1. proc'[a].pc = "record"
      BY <1>0, <2>2 DEF Process
    <3> QED BY <3>1 DEF Authorised
  <2>3. /\ decision[No(a)] = "allow" /\ decision' = decision
        /\ proc' = [proc EXCEPT ![a] = [proc[a] EXCEPT !.pc = "prepare"]]
    BY <1>1, <2>1, <2>2 DEF Decide, Goto, repo
  <2> QED BY <1>0, <2>3 DEF Process
<1>2. CASE RecordDecision(a)
  <2>1. ~ Leave(a, "blocked") /\ ~ Leave(a, "error")
    BY <1>0, LeaveEnds DEF Authorised
  <2>2. /\ decision' = [decision EXCEPT ![No(a)] = "allow"]
        /\ proc' = [proc EXCEPT ![a] = [proc[a] EXCEPT !.pc = "prepare",
                                                       !.verdict = "none"]]
    BY <1>2, <2>1 DEF RecordDecision, Allowed
  <2> QED BY <1>0, <2>2 DEF Process, RowsOK
<1> QED BY <1>1, <1>2

\* ...by the record it inserts...
LEMMA PreparedRecord ==
    ASSUME TypeInv, NEW a \in Actors, Prepare(a), proc'[a].pc \in Recorded
    PROVE  /\ No(a) \in Nos /\ proc'[a].no = No(a) /\ proc'[a].pc = "submit"
           /\ Unrecorded(a) /\ proc'[a].copy.polls = 0
           /\ rec' = [rec EXCEPT ![No(a)] = [status |-> "prepared", polls |-> 0]]
<1>0. /\ proc[a] \in Process /\ ProcsSound /\ proc \in [Actors -> Process]
      /\ No(a) = proc[a].no /\ No(a) \in Nos /\ proc[a].copy = NoRecord
  BY Sounds DEF TypeInv, ProcsSound, Sound, Prepare, At, Counted, Blank
<1>1. ~ Leave(a, "blocked") /\ ~ Leave(a, "error")
  BY <1>0, LeaveEnds DEF Recorded
<1>2. /\ Unrecorded(a)
      /\ rec' = [rec EXCEPT ![No(a)] = [status |-> "prepared", polls |-> 0]]
      /\ proc' = [proc EXCEPT ![a] = [proc[a] EXCEPT !.pc = "submit",
                                                     !.copy.status = "prepared"]]
  BY <1>1 DEF Prepare
<1> QED BY <1>0, <1>2 DEF Process, NoRecord, Record

\* ...by one it finds, or by one the operator reads.
LEMMA RecordFound ==
    ASSUME TypeInv, NEW a \in Actors, LookUp(a), proc'[a].pc \in Recorded
    PROVE  /\ No(a) \in Nos /\ proc'[a].no = No(a) /\ rec' = rec
           /\ proc'[a].copy = rec[No(a)] /\ rec[No(a)].status # "none"
<1>0. /\ proc[a] \in Process /\ ProcsSound /\ proc \in [Actors -> Process]
      /\ No(a) = proc[a].no /\ No(a) \in Nos
  BY Sounds DEF TypeInv, ProcsSound, Sound, LookUp, At, Counted
<1>1. ~ Leave(a, "blocked") /\ ~ Leave(a, "ok")
  BY <1>0, LeaveEnds DEF Recorded
<1>2. ~ Goto(a, "decide")
  <2>1. ASSUME Goto(a, "decide") PROVE FALSE
    <3>1. proc'[a].pc = "decide"
      BY <1>0, <2>1 DEF Goto, Process
    <3> QED BY <3>1 DEF Recorded
  <2> QED BY <2>1
<1>3. /\ rec' = rec /\ rec[No(a)].status \in {"submitting", "accepted"}
      /\ \E pc \in {"doubt", "poll"} :
            proc' = [proc EXCEPT ![a] = [proc[a] EXCEPT !.pc = pc, !.copy = rec[No(a)]]]
  BY <1>1, <1>2 DEF LookUp, Found, InDoubt, repo
<1> QED BY <1>0, <1>3 DEF Process

LEMMA OnceStep ==
    ASSUME TypeInv, Once, NEW a \in Actors, Moves(a), Writes(a)
    PROVE  Once'
<1>0. /\ RowsOK /\ ProcsSound /\ Sound(proc[a]) /\ No(a) = proc[a].no
      /\ Sound(proc'[a]) /\ \A b \in Actors \ {a} : proc'[b] = proc[b]
      /\ \A b \in Actors : Sound(proc[b])
  BY Sounds DEF TypeInv, Moves, ProcsSound
<1>1. DecidedFirst'
  <2>1. ASSUME NEW b \in Actors \ {a}, proc'[b].pc \in Authorised
        PROVE  decision'[proc'[b].no] = "allow"
    BY <1>0, <2>1, Kept DEF Once, DecidedFirst, Sound, Authorised, Counted, Recorded
  <2>2. ASSUME proc'[a].pc \in Authorised
        PROVE  decision'[proc'[a].no] = "allow"
    <3>1. CASE proc[a].pc \in Authorised /\ proc'[a].no = proc[a].no
      BY <1>0, <3>1, Kept DEF Once, DecidedFirst, Sound, Authorised, Counted, Recorded
    <3>2. CASE Decide(a) \/ RecordDecision(a)
      BY <2>2, <3>2, AllowedOnRecord
    <3> QED BY <2>2, <3>1, <3>2 DEF Moves
  <2> QED BY <2>1, <2>2 DEF DecidedFirst
<1>2. RecordFirst'
  <2>1. ASSUME NEW b \in Actors \ {a}, proc'[b].pc \in Recorded
        PROVE  rec'[proc'[b].no].status # "none"
    BY <1>0, <2>1, Kept DEF Once, RecordFirst, Sound, Counted
  <2>2. ASSUME proc'[a].pc \in Recorded
        PROVE  rec'[proc'[a].no].status # "none"
    <3>1. CASE proc[a].pc \in Recorded /\ proc'[a].no = proc[a].no
      BY <1>0, <3>1, Kept DEF Once, RecordFirst, Sound, Counted
    <3>2. CASE Prepare(a)
      BY <1>0, <2>2, <3>2, PreparedRecord DEF RowsOK
    <3>3. CASE LookUp(a)
      BY <2>2, <3>3, RecordFound
    <3>4. CASE OperatorReads
      <4>1. rec' = rec /\ Operator \in Actors
        BY <3>4 DEF OperatorReads, repo, Actors
      <4>2. CASE a = Operator
        BY <1>0, <3>4, <4>1, <4>2 DEF OperatorReads, ProcsSound
      <4>3. CASE a # Operator
        <5>1. proc'[a] = proc[a]
          BY <3>4, <4>3, <1>0 DEF OperatorReads, ProcsSound
        <5> QED BY <2>2, <4>1, <5>1 DEF Once, RecordFirst
      <4> QED BY <4>2, <4>3
    <3> QED BY <2>2, <3>1, <3>2, <3>3, <3>4 DEF Moves
  <2>3. ASSUME NEW n \in Nos, rec'[n].status = "none"
        PROVE  posts'[n] = 0 /\ gets'[n] = 0
    <3>1. rec[n].status = "none" /\ posts[n] = 0 /\ gets[n] = 0
      BY <2>3, Kept DEF Once, RecordFirst
    <3>2. ~ (SendDelivered(a) /\ n = No(a)) /\ ~ (GetTask(a) /\ n = No(a))
      BY <1>0, <3>1 DEF SendDelivered, GetTask, At, Recorded, Once, RecordFirst
    <3> QED BY <3>1, <3>2, Kept
  <2> QED BY <2>1, <2>2, <2>3 DEF RecordFirst
<1>3. ASSUME NEW b \in Actors, proc'[b].pc \in Sending
      PROVE  /\ posts'[proc'[b].no] = 0
             /\ \A c \in Actors \ {b} :
                   proc[c].pc \in Sending => proc'[b].no # proc[c].no
  <2>1. CASE proc[b].pc \in Sending /\ proc'[b].no = proc[b].no
    <3>1. proc[b].no \in Nos /\ posts[proc[b].no] = 0
      BY <1>0, <2>1 DEF Once, OneSender, Sound, Sending, Counted, Recorded
    <3>2. posts'[proc[b].no] = posts[proc[b].no]
      <4>1. ASSUME SendDelivered(a), proc[b].no = No(a)
            PROVE  FALSE
        <5>1. proc[a].pc \in Sending
          BY <4>1 DEF SendDelivered, At, Sending
        <5>2. b = a
          BY <1>0, <2>1, <4>1, <5>1 DEF Once, OneSender
        <5>3. proc'[a].pc \in {"apply", "doubt", "idle", "commit"}
          BY <1>0, <4>1, LeaveEnds
             DEF SendDelivered, Answered, Goto, ProcsSound, Process
        <5> QED BY <1>3, <5>2, <5>3 DEF Sending
      <4> QED BY <3>1, <4>1, Kept
    <3> QED BY <2>1, <3>1, <3>2 DEF Once, OneSender
  <2>2. CASE b = a /\ Prepare(a)
    <3>1. /\ No(a) \in Nos /\ proc'[a].no = No(a) /\ rec[No(a)].status = "none"
      BY <1>3, <2>2, PreparedRecord DEF Sending, Recorded, Unrecorded
    <3>2. posts[No(a)] = 0 /\ ~ SendDelivered(a)
      BY <2>2, <3>1 DEF Once, RecordFirst, Prepare, SendDelivered, At
    <3>3. \A c \in Actors : proc[c].pc \in Sending => proc[c].no # No(a)
      BY <3>1 DEF Once, RecordFirst, Sending, Recorded
    <3> QED BY <2>2, <3>1, <3>2, <3>3, Kept
  <2>3. b # a => proc'[b] = proc[b]
    BY <1>0
  <2> QED BY <1>3, <2>1, <2>2, <2>3 DEF Moves
<1>4. OneSender'
  <2>1. ASSUME NEW b \in Actors, NEW c \in Actors, b # c,
               proc'[b].pc \in Sending, proc'[c].pc \in Sending
        PROVE  proc'[b].no # proc'[c].no
    <3>1. CASE b = a
      BY <1>0, <1>3, <2>1, <3>1
    <3>2. CASE b # a
      BY <1>0, <1>3, <2>1, <3>2
    <3> QED BY <3>1, <3>2
  <2> QED BY <1>3, <2>1 DEF OneSender
<1>5. SentAtMostOnce'
  <2>1. ASSUME NEW n \in Nos
        PROVE  posts'[n] <= 1 /\ (posts'[n] > 0 => decision'[n] = "allow")
    <3>1. CASE posts'[n] = posts[n]
      BY <3>1, Kept DEF Once, SentAtMostOnce
    <3>2. CASE posts'[n] # posts[n]
      <4>1. SendDelivered(a) /\ n = No(a)
        BY <3>2, Kept
      <4>2. posts[n] = 0 /\ decision[n] = "allow"
        BY <1>0, <4>1
           DEF SendDelivered, At, Sending, Authorised, Once, OneSender, DecidedFirst
      <4>3. posts'[n] = 1
        BY <1>0, <4>1, <4>2 DEF SendDelivered, RowsOK
      <4> QED BY <4>2, <4>3, Kept
    <3> QED BY <3>1, <3>2
  <2> QED BY <2>1 DEF SentAtMostOnce
<1> QED BY <1>1, <1>2, <1>4, <1>5 DEF Once

-----------------------------------------------------------------------------
(* The budget of polls.                                                    *)

\* While no claim expires, only the process that owns the task is at work on
\* it, and no operator is who has not begun to cancel.
OwnerWorks ==
    stalls = 0 =>
       \A p \in Procs : proc[p].pc \notin {"idle", "crashed"} => owner = p

OneAtWork == (cancels = 0 => proc[Operator].pc = "idle") /\ OwnerWorks

\* It knows the polls that were saved, and no poll was sent before it was saved.
PollsCounted ==
    Alone =>
       /\ \A p \in Procs : proc[p].pc \in Recorded =>
             proc[p].copy.polls = rec[proc[p].no].polls
       /\ \A n \in Nos : gets[n] <= rec[n].polls
       /\ \A p \in Procs : proc[p].pc = "get" =>
             gets[proc[p].no] < rec[proc[p].no].polls

BudgetInv == TypeInv /\ Once /\ OneAtWork /\ PollsCounted

LEMMA SameCounts ==
    ASSUME NEW a \in Actors,
           \/ CountReviews(a) \/ LookUp(a) \/ Decide(a) \/ RecordDecision(a)
           \/ Prepare(a) \/ Submit(a) \/ SendDelivered(a) \/ SendUndelivered(a)
           \/ SaveUnknown(a) \/ SaveRefused(a)
           \/ ApplyState(a) \/ ApplyImpossible(a) \/ ApplyInvalid(a)
           \/ PollOnce(a) \/ GiveUp(a) \/ GetTask(a)
           \/ CancelTask(a) \/ CancelFailed(a) \/ CancelAnswered(a) \/ CancelNotTerminal(a)
           \/ Ends(a) \/ Start(a) \/ Crash(a)
           \/ ReapDead(a) \/ RestartWorker(a) \/ ResumeEngine(a)
    PROVE  UNCHANGED <<stalls, cancels>>
BY DEF counts, Ends, SaveReview, SaveTask, CountReviews, LookUp, Decide, RecordDecision, Prepare, Submit,
       SendDelivered, SendUndelivered, SaveUnknown, SaveRefused,
       ApplyState, ApplyImpossible, ApplyInvalid, PollOnce, GiveUp, GetTask,
       CancelTask, CancelFailed, CancelAnswered, CancelNotTerminal, Commit,
       CommitStale, Start, Crash, ReapDead, RestartWorker, ResumeEngine

LEMMA NoStall ==
    ASSUME TypeInv, DNext, stalls' = 0
    PROVE  stalls = 0 /\ \A w \in Workers : ~ ReapStalled(w)
<1>1. stalls \in Nat /\ cancels \in Nat
  BY DEF TypeInv, RowsOK
<1>2. \A w \in Workers : ~ ReapStalled(w)
  BY <1>1 DEF ReapStalled
<1>3. OperatorReads => stalls' = stalls
  BY DEF OperatorReads
<1> QED BY <1>2, <1>3, SameCounts DEF DNext, Recover, Delegate, Ends, OperatorCancels, Actors, Procs

LEMMA AloneBefore ==
    ASSUME TypeInv, OneAtWork, DNext, Alone'
    PROVE  Alone /\ ~ OperatorCancels /\ \A w \in Workers : ~ ReapStalled(w)
<1>1. stalls \in Nat /\ cancels \in Nat
  BY DEF TypeInv, RowsOK
<1>2. UNCHANGED <<stalls, cancels>> \/ OperatorReads \/ \E w \in Workers : ReapStalled(w)
  BY SameCounts DEF DNext, Recover, Delegate, Ends, OperatorCancels, Actors, Procs
<1>3. ~ OperatorReads
  <2>1. ASSUME OperatorReads PROVE FALSE
    BY <1>1, <2>1 DEF OperatorReads, Alone
  <2> QED BY <2>1
<1>4. \A w \in Workers : ~ ReapStalled(w)
  BY <1>1 DEF ReapStalled, Alone
<1>5. Alone
  BY <1>2, <1>3, <1>4 DEF Alone
<1>6. ~ OperatorCancels
  BY <1>3, <1>5 DEF OperatorCancels, OneAtWork, Alone, CancelTask, CancelFailed,
                    CancelAnswered, CancelNotTerminal, At
<1> QED BY <1>4, <1>5, <1>6

LEMMA OperatorIdle ==
    ASSUME TypeInv, DNext, cancels' = 0, cancels = 0 => proc[Operator].pc = "idle"
    PROVE  proc'[Operator].pc = "idle"
<1>1. cancels = 0 /\ ~ OperatorReads
  <2>1. stalls \in Nat /\ cancels \in Nat
    BY DEF TypeInv, RowsOK
  <2>2. ~ OperatorReads
    <3>1. OperatorReads => cancels' = cancels + 1
      BY DEF OperatorReads
    <3> QED BY <2>1, <3>1
  <2>3. \A w \in Workers : ReapStalled(w) => cancels' = cancels
    BY DEF ReapStalled
  <2> QED BY <2>2, <2>3, SameCounts DEF DNext, Recover, Delegate, Ends, OperatorCancels, Actors, Procs
<1>2. proc[Operator].pc = "idle" /\ ~ OperatorCancels
  BY <1>1 DEF OperatorCancels, CancelTask, CancelFailed, CancelAnswered,
              CancelNotTerminal, At
<1>3. Operator \in Actors
  BY DEF Actors
<1> QED BY <1>2, <1>3, OwnStep, DelegationAssumption DEF Procs

LEMMA WorkStep ==
    ASSUME TypeInv, OneAtWork, DNext
    PROVE  OneAtWork'
<1> SUFFICES ASSUME stalls' = 0
             PROVE  \A p \in Procs :
                       proc'[p].pc \notin {"idle", "crashed"} => owner' = p
  BY OperatorIdle DEF OneAtWork, OwnerWorks
<1>0. /\ stalls = 0 /\ \A w \in Workers : ~ ReapStalled(w)
      /\ \A p \in Procs : proc[p].pc \notin {"idle", "crashed"} => owner = p
      /\ \A p \in Procs : p # Null /\ p # Operator
      /\ Operator \in Actors /\ Procs \subseteq Actors /\ AttemptsLeft
      /\ proc \in [Actors -> Process]
  BY NoStall, DelegationAssumption
     DEF OneAtWork, OwnerWorks, Procs, Actors, TypeInv, ProcsSound
<1>1. ASSUME NEW p \in Procs, Start(p)
      PROVE  /\ owner' = p
             /\ \A q \in Procs \ {p} : proc'[q].pc \in {"idle", "crashed"}
  BY <1>0, <1>1 DEF Start, Goto, AttemptsLeft
<1>2. ASSUME NEW p \in Procs, SaveReview(p) \/ (Delegate(p) /\ ~ Ends(p))
      PROVE  /\ owner' = p
             /\ \A q \in Procs \ {p} : proc'[q].pc \in {"idle", "crashed"}
  <2>1. Moves(p) /\ UNCHANGED owner
    BY <1>0, <1>2, EarlyMoves, SendMoves, PollMoves, CancelMoves, ReturnMoves, SameTask
       DEF Delegate, Ends, SaveReview
  <2>2. proc[p].pc \notin {"idle", "crashed"}
    BY <1>2 DEF Delegate, Ends, SaveReview, At, CountReviews, LookUp, Decide, RecordDecision, Prepare,
         Submit, SendDelivered, SendUndelivered, SaveUnknown, SaveRefused,
         ApplyState, ApplyImpossible, ApplyInvalid, PollOnce, GiveUp, GetTask,
         CancelTask, CancelFailed, CancelAnswered, CancelNotTerminal
  <2>3. owner' = p /\ \A q \in Procs \ {p} : proc[q].pc \in {"idle", "crashed"}
    BY <1>0, <2>1, <2>2
  <2>4. \A b \in Actors \ {p} : proc'[b] = proc[b]
    BY <2>1 DEF Moves
  <2> QED BY <1>0, <2>3, <2>4
<1>3. ASSUME NEW p \in Procs, Commit(p) \/ CommitStale(p) \/ SaveTask(p) \/ Crash(p)
      PROVE  \A q \in Procs :
                proc'[q].pc \notin {"idle", "crashed"} => owner' = q
  <2>1. proc' = [proc EXCEPT ![p] = Idle] \/ proc' = [proc EXCEPT ![p] = Crashed]
    BY <1>3 DEF Commit, CommitStale, SaveTask, Crash
  <2>2. proc'[p].pc \in {"idle", "crashed"} /\ \A b \in Actors \ {p} : proc'[b] = proc[b]
    BY <1>0, <2>1 DEF Idle, Crashed
  <2>3. owner' = owner \/ owner = p
    BY <1>0, <1>3 DEF Commit, CommitStale, SaveTask, Crash, AttemptsLeft, At, repo
  <2> QED BY <1>0, <2>2, <2>3
<1>4. ASSUME NEW p \in Procs, ReapDead(p) \/ RestartWorker(p) \/ ResumeEngine(p)
      PROVE  \A q \in Procs :
                proc'[q].pc \notin {"idle", "crashed"} => owner' = q
  <2>1. owner' = owner \/ (owner = p /\ proc[p].pc = "crashed")
    BY <1>4 DEF ReapDead, RestartWorker, ResumeEngine, At, repo
  <2>2. proc' = proc \/ proc' = [proc EXCEPT ![p] = [proc[p] EXCEPT !.pc = "idle"]]
    BY <1>4 DEF ReapDead, RestartWorker, ResumeEngine, Goto
  <2>3. /\ \A b \in Actors \ {p} : proc'[b] = proc[b]
        /\ proc'[p] = proc[p] \/ proc'[p].pc = "idle"
    BY <1>0, <2>2 DEF Process
  <2> QED BY <1>0, <2>1, <2>3
<1> QED
  <2>1. CASE \E p \in Procs : Start(p) \/ Delegate(p) \/ Crash(p)
    BY <1>1, <1>2, <1>3, <2>1 DEF Ends
  <2>2. CASE \E p \in Procs : ReapDead(p) \/ RestartWorker(p) \/ ResumeEngine(p)
    BY <1>4, <2>2
  <2>3. CASE OperatorCancels
    <3>1. Moves(Operator) /\ UNCHANGED owner
      BY <1>0, <2>3, ReadMoves, CancelMoves, SameTask
         DEF OperatorCancels, OperatorReads, repo
    <3> QED BY <1>0, <3>1 DEF Moves
  <2> QED BY <1>0, <2>1, <2>2, <2>3 DEF DNext, Recover, Procs

\* The owner alone writes the record it polls under, and the poll is counted
\* there first.
LEMMA PollsStep ==
    ASSUME TypeInv, Once, OneAtWork, PollsCounted, Alone, ~ OperatorReads,
           NEW a \in Procs, Moves(a), Writes(a), Alone'
    PROVE  PollsCounted'
<1>0. /\ RowsOK /\ a \in Actors /\ Procs \subseteq Actors
      /\ Sound(proc[a]) /\ No(a) = proc[a].no /\ Copy(a) = proc[a].copy
      /\ Copy(a) \in Record /\ ProcsSound
      /\ \A b \in Procs : Sound(proc[b])
      /\ \A b \in Procs \ {a} : proc'[b] = proc[b]
  BY Sounds DEF TypeInv, Moves, ProcsSound, Actors
<1>1. /\ \A b \in Procs : proc[b].pc \in Recorded =>
            proc[b].copy.polls = rec[proc[b].no].polls
      /\ \A n \in Nos : gets[n] <= rec[n].polls
      /\ \A b \in Procs : proc[b].pc = "get" =>
            gets[proc[b].no] < rec[proc[b].no].polls
  BY DEF PollsCounted
<1>2. /\ rec \in [Nos -> Record] /\ gets \in [Nos -> Nat]
      /\ \A n \in Nos : rec[n].polls \in 0 .. MaxPolls
  BY <1>0 DEF RowsOK, Record
<1>3. CASE proc[a].pc \in {"idle", "crashed"}
  <2>1. ~ Prepare(a) /\ ~ LookUp(a) /\ ~ PollOnce(a) /\ ~ GetTask(a)
        /\ proc[a].pc \notin Recorded
    BY <1>3 DEF Prepare, LookUp, PollOnce, GetTask, At, Recorded
  <2>2. rec' = rec /\ gets' = gets
    BY <2>1 DEF Writes, RivalJoined
  <2>3. proc'[a].pc \notin Recorded
    BY <2>1 DEF Moves
  <2> QED BY <1>0, <1>1, <2>2, <2>3 DEF PollsCounted, Recorded
<1>4. CASE proc[a].pc \notin {"idle", "crashed"}
  <2>1. \A b \in Procs \ {a} : proc'[b].pc \in {"idle", "crashed"}
    BY <1>0, <1>4 DEF OneAtWork, OwnerWorks, Alone
  <2>2. CASE PollOnce(a)
    <3>1. No(a) \in Nos /\ Copy(a).polls = rec[No(a)].polls
      BY <1>0, <1>1, <2>2 DEF PollOnce, At, Recorded, Sound, Counted
    <3>2. /\ rec' = [rec EXCEPT ![No(a)] = [status |-> "accepted",
                                            polls |-> Copy(a).polls + 1]]
          /\ proc'[a].no = No(a)
          /\ proc'[a].copy.polls = Copy(a).polls + 1
          /\ gets' = gets
      BY <1>0, <2>2 DEF PollOnce, net, ProcsSound, Process
    <3>3. /\ rec'[No(a)].polls = rec[No(a)].polls + 1
          /\ \A n \in Nos \ {No(a)} : rec'[n].polls = rec[n].polls
      BY <1>2, <3>1, <3>2
    <3>4. \A n \in Nos : gets'[n] <= rec'[n].polls
      BY <1>1, <1>2, <3>2, <3>3
    <3>5. gets'[No(a)] < rec'[No(a)].polls
      BY <1>1, <1>2, <3>1, <3>2, <3>3
    <3> QED BY <2>1, <3>1, <3>2, <3>3, <3>4, <3>5 DEF PollsCounted, Recorded
  <2>3. CASE Prepare(a)
    <3>1. gets' = gets
      BY <2>3 DEF Prepare, net
    <3>2. proc'[a].pc # "get" /\ ~ LookUp(a) /\ proc[a].pc \notin Recorded
      BY <2>3 DEF Moves, Prepare, PollOnce, LookUp, At, Recorded
    <3>3. CASE rec' = rec /\ proc'[a].pc \notin Recorded
      BY <1>1, <2>1, <3>1, <3>2, <3>3 DEF PollsCounted, Recorded
    <3>4. CASE proc'[a].pc \in Recorded
      <4>1. /\ No(a) \in Nos /\ proc'[a].no = No(a) /\ rec[No(a)].status = "none"
            /\ proc'[a].copy.polls = 0
            /\ rec' = [rec EXCEPT ![No(a)] = [status |-> "prepared", polls |-> 0]]
        BY <1>0, <2>3, <3>4, PreparedRecord DEF Unrecorded
      <4>2. rec'[No(a)].polls = 0 /\ gets[No(a)] = 0
        BY <1>2, <4>1 DEF Once, RecordFirst
      <4>3. \A n \in Nos \ {No(a)} : rec'[n] = rec[n]
        BY <1>2, <4>1
      <4>4. \A n \in Nos : gets'[n] <= rec'[n].polls
        BY <1>1, <3>1, <4>2, <4>3
      <4> QED BY <2>1, <3>2, <4>1, <4>2, <4>4 DEF PollsCounted, Recorded
    <3>5. rec' = rec \/ proc'[a].pc \in Recorded
      <4>1. CASE proc' = [proc EXCEPT ![a].pc = "submit", ![a].copy.status = "prepared"]
        <5>1. proc'[a].pc = "submit"
          BY <1>0, <4>1 DEF ProcsSound, Process
        <5> QED BY <5>1 DEF Recorded
      <4> QED BY <2>3, <4>1 DEF Prepare
    <3> QED BY <3>3, <3>4, <3>5
  <2>4. CASE ~ PollOnce(a) /\ ~ Prepare(a)
    <3>1. proc'[a].pc # "get"
      BY <2>4 DEF Moves
    <3>2. \A n \in Nos : rec'[n].polls = rec[n].polls
      <4>1. CASE rec' = rec
        BY <4>1
      <4>2. CASE /\ proc[a].pc \in Recorded
                 /\ \E r \in Record :
                       /\ rec' = [rec EXCEPT ![No(a)] = r]
                       /\ r.polls \in {Copy(a).polls, rec[No(a)].polls}
        BY <1>0, <1>1, <1>2, <4>2
      <4> QED BY <2>4, <4>1, <4>2 DEF Writes
    <3>3. \A n \in Nos : gets'[n] <= rec'[n].polls
      <4>1. ASSUME NEW n \in Nos
            PROVE  gets'[n] <= rec'[n].polls
        <5>1. CASE gets'[n] = gets[n]
          BY <1>1, <3>2, <5>1
        <5>2. CASE gets'[n] # gets[n]
          <6>1. GetTask(a) /\ n = No(a)
            BY <1>0, <1>2, <5>2 DEF Writes, GetTask, RivalJoined
          <6>2. gets'[n] = gets[n] + 1
            BY <1>2, <5>2, <6>1 DEF GetTask
          <6>3. gets[n] < rec[n].polls
            BY <1>0, <1>1, <6>1 DEF GetTask, At
          <6> QED BY <1>2, <3>2, <6>2, <6>3
        <5> QED BY <5>1, <5>2
      <4> QED BY <4>1
    <3>4. proc'[a].pc \in Recorded => proc'[a].copy.polls = rec'[proc'[a].no].polls
      <4>1. ASSUME proc'[a].pc \in Recorded, LookUp(a)
            PROVE  proc'[a].copy.polls = rec'[proc'[a].no].polls
        BY <1>0, <4>1, RecordFound
      <4>2. ASSUME proc[a].pc \in Recorded, proc'[a].no = proc[a].no,
                   proc'[a].copy.polls = proc[a].copy.polls
            PROVE  proc'[a].copy.polls = rec'[proc'[a].no].polls
        BY <1>0, <1>1, <3>2, <4>2 DEF Sound, Counted
      <4> QED BY <2>4, <4>1, <4>2 DEF Moves
    <3> QED BY <2>1, <3>1, <3>3, <3>4 DEF PollsCounted, Recorded
  <2> QED BY <2>2, <2>3, <2>4
<1> QED BY <1>3, <1>4

LEMMA BudgetStep ==
    ASSUME BudgetInv, [DNext]_dvars
    PROVE  BudgetInv'
<1>1. TypeInv'
  BY TypesStep DEF BudgetInv
<1>2. CASE DNext
  <2>1. Once'
    <3>1. ASSUME Unwritten, UNCHANGED proc
          PROVE  Once'
      BY <3>1 DEF BudgetInv, Unwritten, Once, DecidedFirst, RecordFirst, OneSender,
                  SentAtMostOnce, RivalJoined, RivalJoins
    <3> QED BY <1>2, <3>1, OneWrites, OnceStep DEF BudgetInv, Actors
  <2>2. OneAtWork'
    BY <1>2, WorkStep DEF BudgetInv
  <2>3. PollsCounted'
    <3>1. CASE ~ Alone'
      BY <3>1 DEF PollsCounted
    <3>2. CASE Alone'
      <4>1. Alone /\ ~ OperatorCancels
        BY <1>2, <3>2, AloneBefore DEF BudgetInv
      <4>2. ~ OperatorReads
        BY <4>1 DEF OperatorCancels
      <4>3. ASSUME Unwritten, UNCHANGED proc
            PROVE  PollsCounted'
        BY <3>2, <4>1, <4>3 DEF BudgetInv, PollsCounted, Unwritten, RivalJoined
      <4> QED BY <1>2, <4>1, <4>2, <4>3, <3>2, OneWrites, PollsStep DEF BudgetInv
    <3> QED BY <3>1, <3>2
  <2> QED BY <1>1, <2>1, <2>2, <2>3 DEF BudgetInv
<1>3. CASE UNCHANGED dvars
  BY <1>1, <1>3
     DEF BudgetInv, dvars, repo, net, counts, Once, DecidedFirst, RecordFirst,
         OneSender, SentAtMostOnce, OneAtWork, OwnerWorks, PollsCounted, Alone
<1> QED BY <1>2, <1>3

\* For any number of workers, engines, attempts and polls, and however many of
\* them crash, resume, lose their claims or are cancelled: an attempt's message
\* reaches the remote agent once at most, with an allowing decision on record,
\* and while no two processes work on the delegation at once no more polls are
\* sent than its budget.
THEOREM RequestsAreBounded == DSpec => []RequestsBounded
<1>1. DInit => BudgetInv
  <2>1. ASSUME DInit
        PROVE  Once /\ OneAtWork /\ PollsCounted
    BY <2>1, TypesInit
       DEF DInit, Idle, NoRecord, Once, DecidedFirst, RecordFirst, OneSender,
           SentAtMostOnce, OneAtWork, OwnerWorks, PollsCounted, Authorised,
           Recorded, Sending, Actors, Procs
  <2> QED BY <2>1, TypesInit DEF BudgetInv
<1>2. BudgetInv /\ [DNext]_dvars => BudgetInv'
  BY BudgetStep
<1>3. BudgetInv => RequestsBounded
  <2>1. ASSUME BudgetInv, NEW n \in Nos, Alone
        PROVE  gets[n] <= MaxPolls
    <3>1. gets[n] \in Nat /\ rec[n].polls \in 0 .. MaxPolls /\ gets[n] <= rec[n].polls
      BY <2>1 DEF BudgetInv, TypeInv, RowsOK, Record, PollsCounted
    <3> QED BY <3>1, DelegationAssumption
  <2> QED BY <2>1 DEF BudgetInv, Once, SentAtMostOnce, RequestsBounded
<1> QED BY <1>1, <1>2, <1>3, PTL DEF DSpec

-----------------------------------------------------------------------------
(* Results: what a task succeeds with.                                     *)

\* The remote task of attempt n is known to have completed.
Completed(n) == remote[n] = "completed" /\ posts[n] > 0

\* A remote task exists once the message has arrived.
RemoteAsked == \A n \in Nos : remote[n] # "none" => posts[n] > 0

\* Who knows of a completed task, by the record or by an answer, is right.
CompletedRecords == \A n \in Nos : rec[n].status = "completed" => Completed(n)
CompletedReplies ==
    \A a \in Actors :
       proc[a].pc \in {"apply", "applycancel"} /\ proc[a].reply = "completed" =>
          Completed(proc[a].no)

\* The owner works on the attempt that follows the reviews, and brings its
\* result to the commit.
OwnNumber ==
    \A p \in Procs : owner = p /\ proc[p].pc \in Counted => proc[p].no = reviews + 1
OwnResult ==
    \A p \in Procs : owner = p /\ proc[p].out = "ok" =>
       /\ proc[p].pc = "commit" => Completed(reviews + 1)
       /\ proc[p].pc = "save" => Completed(reviews)

\* A task that succeeded was reviewed.
Reviewed == task = "succeeded" => reviews > 0

ResultInv ==
    /\ BudgetInv /\ RemoteAsked /\ CompletedRecords /\ CompletedReplies
    /\ OwnNumber /\ OwnResult /\ SuccessIsOwnResult /\ Reviewed

\* The remote task is started by the message of its attempt, and moves when it
\* is asked, unless it has ended.
LEMMA RemoteMoves ==
    ASSUME TypeInv, DNext
    PROVE  \/ UNCHANGED <<remote, posts>>
           \/ \E p \in Procs : SendDelivered(p)
           \/ \E p \in Procs : GetTask(p)
           \/ \E a \in Actors : CancelTask(a)
<1>1. ASSUME NEW p \in Procs, ~ SendDelivered(p), ~ GetTask(p), ~ CancelTask(p),
             Start(p) \/ Delegate(p) \/ Crash(p)
      PROVE  UNCHANGED <<remote, posts>>
  BY <1>1 DEF Start, Delegate, Crash, net, CountReviews, LookUp, Decide,
              RecordDecision, Prepare, Submit, SendUndelivered, SaveUnknown,
              SaveRefused, ApplyState, ApplyImpossible, ApplyInvalid, PollOnce,
              GiveUp, CancelFailed, CancelAnswered, CancelNotTerminal, Commit,
              CommitStale, SaveReview, SaveTask
<1>2. ASSUME NEW p \in Procs, \/ ReapDead(p) \/ ReapStalled(p) \/ RestartWorker(p)
                              \/ ResumeEngine(p)
      PROVE  UNCHANGED <<remote, posts>>
  BY <1>2 DEF ReapDead, ReapStalled, RestartWorker, ResumeEngine, net
<1>3. ASSUME OperatorCancels, ~ CancelTask(Operator)
      PROVE  UNCHANGED <<remote, posts>>
  BY <1>3 DEF OperatorCancels, OperatorReads, CancelFailed, CancelAnswered,
              CancelNotTerminal, net
<1> QED BY <1>1, <1>2, <1>3 DEF DNext, Recover, Procs, Actors

LEMMA RemoteStep ==
    ASSUME ResultInv, DNext
    PROVE  /\ RemoteAsked'
           /\ \A n \in Nos : Completed(n) => Completed(n)'
<1>0. /\ TypeInv /\ RowsOK /\ ProcsSound /\ Once /\ RemoteAsked
      /\ Procs \subseteq Actors
      /\ remote \in [Nos -> RemoteStates \cup {"none"}] /\ posts \in [Nos -> Nat]
  BY DEF ResultInv, BudgetInv, TypeInv, RowsOK, Actors
<1>1. CASE UNCHANGED <<remote, posts>>
  BY <1>0, <1>1 DEF RemoteAsked, Completed
<1>2. ASSUME NEW p \in Procs, SendDelivered(p)
      PROVE  /\ RemoteAsked' /\ \A n \in Nos : Completed(n) => Completed(n)'
  <2>1. No(p) \in Nos /\ posts[No(p)] = 0
    BY <1>0, <1>2, Sounds
       DEF SendDelivered, At, Sound, Counted, Recorded, Once, OneSender, Sending
  <2>2. posts' = [posts EXCEPT ![No(p)] = posts[No(p)] + 1]
    BY <1>2 DEF SendDelivered
  <2>3. PICK s \in RemoteStates : remote' = [remote EXCEPT ![No(p)] = s]
    BY <1>2 DEF SendDelivered
  <2>4. ASSUME NEW n \in Nos, n # No(p)
        PROVE  remote'[n] = remote[n] /\ posts'[n] = posts[n]
    BY <1>0, <2>2, <2>3, <2>4
  <2>5. posts'[No(p)] = 1
    BY <1>0, <2>1, <2>2
  <2> QED BY <1>0, <2>1, <2>4, <2>5 DEF RemoteAsked, Completed
<1>3. ASSUME NEW a \in Actors, NEW s \in Moved(No(a)),
             No(a) \in Nos, posts' = posts,
             remote' = [remote EXCEPT ![No(a)] = s]
      PROVE  /\ RemoteAsked' /\ \A n \in Nos : Completed(n) => Completed(n)'
  <2>1. /\ s # "none" => remote[No(a)] # "none"
        /\ remote[No(a)] = "completed" => s = "completed"
    BY <1>3 DEF Moved
  <2>2. \A n \in Nos : remote'[n] = IF n = No(a) THEN s ELSE remote[n]
    BY <1>0, <1>3
  <2> QED BY <1>0, <1>3, <2>1, <2>2 DEF RemoteAsked, Completed
<1>4. ASSUME NEW p \in Procs, GetTask(p)
      PROVE  /\ RemoteAsked' /\ \A n \in Nos : Completed(n) => Completed(n)'
  <2>1. No(p) \in Nos /\ posts' = posts
    BY <1>0, <1>4, Sounds DEF GetTask, At, Sound, Counted, Recorded
  <2>2. CASE remote' = remote
    BY <1>1, <2>1, <2>2
  <2>3. ASSUME NEW s \in Moved(No(p)), remote' = [remote EXCEPT ![No(p)] = s]
        PROVE  /\ RemoteAsked' /\ \A n \in Nos : Completed(n) => Completed(n)'
    BY <1>0, <1>3, <2>1, <2>3
  <2> QED BY <1>4, <2>2, <2>3 DEF GetTask
<1>5. ASSUME NEW a \in Actors, CancelTask(a)
      PROVE  /\ RemoteAsked' /\ \A n \in Nos : Completed(n) => Completed(n)'
  <2>1. No(a) \in Nos /\ posts' = posts
    BY <1>0, <1>5, Sounds DEF CancelTask, At, Sound, Counted, Recorded
  <2> QED BY <1>1, <1>3, <1>5, <2>1 DEF CancelTask
<1> QED BY <1>0, <1>1, <1>2, <1>4, <1>5, RemoteMoves

\* Who saves that an attempt completed has been told so, and only a process in
\* doubt saves that it is unknown.
LEMMA StatusWritten ==
    ASSUME TypeInv, DNext, NEW n \in Nos, rec'[n].status # rec[n].status
    PROVE  /\ rec'[n].status = "completed" =>
                 \E a \in Actors : /\ proc[a].pc \in {"apply", "applycancel"}
                                   /\ proc[a].reply = "completed" /\ No(a) = n
           /\ rec'[n].status = "unknown" =>
                 \E p \in Procs : SaveUnknown(p) /\ No(p) = n
<1> DEFINE Goal ==
             /\ rec'[n].status = "completed" =>
                   \E a \in Actors : /\ proc[a].pc \in {"apply", "applycancel"}
                                     /\ proc[a].reply = "completed" /\ No(a) = n
             /\ rec'[n].status = "unknown" =>
                   \E p \in Procs : SaveUnknown(p) /\ No(p) = n
<1>0. /\ RowsOK /\ ProcsSound /\ rec \in [Nos -> Record] /\ Procs \subseteq Actors
      /\ \A a \in Actors : Copy(a) \in Record
  BY Sounds DEF TypeInv, RowsOK, Actors
<1>1. ASSUME NEW a \in Actors, NEW s, Save(a, s)
      PROVE  n = No(a) /\ rec'[n].status = s
  <2>1. rec' = [rec EXCEPT ![No(a)] = [Copy(a) EXCEPT !.status = s]]
    BY <1>1 DEF Save
  <2>2. n = No(a)
    BY <1>0, <2>1
  <2> QED BY <1>0, <2>1, <2>2 DEF Record
<1>2. ASSUME NEW a \in Actors, NEW s \in {"submitting", "failed"}, Save(a, s)
      PROVE  Goal
  BY <1>1, <1>2
<1>3. ASSUME NEW a \in Actors, proc[a].pc \in {"apply", "applycancel"},
             Save(a, StatusOf(proc[a].reply)), proc[a].reply \in Replies
      PROVE  Goal
  <2>1. n = No(a) /\ rec'[n].status = StatusOf(proc[a].reply)
    BY <1>1, <1>3
  <2>2. /\ rec'[n].status = "completed" => proc[a].reply = "completed"
        /\ rec'[n].status # "unknown"
    BY <1>3, <2>1 DEF StatusOf, Replies, RemoteStates
  <2> QED BY <1>3, <2>1, <2>2
<1>4. ASSUME NEW m, FailIfOpen(m)
      PROVE  Goal
  <2>1. rec' = [rec EXCEPT ![m].status = "failed"] \/ rec' = rec
    BY <1>4 DEF FailIfOpen
  <2>2. n = m
    BY <1>0, <2>1
  <2> QED BY <1>0, <2>1, <2>2 DEF Record
<1>5. \A a \in Actors : proc[a].reply \in Replies
  BY <1>0, Sounds DEF Process
<1>6. ASSUME NEW a \in Actors, CancelTask(a) \/ CancelFailed(a) \/ CancelAnswered(a)
                               \/ CancelNotTerminal(a)
      PROVE  Goal
  <2>1. CASE CancelTask(a)
    BY <2>1 DEF CancelTask, repo
  <2>2. CASE CancelFailed(a)
    BY <1>2, <1>4, <2>2 DEF CancelFailed
  <2>3. CASE CancelAnswered(a)
    <3>1. proc[a].pc = "applycancel" /\ (Save(a, StatusOf(proc[a].reply)) \/ rec' = rec)
      BY <2>3 DEF CancelAnswered, At, Advance
    <3> QED BY <1>3, <1>5, <3>1
  <2>4. CASE CancelNotTerminal(a)
    BY <1>2, <2>4 DEF CancelNotTerminal
  <2> QED BY <1>6, <2>1, <2>2, <2>3, <2>4
<1>7. ASSUME NEW p \in Procs, Delegate(p)
      PROVE  Goal
  <2>0. p \in Actors
    BY <1>0
  <2>1. CASE Submit(p) \/ SaveRefused(p)
    BY <1>2, <2>0, <2>1 DEF Submit, SaveRefused, Advance
  <2>2. CASE SaveUnknown(p)
    <3>1. n = No(p) /\ rec'[n].status = "unknown"
      BY <1>1, <2>0, <2>2 DEF SaveUnknown
    <3> QED BY <2>2, <3>1
  <2>3. CASE ApplyState(p)
    <3>1. proc[p].pc = "apply" /\ Save(p, StatusOf(proc[p].reply))
      BY <2>3 DEF ApplyState, At, Advance
    <3> QED BY <1>3, <1>5, <2>0, <3>1
  <2>4. CASE ApplyInvalid(p)
    BY <1>4, <2>4 DEF ApplyInvalid
  <2>5. CASE PollOnce(p)
    <3> DEFINE copy == [status |-> "accepted", polls |-> Copy(p).polls + 1]
    <3>1. rec' = [rec EXCEPT ![No(p)] = copy]
      BY <2>5 DEF PollOnce
    <3> QED BY <1>0, <3>1
  <2>6. CASE Prepare(p)
    <3>1. rec' = rec \/ rec' = [rec EXCEPT ![No(p)] = [status |-> "prepared", polls |-> 0]]
      BY <2>6 DEF Prepare
    <3> QED BY <1>0, <3>1
  <2>7. CASE \/ CountReviews(p) \/ LookUp(p) \/ Decide(p) \/ RecordDecision(p)
             \/ SendDelivered(p) \/ SendUndelivered(p) \/ ApplyImpossible(p)
             \/ GiveUp(p) \/ GetTask(p) \/ Commit(p) \/ CommitStale(p)
             \/ SaveReview(p) \/ SaveTask(p)
    <3>1. rec' = rec
      BY <2>7 DEF repo, CountReviews, LookUp, Decide, RecordDecision, SendDelivered,
                  SendUndelivered, ApplyImpossible, GiveUp, GetTask, Commit,
                  CommitStale, SaveReview, SaveTask
    <3> QED BY <3>1
  <2>8. CASE CancelTask(p) \/ CancelFailed(p) \/ CancelAnswered(p) \/ CancelNotTerminal(p)
    BY <1>6, <2>0, <2>8
  <2> HIDE DEF Goal
  <2> QED BY <1>7, <2>1, <2>2, <2>3, <2>4, <2>5, <2>6, <2>7, <2>8 DEF Delegate
<1>8. ASSUME NEW p \in Procs, \/ Start(p) \/ Crash(p) \/ ReapDead(p)
                              \/ ReapStalled(p) \/ RestartWorker(p) \/ ResumeEngine(p)
      PROVE  rec' = rec
  BY <1>8 DEF Start, Crash, ReapDead, ReapStalled, Reaped, RestartWorker,
              ResumeEngine, repo
<1>9. OperatorReads => rec' = rec
  BY DEF OperatorReads, repo
<1>10. Operator \in Actors
  BY DEF Actors
<1> HIDE DEF Goal
<1>11. Goal
  BY <1>6, <1>7, <1>8, <1>9, <1>10 DEF DNext, Recover, OperatorCancels, Procs
<1> QED BY <1>11 DEF Goal

\* A process that works on its attempt goes on with it ...
Goes(p) ==
    /\ proc[p].pc \in Counted /\ proc'[p].pc \in Counted
    /\ proc'[p].no = proc[p].no
    /\ ~ SaveUnknown(p)
    /\ proc'[p].pc \in {"apply", "applycancel"} =>
          SendDelivered(p) \/ GetTask(p) \/ CancelTask(p)
    /\ proc[p].pc = "lookup" => rec' = rec /\ rec[No(p)].status # "unknown"

\* ... or returns: successfully with a completed result alone, and blocked when
\* its submission is or was in doubt.
Returns(p) ==
    /\ proc[p].pc \in Counted /\ proc'[p].pc = "commit"
    /\ proc'[p].out = "ok" =>
          \/ proc[p].pc = "apply" /\ proc[p].reply = "completed"
          \/ rec[No(p)].status = "completed"
    /\ \/ SaveUnknown(p)
       \/ proc[p].pc = "lookup" /\ rec[No(p)].status = "unknown"
       => proc'[p].out = "blocked"

LEMMA LeaveReturns ==
    ASSUME ProcsSound, NEW p \in Procs, NEW out, Leave(p, out)
    PROVE  proc'[p].pc = "commit" /\ proc'[p].out = out
<1>1. proc' = [proc EXCEPT ![p] = [Idle EXCEPT !.pc = "commit", !.out = out]]
  BY DelegationAssumption DEF Leave, Procs
<1> QED BY <1>1 DEF ProcsSound, Idle, Actors

LEMMA AdvanceGoes ==
    ASSUME ProcsSound, NEW a \in Actors, NEW s, NEW pc, Advance(a, s, pc)
    PROVE  proc'[a].pc = pc /\ proc'[a].no = proc[a].no
<1>1. proc[a] \in Process
  BY Sounds
<1>2. proc'[a] = [proc[a] EXCEPT !.pc = pc, !.copy.status = s, !.reply = "none"]
  BY DEF Advance, ProcsSound
<1> QED BY <1>1, <1>2 DEF Process

LEMMA EarlyGoes ==
    ASSUME TypeInv, NEW p \in Procs,
           LookUp(p) \/ Decide(p) \/ RecordDecision(p) \/ Prepare(p) \/ Submit(p)
    PROVE  Goes(p) \/ Returns(p)
<1>0. /\ ProcsSound /\ p \in Actors /\ proc[p] \in Process
      /\ proc \in [Actors -> Process]
  BY Sounds DEF TypeInv, Actors, ProcsSound
<1> USE DEF At, Counted, Recorded
<1>1. CASE LookUp(p)
  <2>1. proc[p].pc = "lookup" /\ ~ SaveUnknown(p) /\ rec' = rec /\ Found(p) = rec[No(p)]
    BY <1>1 DEF LookUp, SaveUnknown, repo, Found
  <2>2. CASE Found(p).status = "none" /\ Goto(p, "decide")
    <3>1. proc'[p].pc = "decide" /\ proc'[p].no = proc[p].no
      BY <1>0, <2>2 DEF Goto, Process
    <3> QED BY <2>1, <2>2, <3>1 DEF Goes
  <2>3. CASE Found(p).status = "completed" /\ Leave(p, "ok")
    BY <1>0, <2>1, <2>3, LeaveReturns DEF Returns
  <2>4. ASSUME NEW pc \in {"doubt", "poll"},
               proc' = [proc EXCEPT ![p].pc = pc, ![p].copy = Found(p)],
               Found(p).status \in {"submitting", "accepted"}
        PROVE  Goes(p)
    <3>1. proc'[p].pc = pc /\ proc'[p].no = proc[p].no
      BY <1>0, <2>4 DEF Process
    <3> QED BY <2>1, <2>4, <3>1 DEF Goes
  <2>5. CASE Leave(p, "blocked")
    BY <1>0, <2>1, <2>5, LeaveReturns DEF Returns
  <2> QED BY <1>1, <2>2, <2>3, <2>4, <2>5 DEF LookUp, InDoubt
<1>2. ASSUME NEW pc \in {"prepare", "record", "submit"}, ~ SaveUnknown(p),
             proc[p].pc \in {"decide", "record", "prepare"},
             proc'[p].pc = pc, proc'[p].no = proc[p].no
      PROVE  Goes(p)
  BY <1>2 DEF Goes
<1>3. ASSUME NEW out \in {"blocked", "error"}, Leave(p, out), ~ SaveUnknown(p),
             proc[p].pc \in {"decide", "record", "prepare"}
      PROVE  Returns(p)
  BY <1>0, <1>3, LeaveReturns DEF Returns
<1>4. CASE Decide(p)
  <2>1. proc[p].pc = "decide" /\ ~ SaveUnknown(p)
    BY <1>4 DEF Decide, SaveUnknown
  <2>2. CASE Goto(p, "prepare")
    <3>1. proc'[p].pc = "prepare" /\ proc'[p].no = proc[p].no
      BY <1>0, <2>2 DEF Goto, Process
    <3> QED BY <1>2, <2>1, <3>1
  <2>3. ASSUME NEW v, proc' = [proc EXCEPT ![p].pc = "record", ![p].verdict = v]
        PROVE  Goes(p)
    <3>1. proc'[p].pc = "record" /\ proc'[p].no = proc[p].no
      BY <1>0, <2>3 DEF Process
    <3> QED BY <1>2, <2>1, <3>1
  <2> QED BY <1>3, <1>4, <2>1, <2>2, <2>3 DEF Decide
<1>5. CASE RecordDecision(p)
  <2>1. proc[p].pc = "record" /\ ~ SaveUnknown(p)
    BY <1>5 DEF RecordDecision, SaveUnknown
  <2>2. CASE Allowed(p)
    <3>1. proc'[p].pc = "prepare" /\ proc'[p].no = proc[p].no
      BY <1>0, <2>2 DEF Allowed, Process
    <3> QED BY <1>2, <2>1, <3>1
  <2> QED BY <1>3, <1>5, <2>1, <2>2 DEF RecordDecision
<1>6. CASE Prepare(p)
  <2>1. proc[p].pc = "prepare" /\ ~ SaveUnknown(p)
    BY <1>6 DEF Prepare, SaveUnknown
  <2>2. CASE proc' = [proc EXCEPT ![p].pc = "submit", ![p].copy.status = "prepared"]
    <3>1. proc'[p].pc = "submit" /\ proc'[p].no = proc[p].no
      BY <1>0, <2>2 DEF Process
    <3> QED BY <1>2, <2>1, <3>1
  <2> QED BY <1>3, <1>6, <2>1, <2>2 DEF Prepare
<1>7. CASE Submit(p)
  <2>1. proc[p].pc = "submit" /\ ~ SaveUnknown(p)
    BY <1>7 DEF Submit, SaveUnknown
  <2>2. proc'[p].pc = "send" /\ proc'[p].no = proc[p].no
    BY <1>0, <1>7, AdvanceGoes DEF Submit
  <2> QED BY <2>1, <2>2 DEF Goes
<1> QED BY <1>1, <1>4, <1>5, <1>6, <1>7

LEMMA LateGoes ==
    ASSUME TypeInv, NEW p \in Procs,
           \/ SendDelivered(p) \/ SendUndelivered(p) \/ SaveUnknown(p)
           \/ SaveRefused(p) \/ ApplyState(p) \/ ApplyImpossible(p)
           \/ ApplyInvalid(p) \/ PollOnce(p) \/ GiveUp(p) \/ GetTask(p)
           \/ CancelTask(p) \/ CancelFailed(p) \/ CancelAnswered(p)
           \/ CancelNotTerminal(p)
    PROVE  Goes(p) \/ Returns(p)
<1>0. /\ ProcsSound /\ p \in Actors /\ proc[p] \in Process
      /\ proc \in [Actors -> Process]
  BY Sounds DEF TypeInv, Actors, ProcsSound
<1>1. proc[p].pc \in Recorded
  BY DEF SendDelivered, SendUndelivered, SaveUnknown, SaveRefused, ApplyState,
         ApplyImpossible, ApplyInvalid, PollOnce, GiveUp, GetTask, CancelTask,
         CancelFailed, CancelAnswered, CancelNotTerminal, At, Recorded
<1>2. ASSUME ~ SaveUnknown(p), proc'[p].no = proc[p].no,
             proc'[p].pc \in {"doubt", "refused", "poll", "get", "cancel", "giveup"}
      PROVE  Goes(p)
  BY <1>1, <1>2 DEF Goes, Counted, Recorded
<1>3. ASSUME ~ SaveUnknown(p), proc'[p].no = proc[p].no,
             proc'[p].pc \in {"apply", "applycancel"},
             SendDelivered(p) \/ GetTask(p) \/ CancelTask(p)
      PROVE  Goes(p)
  BY <1>1, <1>3 DEF Goes, Counted, Recorded
<1>4. ASSUME NEW out \in {"blocked", "error"}, Leave(p, out), out = "blocked" \/ ~ SaveUnknown(p)
      PROVE  Returns(p)
  BY <1>0, <1>1, <1>4, LeaveReturns DEF Returns, Counted, Recorded
<1>5. ASSUME NEW pc, Goto(p, pc)
      PROVE  proc'[p].pc = pc /\ proc'[p].no = proc[p].no
  BY <1>0, <1>5 DEF Goto, Process
<1>6. ASSUME NEW r, Answered(p, r)
      PROVE  proc'[p].pc = "apply" /\ proc'[p].no = proc[p].no
  BY <1>0, <1>6 DEF Answered, Process
<1>7. CASE SaveUnknown(p)
  BY <1>4, <1>7 DEF SaveUnknown, AfterDoubt
<1>8. CASE SendDelivered(p) \/ GetTask(p)
  <2>1. ~ SaveUnknown(p)
    BY <1>8 DEF SaveUnknown, SendDelivered, GetTask, At
  <2> QED BY <1>2, <1>3, <1>4, <1>5, <1>6, <1>8, <2>1 DEF SendDelivered, GetTask
<1>9. CASE SendUndelivered(p) \/ GiveUp(p)
  <2>1. ~ SaveUnknown(p)
    BY <1>9 DEF SaveUnknown, SendUndelivered, GiveUp, At
  <2> QED BY <1>2, <1>4, <1>5, <1>9, <2>1 DEF SendUndelivered, GiveUp
<1>10. CASE \/ SaveRefused(p) \/ ApplyImpossible(p) \/ ApplyInvalid(p)
            \/ CancelFailed(p) \/ CancelNotTerminal(p)
  <2>1. ~ SaveUnknown(p)
    BY <1>10 DEF SaveUnknown, SaveRefused, ApplyImpossible, ApplyInvalid,
                 CancelFailed, CancelNotTerminal, At
  <2> QED BY <1>4, <1>10, <2>1
          DEF SaveRefused, ApplyImpossible, ApplyInvalid, CancelFailed,
              CancelNotTerminal
<1>11. CASE ApplyState(p)
  <2>1. ~ SaveUnknown(p) /\ proc[p].pc = "apply"
    BY <1>11 DEF SaveUnknown, ApplyState, At
  <2>2. CASE Advance(p, "accepted", "poll")
    BY <1>0, <1>2, <2>1, <2>2, AdvanceGoes
  <2>3. CASE StatusOf(proc[p].reply) = "completed" /\ Leave(p, "ok")
    <3>1. proc[p].reply = "completed"
      BY <2>3 DEF StatusOf
    <3> QED BY <1>0, <1>1, <2>1, <2>3, <3>1, LeaveReturns
            DEF Returns, Counted, Recorded
  <2> QED BY <1>4, <1>11, <2>1, <2>2, <2>3 DEF ApplyState
<1>12. CASE PollOnce(p)
  <2>1. ~ SaveUnknown(p)
    BY <1>12 DEF SaveUnknown, PollOnce, At
  <2>2. proc'[p].pc = "get" /\ proc'[p].no = proc[p].no
    <3>1. PICK copy : proc' = [proc EXCEPT ![p].pc = "get", ![p].copy = copy]
      BY <1>12 DEF PollOnce
    <3> QED BY <1>0, <3>1 DEF Process
  <2> QED BY <1>2, <2>1, <2>2
<1>13. CASE CancelTask(p)
  <2>1. ~ SaveUnknown(p)
    BY <1>13 DEF SaveUnknown, CancelTask, At
  <2>2. ASSUME NEW r, Cancelled(p, r)
        PROVE  proc'[p].pc = "applycancel" /\ proc'[p].no = proc[p].no
    BY <1>0, <2>2 DEF Cancelled, Process
  <2> QED BY <1>3, <1>4, <1>13, <2>1, <2>2 DEF CancelTask
<1>14. CASE CancelAnswered(p)
  <2>1. ~ SaveUnknown(p)
    BY <1>14 DEF SaveUnknown, CancelAnswered, At
  <2>2. ASSUME NEW s, Advance(p, s, "giveup")
        PROVE  Goes(p)
    BY <1>0, <1>2, <2>1, <2>2, AdvanceGoes
  <2> QED BY <1>4, <1>14, <2>1, <2>2 DEF CancelAnswered
<1> QED BY <1>7, <1>8, <1>9, <1>10, <1>11, <1>12, <1>13, <1>14

\* How a process comes to change.
LEMMA ProcStep ==
    ASSUME TypeInv, DNext, NEW p \in Procs, proc'[p] # proc[p]
    PROVE  \/ proc'[p].pc \in {"idle", "count", "crashed"}
           \/ proc'[p].pc = "lookup" /\ proc'[p].no = reviews + 1
           \/ Goes(p) \/ Returns(p)
           \/ SaveReview(p) /\ proc'[p].pc = "save"
<1>0. /\ p \in Actors /\ p # Operator /\ proc \in [Actors -> Process]
      /\ proc[p] \in Process
  BY DelegationAssumption DEF TypeInv, ProcsSound, Actors, Procs
<1>1. \/ Start(p) \/ Delegate(p) \/ Crash(p) \/ RestartWorker(p) \/ ResumeEngine(p)
  BY <1>0, OwnStep
<1>2. CASE Start(p) \/ RestartWorker(p) \/ ResumeEngine(p)
  <2>1. Goto(p, "count") \/ Goto(p, "idle")
    BY <1>2 DEF Start, RestartWorker, ResumeEngine
  <2> QED BY <1>0, <2>1 DEF Goto, Process
<1>3. CASE Crash(p) \/ Commit(p) \/ CommitStale(p) \/ SaveTask(p)
  <2>1. proc'[p] = Idle \/ proc'[p] = Crashed
    BY <1>0, <1>3 DEF Crash, Commit, CommitStale, SaveTask
  <2> QED BY <2>1 DEF Idle, Crashed
<1>4. CASE CountReviews(p)
  BY <1>0, <1>4 DEF CountReviews, Process
<1>5. CASE Delegate(p) /\ ~ CountReviews(p) /\ ~ Ends(p)
  BY <1>5, EarlyGoes, LateGoes, Zenon DEF Delegate, Ends
<1>6. CASE SaveReview(p)
  BY <1>0, <1>6 DEF SaveReview, Goto, Process
<1> QED BY <1>1, <1>2, <1>3, <1>4, <1>5, <1>6 DEF Ends

\* Who changes the task, its owner and its reviews.
LEMMA TaskMoves ==
    ASSUME TypeInv, DNext
    PROVE  \/ UNCHANGED <<task, owner, reviews>>
           \/ \E p \in Procs : Start(p) \/ Commit(p) \/ SaveReview(p) \/ SaveTask(p)
           \/ /\ \E p \in Procs : /\ owner = p
                                  /\ ReapDead(p) \/ ReapStalled(p) \/ ResumeEngine(p)
              /\ owner' = Null /\ reviews' = reviews
              /\ task' \in {"pending", "blocked"}
<1>1. ASSUME NEW p \in Procs, Delegate(p), ~ Commit(p), ~ SaveReview(p), ~ SaveTask(p)
      PROVE  UNCHANGED <<task, owner, reviews>>
  BY <1>1, SameTask DEF Delegate, CommitStale, repo, Actors
<1>2. ASSUME NEW p \in Procs, Crash(p) \/ RestartWorker(p)
      PROVE  UNCHANGED <<task, owner, reviews>>
  BY <1>2 DEF Crash, RestartWorker, repo
<1>3. ASSUME NEW p \in Procs, ReapDead(p) \/ ReapStalled(p)
      PROVE  /\ owner = p /\ owner' = Null /\ reviews' = reviews
             /\ task' \in {"pending", "blocked"}
  BY <1>3 DEF ReapDead, ReapStalled, Reaped, Recovered
<1>4. ASSUME NEW e \in Engines, ResumeEngine(e)
      PROVE  \/ UNCHANGED <<task, owner, reviews>>
             \/ /\ owner = e /\ owner' = Null /\ reviews' = reviews
                /\ task' \in {"pending", "blocked"}
  BY <1>4 DEF ResumeEngine
<1>5. OperatorCancels => UNCHANGED <<task, owner, reviews>>
  BY SameTask DEF OperatorCancels, OperatorReads, repo, Actors
<1> QED BY <1>1, <1>2, <1>3, <1>4, <1>5 DEF DNext, Recover, Procs

\* The number of its attempt is that of the owner as long as it works on it.
LEMMA NumberStep == ASSUME ResultInv, DNext PROVE OwnNumber'
<1> SUFFICES ASSUME NEW p \in Procs, owner' = p, proc'[p].pc \in Counted
             PROVE  proc'[p].no = reviews' + 1
  BY DEF OwnNumber
<1>0. TypeInv /\ OwnNumber /\ p # Null
  BY DelegationAssumption DEF ResultInv, BudgetInv, Procs
<1>1. CASE UNCHANGED <<task, owner, reviews>>
  <2>1. CASE proc'[p] = proc[p]
    BY <1>0, <1>1, <2>1 DEF OwnNumber
  <2>2. CASE proc'[p] # proc[p]
    <3>1. Goes(p) \/ proc'[p].no = reviews + 1
      BY <1>0, <1>1, <2>2, ProcStep DEF Returns, SaveReview, TypeInv, RowsOK, Counted, Recorded
    <3> QED BY <1>0, <1>1, <3>1 DEF Goes, OwnNumber
  <2> QED BY <2>1, <2>2
<1>2. ASSUME NEW q \in Procs, Start(q) PROVE FALSE
  <2>1. q = p
    BY <1>2 DEF Start
  <2>2. proc'[p].pc = "count"
    BY <1>0, <1>2, <2>1 DEF Start, Goto, TypeInv, ProcsSound, Process, Actors
  <2> QED BY <2>2 DEF Counted, Recorded
<1>3. ASSUME NEW q \in Procs, Commit(q) \/ SaveTask(q) PROVE FALSE
  BY <1>0, <1>3 DEF Commit, SaveTask
<1>4. ASSUME NEW q \in Procs, SaveReview(q) PROVE FALSE
  <2>1. q = p /\ Goto(p, "save")
    BY <1>4 DEF SaveReview
  <2>2. proc'[p].pc = "save"
    BY <1>0, <2>1 DEF Goto, TypeInv, ProcsSound, Process, Actors
  <2> QED BY <2>2 DEF Counted, Recorded
<1> QED BY <1>0, <1>1, <1>2, <1>3, <1>4, TaskMoves

\* What comes back as a success has completed.
LEMMA OwnResultStep == ASSUME ResultInv, DNext PROVE OwnResult'
<1> SUFFICES ASSUME NEW p \in Procs, owner' = p, proc'[p].out = "ok",
                    proc'[p].pc \in {"commit", "save"}
             PROVE  /\ proc'[p].pc = "commit" => Completed(reviews + 1)'
                    /\ proc'[p].pc = "save" => Completed(reviews)'
  BY DEF OwnResult
<1>0. /\ TypeInv /\ OwnNumber /\ OwnResult /\ CompletedRecords /\ CompletedReplies
      /\ p # Null /\ p \in Actors /\ Sound(proc[p]) /\ No(p) = proc[p].no
      /\ AttemptsLeft /\ reviews \in 0 .. MaxReviews /\ MaxReviews \in Nat
      /\ proc \in [Actors -> Process]
  BY DelegationAssumption, Sounds
     DEF ResultInv, BudgetInv, Procs, TypeInv, RowsOK, ProcsSound, Actors
<1>1. reviews + 1 \in Nos
  BY <1>0 DEF Nos
<1>2. \A n \in Nos : Completed(n) => Completed(n)'
  BY RemoteStep
<1>3. CASE UNCHANGED <<task, owner, reviews>>
  <2>1. CASE proc'[p].pc = "commit"
    <3>1. CASE proc'[p] = proc[p]
      <4>1. Completed(reviews + 1)
        BY <1>0, <1>3, <2>1, <3>1 DEF OwnResult
      <4> QED BY <1>1, <1>2, <1>3, <2>1, <4>1 DEF Completed
    <3>2. CASE proc'[p] # proc[p]
      <4>1. Returns(p)
        BY <1>0, <2>1, <3>2, ProcStep DEF Goes, Counted, Recorded, Process
      <4>2. No(p) = reviews + 1
        BY <1>0, <1>3, <4>1 DEF Returns, OwnNumber
      <4>3. Completed(No(p))
        BY <1>0, <1>1, <4>1, <4>2 DEF Returns, CompletedRecords, CompletedReplies
      <4> QED BY <1>1, <1>2, <1>3, <2>1, <4>2, <4>3 DEF Completed
    <3> QED BY <3>1, <3>2
  <2>2. CASE proc'[p].pc = "save"
    <3>1. proc'[p] = proc[p]
      BY <1>0, <1>3, <2>2, ProcStep DEF Goes, Returns, SaveReview, Counted, Recorded
    <3>2. Completed(reviews) /\ reviews \in Nos
      BY <1>0, <1>3, <2>2, <3>1 DEF OwnResult, AttemptsLeft, Nos
    <3> QED BY <1>2, <1>3, <2>2, <3>2 DEF Completed
  <2> QED BY <2>1, <2>2
<1>4. ASSUME NEW q \in Procs, Start(q) PROVE FALSE
  <2>1. q = p
    BY <1>4 DEF Start
  <2>2. proc'[p].pc = "count"
    BY <1>0, <1>4, <2>1 DEF Start, Goto, Process
  <2> QED BY <2>2
<1>5. ASSUME NEW q \in Procs, Commit(q) \/ SaveTask(q) PROVE FALSE
  BY <1>0, <1>5 DEF Commit, SaveTask
<1>6. ASSUME NEW q \in Procs, SaveReview(q)
      PROVE  proc'[p].pc = "save" /\ Completed(reviews)'
  <2>1. q = p /\ owner = p /\ proc[p].pc = "commit" /\ Goto(p, "save")
        /\ reviews' = reviews + 1
    BY <1>6 DEF SaveReview, At
  <2>2. proc'[p].pc = "save" /\ proc[p].out = "ok"
    BY <1>0, <2>1 DEF Goto, Process
  <2>3. Completed(reviews + 1)
    BY <1>0, <2>1, <2>2 DEF OwnResult
  <2> QED BY <1>1, <1>2, <2>1, <2>2, <2>3 DEF Completed
<1> QED BY <1>0, <1>3, <1>4, <1>5, <1>6, TaskMoves

\* An answer names the state of the remote task.
LEMMA AnswerIsState ==
    ASSUME TypeInv, NEW a \in Actors, SendDelivered(a) \/ GetTask(a) \/ CancelTask(a),
           proc'[a].pc \in {"apply", "applycancel"}, proc'[a].reply = "completed"
    PROVE  /\ No(a) \in Nos /\ proc'[a].no = No(a)
           /\ remote'[No(a)] = "completed"
<1>0. /\ ProcsSound /\ proc[a] \in Process /\ No(a) = proc[a].no
      /\ proc \in [Actors -> Process] /\ No(a) \in Nos
      /\ remote \in [Nos -> RemoteStates \cup {"none"}]
  BY Sounds DEF TypeInv, ProcsSound, RowsOK, SendDelivered, GetTask, CancelTask, At,
                Sound, Counted, Recorded
<1>1. ASSUME NEW r, Answered(a, r)
      PROVE  proc'[a].no = No(a) /\ proc'[a].reply = r
  BY <1>0, <1>1 DEF Answered, Process
<1>2. ASSUME NEW pc \in {"doubt", "poll"}, Goto(a, pc)
      PROVE  FALSE
  <2>1. proc'[a].pc = pc
    BY <1>0, <1>2 DEF Goto, Process
  <2> QED BY <2>1
<1>3. ~ Leave(a, "blocked") /\ ~ Leave(a, "error")
  BY <1>0, LeaveEnds
<1>4. CASE SendDelivered(a)
  <2>1. PICK s \in RemoteStates :
           /\ remote' = [remote EXCEPT ![No(a)] = s]
           /\ Answered(a, s) \/ Answered(a, "invalid") \/ Goto(a, "doubt")
    BY <1>3, <1>4 DEF SendDelivered
  <2>2. s = "completed" /\ proc'[a].no = No(a)
    BY <1>1, <1>2, <2>1
  <2> QED BY <1>0, <2>1, <2>2
<1>5. CASE GetTask(a)
  <2>1. PICK s : /\ remote' = [remote EXCEPT ![No(a)] = s]
                 /\ Answered(a, s)
    BY <1>1, <1>2, <1>3, <1>5 DEF GetTask
  <2>2. s = "completed" /\ proc'[a].no = No(a)
    BY <1>1, <2>1
  <2> QED BY <1>0, <2>1, <2>2
<1>6. CASE CancelTask(a)
  <2>1. ASSUME NEW r, Cancelled(a, r)
        PROVE  proc'[a].no = No(a) /\ proc'[a].reply = r
    BY <1>0, <2>1 DEF Cancelled, Process
  <2>2. PICK s : /\ remote' = [remote EXCEPT ![No(a)] = s]
                 /\ Cancelled(a, s)
    BY <1>3, <1>6, <2>1 DEF CancelTask
  <2>3. s = "completed" /\ proc'[a].no = No(a)
    BY <2>1, <2>2
  <2> QED BY <1>0, <2>2, <2>3
<1> QED BY <1>4, <1>5, <1>6

LEMMA RepliesStep == ASSUME ResultInv, DNext PROVE CompletedReplies'
<1> SUFFICES ASSUME NEW a \in Actors, proc'[a].pc \in {"apply", "applycancel"},
                    proc'[a].reply = "completed"
             PROVE  remote'[proc'[a].no] = "completed" /\ posts'[proc'[a].no] > 0
  BY DEF CompletedReplies, Completed
<1>0. /\ TypeInv /\ ProcsSound /\ CompletedReplies /\ Sound(proc[a])
      /\ proc \in [Actors -> Process]
  BY Sounds DEF ResultInv, BudgetInv, TypeInv, ProcsSound
<1>1. CASE proc'[a] = proc[a]
  <2>1. proc[a].no \in Nos /\ Completed(proc[a].no)
    BY <1>0, <1>1 DEF CompletedReplies, Sound, Counted, Recorded
  <2> QED BY <1>1, <2>1, RemoteStep DEF Completed
<1>2. CASE proc'[a] # proc[a]
  <2>1. SendDelivered(a) \/ GetTask(a) \/ CancelTask(a)
    <3>1. CASE a \in Procs
      BY <1>0, <1>2, <3>1, ProcStep DEF Goes, Returns, Sound, Process
    <3>2. ASSUME a = Operator, OperatorCancels, ~ CancelTask(Operator) PROVE FALSE
      <4>1. ASSUME NEW out, Leave(a, out) PROVE FALSE
        BY <1>0, <4>1, LeaveEnds
      <4>2. ~ OperatorReads
        <5>1. ASSUME OperatorReads PROVE proc'[a].pc = "cancel"
          BY <1>0, <3>2, <5>1 DEF OperatorReads, Idle
        <5> QED BY <5>1
      <4>3. ASSUME NEW s, Advance(a, s, "giveup") PROVE FALSE
        BY <1>0, <4>3, AdvanceGoes
      <4> QED BY <3>2, <4>1, <4>2, <4>3
              DEF OperatorCancels, CancelFailed, CancelAnswered, CancelNotTerminal
    <3> QED BY <1>0, <1>2, <3>1, <3>2, OwnStep
  <2>2. No(a) \in Nos /\ proc'[a].no = No(a) /\ remote'[No(a)] = "completed"
    BY <1>0, <2>1, AnswerIsState
  <2> QED BY <2>2, RemoteStep DEF RemoteAsked
<1> QED BY <1>1, <1>2

LEMMA RecordsStep == ASSUME ResultInv, DNext PROVE CompletedRecords'
<1> SUFFICES ASSUME NEW n \in Nos, rec'[n].status = "completed"
             PROVE  Completed(n)'
  BY DEF CompletedRecords
<1>0. TypeInv /\ CompletedReplies /\ CompletedRecords
  BY DEF ResultInv, BudgetInv
<1>1. Completed(n)
  <2>1. CASE rec[n].status = "completed"
    BY <1>0, <2>1 DEF CompletedRecords
  <2>2. CASE rec'[n].status # rec[n].status
    BY <1>0, <2>2, StatusWritten DEF CompletedReplies, No
  <2> QED BY <2>1, <2>2
<1> QED BY <1>1, RemoteStep

LEMMA SuccessStep == ASSUME ResultInv, DNext PROVE SuccessIsOwnResult' /\ Reviewed'
<1>0. /\ TypeInv /\ SuccessIsOwnResult /\ Reviewed /\ OwnResult /\ RowsOK
      /\ reviews \in 0 .. MaxReviews /\ MaxReviews \in Nat /\ AttemptsLeft
  BY DelegationAssumption DEF ResultInv, BudgetInv, TypeInv, RowsOK
<1>1. CASE UNCHANGED <<task, owner, reviews>>
  <2> SUFFICES ASSUME task = "succeeded"
               PROVE  /\ remote'[reviews] = "completed" /\ posts'[reviews] > 0
                      /\ reviews > 0
    BY <1>1 DEF SuccessIsOwnResult, Reviewed
  <2>1. reviews \in Nos /\ Completed(reviews)
    BY <1>0 DEF SuccessIsOwnResult, Reviewed, Completed, Nos
  <2> QED BY <1>0, <2>1, RemoteStep DEF Completed, Reviewed
<1>2. ASSUME NEW p \in Procs, Commit(p) \/ SaveTask(p), task' = "succeeded"
      PROVE  /\ remote'[reviews'] = "completed" /\ posts'[reviews'] > 0
             /\ reviews' > 0
  <2>1. p \in Actors /\ Sound(proc[p])
    BY <1>0, Sounds DEF TypeInv, Actors
  <2>2. proc[p].out \in {"ok", "blocked", "error"}
    BY <1>2, <2>1 DEF Sound, Process, Commit, SaveTask, At
  <2>3. CASE Commit(p)
    <3>1. /\ owner = p /\ proc[p].pc = "commit" /\ proc[p].out = "ok"
          /\ reviews' = reviews + 1 /\ UNCHANGED <<remote, posts>>
      BY <1>2, <2>2, <2>3 DEF Commit, At, Outcomes, Retry, net
    <3> QED BY <1>0, <3>1 DEF OwnResult, Completed
  <2>4. CASE SaveTask(p)
    <3>1. /\ proc[p].pc = "save" /\ proc[p].out = "ok"
          /\ reviews' = reviews /\ UNCHANGED <<remote, posts>>
      BY <1>2, <2>2, <2>4 DEF SaveTask, At, Outcomes, Retry, net
    <3>2. owner = p /\ reviews > 0
      BY <1>0, <3>1 DEF AttemptsLeft
    <3> QED BY <1>0, <3>1, <3>2 DEF OwnResult, Completed
  <2> QED BY <1>2, <2>3, <2>4
<1>3. ASSUME NEW p \in Procs, Start(p) PROVE task' # "succeeded"
  BY <1>3 DEF Start
<1>4. ASSUME NEW p \in Procs, SaveReview(p) PROVE task' # "succeeded"
  BY <1>0, <1>4, DelegationAssumption DEF SaveReview, AttemptsLeft, Procs
<1>5. task' = "succeeded" =>
        /\ remote'[reviews'] = "completed" /\ posts'[reviews'] > 0 /\ reviews' > 0
  BY <1>0, <1>1, <1>2, <1>3, <1>4, TaskMoves DEF SuccessIsOwnResult, Reviewed
<1> QED BY <1>5 DEF SuccessIsOwnResult, Reviewed

LEMMA ResultStep ==
    ASSUME ResultInv, [DNext]_dvars
    PROVE  ResultInv'
<1>1. BudgetInv'
  BY BudgetStep DEF ResultInv
<1>2. CASE DNext
  BY <1>1, <1>2, RemoteStep, RecordsStep, RepliesStep, NumberStep, OwnResultStep,
     SuccessStep DEF ResultInv
<1>3. CASE UNCHANGED dvars
  BY <1>1, <1>3
     DEF ResultInv, dvars, repo, net, RemoteAsked, CompletedRecords,
         CompletedReplies, Completed, OwnNumber, OwnResult, SuccessIsOwnResult,
         Reviewed
<1> QED BY <1>2, <1>3

LEMMA BudgetInit == ASSUME DInit PROVE BudgetInv
<1>1. Once /\ OneAtWork /\ PollsCounted
  BY TypesInit
     DEF DInit, Idle, NoRecord, Once, DecidedFirst, RecordFirst, OneSender,
         SentAtMostOnce, OneAtWork, OwnerWorks, PollsCounted, Authorised,
         Recorded, Sending, Actors, Procs
<1> QED BY <1>1, TypesInit DEF BudgetInv

LEMMA ResultInit == ASSUME DInit PROVE ResultInv
BY BudgetInit, DelegationAssumption
   DEF DInit, ResultInv, RemoteAsked, CompletedRecords, CompletedReplies, OwnNumber,
       OwnResult, SuccessIsOwnResult, Reviewed, NoRecord, Idle, Procs, Actors

\* Whoever else crashed, resumed, lost its claim or was cancelled on the way: a
\* task succeeds with a result the remote agent completed for the very attempt
\* that the society counts last (a2a.py, get_attempt_delegation and
\* _apply_response; storage.py, commit_claim_outcome).
THEOREM SuccessesAreOwn == DSpec => []SuccessIsOwnResult
<1>1. ResultInv => SuccessIsOwnResult
  BY DEF ResultInv
<1> QED BY <1>1, ResultInit, ResultStep, PTL DEF DSpec

-----------------------------------------------------------------------------
(* A submission whose outcome is unknown.                                  *)

\* The engine has saved the outcome of attempt m and is to block the task.
BlockPending(m) ==
    \E p \in Procs : proc[p].pc = "save" /\ proc[p].out = "blocked" /\ m = reviews

\* While no claim expires: a reviewed attempt of a task that goes on is unknown
\* only if its engine crashed or is about to block the task, and the owner whose
\* own attempt is unknown has it block the task.
UnknownBlocks ==
    stalls = 0 =>
       /\ task \in {"pending", "running"} =>
             \A m \in Nos : m <= reviews /\ rec[m].status = "unknown" =>
                m \in torn \/ BlockPending(m)
       /\ \A p \in Procs : owner = p =>
             /\ proc[p].pc \in Counted \ {"lookup"} =>
                   rec[proc[p].no].status # "unknown"
             /\ proc[p].pc = "commit" /\ rec[reviews + 1].status = "unknown" =>
                   proc[p].out = "blocked"

UnknownInv == ResultInv /\ UnknownBlocks

\* An attempt becomes unknown in the hands of the owner, who returns blocked.
LEMMA OwnUnknown ==
    ASSUME ResultInv, stalls = 0, DNext, NEW n \in Nos,
           rec'[n].status = "unknown", rec[n].status # "unknown"
    PROVE  \E p \in Procs : /\ owner = p /\ n = reviews + 1
                            /\ UNCHANGED <<task, owner, reviews>>
                            /\ proc'[p].pc = "commit" /\ proc'[p].out = "blocked"
<1>0. TypeInv /\ ProcsSound /\ OwnerWorks /\ OwnNumber
  BY DEF ResultInv, BudgetInv, OneAtWork, TypeInv
<1>1. PICK p \in Procs : SaveUnknown(p) /\ No(p) = n
  BY <1>0, StatusWritten
<1>2. /\ proc[p].pc = "doubt" /\ Leave(p, "blocked")
      /\ UNCHANGED <<task, owner, reviews>>
  BY <1>1 DEF SaveUnknown, At, AfterDoubt
<1>3. owner = p
  BY <1>0, <1>2 DEF OwnerWorks
<1>4. n = reviews + 1
  BY <1>0, <1>1, <1>2, <1>3 DEF OwnNumber, Counted, Recorded, No
<1> QED BY <1>0, <1>2, <1>3, <1>4, LeaveReturns

\* An engine's two saves end with the second, or with a crash.
LEMMA LeavesSave ==
    ASSUME TypeInv, DNext, NEW p \in Procs, proc[p].pc = "save", proc'[p] # proc[p]
    PROVE  SaveTask(p) \/ Crash(p)
<1>1. \/ Start(p) \/ Delegate(p) \/ Crash(p) \/ RestartWorker(p) \/ ResumeEngine(p)
  BY OwnStep, DelegationAssumption DEF Procs, Actors
<1>2. p \in Actors
  BY DEF Actors
<1> QED BY <1>1, <1>2, SameTask
        DEF Delegate, Start, RestartWorker, ResumeEngine, Commit, CommitStale,
            SaveReview, At

LEMMA TornGrows ==
    ASSUME TypeInv, DNext, stalls' = 0
    PROVE  torn \subseteq torn'
<1>1. \A w \in Workers : ~ ReapStalled(w)
  BY NoStall
<1>2. ASSUME NEW a \in Actors,
             \/ Start(a) \/ Delegate(a) \/ ReapDead(a) \/ RestartWorker(a)
             \/ ResumeEngine(a) \/ CancelTask(a) \/ CancelFailed(a)
             \/ CancelAnswered(a) \/ CancelNotTerminal(a)
      PROVE  torn' = torn
  BY <1>2 DEF counts, Start, Delegate, CountReviews, LookUp, Decide, RecordDecision,
       Prepare, Submit, SendDelivered, SendUndelivered, SaveUnknown, SaveRefused,
       ApplyState, ApplyImpossible, ApplyInvalid, PollOnce, GiveUp, GetTask,
       CancelTask, CancelFailed, CancelAnswered, CancelNotTerminal, Commit,
       CommitStale, SaveReview, SaveTask, ReapDead, RestartWorker, ResumeEngine
<1>3. OperatorReads => torn' = torn
  BY DEF OperatorReads
<1>4. \A p \in Procs : Crash(p) => torn \subseteq torn'
  BY DEF Crash
<1> QED BY <1>1, <1>2, <1>3, <1>4 DEF DNext, Recover, OperatorCancels, Actors, Procs

LEMMA UnknownStep ==
    ASSUME UnknownInv, DNext
    PROVE  UnknownBlocks'
<1> SUFFICES ASSUME stalls' = 0
             PROVE  /\ task' \in {"pending", "running"} =>
                          \A m \in Nos :
                             m <= reviews' /\ rec'[m].status = "unknown" =>
                                m \in torn' \/ BlockPending(m)'
                    /\ \A p \in Procs : owner' = p =>
                          /\ proc'[p].pc \in Counted \ {"lookup"} =>
                                rec'[proc'[p].no].status # "unknown"
                          /\ proc'[p].pc = "commit"
                             /\ rec'[reviews' + 1].status = "unknown" =>
                                proc'[p].out = "blocked"
  BY DEF UnknownBlocks
<1>0. /\ ResultInv /\ TypeInv /\ OwnNumber /\ AttemptsLeft /\ stalls = 0
      /\ reviews \in 0 .. MaxReviews /\ MaxReviews \in Nat
      /\ \A w \in Workers : ~ ReapStalled(w)
      /\ proc \in [Actors -> Process] /\ Procs \subseteq Actors /\ Null \notin Procs
      /\ Workers \cap Engines = {}
  BY NoStall, DelegationAssumption
     DEF UnknownInv, ResultInv, BudgetInv, TypeInv, RowsOK, ProcsSound, Actors, Procs
<1>1. /\ task \in {"pending", "running"} =>
            \A m \in Nos : m <= reviews /\ rec[m].status = "unknown" =>
               m \in torn \/ BlockPending(m)
      /\ \A p \in Procs : owner = p =>
            /\ proc[p].pc \in Counted \ {"lookup"} =>
                  rec[proc[p].no].status # "unknown"
            /\ proc[p].pc = "commit" /\ rec[reviews + 1].status = "unknown" =>
                  proc[p].out = "blocked"
  BY <1>0 DEF UnknownInv, UnknownBlocks
<1>2. ASSUME task' \in {"pending", "running"}, NEW m \in Nos, m <= reviews',
             rec'[m].status = "unknown"
      PROVE  m \in torn' \/ BlockPending(m)'
  <2>0. torn \subseteq torn'
    BY <1>0, TornGrows
  <2>1. CASE UNCHANGED <<task, owner, reviews>>
    <3>1. rec[m].status = "unknown"
      BY <1>0, <1>2, <2>1, OwnUnknown
    <3>2. m \in torn \/ BlockPending(m)
      BY <1>1, <1>2, <2>1, <3>1
    <3>3. ASSUME NEW p \in Procs, proc[p].pc = "save", proc[p].out = "blocked", m = reviews
          PROVE  m \in torn' \/ BlockPending(m)'
      <4>1. CASE proc'[p] = proc[p]
        BY <2>1, <3>3, <4>1 DEF BlockPending
      <4>2. CASE proc'[p] # proc[p]
        <5>1. owner = p
          BY <1>0, <3>3 DEF AttemptsLeft
        <5>2. ~ SaveTask(p)
          BY <1>0, <2>1, <5>1 DEF SaveTask
        <5>3. Crash(p)
          BY <1>0, <3>3, <4>2, <5>2, LeavesSave
        <5> QED BY <1>0, <3>3, <5>3 DEF Crash, At
      <4> QED BY <4>1, <4>2
    <3> QED BY <2>0, <3>2, <3>3 DEF BlockPending
  <2>2. ASSUME NEW p \in Procs, Start(p) PROVE m \in torn'
    <3>1. task = "pending" /\ m <= reviews /\ rec[m].status = "unknown" /\ owner = Null
      BY <1>0, <1>2, <2>2 DEF Start, AttemptsLeft
    <3>2. ~ BlockPending(m)
      BY <1>0, <3>1 DEF BlockPending, AttemptsLeft
    <3> QED BY <1>1, <2>0, <3>1, <3>2
  <2>3. ASSUME NEW p \in Procs, Commit(p) PROVE m \in torn'
    <3>1. /\ owner = p /\ proc[p].pc = "commit" /\ task' \in Outcomes(p, reviews + 1)
          /\ reviews' = reviews + 1 /\ rec' = rec /\ p \in Workers
      BY <2>3 DEF Commit, At
    <3>2. task = "running" /\ ~ BlockPending(m)
      BY <1>0, <3>1 DEF AttemptsLeft, BlockPending
    <3>3. m # reviews + 1
      BY <1>1, <1>2, <3>1 DEF Outcomes
    <3> QED BY <1>0, <1>1, <1>2, <2>0, <3>1, <3>2, <3>3 DEF Nos
  <2>4. ASSUME NEW p \in Procs, SaveReview(p) PROVE m \in torn' \/ BlockPending(m)'
    <3>1. /\ owner = p /\ proc[p].pc = "commit" /\ Goto(p, "save")
          /\ reviews' = reviews + 1 /\ rec' = rec /\ task' = task
      BY <2>4 DEF SaveReview, At
    <3>2. ~ BlockPending(m)
      BY <1>0, <3>1 DEF AttemptsLeft, BlockPending
    <3>3. CASE m = reviews + 1
      <4>1. proc[p].out = "blocked"
        BY <1>1, <1>2, <3>1, <3>3
      <4>2. proc'[p].pc = "save" /\ proc'[p].out = "blocked"
        BY <1>0, <3>1, <4>1 DEF Goto, Process
      <4> QED BY <3>1, <3>3, <4>2 DEF BlockPending
    <3>4. CASE m <= reviews
      BY <1>1, <1>2, <2>0, <3>1, <3>2, <3>4
    <3> QED BY <1>0, <1>2, <3>1, <3>3, <3>4 DEF Nos
  <2>5. ASSUME NEW p \in Procs, SaveTask(p) PROVE m \in torn'
    <3>1. /\ proc[p].pc = "save" /\ task' \in Outcomes(p, reviews)
          /\ reviews' = reviews /\ rec' = rec
      BY <2>5 DEF SaveTask, At
    <3>2. owner = p /\ task = "running"
      BY <1>0, <3>1 DEF AttemptsLeft
    <3>3. ~ BlockPending(m)
      <4>1. ASSUME NEW q \in Procs, proc[q].pc = "save", proc[q].out = "blocked"
            PROVE  FALSE
        <5>1. q = p
          BY <1>0, <3>2, <4>1 DEF AttemptsLeft
        <5> QED BY <1>2, <3>1, <4>1, <5>1 DEF Outcomes
      <4> QED BY <4>1 DEF BlockPending
    <3> QED BY <1>1, <1>2, <2>0, <3>1, <3>2, <3>3
  <2>6. ASSUME NEW p \in Procs, owner = p, owner' = Null, reviews' = reviews,
               ReapDead(p) \/ ReapStalled(p) \/ ResumeEngine(p)
        PROVE  m \in torn'
    <3>1. proc[p].pc = "crashed" /\ rec' = rec
      BY <1>0, <2>6
         DEF ReapDead, ReapStalled, ResumeEngine, Reaped, At, TypeInv, RowsOK
    <3>2. task = "running" /\ ~ BlockPending(m)
      BY <1>0, <2>6, <3>1 DEF AttemptsLeft, BlockPending
    <3> QED BY <1>1, <1>2, <2>0, <2>6, <3>1, <3>2
  <2>7. TypeInv
    BY <1>0
  <2>8. ASSUME NEW p \in Procs,
               Start(p) \/ Commit(p) \/ SaveReview(p) \/ SaveTask(p)
        PROVE  m \in torn' \/ BlockPending(m)'
    BY <2>2, <2>3, <2>4, <2>5, <2>8
  <2>9. CASE /\ \E p \in Procs : /\ owner = p
                                 /\ ReapDead(p) \/ ReapStalled(p) \/ ResumeEngine(p)
             /\ owner' = Null /\ reviews' = reviews
    BY <2>6, <2>9
  <2> QED BY <2>1, <2>7, <2>8, <2>9, TaskMoves
<1>3. ASSUME NEW p \in Procs, owner' = p,
             proc'[p].pc \in (Counted \ {"lookup"}) \cup {"commit"}
      PROVE  UNCHANGED <<task, owner, reviews>>
  <2>0. p # Null /\ p \in Actors /\ proc \in [Actors -> Process]
    BY <1>0, DelegationAssumption DEF Procs, Actors, TypeInv, ProcsSound
  <2>1. ASSUME NEW q \in Procs, Start(q) PROVE FALSE
    <3>1. q = p
      BY <1>3, <2>1 DEF Start
    <3>2. proc'[p].pc = "count"
      BY <2>0, <2>1, <3>1 DEF Start, Goto, Process
    <3> QED BY <1>3, <3>2 DEF Counted, Recorded
  <2>2. ASSUME NEW q \in Procs, Commit(q) \/ SaveTask(q) PROVE FALSE
    BY <1>3, <2>0, <2>2 DEF Commit, SaveTask
  <2>3. ASSUME NEW q \in Procs, SaveReview(q) PROVE FALSE
    <3>1. q = p /\ Goto(p, "save")
      BY <1>3, <2>3 DEF SaveReview
    <3>2. proc'[p].pc = "save"
      BY <2>0, <3>1 DEF Goto, Process
    <3> QED BY <1>3, <3>2 DEF Counted, Recorded
  <2> QED BY <1>0, <1>3, <2>0, <2>1, <2>2, <2>3, TaskMoves
<1>4. ASSUME NEW p \in Procs, owner' = p, proc'[p].pc \in Counted \ {"lookup"},
             rec'[proc'[p].no].status = "unknown"
      PROVE  FALSE
  <2>0. owner = p /\ Sound(proc'[p])
    <3>1. ProcsSound' /\ p \in Actors
      BY <1>0, TypesStep DEF TypeInv, Actors, dvars
    <3> QED BY <1>3, <1>4, <3>1 DEF ProcsSound
  <2>1. rec[proc'[p].no].status # "unknown" /\ proc'[p].no \in Nos
    <3>0. proc'[p].no \in Nos
      BY <1>4, <2>0 DEF Sound
    <3>1. CASE proc'[p] = proc[p]
      BY <1>1, <1>4, <2>0, <3>0, <3>1
    <3>2. CASE proc'[p] # proc[p]
      <4>1. Goes(p)
        BY <1>0, <1>4, <3>2, ProcStep DEF Returns, Counted, Recorded
      <4> QED BY <1>1, <2>0, <3>0, <4>1 DEF Goes, No
    <3> QED BY <3>1, <3>2
  <2> QED BY <1>0, <1>4, <2>0, <2>1, OwnUnknown DEF Counted, Recorded
<1>5. ASSUME NEW p \in Procs, owner' = p, proc'[p].pc = "commit",
             rec'[reviews' + 1].status = "unknown", proc'[p].out # "blocked"
      PROVE  FALSE
  <2>0. owner = p /\ reviews' = reviews /\ reviews + 1 \in Nos
    BY <1>0, <1>3, <1>5 DEF Nos
  <2>1. rec[reviews + 1].status = "unknown"
    BY <1>0, <1>5, <2>0, OwnUnknown
  <2>2. Returns(p)
    <3>1. proc'[p] # proc[p]
      BY <1>1, <1>5, <2>0, <2>1
    <3> QED BY <1>0, <1>5, <3>1, ProcStep DEF Goes, Counted, Recorded
  <2>3. No(p) = reviews + 1
    BY <1>0, <2>0, <2>2 DEF Returns, OwnNumber, No
  <2> QED BY <1>1, <1>5, <2>0, <2>1, <2>2, <2>3 DEF Returns, No
<1> QED BY <1>2, <1>4, <1>5, Zenon

LEMMA UnknownInvStep ==
    ASSUME UnknownInv, [DNext]_dvars
    PROVE  UnknownInv'
<1>1. ResultInv'
  BY ResultStep DEF UnknownInv
<1>2. CASE DNext
  BY <1>1, <1>2, UnknownStep DEF UnknownInv
<1>3. CASE UNCHANGED dvars
  BY <1>1, <1>3 DEF UnknownInv, UnknownBlocks, BlockPending, dvars, repo, counts
<1> QED BY <1>2, <1>3

\* A message is sent by a process whose attempt is the one after the reviews.
LEMMA UnknownQuiet ==
    ASSUME UnknownInv, [DNext]_dvars, stalls = 0, NEW n \in Nos,
           posts'[n] > posts[n], NEW m \in 1 .. n - 1
    PROVE  rec[m].status = "unknown" => m \in torn
<1>0. /\ TypeInv /\ RowsOK /\ OwnerWorks /\ OwnNumber /\ AttemptsLeft
      /\ posts[n] \in Nat
  BY DEF UnknownInv, ResultInv, BudgetInv, TypeInv, RowsOK, OneAtWork
<1>1. PICK p \in Procs : SendDelivered(p) /\ No(p) = n
  <2>1. DNext
    BY <1>0 DEF dvars, net
  <2>2. ASSUME NEW a \in Actors, SendDelivered(a) PROVE No(a) = n
    BY <1>0, <2>2 DEF SendDelivered, RowsOK
  <2>3. posts' # posts
    BY <1>0
  <2>4. ASSUME NEW p \in Procs, Delegate(p) PROVE SendDelivered(p)
    BY <2>3, <2>4
       DEF Delegate, net, CountReviews, LookUp, Decide, RecordDecision, Prepare,
           Submit, SendUndelivered, SaveUnknown, SaveRefused, ApplyState,
           ApplyImpossible, ApplyInvalid, PollOnce, GiveUp, GetTask, CancelTask,
           CancelFailed, CancelAnswered, CancelNotTerminal, Commit, CommitStale,
           SaveReview, SaveTask
  <2>5. ~ OperatorCancels
    BY <2>3 DEF OperatorCancels, net, OperatorReads, CancelTask, CancelFailed,
                CancelAnswered, CancelNotTerminal
  <2>6. /\ \A p \in Procs : ~ Start(p) /\ ~ Crash(p)
        /\ \A w \in Workers : ~ ReapDead(w) /\ ~ ReapStalled(w) /\ ~ RestartWorker(w)
        /\ \A e \in Engines : ~ ResumeEngine(e)
    BY <2>3 DEF net, Start, Crash, ReapDead, ReapStalled, RestartWorker, ResumeEngine
  <2>7. \E p \in Procs : SendDelivered(p)
    BY <2>1, <2>4, <2>5, <2>6, Zenon DEF DNext, Recover
  <2> QED BY <2>2, <2>7 DEF Actors
<1>2. owner = p /\ n = reviews + 1
  BY <1>0, <1>1 DEF OwnerWorks, OwnNumber, SendDelivered, At, No, Counted, Recorded
<1>3. task = "running"
  BY <1>0, <1>2, DelegationAssumption DEF AttemptsLeft, Procs
<1>4. m \in Nos /\ m <= reviews
  BY <1>0, <1>2, DelegationAssumption DEF RowsOK, Nos
<1>5. ~ BlockPending(m)
  BY <1>0, <1>1, <1>2 DEF BlockPending, AttemptsLeft, SendDelivered, At
<1> QED BY <1>3, <1>4, <1>5 DEF UnknownInv, UnknownBlocks

\* While claims are renewed in time, and whichever processes crash and resume in
\* between, no message follows an attempt whose submission is in doubt: that
\* attempt blocks the task (a2a.py, A2ARemoteWorker.execute and _resume). The one
\* exception is an engine that crashes after it has saved the outcome of that very
\* attempt and before it has saved the task (engine.py, _execute and
\* _recover_interrupted_tasks).
THEOREM UnknownStaysUnsent == DSpec => UnknownNotResent
<1>1. DInit => UnknownInv
  BY ResultInit, DelegationAssumption
     DEF DInit, UnknownInv, UnknownBlocks, NoRecord, Idle, Procs, Actors
<1>2. UnknownInv /\ [DNext]_dvars => UnknownInv'
  BY UnknownInvStep
<1>3. UnknownInv /\ [DNext]_dvars =>
         [stalls = 0 => \A n \in Nos : posts'[n] > posts[n] =>
             \A m \in 1 .. n - 1 : rec[m].status = "unknown" => m \in torn]_dvars
  BY UnknownQuiet
<1> QED BY <1>1, <1>2, <1>3, PTL DEF DSpec, UnknownNotResent

===============================================================================
