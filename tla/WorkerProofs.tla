----------------------------- MODULE WorkerProofs -----------------------------
(***************************************************************************)
(* The worker processes use the repository only as Scheduler allows, for   *)
(* any number of processes, tasks and agents: so all that is proved of the *)
(* execution plane under arbitrary callers holds of the worker service.    *)
(* The attempts they commit are numbered without gap, within max_attempts; *)
(* the intents and the records of performance follow the commits; and an   *)
(* exception ends an execution only if its request was decided meanwhile,  *)
(* or if a message of it has a key that another one has.                   *)
(***************************************************************************)
EXTENDS WorkerService, SchedulerProofs, FiniteSetTheorems

\* The processes that know their attempt number, and those that know its
\* outcome as well.
Numbered == {"work", "join", "beat", "renew", "finish"}
Finishing == {"join", "beat", "renew", "finish"}

\* Every time a process presents was read from the database clock.
ClocksAreRead ==
    \A p \in Sessions : proc[p].clk <= now /\ proc[p].mclk <= now

\* A process holds a claim of its own session, even if it lost it since.
ClaimsAreOwn ==
    \A p \in Sessions : proc[p].pc \in Holding =>
       /\ proc[p].claim \in ClaimIds
       /\ claims[proc[p].claim].status # "none"
       /\ claims[proc[p].claim].session = p

\* The maintainer thread lives during the execution and until it is joined.
MaintainersWork ==
    \A p \in Sessions : proc[p].maint # "off" => proc[p].pc \in {"work", "join"}

\* A process that has no result to report asks for approval; a retry is left.
OutcomesFit ==
    \A p \in Sessions : proc[p].pc \in Finishing =>
       /\ proc[p].out # "none"
       /\ proc[p].out = "pending" => proc[p].no < MaxAttemptsOf[MyTask(p)]

\* Attempts are numbered without gap, and a task that can still be claimed or
\* committed has attempts left.
Numbering ==
    \A t \in Tasks :
       /\ IsFiniteSet(attempts[t])
       /\ {a.no : a \in attempts[t]} = 1 .. Cardinality(attempts[t])
       /\ Cardinality(attempts[t]) <= MaxAttemptsOf[t]
       /\ task[t].status \in {"pending", "running"} =>
             Cardinality(attempts[t]) < MaxAttemptsOf[t]

\* While its claim is active, the number a process counted is the next one.
CountIsCurrent ==
    \A p \in Sessions : proc[p].pc \in Numbered /\ Active(proc[p].claim) =>
       proc[p].no = Cardinality(attempts[MyTask(p)]) + 1

ProcOK == proc \in [Sessions -> Process]
PerfOK == perf \in [Agents -> [Types -> Nat]] /\ intents \subseteq Keys

WInv ==
    /\ TypeOK /\ RunningIffClaimed /\ ProcOK /\ PerfOK
    /\ ClocksAreRead /\ ClaimsAreOwn /\ MaintainersWork
    /\ OutcomesFit /\ Numbering /\ CountIsCurrent

-----------------------------------------------------------------------------
(* Every step is a step of Scheduler, or none of its business.             *)

\* What the invariant says of one process, in the form the provers use.
LEMMA ProcessFacts ==
    ASSUME WInv, NEW p \in Sessions
    PROVE  /\ WorkerOf[p] \in Workers
           /\ proc[p].clk \in Read /\ proc[p].mclk \in Read
           /\ proc[p].no \in Nat
           /\ proc[p].out \in {"none", "approval"} \cup Outcomes
           /\ proc[p].pc \in Holding => /\ proc[p].claim \in ClaimIds
                                        /\ MyTask(p) \in Tasks
           /\ proc[p].maint # "off" => proc[p].pc \in Holding
<1>1. proc[p] \in Process
  BY DEF WInv, ProcOK
<1>2. proc[p].pc \in Holding => /\ proc[p].claim \in ClaimIds
                                /\ claims[proc[p].claim].status # "none"
  BY DEF WInv, ClaimsAreOwn
<1>3. proc[p].pc \in Holding => MyTask(p) \in Tasks
  BY <1>2, RowTypes DEF WInv, MyTask, Claim
<1>4. proc[p].clk \in Read /\ proc[p].mclk \in Read
  BY <1>1 DEF WInv, ClocksAreRead, Read, Process
<1> QED BY <1>1, <1>2, <1>3, <1>4, ServiceAssumption
        DEF WInv, MaintainersWork, Holding, Process

\* The attempt number a commit presents is one the repository can take.
LEMMA CommitNumber ==
    ASSUME WInv, NEW p \in Sessions, Commit(p)
    PROVE  /\ Active(proc[p].claim)
           /\ proc[p].no = Cardinality(attempts[MyTask(p)]) + 1
           /\ Cardinality(attempts[MyTask(p)]) \in Nat
           /\ proc[p].no \in 1 .. MaxAttemptsOf[MyTask(p)]
           /\ MaxAttemptsOf[MyTask(p)] \in 1 .. MaxAttempts
           /\ proc[p].out \in Outcomes
           /\ proc[p].out = "pending" => proc[p].no < MaxAttemptsOf[MyTask(p)]
<1>1. /\ Active(proc[p].claim) /\ task[MyTask(p)].status = "running"
      /\ proc[p].pc = "finish" /\ proc[p].out # "approval"
  BY DEF Commit, CommitOutcome, OwnsRunningWork, Owns, RequireClaim,
         OwnsRunningTask, MyTask, At
<1>2. MyTask(p) \in Tasks
  BY <1>1, ProcessFacts DEF Holding
<1>3. proc[p].no = Cardinality(attempts[MyTask(p)]) + 1
  BY <1>1 DEF WInv, CountIsCurrent, Numbered
<1>4. /\ Cardinality(attempts[MyTask(p)]) \in Nat
      /\ Cardinality(attempts[MyTask(p)]) < MaxAttemptsOf[MyTask(p)]
  BY <1>1, <1>2, FS_CardinalityType DEF WInv, Numbering
<1>5. MaxAttemptsOf[MyTask(p)] \in 1 .. MaxAttempts
  BY <1>2, ServiceAssumption
<1>6. /\ proc[p].out \in Outcomes
      /\ proc[p].out = "pending" => proc[p].no < MaxAttemptsOf[MyTask(p)]
  BY <1>1, ProcessFacts DEF WInv, OutcomesFit, Finishing
<1>7. MaxAttempts \in Nat
  BY DurationAssumption
<1> QED BY <1>1, <1>3, <1>4, <1>5, <1>6, <1>7

\* A step of the foreground.
LEMMA ForegroundIsStep ==
    ASSUME WInv, NEW p \in Sessions, ForegroundStep(p)
    PROVE  [Next]_vars
<1> USE ProcessFacts
<1>1. CASE ReadClock(p) \/ SessionRejected(p) \/ NothingReady(p)
           \/ CountReviews(p) \/ Execute(p) \/ JoinMaintainer(p) \/ Lost(p)
           \/ Raise(p)
  BY <1>1 DEF ReadClock, SessionRejected, NothingReady, CountReviews, Execute,
              JoinMaintainer, Lost, Raise
<1>2. CASE EnsureSession(p)
  <2>1. \/ RegisterWorker(WorkerOf[p], p, proc[p].clk)
        \/ Heartbeat(WorkerOf[p], p, proc[p].clk)
    BY <1>2 DEF EnsureSession
  <2> QED BY <2>1 DEF Next
<1>3. CASE Claimed(p)
  <2>1. FreshId \in ClaimIds
    BY <1>3 DEF Claimed, FreshId
  <2>2. ClaimNextTask(FreshId, WorkerOf[p], p, proc[p].clk)
    BY <1>3 DEF Claimed
  <2> QED BY <2>1, <2>2 DEF Next
<1>4. CASE NeedApproval(p)
  <2>1. MyTask(p) \in Tasks
    BY <1>4 DEF NeedApproval, At, Holding
  <2>2. SaveApproval(MyTask(p)) \/ UNCHANGED vars
    BY <1>4 DEF NeedApproval
  <2> QED BY <2>1, <2>2 DEF Next
<1>5. CASE FinalHeartbeat(p)
  <2>1. Heartbeat(WorkerOf[p], p, proc[p].clk)
    BY <1>5 DEF FinalHeartbeat
  <2> QED BY <2>1 DEF Next
<1>6. CASE FinalRenew(p)
  <2>1. proc[p].claim \in ClaimIds /\ RenewClaim(proc[p].claim, proc[p].clk)
    BY <1>6 DEF FinalRenew, At, Holding
  <2> QED BY <2>1 DEF Next
<1>7. CASE Commit(p)
  <2>1. /\ proc[p].claim \in ClaimIds
        /\ CommitOutcome(proc[p].claim, proc[p].no, proc[p].out, proc[p].clk)
    BY <1>7 DEF Commit, At, Holding
  <2>2. proc[p].no \in 1 .. MaxAttempts /\ proc[p].out \in Outcomes
    BY <1>7, CommitNumber, DurationAssumption
  <2> QED BY <2>1, <2>2 DEF Next
<1>8. CASE Pause(p)
  <2>1. /\ proc[p].claim \in ClaimIds
        /\ PauseForApproval(proc[p].claim, proc[p].clk)
    BY <1>8 DEF Pause, At, Holding
  <2> QED BY <2>1 DEF Next
<1> QED BY <1>1, <1>2, <1>3, <1>4, <1>5, <1>6, <1>7, <1>8 DEF ForegroundStep

\* A step of the maintainer thread, a process that ends, or the environment.
LEMMA ServiceIsStep ==
    ASSUME WInv, [WNext]_wvars
    PROVE  [Next]_vars
<1>1. ASSUME NEW p \in Sessions,
             MaintainerStep(p) \/ MaintainerWakes(p) \/ Stop(p) \/ Crash(p)
      PROVE  [Next]_vars
  <2>1. CASE MaintainerBeats(p)
    <3>1. Heartbeat(WorkerOf[p], p, proc[p].mclk)
      BY <2>1 DEF MaintainerBeats
    <3> QED BY <3>1, ProcessFacts DEF Next
  <2>2. CASE MaintainerRenews(p)
    <3>1. RenewClaim(proc[p].claim, proc[p].mclk) /\ proc[p].maint # "off"
      BY <2>2 DEF MaintainerRenews
    <3> QED BY <3>1, ProcessFacts DEF Next
  <2>3. CASE MaintainerLoses(p) \/ MaintainerWakes(p) \/ Stop(p) \/ Crash(p)
    BY <2>3 DEF MaintainerLoses, MaintainerWakes, Stop, Crash
  <2> QED BY <1>1, <2>1, <2>2, <2>3 DEF MaintainerStep
<1>2. CASE Reap \/ Decide \/ ClockAdvances
  BY <1>2 DEF Reap, Decide, ClockAdvances, Next
<1>3. CASE UNCHANGED wvars
  BY <1>3 DEF wvars
<1> QED BY <1>1, <1>2, <1>3, ForegroundIsStep DEF WNext

-----------------------------------------------------------------------------
(* What a step does to the processes.                                      *)

\* The part of the invariant that is about one process alone.
Sound(r) ==
    /\ r \in Process
    /\ r.clk <= now /\ r.mclk <= now
    /\ r.pc \in Holding => r.claim \in ClaimIds
    /\ r.maint # "off" => r.pc \in {"work", "join"}
    /\ r.pc \in Finishing => r.out # "none"

\* A process that is at work goes on with what it has: its claim, and once it
\* has them its attempt number and its outcome.
Continues(p) ==
    /\ proc'[p].pc \in Holding =>
          \/ Claimed(p)
          \/ proc[p].pc \in Holding /\ proc'[p].claim = proc[p].claim
    /\ proc'[p].pc \in Numbered =>
          \/ CountReviews(p)
          \/ proc[p].pc \in Numbered /\ proc'[p].no = proc[p].no
    /\ proc'[p].pc \in Finishing =>
          \/ Execute(p)
          \/ proc'[p].out = "approval"
          \/ proc[p].pc \in Finishing /\ proc'[p].out = proc[p].out

Moves(p) ==
    /\ Sound(proc'[p]) /\ Continues(p)
    /\ proc' = [q \in Sessions |-> proc'[q]]
    /\ \A q \in Sessions \ {p} : proc'[q] = proc[q]

LEMMA SoundNow ==
    ASSUME WInv, NEW p \in Sessions
    PROVE  Sound(proc[p]) /\ now \in Times /\ now <= now
<1>1. proc[p] \in Process
  BY DEF WInv, ProcOK
<1> QED BY <1>1 DEF WInv, ClocksAreRead, ClaimsAreOwn, MaintainersWork,
                    OutcomesFit, Sound, TypeOK, Times

\* A process that ends, or starts its loop again, is at work no more.
LEMMA EndMoves ==
    ASSUME WInv, NEW p \in Sessions, NEW pc \in Ended \cup {"poll"}, End(p, pc)
    PROVE  Moves(p)
<1>1. /\ proc'[p] = Fresh(pc)
      /\ proc' = [q \in Sessions |-> proc'[q]]
      /\ \A q \in Sessions \ {p} : proc'[q] = proc[q]
  BY DEF End, WInv, ProcOK
<1>2. Fresh(pc) \in Process
  BY DurationAssumption DEF Fresh, Process, Times, Foreground, Ended, Maintainer
<1>3. now >= 0
  BY SoundNow DEF Times
<1> QED BY <1>1, <1>2, <1>3
        DEF Moves, Sound, Continues, Fresh, Ended, Holding, Numbered, Finishing

\* The steps before a claim.
LEMMA IdleMoves ==
    ASSUME WInv, NEW p \in Sessions,
           \/ ReadClock(p) \/ EnsureSession(p) \/ NothingReady(p) \/ Claimed(p)
    PROVE  Moves(p)
<1> USE SoundNow DEF Holding, Numbered, Finishing, Moves, Sound, Continues,
                     Process, Foreground, At, WInv, ProcOK
<1>1. CASE ReadClock(p)
  BY <1>1 DEF ReadClock, GotoNow
<1>2. CASE EnsureSession(p)
  BY <1>2 DEF EnsureSession, Goto
<1>3. CASE NothingReady(p)
  BY <1>3 DEF NothingReady, Goto
<1>4. CASE Claimed(p)
  <2>1. FreshId \in ClaimIds
    BY <1>4 DEF Claimed, FreshId
  <2> QED BY <1>4, <2>1 DEF Claimed
<1> QED BY <1>1, <1>2, <1>3, <1>4

\* The count and the execution.
LEMMA WorkMoves ==
    ASSUME WInv, NEW p \in Sessions,
           CountReviews(p) \/ Execute(p) \/ NeedApproval(p)
    PROVE  Moves(p)
<1>1. MyTask(p) \in Tasks
  BY ProcessFacts
     DEF CountReviews, Execute, NeedApproval, At, Holding
<1>2. CASE CountReviews(p)
  <2>1. Cardinality(attempts[MyTask(p)]) + 1 \in 0 .. MaxAttempts + 1
    <3>1. MaxAttemptsOf[MyTask(p)] \in 1 .. MaxAttempts
      BY <1>1, ServiceAssumption
    <3>2. /\ Cardinality(attempts[MyTask(p)]) \in Nat
          /\ Cardinality(attempts[MyTask(p)]) <= MaxAttemptsOf[MyTask(p)]
      BY <1>1, FS_CardinalityType DEF WInv, Numbering
    <3> QED BY <3>1, <3>2, DurationAssumption
  <2> HIDE <1>1
  <2>2. /\ proc[p].pc = "count"
        /\ proc' = [proc EXCEPT ![p].pc = "work", ![p].maint = "wait",
                                ![p].no = Cardinality(attempts[MyTask(p)]) + 1]
    BY <1>2 DEF CountReviews, At
  <2> QED BY <1>2, <2>1, <2>2, SoundNow
          DEF Holding, Numbered, Finishing, Moves, Sound, Continues, Process,
              Foreground, Maintainer, WInv, ProcOK
<1>3. CASE Execute(p)
  <2>1. perf[MyAgent(p)][MyType(p)] \in Nat
    <3>1. MyAgent(p) \in Agents
      <4>1. /\ proc[p].claim \in ClaimIds
            /\ claims[proc[p].claim].status # "none"
        BY <1>3 DEF Execute, At, WInv, ClaimsAreOwn, Holding
      <4> QED BY <4>1, RowTypes DEF WInv, MyAgent, Claim
    <3>2. MyType(p) \in Types
      BY <1>1, TopologyAssumption DEF MyType
    <3> QED BY <3>1, <3>2 DEF WInv, PerfOK
  <2>2. PICK r \in ExecutionOutcomes(p) :
             proc' = [proc EXCEPT ![p].pc = "join", ![p].out = r,
                                  ![p].seen = perf[MyAgent(p)][MyType(p)]]
    BY <1>3 DEF Execute
  <2>3. r \in Outcomes
    BY DEF ExecutionOutcomes, Retry, Outcomes
  <2>4. proc[p] \in Process /\ proc[p].pc = "work"
    BY <1>3, SoundNow DEF Execute, At, Sound
  <2>5. proc'[p] = [proc[p] EXCEPT !.pc = "join", !.out = r,
                                   !.seen = perf[MyAgent(p)][MyType(p)]]
    BY <2>2 DEF WInv, ProcOK
  <2>6. /\ proc'[p] \in Process
        /\ proc'[p].pc = "join" /\ proc'[p].out = r
        /\ \A f \in {"clk", "mclk", "claim", "no", "maint"} : proc'[p][f] = proc[p][f]
    BY <2>1, <2>3, <2>4, <2>5 DEF Process, Foreground, Holding, Outcomes
  <2>7. /\ proc' = [q \in Sessions |-> proc'[q]]
        /\ \A q \in Sessions \ {p} : proc'[q] = proc[q]
    BY <2>2 DEF WInv, ProcOK
  <2> QED BY <1>3, <2>3, <2>4, <2>6, <2>7, SoundNow
          DEF Holding, Numbered, Finishing, Moves, Sound, Continues, Outcomes
<1>4. CASE NeedApproval(p)
  <2>1. /\ proc[p].pc = "work"
        /\ proc' = [proc EXCEPT ![p].pc = "join", ![p].out = "approval"]
    BY <1>4 DEF NeedApproval, At
  <2> QED BY <2>1, SoundNow
          DEF Holding, Numbered, Finishing, Moves, Sound, Continues, Process,
              Foreground, WInv, ProcOK
<1> QED BY <1>2, <1>3, <1>4

\* The end of an attempt.
LEMMA FinishMoves ==
    ASSUME WInv, NEW p \in Sessions,
           \/ JoinMaintainer(p) \/ FinalHeartbeat(p) \/ FinalRenew(p)
    PROVE  Moves(p)
<1> USE SoundNow DEF Holding, Numbered, Finishing, Moves, Sound, Continues,
                     Process, Foreground, Maintainer, At, WInv, ProcOK
<1>1. CASE At(p, "join") /\ End(p, "lost")
  BY <1>1, EndMoves DEF Ended
<1>2. CASE /\ At(p, "join")
           /\ proc' = [proc EXCEPT ![p].pc = "beat", ![p].clk = now,
                                   ![p].maint = "off", ![p].mclk = 0]
  <2>1. 0 <= now /\ 0 \in Times
    BY DurationAssumption DEF Times
  <2>2. proc'[p] = [proc[p] EXCEPT !.pc = "beat", !.clk = now,
                                   !.maint = "off", !.mclk = 0]
    BY <1>2
  <2>3. proc'[p] \in Process
    BY <2>1, <2>2
  <2>4. /\ proc'[p].pc = "beat" /\ proc'[p].maint = "off"
        /\ proc'[p].clk = now /\ proc'[p].mclk = 0
        /\ \A f \in {"claim", "no", "out"} : proc'[p][f] = proc[p][f]
    BY <2>2
  <2>5. \A q \in Sessions \ {p} : proc'[q] = proc[q]
    BY <1>2
  <2> QED BY <1>2, <2>1, <2>3, <2>4, <2>5
<1>3. CASE FinalHeartbeat(p)
  <2>1. proc[p].pc = "beat" /\ proc' = [proc EXCEPT ![p].pc = "renew"]
    BY <1>3 DEF FinalHeartbeat, Goto
  <2> QED BY <2>1
<1>4. CASE FinalRenew(p)
  <2>1. /\ proc[p].pc = "renew"
        /\ proc' = [proc EXCEPT ![p].pc = "finish", ![p].clk = now]
    BY <1>4 DEF FinalRenew, GotoNow
  <2> QED BY <2>1
<1> QED BY <1>1, <1>2, <1>3, <1>4 DEF JoinMaintainer

\* The maintainer thread.
LEMMA MaintainerMoves ==
    ASSUME WInv, NEW p \in Sessions, MaintainerStep(p) \/ MaintainerWakes(p)
    PROVE  Moves(p)
<1> USE SoundNow DEF Holding, Numbered, Finishing, Moves, Sound, Continues,
                     Process, Foreground, Maintainer, At, WInv, ProcOK
<1>0. now >= 0 /\ 0 \in Times
  BY DurationAssumption DEF Times
<1>1. CASE MaintainerWakes(p)
  <2>1. /\ proc[p].maint = "wait" /\ proc[p].pc = "work"
        /\ proc' = [proc EXCEPT ![p].maint = "beat", ![p].mclk = now]
    BY <1>1 DEF MaintainerWakes
  <2> QED BY <2>1
<1>2. CASE MaintainerBeats(p)
  <2>1. /\ proc[p].maint = "beat"
        /\ proc' = [proc EXCEPT ![p].maint = "renew"]
    BY <1>2 DEF MaintainerBeats
  <2> QED BY <2>1
<1>3. CASE MaintainerRenews(p)
  BY <1>0, <1>3 DEF MaintainerRenews
<1>4. CASE MaintainerLoses(p)
  BY <1>0, <1>4 DEF MaintainerLoses
<1> QED BY <1>1, <1>2, <1>3, <1>4 DEF MaintainerStep

\* The steps of one process, by either thread.
ProcessStep(p) ==
    \/ ForegroundStep(p) \/ MaintainerWakes(p) \/ MaintainerStep(p)
    \/ Stop(p) \/ Crash(p)

LEMMA ProcessMoves ==
    ASSUME WInv, NEW p \in Sessions, ProcessStep(p)
    PROVE  Moves(p)
<1>1. CASE \/ SessionRejected(p) \/ Commit(p) \/ Pause(p) \/ Lost(p)
           \/ Raise(p) \/ Stop(p) \/ Crash(p)
  BY <1>1, EndMoves DEF SessionRejected, Commit, Pause, Lost, Raise, Stop,
                        Crash, Ended
<1> QED BY <1>1, IdleMoves, WorkMoves, FinishMoves, MaintainerMoves
        DEF ProcessStep, ForegroundStep

\* Every step moves one process or none.
LEMMA OneMoves ==
    ASSUME WInv, [WNext]_wvars
    PROVE  (\E p \in Sessions : ProcessStep(p) /\ Moves(p)) \/ proc' = proc
<1>1. CASE Reap \/ Decide \/ ClockAdvances \/ UNCHANGED wvars
  BY <1>1 DEF Reap, Decide, ClockAdvances, wvars
<1> QED BY <1>1, ProcessMoves DEF WNext, ProcessStep

-----------------------------------------------------------------------------
(* The invariant is inductive.                                             *)

\* A row of task_claims keeps its identity, and never becomes active again.
LEMMA RowStays ==
    ASSUME TypeOK, [Next]_vars, NEW c \in ClaimIds, claims[c].status # "none"
    PROVE  /\ claims'[c].status # "none"
           /\ claims'[c].session = claims[c].session
           /\ claims'[c].task = claims[c].task
           /\ claims'[c].agent = claims[c].agent
           /\ claims'[c].status = "active" => Active(c)
<1>1. claims[c].status \in ClaimStatus
  BY RowTypes DEF Claim
<1>2. CASE claims[c].status \in TerminalClaim
  BY <1>2, NextIsRowStep, TerminalStays DEF TerminalClaim, Active
<1>3. CASE Active(c)
  <2>1. /\ claims'[c].session = claims[c].session
        /\ claims'[c].task = claims[c].task
        /\ claims'[c].agent = claims[c].agent
    BY <1>3, NextIsRowStep, ActiveKeepsIdentity
  <2>2. ASSUME NEW d \in ClaimIds, NEW w \in Workers, NEW s \in Sessions,
               NEW u \in Tasks, NEW a \in Agents, NEW at \in Read,
               Ready(u), CreateClaim(d, w, s, u, a, at)
        PROVE  claims'[c].status # "none"
    BY <1>3, <2>2 DEF CreateClaim, TypeOK, Active
  <2>3. claims'[c].status # "none"
    BY <2>2, IdentityKept
  <2> QED BY <1>3, <2>1, <2>3
<1> QED BY <1>1, <1>2, <1>3 DEF ClaimStatus, TerminalClaim, Active

\* Attempts come from the commits of processes.
LEMMA ServiceAttempts ==
    ASSUME WInv, [WNext]_wvars
    PROVE  attempts' = attempts \/ \E p \in Sessions : Commit(p)
<1>1. ASSUME NEW p \in Sessions, ForegroundStep(p), ~ Commit(p)
      PROVE  attempts' = attempts
  BY <1>1 DEF ForegroundStep, ReadClock, EnsureSession, SessionRejected, Claimed,
              NothingReady, CountReviews, Execute, NeedApproval, JoinMaintainer,
              FinalHeartbeat, FinalRenew, Pause, Lost, Raise, RegisterWorker,
              Heartbeat, ClaimNextTask, CreateClaim, SaveApproval, RenewClaim,
              PauseForApproval, vars
<1>2. ASSUME NEW p \in Sessions,
             MaintainerStep(p) \/ MaintainerWakes(p) \/ Stop(p) \/ Crash(p)
      PROVE  attempts' = attempts
  BY <1>2 DEF MaintainerStep, MaintainerWakes, MaintainerBeats, MaintainerRenews,
              MaintainerLoses, Stop, Crash, Heartbeat, RenewClaim, vars
<1>3. CASE Reap \/ Decide \/ ClockAdvances \/ UNCHANGED wvars
  BY <1>3 DEF Reap, Decide, ClockAdvances, ReapExpired, ResolveApproval, Tick,
              vars, wvars
<1> QED BY <1>1, <1>2, <1>3 DEF WNext

\* A process that is at work keeps its claim, and the claim its task.
LEMMA KeepsTask ==
    ASSUME WInv, [WNext]_wvars, NEW p \in Sessions, proc[p].pc \in Holding,
           proc'[p].claim = proc[p].claim
    PROVE  /\ claims'[proc'[p].claim].status # "none"
           /\ claims'[proc'[p].claim].session = p
           /\ claims'[proc'[p].claim].task = MyTask(p)
           /\ claims'[proc'[p].claim].status = "active" => Active(proc[p].claim)
BY RowStays, ServiceIsStep DEF WInv, ClaimsAreOwn, MyTask

LEMMA MoveCases ==
    ASSUME WInv, [WNext]_wvars, NEW p \in Sessions
    PROVE  proc'[p] = proc[p] \/ (Sound(proc'[p]) /\ Continues(p))
BY OneMoves DEF Moves

\* The clock stands still or advances by one.
LEMMA ClockSteps ==
    ASSUME [Next]_vars
    PROVE  now' = now \/ now' = now + 1
<1>1. ASSUME NEW w \in Workers, NEW s \in Sessions, NEW at \in Read,
             \/ RegisterWorker(w, s, at) \/ Heartbeat(w, s, at)
             \/ \E c \in ClaimIds : ClaimNextTask(c, w, s, at)
             \/ \E c \in ClaimIds, u \in Tasks, a \in Agents :
                   ClaimTask(c, w, s, u, a, at)
      PROVE  now' = now
  BY <1>1 DEF RegisterWorker, Heartbeat, ClaimNextTask, ClaimTask, CreateClaim
<1>2. ASSUME NEW c \in ClaimIds, NEW at \in Read,
             \/ RenewClaim(c, at) \/ ReleaseClaim(c, at) \/ PauseForApproval(c, at)
             \/ \E no \in 1 .. MaxAttempts, r \in Outcomes :
                   CommitOutcome(c, no, r, at)
      PROVE  now' = now
  BY <1>2 DEF RenewClaim, ReleaseClaim, PauseForApproval, CommitOutcome
<1>3. ASSUME NEW t \in Tasks,
             \/ SaveApproval(t)
             \/ \E d \in {"approved", "rejected"} : ResolveApproval(t, d)
             \/ \E d \in {"safe", "unsafe"} : SaveDelegation(t, d)
      PROVE  now' = now
  BY <1>3 DEF SaveApproval, ResolveApproval, SaveDelegation
<1>4. CASE Tick \/ UNCHANGED vars \/ \E at \in Times : ReapExpired(at)
  BY <1>4 DEF Tick, vars, ReapExpired
<1> QED BY <1>1, <1>2, <1>3, <1>4 DEF Next

LEMMA NextClocks == WInv /\ [WNext]_wvars => ClocksAreRead'
<1> SUFFICES ASSUME WInv, [WNext]_wvars, NEW p \in Sessions
             PROVE  proc'[p].clk <= now' /\ proc'[p].mclk <= now'
  BY DEF ClocksAreRead
<1>1. now' \in Nat /\ now \in Nat /\ now <= now'
  <2>1. TypeOK'
    BY ServiceIsStep, NextTypeOK DEF WInv
  <2>2. now' = now \/ now' = now + 1
    BY ServiceIsStep, ClockSteps
  <2> QED BY <2>1, <2>2 DEF WInv, TypeOK, Times
<1>2. Sound(proc'[p])
  BY MoveCases, SoundNow
<1>3. proc'[p].clk \in Nat /\ proc'[p].mclk \in Nat
  BY <1>2 DEF Sound, Process, Times
<1> QED BY <1>1, <1>2, <1>3 DEF Sound

LEMMA NextOwn == WInv /\ [WNext]_wvars => ClaimsAreOwn'
<1> SUFFICES ASSUME WInv, [WNext]_wvars, NEW p \in Sessions,
                    proc'[p].pc \in Holding
             PROVE  /\ proc'[p].claim \in ClaimIds
                    /\ claims'[proc'[p].claim].status # "none"
                    /\ claims'[proc'[p].claim].session = p
  BY DEF ClaimsAreOwn
<1>1. proc'[p].claim \in ClaimIds
  BY MoveCases, SoundNow DEF Sound
<1>2. CASE Claimed(p)
  <2>1. FreshId \in ClaimIds /\ proc'[p].claim = FreshId
    BY <1>2 DEF Claimed, FreshId, WInv, ProcOK
  <2>2. \E t, a : CreateClaim(FreshId, WorkerOf[p], p, t, a, proc[p].clk)
    BY <1>2 DEF Claimed, ClaimNextTask
  <2> QED BY <2>1, <2>2 DEF CreateClaim, WInv, TypeOK
<1>3. CASE proc[p].pc \in Holding /\ proc'[p].claim = proc[p].claim
  BY <1>1, <1>3, KeepsTask
<1> QED BY <1>2, <1>3, MoveCases DEF Continues

LEMMA NextOutcomes == WInv /\ [WNext]_wvars => OutcomesFit'
<1> SUFFICES ASSUME WInv, [WNext]_wvars, NEW p \in Sessions,
                    proc'[p].pc \in Finishing
             PROVE  /\ proc'[p].out # "none"
                    /\ proc'[p].out = "pending" =>
                          proc'[p].no < MaxAttemptsOf[claims'[proc'[p].claim].task]
  BY DEF OutcomesFit, MyTask
<1>1. proc'[p].out # "none"
  BY MoveCases, SoundNow DEF Sound
<1>2. ASSUME proc'[p].out = "pending"
      PROVE  proc'[p].no < MaxAttemptsOf[claims'[proc'[p].claim].task]
  <2>1. CASE Execute(p)
    <3>1. PICK r \in ExecutionOutcomes(p) :
               proc' = [proc EXCEPT ![p].pc = "join", ![p].out = r,
                                    ![p].seen = perf[MyAgent(p)][MyType(p)]]
      BY <2>1 DEF Execute
    <3>2. r = "pending" /\ proc'[p].no = proc[p].no /\ proc'[p].claim = proc[p].claim
      BY <1>2, <3>1 DEF WInv, ProcOK, Process
    <3>3. ~ proc[p].no >= MaxAttemptsOf[MyTask(p)]
      BY <3>2 DEF ExecutionOutcomes, Retry
    <3>4. claims' = claims
      BY <2>1 DEF Execute, vars
    <3>5. MyTask(p) \in Tasks /\ proc[p].no \in Nat
      BY <2>1, ProcessFacts DEF Execute, At, Holding
    <3>6. MaxAttemptsOf[MyTask(p)] \in Nat
      BY <3>5, ServiceAssumption, DurationAssumption
    <3> QED BY <3>2, <3>3, <3>4, <3>5, <3>6 DEF MyTask
  <2>2. CASE proc[p].pc \in Finishing /\ proc'[p].out = proc[p].out
    <3>1. proc'[p].claim = proc[p].claim /\ proc[p].pc \in Holding
      <4>1. ~ Claimed(p)
        BY DEF Claimed, Finishing, WInv, ProcOK, Process
      <4> QED BY <2>2, <4>1, MoveCases DEF Continues, Finishing, Holding
    <3>2. proc'[p].no = proc[p].no
      <4>1. ~ CountReviews(p)
        BY <2>2 DEF CountReviews, At, Finishing
      <4> QED BY <2>2, <4>1, MoveCases DEF Continues, Finishing, Numbered
    <3>3. claims'[proc'[p].claim].task = MyTask(p)
      BY <3>1, KeepsTask
    <3> QED BY <1>2, <2>2, <3>2, <3>3 DEF WInv, OutcomesFit
  <2> QED BY <1>2, <2>1, <2>2, MoveCases DEF Continues
<1> QED BY <1>1, <1>2

\* A commit adds the attempt with the next number.
LEMMA CommitCounts ==
    ASSUME WInv, [WNext]_wvars, NEW p \in Sessions, Commit(p)
    PROVE  LET t == MyTask(p) IN
           /\ t \in Tasks
           /\ IsFiniteSet(attempts'[t])
           /\ Cardinality(attempts'[t]) = proc[p].no
           /\ {a.no : a \in attempts'[t]} = 1 .. Cardinality(attempts'[t])
           /\ task'[t].status = proc[p].out
           /\ \A u \in Tasks \ {t} : attempts'[u] = attempts[u]
<1> DEFINE t == MyTask(p)
           x == [no |-> proc[p].no, agent |-> claims[proc[p].claim].agent,
                 token |-> claims[proc[p].claim].token, result |-> proc[p].out]
<1>1. /\ CommitOutcome(proc[p].claim, proc[p].no, proc[p].out, proc[p].clk)
      /\ proc[p].claim \in ClaimIds
      /\ proc[p].clk \in Read
  BY ProcessFacts DEF Commit, At, Holding
<1>2. proc[p].no \in 1 .. MaxAttempts /\ proc[p].out \in Outcomes
  BY CommitNumber, DurationAssumption
<1>3. /\ t \in Tasks
      /\ task'[t].status = proc[p].out
      /\ attempts'[t] = attempts[t] \cup {x}
      /\ \A u \in Tasks \ {t} : attempts'[u] = attempts[u]
  BY <1>1, <1>2, CommitEffect DEF WInv, MyTask
<1>4. x \notin attempts[t]
  BY <1>1 DEF CommitOutcome, IsNewAttempt, MyTask
<1>5. IsFiniteSet(attempts[t]) /\ {a.no : a \in attempts[t]} = 1 .. Cardinality(attempts[t])
  BY <1>3 DEF WInv, Numbering
<1>x. x.no = proc[p].no
  OBVIOUS
<1> HIDE DEF t, x
<1>6. /\ IsFiniteSet(attempts'[t])
      /\ Cardinality(attempts'[t]) = Cardinality(attempts[t]) + 1
  BY <1>3, <1>4, <1>5, FS_AddElement
<1>7. Cardinality(attempts[t]) \in Nat /\ proc[p].no = Cardinality(attempts[t]) + 1
  BY CommitNumber DEF t
<1>8. {a.no : a \in attempts'[t]} = {a.no : a \in attempts[t]} \cup {proc[p].no}
  BY <1>3, <1>x
<1>9. \A n \in Nat : (1 .. n) \cup {n + 1} = 1 .. n + 1
  OBVIOUS
<1> QED BY <1>3, <1>5, <1>6, <1>7, <1>8, <1>9 DEF t

LEMMA NextNumbering == WInv /\ [WNext]_wvars => Numbering'
<1> SUFFICES ASSUME WInv, [WNext]_wvars, NEW t \in Tasks
             PROVE  /\ IsFiniteSet(attempts'[t])
                    /\ {a.no : a \in attempts'[t]} = 1 .. Cardinality(attempts'[t])
                    /\ Cardinality(attempts'[t]) <= MaxAttemptsOf[t]
                    /\ task'[t].status \in {"pending", "running"} =>
                          Cardinality(attempts'[t]) < MaxAttemptsOf[t]
  BY DEF Numbering
<1>1. CASE attempts'[t] = attempts[t]
  <2>1. task'[t].status \in {"pending", "running"} =>
           task[t].status \in {"pending", "running"}
    BY ServiceIsStep, NextIsRowStep, EndedTaskStays DEF WInv
  <2> QED BY <1>1, <2>1 DEF WInv, Numbering
<1>2. ASSUME NEW p \in Sessions, Commit(p), MyTask(p) = t
      PROVE  /\ IsFiniteSet(attempts'[t])
             /\ {a.no : a \in attempts'[t]} = 1 .. Cardinality(attempts'[t])
             /\ Cardinality(attempts'[t]) <= MaxAttemptsOf[t]
             /\ task'[t].status \in {"pending", "running"} =>
                   Cardinality(attempts'[t]) < MaxAttemptsOf[t]
  BY <1>2, CommitCounts, CommitNumber DEF Outcomes
<1> QED BY <1>1, <1>2, ServiceAttempts, CommitCounts

LEMMA NextCount == WInv /\ [WNext]_wvars => CountIsCurrent'
<1> SUFFICES ASSUME WInv, [WNext]_wvars, NEW p \in Sessions,
                    proc'[p].pc \in Numbered,
                    claims'[proc'[p].claim].status = "active"
             PROVE  proc'[p].no =
                       Cardinality(attempts'[claims'[proc'[p].claim].task]) + 1
  BY DEF CountIsCurrent, MyTask, Active
<1>1. CASE CountReviews(p)
  <2>1. /\ proc'[p].no = Cardinality(attempts[MyTask(p)]) + 1
        /\ proc'[p].claim = proc[p].claim
    BY <1>1 DEF CountReviews, WInv, ProcOK, Process
  <2>2. attempts' = attempts /\ claims' = claims
    BY <1>1 DEF CountReviews, vars
  <2> QED BY <2>1, <2>2 DEF MyTask
<1>2. CASE ~ CountReviews(p)
  <2>1. proc[p].pc \in Numbered /\ proc'[p].no = proc[p].no
    BY <1>2, MoveCases DEF Continues
  <2>2. proc'[p].claim = proc[p].claim /\ proc[p].pc \in Holding
    BY <2>1, MoveCases DEF Continues, Claimed, At, Numbered, Holding
  <2>3. claims'[proc'[p].claim].task = MyTask(p) /\ Active(proc[p].claim)
    BY <2>2, KeepsTask
  <2>4. MyTask(p) \in Tasks
    BY <2>2, ProcessFacts
  <2>5. attempts'[MyTask(p)] = attempts[MyTask(p)]
    <3>1. ASSUME NEW q \in Sessions, Commit(q), MyTask(q) = MyTask(p)
          PROVE  FALSE
      <4>1. Active(proc[q].claim) /\ proc[q].pc \in Holding
        BY <3>1, CommitNumber DEF Commit, At, Holding
      <4>2. proc[q].claim = proc[p].claim
        BY <2>2, <2>3, <3>1, <4>1 DEF WInv, RunningIffClaimed, ClaimsAreOwn, MyTask
      <4>3. q = p
        BY <2>2, <4>1, <4>2 DEF WInv, ClaimsAreOwn
      <4>4. proc'[p].pc = "poll"
        BY <3>1, <4>3 DEF Commit, End, Fresh, WInv, ProcOK
      <4> QED BY <4>4 DEF Numbered
    <3> QED BY <2>4, <3>1, ServiceAttempts, CommitCounts
  <2> QED BY <2>1, <2>3, <2>5 DEF WInv, CountIsCurrent
<1> QED BY <1>1, <1>2

\* What a task's executions enqueue are keys.
LEMMA MessageKeys ==
    ASSUME NEW t \in Tasks, NEW m \in Messages[t]
    PROVE  KeysOf(m) \subseteq Keys
BY ServiceAssumption DEF KeysOf

LEMMA NextPerf == WInv /\ [WNext]_wvars => PerfOK'
<1> SUFFICES ASSUME WInv, [WNext]_wvars
             PROVE  PerfOK'
  OBVIOUS
<1>1. CASE perf' = perf /\ intents' = intents
  BY <1>1 DEF WInv, PerfOK
<1>2. ASSUME NEW p \in Sessions, Commit(p)
      PROVE  PerfOK'
  <2>1. proc[p].seen + 1 \in Nat
    BY SoundNow DEF Sound, Process
  <2>2. MyTask(p) \in Tasks
    BY <1>2, ProcessFacts DEF Commit, At, Holding
  <2>3. perf' \in [Agents -> [Types -> Nat]]
    BY <1>2, <2>1 DEF Commit, WInv, PerfOK
  <2>4. intents' \subseteq Keys
    BY <1>2, <2>2, MessageKeys DEF Commit, WInv, PerfOK
  <2> QED BY <2>3, <2>4 DEF PerfOK
<1>3. (perf' = perf /\ intents' = intents) \/ \E p \in Sessions : Commit(p)
  BY DEF WNext, ForegroundStep, MaintainerStep, ReadClock, EnsureSession,
         SessionRejected, Claimed, NothingReady, CountReviews, Execute,
         NeedApproval, JoinMaintainer, FinalHeartbeat, FinalRenew, Pause, Lost,
         Raise, Stop, Crash, MaintainerWakes, MaintainerBeats, MaintainerRenews,
         MaintainerLoses, Reap, Decide, ClockAdvances, wvars
<1> QED BY <1>1, <1>2, <1>3

LEMMA InitWInv == WInit => WInv
<1> SUFFICES ASSUME WInit PROVE WInv
  OBVIOUS
<1>1. TypeOK /\ RunningIffClaimed
  BY InitTypeOK, InitRunning DEF WInit
<1>2. \A p \in Sessions : proc[p] = Fresh("new")
  BY DEF WInit
<1>3. ProcOK /\ ClocksAreRead /\ ClaimsAreOwn /\ MaintainersWork /\ OutcomesFit
  BY <1>2, DurationAssumption
     DEF WInit, Init, ProcOK, Process, Fresh, Times, Foreground, Maintainer,
         ClocksAreRead, ClaimsAreOwn, Holding, MaintainersWork, OutcomesFit,
         Finishing
<1>4. PerfOK
  BY DEF WInit, PerfOK
<1>5. Numbering
  <2>1. \A t \in Tasks : attempts[t] = {} /\ MaxAttemptsOf[t] \in 1 .. MaxAttempts
    BY ServiceAssumption DEF WInit, Init
  <2>2. IsFiniteSet({}) /\ Cardinality({}) = 0 /\ 1 .. 0 = {}
    BY FS_EmptySet
  <2>3. {a.no : a \in {}} = {}
    OBVIOUS
  <2> QED BY <2>1, <2>2, <2>3, DurationAssumption DEF Numbering
<1>6. CountIsCurrent
  BY <1>2 DEF CountIsCurrent, Fresh, Numbered
<1> QED BY <1>1, <1>3, <1>4, <1>5, <1>6 DEF WInv

LEMMA NextWInv == WInv /\ [WNext]_wvars => WInv'
<1> SUFFICES ASSUME WInv, [WNext]_wvars PROVE WInv'
  OBVIOUS
<1>1. TypeOK' /\ RunningIffClaimed'
  BY ServiceIsStep, NextTypeOK, NextRunning DEF WInv
<1>2. \A p \in Sessions : Sound(proc'[p])
  BY MoveCases, SoundNow
<1>3. ProcOK'
  <2>1. CASE proc' = [p \in Sessions |-> proc'[p]]
    BY <1>2, <2>1 DEF ProcOK, Sound
  <2>2. CASE proc' = proc
    BY <2>2 DEF WInv, ProcOK
  <2> QED BY <2>1, <2>2, OneMoves DEF Moves
<1>4. MaintainersWork'
  BY <1>2 DEF Sound, MaintainersWork
<1> QED BY <1>1, <1>3, <1>4, NextPerf, NextClocks, NextOwn, NextOutcomes,
           NextNumbering, NextCount DEF WInv

-----------------------------------------------------------------------------
(* Clocks: what a process presents last is not older than what its threads *)
(* presented before.                                                       *)

\* Every heartbeat and renewal on record was made at a time already read.
HeartbeatsArePast == \A w \in Workers : LastHeartbeatAt(w) <= now
RenewalsArePast ==
    \A c \in ClaimIds : Active(c) => RenewedAt(c) <= now /\ claims[c].acquired <= now

\* The clock read after the maintainer was joined is no older than any
\* heartbeat under the session and any renewal of the claim; the one read after
\* the final renewal no older than the claim itself.
FinalClockIsLast ==
    \A p \in Sessions :
       /\ proc[p].pc = "beat" /\ sessions[WorkerOf[p]].session = p =>
             LastHeartbeatAt(WorkerOf[p]) <= proc[p].clk
       /\ proc[p].pc \in {"beat", "renew"} /\ Active(proc[p].claim) =>
             RenewedAt(proc[p].claim) <= proc[p].clk
       /\ proc[p].pc = "finish" /\ Active(proc[p].claim) =>
             claims[proc[p].claim].acquired <= proc[p].clk

ClockInv == WInv /\ HeartbeatsArePast /\ RenewalsArePast /\ FinalClockIsLast

\* A process changes by its own steps only.
LEMMA OwnStep ==
    ASSUME WInv, [WNext]_wvars, NEW p \in Sessions, proc'[p] # proc[p]
    PROVE  ProcessStep(p)
BY OneMoves DEF Moves

\* It comes to its final heartbeat by joining the maintainer, to its final
\* renewal by that heartbeat, and to its commit or pause by that renewal.
LEMMA BeatsAfterJoin ==
    ASSUME WInv, [WNext]_wvars, NEW p \in Sessions, proc'[p].pc \in {"beat", "renew", "finish"}
    PROVE  \/ proc'[p] = proc[p]
           \/ /\ JoinMaintainer(p) /\ proc'[p].pc = "beat"
              /\ proc'[p].clk = now /\ proc'[p].claim = proc[p].claim
           \/ /\ FinalHeartbeat(p) /\ proc'[p].pc = "renew" /\ proc[p].pc = "beat"
              /\ proc'[p].clk = proc[p].clk /\ proc'[p].claim = proc[p].claim
           \/ /\ FinalRenew(p) /\ proc'[p].pc = "finish" /\ proc[p].pc = "renew"
              /\ proc'[p].clk = now /\ proc'[p].claim = proc[p].claim
<1> SUFFICES ASSUME proc'[p] # proc[p]
             PROVE  \/ /\ JoinMaintainer(p) /\ proc'[p].pc = "beat"
                       /\ proc'[p].clk = now /\ proc'[p].claim = proc[p].claim
                    \/ /\ FinalHeartbeat(p) /\ proc'[p].pc = "renew"
                       /\ proc[p].pc = "beat" /\ proc'[p].clk = proc[p].clk
                       /\ proc'[p].claim = proc[p].claim
                    \/ /\ FinalRenew(p) /\ proc'[p].pc = "finish"
                       /\ proc[p].pc = "renew" /\ proc'[p].clk = now
                       /\ proc'[p].claim = proc[p].claim
  OBVIOUS
<1>0. proc \in [Sessions -> Process] /\ ProcessStep(p)
  BY OwnStep DEF WInv, ProcOK
<1>1. CASE MaintainerWakes(p) \/ MaintainerStep(p)
  <2>1. proc[p].maint # "off" /\ proc'[p].pc = proc[p].pc
    BY <1>0, <1>1 DEF MaintainerWakes, MaintainerStep, MaintainerBeats,
                      MaintainerRenews, MaintainerLoses, Process
  <2> QED BY <2>1 DEF WInv, MaintainersWork
<1>2. CASE \/ SessionRejected(p) \/ Commit(p) \/ Pause(p) \/ Lost(p)
           \/ Raise(p) \/ Stop(p) \/ Crash(p)
  BY <1>0, <1>2 DEF SessionRejected, Commit, Pause, Lost, Raise, Stop, Crash,
                    End, Fresh, Ended
<1>3. CASE \/ ReadClock(p) \/ EnsureSession(p) \/ Claimed(p) \/ NothingReady(p)
           \/ CountReviews(p) \/ Execute(p) \/ NeedApproval(p)
  <2> USE <1>0 DEF Goto, GotoNow, Process
  <2>1. CASE ReadClock(p) \/ EnsureSession(p) \/ NothingReady(p)
    BY <2>1 DEF ReadClock, EnsureSession, NothingReady
  <2>2. CASE Claimed(p) \/ CountReviews(p)
    BY <2>2 DEF Claimed, CountReviews
  <2>3. CASE Execute(p)
    <3>1. PICK r \in ExecutionOutcomes(p) :
             proc' = [proc EXCEPT ![p].pc = "join", ![p].out = r,
                                  ![p].seen = perf[MyAgent(p)][MyType(p)]]
      BY <2>3 DEF Execute
    <3>2. proc'[p].pc = "join"
      BY <3>1
    <3> QED BY <3>2
  <2>4. CASE NeedApproval(p)
    <3>1. proc'[p].pc = "join"
      BY <2>4 DEF NeedApproval
    <3> QED BY <3>1
  <2> QED BY <1>3, <2>1, <2>2, <2>3, <2>4
<1>4. CASE JoinMaintainer(p)
  BY <1>0, <1>4 DEF JoinMaintainer, End, Fresh, Process
<1>5. CASE FinalHeartbeat(p)
  BY <1>0, <1>5 DEF FinalHeartbeat, Goto, At, Process
<1>6. CASE FinalRenew(p)
  BY <1>0, <1>6 DEF FinalRenew, GotoNow, At, Process
<1>7. \/ MaintainerWakes(p) \/ MaintainerStep(p)
      \/ SessionRejected(p) \/ Commit(p) \/ Pause(p) \/ Lost(p)
      \/ Raise(p) \/ Stop(p) \/ Crash(p)
      \/ ReadClock(p) \/ EnsureSession(p) \/ Claimed(p) \/ NothingReady(p)
      \/ CountReviews(p) \/ Execute(p) \/ NeedApproval(p) \/ FinalRenew(p)
      \/ JoinMaintainer(p) \/ FinalHeartbeat(p)
  BY <1>0, Zenon DEF ProcessStep, ForegroundStep
<1> QED BY <1>1, <1>2, <1>3, <1>4, <1>5, <1>6, <1>7, Zenon

\* Who writes a session: its process registers or beats, at a time it read.
LEMMA SessionWrites ==
    ASSUME WInv, [WNext]_wvars, NEW w \in Workers
    PROVE  \/ sessions'[w] = sessions[w]
           \/ \E q \in Sessions, at \in Times :
                 /\ EnsureSession(q) \/ FinalHeartbeat(q) \/ MaintainerBeats(q)
                 /\ w = WorkerOf[q] /\ at <= now
                 /\ sessions'[w] = [session |-> q, expires |-> at + TTL]
<1>0. sessions \in [Workers -> Session]
  BY DEF WInv, TypeOK
<1>1. ASSUME NEW p \in Sessions, EnsureSession(p) \/ FinalHeartbeat(p)
      PROVE  \/ sessions'[w] = sessions[w]
             \/ /\ w = WorkerOf[p]
                /\ sessions'[w] = [session |-> p, expires |-> proc[p].clk + TTL]
  BY <1>0, <1>1 DEF EnsureSession, FinalHeartbeat, RegisterWorker, Heartbeat
<1>2. ASSUME NEW p \in Sessions, MaintainerBeats(p)
      PROVE  \/ sessions'[w] = sessions[w]
             \/ /\ w = WorkerOf[p]
                /\ sessions'[w] = [session |-> p, expires |-> proc[p].mclk + TTL]
  BY <1>0, <1>2 DEF MaintainerBeats, Heartbeat
<1>3. ASSUME NEW p \in Sessions, ProcessStep(p), ~ EnsureSession(p),
             ~ FinalHeartbeat(p), ~ MaintainerBeats(p)
      PROVE  sessions' = sessions
  BY <1>3 DEF ProcessStep, ForegroundStep, MaintainerStep, ReadClock,
              SessionRejected, Claimed, NothingReady, CountReviews, Execute,
              NeedApproval, JoinMaintainer, FinalRenew, Commit, Pause, Lost,
              Raise, MaintainerRenews, MaintainerLoses, MaintainerWakes, Stop,
              Crash, ClaimNextTask, CreateClaim, SaveApproval, RenewClaim,
              CommitOutcome, PauseForApproval, vars
<1>4. CASE Reap \/ Decide \/ ClockAdvances \/ UNCHANGED wvars
  BY <1>4 DEF Reap, Decide, ClockAdvances, ReapExpired, ResolveApproval, Tick,
              vars, wvars
<1>5. \A p \in Sessions : /\ proc[p].clk \in Times /\ proc[p].clk <= now
                          /\ proc[p].mclk \in Times /\ proc[p].mclk <= now
  BY ProcessFacts DEF Read
<1> QED BY <1>1, <1>2, <1>3, <1>4, <1>5 DEF WNext, ProcessStep

\* Who writes the lease of a claim: the process that takes it or renews it; the
\* time it was acquired is that of the first.
LEMMA LeaseWrites ==
    ASSUME WInv, [WNext]_wvars, NEW c \in ClaimIds, claims'[c].status = "active"
    PROVE  \/ /\ Active(c)
              /\ claims'[c].expires = claims[c].expires
              /\ claims'[c].acquired = claims[c].acquired
           \/ \E q \in Sessions, at \in Times :
                 /\ \/ Claimed(q) /\ c = FreshId
                    \/ FinalRenew(q) /\ c = proc[q].claim
                    \/ MaintainerRenews(q) /\ c = proc[q].claim
                 /\ at <= now /\ claims'[c].expires = at + Lease
                 /\ \/ claims'[c].acquired = at
                    \/ Active(c) /\ claims'[c].acquired = claims[c].acquired
<1>0. claims \in [ClaimIds -> Claim \cup {NoClaim}] /\ TypeOK /\ RunningIffClaimed
  BY DEF WInv, TypeOK
<1>1. ASSUME NEW p \in Sessions, Claimed(p)
      PROVE  \/ /\ Active(c)
                /\ claims'[c].expires = claims[c].expires
                /\ claims'[c].acquired = claims[c].acquired
             \/ /\ c = FreshId /\ claims'[c].expires = proc[p].clk + Lease
                /\ claims'[c].acquired = proc[p].clk
  <2>1. FreshId \in ClaimIds
    BY <1>1 DEF Claimed, FreshId
  <2>2. \E t, a : CreateClaim(FreshId, WorkerOf[p], p, t, a, proc[p].clk)
    BY <1>1 DEF Claimed, ClaimNextTask
  <2> QED BY <1>0, <2>1, <2>2 DEF CreateClaim, Active
<1>2. ASSUME NEW d \in ClaimIds, NEW at, RenewClaim(d, at)
      PROVE  \/ /\ Active(c)
                /\ claims'[c].expires = claims[c].expires
                /\ claims'[c].acquired = claims[c].acquired
             \/ /\ c = d /\ claims'[c].expires = at + Lease
                /\ Active(c) /\ claims'[c].acquired = claims[c].acquired
  <2>1. claims[d] \in Claim /\ claims' = [claims EXCEPT ![d].expires = at + Lease]
    BY <1>0, <1>2, ActiveRowTypes DEF RenewClaim, MayRenew, Owns, RequireClaim
  <2> QED BY <1>0, <2>1 DEF Active, Claim
<1>3. ASSUME NEW d \in ClaimIds, NEW at \in Read,
             \/ PauseForApproval(d, at)
             \/ \E no \in 1 .. MaxAttempts, r \in Outcomes :
                   CommitOutcome(d, no, r, at)
      PROVE  /\ Active(c)
             /\ claims'[c].expires = claims[c].expires
             /\ claims'[c].acquired = claims[c].acquired
  <2>1. PICK s \in TerminalClaim : Active(d) /\ claims' = [claims EXCEPT ![d] = Finished(d, s)]
    BY <1>0, <1>3, EndingSteps DEF EndsClaim
  <2>2. c # d
    BY <1>0, <2>1, FinishEffect DEF TerminalClaim
  <2> QED BY <1>0, <2>1, <2>2 DEF Active
<1>4. ASSUME NEW at \in Times, ReapExpired(at)
      PROVE  /\ Active(c)
             /\ claims'[c].expires = claims[c].expires
             /\ claims'[c].acquired = claims[c].acquired
  <2>1. Active(c) => Finished(c, "expired").status = "expired"
    BY <1>0, ActiveRowTypes DEF Finished, Claim
  <2> QED BY <1>4, <2>1 DEF ReapExpired, ExpiredClaims, Active
<1>5. ASSUME NEW p \in Sessions, ProcessStep(p), ~ Claimed(p), ~ FinalRenew(p),
             ~ MaintainerRenews(p), ~ Commit(p), ~ Pause(p)
      PROVE  claims' = claims
  BY <1>5 DEF ProcessStep, ForegroundStep, MaintainerStep, ReadClock,
              EnsureSession, SessionRejected, NothingReady, CountReviews, Execute,
              NeedApproval, JoinMaintainer, FinalHeartbeat, Lost, Raise,
              MaintainerBeats, MaintainerLoses, MaintainerWakes, Stop, Crash,
              RegisterWorker, Heartbeat, SaveApproval, vars
<1>6. CASE Decide \/ ClockAdvances \/ UNCHANGED wvars
  BY <1>6 DEF Decide, ClockAdvances, ResolveApproval, Tick, vars, wvars, Active
<1>7. \A p \in Sessions : /\ proc[p].clk \in Times /\ proc[p].clk <= now
                          /\ proc[p].mclk \in Times /\ proc[p].mclk <= now
  BY ProcessFacts DEF Read
<1>8. ASSUME NEW p \in Sessions, FinalRenew(p)
      PROVE  \/ /\ Active(c)
                /\ claims'[c].expires = claims[c].expires
                /\ claims'[c].acquired = claims[c].acquired
             \/ /\ c = proc[p].claim /\ claims'[c].expires = proc[p].clk + Lease
                /\ Active(c) /\ claims'[c].acquired = claims[c].acquired
  <2>1. proc[p].claim \in ClaimIds /\ RenewClaim(proc[p].claim, proc[p].clk)
    BY <1>8, ProcessFacts DEF FinalRenew, At, Holding
  <2> QED BY <2>1, <1>2
<1>9. ASSUME NEW p \in Sessions, MaintainerRenews(p)
      PROVE  \/ /\ Active(c)
                /\ claims'[c].expires = claims[c].expires
                /\ claims'[c].acquired = claims[c].acquired
             \/ /\ c = proc[p].claim /\ claims'[c].expires = proc[p].mclk + Lease
                /\ Active(c) /\ claims'[c].acquired = claims[c].acquired
  <2>1. proc[p].claim \in ClaimIds /\ RenewClaim(proc[p].claim, proc[p].mclk)
    BY <1>9, ProcessFacts DEF MaintainerRenews
  <2> QED BY <2>1, <1>2
<1>10. ASSUME NEW p \in Sessions, Commit(p) \/ Pause(p)
       PROVE  /\ Active(c)
              /\ claims'[c].expires = claims[c].expires
              /\ claims'[c].acquired = claims[c].acquired
  <2>1. proc[p].claim \in ClaimIds /\ proc[p].clk \in Read
    BY <1>10, ProcessFacts DEF Commit, Pause, At, Holding
  <2>2. CASE Commit(p)
    <3>1. CommitOutcome(proc[p].claim, proc[p].no, proc[p].out, proc[p].clk)
      BY <2>2 DEF Commit
    <3>2. proc[p].no \in 1 .. MaxAttempts /\ proc[p].out \in Outcomes
      BY <2>2, CommitNumber, DurationAssumption
    <3> QED BY <2>1, <3>1, <3>2, <1>3
  <2>3. CASE Pause(p)
    BY <2>1, <2>3, <1>3 DEF Pause
  <2> QED BY <1>10, <2>2, <2>3
<1> QED BY <1>1, <1>4, <1>5, <1>6, <1>7, <1>8, <1>9, <1>10
        DEF WNext, ProcessStep, Reap, Active

LEMMA NextClockInv == ClockInv /\ [WNext]_wvars => ClockInv'
<1> SUFFICES ASSUME ClockInv, [WNext]_wvars PROVE ClockInv'
  OBVIOUS
<1> USE DurationAssumption, ServiceAssumption DEF ClockInv
<1>0. WInv' /\ now \in Nat /\ now' \in Nat /\ now <= now'
  <2>1. WInv'
    BY NextWInv
  <2>2. now' = now \/ now' = now + 1
    BY ServiceIsStep, ClockSteps
  <2> QED BY <2>1, <2>2 DEF WInv, TypeOK, Times
<1>1. HeartbeatsArePast'
  <2> SUFFICES ASSUME NEW w \in Workers
               PROVE  sessions'[w].expires - TTL <= now'
    BY DEF HeartbeatsArePast, LastHeartbeatAt
  <2>1. sessions[w].expires \in Int /\ sessions[w].expires - TTL <= now
    BY DEF HeartbeatsArePast, LastHeartbeatAt, WInv, TypeOK, Session
  <2>2. CASE sessions'[w] = sessions[w]
    BY <1>0, <2>1, <2>2
  <2>3. ASSUME NEW at \in Times, at <= now, sessions'[w].expires = at + TTL
        PROVE  sessions'[w].expires - TTL <= now'
    BY <1>0, <2>3 DEF Times
  <2>4. CASE sessions'[w] # sessions[w]
    <3>1. PICK q \in Sessions, at \in Times :
             at <= now /\ sessions'[w] = [session |-> q, expires |-> at + TTL]
      BY <2>4, SessionWrites
    <3> QED BY <3>1, <2>3
  <2> QED BY <2>2, <2>4
<1>2. RenewalsArePast'
  <2> SUFFICES ASSUME NEW c \in ClaimIds, claims'[c].status = "active"
               PROVE  /\ claims'[c].expires - Lease <= now'
                      /\ claims'[c].acquired <= now'
    BY DEF RenewalsArePast, RenewedAt, Active
  <2>0. Active(c) => /\ claims[c].expires \in Int /\ claims[c].acquired \in Int
                     /\ claims[c].expires - Lease <= now
                     /\ claims[c].acquired <= now
    BY ActiveRowTypes DEF RenewalsArePast, RenewedAt, WInv
  <2>1. CASE /\ Active(c)
             /\ claims'[c].expires = claims[c].expires
             /\ claims'[c].acquired = claims[c].acquired
    BY <1>0, <2>0, <2>1
  <2>2. ASSUME NEW at \in Times, at <= now, claims'[c].expires = at + Lease,
               \/ claims'[c].acquired = at
               \/ Active(c) /\ claims'[c].acquired = claims[c].acquired
        PROVE  claims'[c].expires - Lease <= now' /\ claims'[c].acquired <= now'
    BY <1>0, <2>0, <2>2 DEF Times
  <2> QED BY <2>1, <2>2, LeaseWrites
<1>3. ASSUME NEW p \in Sessions, proc'[p].pc = "beat",
             sessions'[WorkerOf[p]].session = p
      PROVE  sessions'[WorkerOf[p]].expires - TTL <= proc'[p].clk
  <2>1. CASE JoinMaintainer(p) /\ proc'[p].clk = now
    <3>1. sessions' = sessions
      BY <2>1 DEF JoinMaintainer, vars
    <3> QED BY <2>1, <3>1 DEF HeartbeatsArePast, LastHeartbeatAt
  <2>2. CASE proc'[p] = proc[p]
    <3>1. ~ EnsureSession(p) /\ ~ FinalHeartbeat(p) /\ ~ MaintainerBeats(p)
      BY <1>3, <2>2 DEF EnsureSession, FinalHeartbeat, MaintainerBeats, At, Goto,
                        WInv, ProcOK, Process, MaintainersWork
    <3>2. ASSUME sessions'[WorkerOf[p]] # sessions[WorkerOf[p]] PROVE FALSE
      <4>1. PICK q \in Sessions, at \in Times :
               /\ EnsureSession(q) \/ FinalHeartbeat(q) \/ MaintainerBeats(q)
               /\ sessions'[WorkerOf[p]] = [session |-> q, expires |-> at + TTL]
        BY <3>2, SessionWrites
      <4>2. q = p
        BY <1>3, <4>1
      <4> QED BY <3>1, <4>1, <4>2
    <3> QED BY <1>3, <2>2, <3>2 DEF FinalClockIsLast, LastHeartbeatAt
  <2> QED BY <1>3, <2>1, <2>2, BeatsAfterJoin
<1>4. ASSUME NEW p \in Sessions, proc'[p].pc \in {"beat", "renew"},
             claims'[proc'[p].claim].status = "active"
      PROVE  claims'[proc'[p].claim].expires - Lease <= proc'[p].clk
  <2>0. proc'[p].claim = proc[p].claim /\ proc[p].pc \in {"join", "beat", "renew"}
    BY <1>4, BeatsAfterJoin DEF JoinMaintainer, At
  <2>1. proc[p].claim \in ClaimIds /\ claims[proc[p].claim].session = p
    BY <2>0 DEF WInv, ClaimsAreOwn, Holding
  <2>2. CASE JoinMaintainer(p) /\ proc'[p].clk = now
    <3>1. claims' = claims
      BY <2>2 DEF JoinMaintainer, vars
    <3> QED BY <1>4, <2>0, <2>1, <2>2, <3>1 DEF RenewalsArePast, RenewedAt, Active
  <2>3. CASE proc'[p].clk = proc[p].clk /\ proc[p].pc \in {"beat", "renew"}
    <3>1. ASSUME NEW q \in Sessions,
                 \/ FinalRenew(q) \/ MaintainerRenews(q), proc[p].claim = proc[q].claim
          PROVE  FALSE
      <4>1. proc[q].pc \in Holding
        BY <3>1, ProcessFacts DEF FinalRenew, MaintainerRenews, At, Holding
      <4>2. q = p
        BY <2>1, <3>1, <4>1 DEF WInv, ClaimsAreOwn
      <4>3. CASE FinalRenew(p)
        <5>1. proc'[p].pc = "finish"
          BY <4>3 DEF FinalRenew, GotoNow, WInv, ProcOK
        <5> QED BY <1>4, <5>1
      <4>4. CASE MaintainerRenews(p)
        BY <2>3, <4>4 DEF MaintainerRenews, WInv, MaintainersWork
      <4> QED BY <3>1, <4>2, <4>3, <4>4
    <3>2. ASSUME NEW q \in Sessions, Claimed(q), proc[p].claim = FreshId
          PROVE  FALSE
      BY <2>0, <3>2 DEF Claimed, FreshId, WInv, ClaimsAreOwn, Holding
    <3>3. /\ Active(proc[p].claim)
          /\ claims'[proc[p].claim].expires = claims[proc[p].claim].expires
      BY <1>4, <2>0, <2>1, <3>1, <3>2, LeaseWrites
    <3> QED BY <2>0, <2>3, <3>3 DEF FinalClockIsLast, RenewedAt
  <2> QED BY <1>4, <2>2, <2>3, BeatsAfterJoin
<1>5. ASSUME NEW p \in Sessions, proc'[p].pc = "finish",
             claims'[proc'[p].claim].status = "active"
      PROVE  claims'[proc'[p].claim].acquired <= proc'[p].clk
  <2>0. proc'[p].claim = proc[p].claim /\ proc[p].pc \in {"renew", "finish"}
    BY <1>5, BeatsAfterJoin
  <2>1. proc[p].claim \in ClaimIds /\ claims[proc[p].claim].status # "none"
    BY <2>0 DEF WInv, ClaimsAreOwn, Holding
  <2>2. ASSUME NEW q \in Sessions, Claimed(q), proc[p].claim = FreshId
        PROVE  FALSE
    BY <2>1, <2>2 DEF Claimed, FreshId
  <2>3. ASSUME NEW q \in Sessions,
               FinalRenew(q) \/ MaintainerRenews(q), proc[p].claim = proc[q].claim
        PROVE  /\ Active(proc[p].claim)
               /\ claims'[proc[p].claim].acquired = claims[proc[p].claim].acquired
    <3>1. PICK at : RenewClaim(proc[p].claim, at)
      BY <2>3 DEF FinalRenew, MaintainerRenews
    <3>2. Active(proc[p].claim) /\ claims[proc[p].claim] \in Claim
      BY <2>1, <3>1, ActiveRowTypes
         DEF RenewClaim, MayRenew, Owns, RequireClaim, WInv
    <3> QED BY <2>1, <3>1, <3>2 DEF RenewClaim, WInv, TypeOK, Claim
  <2>4. /\ Active(proc[p].claim)
        /\ claims'[proc[p].claim].acquired = claims[proc[p].claim].acquired
    BY <1>5, <2>0, <2>1, <2>2, <2>3, LeaseWrites
  <2>5. CASE proc'[p].clk = now
    BY <2>0, <2>1, <2>4, <2>5 DEF RenewalsArePast
  <2>6. CASE proc'[p] = proc[p]
    BY <1>5, <2>4, <2>6 DEF FinalClockIsLast
  <2> QED BY <1>5, <2>5, <2>6, BeatsAfterJoin
<1> QED BY <1>0, <1>1, <1>2, <1>3, <1>4, <1>5
        DEF FinalClockIsLast, LastHeartbeatAt, RenewedAt, Active

LEMMA InitClockInv == WInit => ClockInv
<1> SUFFICES ASSUME WInit PROVE ClockInv
  OBVIOUS
<1>1. HeartbeatsArePast
  BY DurationAssumption DEF WInit, Init, HeartbeatsArePast, LastHeartbeatAt
<1>2. RenewalsArePast
  BY DEF WInit, Init, RenewalsArePast, Active, NoClaim
<1>3. FinalClockIsLast
  BY DEF WInit, FinalClockIsLast, Fresh
<1> QED BY <1>1, <1>2, <1>3, InitWInv DEF ClockInv

-----------------------------------------------------------------------------
(* Records: intents and the performance of agents follow the commits.      *)

\* The attempts committed by agent a for tasks of type y.
Committed(a, y) ==
    UNION {{<<t, e>> : e \in {x \in attempts[t] : x.agent = a}}
              : t \in {u \in Tasks : TypeOf[u] = y}}

IntentsFollow ==
    /\ \A t \in Tasks : task[t].status = "succeeded" =>
          \E m \in Messages[t] : KeysOf(m) \subseteq intents
    /\ \A k \in intents : \E t \in Tasks :
          /\ task[t].status = "succeeded"
          /\ \E m \in Messages[t] : k \in KeysOf(m)

\* A record counts no more than the commits, and some once there are any.
PerformanceFollows ==
    \A a \in Agents, y \in Types :
       /\ IsFiniteSet(Committed(a, y))
       /\ perf[a][y] <= Cardinality(Committed(a, y))
       /\ Committed(a, y) # {} => perf[a][y] > 0

\* So does the record a process has read, and writes back plus one at its
\* commit, however many commits of others there are in between.
SeenIsCommitted ==
    \A p \in Sessions :
       proc[p].pc \in Finishing /\ proc[p].out # "approval" =>
          proc[p].seen <= Cardinality(Committed(MyAgent(p), MyType(p)))

RecordInv == WInv /\ IntentsFollow /\ PerformanceFollows /\ SeenIsCommitted

\* The records and the attempts are written by commits only.
LEMMA RecordsAreCommitted ==
    ASSUME WInv, [WNext]_wvars
    PROVE  \/ \E p \in Sessions : Commit(p)
           \/ UNCHANGED <<attempts, perf, intents>>
<1>1. UNCHANGED <<perf, intents>> \/ \E p \in Sessions : Commit(p)
  BY DEF WNext, ForegroundStep, MaintainerStep, ReadClock, EnsureSession,
         SessionRejected, Claimed, NothingReady, CountReviews, Execute,
         NeedApproval, JoinMaintainer, FinalHeartbeat, FinalRenew, Pause, Lost,
         Raise, Stop, Crash, MaintainerWakes, MaintainerBeats, MaintainerRenews,
         MaintainerLoses, Reap, Decide, ClockAdvances, wvars
<1> QED BY <1>1, ServiceAttempts

\* A commit adds an attempt of its agent and its task's type, and writes one
\* more than its process had read.
LEMMA CommitRecords ==
    ASSUME WInv, [WNext]_wvars, NEW p \in Sessions, Commit(p)
    PROVE  /\ MyAgent(p) \in Agents /\ MyType(p) \in Types /\ MyTask(p) \in Tasks
           /\ \A a \in Agents, y \in Types :
                 <<a, y>> # <<MyAgent(p), MyType(p)>> =>
                    Committed(a, y)' = Committed(a, y) /\ perf'[a][y] = perf[a][y]
           /\ perf'[MyAgent(p)][MyType(p)] = proc[p].seen + 1
           /\ \E z : /\ z \notin Committed(MyAgent(p), MyType(p))
                     /\ \A a, y : a = MyAgent(p) /\ y = MyType(p) =>
                           Committed(a, y)' = Committed(a, y) \cup {z}
<1> DEFINE t == MyTask(p)
           A == MyAgent(p)
           Y == MyType(p)
           x == [no |-> proc[p].no, agent |-> A,
                 token |-> claims[proc[p].claim].token, result |-> proc[p].out]
<1>1. /\ CommitOutcome(proc[p].claim, proc[p].no, proc[p].out, proc[p].clk)
      /\ proc[p].claim \in ClaimIds /\ proc[p].clk \in Read
  BY ProcessFacts DEF Commit, At, Holding
<1>2. proc[p].no \in 1 .. MaxAttempts /\ proc[p].out \in Outcomes
  BY CommitNumber, DurationAssumption
<1>3. /\ t \in Tasks
      /\ attempts'[t] = attempts[t] \cup {x}
      /\ \A u \in Tasks \ {t} : attempts'[u] = attempts[u]
  BY <1>1, <1>2, CommitEffect DEF WInv, MyTask, MyAgent
<1>4. A \in Agents /\ Y \in Types /\ TypeOf[t] = Y
  BY <1>1, <1>3, CommitNumber, ActiveRowTypes, TopologyAssumption
     DEF WInv, MyAgent, MyType
<1>5. x \notin attempts[t] /\ x.agent = A
  BY <1>1 DEF CommitOutcome, IsNewAttempt, MyTask
<1>6. /\ perf'[A][Y] = proc[p].seen + 1
      /\ \A a \in Agents, y \in Types :
            <<a, y>> # <<A, Y>> => perf'[a][y] = perf[a][y]
  BY <1>4 DEF Commit, WInv, PerfOK
<1> HIDE DEF t, A, Y, x
<1>7. ASSUME NEW a \in Agents, NEW y \in Types, <<a, y>> # <<A, Y>>
      PROVE  Committed(a, y)' = Committed(a, y)
  <2>1. ASSUME NEW u \in Tasks, TypeOf[u] = y
        PROVE  {e \in attempts'[u] : e.agent = a} = {e \in attempts[u] : e.agent = a}
    BY <1>3, <1>4, <1>5, <1>7, <2>1
  <2> QED BY <2>1 DEF Committed
<1>8. <<t, x>> \notin Committed(A, Y)
  BY <1>5 DEF Committed
<1>9. ASSUME NEW a, NEW y, a = A, y = Y
      PROVE  Committed(a, y)' = Committed(a, y) \cup {<<t, x>>}
  <2>1. ASSUME NEW z PROVE z \in Committed(a, y)' <=>
           \E u \in Tasks : TypeOf[u] = y /\
              \E e \in attempts'[u] : e.agent = a /\ z = <<u, e>>
    BY DEF Committed
  <2>2. ASSUME NEW z PROVE z \in Committed(a, y) <=>
           \E u \in Tasks : TypeOf[u] = y /\
              \E e \in attempts[u] : e.agent = a /\ z = <<u, e>>
    BY DEF Committed
  <2>3. ASSUME NEW z
        PROVE  (\E u \in Tasks : TypeOf[u] = y /\
                  \E e \in attempts'[u] : e.agent = a /\ z = <<u, e>>)
               <=> \/ z = <<t, x>>
                   \/ \E u \in Tasks : TypeOf[u] = y /\
                         \E e \in attempts[u] : e.agent = a /\ z = <<u, e>>
    BY <1>3, <1>4, <1>5, <1>9
  <2> QED BY <2>1, <2>2, <2>3
<1> QED BY <1>3, <1>4, <1>6, <1>7, <1>8, <1>9 DEF t, A, Y

\* Committed attempts are never taken back.
LEMMA CommittedGrows ==
    ASSUME RecordInv, [WNext]_wvars, NEW a \in Agents, NEW y \in Types
    PROVE  /\ IsFiniteSet(Committed(a, y)')
           /\ Cardinality(Committed(a, y)) <= Cardinality(Committed(a, y)')
           /\ Cardinality(Committed(a, y)) \in Nat
<1>0. IsFiniteSet(Committed(a, y)) /\ Cardinality(Committed(a, y)) \in Nat
  BY FS_CardinalityType DEF RecordInv, PerformanceFollows
<1>1. CASE UNCHANGED <<attempts, perf, intents>>
  <2>1. Committed(a, y)' = Committed(a, y)
    BY <1>1 DEF Committed
  <2> QED BY <1>0, <2>1
<1>2. ASSUME NEW p \in Sessions, Commit(p)
      PROVE  /\ IsFiniteSet(Committed(a, y)')
             /\ Cardinality(Committed(a, y)) <= Cardinality(Committed(a, y)')
  <2>1. CASE <<a, y>> # <<MyAgent(p), MyType(p)>>
    <3>1. Committed(a, y)' = Committed(a, y)
      BY <1>2, <2>1, CommitRecords DEF RecordInv
    <3> QED BY <1>0, <3>1
  <2>2. CASE a = MyAgent(p) /\ y = MyType(p)
    <3>1. PICK z : /\ z \notin Committed(a, y)
                   /\ Committed(a, y)' = Committed(a, y) \cup {z}
      BY <1>2, <2>2, CommitRecords DEF RecordInv
    <3>2. /\ IsFiniteSet(Committed(a, y) \cup {z})
          /\ Cardinality(Committed(a, y) \cup {z}) = Cardinality(Committed(a, y)) + 1
      BY <1>0, <3>1, FS_AddElement
    <3> QED BY <1>0, <3>1, <3>2
  <2> QED BY <2>1, <2>2
<1> QED BY <1>0, <1>1, <1>2, RecordsAreCommitted DEF RecordInv

\* What a process has seen by its commit, it read when it executed.
LEMMA SeenStays ==
    ASSUME WInv, [WNext]_wvars, NEW p \in Sessions,
           proc'[p].pc \in Finishing, proc'[p].out # "approval"
    PROVE  /\ proc'[p].claim = proc[p].claim /\ proc[p].pc \in Holding
           /\ \/ /\ proc[p].pc \in Finishing /\ proc[p].out # "approval"
                 /\ proc'[p].seen = proc[p].seen
              \/ /\ Execute(p) /\ attempts' = attempts
                 /\ proc'[p].seen = perf[MyAgent(p)][MyType(p)]
<1> SUFFICES ASSUME proc'[p] # proc[p]
             PROVE  /\ proc'[p].claim = proc[p].claim /\ proc[p].pc \in Holding
                    /\ \/ /\ proc[p].pc \in Finishing /\ proc[p].out # "approval"
                          /\ proc'[p].seen = proc[p].seen
                       \/ /\ Execute(p) /\ attempts' = attempts
                          /\ proc'[p].seen = perf[MyAgent(p)][MyType(p)]
  BY DEF Finishing, Holding
<1>0. proc \in [Sessions -> Process] /\ ProcessStep(p)
  BY OwnStep DEF WInv, ProcOK
<1>1. proc'[p].claim = proc[p].claim /\ proc[p].pc \in Holding
  <2>1. Claimed(p) => proc'[p].pc = "count"
    BY <1>0 DEF Claimed, Process
  <2> QED BY <2>1, MoveCases DEF Continues, Finishing, Holding
<1>2. CASE MaintainerWakes(p) \/ MaintainerStep(p)
  BY <1>0, <1>1, <1>2 DEF MaintainerWakes, MaintainerStep, MaintainerBeats,
                          MaintainerRenews, MaintainerLoses, Process, Finishing
<1>3. CASE \/ SessionRejected(p) \/ Commit(p) \/ Pause(p) \/ Lost(p)
           \/ Raise(p) \/ Stop(p) \/ Crash(p)
  BY <1>0, <1>3 DEF SessionRejected, Commit, Pause, Lost, Raise, Stop, Crash,
                    End, Fresh, Ended, Finishing
<1>4. CASE \/ ReadClock(p) \/ EnsureSession(p) \/ Claimed(p) \/ NothingReady(p)
           \/ CountReviews(p)
  <2> USE <1>0 DEF Goto, GotoNow, Process, Finishing
  <2>1. CASE ReadClock(p) \/ EnsureSession(p) \/ NothingReady(p)
    BY <2>1 DEF ReadClock, EnsureSession, NothingReady
  <2>2. CASE Claimed(p) \/ CountReviews(p)
    BY <2>2 DEF Claimed, CountReviews
  <2> QED BY <1>4, <2>1, <2>2
<1>5. CASE Execute(p)
  <2>1. PICK r \in ExecutionOutcomes(p) :
           proc' = [proc EXCEPT ![p].pc = "join", ![p].out = r,
                                ![p].seen = perf[MyAgent(p)][MyType(p)]]
    BY <1>5 DEF Execute
  <2>2. proc'[p].seen = perf[MyAgent(p)][MyType(p)]
    BY <1>0, <2>1 DEF Process
  <2>3. attempts' = attempts
    BY <1>5 DEF Execute, vars
  <2> QED BY <1>1, <1>5, <2>2, <2>3
<1>6. CASE NeedApproval(p)
  <2>1. proc'[p].out = "approval"
    BY <1>0, <1>6 DEF NeedApproval, Process
  <2> QED BY <2>1
<1>7. CASE JoinMaintainer(p) \/ FinalHeartbeat(p) \/ FinalRenew(p)
  <2> USE <1>0, <1>1 DEF Process, Finishing, At, Goto, GotoNow, End, Fresh
  <2>1. CASE JoinMaintainer(p)
    BY <2>1 DEF JoinMaintainer
  <2>2. CASE FinalHeartbeat(p)
    BY <2>2 DEF FinalHeartbeat
  <2>3. CASE FinalRenew(p)
    BY <2>3 DEF FinalRenew
  <2> QED BY <1>7, <2>1, <2>2, <2>3
<1>8. \/ MaintainerWakes(p) \/ MaintainerStep(p)
      \/ SessionRejected(p) \/ Commit(p) \/ Pause(p) \/ Lost(p)
      \/ Raise(p) \/ Stop(p) \/ Crash(p)
      \/ ReadClock(p) \/ EnsureSession(p) \/ Claimed(p) \/ NothingReady(p)
      \/ CountReviews(p) \/ Execute(p) \/ NeedApproval(p)
      \/ JoinMaintainer(p) \/ FinalHeartbeat(p) \/ FinalRenew(p)
  BY <1>0, Zenon DEF ProcessStep, ForegroundStep
<1> QED BY <1>2, <1>3, <1>4, <1>5, <1>6, <1>7, <1>8, Zenon

\* Commits make a task succeed and enqueue its intents together; no other step
\* does either, and none undoes it.
LEMMA Succeeds ==
    ASSUME RecordInv, [WNext]_wvars, NEW t \in Tasks,
           task'[t].status = "succeeded", task[t].status # "succeeded"
    PROVE  \E p \in Sessions : /\ Commit(p) /\ MyTask(p) = t
                               /\ proc[p].out = "succeeded"
<1> USE DEF RecordInv
<1>1. ASSUME NEW p \in Sessions, Commit(p), MyTask(p) = t
      PROVE  proc[p].out = "succeeded"
  BY <1>1, CommitCounts
<1>2. CASE ~ \E p \in Sessions : Commit(p) /\ MyTask(p) = t
  <2>1. attempts'[t] = attempts[t]
    BY <1>2, RecordsAreCommitted, CommitCounts
  <2>2. PICK c \in ClaimIds, no \in 1 .. MaxAttempts :
           SettleRow(c, no, "succeeded") /\ claims[c].task = t
    BY ServiceIsStep, NextIsRowStep, BecomesFinal DEF WInv
  <2> DEFINE x == [no |-> no, agent |-> claims[c].agent,
                   token |-> claims[c].token, result |-> "succeeded"]
  <2>3. attempts'[t] = attempts[t] \cup {x}
    BY <2>2, SettleEffect DEF WInv, Outcomes
  <2>4. x \notin attempts[t]
    BY <2>2 DEF SettleRow, IsNewAttempt
  <2> QED BY <2>1, <2>3, <2>4
<1> QED BY <1>1, <1>2

LEMMA IntentsGrow ==
    ASSUME WInv, [WNext]_wvars
    PROVE  /\ intents \subseteq intents'
           /\ \A k \in intents' \ intents : \E p \in Sessions :
                 /\ Commit(p) /\ proc[p].out = "succeeded"
                 /\ \E m \in Messages[MyTask(p)] : k \in KeysOf(m)
<1>1. CASE intents' = intents
  BY <1>1
<1>2. ASSUME NEW p \in Sessions, Commit(p), proc[p].out = "succeeded",
             NEW m \in Messages[MyTask(p)], intents' = intents \cup KeysOf(m)
      PROVE  /\ intents \subseteq intents'
             /\ \A k \in intents' \ intents : k \in KeysOf(m)
  BY <1>2
<1> QED BY <1>1, <1>2, RecordsAreCommitted DEF Commit

LEMMA NextIntents == RecordInv /\ [WNext]_wvars => IntentsFollow'
<1> SUFFICES ASSUME RecordInv, [WNext]_wvars
             PROVE  IntentsFollow'
  OBVIOUS
<1> USE DEF RecordInv
<1>1. ASSUME NEW t \in Tasks, task'[t].status = "succeeded"
      PROVE  \E m \in Messages[t] : KeysOf(m) \subseteq intents'
  <2>1. CASE task[t].status = "succeeded"
    BY <2>1, IntentsGrow DEF IntentsFollow
  <2>2. CASE task[t].status # "succeeded"
    BY <1>1, <2>2, Succeeds DEF Commit
  <2> QED BY <2>1, <2>2
<1>2. ASSUME NEW k \in intents'
      PROVE  \E t \in Tasks : /\ task'[t].status = "succeeded"
                              /\ \E m \in Messages[t] : k \in KeysOf(m)
  <2>1. CASE k \in intents
    <3>1. PICK t \in Tasks : /\ task[t].status = "succeeded"
                             /\ \E m \in Messages[t] : k \in KeysOf(m)
      BY <2>1 DEF IntentsFollow
    <3>2. task'[t].status = "succeeded"
      BY <3>1, ServiceIsStep, NextIsRowStep, EndedTaskStays DEF WInv
    <3> QED BY <3>1, <3>2
  <2>2. CASE k \notin intents
    <3>1. PICK p \in Sessions : /\ Commit(p) /\ proc[p].out = "succeeded"
                                /\ \E m \in Messages[MyTask(p)] : k \in KeysOf(m)
      BY <1>2, <2>2, IntentsGrow
    <3>2. MyTask(p) \in Tasks /\ task'[MyTask(p)].status = "succeeded"
      BY <3>1, CommitCounts, ProcessFacts DEF Commit, At, Holding
    <3> QED BY <3>1, <3>2
  <2> QED BY <2>1, <2>2
<1> QED BY <1>1, <1>2 DEF IntentsFollow

\* A commit adds one attempt and writes at most one more than there were.
LEMMA NextPerformance == RecordInv /\ [WNext]_wvars => PerformanceFollows'
<1> SUFFICES ASSUME RecordInv, [WNext]_wvars, NEW a \in Agents, NEW y \in Types
             PROVE  /\ IsFiniteSet(Committed(a, y)')
                    /\ perf'[a][y] <= Cardinality(Committed(a, y)')
                    /\ Committed(a, y)' # {} => perf'[a][y] > 0
  BY DEF PerformanceFollows
<1>0. /\ perf[a][y] <= Cardinality(Committed(a, y))
      /\ Committed(a, y) # {} => perf[a][y] > 0
      /\ IsFiniteSet(Committed(a, y)) /\ Cardinality(Committed(a, y)) \in Nat
      /\ IsFiniteSet(Committed(a, y)')
  BY CommittedGrows DEF RecordInv, PerformanceFollows
<1>1. CASE UNCHANGED <<attempts, perf, intents>>
  <2>1. Committed(a, y)' = Committed(a, y)
    BY <1>1 DEF Committed
  <2> QED BY <1>0, <1>1, <2>1
<1>2. ASSUME NEW p \in Sessions, Commit(p)
      PROVE  /\ perf'[a][y] <= Cardinality(Committed(a, y)')
             /\ Committed(a, y)' # {} => perf'[a][y] > 0
  <2>1. CASE <<a, y>> # <<MyAgent(p), MyType(p)>>
    <3>1. Committed(a, y)' = Committed(a, y) /\ perf'[a][y] = perf[a][y]
      BY <1>2, <2>1, CommitRecords DEF RecordInv
    <3> QED BY <1>0, <3>1
  <2>2. CASE a = MyAgent(p) /\ y = MyType(p)
    <3>1. PICK z : /\ z \notin Committed(a, y)
                   /\ Committed(a, y)' = Committed(a, y) \cup {z}
      BY <1>2, <2>2, CommitRecords DEF RecordInv
    <3>2. Cardinality(Committed(a, y)') = Cardinality(Committed(a, y)) + 1
      BY <1>0, <3>1, FS_AddElement
    <3>3. perf'[a][y] = proc[p].seen + 1
      BY <1>2, <2>2, CommitRecords DEF RecordInv
    <3>4. proc[p].seen \in Nat /\ proc[p].seen <= Cardinality(Committed(a, y))
      BY <1>2, <2>2, SoundNow
         DEF RecordInv, SeenIsCommitted, Commit, At, Finishing, Sound, Process
    <3> QED BY <1>0, <3>2, <3>3, <3>4
  <2> QED BY <2>1, <2>2
<1> QED BY <1>0, <1>1, <1>2, RecordsAreCommitted DEF RecordInv

LEMMA NextSeen == RecordInv /\ [WNext]_wvars => SeenIsCommitted'
<1> SUFFICES ASSUME RecordInv, [WNext]_wvars, NEW p \in Sessions,
                    proc'[p].pc \in Finishing, proc'[p].out # "approval"
             PROVE  proc'[p].seen <= Cardinality(Committed(MyAgent(p), MyType(p))')
  BY DEF SeenIsCommitted
<1> USE DEF RecordInv
<1>1. /\ proc'[p].claim = proc[p].claim /\ proc[p].pc \in Holding
      /\ \/ /\ proc[p].pc \in Finishing /\ proc[p].out # "approval"
            /\ proc'[p].seen = proc[p].seen
         \/ proc'[p].seen = perf[MyAgent(p)][MyType(p)]
  BY SeenStays
<1>2. /\ proc[p].claim \in ClaimIds /\ claims[proc[p].claim].status # "none"
      /\ claims[proc[p].claim] \in Claim
  BY <1>1, RowTypes DEF WInv, ClaimsAreOwn
<1>3. PICK a \in Agents, y \in Types : a = MyAgent(p) /\ y = MyType(p)
  BY <1>2, TopologyAssumption DEF Claim, MyAgent, MyType, MyTask
<1>4. MyAgent(p)' = a /\ MyType(p)' = y
  BY <1>1, <1>2, <1>3, ServiceIsStep, RowStays DEF WInv, MyAgent, MyType, MyTask
<1>5. proc[p].seen \in Nat /\ perf[a][y] \in Nat
  BY SoundNow DEF Sound, Process, WInv, PerfOK
<1>6. Committed(MyAgent(p), MyType(p))' = Committed(a, y)'
  BY <1>4 DEF Committed
<1>7. proc'[p].seen <= Cardinality(Committed(a, y))
  BY <1>1, <1>3 DEF SeenIsCommitted, PerformanceFollows
<1>8. /\ Cardinality(Committed(a, y)) \in Nat /\ IsFiniteSet(Committed(a, y)')
      /\ Cardinality(Committed(a, y)) <= Cardinality(Committed(a, y)')
  BY CommittedGrows
<1>9. proc'[p].seen \in Nat /\ Cardinality(Committed(a, y)') \in Nat
  BY <1>1, <1>3, <1>5, <1>8, FS_CardinalityType
<1> QED BY <1>6, <1>7, <1>8, <1>9

LEMMA InitRecords == WInit => RecordInv
<1> SUFFICES ASSUME WInit PROVE RecordInv
  OBVIOUS
<1>1. \A a, y : Committed(a, y) = {}
  BY DEF Committed, WInit, Init
<1>2. PerformanceFollows
  BY <1>1, FS_EmptySet DEF PerformanceFollows, WInit
<1>3. IntentsFollow /\ SeenIsCommitted
  BY DEF IntentsFollow, SeenIsCommitted, WInit, Init, Fresh, Finishing
<1> QED BY <1>2, <1>3, InitWInv DEF RecordInv

LEMMA NextRecords == RecordInv /\ [WNext]_wvars => RecordInv'
BY NextWInv, NextIntents, NextPerformance, NextSeen DEF RecordInv

-----------------------------------------------------------------------------
(* The theorems.                                                           *)

\* The rows, the processes, the performance and the intents have their types.
THEOREM ServiceTypes == WSpec => []WTypeOK
<1>1. WInv => WTypeOK
  BY DEF WInv, WTypeOK, ProcOK, PerfOK
<1> QED BY <1>1, InitWInv, NextWInv, PTL DEF WSpec

\* worker_service.py, its maintainer threads, the reap command and the
\* operator's decisions, with clocks read before the transactions that use
\* them, are callers Scheduler allows: fencing, exclusive ownership and
\* evidence hold of the service whatever processes crash, stall or restart.
THEOREM ServiceRefinesScheduler == WSpec => ServiceImplementsScheduler
<1>1. WInit => Init
  BY DEF WInit
<1> QED BY <1>1, InitWInv, NextWInv, ServiceIsStep, PTL
        DEF WSpec, Spec, ServiceImplementsScheduler

\* attempt_no is counted between the claim and the execution and used by the
\* commit: fencing makes it the next number still, and max_attempts holds over
\* all processes and restarts (run_once, commit_claim_outcome).
THEOREM AttemptsAreBounded == WSpec => []AttemptsBounded
<1>1. WInv => AttemptsBounded
  BY DEF WInv, Numbering, AttemptsBounded
<1> QED BY <1>1, InitWInv, NextWInv, PTL DEF WSpec

\* The final heartbeat, renewal and commit are refused because the session or
\* the claim is lost, or take effect: that a clock moved back (scheduler.py,
\* heartbeat, renew and finish), that an attempt number exists or that a message
\* conflicts with one of an earlier attempt never stops a process.  A pause can
\* fail otherwise only at an approval decided meanwhile, and a commit only at a
\* message whose key the task has twice or shares with a succeeded task
\* (storage.py, _enqueue_outbox_locked).
THEOREM ErrorsAreConflicts == WSpec => []OnlyConflictsRaise
<1> DEFINE Explained(p) ==
              \/ proc[p].out = "approval" /\ Decided(p)
              \/ /\ proc[p].out = "succeeded"
                 /\ \E m \in Messages[MyTask(p)] : MayConflict(m)
                 /\ \A m \in Messages[MyTask(p)] : MayConflict(m) =>
                       Repeats(m) \/ SharesKey(m, MyTask(p))
<1>1. ASSUME ClockInv, IntentsFollow, NEW p \in Sessions, RaisesError(p)
      PROVE  At(p, "finish") /\ Explained(p)
  <2> SUFFICES ASSUME WInv, FinalClockIsLast
               PROVE  At(p, "finish") /\ Explained(p)
    BY <1>1 DEF ClockInv
  <2>0. WorkerOf[p] \in Workers /\ proc[p].clk \in Nat
    BY ProcessFacts DEF Read, Times
  <2>1. ~ (/\ At(p, "beat")
           /\ RequireSession(WorkerOf[p], p, proc[p].clk)
           /\ proc[p].clk < LastHeartbeatAt(WorkerOf[p]))
    <3>1. LastHeartbeatAt(WorkerOf[p]) \in Int
      BY <2>0, DurationAssumption DEF LastHeartbeatAt, WInv, TypeOK, Session
    <3> QED BY <2>0, <3>1 DEF FinalClockIsLast, RequireSession, At
  <2>2. ~ (/\ At(p, "renew")
           /\ Owns(proc[p].claim, proc[p].clk)
           /\ proc[p].clk < RenewedAt(proc[p].claim))
    <3>1. ASSUME At(p, "renew"), Active(proc[p].claim)
          PROVE  RenewedAt(proc[p].claim) \in Int
      <4>1. proc[p].claim \in ClaimIds
        BY <3>1, ProcessFacts DEF At, Holding
      <4> QED BY <3>1, <4>1, ActiveRowTypes, DurationAssumption DEF RenewedAt, WInv
    <3> QED BY <2>0, <3>1 DEF FinalClockIsLast, Owns, RequireClaim, At
  <2>3. ASSUME At(p, "finish"), Owns(proc[p].claim, proc[p].clk)
        PROVE  /\ MyTask(p) \in Tasks /\ IsNewAttempt(MyTask(p), proc[p].no)
               /\ ~ proc[p].clk < claims[proc[p].claim].acquired
    <3>1. /\ proc[p].claim \in ClaimIds /\ Active(proc[p].claim)
          /\ MyTask(p) \in Tasks
      BY <2>3, ProcessFacts DEF Owns, RequireClaim, At, Holding
    <3>2. /\ proc[p].no = Cardinality(attempts[MyTask(p)]) + 1
          /\ Cardinality(attempts[MyTask(p)]) \in Nat
          /\ {a.no : a \in attempts[MyTask(p)]} = 1 .. Cardinality(attempts[MyTask(p)])
      BY <2>3, <3>1, FS_CardinalityType
         DEF WInv, CountIsCurrent, Numbering, Numbered, At
    <3>3. \A a \in attempts[MyTask(p)] : a.no <= Cardinality(attempts[MyTask(p)])
      BY <3>2
    <3>4. IsNewAttempt(MyTask(p), proc[p].no)
      BY <3>2, <3>3 DEF IsNewAttempt
    <3>5. /\ claims[proc[p].claim].acquired \in Int
          /\ claims[proc[p].claim].acquired <= proc[p].clk
      BY <2>3, <3>1, ActiveRowTypes DEF FinalClockIsLast, At, WInv
    <3> QED BY <2>0, <3>1, <3>4, <3>5
  <2>4. /\ At(p, "finish") /\ Owns(proc[p].claim, proc[p].clk)
        /\ FailsAtEnd(p)
    BY <1>1, <2>1, <2>2, Zenon DEF RaisesError
  <2>5. \/ proc[p].out = "approval" /\ Decided(p)
        \/ /\ proc[p].out = "succeeded"
           /\ OwnsRunningTask(proc[p].claim)
           /\ \E m \in Messages[MyTask(p)] : MayConflict(m)
    BY <2>3, <2>4, Zenon DEF FailsAtEnd
  <2>6. ASSUME OwnsRunningTask(proc[p].claim), NEW m \in Messages[MyTask(p)],
               MayConflict(m)
        PROVE  Repeats(m) \/ SharesKey(m, MyTask(p))
    <3>1. task[MyTask(p)].status = "running"
      BY <2>6 DEF OwnsRunningTask, MyTask
    <3>2. ASSUME NEW i \in DOMAIN m, m[i] \in intents
          PROVE  SharesKey(m, MyTask(p))
      <4>1. PICK u \in Tasks : /\ task[u].status = "succeeded"
                               /\ \E n \in Messages[u] : m[i] \in KeysOf(n)
        BY <1>1, <3>2 DEF IntentsFollow
      <4>2. m[i] \in KeysOf(m) /\ u # MyTask(p)
        BY <3>1, <4>1 DEF KeysOf
      <4> QED BY <4>1, <4>2 DEF SharesKey
    <3>3. ASSUME NEW i \in DOMAIN m, NEW j \in 1 .. i - 1, m[j] = m[i]
          PROVE  Repeats(m)
      <4>1. m \in Seq(Keys)
        BY <2>3, <2>4, ServiceAssumption
      <4>2. j \in DOMAIN m /\ i # j
        BY <4>1
      <4> QED BY <3>3, <4>2 DEF Repeats
    <3> QED BY <2>6, <3>2, <3>3 DEF MayConflict
  <2> QED BY <2>4, <2>5, <2>6
<1>2. ClockInv /\ RecordInv => OnlyConflictsRaise
  BY <1>1 DEF OnlyConflictsRaise, RecordInv
<1> QED BY <1>2, InitClockInv, NextClockInv, InitRecords, NextRecords, PTL
        DEF WSpec

\* A succeeded task has its intents and no other task has any
\* (docs/scheduler.md, invariant 8); and though two processes of one agent may read the same
\* record and one update is lost, a record never counts what was not committed
\* and is never back at zero (worker_service.py, commit; storage.py,
\* commit_claim_outcome).
THEOREM RecordsAreOfCommits == WSpec => []RecordsFollowCommits
<1>1. RecordInv => RecordsFollowCommits
  BY DEF RecordInv, IntentsFollow, PerformanceFollows, Committed,
         RecordsFollowCommits
<1> QED BY <1>1, InitRecords, NextRecords, PTL DEF WSpec

\* So the worker service, too, hands work out to one holder at a time, under
\* ever higher tokens, and keeps one result per settled grant.
THEOREM ServiceRefinesFencedWork == WSpec => SchedulerImplementsFencedWork
BY ServiceRefinesScheduler, ImplementsFencedWork DEF ServiceImplementsScheduler

=============================================================================
