--------------------------- MODULE PostgresProofs ---------------------------
(***************************************************************************)
(* The execution plane on PostgreSQL, for any connections, operations,     *)
(* workers, tasks and claims: although a transaction checks one row after  *)
(* the other while those of other connections run, what it has checked is  *)
(* still true when it commits, because it holds the rows the checks read.  *)
(* So each commit does to the rows of claims, tasks, tokens, attempts and  *)
(* goals what a transaction of the SQLite scheduler does, and what follows *)
(* from the rows alone (SchedulerProofs) holds here as well.  Last, the    *)
(* order of the locks: no circle of waiting transactions without a         *)
(* claim_task.                                                             *)
(***************************************************************************)
EXTENDS PostgresScheduler, SchedulerProofs, FiniteSetTheorems,
        WellFoundedInduction

-----------------------------------------------------------------------------
(* Requests and the rows they lock.                                        *)

Owned == {"renew", "release", "pause", "commit"}
Claiming == {"claimTask", "claimNext"}

Tx == [op : Ops \cup {"none"}, worker : Workers \cup {Null},
       session : Sessions \cup {Null}, claim : ClaimIds \cup {Null},
       task : Tasks \cup {Null}, agent : Agents \cup {Null}, no : Int,
       result : Outcomes \cup {"approved", "rejected", Null}, at : Int,
       pos : Nat, reaped : SUBSET ClaimIds, goal : GoalStatus \cup {Null}]

\* The position in an operation's lock order after all of its locks.
LockedAt(op) == Len(LockOrder[op]) + 1

\* The lock orders, written out.
LEMMA Orders ==
    /\ LockOrder["register"] = <<"session">>
    /\ LockOrder["heartbeat"] = <<"session">>
    /\ LockOrder["claimTask"] = <<"session", "goal", "task">>
    /\ LockOrder["claimNext"] = <<"session", "task">>
    /\ LockOrder["renew"] = <<"session", "claim">>
    /\ LockOrder["release"] = <<"session", "claim", "task">>
    /\ LockOrder["pause"] = <<"session", "claim", "approval", "task", "goal">>
    /\ LockOrder["commit"] = <<"session", "claim", "task", "performance", "goal">>
    /\ LockOrder["saveApproval"] = <<"approval">>
    /\ LockOrder["resolve"] = <<"approval", "goal">>
    /\ LockOrder["reap"] = <<"claim", "task">>
BY DEF LockOrder, RenewalOrder

\* Their ends.
LEMMA OrderLengths ==
    /\ LockedAt("register") = 2
    /\ LockedAt("heartbeat") = 2
    /\ LockedAt("claimTask") = 4
    /\ LockedAt("claimNext") = 3
    /\ LockedAt("renew") = 3
    /\ LockedAt("release") = 4
    /\ LockedAt("pause") = 6
    /\ LockedAt("commit") = 6
    /\ LockedAt("saveApproval") = 2
    /\ LockedAt("resolve") = 3
    /\ LockedAt("reap") = 3
BY Orders DEF LockedAt

\* A request says what it is about: what the operations that present a claim
\* are told of it is what its row says.
ArgumentsOK(q) ==
    /\ q \in Tx
    /\ q.op \in {"register", "heartbeat"} \cup Claiming =>
          q.worker \in Workers /\ q.session \in Sessions
    /\ q.op = "claimTask" \/ (q.op = "claimNext" /\ q.pos = 3) =>
          q.task \in Tasks /\ q.agent \in Agents
    /\ q.op \in Owned =>
          /\ q.claim \in ClaimIds
          /\ claims[q.claim].status # "none"
          /\ q.task = claims[q.claim].task
          /\ q.agent = claims[q.claim].agent
    /\ q.op = "commit" => q.no \in 1 .. MaxAttempts /\ q.result \in Outcomes
    /\ q.op \in {"saveApproval", "resolve"} => q.task \in Tasks
    /\ q.op = "resolve" => q.result \in {"approved", "rejected"}

\* What it has checked on the rows it has locked is true, now.
ChecksHold(q) ==
    /\ q.op = "claimTask" /\ q.pos = 4 => task[q.task].status = "pending"
    /\ q.op = "claimNext" /\ q.pos = 3 => task[q.task].status = "pending"
    /\ q.op \in Owned /\ q.pos > 2 => Active(q.claim)
    /\ q.op = "commit" /\ q.pos > 3 => IsNewAttempt(q.task, q.no)
    /\ q.op \in {"pause", "commit"} /\ q.pos > 5 => goal[GoalOf[q.task]] = "running"
    /\ q.op = "commit" /\ q.pos > 5 => q.goal = Reconciled(q.task, q.result)
    /\ q.op = "resolve" => approval[q.task] = "pending"
    /\ q.op = "resolve" /\ q.pos > 2 => goal[GoalOf[q.task]] = "paused"
    /\ q.op = "reap" => \A c \in q.reaped : Active(c)

\* It holds the rows up to its position; a reaper the rows of its claims and,
\* in the order of their ranks, those of their tasks.
LocksHeld(p) ==
    LET q == tx[p] IN
    /\ q.pos \in 2 .. LockedAt(q.op)
    /\ q.op # "reap" =>
          held[p] = {RowOf(q, LockOrder[q.op][i]) : i \in 1 .. q.pos - 1}
    /\ q.op = "reap" =>
          /\ \A c \in q.reaped : <<"claim", c>> \in held[p]
          /\ \A row \in held[p] : \/ \E c \in q.reaped : row = <<"claim", c>>
                                  \/ \E t \in Tasks : row = <<"task", t>>
          /\ q.pos = 3 => ToReap(p) = {}
          /\ \A t \in Tasks : <<"task", t>> \in held[p] =>
                \A u \in ToReap(p) : Rank[t] < Rank[u]

Transactions ==
    /\ tx \in [Conns -> Tx]
    /\ held = [p \in Conns |-> held[p]]
    /\ \A p \in Conns :
          /\ ~ Open(p) => held[p] = {}
          /\ Open(p) => /\ ArgumentsOK(tx[p])
                        /\ ChecksHold(tx[p])
                        /\ LocksHeld(p)

\* No row but a goal that claim_tasks share is locked twice.
LocksExclude ==
    \A p, o \in Conns : p # o =>
       \A row \in held[p] \cap held[o] :
          /\ row[1] = "goal"
          /\ tx[p].op = "claimTask"
          /\ tx[o].op = "claimTask"

PgInv == TypeOK /\ RunningIffClaimed /\ Transactions /\ LocksExclude

-----------------------------------------------------------------------------
(* Numbers and finite sets.                                                *)

\* A set of numbers has a least element.
LEMMA LeastNumber ==
    ASSUME NEW T \in SUBSET Nat, T # {}
    PROVE  \E x \in T : \A y \in T : x <= y
<1>1. PICK x \in T : \A y \in T : <<y, x>> \notin OpToRel(<, Nat)
    BY NatLessThanWellFounded, WFMin, Zenon
<1>2. \A y \in T : ~ (y < x)
    BY <1>1 DEF OpToRel
<1> QED BY <1>2

\* A finite, non-empty set has an element with the largest value of f: the
\* one with the fewest elements above it.
LEMMA LargestValue ==
    ASSUME NEW S, IsFiniteSet(S), S # {}, NEW f \in [S -> Nat]
    PROVE  \E x \in S : \A y \in S : f[y] <= f[x]
<1> DEFINE Above(x) == {y \in S : f[x] < f[y]}
           Count == {Cardinality(Above(x)) : x \in S}
<1>1. \A x \in S : IsFiniteSet(Above(x)) /\ Cardinality(Above(x)) \in Nat
    <2> TAKE x \in S
    <2>1. Above(x) \in SUBSET S OBVIOUS
    <2>2. IsFiniteSet(Above(x)) BY <2>1, FS_Subset
    <2> QED BY <2>2, FS_CardinalityType
<1>2. Count \in SUBSET Nat /\ Count # {}
    BY <1>1
<1>3. PICK n \in Count : \A m \in Count : n <= m
    <2> HIDE DEF Count
    <2> QED BY <1>2, LeastNumber
<1>4. PICK x \in S : n = Cardinality(Above(x))
    BY <1>3
<1>5. \A y \in S : f[y] <= f[x]
    <2> SUFFICES ASSUME NEW y \in S, f[x] < f[y] PROVE FALSE
        OBVIOUS
    <2>1. Above(y) \in SUBSET Above(x) /\ y \in Above(x) /\ y \notin Above(y)
        OBVIOUS
    <2>2. /\ Cardinality(Above(y)) <= Cardinality(Above(x))
          /\ Cardinality(Above(x)) = Cardinality(Above(y)) => Above(x) = Above(y)
        <3> HIDE DEF Above
        <3> QED BY <1>1, <2>1, FS_Subset
    <2>3. Cardinality(Above(x)) <= Cardinality(Above(y))
        BY <1>3, <1>4
    <2>4. Above(x) # Above(y)
        BY <2>1
    <2> HIDE DEF Above
    <2> QED BY <1>1, <2>2, <2>3, <2>4
<1> QED BY <1>5

-----------------------------------------------------------------------------
(* A transaction that is about to write.                                   *)

\* The rows of an operation, by its position.
LEMMA RowOfKind ==
    ASSUME NEW q
    PROVE  /\ RowOf(q, "session") = <<"session", q.worker>>
           /\ RowOf(q, "claim") = <<"claim", q.claim>>
           /\ RowOf(q, "performance") =
                 <<"performance", <<q.agent, TypeOf[q.task]>>>>
           /\ RowOf(q, "goal") = <<"goal", GoalOf[q.task]>>
           /\ RowOf(q, "task") = <<"task", q.task>>
           /\ RowOf(q, "approval") = <<"approval", q.task>>
BY DEF RowOf

\* A transaction that holds all of its locks is at the end of its order.
LEMMA AtTheEnd ==
    ASSUME PgInv, NEW p \in Conns, Open(p), AllLocked(p)
    PROVE  /\ tx[p].op \in Ops
           /\ tx[p].pos = LockedAt(tx[p].op)
           /\ ArgumentsOK(tx[p]) /\ ChecksHold(tx[p]) /\ LocksHeld(p)
<1>1. ArgumentsOK(tx[p]) /\ ChecksHold(tx[p]) /\ LocksHeld(p)
  BY DEF PgInv, Transactions
<1>2. tx[p].op \in Ops
  BY <1>1 DEF ArgumentsOK, Tx, Open
<1>3. Len(LockOrder[tx[p].op]) \in Nat
  BY <1>2, Orders DEF Ops
<1>4. tx[p].pos \in 2 .. Len(LockOrder[tx[p].op]) + 1
  BY <1>1 DEF LocksHeld, LockedAt
<1>5. tx[p].pos = Len(LockOrder[tx[p].op]) + 1
  BY <1>3, <1>4 DEF AllLocked
<1> QED BY <1>1, <1>2, <1>5 DEF LockedAt

\* It holds these rows.
LEMMA HeldAtTheEnd ==
    ASSUME PgInv, NEW p \in Conns, Open(p), AllLocked(p)
    PROVE  /\ tx[p].op \in Claiming => <<"task", tx[p].task>> \in held[p]
           /\ tx[p].op \in Owned => <<"claim", tx[p].claim>> \in held[p]
           /\ tx[p].op \in {"release", "pause", "commit"} =>
                 <<"task", tx[p].task>> \in held[p]
           /\ tx[p].op \in {"pause", "commit", "resolve"} =>
                 <<"goal", GoalOf[tx[p].task]>> \in held[p]
           /\ tx[p].op \in {"pause", "saveApproval", "resolve"} =>
                 <<"approval", tx[p].task>> \in held[p]
           /\ tx[p].op = "reap" => \A c \in tx[p].reaped :
                 /\ <<"claim", c>> \in held[p]
                 /\ <<"task", claims[c].task>> \in held[p]
<1> DEFINE q == tx[p]
<1>0. /\ q.op \in Ops /\ q.pos = LockedAt(q.op) /\ LocksHeld(p)
  BY AtTheEnd
<1>1. ASSUME q.op # "reap", NEW i \in 1 .. Len(LockOrder[q.op])
      PROVE  RowOf(q, LockOrder[q.op][i]) \in held[p]
  <2>1. Len(LockOrder[q.op]) \in Nat
    BY <1>0, Orders DEF Ops
  <2> QED BY <1>0, <1>1, <2>1 DEF LocksHeld, LockedAt
<1>2. CASE q.op = "claimTask"
  <2>1. RowOf(q, "task") \in held[p]
    BY <1>1, <1>2, Orders
  <2> QED BY <1>2, <2>1, RowOfKind DEF Owned, Claiming
<1>3. CASE q.op = "claimNext"
  <2>1. RowOf(q, "task") \in held[p]
    BY <1>1, <1>3, Orders
  <2> QED BY <1>3, <2>1, RowOfKind DEF Owned, Claiming
<1>4. CASE q.op = "renew"
  <2>1. RowOf(q, "claim") \in held[p]
    BY <1>1, <1>4, Orders
  <2> QED BY <1>4, <2>1, RowOfKind DEF Owned, Claiming
<1>5. CASE q.op = "release"
  <2>1. /\ RowOf(q, "claim") \in held[p]
        /\ RowOf(q, "task") \in held[p]
    BY <1>1, <1>5, Orders
  <2> QED BY <1>5, <2>1, RowOfKind DEF Owned, Claiming
<1>6. CASE q.op = "pause"
  <2>1. /\ RowOf(q, "claim") \in held[p]
        /\ RowOf(q, "approval") \in held[p]
        /\ RowOf(q, "task") \in held[p]
        /\ RowOf(q, "goal") \in held[p]
    BY <1>1, <1>6, Orders
  <2> QED BY <1>6, <2>1, RowOfKind DEF Owned, Claiming
<1>7. CASE q.op = "commit"
  <2>1. /\ RowOf(q, "claim") \in held[p]
        /\ RowOf(q, "task") \in held[p]
        /\ RowOf(q, "goal") \in held[p]
    BY <1>1, <1>7, Orders
  <2> QED BY <1>7, <2>1, RowOfKind DEF Owned, Claiming
<1>8. CASE q.op \in {"saveApproval", "resolve"}
  <2>1. RowOf(q, "approval") \in held[p]
    BY <1>1, <1>8, Orders
  <2>2. q.op = "resolve" => RowOf(q, "goal") \in held[p]
    BY <1>1, <1>8, Orders
  <2> QED BY <1>8, <2>1, <2>2, RowOfKind DEF Owned, Claiming
<1>9. CASE q.op = "reap"
  <2>1. q.pos = 3
    BY <1>0, <1>9, OrderLengths
  <2>2. /\ \A c \in q.reaped : <<"claim", c>> \in held[p]
        /\ ToReap(p) = {}
    BY <1>0, <1>9, <2>1 DEF LocksHeld
  <2>3. \A c \in q.reaped : <<"task", claims[c].task>> \in held[p]
    BY <2>2 DEF ToReap
  <2> QED BY <1>9, <2>2, <2>3 DEF Owned, Claiming
<1>10. CASE q.op \in {"register", "heartbeat"}
  BY <1>10 DEF Owned, Claiming
<1> QED BY <1>0, <1>2, <1>3, <1>4, <1>5, <1>6, <1>7, <1>8, <1>9, <1>10 DEF Ops

\* And this is true.
LEMMA TrueAtTheEnd ==
    ASSUME PgInv, NEW p \in Conns, Open(p), AllLocked(p)
    PROVE  LET q == tx[p] IN
           /\ q.at \in Int
           /\ q.op \in {"register", "heartbeat"} =>
                 q.worker \in Workers /\ q.session \in Sessions
           /\ q.op \in Claiming =>
                 /\ q.worker \in Workers /\ q.session \in Sessions
                 /\ q.task \in Tasks /\ q.agent \in Agents
                 /\ task[q.task].status = "pending"
           /\ q.op \in Owned =>
                 /\ q.claim \in ClaimIds /\ Active(q.claim)
                 /\ q.task \in Tasks
                 /\ q.task = claims[q.claim].task
                 /\ q.agent = claims[q.claim].agent
           /\ q.op \in {"pause", "commit"} => goal[GoalOf[q.task]] = "running"
           /\ q.op = "commit" =>
                 /\ q.no \in 1 .. MaxAttempts /\ q.result \in Outcomes
                 /\ IsNewAttempt(q.task, q.no)
                 /\ q.goal = Reconciled(q.task, q.result)
           /\ q.op \in {"saveApproval", "resolve"} => q.task \in Tasks
           /\ q.op = "resolve" =>
                 /\ q.result \in {"approved", "rejected"}
                 /\ approval[q.task] = "pending"
                 /\ goal[GoalOf[q.task]] = "paused"
           /\ q.op = "reap" =>
                 /\ q.reaped \in SUBSET ClaimIds
                 /\ \A c \in q.reaped : Active(c)
<1> DEFINE q == tx[p]
<1>1. /\ q.op \in Ops /\ q.pos = LockedAt(q.op)
      /\ ArgumentsOK(q) /\ ChecksHold(q)
  BY AtTheEnd
<1>2. q \in Tx
  BY <1>1 DEF ArgumentsOK
<1>3. q.at \in Int /\ q.reaped \in SUBSET ClaimIds
  BY <1>2 DEF Tx
<1>4. CASE q.op \in {"register", "heartbeat", "saveApproval", "resolve", "reap"}
  BY <1>1, <1>3, <1>4, OrderLengths DEF ArgumentsOK, ChecksHold, Claiming, Owned
<1>5. CASE q.op \in Claiming
  BY <1>1, <1>3, <1>5, OrderLengths DEF ArgumentsOK, ChecksHold, Claiming, Owned
<1>6. CASE q.op \in Owned
  <2>1. Active(q.claim) /\ q.claim \in ClaimIds
    BY <1>1, <1>6, OrderLengths DEF ArgumentsOK, ChecksHold, Owned
  <2>2. claims[q.claim].task \in Tasks
    BY <2>1, ActiveRowTypes DEF PgInv
  <2> QED BY <1>1, <1>3, <1>6, <2>1, <2>2, OrderLengths
          DEF ArgumentsOK, ChecksHold, Owned, Claiming
<1> QED BY <1>1, <1>4, <1>5, <1>6 DEF Ops, Claiming, Owned

-----------------------------------------------------------------------------
(* What its commit does.                                                   *)

\* What a step does to claims, tasks, tokens and attempts keeps their types.
LEMMA RowTypesKept ==
    ASSUME TypeOK, RowStep
    PROVE  /\ claims' \in [ClaimIds -> Claim \cup {NoClaim}]
           /\ task' \in [Tasks -> [status : TaskStatus, agent : Agents \cup {Null}]]
           /\ fence' \in [Tasks -> Nat]
           /\ attempts' \in [Tasks -> SUBSET Attempt]
<1> USE DurationAssumption
<1> DEFINE ClaimsOK == claims' \in [ClaimIds -> Claim \cup {NoClaim}]
           TaskOKs == task' \in [Tasks -> [status : TaskStatus,
                                           agent : Agents \cup {Null}]]
           FenceOK == fence' \in [Tasks -> Nat]
           AttemptsOK == attempts' \in [Tasks -> SUBSET Attempt]
<1>1. CASE UNCHANGED <<task, claims, fence, attempts>>
  BY <1>1 DEF TypeOK
<1>2. ASSUME NEW c \in ClaimIds, NEW w \in Workers, NEW s \in Sessions,
             NEW t \in Tasks, NEW a \in Agents, NEW at \in Int,
             GrantRow(c, w, s, t, a, at)
      PROVE  ClaimsOK /\ TaskOKs /\ FenceOK /\ AttemptsOK
  <2>1. FenceOK
    BY <1>2 DEF GrantRow, TypeOK
  <2>2. TaskOKs
    BY <1>2 DEF GrantRow, TypeOK, TaskStatus
  <2>3. ClaimsOK
    <3>1. [status |-> "active", task |-> t, worker |-> w,
           session |-> s, agent |-> a, token |-> fence[t] + 1,
           acquired |-> at, expires |-> at + Lease] \in Claim
      BY DEF TypeOK, Claim, ClaimStatus
    <3> QED BY <1>2, <3>1 DEF GrantRow, TypeOK
  <2> QED BY <1>2, <2>1, <2>2, <2>3 DEF GrantRow, TypeOK
<1>3. ASSUME NEW c \in ClaimIds, NEW at \in Int, RenewRow(c, at)
      PROVE  ClaimsOK /\ TaskOKs /\ FenceOK /\ AttemptsOK
  <2>1. claims[c] \in Claim
    BY <1>3, ActiveRowTypes DEF RenewRow
  <2>2. [claims[c] EXCEPT !.expires = at + Lease] \in Claim
    BY <2>1 DEF Claim
  <2>3. ClaimsOK
    BY <1>3, <2>2 DEF RenewRow, TypeOK
  <2> QED BY <1>3, <2>3 DEF RenewRow, TypeOK
<1>4. ASSUME NEW c \in ClaimIds, WithdrawRow(c)
      PROVE  ClaimsOK /\ TaskOKs /\ FenceOK /\ AttemptsOK
  <2>1. ClaimsOK
    BY <1>4, FinishedType DEF WithdrawRow, TypeOK, TerminalClaim
  <2>2. TaskOKs
    BY <1>4, ActiveRowTypes DEF WithdrawRow, ResetRunning, TypeOK, TaskStatus
  <2> QED BY <1>4, <2>1, <2>2 DEF WithdrawRow, TypeOK
<1>5. ASSUME NEW c \in ClaimIds, NEW no \in 1 .. MaxAttempts,
             NEW r \in Outcomes, SettleRow(c, no, r)
      PROVE  ClaimsOK /\ TaskOKs /\ FenceOK /\ AttemptsOK
  <2> DEFINE t == claims[c].task
  <2>1. /\ Active(c) /\ t \in Tasks
        /\ claims[c].agent \in Agents /\ claims[c].token \in Nat
    BY <1>5, ActiveRowTypes DEF SettleRow
  <2>2. ClaimsOK
    BY <1>5, <2>1, FinishedType DEF SettleRow, TypeOK, TerminalClaim
  <2>3. TaskOKs
    BY <1>5, <2>1 DEF SettleRow, TypeOK, TaskStatus, Outcomes
  <2>4. AttemptsOK
    <3>1. [no |-> no, agent |-> claims[c].agent,
           token |-> claims[c].token, result |-> r] \in Attempt
      BY <2>1 DEF Attempt
    <3> QED BY <1>5, <2>1, <3>1 DEF SettleRow, TypeOK
  <2> QED BY <1>5, <2>2, <2>3, <2>4 DEF SettleRow, TypeOK
<1>6. ASSUME NEW R \in SUBSET ClaimIds, NEW B \in SUBSET Tasks, ReapRows(R, B)
      PROVE  ClaimsOK /\ TaskOKs /\ FenceOK /\ AttemptsOK
  <2>1. ClaimsOK
    BY <1>6, FinishedType DEF ReapRows, TypeOK, TerminalClaim
  <2>2. TaskOKs
    BY <1>6 DEF ReapRows, TypeOK, TaskStatus
  <2> QED BY <1>6, <2>1, <2>2 DEF ReapRows, TypeOK
<1> HIDE DEF ClaimsOK, TaskOKs, FenceOK, AttemptsOK
<1>7. ClaimsOK /\ TaskOKs /\ FenceOK /\ AttemptsOK
  <2>1. CASE UNCHANGED <<task, claims, fence, attempts>>
    BY <1>1, <2>1 DEF ClaimsOK, TaskOKs, FenceOK, AttemptsOK
  <2> QED BY <2>1, <1>2, <1>3, <1>4, <1>5, <1>6 DEF RowStep, GrantStep, KeepStep
<1> QED BY <1>7 DEF ClaimsOK, TaskOKs, FenceOK, AttemptsOK

\* For each kind of operation, the rows it has held and checked make its
\* writes those of a step of the scheduler.
LEMMA CommitIsStep ==
    ASSUME PgInv, NEW p \in Conns, Commit(p)
    PROVE  RowStep /\ GoalStep
<1> DEFINE q == tx[p]
<1>0. Open(p) /\ AllLocked(p) /\ TypeOK /\ RunningIffClaimed
  BY DEF Commit, PgInv
<1>1. CASE WriteSession(q)
  BY <1>1 DEF WriteSession, RowStep, KeepStep, GoalStep, KeepGoals
<1>2. CASE WriteClaim(q)
  <2>1. /\ q.worker \in Workers /\ q.session \in Sessions /\ q.at \in Int
        /\ q.task \in Tasks /\ q.agent \in Agents
        /\ task[q.task].status = "pending"
    BY <1>0, <1>2, TrueAtTheEnd DEF WriteClaim, Claiming
  <2>2. PICK c \in ClaimIds :
           GrantRow(c, q.worker, q.session, q.task, q.agent, q.at)
    BY <1>0, <1>2, <2>1 DEF WriteClaim, GrantRow, TypeOK
  <2>3. GrantStep
    BY <2>1, <2>2 DEF GrantStep
  <2> QED BY <1>2, <2>3 DEF WriteClaim, RowStep, GoalStep, KeepGoals
<1>3. CASE WriteRenewal(q)
  <2>1. q.claim \in ClaimIds /\ Active(q.claim) /\ q.at \in Int
    BY <1>0, <1>3, TrueAtTheEnd DEF WriteRenewal, Owned
  <2>2. RenewRow(q.claim, q.at)
    BY <1>3, <2>1 DEF WriteRenewal, RenewRow
  <2> QED BY <1>3, <2>1, <2>2 DEF WriteRenewal, RowStep, KeepStep, GoalStep, KeepGoals
<1>4. CASE WriteRelease(q)
  <2>1. /\ q.claim \in ClaimIds /\ Active(q.claim)
        /\ q.task = claims[q.claim].task
    BY <1>0, <1>4, TrueAtTheEnd DEF WriteRelease, Owned
  <2>2. WithdrawRow(q.claim)
    BY <1>4, <2>1 DEF WriteRelease, WithdrawRow
  <2> QED BY <1>4, <2>1, <2>2 DEF WriteRelease, RowStep, KeepStep, GoalStep, KeepGoals
<1>5. CASE WritePause(q)
  <2>1. /\ q.claim \in ClaimIds /\ Active(q.claim)
        /\ q.task = claims[q.claim].task
        /\ goal[GoalOf[q.task]] = "running"
    BY <1>0, <1>5, TrueAtTheEnd DEF WritePause, Owned
  <2>2. ResetRunning(q.task) = [status |-> "pending", agent |-> Null]
    BY <1>0, <2>1 DEF ResetRunning, RunningIffClaimed, OwnsRunningTask
  <2>3. WithdrawRow(q.claim)
    BY <1>5, <2>1, <2>2 DEF WritePause, WithdrawRow
  <2>4. PauseGoal(q.claim)
    BY <1>5, <2>1, <2>3 DEF WritePause, PauseGoal
  <2> QED BY <2>1, <2>3, <2>4 DEF RowStep, KeepStep, GoalStep
<1>6. CASE WriteOutcome(q)
  <2>1. /\ q.claim \in ClaimIds /\ Active(q.claim)
        /\ q.task = claims[q.claim].task /\ q.agent = claims[q.claim].agent
        /\ q.no \in 1 .. MaxAttempts /\ q.result \in Outcomes
        /\ IsNewAttempt(q.task, q.no)
        /\ goal[GoalOf[q.task]] = "running"
        /\ q.goal = Reconciled(q.task, q.result)
    BY <1>0, <1>6, TrueAtTheEnd DEF WriteOutcome, Owned
  <2>2. OwnsRunningTask(q.claim)
    BY <1>0, <2>1 DEF RunningIffClaimed
  <2>3. SettleRow(q.claim, q.no, q.result)
    BY <1>6, <2>1, <2>2 DEF WriteOutcome, SettleRow
  <2>4. ReconcileGoal(q.claim, q.no, q.result)
    BY <1>6, <2>1, <2>3 DEF WriteOutcome, ReconcileGoal
  <2> QED BY <2>1, <2>3, <2>4 DEF RowStep, KeepStep, GoalStep
<1>7. CASE WriteApproval(q)
  <2>1. UNCHANGED <<task, claims, fence, attempts>>
    BY <1>7 DEF WriteApproval
  <2>2. CASE q.op = "saveApproval"
    <3>1. q.task \in Tasks
      BY <1>0, <2>2, TrueAtTheEnd
    <3> QED BY <1>0, <1>7, <2>1, <2>2, <3>1
            DEF WriteApproval, RowStep, KeepStep, GoalStep, KeepGoals, TypeOK
  <2>3. CASE q.op = "resolve"
    <3>1. /\ q.task \in Tasks /\ q.result \in {"approved", "rejected"}
          /\ goal[GoalOf[q.task]] = "paused"
      BY <1>0, <2>3, TrueAtTheEnd
    <3>2. DecideGoal(q.task, q.result)
      BY <1>7, <2>1, <2>3, <3>1 DEF WriteApproval, DecideGoal
    <3> QED BY <2>1, <3>1, <3>2 DEF RowStep, KeepStep, GoalStep
  <2> QED BY <1>7, <2>2, <2>3 DEF WriteApproval
<1>8. CASE WriteReaped(q)
  <2>1. q.reaped \in SUBSET ClaimIds /\ \A c \in q.reaped : Active(c)
    BY <1>0, <1>8, TrueAtTheEnd DEF WriteReaped
  <2>2. ReapRows(q.reaped, {})
    BY <1>0, <1>8, <2>1 DEF WriteReaped, ReapRows, ResetRunning
  <2> QED BY <1>8, <2>1, <2>2 DEF WriteReaped, RowStep, KeepStep, GoalStep, KeepGoals
<1> QED BY <1>1, <1>2, <1>3, <1>4, <1>5, <1>6, <1>7, <1>8 DEF Commit

\* The rows keep their types.
LEMMA CommitTypes ==
    ASSUME PgInv, NEW p \in Conns, Commit(p)
    PROVE  TypeOK'
<1> DEFINE q == tx[p]
<1> USE TopologyAssumption, DurationAssumption
<1>0. /\ Open(p) /\ AllLocked(p) /\ TypeOK
      /\ UNCHANGED <<now, delegation>>
  BY DEF Commit, PgInv
<1>1. /\ claims' \in [ClaimIds -> Claim \cup {NoClaim}]
      /\ task' \in [Tasks -> [status : TaskStatus, agent : Agents \cup {Null}]]
      /\ fence' \in [Tasks -> Nat]
      /\ attempts' \in [Tasks -> SUBSET Attempt]
  BY <1>0, CommitIsStep, RowTypesKept
<1>2. sessions' \in [Workers -> Session]
  <2>1. CASE WriteSession(q)
    <3>1. /\ q.worker \in Workers /\ q.session \in Sessions
          /\ q.at \in Int
      BY <1>0, <2>1, TrueAtTheEnd DEF WriteSession
    <3>2. [session |-> q.session, expires |-> q.at + TTL] \in Session
      BY <3>1 DEF Session
    <3> QED BY <1>0, <2>1, <3>2 DEF WriteSession, TypeOK
  <2>2. CASE sessions' = sessions
    BY <1>0, <2>2 DEF TypeOK
  <2> QED BY <2>1, <2>2
          DEF Commit, WriteClaim, WriteRenewal, WriteRelease, WritePause,
              WriteOutcome, WriteApproval, WriteReaped
<1>3. goal' \in [Goals -> GoalStatus] /\ approval' \in [Tasks -> ApprovalStatus]
  <2>1. ASSUME WriteOutcome(q)
        PROVE  Reconciled(q.task, q.result) \in GoalStatus
    <3>1. q.task \in Tasks
      BY <1>0, <2>1, TrueAtTheEnd DEF WriteOutcome, Owned
    <3> QED BY <1>0, <3>1 DEF Reconciled, TypeOK, GoalStatus
  <2>2. CASE WriteOutcome(q)
    <3>1. q.goal \in GoalStatus
      BY <1>0, <2>1, <2>2, TrueAtTheEnd DEF WriteOutcome
    <3> QED BY <1>0, <2>2, <3>1 DEF WriteOutcome, TypeOK
  <2>3. CASE WritePause(q)
    BY <1>0, <2>3 DEF WritePause, TypeOK, GoalStatus, ApprovalStatus
  <2>4. CASE WriteApproval(q)
    <3>1. CASE q.op = "saveApproval"
      BY <1>0, <2>4, <3>1 DEF WriteApproval, TypeOK, ApprovalStatus
    <3>2. CASE q.op = "resolve"
      <4>1. q.result \in ApprovalStatus
        BY <1>0, <3>2, TrueAtTheEnd DEF ApprovalStatus
      <4>2. approval' \in [Tasks -> ApprovalStatus]
        BY <1>0, <2>4, <3>2, <4>1 DEF WriteApproval, TypeOK
      <4>3. goal' \in [Goals -> GoalStatus]
        BY <1>0, <2>4, <3>2 DEF WriteApproval, TypeOK, GoalStatus
      <4> QED BY <4>2, <4>3
    <3> QED BY <2>4, <3>1, <3>2 DEF WriteApproval
  <2>5. CASE UNCHANGED <<goal, approval>>
    BY <1>0, <2>5 DEF TypeOK
  <2> QED BY <2>2, <2>3, <2>4, <2>5
          DEF Commit, WriteSession, WriteClaim, WriteRenewal, WriteRelease,
              WriteReaped
<1> QED BY <1>0, <1>1, <1>2, <1>3 DEF TypeOK

\* It writes only rows it holds, and a claim that is not there yet.  The goal
\* a claim_task holds is shared, but claim_task writes no goal.
LEMMA CommitWritesHeld ==
    ASSUME PgInv, NEW p \in Conns, Commit(p)
    PROVE  /\ \A t \in Tasks : <<"task", t>> \notin held[p] =>
                 task'[t] = task[t] /\ attempts'[t] = attempts[t]
           /\ \A c \in ClaimIds : <<"claim", c>> \notin held[p] =>
                 claims'[c] = claims[c] \/ claims[c].status = "none"
           /\ \A g \in Goals :
                 <<"goal", g>> \notin held[p] \/ tx[p].op = "claimTask" =>
                    goal'[g] = goal[g]
           /\ \A t \in Tasks : <<"approval", t>> \notin held[p] =>
                 approval'[t] = approval[t]
<1> DEFINE q == tx[p]
<1>0. Open(p) /\ AllLocked(p) /\ TypeOK
  BY DEF Commit, PgInv
<1>1. CASE WriteSession(q)
  BY <1>1 DEF WriteSession
<1>2. CASE WriteClaim(q)
  <2>1. <<"task", q.task>> \in held[p]
    BY <1>0, <1>2, HeldAtTheEnd DEF WriteClaim, Claiming
  <2> QED BY <1>0, <1>2, <2>1 DEF WriteClaim, TypeOK
<1>3. CASE WriteRenewal(q)
  <2>1. <<"claim", q.claim>> \in held[p]
    BY <1>0, <1>3, HeldAtTheEnd DEF WriteRenewal, Owned
  <2> QED BY <1>0, <1>3, <2>1 DEF WriteRenewal, TypeOK
<1>4. CASE WriteRelease(q)
  <2>1. <<"claim", q.claim>> \in held[p] /\ <<"task", q.task>> \in held[p]
    BY <1>0, <1>4, HeldAtTheEnd DEF WriteRelease, Owned
  <2> QED BY <1>0, <1>4, <2>1 DEF WriteRelease, TypeOK
<1>5. CASE WritePause(q)
  <2>1. /\ <<"claim", q.claim>> \in held[p] /\ <<"task", q.task>> \in held[p]
        /\ <<"goal", GoalOf[q.task]>> \in held[p]
        /\ <<"approval", q.task>> \in held[p]
    BY <1>0, <1>5, HeldAtTheEnd DEF WritePause, Owned
  <2> QED BY <1>0, <1>5, <2>1 DEF WritePause, TypeOK
<1>6. CASE WriteOutcome(q)
  <2>1. /\ <<"claim", q.claim>> \in held[p] /\ <<"task", q.task>> \in held[p]
        /\ <<"goal", GoalOf[q.task]>> \in held[p]
    BY <1>0, <1>6, HeldAtTheEnd DEF WriteOutcome, Owned
  <2> QED BY <1>0, <1>6, <2>1 DEF WriteOutcome, TypeOK
<1>7. CASE WriteApproval(q)
  <2>1. /\ <<"approval", q.task>> \in held[p]
        /\ q.op = "resolve" => <<"goal", GoalOf[q.task]>> \in held[p]
    BY <1>0, <1>7, HeldAtTheEnd DEF WriteApproval
  <2> QED BY <1>0, <1>7, <2>1 DEF WriteApproval, TypeOK
<1>8. CASE WriteReaped(q)
  <2>1. \A c \in q.reaped : /\ <<"claim", c>> \in held[p]
                            /\ <<"task", claims[c].task>> \in held[p]
    BY <1>0, <1>8, HeldAtTheEnd DEF WriteReaped
  <2> QED BY <1>8, <2>1 DEF WriteReaped
<1> QED BY <1>1, <1>2, <1>3, <1>4, <1>5, <1>6, <1>7, <1>8 DEF Commit

\* A task succeeds by an outcome, whose goal is locked.
LEMMA CommitSucceeds ==
    ASSUME PgInv, NEW p \in Conns, Commit(p), NEW u \in Tasks,
           task'[u].status = "succeeded", task[u].status # "succeeded"
    PROVE  <<"goal", GoalOf[u]>> \in held[p] /\ tx[p].op = "commit"
<1> DEFINE q == tx[p]
<1>0. Open(p) /\ AllLocked(p) /\ TypeOK
  BY DEF Commit, PgInv
<1>1. ASSUME WriteSession(q) \/ WriteRenewal(q) \/ WriteApproval(q)
      PROVE  FALSE
  <2>1. task' = task
    BY <1>1 DEF WriteSession, WriteRenewal, WriteApproval
  <2> QED BY <2>1
<1>2. ASSUME WriteClaim(q) PROVE FALSE
  BY <1>0, <1>2 DEF WriteClaim, TypeOK
<1>3. ASSUME WriteRelease(q) \/ WritePause(q) PROVE FALSE
  <2>1. PICK x : /\ x = ResetRunning(q.task) \/ x.status = "pending"
                 /\ task' = [task EXCEPT ![q.task] = x]
    BY <1>3 DEF WriteRelease, WritePause
  <2> QED BY <1>0, <2>1 DEF ResetRunning, TypeOK
<1>4. ASSUME WriteReaped(q) PROVE FALSE
  BY <1>0, <1>4 DEF WriteReaped, ResetRunning
<1>5. ASSUME WriteOutcome(q) PROVE u = q.task /\ q.op = "commit"
  BY <1>0, <1>5 DEF WriteOutcome, TypeOK
<1>6. u = q.task /\ q.op = "commit"
  BY <1>1, <1>2, <1>3, <1>4, <1>5 DEF Commit
<1> QED BY <1>0, <1>6, HeldAtTheEnd

-----------------------------------------------------------------------------
(* What it does not do to the transactions of other connections.           *)

\* Whose task, and whose agent, a claim is does not change.
LEMMA ClaimKeepsIdentity ==
    ASSUME TypeOK, RowStep, NEW c \in ClaimIds, claims[c].status # "none"
    PROVE  /\ claims'[c].status # "none"
           /\ claims'[c].task = claims[c].task
           /\ claims'[c].agent = claims[c].agent
<1>1. CASE GrantStep
  BY <1>1 DEF GrantStep, GrantRow, TypeOK
<1>2. CASE KeepStep
  <2>1. /\ claims'[c].status # "none"
        /\ claims'[c].task = claims[c].task
    BY <1>2, RowIdentity
  <2>2. CASE Active(c)
    BY <2>1, <2>2, ActiveKeepsIdentity
  <2>3. CASE claims[c].status \in TerminalClaim
    BY <2>1, <2>3, TerminalStays
  <2>4. claims[c].status \in ClaimStatus
    BY RowTypes DEF Claim
  <2> QED BY <2>2, <2>3, <2>4 DEF ClaimStatus, TerminalClaim, Active
<1> QED BY <1>1, <1>2 DEF RowStep

\* A row another connection has locked is not held by this one.
LEMMA HeldByOther ==
    ASSUME PgInv, NEW p \in Conns, NEW o \in Conns, p # o,
           NEW row \in held[o], row[1] # "goal" \/ tx[o].op # "claimTask"
    PROVE  row \notin held[p]
BY DEF PgInv, LocksExclude

\* An open transaction holds the rows before its position.
LEMMA LockedSoFar ==
    ASSUME PgInv, NEW o \in Conns, Open(o)
    PROVE  /\ tx[o].op \in Owned /\ tx[o].pos > 2 =>
                 <<"claim", tx[o].claim>> \in held[o]
           /\ tx[o].op = "claimTask" /\ tx[o].pos = 4 =>
                 <<"task", tx[o].task>> \in held[o]
           /\ tx[o].op = "claimNext" /\ tx[o].pos = 3 =>
                 <<"task", tx[o].task>> \in held[o]
           /\ tx[o].op = "commit" /\ tx[o].pos > 3 =>
                 <<"task", tx[o].task>> \in held[o]
           /\ tx[o].op \in {"pause", "commit"} /\ tx[o].pos > 5 =>
                 <<"goal", GoalOf[tx[o].task]>> \in held[o]
           /\ tx[o].op = "resolve" => <<"approval", tx[o].task>> \in held[o]
           /\ tx[o].op = "resolve" /\ tx[o].pos > 2 =>
                 <<"goal", GoalOf[tx[o].task]>> \in held[o]
<1> DEFINE q == tx[o]
<1>1. q.pos \in 2 .. LockedAt(q.op)
  BY DEF PgInv, Transactions, LocksHeld
<1>2. ASSUME q.op # "reap", NEW i \in 1 .. q.pos - 1
      PROVE  RowOf(q, LockOrder[q.op][i]) \in held[o]
  BY <1>2 DEF PgInv, Transactions, LocksHeld
<1>3. ASSUME q.op \in Owned, q.pos > 2 PROVE RowOf(q, "claim") \in held[o]
  <2>1. LockOrder[q.op][2] = "claim" /\ q.op # "reap" /\ 2 \in 1 .. q.pos - 1
    BY <1>1, <1>3, Orders, OrderLengths DEF Owned
  <2> QED BY <1>2, <2>1
<1>4. ASSUME q.op = "claimTask", q.pos = 4 PROVE RowOf(q, "task") \in held[o]
  BY <1>2, <1>4, Orders
<1>5. ASSUME q.op = "claimNext", q.pos = 3 PROVE RowOf(q, "task") \in held[o]
  BY <1>2, <1>5, Orders
<1>6. ASSUME q.op = "commit", q.pos > 3 PROVE RowOf(q, "task") \in held[o]
  <2>1. LockOrder[q.op][3] = "task" /\ q.op # "reap" /\ 3 \in 1 .. q.pos - 1
    BY <1>1, <1>6, Orders, OrderLengths
  <2> QED BY <1>2, <2>1
<1>7. ASSUME q.op \in {"pause", "commit"}, q.pos > 5
      PROVE  RowOf(q, "goal") \in held[o]
  <2>1. LockOrder[q.op][5] = "goal" /\ q.op # "reap" /\ 5 \in 1 .. q.pos - 1
    BY <1>1, <1>7, Orders, OrderLengths
  <2> QED BY <1>2, <2>1
<1>8. ASSUME q.op = "resolve" PROVE RowOf(q, "approval") \in held[o]
  <2>1. LockOrder[q.op][1] = "approval" /\ q.op # "reap" /\ 1 \in 1 .. q.pos - 1
    BY <1>1, <1>8, Orders, OrderLengths
  <2> QED BY <1>2, <2>1
<1>9. ASSUME q.op = "resolve", q.pos > 2 PROVE RowOf(q, "goal") \in held[o]
  <2>1. LockOrder[q.op][2] = "goal" /\ q.op # "reap" /\ 2 \in 1 .. q.pos - 1
    BY <1>1, <1>9, Orders, OrderLengths
  <2> QED BY <1>2, <2>1
<1> HIDE DEF q
<1> QED BY <1>3, <1>4, <1>5, <1>6, <1>7, <1>8, <1>9, RowOfKind DEF q

\* So what another transaction has checked stays true.
LEMMA ChecksStay ==
    ASSUME PgInv, NEW p \in Conns, Commit(p), NEW o \in Conns, p # o, Open(o),
           tx'[o] = tx[o]
    PROVE  ChecksHold(tx[o])'
<1> DEFINE q == tx[o]
<1>0. ChecksHold(q) /\ ArgumentsOK(q) /\ TypeOK /\ RunningIffClaimed
  BY DEF PgInv, Transactions
<1>t. ASSUME NEW t \in Tasks, <<"task", t>> \in held[o]
      PROVE  task'[t] = task[t] /\ attempts'[t] = attempts[t]
  BY <1>t, HeldByOther, CommitWritesHeld
<1>c. ASSUME NEW c \in ClaimIds, <<"claim", c>> \in held[o], Active(c)
      PROVE  claims'[c] = claims[c]
  BY <1>c, HeldByOther, CommitWritesHeld DEF Active
<1>g. ASSUME NEW g \in Goals, <<"goal", g>> \in held[o], q.op # "claimTask"
      PROVE  goal'[g] = goal[g] /\ <<"goal", g>> \notin held[p]
  BY <1>g, HeldByOther, CommitWritesHeld
<1>a. ASSUME NEW t \in Tasks, <<"approval", t>> \in held[o]
      PROVE  approval'[t] = approval[t]
  BY <1>a, HeldByOther, CommitWritesHeld
<1>1. /\ q.op = "claimTask" /\ q.pos = 4 => task'[q.task].status = "pending"
      /\ q.op = "claimNext" /\ q.pos = 3 => task'[q.task].status = "pending"
  BY <1>0, <1>t, LockedSoFar DEF ChecksHold, ArgumentsOK
<1>2. q.op \in Owned /\ q.pos > 2 => claims'[q.claim].status = "active"
  BY <1>0, <1>c, LockedSoFar DEF ChecksHold, ArgumentsOK, Active
<1>3. q.op \in Owned => q.task \in Tasks
  <2>1. ASSUME q.op \in Owned PROVE claims[q.claim] \in Claim
    BY <1>0, <2>1, RowTypes DEF ArgumentsOK
  <2> QED BY <1>0, <2>1 DEF ArgumentsOK, Claim
<1>4. q.op = "commit" /\ q.pos > 3 =>
         \A a \in attempts'[q.task] : a.no # q.no
  BY <1>0, <1>3, <1>t, LockedSoFar DEF ChecksHold, IsNewAttempt, Owned
<1>5. q.op \in {"pause", "commit"} /\ q.pos > 5 =>
         /\ goal[GoalOf[q.task]] = "running"
         /\ goal'[GoalOf[q.task]] = "running"
         /\ <<"goal", GoalOf[q.task]>> \notin held[p]
  BY <1>0, <1>3, <1>g, LockedSoFar, TopologyAssumption DEF ChecksHold, Owned
<1>6. ASSUME q.op = "commit", q.pos > 5
      PROVE  q.goal = Reconciled(q.task, q.result)'
  <2>1. q.goal = Reconciled(q.task, q.result) /\ q.task \in Tasks
    BY <1>0, <1>3, <1>6 DEF ChecksHold, Owned
  <2>2. goal'[GoalOf[q.task]] = goal[GoalOf[q.task]]
    BY <1>5, <1>6
  <2>3. ASSUME NEW u \in TasksOf(GoalOf[q.task])
        PROVE  task'[u].status = "succeeded" <=> task[u].status = "succeeded"
    <3>1. u \in Tasks /\ GoalOf[u] = GoalOf[q.task]
      BY <2>3 DEF TasksOf
    <3>2. task[u].status = "succeeded" => task'[u].status = "succeeded"
      BY <1>0, <3>1, CommitIsStep, EndedTaskStays
    <3>3. task'[u].status = "succeeded" => task[u].status = "succeeded"
      BY <1>5, <1>6, <3>1, CommitSucceeds
    <3> QED BY <3>2, <3>3
  <2>4. TasksOf(GoalOf[q.task])' = TasksOf(GoalOf[q.task])
    BY DEF TasksOf
  <2> QED BY <2>1, <2>2, <2>3, <2>4 DEF Reconciled, TasksOf
<1>7. q.op = "resolve" => approval'[q.task] = "pending"
  BY <1>0, <1>a, LockedSoFar DEF ChecksHold, ArgumentsOK
<1>8. q.op = "resolve" /\ q.pos > 2 => goal'[GoalOf[q.task]] = "paused"
  BY <1>0, <1>g, LockedSoFar, TopologyAssumption DEF ChecksHold, ArgumentsOK
<1>9. q.op = "reap" => \A c \in q.reaped : claims'[c].status = "active"
  <2> SUFFICES ASSUME q.op = "reap", NEW c \in q.reaped
               PROVE  claims'[c].status = "active"
    OBVIOUS
  <2>1. c \in ClaimIds /\ Active(c)
    BY <1>0 DEF ArgumentsOK, ChecksHold, Tx
  <2>2. <<"claim", c>> \in held[o]
    BY DEF PgInv, Transactions, LocksHeld
  <2> QED BY <1>c, <2>1, <2>2 DEF Active
<1> QED BY <1>1, <1>2, <1>4, <1>5, <1>6, <1>7, <1>8, <1>9
        DEF ChecksHold, Active, IsNewAttempt

\* Its request and its locks are what they were.
LEMMA RequestStays ==
    ASSUME PgInv, NEW p \in Conns, Commit(p), NEW o \in Conns, p # o, Open(o),
           tx'[o] = tx[o], held'[o] = held[o]
    PROVE  ArgumentsOK(tx[o])' /\ LocksHeld(o)'
<1> DEFINE q == tx[o]
<1>0. ArgumentsOK(q) /\ LocksHeld(o) /\ ChecksHold(q) /\ TypeOK /\ RowStep
  BY CommitIsStep DEF PgInv, Transactions
<1>1. q.op \in Owned =>
         /\ claims'[q.claim].status # "none"
         /\ q.task = claims'[q.claim].task
         /\ q.agent = claims'[q.claim].agent
  BY <1>0, ClaimKeepsIdentity DEF ArgumentsOK
<1>2. ArgumentsOK(tx[o])'
  BY <1>0, <1>1 DEF ArgumentsOK
<1>3. ASSUME q.op = "reap", NEW c \in q.reaped
      PROVE  claims'[c].task = claims[c].task
  <2>1. c \in ClaimIds /\ Active(c)
    BY <1>0, <1>3 DEF ArgumentsOK, ChecksHold, Tx
  <2> QED BY <1>0, <2>1, ClaimKeepsIdentity DEF Active
<1>4. q.op = "reap" => ToReap(o)' = ToReap(o)
  BY <1>3 DEF ToReap
<1>5. LocksHeld(o)'
  BY <1>0, <1>4 DEF LocksHeld
<1> QED BY <1>2, <1>5

\* No transaction is open on the connection.
LEMMA NoTxType == NoTx \in Tx
BY DEF NoTx, Tx

\* A commit keeps the invariant.
LEMMA CommitKeeps ==
    ASSUME PgInv, NEW p \in Conns, Commit(p)
    PROVE  PgInv'
<1>1. TypeOK'
  BY CommitTypes
<1>2. RunningIffClaimed'
  BY CommitIsStep, RowRunning DEF PgInv
<1>3. /\ tx' = [tx EXCEPT ![p] = NoTx]
      /\ held' = [held EXCEPT ![p] = {}]
      /\ tx \in [Conns -> Tx]
      /\ held = [c \in Conns |-> held[c]]
  BY DEF Commit, Close, PgInv, Transactions
<1>4. /\ tx'[p] = NoTx /\ held'[p] = {}
      /\ \A o \in Conns \ {p} : tx'[o] = tx[o] /\ held'[o] = held[o]
  BY <1>3
<1>5. Transactions'
  <2>1. /\ tx' \in [Conns -> Tx]
        /\ held' = [c \in Conns |-> held'[c]]
    BY <1>3, NoTxType
  <2>2. ASSUME NEW o \in Conns
        PROVE  /\ ~ Open(o)' => held'[o] = {}
               /\ Open(o)' => ArgumentsOK(tx[o])' /\ ChecksHold(tx[o])' /\ LocksHeld(o)'
    <3>1. CASE o = p
      BY <1>4, <3>1 DEF Open, NoTx
    <3>2. CASE o # p
      <4>1. Open(o)' <=> Open(o)
        BY <1>4, <3>2 DEF Open
      <4>2. ~ Open(o) => held'[o] = {}
        BY <1>4, <3>2 DEF PgInv, Transactions
      <4> QED BY <1>4, <3>2, <4>1, <4>2, RequestStays, ChecksStay
    <3> QED BY <3>1, <3>2
  <2> QED BY <2>1, <2>2 DEF Transactions, Open
<1>6. LocksExclude'
  BY <1>4 DEF PgInv, LocksExclude
<1> QED BY <1>1, <1>2, <1>5, <1>6 DEF PgInv

-----------------------------------------------------------------------------
(* The other steps change one transaction and no row.                      *)

\* Such a step keeps the invariant when what it says of its own transaction
\* is true and the rows it adds are free.
LEMMA TransactionStep ==
    ASSUME PgInv, NEW p \in Conns, NEW q \in Tx, NEW rows,
           tx' = [tx EXCEPT ![p] = q], held' = [held EXCEPT ![p] = rows],
           UNCHANGED vars,
           q.op = "none" => rows = {},
           q.op # "none" => ArgumentsOK(q) /\ ChecksHold(q) /\ LocksHeld(p)',
           \A o \in Conns \ {p} : \A row \in rows \cap held[o] :
              row[1] = "goal" /\ q.op = "claimTask" /\ tx[o].op = "claimTask"
    PROVE  PgInv'
<1>1. /\ UNCHANGED <<goal, task, claims, fence, attempts, approval>>
      /\ UNCHANGED <<now, sessions, delegation>>
  BY DEF vars
<1>2. TypeOK'
  BY <1>1 DEF PgInv, TypeOK
<1>3. RunningIffClaimed'
  BY <1>1 DEF PgInv, RunningIffClaimed, Active, OwnsRunningTask, HasActiveClaim
<1>4. /\ tx \in [Conns -> Tx]
      /\ held = [c \in Conns |-> held[c]]
  BY DEF PgInv, Transactions
<1>5. /\ tx'[p] = q /\ held'[p] = rows
      /\ \A o \in Conns \ {p} : tx'[o] = tx[o] /\ held'[o] = held[o]
  BY <1>4
<1>6. Transactions'
  <2>1. /\ tx' \in [Conns -> Tx]
        /\ held' = [c \in Conns |-> held'[c]]
    BY <1>4
  <2>2. ASSUME NEW o \in Conns, NEW r, tx'[o] = r, ArgumentsOK(r), ChecksHold(r)
        PROVE  ArgumentsOK(tx[o])' /\ ChecksHold(tx[o])'
    <3>1. ArgumentsOK(tx[o])'
      BY <1>1, <2>2 DEF ArgumentsOK
    <3>2. ChecksHold(tx[o])'
      BY <1>1, <2>2
         DEF ChecksHold, Active, IsNewAttempt, Reconciled, TasksOf
    <3> QED BY <3>1, <3>2
  <2>3. ASSUME NEW o \in Conns
        PROVE  /\ ~ Open(o)' => held'[o] = {}
               /\ Open(o)' =>
                     ArgumentsOK(tx[o])' /\ ChecksHold(tx[o])' /\ LocksHeld(o)'
    <3>1. CASE o = p
      BY <1>5, <2>2, <3>1 DEF Open
    <3>2. CASE o # p
      <4>1. /\ ~ Open(o) => held[o] = {}
            /\ Open(o) =>
                  ArgumentsOK(tx[o]) /\ ChecksHold(tx[o]) /\ LocksHeld(o)
        BY DEF PgInv, Transactions
      <4>2. LocksHeld(o) => LocksHeld(o)'
        BY <1>1, <1>5, <3>2 DEF LocksHeld, ToReap
      <4>3. Open(o)' <=> Open(o)
        BY <1>5, <3>2 DEF Open
      <4>4. PICK r : r = tx[o]
        OBVIOUS
      <4>5. ArgumentsOK(tx[o]) /\ ChecksHold(tx[o]) =>
               ArgumentsOK(tx[o])' /\ ChecksHold(tx[o])'
        BY <1>5, <2>2, <3>2, <4>4
      <4> QED BY <1>5, <3>2, <4>1, <4>2, <4>3, <4>5
    <3> QED BY <3>1, <3>2
  <2> QED BY <2>1, <2>3 DEF Transactions, Open
<1>7. LocksExclude'
  BY <1>5 DEF PgInv, LocksExclude
<1> QED BY <1>2, <1>3, <1>6, <1>7 DEF PgInv

\* A row that is free for an operation conflicts with no other transaction.
LEMMA FreeRow ==
    ASSUME NEW p \in Conns, NEW op, NEW row, Free(p, op, row),
           NEW o \in Conns \ {p}, row \in held[o]
    PROVE  /\ row[1] = "goal"
           /\ op = "claimTask"
           /\ tx[o].op = "claimTask"
BY DEF Free, Conflict, Shares

\* The rows of a transaction that adds one are free when that one is.
LEMMA OneMoreRow ==
    ASSUME PgInv, NEW p \in Conns, NEW op, NEW row, Free(p, op, row),
           op = tx[p].op \/ ~ Open(p)
    PROVE  \A o \in Conns \ {p} : \A r \in (held[p] \cup {row}) \cap held[o] :
              r[1] = "goal" /\ op = "claimTask" /\ tx[o].op = "claimTask"
<1> SUFFICES ASSUME NEW o \in Conns \ {p},
                    NEW r \in (held[p] \cup {row}) \cap held[o]
             PROVE  r[1] = "goal" /\ op = "claimTask" /\ tx[o].op = "claimTask"
  OBVIOUS
<1>1. CASE r = row
  BY <1>1, FreeRow
<1>2. CASE r \in held[p]
  BY <1>2 DEF PgInv, LocksExclude, Transactions
<1> QED BY <1>1, <1>2

\* The first statement of a request.
LEMMA BeginKeeps ==
    ASSUME PgInv, NEW p \in Conns, NEW q, ArgumentsOK(q), q.pos = 1,
           q.op \in Ops \ {"reap"}, Begin(p, q)
    PROVE  PgInv'
<1> DEFINE r == [q EXCEPT !.pos = 2]
           row == RowOf(q, LockOrder[q.op][1])
<1>1. q \in Tx
  BY DEF ArgumentsOK
<1>2. /\ r \in Tx /\ r.pos = 2 /\ r.op = q.op /\ r.worker = q.worker
      /\ r.session = q.session /\ r.claim = q.claim /\ r.task = q.task
      /\ r.agent = q.agent /\ r.no = q.no /\ r.result = q.result
      /\ r.reaped = q.reaped
  BY <1>1 DEF Tx
<1>3. /\ tx' = [tx EXCEPT ![p] = r]
      /\ held' = [held EXCEPT ![p] = {row}]
      /\ UNCHANGED vars
      /\ ~ Open(p) /\ Free(p, q.op, row)
      /\ Passes(q, LockOrder[q.op][1])
  BY DEF Begin
<1>4. tx \in [Conns -> Tx] /\ held = [c \in Conns |-> held[c]] /\ held[p] = {}
  BY <1>3 DEF PgInv, Transactions
<1>5. tx'[p] = r /\ held'[p] = {row}
  BY <1>3, <1>4
<1> HIDE DEF r
<1>6. ArgumentsOK(r)
  <2>1. ~ (r.op = "claimNext" /\ r.pos = 3)
    BY <1>2
  <2> QED BY <1>2, <2>1 DEF ArgumentsOK
<1>7. ChecksHold(r)
  <2>1. q.op = "resolve" => approval[q.task] = "pending"
    BY <1>3, Orders DEF Passes, ApprovalOK
  <2> QED BY <1>2, <2>1 DEF ChecksHold
<1>8. LocksHeld(p)'
  <2>1. 2 \in 2 .. LockedAt(q.op)
    BY OrderLengths DEF Ops
  <2>2. \A kind : RowOf(r, kind) = RowOf(q, kind)
    BY <1>2 DEF RowOf
  <2>3. {RowOf(r, LockOrder[r.op][i]) : i \in 1 .. r.pos - 1} = {row}
    <3>1. 1 .. r.pos - 1 = {1}
      BY <1>2
    <3> QED BY <1>2, <2>2, <3>1
  <2> QED BY <1>2, <1>5, <2>1, <2>3 DEF LocksHeld
<1>9. \A o \in Conns \ {p} : \A x \in {row} \cap held[o] :
         x[1] = "goal" /\ r.op = "claimTask" /\ tx[o].op = "claimTask"
  <2> HIDE DEF row
  <2> QED BY <1>2, <1>3, FreeRow
<1>10. r.op # "none"
  BY <1>2 DEF Ops
<1>11. r \in Tx
  BY <1>2
<1>12. /\ tx' = [tx EXCEPT ![p] = r]
       /\ held' = [held EXCEPT ![p] = {row}]
       /\ UNCHANGED vars
  BY <1>3
<1> HIDE DEF row
<1> QED BY <1>6, <1>7, <1>8, <1>9, <1>10, <1>11, <1>12, TransactionStep, ZenonT(60)

\* What a reaper notes when it begins.
LEMMA ReaperType ==
    ASSUME NEW at \in Int, NEW R \in SUBSET ClaimIds
    PROVE  LET r == [NoTx EXCEPT !.op = "reap", !.at = at, !.reaped = R, !.pos = 2]
           IN r \in Tx /\ r.op = "reap" /\ r.reaped = R /\ r.pos = 2
<1>1. /\ [NoTx EXCEPT !.op = "reap"] \in Tx
      /\ [NoTx EXCEPT !.op = "reap"].op = "reap"
  BY NoTxType DEF Tx, Ops
<1>2. ASSUME NEW x \in Tx
      PROVE  LET r == [x EXCEPT !.at = at, !.reaped = R, !.pos = 2]
             IN r \in Tx /\ r.op = x.op /\ r.reaped = R /\ r.pos = 2
  BY DEF Tx
<1>3. ASSUME NEW x \in Tx
      PROVE  [x EXCEPT !.op = "reap", !.at = at, !.reaped = R, !.pos = 2]
             = [[x EXCEPT !.op = "reap"] EXCEPT !.at = at, !.reaped = R, !.pos = 2]
  BY DEF Tx
<1> QED BY <1>1, <1>2, <1>3, NoTxType

\* The first statement of a reaper.
LEMMA BeginReapKeeps ==
    ASSUME PgInv, NEW p \in Conns, NEW at \in Int, BeginReap(p, at)
    PROVE  PgInv'
<1> DEFINE R == {c \in ExpiredClaims(at) : Free(p, "reap", <<"claim", c>>)}
           r == [NoTx EXCEPT !.op = "reap", !.at = at, !.reaped = R, !.pos = 2]
           rows == {<<"claim", c>> : c \in R}
<1>1. /\ tx' = [tx EXCEPT ![p] = r]
      /\ held' = [held EXCEPT ![p] = rows]
      /\ UNCHANGED vars
      /\ ~ Open(p)
  BY DEF BeginReap
<1>2. R \in SUBSET ClaimIds /\ \A c \in R : Active(c)
  BY DEF ExpiredClaims
<1>3. /\ r \in Tx /\ r.op = "reap" /\ r.reaped = R /\ r.pos = 2
  BY <1>2, ReaperType
<1>4. tx'[p] = r /\ held'[p] = rows
  BY <1>1 DEF PgInv, Transactions
<1> HIDE DEF r
<1>5. ArgumentsOK(r) /\ ChecksHold(r)
  BY <1>2, <1>3 DEF ArgumentsOK, ChecksHold, Claiming, Owned
<1>6. LocksHeld(p)'
  <2>1. 2 \in 2 .. LockedAt("reap")
    BY OrderLengths
  <2>2. \A t : <<"task", t>> \notin rows
    OBVIOUS
  <2>3. \A c \in R : <<"claim", c>> \in rows
    OBVIOUS
  <2>4. \A row \in rows : \E c \in R : row = <<"claim", c>>
    OBVIOUS
  <2> HIDE DEF rows, R
  <2> QED BY <1>3, <1>4, <2>1, <2>2, <2>3, <2>4 DEF LocksHeld
<1>7. \A o \in Conns \ {p} : \A x \in rows \cap held[o] :
         x[1] = "goal" /\ r.op = "claimTask" /\ tx[o].op = "claimTask"
  <2> SUFFICES ASSUME NEW o \in Conns \ {p}, NEW c \in R, <<"claim", c>> \in held[o]
               PROVE  FALSE
    OBVIOUS
  <2>1. Free(p, "reap", <<"claim", c>>)
    OBVIOUS
  <2> QED BY <2>1, FreeRow
<1>8. r \in Tx /\ r.op # "none"
  BY <1>3
<1>9. /\ tx' = [tx EXCEPT ![p] = r]
      /\ held' = [held EXCEPT ![p] = rows]
      /\ UNCHANGED vars
  BY <1>1
<1> HIDE DEF rows
<1> QED BY <1>5, <1>6, <1>7, <1>8, <1>9, TransactionStep, ZenonT(60)

\* A later statement.
LEMMA LockKeeps ==
    ASSUME PgInv, NEW p \in Conns, Lock(p)
    PROVE  PgInv'
<1> DEFINE q == tx[p]
           kind == NextKind(p)
           row == RowOf(q, kind)
           n == Noted(q, kind)
           r == [n EXCEPT !.pos = @ + 1]
<1>1. /\ Open(p) /\ ~ AllLocked(p)
      /\ q.op # "reap" /\ ~ (q.op = "claimNext" /\ kind = "task")
      /\ Free(p, q.op, row) /\ Passes(q, kind)
      /\ tx' = [tx EXCEPT ![p] = r]
      /\ held' = [held EXCEPT ![p] = @ \cup {row}]
      /\ UNCHANGED vars
  BY DEF Lock
<1>2. /\ ArgumentsOK(q) /\ ChecksHold(q) /\ LocksHeld(p) /\ q \in Tx
      /\ tx \in [Conns -> Tx] /\ held = [c \in Conns |-> held[c]] /\ TypeOK
  BY <1>1 DEF PgInv, Transactions, ArgumentsOK
<1>3. q.op \in Ops /\ kind = LockOrder[q.op][q.pos]
  BY <1>1, <1>2 DEF Tx, Open, NextKind
<1>4. q.pos \in 2 .. Len(LockOrder[q.op]) /\ Len(LockOrder[q.op]) \in Nat
  <2>1. Len(LockOrder[q.op]) \in Nat
    BY <1>3, Orders DEF Ops
  <2> QED BY <1>1, <1>2, <2>1 DEF LocksHeld, LockedAt, AllLocked
<1>5. q.op \in Owned => q.task \in Tasks
  <2>1. ASSUME q.op \in Owned PROVE claims[q.claim] \in Claim
    BY <1>2, <2>1, RowTypes DEF ArgumentsOK
  <2> QED BY <1>2, <2>1 DEF ArgumentsOK, Claim
<1>6. /\ n \in Tx /\ n.pos = q.pos /\ n.op = q.op /\ n.worker = q.worker
      /\ n.session = q.session /\ n.claim = q.claim /\ n.task = q.task
      /\ n.agent = q.agent /\ n.no = q.no /\ n.result = q.result
      /\ n.reaped = q.reaped
      /\ n.goal = IF q.op = "commit" /\ kind = "goal"
                  THEN Reconciled(q.task, q.result) ELSE q.goal
  <2>1. CASE q.op = "commit" /\ kind = "goal"
    <3>1. Reconciled(q.task, q.result) \in GoalStatus
      BY <1>2, <1>5, <2>1, TopologyAssumption
         DEF Reconciled, TypeOK, GoalStatus, Owned
    <3>2. n = [q EXCEPT !.goal = Reconciled(q.task, q.result)]
      BY <2>1 DEF Noted
    <3> QED BY <1>2, <2>1, <3>1, <3>2 DEF Tx
  <2>2. CASE ~ (q.op = "commit" /\ kind = "goal")
    BY <1>2, <2>2 DEF Noted
  <2> QED BY <2>1, <2>2
<1> HIDE DEF n
<1>7. /\ r \in Tx /\ r.pos = q.pos + 1 /\ r.op = q.op /\ r.worker = q.worker
      /\ r.session = q.session /\ r.claim = q.claim /\ r.task = q.task
      /\ r.agent = q.agent /\ r.no = q.no /\ r.result = q.result
      /\ r.reaped = q.reaped /\ r.goal = n.goal
  BY <1>6 DEF Tx
<1>8. tx'[p] = r /\ held'[p] = held[p] \cup {row}
  BY <1>1, <1>2
<1> HIDE DEF r
<1>9. ArgumentsOK(r)
  <2>1. ~ (r.op = "claimNext" /\ r.pos = 3)
    BY <1>1, <1>3, <1>4, <1>7, Orders
  <2> QED BY <1>2, <1>7, <2>1 DEF ArgumentsOK
<1>10. ChecksHold(r)
  <2> DEFINE g == goal[GoalOf[q.task]]
  <2>1. r.op = "claimTask" /\ r.pos = 4 => task[q.task].status = "pending"
    BY <1>1, <1>3, <1>4, <1>7, Orders DEF Passes, TaskOK
  <2>2. ~ (r.op = "claimNext" /\ r.pos = 3)
    BY <1>1, <1>3, <1>4, <1>7, Orders
  <2>3. r.op \in Owned /\ r.pos > 2 => Active(q.claim)
    <3>1. r.op \in Owned /\ q.pos = 2 => kind = "claim"
      BY <1>3, <1>7, Orders DEF Owned
    <3> QED BY <1>1, <1>2, <1>4, <1>7, <3>1
            DEF ChecksHold, Passes, ClaimOK, RequireClaim
  <2>4. r.op = "commit" /\ r.pos > 3 => IsNewAttempt(q.task, q.no)
    <3>1. r.op = "commit" /\ q.pos = 3 => kind = "task"
      BY <1>3, <1>7, Orders
    <3> QED BY <1>1, <1>2, <1>4, <1>7, <3>1 DEF ChecksHold, Passes, TaskOK
  <2>5. r.op \in {"pause", "commit"} /\ r.pos > 5 => kind = "goal"
    BY <1>3, <1>4, <1>7, Orders
  <2>6. r.op \in {"pause", "commit"} /\ r.pos > 5 => g = "running"
    BY <1>1, <1>7, <2>5 DEF Passes, GoalOK
  <2>7. r.op = "commit" /\ r.pos > 5 => r.goal = Reconciled(q.task, q.result)
    BY <1>6, <1>7, <2>5
  <2>8. r.op = "resolve" => approval[q.task] = "pending"
    BY <1>2, <1>7 DEF ChecksHold
  <2>9. r.op = "resolve" /\ r.pos > 2 => g = "paused"
    <3>1. r.op = "resolve" => kind = "goal"
      BY <1>3, <1>4, <1>7, Orders
    <3> QED BY <1>1, <1>7, <3>1 DEF Passes, GoalOK
  <2> QED BY <1>1, <1>7, <2>1, <2>2, <2>3, <2>4, <2>6, <2>7, <2>8, <2>9
          DEF ChecksHold
<1>11. LocksHeld(p)'
  <2>1. r.pos \in 2 .. LockedAt(r.op)
    BY <1>4, <1>7 DEF LockedAt
  <2>2. \A k : RowOf(r, k) = RowOf(q, k)
    BY <1>7 DEF RowOf
  <2>3. {RowOf(r, LockOrder[r.op][i]) : i \in 1 .. r.pos - 1} = held[p] \cup {row}
    <3>1. held[p] = {RowOf(q, LockOrder[q.op][i]) : i \in 1 .. q.pos - 1}
      BY <1>1, <1>2 DEF LocksHeld
    <3>2. 1 .. r.pos - 1 = (1 .. q.pos - 1) \cup {q.pos}
      BY <1>4, <1>7
    <3>3. row = RowOf(q, LockOrder[q.op][q.pos])
      BY <1>3
    <3> HIDE DEF row, q
    <3> QED BY <1>7, <2>2, <3>1, <3>2, <3>3
  <2> QED BY <1>1, <1>7, <1>8, <2>1, <2>3 DEF LocksHeld
<1> DEFINE rows == held[p] \cup {row}
<1>12. \A o \in Conns \ {p} : \A x \in rows \cap held[o] :
          x[1] = "goal" /\ r.op = "claimTask" /\ tx[o].op = "claimTask"
  <2> HIDE DEF row
  <2> QED BY <1>1, <1>7, OneMoreRow
<1>13. r.op # "none" /\ r \in Tx
  BY <1>3, <1>7 DEF Ops
<1>14. tx' = [tx EXCEPT ![p] = r] /\ UNCHANGED vars
  BY <1>1
<1>15. held' = [held EXCEPT ![p] = rows]
  BY <1>1
<1> HIDE DEF rows
<1> QED BY <1>9, <1>10, <1>11, <1>12, <1>13, <1>14, <1>15, TransactionStep, ZenonT(60)

\* claim_next_task takes a candidate nobody has locked.
LEMMA LockNextTaskKeeps ==
    ASSUME PgInv, NEW p \in Conns, LockNextTask(p)
    PROVE  PgInv'
<1> DEFINE q == tx[p]
<1>1. PICK t \in UnlockedCandidates(p) :
         /\ tx' = [tx EXCEPT ![p].task = t,
                             ![p].agent = Assignments[q.worker][TypeOf[t]],
                             ![p].pos = @ + 1]
         /\ held' = [held EXCEPT ![p] = @ \cup {<<"task", t>>}]
  BY DEF LockNextTask
<1>2. q.op = "claimNext" /\ ~ AllLocked(p) /\ UNCHANGED vars
  BY DEF LockNextTask
<1>3. /\ ArgumentsOK(q) /\ LocksHeld(p) /\ q \in Tx
      /\ tx \in [Conns -> Tx] /\ held = [c \in Conns |-> held[c]]
  BY <1>2 DEF PgInv, Transactions, ArgumentsOK, Open
<1>4. q.pos = 2
  BY <1>2, <1>3, Orders DEF LocksHeld, LockedAt, AllLocked
<1>5. q.worker \in Workers /\ q.session \in Sessions
  BY <1>2, <1>3 DEF ArgumentsOK, Claiming
<1> DEFINE a == Assignments[q.worker][TypeOf[t]]
           r == [q EXCEPT !.task = t, !.agent = a, !.pos = 3]
           row == <<"task", t>>
           rows == held[p] \cup {row}
<1>6. t \in Tasks /\ task[t].status = "pending" /\ a # Null
  BY DEF UnlockedCandidates, Candidates, Ready
<1>7. a \in Agents
  BY <1>5, <1>6, TopologyAssumption
<1>8. tx' = [tx EXCEPT ![p] = r] /\ held' = [held EXCEPT ![p] = rows]
  <2>1. [tx[p] EXCEPT !.task = t, !.agent = a, !.pos = @ + 1] = r
    BY <1>3, <1>4 DEF Tx
  <2>2. tx' = [tx EXCEPT ![p] = [tx[p] EXCEPT !.task = t, !.agent = a, !.pos = @ + 1]]
    BY <1>1
  <2> QED BY <1>1, <2>1, <2>2
<1> HIDE DEF a
<1>9. /\ r \in Tx /\ r.pos = 3 /\ r.op = "claimNext" /\ r.task = t
      /\ r.agent = a /\ r.worker = q.worker /\ r.session = q.session
  BY <1>2, <1>3, <1>6, <1>7 DEF Tx
<1> HIDE DEF r
<1>10. tx'[p] = r /\ held'[p] = rows
  BY <1>3, <1>8
<1>11. ArgumentsOK(r)
  BY <1>5, <1>6, <1>7, <1>9 DEF ArgumentsOK, Owned, Claiming
<1>12. ChecksHold(r)
  BY <1>6, <1>9 DEF ChecksHold, Owned
<1>13. LocksHeld(p)'
  <2>1. held[p] = {RowOf(q, "session")}
    <3>1. held[p] = {RowOf(q, LockOrder["claimNext"][i]) : i \in 1 .. 1}
      BY <1>2, <1>3, <1>4 DEF LocksHeld
    <3>2. 1 .. 1 = {1} /\ LockOrder["claimNext"][1] = "session"
      BY Orders
    <3> QED BY <3>1, <3>2
  <2>2. held[p] = {RowOf(r, "session")} /\ row = RowOf(r, "task")
    BY <1>9, <2>1 DEF RowOf
  <2>3. {RowOf(r, LockOrder["claimNext"][i]) : i \in 1 .. 2} = rows
    <3>1. /\ 1 .. 2 = {1, 2}
          /\ LockOrder["claimNext"][1] = "session"
          /\ LockOrder["claimNext"][2] = "task"
      BY Orders
    <3> QED BY <2>2, <3>1
  <2>4. 3 \in 2 .. LockedAt("claimNext") /\ r.pos - 1 = 2
    BY <1>9, OrderLengths
  <2> QED BY <1>9, <1>10, <2>3, <2>4 DEF LocksHeld
<1>14. \A o \in Conns \ {p} : \A x \in rows \cap held[o] :
          x[1] = "goal" /\ r.op = "claimTask" /\ tx[o].op = "claimTask"
  <2>1. Free(p, "claimNext", row)
    BY DEF UnlockedCandidates
  <2> HIDE DEF row
  <2> QED BY <1>2, <1>9, <2>1, OneMoreRow
<1> HIDE DEF rows
<1>15. r.op # "none" /\ r \in Tx
  BY <1>9
<1> QED BY <1>2, <1>8, <1>11, <1>12, <1>13, <1>14, <1>15, TransactionStep, ZenonT(60)

\* Of some tasks, one comes first.
LEMMA FirstInOrder ==
    ASSUME NEW T \in SUBSET Tasks, T # {}
    PROVE  \E t \in T : \A u \in T : Rank[t] <= Rank[u]
<1> DEFINE Ranks == {Rank[t] : t \in T}
<1>1. Ranks \in SUBSET Nat /\ Ranks # {}
  BY TopologyAssumption
<1>2. PICK n \in Ranks : \A m \in Ranks : n <= m
  <2> HIDE DEF Ranks
  <2> QED BY <1>1, LeastNumber
<1> QED BY <1>2

\* The task a reaper locks next is one of those it has still to lock, and
\* comes before the others.
LEMMA NextToReap ==
    ASSUME PgInv, NEW p \in Conns, tx[p].op = "reap", ToReap(p) # {}
    PROVE  /\ FirstToReap(p) \in ToReap(p) /\ FirstToReap(p) \in Tasks
           /\ \A u \in ToReap(p) : u \in Tasks
           /\ \A u \in ToReap(p) \ {FirstToReap(p)} : Rank[FirstToReap(p)] < Rank[u]
<1>1. ToReap(p) \in SUBSET Tasks
  <2> SUFFICES ASSUME NEW c \in tx[p].reaped PROVE claims[c].task \in Tasks
    BY DEF ToReap
  <2>1. ArgumentsOK(tx[p]) /\ ChecksHold(tx[p])
    BY DEF PgInv, Transactions, Open
  <2>2. c \in ClaimIds /\ Active(c)
    BY <2>1 DEF ArgumentsOK, ChecksHold, Tx
  <2> QED BY <2>2, ActiveRowTypes DEF PgInv
<1> DEFINE First(t) == \A u \in ToReap(p) : Rank[t] <= Rank[u]
<1>2. \E t \in ToReap(p) : First(t)
  BY <1>1, FirstInOrder
<1>3. FirstToReap(p) \in ToReap(p) /\ First(FirstToReap(p))
  BY <1>2 DEF FirstToReap
<1>4. ASSUME NEW u \in ToReap(p) \ {FirstToReap(p)}
      PROVE  Rank[FirstToReap(p)] < Rank[u]
  <2>1. u \in Tasks /\ FirstToReap(p) \in Tasks /\ u # FirstToReap(p)
    BY <1>1, <1>3
  <2>2. Rank[u] \in Nat /\ Rank[FirstToReap(p)] \in Nat
        /\ Rank[u] # Rank[FirstToReap(p)]
    BY <2>1, TopologyAssumption
  <2> QED BY <1>3, <2>2
<1> QED BY <1>1, <1>3, <1>4

\* A reaper locks the tasks of its claims in their order.
LEMMA LockReapedKeeps ==
    ASSUME PgInv, NEW p \in Conns, LockReaped(p)
    PROVE  PgInv'
<1> DEFINE q == tx[p]
<1>1. q.op = "reap" /\ ~ AllLocked(p) /\ UNCHANGED vars
  BY DEF LockReaped
<1>2. /\ ArgumentsOK(q) /\ ChecksHold(q) /\ LocksHeld(p) /\ q \in Tx
      /\ tx \in [Conns -> Tx] /\ held = [c \in Conns |-> held[c]]
  BY <1>1 DEF PgInv, Transactions, ArgumentsOK, Open
<1>3. q.pos = 2
  BY <1>1, <1>2, Orders DEF LocksHeld, LockedAt, AllLocked
<1>4. CASE ToReap(p) = {}
  <2> DEFINE r == [q EXCEPT !.pos = 3]
  <2>1. tx' = [tx EXCEPT ![p] = r] /\ held' = [held EXCEPT ![p] = held[p]]
    <3>1. [q EXCEPT !.pos = @ + 1] = r
      BY <1>2, <1>3 DEF Tx
    <3>2. tx' = [tx EXCEPT ![p] = [q EXCEPT !.pos = @ + 1]] /\ held' = held
      BY <1>4 DEF LockReaped
    <3> QED BY <1>2, <3>1, <3>2
  <2>2. r \in Tx /\ r.pos = 3 /\ r.op = "reap" /\ r.reaped = q.reaped
    BY <1>1, <1>2 DEF Tx
  <2> HIDE DEF r
  <2>3. tx'[p] = r /\ held'[p] = held[p]
    BY <1>2, <2>1
  <2>4. ArgumentsOK(r) /\ ChecksHold(r)
    BY <1>1, <1>2, <2>2 DEF ArgumentsOK, ChecksHold, Owned, Claiming
  <2>5. LocksHeld(p)'
    <3>1. ToReap(p)' = {}
      BY <1>1, <1>4, <2>2, <2>3 DEF ToReap, vars
    <3>2. 3 \in 2 .. LockedAt("reap")
      BY OrderLengths
    <3> QED BY <1>1, <1>2, <2>2, <2>3, <3>1, <3>2 DEF LocksHeld
  <2>6. \A o \in Conns \ {p} : \A x \in held[p] \cap held[o] :
           x[1] = "goal" /\ r.op = "claimTask" /\ tx[o].op = "claimTask"
    BY <1>1 DEF PgInv, LocksExclude
  <2>7. r.op # "none" /\ r \in Tx
    BY <2>2
  <2> QED BY <1>1, <2>1, <2>4, <2>5, <2>6, <2>7, TransactionStep, ZenonT(60)
<1>5. CASE ToReap(p) # {}
  <2> DEFINE f == FirstToReap(p)
             row == <<"task", f>>
             rows == held[p] \cup {row}
  <2>1. Free(p, "reap", row) /\ held' = [held EXCEPT ![p] = rows] /\ tx' = tx
    BY <1>1, <1>5 DEF LockReaped, NextRow
  <2>2. /\ f \in ToReap(p) /\ f \in Tasks
        /\ \A u \in ToReap(p) : u \in Tasks
        /\ \A u \in ToReap(p) \ {f} : Rank[f] < Rank[u]
    BY <1>1, <1>5, NextToReap
  <2> HIDE DEF f
  <2>3. tx' = [tx EXCEPT ![p] = q]
    BY <1>2, <2>1
  <2>4. tx'[p] = q /\ held'[p] = rows
    BY <1>2, <2>1
  <2>5. LocksHeld(p)'
    <3>1. ToReap(p)' = ToReap(p) \ {f}
      BY <1>1, <2>4 DEF ToReap, vars
    <3>2. \A c \in q.reaped : <<"claim", c>> \in rows
      BY <1>1, <1>2 DEF LocksHeld
    <3>3. \A x \in rows : \/ \E c \in q.reaped : x = <<"claim", c>>
                          \/ \E t \in Tasks : x = <<"task", t>>
      BY <1>1, <1>2, <2>2 DEF LocksHeld
    <3>4. ASSUME NEW t \in Tasks, <<"task", t>> \in rows,
                 NEW u \in ToReap(p) \ {f}
          PROVE  Rank[t] < Rank[u]
      <4>1. CASE t = f
        BY <2>2, <4>1
      <4>2. CASE t # f
        <5>1. <<"task", t>> \in held[p]
          BY <3>4, <4>2
        <5> QED BY <1>1, <1>2, <5>1 DEF LocksHeld
      <4> QED BY <4>1, <4>2
    <3>5. q.pos \in 2 .. LockedAt(q.op)
      BY <1>2 DEF LocksHeld
    <3> HIDE DEF rows
    <3> QED BY <1>1, <1>3, <2>4, <3>1, <3>2, <3>3, <3>4, <3>5 DEF LocksHeld
  <2>6. \A o \in Conns \ {p} : \A x \in rows \cap held[o] :
           x[1] = "goal" /\ q.op = "claimTask" /\ tx[o].op = "claimTask"
    <3> HIDE DEF row
    <3> QED BY <1>1, <2>1, OneMoreRow
  <2>7. PICK r \in Tx : r = q
    BY <1>2
  <2>8. r.op # "none" /\ ArgumentsOK(r) /\ ChecksHold(r)
    BY <1>1, <1>2, <2>7
  <2>9. /\ tx' = [tx EXCEPT ![p] = r]
        /\ held' = [held EXCEPT ![p] = rows]
        /\ UNCHANGED vars
    BY <1>1, <2>1, <2>3, <2>7
  <2>10. \A o \in Conns \ {p} : \A x \in rows \cap held[o] :
            x[1] = "goal" /\ r.op = "claimTask" /\ tx[o].op = "claimTask"
    BY <2>6, <2>7
  <2> HIDE DEF rows
  <2> QED BY <2>5, <2>8, <2>9, <2>10, TransactionStep, ZenonT(60)
<1> QED BY <1>4, <1>5

\* A transaction that is given up releases its rows.
LEMMA RollbackKeeps ==
    ASSUME PgInv, NEW p \in Conns, Rollback(p)
    PROVE  PgInv'
<1> DEFINE q == NoTx
           rows == {}
<1>1. tx' = [tx EXCEPT ![p] = q] /\ UNCHANGED vars
  BY DEF Rollback, Close
<1>2. held' = [held EXCEPT ![p] = rows]
  BY DEF Rollback, Close
<1>3. q.op = "none" /\ rows = {} /\ q \in Tx
  BY NoTxType DEF NoTx
<1> HIDE DEF q, rows
<1>4. \A o \in Conns \ {p} : \A x \in rows \cap held[o] :
         x[1] = "goal" /\ q.op = "claimTask" /\ tx[o].op = "claimTask"
  BY <1>3
<1>5. q.op # "none" => ArgumentsOK(q) /\ ChecksHold(q) /\ LocksHeld(p)'
  BY <1>3
<1> QED BY <1>1, <1>2, <1>3, <1>4, <1>5, TransactionStep, ZenonT(60)

-----------------------------------------------------------------------------
(* The requests of a connection.                                           *)

\* NoTx says of everything that it is not there.
LEMMA NoTxFields ==
    /\ NoTx.op = "none" /\ NoTx.pos = 1 /\ NoTx.no = 0 /\ NoTx.result = Null
    /\ NoTx.worker = Null /\ NoTx.session = Null /\ NoTx.claim = Null
    /\ NoTx.task = Null /\ NoTx.agent = Null
BY DEF NoTx

\* The parameters of a connection.
LEMMA ConnectionTypes ==
    ASSUME NEW p \in Conns
    PROVE  /\ OpsOf[p] \subseteq Ops
           /\ WorkersOf[p] \subseteq Workers
           /\ TimesOf[p] \subseteq Int
<1>1. OpsOf[p] \subseteq Ops /\ WorkersOf[p] \subseteq Workers /\ TimesOf[p] \subseteq Times
  BY ConnectionAssumption
<1>2. Times \subseteq Int
  BY DurationAssumption DEF Times
<1> QED BY <1>1, <1>2

\* register_worker, heartbeat_worker and claim_next_task are for any worker
\* and generation the connection presents.
LEMMA BeginSessionKeeps ==
    ASSUME PgInv, NEW p \in Conns, NEW w \in WorkersOf[p], NEW s \in Sessions,
           NEW at \in TimesOf[p], BeginSession(p, w, s, at)
    PROVE  PgInv'
<1>1. PICK op \in OpsOf[p] \cap {"register", "heartbeat", "claimNext"} :
         Begin(p, [NoTx EXCEPT !.op = op, !.worker = w, !.session = s, !.at = at])
  BY DEF BeginSession
<1> DEFINE q == [NoTx EXCEPT !.op = op, !.worker = w, !.session = s, !.at = at]
<1>2. op \in Ops /\ w \in Workers /\ at \in Int
  BY ConnectionTypes DEF Ops
<1>3. ASSUME NEW x \in Tx
      PROVE  LET r == [x EXCEPT !.op = op, !.worker = w, !.session = s, !.at = at]
             IN r \in Tx /\ r.op = op /\ r.worker = w /\ r.session = s /\ r.pos = x.pos
  BY <1>2 DEF Tx
<1>4. /\ q \in Tx /\ q.op = op /\ q.worker = w /\ q.session = s /\ q.pos = 1
  BY <1>3, NoTxType, NoTxFields
<1> HIDE DEF q
<1>5. ArgumentsOK(q)
  BY <1>2, <1>4 DEF ArgumentsOK, Owned, Claiming
<1>6. q.op \in Ops \ {"reap"}
  BY <1>2, <1>4
<1>7. Begin(p, q)
  BY <1>1 DEF q
<1> QED BY <1>4, <1>5, <1>6, <1>7, BeginKeeps

\* claim_task is for a task of a type the worker has an agent for.
LEMMA BeginClaimTaskKeeps ==
    ASSUME PgInv, NEW p \in Conns, NEW w \in WorkersOf[p], NEW s \in Sessions,
           NEW t \in Tasks, NEW at \in TimesOf[p], BeginClaimTask(p, w, s, t, at)
    PROVE  PgInv'
<1> DEFINE a == Assignments[w][TypeOf[t]]
           q == [NoTx EXCEPT !.op = "claimTask", !.worker = w, !.session = s,
                   !.task = t, !.agent = a, !.at = at]
<1>1. Begin(p, q) /\ a # Null
  BY DEF BeginClaimTask
<1>2. w \in Workers /\ at \in Int
  BY ConnectionTypes
<1>3. a \in Agents
  BY <1>1, <1>2, TopologyAssumption
<1> HIDE DEF a
<1>4. ASSUME NEW x \in Tx
      PROVE  LET r == [x EXCEPT !.op = "claimTask", !.worker = w, !.session = s,
                          !.task = t, !.agent = a, !.at = at]
             IN /\ r \in Tx /\ r.op = "claimTask" /\ r.worker = w /\ r.session = s
                /\ r.task = t /\ r.agent = a /\ r.pos = x.pos
  BY <1>2, <1>3 DEF Tx, Ops
<1>5. /\ q \in Tx /\ q.op = "claimTask" /\ q.worker = w /\ q.session = s
      /\ q.task = t /\ q.agent = a /\ q.pos = 1
  BY <1>4, NoTxType, NoTxFields
<1> HIDE DEF q
<1>6. ArgumentsOK(q)
  BY <1>2, <1>3, <1>5 DEF ArgumentsOK, Owned, Claiming
<1>7. q.op \in Ops \ {"reap"}
  BY <1>5 DEF Ops
<1> QED BY <1>1, <1>5, <1>6, <1>7, BeginKeeps

\* What renew_claim, release_claim, pause_claim_for_approval and
\* commit_claim_outcome are asked is about a claim's row.
LEMMA BeginOwnedKeeps ==
    ASSUME PgInv, NEW p \in Conns, NEW c \in ClaimIds, NEW at \in TimesOf[p],
           BeginOwned(p, c, at)
    PROVE  PgInv'
<1> DEFINE q == [NoTx EXCEPT !.worker = claims[c].worker,
                    !.session = claims[c].session, !.claim = c,
                    !.task = claims[c].task, !.agent = claims[c].agent,
                    !.at = at]
<1>1. /\ claims[c].status # "none"
      /\ \/ \E op \in OpsOf[p] \cap {"renew", "release"} :
               Begin(p, [q EXCEPT !.op = op])
         \/ Begin(p, [q EXCEPT !.op = "pause"])
         \/ \E no \in 1 .. MaxAttempts, r \in Results :
               Begin(p, [q EXCEPT !.op = "commit", !.no = no, !.result = r])
  BY DEF BeginOwned
<1>2. claims[c] \in Claim /\ at \in Int
  BY <1>1, RowTypes, ConnectionTypes DEF PgInv
<1>3. ASSUME NEW x \in Tx, NEW k \in Claim
      PROVE  LET r == [x EXCEPT !.worker = k.worker, !.session = k.session,
                          !.claim = c, !.task = k.task, !.agent = k.agent,
                          !.at = at]
             IN /\ r \in Tx /\ r.claim = c /\ r.task = k.task
                /\ r.agent = k.agent /\ r.pos = x.pos
  BY <1>2 DEF Tx, Claim
<1>4. /\ q \in Tx /\ q.claim = c /\ q.task = claims[c].task
      /\ q.agent = claims[c].agent /\ q.pos = 1
  BY <1>2, <1>3, NoTxType, NoTxFields
<1> HIDE DEF q
<1>5. ASSUME NEW r, r \in Tx, r.op \in Owned, r.claim = q.claim,
             r.task = q.task, r.agent = q.agent, r.pos = q.pos,
             r.op = "commit" => r.no \in 1 .. MaxAttempts /\ r.result \in Outcomes,
             Begin(p, r)
      PROVE  PgInv'
  <2>1. ArgumentsOK(r)
    BY <1>1, <1>4, <1>5 DEF ArgumentsOK, Owned, Claiming
  <2>2. r.op \in Ops \ {"reap"} /\ r.pos = 1
    BY <1>4, <1>5 DEF Ops, Owned
  <2> QED BY <1>5, <2>1, <2>2, BeginKeeps
<1>6. ASSUME NEW op \in Owned \ {"commit"}, Begin(p, [q EXCEPT !.op = op])
      PROVE  PgInv'
  <2> DEFINE r == [q EXCEPT !.op = op]
  <2>1. /\ r \in Tx /\ r.op = op /\ r.claim = q.claim /\ r.task = q.task
        /\ r.agent = q.agent /\ r.pos = q.pos
    BY <1>4 DEF Tx, Owned, Ops
  <2>2. Begin(p, r)
    BY <1>6
  <2> HIDE DEF r
  <2> QED BY <1>5, <2>1, <2>2
<1>7. ASSUME NEW no \in 1 .. MaxAttempts, NEW result \in Results,
             Begin(p, [q EXCEPT !.op = "commit", !.no = no, !.result = result])
      PROVE  PgInv'
  <2> DEFINE r == [q EXCEPT !.op = "commit", !.no = no, !.result = result]
  <2>1. result \in Outcomes /\ no \in Int
    BY ConnectionAssumption, DurationAssumption
  <2>2. /\ r \in Tx /\ r.op = "commit" /\ r.claim = q.claim /\ r.task = q.task
        /\ r.agent = q.agent /\ r.pos = q.pos /\ r.no = no /\ r.result = result
    BY <1>4, <2>1 DEF Tx, Ops
  <2>3. Begin(p, r)
    BY <1>7
  <2> HIDE DEF r
  <2> QED BY <1>5, <2>1, <2>2, <2>3 DEF Owned
<1> QED BY <1>1, <1>6, <1>7 DEF Owned

\* save_approval and save_approval_resolution are about a task's request.
LEMMA BeginApprovalKeeps ==
    ASSUME PgInv, NEW p \in Conns, NEW t \in Tasks, BeginApproval(p, t)
    PROVE  PgInv'
<1>1. CASE Begin(p, [NoTx EXCEPT !.op = "saveApproval", !.task = t])
  <2> DEFINE q == [NoTx EXCEPT !.op = "saveApproval", !.task = t]
  <2>1. ASSUME NEW x \in Tx
        PROVE  LET r == [x EXCEPT !.op = "saveApproval", !.task = t]
               IN r \in Tx /\ r.op = "saveApproval" /\ r.task = t /\ r.pos = x.pos
    BY DEF Tx, Ops
  <2>2. q \in Tx /\ q.op = "saveApproval" /\ q.task = t /\ q.pos = 1
    BY <2>1, NoTxType, NoTxFields
  <2>3. Begin(p, q)
    BY <1>1
  <2> HIDE DEF q
  <2>4. ArgumentsOK(q)
    BY <2>2 DEF ArgumentsOK, Owned, Claiming
  <2>5. q.op \in Ops \ {"reap"}
    BY <2>2 DEF Ops
  <2> QED BY <2>2, <2>3, <2>4, <2>5, BeginKeeps
<1>2. ASSUME NEW d \in {"approved", "rejected"},
             Begin(p, [NoTx EXCEPT !.op = "resolve", !.task = t, !.result = d])
      PROVE  PgInv'
  <2> DEFINE q == [NoTx EXCEPT !.op = "resolve", !.task = t, !.result = d]
  <2>1. ASSUME NEW x \in Tx
        PROVE  LET r == [x EXCEPT !.op = "resolve", !.task = t, !.result = d]
               IN /\ r \in Tx /\ r.op = "resolve" /\ r.task = t /\ r.result = d
                  /\ r.pos = x.pos
    BY DEF Tx, Ops
  <2>2. q \in Tx /\ q.op = "resolve" /\ q.task = t /\ q.result = d /\ q.pos = 1
    BY <2>1, NoTxType, NoTxFields
  <2>3. Begin(p, q)
    BY <1>2
  <2> HIDE DEF q
  <2>4. ArgumentsOK(q)
    BY <2>2 DEF ArgumentsOK, Owned, Claiming
  <2>5. q.op \in Ops \ {"reap"}
    BY <2>2 DEF Ops
  <2> QED BY <2>2, <2>3, <2>4, <2>5, BeginKeeps
<1> QED BY <1>1, <1>2 DEF BeginApproval

-----------------------------------------------------------------------------
(* What holds in every reachable state.                                    *)

\* At the start no transaction is open.
LEMMA InitPgInv == PgInit => PgInv
<1> SUFFICES ASSUME PgInit PROVE PgInv
  OBVIOUS
<1>1. TypeOK /\ RunningIffClaimed
  BY InitTypeOK, InitRunning DEF PgInit
<1>2. \A p \in Conns : tx[p] = NoTx /\ held[p] = {}
  BY DEF PgInit
<1>3. \A p \in Conns : ~ Open(p)
  BY <1>2, NoTxFields DEF Open
<1>4. Transactions
  BY <1>2, <1>3, NoTxType DEF PgInit, Transactions
<1>5. LocksExclude
  BY <1>2 DEF LocksExclude
<1> QED BY <1>1, <1>4, <1>5 DEF PgInv

\* Every step keeps the invariant and does to the rows, when it commits, what a
\* transaction of the SQLite scheduler does, and nothing before.
LEMMA PgStep ==
    ASSUME PgInv, [PgNext]_pgVars
    PROVE  PgInv' /\ RowStep /\ GoalStep
<1>1. ASSUME UNCHANGED vars PROVE RowStep /\ GoalStep
  BY <1>1 DEF vars, RowStep, KeepStep, GoalStep, KeepGoals
<1>2. ASSUME NEW p \in Conns, Commit(p) PROVE PgInv' /\ RowStep /\ GoalStep
  BY <1>2, CommitIsStep, CommitKeeps
<1>3. ASSUME NEW p \in Conns, Lock(p) \/ LockNextTask(p) \/ LockReaped(p)
      PROVE  PgInv' /\ UNCHANGED vars
  <2>1. UNCHANGED vars
    BY <1>3 DEF Lock, LockNextTask, LockReaped
  <2> QED BY <1>3, <2>1, LockKeeps, LockNextTaskKeeps, LockReapedKeeps
<1>4. ASSUME NEW p \in Conns, Rollback(p) PROVE PgInv' /\ UNCHANGED vars
  BY <1>4, RollbackKeeps DEF Rollback
<1>5. ASSUME NEW p \in Conns, NEW at \in TimesOf[p], NEW w \in WorkersOf[p],
             NEW s \in Sessions,
             \/ BeginSession(p, w, s, at)
             \/ \E t \in Tasks : BeginClaimTask(p, w, s, t, at)
      PROVE  PgInv' /\ UNCHANGED vars
  <2>1. \A q : Begin(p, q) => UNCHANGED vars
    BY DEF Begin
  <2>2. ASSUME BeginSession(p, w, s, at) PROVE UNCHANGED vars
    BY <2>1, <2>2 DEF BeginSession
  <2>3. ASSUME NEW t \in Tasks, BeginClaimTask(p, w, s, t, at)
        PROVE  UNCHANGED vars
    <3> DEFINE q == [NoTx EXCEPT !.op = "claimTask", !.worker = w, !.session = s,
                       !.task = t, !.agent = Assignments[w][TypeOf[t]], !.at = at]
    <3>1. Begin(p, q)
      BY <2>3 DEF BeginClaimTask
    <3> HIDE DEF q
    <3> QED BY <2>1, <3>1
  <2> QED BY <1>5, <2>2, <2>3, BeginSessionKeeps, BeginClaimTaskKeeps
<1>6. ASSUME NEW p \in Conns, NEW at \in TimesOf[p],
             \/ \E c \in ClaimIds : BeginOwned(p, c, at)
             \/ BeginReap(p, at)
      PROVE  PgInv' /\ UNCHANGED vars
  <2>1. \A q : Begin(p, q) => UNCHANGED vars
    BY DEF Begin
  <2>2. ASSUME NEW c \in ClaimIds, BeginOwned(p, c, at) PROVE UNCHANGED vars
    <3> DEFINE q == [NoTx EXCEPT !.worker = claims[c].worker,
                        !.session = claims[c].session, !.claim = c,
                        !.task = claims[c].task, !.agent = claims[c].agent,
                        !.at = at]
    <3>1. \/ \E o \in OpsOf[p] \cap {"renew", "release"} :
                Begin(p, [q EXCEPT !.op = o])
          \/ Begin(p, [q EXCEPT !.op = "pause"])
          \/ \E no \in 1 .. MaxAttempts, r \in Results :
                Begin(p, [q EXCEPT !.op = "commit", !.no = no, !.result = r])
      BY <2>2 DEF BeginOwned
    <3> HIDE DEF q
    <3> QED BY <2>1, <3>1, Zenon
  <2>3. BeginReap(p, at) => UNCHANGED vars
    BY DEF BeginReap
  <2>4. at \in Int
    BY ConnectionTypes
  <2> QED BY <1>6, <2>2, <2>3, <2>4, BeginOwnedKeeps, BeginReapKeeps
<1>7. ASSUME NEW p \in Conns, NEW t \in Tasks, BeginApproval(p, t)
      PROVE  PgInv' /\ UNCHANGED vars
  <2>1. UNCHANGED vars
    BY <1>7 DEF BeginApproval, Begin
  <2> QED BY <1>7, <2>1, BeginApprovalKeeps
<1>8. CASE UNCHANGED pgVars
  <2>1. UNCHANGED vars /\ tx' = tx /\ held' = held
    BY <1>8 DEF pgVars
  <2>2. TypeOK'
    BY <2>1 DEF vars, PgInv, TypeOK
  <2>3. RunningIffClaimed'
    BY <2>1 DEF vars, PgInv, RunningIffClaimed, Active, OwnsRunningTask,
                HasActiveClaim
  <2>4. Transactions'
    <3>1. /\ UNCHANGED <<goal, task, claims, attempts, approval>>
      BY <2>1 DEF vars
    <3>2. \A p \in Conns :
             /\ ArgumentsOK(tx[p]) => ArgumentsOK(tx[p])'
             /\ LocksHeld(p) => LocksHeld(p)'
      BY <2>1, <3>1 DEF ArgumentsOK, LocksHeld, ToReap
    <3>3. \A p \in Conns : ChecksHold(tx[p]) => ChecksHold(tx[p])'
      BY <2>1, <3>1 DEF ChecksHold, Active, IsNewAttempt, Reconciled, TasksOf
    <3> QED BY <2>1, <3>2, <3>3 DEF PgInv, Transactions, Open
  <2>5. LocksExclude'
    BY <2>1 DEF PgInv, LocksExclude
  <2> QED BY <1>1, <2>1, <2>2, <2>3, <2>4, <2>5 DEF PgInv
<1> QED BY <1>1, <1>2, <1>3, <1>4, <1>5, <1>6, <1>7, <1>8 DEF PgNext

\* Every transaction holds the rows that what it has checked depends on, and
\* what it has checked is true.
THEOREM PgInvariant == PgSpec => []PgInv
BY InitPgInv, PgStep, PTL DEF PgSpec

\* For any connections and any interleaving of their statements: the attempts
\* of a task and its committed claims are the same thing.
THEOREM PgEvidenceIsCommitted == PgSpec => []EvidenceIffCommitted
<1> DEFINE Inv == FencingOrder /\ EvidenceIffCommitted
<1>1. PgInit => Inv
  BY InitFencing, InitEvidence DEF PgInit
<1>2. PgInv /\ Inv /\ [PgNext]_pgVars => Inv'
  BY PgStep, RowFencing, RowEvidence DEF PgInv
<1>3. PgSpec => []Inv
  <2> HIDE DEF Inv
  <2> QED BY <1>1, <1>2, PgInvariant, PTL DEF PgSpec
<1> QED BY <1>3, PTL

\* For any connections and any interleaving of their statements: a goal has the
\* status its tasks account for, although _reconcile_goal_locked reads them in
\* one statement and writes the goal in another.
THEOREM PgGoalsReflectTasks == PgSpec => []GoalReflectsTasks
<1>1. PgInit => GoalReflectsTasks
  BY DEF PgInit, Init, GoalReflectsTasks, TasksOf
<1>2. PgInv /\ GoalReflectsTasks /\ [PgNext]_pgVars => GoalReflectsTasks'
  BY PgStep, RowGoals DEF PgInv
<1> QED BY <1>1, <1>2, PgInvariant, PTL DEF PgSpec

\* For any connections and any interleaving of their statements, the committed
\* rows promise what SQLite's do: FencedWork.
THEOREM PgImplementsFencedWork == PgSpec => SchedulerImplementsFencedWork
<1>1. PgInit => ClosedTasks /\ Fenced!Init
  BY InitClosed, InitFenced DEF PgInit
<1>2. PgInv /\ ClosedTasks /\ [PgNext]_pgVars =>
         ClosedTasks' /\ [Fenced!Next]_(Fenced!vars)
  BY PgStep, RowClosed, RowIsFenced DEF PgInv
<1> QED BY <1>1, <1>2, PgInvariant, PTL
        DEF PgSpec, SchedulerImplementsFencedWork, Fenced!Spec

-----------------------------------------------------------------------------
(* The order of the locks.                                                 *)

\* The tables from the one an operation locks first to the one it locks last.
Level == [session |-> 1, claim |-> 2, approval |-> 3, task |-> 4,
          performance |-> 5, goal |-> 6]

\* Every operation but claim_task locks its rows in that order.
LEMMA OrdersAscend ==
    ASSUME NEW op \in Ops \ {"claimTask", "reap"},
           NEW j \in 1 .. Len(LockOrder[op]), NEW i \in 1 .. j - 1
    PROVE  /\ Level[LockOrder[op][i]] \in 1 .. 6
           /\ Level[LockOrder[op][j]] \in 1 .. 6
           /\ Level[LockOrder[op][i]] < Level[LockOrder[op][j]]
           /\ LockOrder[op][i] \in DOMAIN Level
           /\ LockOrder[op][j] \in DOMAIN Level
<1>1. /\ Level["session"] = 1 /\ Level["claim"] = 2 /\ Level["approval"] = 3
      /\ Level["task"] = 4 /\ Level["performance"] = 5 /\ Level["goal"] = 6
      /\ DOMAIN Level = {"session", "claim", "approval", "task",
                         "performance", "goal"}
  BY DEF Level
<1>2. CASE op \in {"register", "heartbeat", "saveApproval"}
  BY <1>2, Orders
<1>3. CASE op = "claimNext"
  <2>1. i = 1 /\ j = 2
    BY <1>3, Orders
  <2> QED BY <1>1, <1>3, <2>1, Orders
<1>4. CASE op = "renew"
  <2>1. i = 1 /\ j = 2
    BY <1>4, Orders
  <2> QED BY <1>1, <1>4, <2>1, Orders
<1>5. CASE op = "resolve"
  <2>1. i = 1 /\ j = 2
    BY <1>5, Orders
  <2> QED BY <1>1, <1>5, <2>1, Orders
<1>6. CASE op = "release"
  <2>1. j \in {2, 3} /\ i \in {1, 2} /\ i < j
    BY <1>6, Orders
  <2> QED BY <1>1, <1>6, <2>1, Orders
<1>7. CASE op = "pause"
  <2>1. j \in {2, 3, 4, 5} /\ i \in {1, 2, 3, 4} /\ i < j
    BY <1>7, Orders
  <2> QED BY <1>1, <1>7, <2>1, Orders
<1>8. CASE op = "commit"
  <2>1. j \in {2, 3, 4, 5} /\ i \in {1, 2, 3, 4} /\ i < j
    BY <1>8, Orders
  <2> QED BY <1>1, <1>8, <2>1, Orders
<1> QED BY <1>2, <1>3, <1>4, <1>5, <1>6, <1>7, <1>8 DEF Ops

\* A transaction other than a claim_task or a reaper waits for a row above all
\* it holds; a reaper for a task, above its claims.
LEMMA WaitsAbove ==
    ASSUME PgInv, NEW p \in Conns, NEW o \in Conns, Waits(p, o),
           tx[p].op # "claimTask"
    PROVE  /\ NextRow(p) \in held[o]
           /\ Level[NextRow(p)[1]] \in 1 .. 6
           /\ tx[p].op # "reap" =>
                 \A row \in held[p] : Level[row[1]] < Level[NextRow(p)[1]]
           /\ tx[p].op = "reap" =>
                 /\ NextRow(p) = <<"task", FirstToReap(p)>>
                 /\ FirstToReap(p) \in ToReap(p) /\ FirstToReap(p) \in Tasks
                 /\ Level[NextRow(p)[1]] = 4
                 /\ \A row \in held[p] : Level[row[1]] <= 4
                 /\ \A t \in Tasks : <<"task", t>> \in held[p] =>
                       Rank[t] < Rank[FirstToReap(p)]
<1> DEFINE q == tx[p]
<1>1. /\ ArgumentsOK(q) /\ LocksHeld(p) /\ q.op \in Ops
      /\ ~ AllLocked(p) /\ NextRow(p) \in held[o]
  BY DEF Waits, Conflict, PgInv, Transactions, ArgumentsOK, Tx, Open
<1>2. Level["task"] = 4 /\ Level["claim"] = 2
  BY DEF Level
<1>3. CASE q.op = "reap"
  <2>1. ToReap(p) # {} /\ NextRow(p) = <<"task", FirstToReap(p)>>
    BY <1>3 DEF Waits, NextRow
  <2>2. FirstToReap(p) \in ToReap(p) /\ FirstToReap(p) \in Tasks
    BY <1>3, <2>1, NextToReap
  <2>3. /\ \A row \in held[p] : \/ \E c \in q.reaped : row = <<"claim", c>>
                                \/ \E t \in Tasks : row = <<"task", t>>
        /\ \A t \in Tasks : <<"task", t>> \in held[p] =>
              Rank[t] < Rank[FirstToReap(p)]
    BY <1>1, <1>3, <2>2 DEF LocksHeld
  <2> HIDE DEF q
  <2>4. \A row \in held[p] : row[1] = "claim" \/ row[1] = "task"
    BY <2>3
  <2>5. NextRow(p)[1] = "task"
    BY <2>1
  <2> QED BY <1>1, <1>2, <1>3, <2>1, <2>2, <2>3, <2>4, <2>5 DEF q
<1>4. CASE q.op # "reap"
  <2>1. Len(LockOrder[q.op]) \in Nat
    BY <1>1, Orders DEF Ops
  <2>2. q.pos \in 2 .. Len(LockOrder[q.op])
    BY <1>1, <2>1 DEF LocksHeld, LockedAt, AllLocked
  <2>3. \A k \in DOMAIN Level : RowOf(q, k)[1] = k
    BY DEF Level, RowOf
  <2>4. NextRow(p) = RowOf(q, LockOrder[q.op][q.pos])
    BY <1>4 DEF NextRow, NextKind
  <2>5. held[p] = {RowOf(q, LockOrder[q.op][i]) : i \in 1 .. q.pos - 1}
    BY <1>1, <1>4 DEF LocksHeld
  <2>6. /\ q.op \in Ops \ {"claimTask", "reap"}
        /\ q.pos \in 1 .. Len(LockOrder[q.op])
        /\ 1 \in 1 .. q.pos - 1
    BY <1>1, <1>4, <2>2
  <2>7. /\ LockOrder[q.op][q.pos] \in DOMAIN Level
        /\ Level[LockOrder[q.op][q.pos]] \in 1 .. 6
    BY <2>6, OrdersAscend
  <2>8. \A i \in 1 .. q.pos - 1 :
           /\ LockOrder[q.op][i] \in DOMAIN Level
           /\ Level[LockOrder[q.op][i]] < Level[LockOrder[q.op][q.pos]]
    BY <2>6, OrdersAscend
  <2>9. NextRow(p)[1] = LockOrder[q.op][q.pos]
    BY <2>3, <2>4, <2>7
  <2>10. ASSUME NEW row \in held[p]
         PROVE  Level[row[1]] < Level[NextRow(p)[1]]
    <3>1. PICK i \in 1 .. q.pos - 1 : row = RowOf(q, LockOrder[q.op][i])
      BY <2>5
    <3>2. row[1] = LockOrder[q.op][i]
      BY <2>3, <2>8, <3>1
    <3> QED BY <2>8, <2>9, <3>2
  <2> QED BY <1>1, <1>4, <2>7, <2>9, <2>10
<1> QED BY <1>3, <1>4

\* Of transactions that wait for each other in a circle, the one that waits at
\* the highest table waits for a reaper, and at the tasks; of the reapers, the
\* one that waits for the last task waits for nobody.
LEMMA NoCircle ==
    ASSUME PgInv, NEW D \in SUBSET Conns, D # {},
           \A p \in D : \E o \in D : Waits(p, o),
           \A p \in D : tx[p].op # "claimTask"
    PROVE  FALSE
<1>0. IsFiniteSet(D)
  BY ConnectionAssumption, FS_Subset
<1> DEFINE At(p) == Level[NextRow(p)[1]]
           at == [p \in D |-> At(p)]
<1>1. \A p \in D : At(p) \in 1 .. 6
  BY WaitsAbove
<1>2. PICK p \in D : \A o \in D : At(o) <= At(p)
  <2>1. at \in [D -> Nat]
    BY <1>1
  <2>2. \E p \in D : \A o \in D : at[o] <= at[p]
    <3> HIDE DEF at
    <3> QED BY <1>0, <2>1, LargestValue
  <2> QED BY <2>2
<1>3. ASSUME NEW r \in D, NEW o \in D, Waits(r, o), tx[o].op # "reap"
      PROVE  At(r) < At(o)
  <2>1. NextRow(r) \in held[o]
    BY <1>3, WaitsAbove
  <2>2. PICK u \in D : Waits(o, u)
    OBVIOUS
  <2>3. \A row \in held[o] : Level[row[1]] < At(o)
    BY <1>3, <2>2, WaitsAbove
  <2> QED BY <2>1, <2>3
<1>4. ASSUME NEW r \in D, tx[r].op = "reap"
      PROVE  At(r) = 4
  BY <1>4, WaitsAbove
<1> DEFINE Reapers == {r \in D : tx[r].op = "reap"}
<1>5. At(p) = 4 /\ Reapers # {}
  <2>1. PICK o \in D : Waits(p, o)
    OBVIOUS
  <2>2. tx[o].op = "reap"
    BY <1>1, <1>2, <1>3, <2>1
  <2>3. NextRow(p) \in held[o]
    BY <2>1, WaitsAbove
  <2>4. At(p) <= 4
    <3>1. PICK u \in D : Waits(o, u)
      OBVIOUS
    <3> QED BY <2>2, <2>3, <3>1, WaitsAbove
  <2> QED BY <1>1, <1>2, <1>4, <2>2, <2>4
<1> HIDE DEF At
<1> DEFINE rank == [r \in Reapers |-> Rank[FirstToReap(r)]]
<1>6. ASSUME NEW r \in Reapers
      PROVE  FirstToReap(r) \in Tasks /\ rank[r] \in Nat
  <2>1. PICK u \in D : Waits(r, u)
    OBVIOUS
  <2>2. FirstToReap(r) \in Tasks
    BY <2>1, WaitsAbove
  <2> QED BY <2>2, TopologyAssumption
<1>7. PICK r \in Reapers : \A o \in Reapers : rank[o] <= rank[r]
  <2>1. IsFiniteSet(Reapers)
    BY <1>0, FS_Subset
  <2>2. rank \in [Reapers -> Nat]
    BY <1>6
  <2> HIDE DEF rank, Reapers
  <2> QED BY <1>5, <2>1, <2>2, LargestValue
<1>8. PICK o \in D : Waits(r, o)
  OBVIOUS
<1>9. tx[o].op = "reap"
  BY <1>1, <1>2, <1>3, <1>4, <1>5, <1>8
<1>10. <<"task", FirstToReap(r)>> \in held[o] /\ FirstToReap(r) \in Tasks
  BY <1>8, WaitsAbove
<1>11. Rank[FirstToReap(r)] < Rank[FirstToReap(o)]
  <2>1. PICK u \in D : Waits(o, u)
    OBVIOUS
  <2> QED BY <1>9, <1>10, <2>1, WaitsAbove
<1>12. o \in Reapers
  BY <1>9
<1>13. rank[o] = Rank[FirstToReap(o)] /\ rank[r] = Rank[FirstToReap(r)]
  BY <1>12
<1> HIDE DEF rank, Reapers
<1> QED BY <1>6, <1>7, <1>11, <1>12, <1>13

\* For any number of connections: transactions that wait for each other in a
\* circle include a claim_task, the one operation that locks a goal before a
\* task.
THEOREM DeadlocksNeedClaimTask == PgSpec => []OnlyClaimTaskDeadlocks
<1>1. PgInv => OnlyClaimTaskDeadlocks
  BY NoCircle DEF OnlyClaimTaskDeadlocks
<1> QED BY <1>1, PgInvariant, PTL

=============================================================================
