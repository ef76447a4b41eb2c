-------------------------------- MODULE Outbox --------------------------------
(***************************************************************************)
(* The transactional outbox: the rows and their transactions               *)
(* (domain.OutboxMessage, storage.py), the dispatchers and their lease     *)
(* maintainer threads (outbox.py), and the receiver of a webhook, which is *)
(* only known to accept a call or not.                                     *)
(*                                                                         *)
(* Time is relative: a row keeps the ticks left until its lease ends and   *)
(* until it is available again, so the clock needs no bound.  A            *)
(* transaction uses a time that was read up to MaxDelay ticks earlier      *)
(* (`age'): scheduler_now() is evaluated before BEGIN IMMEDIATE waits for  *)
(* the database.                                                           *)
(***************************************************************************)
EXTENDS Integers, FiniteSets

CONSTANTS
    Keys,           \* (topic, idempotency_key) of one topic
    Rank,           \* the order (created_at, message_id)
    Dispatchers,    \* dispatcher processes
    WorkerOf,       \* the worker_id a dispatcher was given
    MaxAttempts,    \* OutboxMessage.max_attempts, per key
    Lease,          \* lease_seconds
    Retry,          \* retry_seconds
    MaxDelay,       \* bound on the age of a time when it is used
    MaxRows,        \* bound on how often a purged key is enqueued again
    Null

ASSUME OutboxAssumption ==
    /\ Rank \in [Keys -> Nat]
    /\ \A k, l \in Keys : Rank[k] = Rank[l] => k = l
    /\ MaxAttempts \in [Keys -> Nat \ {0}]
    /\ Lease \in Nat \ {0}
    /\ Retry \in Nat
    /\ MaxDelay \in Nat
    /\ MaxRows \in Nat
    /\ Null \notin Keys

VARIABLES
    row,            \* outbox_messages, by key
    disp,           \* the dispatchers
    sent,           \* handler calls made: <<key, row id, token>>
    received        \* those the receiver accepted

vars == <<row, disp, sent, received>>

Ages == 0 .. MaxDelay
Live == {"pending", "delivering"}
Terminal == {"delivered", "failed"}

\* id tells the rows of one key apart (message_id): 0 before the first.
Row == [status : {"none"} \cup Live \cup Terminal, id : 0 .. MaxRows,
        token : Nat, attempts : Nat,
        owner : {WorkerOf[d] : d \in Dispatchers} \cup {Null},
        lease : -MaxDelay .. Lease, wait : -MaxDelay .. Retry]

Dispatcher == [pc : {"down", "idle", "handler", "stop", "complete"},
               key : Keys \cup {Null}, id : 0 .. MaxRows,
               token : Nat, ok : BOOLEAN,
               maint : {"off", "on", "lost"}]

Resting(pc) == [pc |-> pc, key |-> Null, id |-> 0, token |-> 0, ok |-> FALSE,
                maint |-> "off"]

Call == Keys \X (1 .. MaxRows) \X Nat

OutboxTypeOK ==
    /\ row \in [Keys -> Row]
    /\ disp \in [Dispatchers -> Dispatcher]
    /\ sent \subseteq Call
    /\ received \subseteq sent

NoRow(id) == [status |-> "none", id |-> id, token |-> 0, attempts |-> 0,
              owner |-> Null, lease |-> 0, wait |-> 0]

Init ==
    /\ row = [k \in Keys |-> NoRow(0)]
    /\ disp = [d \in Dispatchers |-> Resting("down")]
    /\ sent = {}
    /\ received = {}

-----------------------------------------------------------------------------
(* Rows.                                                                   *)

\* claim_expires_at <= now and available_at <= now, for a time read age ago.
Lapsed(k, age) == row[k].lease <= - age
Available(k, age) == row[k].wait <= - age

\* Mistakes: a delivery is taken over before its lease ends, or never.
DueIgnoringLease(k, age) ==
    \/ row[k].status = "pending" /\ Available(k, age)
    \/ row[k].status = "delivering"

DuePendingOnly(k, age) == row[k].status = "pending" /\ Available(k, age)

\* The rows claim_outbox selects.
Due(k, age) ==
    \/ row[k].status = "pending" /\ Available(k, age)
    \/ row[k].status = "delivering" /\ Lapsed(k, age)

\* Mistake: one delivery too many.
ExhaustedLate(k) ==
    row[k].status = "delivering" /\ row[k].attempts > MaxAttempts[k]

\* ... of which these are expired instead of claimed.
Exhausted(k) ==
    row[k].status = "delivering" /\ row[k].attempts >= MaxAttempts[k]

\* Mistake: the worker_id alone is taken for the owner.
OwnsDeliveryByWorker(d, age) ==
    LET k == disp[d].key IN
    /\ row[k].status = "delivering"
    /\ row[k].owner = WorkerOf[d]
    /\ ~ Lapsed(k, age)

\* _require_delivery, for the row and token dispatcher d holds.
OwnsDelivery(d, age) ==
    LET k == disp[d].key IN
    /\ row[k].id = disp[d].id
    /\ row[k].status = "delivering"
    /\ row[k].owner = WorkerOf[d]
    /\ row[k].token = disp[d].token
    /\ ~ Lapsed(k, age)

\* _enqueue_outbox_locked: by the commit of a passing outcome.  A key that is
\* stored already stays as it is.
Enqueue(k) ==
    /\ row[k].status = "none"
    /\ row[k].id < MaxRows
    /\ row' = [row EXCEPT ![k] = [NoRow(row[k].id + 1)
                                     EXCEPT !.status = "pending"]]
    /\ UNCHANGED <<disp, sent, received>>

\* OutboxMessage.expire.
Expired(k) == [row[k] EXCEPT !.status = "failed", !.lease = 0]

\* claim_outbox: exhausted rows in front of the first claimable one fail; that
\* one gets the next token and a new lease.
ClaimOutbox(d, age) ==
    LET due == {k \in Keys : Due(k, age)}
        claimable == {k \in due : ~ Exhausted(k)}
    IN
    /\ disp[d].pc = "idle"
    /\ \E k \in claimable :
          /\ \A l \in claimable : Rank[k] <= Rank[l]
          /\ row' = [l \in Keys |->
                IF l = k
                THEN [row[k] EXCEPT !.status = "delivering",
                                    !.attempts = row[k].attempts + 1,
                                    !.token = row[k].token + 1,
                                    !.owner = WorkerOf[d],
                                    !.lease = Lease - age]
                ELSE IF l \in due /\ Rank[l] < Rank[k] THEN Expired(l)
                ELSE row[l]]
          /\ disp' = [disp EXCEPT ![d] =
                [pc |-> "handler", key |-> k, id |-> row[k].id,
                 token |-> row[k].token + 1, ok |-> FALSE, maint |-> "on"]]
    /\ UNCHANGED <<sent, received>>

\* claim_outbox finds only exhausted rows: all of them fail, nothing is claimed.
ExpireExhausted(d, age) ==
    LET due == {k \in Keys : Due(k, age)} IN
    /\ disp[d].pc = "idle"
    /\ due # {}
    /\ \A k \in due : Exhausted(k)
    /\ row' = [k \in Keys |-> IF k \in due THEN Expired(k) ELSE row[k]]
    /\ UNCHANGED <<disp, sent, received>>

\* purge_outbox: terminal rows that are old enough for the operator, as many as
\* the operator's limit.
Purge ==
    /\ \E old \in SUBSET {k \in Keys : row[k].status \in Terminal} :
          /\ old # {}
          /\ row' = [k \in Keys |-> IF k \in old THEN NoRow(row[k].id)
                                    ELSE row[k]]
    /\ UNCHANGED <<disp, sent, received>>

-----------------------------------------------------------------------------
(* Dispatchers.                                                            *)

Start(d) ==
    /\ disp[d].pc = "down"
    /\ disp' = [disp EXCEPT ![d] = Resting("idle")]
    /\ UNCHANGED <<row, sent, received>>

\* The handler posts the message: it is accepted or not, and the dispatcher
\* learns of an acceptance unless the answer is lost or comes too late.
Handle(d) ==
    LET call == <<disp[d].key, disp[d].id, disp[d].token>> IN
    /\ disp[d].pc = "handler"
    /\ sent' = sent \cup {call}
    /\ \/ received' = received
       \/ received' = received \cup {call}
    /\ \E ok \in BOOLEAN :
          /\ ok => received' = received \cup {call}
          /\ disp' = [disp EXCEPT ![d].pc = "stop", ![d].ok = ok]
    /\ UNCHANGED row

\* maintainer.stop, then maintainer.lost: RETRY without touching the row.
StopMaintainer(d) ==
    /\ disp[d].pc = "stop"
    /\ disp' = [disp EXCEPT ![d] =
          IF disp[d].maint = "lost" THEN Resting("idle")
          ELSE [@ EXCEPT !.pc = "complete", !.maint = "off"]]
    /\ UNCHANGED <<row, sent, received>>

\* OutboxMessage.deliver and OutboxMessage.fail.
Delivered(k) == [row[k] EXCEPT !.status = "delivered", !.lease = 0]
FailedOnce(k, age) ==
    [row[k] EXCEPT !.status = IF row[k].attempts >= MaxAttempts[k]
                              THEN "failed" ELSE "pending",
                   !.owner = Null, !.lease = 0, !.wait = Retry - age]

\* complete_outbox by the owner ...
Complete(d, age) ==
    LET k == disp[d].key IN
    /\ disp[d].pc = "complete"
    /\ OwnsDelivery(d, age)
    /\ row' = [row EXCEPT ![k] = IF disp[d].ok THEN Delivered(k)
                                 ELSE FailedOnce(k, age)]
    /\ disp' = [disp EXCEPT ![d] = Resting("idle")]
    /\ UNCHANGED <<sent, received>>

\* ... and by anyone else: ValueError, which ends run and the process.
CompleteStale(d, age) ==
    /\ disp[d].pc = "complete"
    /\ ~ OwnsDelivery(d, age)
    /\ disp' = [disp EXCEPT ![d] = Resting("down")]
    /\ UNCHANGED <<row, sent, received>>

\* _OutboxLeaseMaintainer._run: renew_outbox until told to stop; a refused
\* renewal or a database error ends the thread and marks the lease lost.
Renew(d, age) ==
    /\ disp[d].pc = "handler"
    /\ disp[d].maint = "on"
    /\ OwnsDelivery(d, age)
    /\ row' = [row EXCEPT ![disp[d].key].lease = Lease - age]
    /\ UNCHANGED <<disp, sent, received>>

LoseLease(d) ==
    /\ disp[d].pc = "handler"
    /\ disp[d].maint = "on"
    /\ disp' = [disp EXCEPT ![d].maint = "lost"]
    /\ UNCHANGED <<row, sent, received>>

Crash(d) ==
    /\ disp[d].pc # "down"
    /\ disp' = [disp EXCEPT ![d] = Resting("down")]
    /\ UNCHANGED <<row, sent, received>>

\* One second passes.
Later(ticks) == IF ticks > - MaxDelay THEN ticks - 1 ELSE ticks

Tick ==
    /\ row' = [k \in Keys |->
          CASE row[k].status = "delivering" ->
                  [row[k] EXCEPT !.lease = Later(row[k].lease)]
            [] row[k].status = "pending" ->
                  [row[k] EXCEPT !.wait = Later(row[k].wait)]
            [] OTHER -> row[k]]
    /\ UNCHANGED <<disp, sent, received>>

DispatcherStep(d) ==
    \/ \E age \in Ages : \/ ClaimOutbox(d, age)
                         \/ ExpireExhausted(d, age)
                         \/ Complete(d, age)
                         \/ CompleteStale(d, age)
    \/ Handle(d)
    \/ StopMaintainer(d)

Next ==
    \/ \E k \in Keys : Enqueue(k)
    \/ Purge
    \/ \E d \in Dispatchers :
          \/ DispatcherStep(d)
          \/ \E age \in Ages : Renew(d, age)
          \/ LoseLease(d)
          \/ Start(d)
          \/ Crash(d)
    \/ Tick

Spec == Init /\ [][Next]_vars

\* Time passes, and a running dispatcher runs; the handler returns because the
\* webhook call has a wall-clock deadline.  Nothing is assumed of starts,
\* crashes, renewals, the operator or the receiver.
FairSpec ==
    /\ Spec
    /\ WF_vars(Tick)
    /\ \A d \in Dispatchers : WF_vars(DispatcherStep(d))

-----------------------------------------------------------------------------
(* Properties.                                                             *)

\* A row is marked delivered only if the receiver accepted the very call that
\* was made under the row's last token: never on the word of a dispatcher
\* whose delivery was taken over, and never across a purge.
DeliveredWasReceived ==
    \A k \in Keys : row[k].status = "delivered" =>
       <<k, row[k].id, row[k].token>> \in received

\* Deliveries of a message are bounded by max_attempts, a message fails only
\* when they are used up, and one that waits always has one left.
DeliveriesBounded ==
    \A k \in Keys :
       /\ row[k].status = "failed" => row[k].attempts = MaxAttempts[k]
       /\ row[k].status = "pending" => row[k].attempts < MaxAttempts[k]
       /\ row[k].status # "none" =>
             Cardinality({c \in sent : c[1] = k /\ c[2] = row[k].id})
                <= row[k].attempts

\* Terminal evidence stays until it is purged, tokens only grow, and a delivery
\* that was handed out is only taken over after its lease ran out (in the
\* time the new dispatcher read).
RowHistory ==
    [][\A k \in Keys :
          /\ row[k].status \in Terminal =>
                row'[k] = row[k] \/ row'[k] = NoRow(row[k].id)
          /\ row[k].status \in Live =>
                /\ row'[k].token >= row[k].token
                /\ row[k].status = "delivering" /\ row'[k].token # row[k].token
                   => row[k].lease <= 0]_vars

\* Every message is eventually delivered or failed, as long as some dispatcher
\* of the topic eventually stays up: crashes, lost leases, lost answers and
\* refused calls only use up its attempts.
MessagesSettle ==
    \/ \A d \in Dispatchers : []<>(disp[d].pc = "down")
    \/ \A k \in Keys : row[k].status \in Live ~> row[k].status \notin Live

=============================================================================
