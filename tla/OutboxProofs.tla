----------------------------- MODULE OutboxProofs -----------------------------
(***************************************************************************)
(* The outbox for any number of keys, dispatchers, attempts and purges:    *)
(* what a delivered row vouches for, how often a message is delivered, and *)
(* how a row may change.                                                   *)
(***************************************************************************)
EXTENDS Outbox, FiniteSetTheorems, TLAPS

Active == {"handler", "stop", "complete"}

\* A row that exists has a number of its own; tokens count its deliveries.
RowFits(k) ==
    /\ row[k].status # "none" => row[k].id >= 1
    /\ row[k].token = row[k].attempts
    /\ row[k].attempts <= MaxAttempts[k]
    /\ row[k].status = "pending" => row[k].attempts < MaxAttempts[k]
    /\ row[k].status = "failed" => row[k].attempts = MaxAttempts[k]
    /\ row[k].status = "delivered" => <<k, row[k].id, row[k].token>> \in received

\* A call is one of the deliveries of its row in rows, if that is still there.
Handed(k, id, token, rows) ==
    /\ k \in Keys /\ id \in 1 .. MaxRows /\ token \in Nat
    /\ id <= rows[k].id
    /\ id = rows[k].id /\ rows[k].status # "none" => token \in 1 .. rows[k].attempts

\* A dispatcher at work has such a delivery, and knows of an acceptance only
\* what the receiver saw.
DispatcherFits(d) ==
    disp[d].pc \in Active =>
       /\ Handed(disp[d].key, disp[d].id, disp[d].token, row)
       /\ disp[d].pc # "handler" /\ disp[d].ok =>
             <<disp[d].key, disp[d].id, disp[d].token>> \in received

OInv ==
    /\ OutboxTypeOK
    /\ \A k \in Keys : RowFits(k)
    /\ \A d \in Dispatchers : DispatcherFits(d)
    /\ \A c \in sent : Handed(c[1], c[2], c[3], row)

-----------------------------------------------------------------------------

\* How a step may change one row: it stays, is enqueued or purged, is claimed,
\* fails, or ends or waits after a delivery, or time passes.
RowMoves(k) ==
    /\ row'[k] \in Row
    /\ \/ /\ row'[k].status = row[k].status /\ row'[k].id = row[k].id
          /\ row'[k].token = row[k].token /\ row'[k].attempts = row[k].attempts
          /\ row[k].status \in Terminal => row'[k] = row[k]
       \/ /\ row[k].status = "none" /\ row'[k].status = "pending"
          /\ row'[k].id = row[k].id + 1
          /\ row'[k].token = 0 /\ row'[k].attempts = 0
       \/ /\ row[k].status \in Terminal /\ row'[k] = NoRow(row[k].id)
       \/ /\ row[k].status \in Live /\ row'[k].status = "delivering"
          /\ row[k].attempts < MaxAttempts[k]
          /\ row'[k].id = row[k].id
          /\ row'[k].token = row[k].token + 1
          /\ row'[k].attempts = row[k].attempts + 1
          /\ row[k].status = "delivering" => row[k].lease <= 0
       \/ /\ row[k].status = "delivering" /\ row'[k].status \in {"failed", "pending", "delivered"}
          /\ row'[k].id = row[k].id
          /\ row'[k].token = row[k].token /\ row'[k].attempts = row[k].attempts
          /\ row'[k].status = "failed" => row[k].attempts >= MaxAttempts[k]
          /\ row'[k].status = "pending" => row[k].attempts < MaxAttempts[k]
          /\ row'[k].status = "delivered" =>
                <<k, row[k].id, row[k].token>> \in received

LEMMA Assumed ==
    /\ \A k \in Keys : MaxAttempts[k] \in Nat \ {0}
    /\ Lease \in Nat \ {0} /\ Retry \in Nat /\ MaxDelay \in Nat /\ MaxRows \in Nat
    /\ \A age \in Ages : age \in 0 .. MaxDelay /\ Lease - age \in -MaxDelay .. Lease
                         /\ Retry - age \in -MaxDelay .. Retry
    /\ 0 \in -MaxDelay .. Lease /\ 0 \in -MaxDelay .. Retry
BY OutboxAssumption DEF Ages

LEMMA NoRowType ==
    ASSUME NEW id \in 0 .. MaxRows
    PROVE  /\ NoRow(id) \in Row /\ NoRow(id).status = "none" /\ NoRow(id).id = id
           /\ NoRow(id).token = 0 /\ NoRow(id).attempts = 0
BY Assumed DEF NoRow, Row

LEMMA SameRow ==
    ASSUME OInv, NEW k \in Keys, row'[k] = row[k]
    PROVE  RowMoves(k)
BY DEF OInv, OutboxTypeOK, RowMoves

LEMMA ExpiredMoves ==
    ASSUME OInv, NEW k \in Keys, row'[k] = Expired(k), Exhausted(k)
    PROVE  RowMoves(k)
<1>1. row[k] \in Row /\ row[k].status = "delivering"
  BY DEF OInv, OutboxTypeOK, Exhausted
<1>2. Expired(k) \in Row
  BY <1>1, Assumed DEF Expired, Row, Terminal
<1>3. /\ Expired(k).status = "failed" /\ Expired(k).id = row[k].id
      /\ Expired(k).token = row[k].token /\ Expired(k).attempts = row[k].attempts
  BY <1>1 DEF Expired, Row
<1>4. row[k].attempts >= MaxAttempts[k]
  BY DEF Exhausted
<1> QED BY <1>1, <1>2, <1>3, <1>4 DEF RowMoves

LEMMA EnqueueMoves ==
    ASSUME OInv, NEW k \in Keys, Enqueue(k)
    PROVE  \A l \in Keys : RowMoves(l)
<1>0. row \in [Keys -> Row]
  BY DEF OInv, OutboxTypeOK
<1> DEFINE r == [NoRow(row[k].id + 1) EXCEPT !.status = "pending"]
<1>1. row[k].id + 1 \in 0 .. MaxRows
  BY <1>0, Assumed DEF Enqueue, Row
<1>2. /\ r \in Row /\ r.status = "pending" /\ r.id = row[k].id + 1
      /\ r.token = 0 /\ r.attempts = 0
  BY <1>1, NoRowType DEF NoRow, Row, Live
<1>3. row' = [row EXCEPT ![k] = r] /\ row[k].status = "none"
  BY DEF Enqueue
<1> HIDE DEF r
<1>4. row'[k] = r /\ \A l \in Keys \ {k} : row'[l] = row[l]
  BY <1>0, <1>3
<1>5. RowMoves(k)
  BY <1>2, <1>3, <1>4 DEF RowMoves
<1> QED BY <1>4, <1>5, SameRow

LEMMA PurgeMoves ==
    ASSUME OInv, Purge
    PROVE  \A l \in Keys : RowMoves(l)
<1>0. row \in [Keys -> Row]
  BY DEF OInv, OutboxTypeOK
<1>1. ASSUME NEW k \in Keys
      PROVE  RowMoves(k)
  <2>1. row'[k] = row[k] \/ (row[k].status \in Terminal /\ row'[k] = NoRow(row[k].id))
    BY DEF Purge
  <2>2. NoRow(row[k].id) \in Row
    BY <1>0, NoRowType DEF Row
  <2> QED BY <2>1, <2>2, SameRow DEF RowMoves
<1> QED BY <1>1

LEMMA ClaimMoves ==
    ASSUME OInv, NEW d \in Dispatchers, NEW age \in Ages,
           ClaimOutbox(d, age) \/ ExpireExhausted(d, age)
    PROVE  \A l \in Keys : RowMoves(l)
<1>0. row \in [Keys -> Row] /\ age \in 0 .. MaxDelay
  BY Assumed DEF OInv, OutboxTypeOK
<1>1. CASE ExpireExhausted(d, age)
  BY <1>1, SameRow, ExpiredMoves DEF ExpireExhausted
<1>2. CASE ClaimOutbox(d, age)
  <2> DEFINE claimed(k) == [row[k] EXCEPT !.status = "delivering",
                                    !.attempts = row[k].attempts + 1,
                                    !.token = row[k].token + 1,
                                    !.owner = WorkerOf[d],
                                    !.lease = Lease - age]
             due == {k \in Keys : Due(k, age)}
  <2>1. PICK k \in Keys :
           /\ Due(k, age) /\ ~ Exhausted(k)
           /\ \A l \in Keys : Due(l, age) /\ ~ Exhausted(l) => Rank[k] <= Rank[l]
           /\ row' = [l \in Keys |-> IF l = k THEN claimed(k)
                                     ELSE IF l \in due /\ Rank[l] < Rank[k] THEN Expired(l)
                                     ELSE row[l]]
    BY <1>2 DEF ClaimOutbox
  <2>2. /\ row[k] \in Row /\ row[k].status \in Live
        /\ row[k].status = "delivering" => row[k].lease <= 0
        /\ row[k].attempts < MaxAttempts[k]
    <3>1. row[k] \in Row
      BY <1>0
    <3>2. row[k].status \in Live /\ (row[k].status = "delivering" => row[k].lease <= - age)
      BY <2>1 DEF Due, Lapsed, Live
    <3>3. row[k].lease \in Int /\ row[k].attempts \in Nat
      BY <3>1, Assumed DEF Row
    <3>4. row[k].attempts < MaxAttempts[k]
      <4>1. RowFits(k) /\ MaxAttempts[k] \in Nat
        BY Assumed DEF OInv
      <4>2. row[k].status \in {"pending", "delivering"} /\ ~ Exhausted(k)
        BY <2>1, <3>2 DEF Live
      <4> QED BY <3>3, <4>1, <4>2 DEF Exhausted, RowFits
    <3> QED BY <1>0, <3>1, <3>2, <3>3, <3>4
  <2>3. RowMoves(k)
    <3>1. claimed(k) \in Row
      <4> DEFINE n == row[k].attempts + 1
                 m == row[k].token + 1
                 left == Lease - age
      <4>1. n \in Nat /\ m \in Nat /\ left \in -MaxDelay .. Lease
        BY <2>2, Assumed DEF Row
      <4> HIDE DEF n, m, left
      <4>2. [row[k] EXCEPT !.status = "delivering", !.attempts = n, !.token = m,
                           !.owner = WorkerOf[d], !.lease = left] \in Row
        BY <2>2, <4>1 DEF Row, Live
      <4> QED BY <4>2 DEF n, m, left
    <3>2. /\ claimed(k).status = "delivering" /\ claimed(k).id = row[k].id
          /\ claimed(k).token = row[k].token + 1
          /\ claimed(k).attempts = row[k].attempts + 1
      BY <2>2 DEF Row
    <3> HIDE DEF claimed
    <3> QED BY <2>1, <2>2, <3>1, <3>2 DEF RowMoves
  <2>4. ASSUME NEW l \in Keys, l # k
        PROVE  RowMoves(l)
    <3>1. CASE row'[l] = row[l]
      BY <3>1, SameRow
    <3>2. CASE l \in due /\ Rank[l] < Rank[k] /\ row'[l] = Expired(l)
      <4>1. Rank[l] \in Nat /\ Rank[k] \in Nat
        BY OutboxAssumption
      <4>2. Exhausted(l)
        BY <2>1, <3>2, <4>1
      <4> QED BY <3>2, <4>2, ExpiredMoves
    <3> QED BY <2>1, <2>4, <3>1, <3>2
  <2> QED BY <2>3, <2>4
<1> QED BY <1>1, <1>2

LEMMA CompleteMoves ==
    ASSUME OInv, NEW d \in Dispatchers, NEW age \in Ages, Complete(d, age)
    PROVE  \A l \in Keys : RowMoves(l)
<1> DEFINE k == disp[d].key
           r == IF disp[d].ok THEN Delivered(k) ELSE FailedOnce(k, age)
<1>0. /\ row \in [Keys -> Row] /\ k \in Keys /\ row[k] \in Row
      /\ row[k].status = "delivering"
      /\ disp[d].ok => <<k, row[k].id, row[k].token>> \in received
  BY DEF Complete, OwnsDelivery, OInv, OutboxTypeOK, DispatcherFits, Active, Handed
<1>1. row' = [row EXCEPT ![k] = r]
  BY DEF Complete
<1>2. row[k].attempts \in Nat /\ MaxAttempts[k] \in Nat
  BY <1>0, Assumed DEF Row
<1>3. RowMoves(k)
  <2>1. CASE disp[d].ok
    <3>1. /\ Delivered(k) \in Row /\ Delivered(k).status = "delivered"
          /\ Delivered(k).id = row[k].id /\ Delivered(k).token = row[k].token
          /\ Delivered(k).attempts = row[k].attempts
      BY <1>0, Assumed DEF Delivered, Row, Terminal
    <3> QED BY <1>0, <1>1, <2>1, <3>1 DEF RowMoves
  <2>2. CASE ~ disp[d].ok
    <3> DEFINE s == IF row[k].attempts >= MaxAttempts[k] THEN "failed" ELSE "pending"
    <3>1. /\ FailedOnce(k, age) \in Row /\ FailedOnce(k, age).status = s
          /\ FailedOnce(k, age).id = row[k].id /\ FailedOnce(k, age).token = row[k].token
          /\ FailedOnce(k, age).attempts = row[k].attempts
      BY <1>0, Assumed DEF FailedOnce, Row, Terminal, Live
    <3>2. row'[k] = FailedOnce(k, age)
      BY <1>0, <1>1, <2>2
    <3> QED BY <1>0, <1>2, <3>1, <3>2 DEF RowMoves
  <2> QED BY <2>1, <2>2
<1> QED BY <1>0, <1>1, <1>3, SameRow

LEMMA RenewMoves ==
    ASSUME OInv, NEW d \in Dispatchers, NEW age \in Ages, Renew(d, age)
    PROVE  \A l \in Keys : RowMoves(l)
<1> DEFINE k == disp[d].key
           r == [row[k] EXCEPT !.lease = Lease - age]
<1>0. row \in [Keys -> Row] /\ k \in Keys /\ row[k] \in Row /\ row[k].status = "delivering"
  BY DEF Renew, OwnsDelivery, OInv, OutboxTypeOK, DispatcherFits, Active, Handed
<1>1. row' = [row EXCEPT ![k] = r]
  BY DEF Renew
<1>2. /\ r \in Row /\ r.status = row[k].status /\ r.id = row[k].id
      /\ r.token = row[k].token /\ r.attempts = row[k].attempts
  BY <1>0, Assumed DEF Row
<1> HIDE DEF r
<1>3. RowMoves(k)
  BY <1>0, <1>1, <1>2 DEF RowMoves, Terminal
<1> QED BY <1>0, <1>1, <1>3, SameRow

LEMMA TickMoves ==
    ASSUME OInv, Tick
    PROVE  \A l \in Keys : RowMoves(l)
<1> SUFFICES ASSUME NEW k \in Keys
             PROVE  RowMoves(k)
  OBVIOUS
<1>0. row[k] \in Row
  BY DEF OInv, OutboxTypeOK
<1>1. Later(row[k].lease) \in -MaxDelay .. Lease /\ Later(row[k].wait) \in -MaxDelay .. Retry
  BY <1>0, Assumed DEF Later, Row
<1>2. CASE row[k].status = "delivering" /\ row'[k] = [row[k] EXCEPT !.lease = Later(row[k].lease)]
  BY <1>0, <1>1, <1>2 DEF RowMoves, Row, Terminal
<1>3. CASE row[k].status = "pending" /\ row'[k] = [row[k] EXCEPT !.wait = Later(row[k].wait)]
  BY <1>0, <1>1, <1>3 DEF RowMoves, Row, Terminal
<1>4. CASE row'[k] = row[k]
  BY <1>4, SameRow
<1> QED BY <1>2, <1>3, <1>4 DEF Tick

LEMMA RowsMove ==
    ASSUME OInv, [Next]_vars
    PROVE  \A k \in Keys : RowMoves(k)
<1>1. ASSUME NEW d \in Dispatchers,
             \/ Handle(d) \/ StopMaintainer(d) \/ LoseLease(d) \/ Start(d) \/ Crash(d)
             \/ \E age \in Ages : CompleteStale(d, age)
      PROVE  \A k \in Keys : RowMoves(k)
  BY <1>1, SameRow
     DEF Handle, StopMaintainer, LoseLease, Start, Crash, CompleteStale
<1>2. CASE UNCHANGED vars
  BY <1>2, SameRow DEF vars
<1>3. CASE Next
  BY <1>1, <1>3, EnqueueMoves, PurgeMoves, ClaimMoves, CompleteMoves, RenewMoves,
     TickMoves DEF Next, DispatcherStep
<1> QED BY <1>2, <1>3

-----------------------------------------------------------------------------
(* What the moves of a row keep.                                           *)

\* A delivery that was handed out stays one, or its row is gone.
LEMMA HandedStays ==
    ASSUME OInv, NEW k, NEW id, NEW token, Handed(k, id, token, row),
           \A l \in Keys : RowMoves(l)
    PROVE  Handed(k, id, token, row')
<1>1. k \in Keys /\ row[k] \in Row /\ RowMoves(k) /\ row'[k] \in Row
  BY DEF Handed, OInv, OutboxTypeOK, RowMoves
<1>2. row[k].id \in Nat /\ row'[k].id \in Nat /\ row[k].attempts \in Nat
      /\ id \in Nat /\ id <= row[k].id
  BY <1>1, Assumed DEF Row, Handed
<1>3. CASE row'[k].id = row[k].id + 1
  BY <1>1, <1>2, <1>3 DEF Handed
<1>4. CASE row'[k].id = row[k].id /\ row'[k].status = "none"
  BY <1>1, <1>2, <1>4 DEF Handed
<1>5. CASE /\ row'[k].id = row[k].id /\ row[k].status # "none"
           /\ row'[k].attempts \in {row[k].attempts, row[k].attempts + 1}
  BY <1>1, <1>2, <1>5 DEF Handed
<1>6. row[k].status \in Live => row[k].status # "none"
  BY DEF Live
<1>7. row[k].status \in Terminal =>
         NoRow(row[k].id).id = row[k].id /\ NoRow(row[k].id).status = "none"
  BY <1>1, NoRowType DEF Row
<1> QED BY <1>1, <1>3, <1>4, <1>5, <1>6, <1>7 DEF RowMoves

LEMMA RowStaysFit ==
    ASSUME OInv, NEW k \in Keys, RowMoves(k), received \subseteq received'
    PROVE  RowFits(k)'
<1>1. /\ row[k] \in Row /\ row'[k] \in Row /\ RowFits(k) /\ MaxAttempts[k] \in Nat \ {0}
  BY Assumed DEF OInv, OutboxTypeOK, RowMoves
<1>2. /\ row[k].id \in Nat /\ row[k].attempts \in Nat /\ row[k].token \in Nat
      /\ NoRow(row[k].id).status = "none" /\ NoRow(row[k].id).token = 0
      /\ NoRow(row[k].id).attempts = 0
  BY <1>1, NoRowType, Assumed DEF Row
<1>3. row[k].status \in Live => row[k].status # "none"
  BY DEF Live
<1> QED BY <1>1, <1>2, <1>3 DEF RowMoves, RowFits

LEMMA DispatcherStays ==
    ASSUME OInv, NEW d \in Dispatchers, disp'[d] = disp[d],
           \A l \in Keys : RowMoves(l), received \subseteq received'
    PROVE  DispatcherFits(d)'
<1>1. DispatcherFits(d)
  BY DEF OInv
<1>2. disp[d].pc \in Active => Handed(disp[d].key, disp[d].id, disp[d].token, row')
  BY <1>1, HandedStays DEF DispatcherFits
<1> QED BY <1>1, <1>2 DEF DispatcherFits

\* A dispatcher's step: it goes on with its delivery, takes a new one, or rests.
LEMMA DispatcherMoves ==
    ASSUME OInv, NEW d \in Dispatchers, NEW r \in Dispatcher,
           disp' = [disp EXCEPT ![d] = r],
           \A l \in Keys : RowMoves(l), received \subseteq received',
           r.pc \in Active =>
              /\ Handed(r.key, r.id, r.token, row')
              /\ r.pc # "handler" /\ r.ok => <<r.key, r.id, r.token>> \in received'
    PROVE  disp' \in [Dispatchers -> Dispatcher] /\ \A e \in Dispatchers : DispatcherFits(e)'
<1>1. disp \in [Dispatchers -> Dispatcher]
  BY DEF OInv, OutboxTypeOK
<1>2. disp'[d] = r /\ \A e \in Dispatchers \ {d} : disp'[e] = disp[e]
  BY <1>1
<1>3. DispatcherFits(d)'
  BY <1>2 DEF DispatcherFits
<1>4. disp' \in [Dispatchers -> Dispatcher]
  BY <1>1
<1> QED BY <1>2, <1>3, <1>4, DispatcherStays

LEMMA Rests ==
    ASSUME OInv, NEW d \in Dispatchers, NEW pc \in {"down", "idle"},
           disp' = [disp EXCEPT ![d] = Resting(pc)],
           \A l \in Keys : RowMoves(l), received \subseteq received'
    PROVE  disp' \in [Dispatchers -> Dispatcher] /\ \A e \in Dispatchers : DispatcherFits(e)'
<1>1. Resting(pc) \in Dispatcher /\ Resting(pc).pc \notin Active
  BY Assumed DEF Resting, Dispatcher, Active
<1> QED BY <1>1, DispatcherMoves

\* Every step keeps the dispatchers and the calls.
Calls ==
    /\ disp' \in [Dispatchers -> Dispatcher]
    /\ \A d \in Dispatchers : DispatcherFits(d)'
    /\ sent' \subseteq Call /\ received' \subseteq sent'
    /\ received \subseteq received'
    /\ \A c \in sent' : Handed(c[1], c[2], c[3], row')

LEMMA SameCalls ==
    ASSUME OInv, UNCHANGED <<sent, received>>, \A l \in Keys : RowMoves(l)
    PROVE  /\ sent' \subseteq Call /\ received' \subseteq sent'
           /\ received \subseteq received'
           /\ \A c \in sent' : Handed(c[1], c[2], c[3], row')
BY HandedStays DEF OInv, OutboxTypeOK

LEMMA ClaimCalls ==
    ASSUME OInv, NEW d \in Dispatchers, NEW age \in Ages, ClaimOutbox(d, age),
           \A l \in Keys : RowMoves(l)
    PROVE  Calls
<1>0. row \in [Keys -> Row] /\ \A k \in Keys : RowFits(k)
  BY DEF OInv, OutboxTypeOK
<1>1. PICK k \in Keys :
         /\ Due(k, age)
         /\ row'[k].attempts = row[k].attempts + 1 /\ row'[k].id = row[k].id
         /\ disp' = [disp EXCEPT ![d] =
                [pc |-> "handler", key |-> k, id |-> row[k].id,
                 token |-> row[k].token + 1, ok |-> FALSE, maint |-> "on"]]
  <2>1. PICK k \in Keys :
           /\ Due(k, age)
           /\ row'[k] = [row[k] EXCEPT !.status = "delivering",
                                    !.attempts = row[k].attempts + 1,
                                    !.token = row[k].token + 1,
                                    !.owner = WorkerOf[d],
                                    !.lease = Lease - age]
           /\ disp' = [disp EXCEPT ![d] =
                [pc |-> "handler", key |-> k, id |-> row[k].id,
                 token |-> row[k].token + 1, ok |-> FALSE, maint |-> "on"]]
    BY DEF ClaimOutbox
  <2>2. row[k] \in Row
    BY <1>0
  <2>3. row'[k].attempts = row[k].attempts + 1 /\ row'[k].id = row[k].id
    BY <2>1, <2>2 DEF Row
  <2> QED BY <2>1, <2>3
<1> DEFINE id == row[k].id
           token == row[k].token + 1
<1>2. /\ id \in 1 .. MaxRows /\ id \in 0 .. MaxRows /\ token \in Nat
      /\ row[k].attempts \in Nat /\ token = row[k].attempts + 1
  <2>1. row[k] \in Row /\ RowFits(k) /\ row[k].status # "none"
    BY <1>0, <1>1 DEF Due
  <2> QED BY <2>1, Assumed DEF Row, RowFits
<1>3. Handed(k, id, token, row')
  BY <1>1, <1>2 DEF Handed
<1> HIDE DEF id, token
<1> DEFINE r == [pc |-> "handler", key |-> k, id |-> id, token |-> token, ok |-> FALSE,
                 maint |-> "on"]
<1>4. r \in Dispatcher
  BY <1>2 DEF Dispatcher
<1>5. disp' = [disp EXCEPT ![d] = r]
  BY <1>1 DEF id, token
<1>6. UNCHANGED <<sent, received>>
  BY DEF ClaimOutbox
<1>7. disp' \in [Dispatchers -> Dispatcher] /\ \A e \in Dispatchers : DispatcherFits(e)'
  BY <1>3, <1>4, <1>5, <1>6, DispatcherMoves
<1> QED BY <1>6, <1>7, SameCalls DEF Calls

LEMMA HandleCalls ==
    ASSUME OInv, NEW d \in Dispatchers, Handle(d), \A l \in Keys : RowMoves(l)
    PROVE  Calls
<1> DEFINE q == disp[d]
           call == <<q.key, q.id, q.token>>
<1>0. /\ q \in Dispatcher /\ q.pc = "handler"
      /\ Handed(q.key, q.id, q.token, row) /\ Handed(q.key, q.id, q.token, row')
  BY HandedStays DEF OInv, OutboxTypeOK, Handle, DispatcherFits, Active
<1>1. PICK ok \in BOOLEAN :
         /\ sent' = sent \cup {call}
         /\ received' \in {received, received \cup {call}}
         /\ ok => received' = received \cup {call}
         /\ disp' = [disp EXCEPT ![d] = [q EXCEPT !.pc = "stop", !.ok = ok]]
  BY DEF Handle
<1> DEFINE r == [q EXCEPT !.pc = "stop", !.ok = ok]
<1>2. /\ r \in Dispatcher /\ r.pc = "stop" /\ r.ok = ok
      /\ r.key = q.key /\ r.id = q.id /\ r.token = q.token
  BY <1>0 DEF Dispatcher
<1>3. received \subseteq received' /\ (ok => call \in received')
  BY <1>1
<1>4. call \in Call
  BY <1>0 DEF Handed, Call
<1>5. sent' \subseteq Call /\ received' \subseteq sent'
  BY <1>1, <1>4 DEF OInv, OutboxTypeOK
<1>6. \A c \in sent' : Handed(c[1], c[2], c[3], row')
  <2>1. \A c \in sent : Handed(c[1], c[2], c[3], row')
    BY HandedStays DEF OInv
  <2> QED BY <1>0, <1>1, <2>1
<1> HIDE DEF r
<1>7. disp' \in [Dispatchers -> Dispatcher] /\ \A e \in Dispatchers : DispatcherFits(e)'
  BY <1>0, <1>1, <1>2, <1>3, DispatcherMoves DEF r
<1> QED BY <1>3, <1>5, <1>6, <1>7 DEF Calls

LEMMA OtherCalls ==
    ASSUME OInv, NEW d \in Dispatchers, \A l \in Keys : RowMoves(l),
           \/ StopMaintainer(d) \/ LoseLease(d) \/ Start(d) \/ Crash(d)
           \/ \E age \in Ages : Complete(d, age) \/ CompleteStale(d, age)
    PROVE  Calls
<1> DEFINE q == disp[d]
<1>0. /\ q \in Dispatcher /\ UNCHANGED <<sent, received>>
      /\ q.pc \in Active => Handed(q.key, q.id, q.token, row')
      /\ q.pc \in Active /\ q.pc # "handler" /\ q.ok => <<q.key, q.id, q.token>> \in received'
  BY HandedStays DEF OInv, OutboxTypeOK, DispatcherFits, StopMaintainer, LoseLease,
                     Start, Crash, Complete, CompleteStale
<1>1. CASE \E pc \in {"down", "idle"} : disp' = [disp EXCEPT ![d] = Resting(pc)]
  BY <1>0, <1>1, Rests, SameCalls DEF Calls
<1>2. ASSUME NEW pc \in {"handler", "complete"}, NEW m \in {"off", "on", "lost"},
             disp' = [disp EXCEPT ![d] = [q EXCEPT !.pc = pc, !.maint = m]],
             q.pc \in Active, pc = "complete" => q.pc = "stop"
      PROVE  Calls
  <2> DEFINE r == [q EXCEPT !.pc = pc, !.maint = m]
  <2>1. /\ r \in Dispatcher /\ r.pc = pc /\ r.ok = q.ok
        /\ r.key = q.key /\ r.id = q.id /\ r.token = q.token
    BY <1>0 DEF Dispatcher
  <2> HIDE DEF r
  <2>2. disp' \in [Dispatchers -> Dispatcher] /\ \A e \in Dispatchers : DispatcherFits(e)'
    BY <1>0, <1>2, <2>1, DispatcherMoves DEF r
  <2> QED BY <1>0, <2>2, SameCalls DEF Calls
<1>3. CASE LoseLease(d)
  <2>1. q.pc = "handler" /\ disp' = [disp EXCEPT ![d] = [q EXCEPT !.maint = "lost"]]
    BY <1>3 DEF LoseLease
  <2>2. [q EXCEPT !.maint = "lost"] = [q EXCEPT !.pc = "handler", !.maint = "lost"]
    BY <1>0, <2>1 DEF Dispatcher
  <2> QED BY <1>2, <2>1, <2>2 DEF Active
<1>4. CASE StopMaintainer(d)
  BY <1>1, <1>2, <1>4 DEF StopMaintainer, Active
<1>5. CASE Start(d) \/ Crash(d) \/ \E age \in Ages : Complete(d, age) \/ CompleteStale(d, age)
  BY <1>1, <1>5 DEF Start, Crash, Complete, CompleteStale
<1> QED BY <1>3, <1>4, <1>5

LEMMA CallsKept ==
    ASSUME OInv, [Next]_vars
    PROVE  Calls
<1>0. \A l \in Keys : RowMoves(l)
  BY RowsMove
<1>1. ASSUME UNCHANGED <<disp, sent, received>>
      PROVE  Calls
  BY <1>0, <1>1, SameCalls, DispatcherStays DEF Calls, OInv, OutboxTypeOK
<1>2. CASE UNCHANGED vars
  BY <1>1, <1>2 DEF vars
<1>3. CASE Next
  <2>1. ASSUME NEW k \in Keys, Enqueue(k) PROVE Calls
    BY <1>1, <2>1 DEF Enqueue
  <2>2. CASE Purge \/ Tick
    BY <1>1, <2>2 DEF Purge, Tick
  <2>3. ASSUME NEW d \in Dispatchers, NEW age \in Ages,
               ExpireExhausted(d, age) \/ Renew(d, age)
        PROVE  Calls
    BY <1>1, <2>3 DEF ExpireExhausted, Renew
  <2> QED BY <1>0, <1>3, <2>1, <2>2, <2>3, ClaimCalls, HandleCalls, OtherCalls
          DEF Next, DispatcherStep
<1> QED BY <1>2, <1>3

LEMMA OutboxStep ==
    ASSUME OInv, [Next]_vars
    PROVE  OInv'
<1>1. Calls /\ \A k \in Keys : RowMoves(k)
  BY CallsKept, RowsMove
<1>2. \A k \in Keys : RowFits(k)'
  BY <1>1, RowStaysFit DEF Calls
<1>3. row' \in [Keys -> Row]
  <2> DEFINE Rows == row' = [k \in Keys |-> row'[k]]
  <2>0. row = [k \in Keys |-> row[k]]
    BY DEF OInv, OutboxTypeOK
  <2>1. Rows
    <3>1. CASE row' = row
      BY <2>0, <3>1
    <3>2. ASSUME NEW k, NEW r, row' = [row EXCEPT ![k] = r]
          PROVE  Rows
      BY <2>0, <3>2
    <3>3. CASE Purge \/ Tick
      BY <3>3 DEF Purge, Tick
    <3>4. ASSUME NEW k \in Keys, Enqueue(k) PROVE Rows
      BY <3>2, <3>4 DEF Enqueue
    <3>5. ASSUME NEW d \in Dispatchers, NEW age \in Ages,
                 ClaimOutbox(d, age) \/ ExpireExhausted(d, age)
          PROVE  Rows
      BY <3>5 DEF ClaimOutbox, ExpireExhausted
    <3>6. ASSUME NEW d \in Dispatchers, NEW age \in Ages, Complete(d, age) \/ Renew(d, age)
          PROVE  Rows
      BY <3>2, <3>6 DEF Complete, Renew
    <3>7. ASSUME NEW d \in Dispatchers,
                 \/ Handle(d) \/ StopMaintainer(d) \/ LoseLease(d) \/ Start(d) \/ Crash(d)
                 \/ \E age \in Ages : CompleteStale(d, age)
          PROVE  Rows
      BY <3>1, <3>7 DEF Handle, StopMaintainer, LoseLease, Start, Crash, CompleteStale
    <3>8. CASE UNCHANGED vars
      BY <3>1, <3>8 DEF vars
    <3> HIDE DEF Rows
    <3> QED BY <3>3, <3>4, <3>5, <3>6, <3>7, <3>8 DEF Next, DispatcherStep
  <2> QED BY <1>1, <2>1 DEF RowMoves
<1> QED BY <1>1, <1>2, <1>3 DEF OInv, OutboxTypeOK, Calls

LEMMA OutboxInit ==
    ASSUME Init
    PROVE  OInv
<1>1. /\ NoRow(0) \in Row /\ NoRow(0).status = "none" /\ NoRow(0).token = 0
      /\ NoRow(0).attempts = 0
  BY NoRowType, Assumed
<1>2. Resting("down") \in Dispatcher /\ Resting("down").pc \notin Active
  BY Assumed DEF Resting, Dispatcher, Active
<1>3. \A k \in Keys : MaxAttempts[k] >= 0
  BY Assumed
<1> QED BY <1>1, <1>2, <1>3 DEF Init, OInv, OutboxTypeOK, RowFits, DispatcherFits

-----------------------------------------------------------------------------

\* Rows, dispatchers and the calls made to the receiver always have their
\* types, for any number of keys and dispatchers and any lease and delay.
THEOREM OutboxTypes == Spec => []OutboxTypeOK
BY OutboxInit, OutboxStep, PTL DEF Spec, OInv

\* A delivered row vouches for the very call that the receiver accepted: not
\* for an earlier delivery's, and not for one of a row that was purged.
THEOREM DeliveredRowsWereReceived == Spec => []DeliveredWasReceived
<1>1. OInv => DeliveredWasReceived
  BY DEF OInv, RowFits, DeliveredWasReceived
<1> QED BY <1>1, OutboxInit, OutboxStep, PTL DEF Spec

LEMMA FirstNumbers ==
    ASSUME NEW n \in Nat
    PROVE  IsFiniteSet(1 .. n) /\ Cardinality(1 .. n) = n
<1>1. 1 \in Int /\ n \in Int
  OBVIOUS
<1>2. IsFiniteSet(1 .. n) /\ Cardinality(1 .. n) = IF 1 > n THEN 0 ELSE n - 1 + 1
  BY <1>1, FS_Interval
<1> QED BY <1>2

\* Whatever crashes, lost leases and purges: a message is handed to the
\* receiver max_attempts times at most, and fails only when it has been.
THEOREM DeliveriesAreBounded == Spec => []DeliveriesBounded
<1>1. ASSUME OInv, NEW k \in Keys, row[k].status # "none"
      PROVE  Cardinality({c \in sent : c[1] = k /\ c[2] = row[k].id}) <= row[k].attempts
  <2> DEFINE id == row[k].id
             n == row[k].attempts
             T == {<<k, id, i>> : i \in 1 .. n}
             f == [i \in 1 .. n |-> <<k, id, i>>]
             S == {c \in sent : c[1] = k /\ c[2] = id}
  <2>1. n \in Nat
    BY <1>1 DEF OInv, OutboxTypeOK, Row
  <2>2. IsFiniteSet(1 .. n) /\ Cardinality(1 .. n) = n
    BY <2>1, FirstNumbers
  <2>3. f \in Surjection(1 .. n, T)
    BY DEF Surjection
  <2>4. IsFiniteSet(T) /\ Cardinality(T) <= n
    BY <2>2, <2>3, FS_Surjection
  <2>5. S \in SUBSET T
    <3>1. ASSUME NEW c \in S
          PROVE  c \in T
      <4>1. c \in Call /\ c[1] = k /\ c[2] = id /\ Handed(c[1], c[2], c[3], row)
        BY <1>1, <3>1 DEF OInv, OutboxTypeOK
      <4>2. c = <<k, id, c[3]>> /\ c[3] \in 1 .. n
        BY <1>1, <4>1 DEF Call, Handed
      <4> QED BY <4>2
    <3> QED BY <3>1
  <2>6. Cardinality(S) <= Cardinality(T) /\ Cardinality(S) \in Nat /\ Cardinality(T) \in Nat
    BY <2>4, <2>5, FS_Subset, FS_CardinalityType
  <2> QED BY <2>1, <2>4, <2>6
<1>2. OInv => DeliveriesBounded
  BY <1>1 DEF OInv, RowFits, DeliveriesBounded
<1> QED BY <1>2, OutboxInit, OutboxStep, PTL DEF Spec

\* Terminal rows stay until they are purged, tokens grow, and a delivery in
\* progress is taken over only after its lease.
THEOREM RowsKeepHistory == Spec => RowHistory
<1>1. ASSUME OInv, [Next]_vars, NEW k \in Keys
      PROVE  /\ row[k].status \in Terminal =>
                   row'[k] = row[k] \/ row'[k] = NoRow(row[k].id)
             /\ row[k].status \in Live =>
                   /\ row'[k].token >= row[k].token
                   /\ row[k].status = "delivering" /\ row'[k].token # row[k].token
                      => row[k].lease <= 0
  <2>1. RowMoves(k) /\ row[k] \in Row
    BY <1>1, RowsMove DEF OInv, OutboxTypeOK
  <2>2. row[k].token \in Nat
    BY <2>1 DEF Row
  <2> QED BY <2>1, <2>2 DEF RowMoves, Terminal, Live
<1> DEFINE Move ==
      \A k \in Keys :
          /\ row[k].status \in Terminal =>
                row'[k] = row[k] \/ row'[k] = NoRow(row[k].id)
          /\ row[k].status \in Live =>
                /\ row'[k].token >= row[k].token
                /\ row[k].status = "delivering" /\ row'[k].token # row[k].token
                   => row[k].lease <= 0
<1>2. OInv /\ [Next]_vars => [Move]_vars
  BY <1>1
<1>3. Spec => [][Move]_vars
  BY <1>2, OutboxInit, OutboxStep, PTL DEF Spec
<1> QED BY <1>3 DEF RowHistory

===============================================================================
