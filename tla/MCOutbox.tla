------------------------------- MODULE MCOutbox -------------------------------
(* Instances of Outbox for TLC. *)
EXTENDS Outbox, TLC

CONSTANTS k1, d1, d2, wa

OneKey == {k1}
OneRank == (k1 :> 1)
TwoAttempts == (k1 :> 2)

\* d2 was started with d1's worker_id, as a restart is.
SharedWorker == [d \in {d1, d2} |-> wa]
=============================================================================
