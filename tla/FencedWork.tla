------------------------------ MODULE FencedWork ------------------------------
(***************************************************************************)
(* What the execution plane promises about a task, without workers,        *)
(* sessions, leases or clocks: work on a task is granted to one holder at  *)
(* a time under an ever higher token; a grant is withdrawn, leaving        *)
(* nothing behind, or settled by one result; and a final result ends the   *)
(* task.  Scheduler.tla implements this (SchedulerImplementsFencedWork).   *)
(***************************************************************************)
EXTENDS Naturals

CONSTANTS
    Tasks,
    Results,        \* results a grant can be settled with
    Final           \* those after which the task is never granted again

VARIABLES
    issued,         \* the last token of a task
    held,           \* the token of the outstanding grant, as a set
    evidence        \* the results of a task, each with its token

vars == <<issued, held, evidence>>

Init ==
    /\ issued = [t \in Tasks |-> 0]
    /\ held = [t \in Tasks |-> {}]
    /\ evidence = [t \in Tasks |-> {}]

Closed(t) == \E x \in evidence[t] : x[2] \in Final

Grant(t) ==
    /\ held[t] = {}
    /\ ~ Closed(t)
    /\ issued' = [issued EXCEPT ![t] = issued[t] + 1]
    /\ held' = [held EXCEPT ![t] = {issued[t] + 1}]
    /\ UNCHANGED evidence

\* The reaper withdraws several grants at once.
Withdraw(T) ==
    /\ \A t \in T : held[t] # {}
    /\ held' = [t \in Tasks |-> IF t \in T THEN {} ELSE held[t]]
    /\ UNCHANGED <<issued, evidence>>

Settle(t, r) ==
    /\ held[t] # {}
    /\ held' = [held EXCEPT ![t] = {}]
    /\ evidence' = [evidence EXCEPT ![t] =
                       @ \cup {<<token, r>> : token \in held[t]}]
    /\ UNCHANGED issued

Next ==
    \/ \E t \in Tasks : Grant(t) \/ \E r \in Results : Settle(t, r)
    \/ \E T \in SUBSET Tasks : Withdraw(T)

Spec == Init /\ [][Next]_vars
=============================================================================
