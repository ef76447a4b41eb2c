------------------------------ MODULE Workspace ------------------------------
(***************************************************************************)
(* The goal-owned workspace of a maintenance run (workspace_tools.py,      *)
(* maintenance.py).  One maintainer calls tools on a checkout, one call    *)
(* after the other; a call is a sequence of steps on two stores that share *)
(* no transaction, the file system and the database, and the process may   *)
(* end between any two of them.  Other people edit the checkout at any     *)
(* time, also while a call runs.                                           *)
(*                                                                         *)
(* The SHA-256 identity of a file is its content here, and Missing that of *)
(* a file that does not exist.  Every write, check and restore needs an    *)
(* operator's approval; any call may have been approved, so approvals of   *)
(* these tools add nothing and are left out.                               *)
(***************************************************************************)
EXTENDS Naturals, FiniteSets

CONSTANTS
    Paths,
    Contents,       \* contents of files
    Missing,        \* the identity of a file that does not exist
    Original,       \* what the checkout holds when the goal is created
    WritesOf,       \* the contents the maintainer may write to a path
    Outside,        \* contents only other people write
    Checks,         \* the names of the configured checks
    MaxChecks,      \* bound: results of checks
    MaxEdits,       \* bound: changes by other people
    Null

States == Contents \cup {Missing}

ASSUME WorkspaceAssumption ==
    /\ Missing \notin Contents /\ Null \notin States
    /\ Original \in [Paths -> States]
    /\ WritesOf \in [Paths -> SUBSET (Contents \ Outside)]
    /\ Outside \subseteq Contents
    /\ MaxChecks \in Nat /\ MaxEdits \in Nat

VARIABLES
    file,           \* the checkout
    snapshot,       \* table workspace_snapshots, for the goal
    results,        \* table verification_results, for the goal
    call,           \* the tool call in progress
    edits,          \* number of changes by other people
    raced           \* history: someone else changed something during a call

wsVars == <<file, snapshot, results, call, edits, raced>>

\* A call's position and its local variables.
NoCall == [at |-> "none", path |-> Null, content |-> Null, before |-> Null,
           todo |-> {}, check |-> Null, tested |-> Null, payload |-> Null,
           pull |-> 0]

Idle == call = NoCall
At(step) == call.at = step
Goto(step) == call' = [call EXCEPT !.at = step]
Return == call' = NoCall

NoSnapshot == [original |-> Null, previous |-> Null, latest |-> Null,
               restored |-> FALSE]

WsInit ==
    /\ file = Original
    /\ snapshot = [p \in Paths |-> NoSnapshot]
    /\ results = {}
    /\ call = NoCall
    /\ edits = 0
    /\ raced = FALSE

-----------------------------------------------------------------------------
(* Snapshots and the digest.                                               *)

Owned == {p \in Paths : snapshot[p] # NoSnapshot}
Active == {p \in Owned : ~ snapshot[p].restored}

\* WorkspaceSnapshot.create and advance.
Created(p, new) == [original |-> file[p], previous |-> file[p],
                    latest |-> new, restored |-> FALSE]
Advanced(s, new) == [s EXCEPT !.previous = s.latest, !.latest = new]

\* The recovery point of a path is never replaced.
SaveSnapshot(p, s) ==
    /\ p \in Owned => s.original = snapshot[p].original
    /\ snapshot' = [snapshot EXCEPT ![p] = s]

Digest == [p \in Owned |-> <<file[p], snapshot[p].restored>>]

Changed == {p \in Active : file[p] # snapshot[p].original}

-----------------------------------------------------------------------------
(* workspace_write_file.                                                   *)

\* Mistake: a snapshot is accepted without looking at its latest identity.
MayWriteOver(p) == ~ snapshot[p].restored

MayWrite(p) ==
    \/ p \notin Owned
    \/ ~ snapshot[p].restored /\ snapshot[p].latest = file[p]

\* The snapshot is saved before the file is replaced.
Write(p, content, expected) ==
    /\ Idle
    /\ expected = file[p]
    /\ MayWrite(p)
    /\ SaveSnapshot(p, IF p \notin Owned THEN Created(p, content)
                       ELSE Advanced(snapshot[p], content))
    /\ call' = [NoCall EXCEPT !.at = "write", !.path = p, !.content = content,
                              !.before = file[p]]
    /\ UNCHANGED <<file, results, edits, raced>>

FinishWrite ==
    /\ At("write")
    /\ file' = [file EXCEPT ![call.path] = call.content]
    /\ Return
    /\ UNCHANGED <<snapshot, results, edits, raced>>

\* _atomic_write raises OSError; the file keeps its content.
FailWrite ==
    /\ At("write")
    /\ SaveSnapshot(call.path, Advanced(snapshot[call.path], call.before))
    /\ Return
    /\ UNCHANGED <<file, results, edits, raced>>

-----------------------------------------------------------------------------
(* workspace_restore_changes.                                              *)

Restorable ==
    \A p \in Active : file[p] \in {snapshot[p].latest, snapshot[p].previous}

Restore ==
    /\ Idle /\ Active # {}
    /\ Restorable
    /\ call' = [NoCall EXCEPT !.at = "restore", !.todo = Active]
    /\ UNCHANGED <<file, snapshot, results, edits, raced>>

\* One path after the other: the file first, then its snapshot.
RestoreFile(p) ==
    /\ At("restore") /\ p \in call.todo
    /\ file' = [file EXCEPT ![p] = snapshot[p].original]
    /\ call' = [call EXCEPT !.at = "restored", !.path = p]
    /\ UNCHANGED <<snapshot, results, edits, raced>>

SaveRestored ==
    /\ At("restored")
    /\ LET p == call.path
           s == snapshot[p]
           rest == call.todo \ {p}
       IN  /\ SaveSnapshot(p, [Advanced(s, s.original) EXCEPT !.restored = TRUE])
           /\ call' = IF rest = {} THEN NoCall
                      ELSE [NoCall EXCEPT !.at = "restore", !.todo = rest]
    /\ UNCHANGED <<file, results, edits, raced>>

-----------------------------------------------------------------------------
(* workspace_run_check.  The command reads the checkout; the digest is     *)
(* taken when it has ended.                                                *)

RunCheck(name) ==
    /\ Idle
    /\ Cardinality(results) < MaxChecks
    /\ call' = [NoCall EXCEPT !.at = "check", !.check = name, !.tested = file]
    /\ UNCHANGED <<file, snapshot, results, edits, raced>>

SaveVerification(result) == results' = results \cup {result}

\* passed is FALSE for a timeout, too.  tested is history: what the command
\* has read.
SaveResult(passed) ==
    /\ At("check")
    /\ SaveVerification([check |-> call.check, passed |-> passed,
                         digest |-> Digest, tested |-> call.tested])
    /\ Return
    /\ UNCHANGED <<file, snapshot, edits, raced>>

\* Mistake: a passing result counts for any digest.
VerifiedOnce ==
    \A n \in Checks : \E r \in results : r.check = n /\ r.passed

\* Every check has a passing result for the current digest.
Verified ==
    \A n \in Checks : \E r \in results :
        r.check = n /\ r.passed /\ r.digest = Digest

-----------------------------------------------------------------------------
(* The surroundings.                                                       *)

\* The process ends, or a call raises, before its next step.
Abort ==
    /\ ~ Idle
    /\ Return
    /\ UNCHANGED <<file, snapshot, results, edits, raced>>

\* Someone else does something to the checkout.
Interfere ==
    /\ edits < MaxEdits
    /\ edits' = edits + 1
    /\ raced' = (raced \/ ~ Idle)
    /\ UNCHANGED <<snapshot, results, call>>

Edit(p, content) ==
    /\ Interfere
    /\ content # file[p]
    /\ file' = [file EXCEPT ![p] = content]

WriteTool ==
    \/ \E p \in Paths : \E c \in WritesOf[p], e \in States : Write(p, c, e)
    \/ FinishWrite \/ FailWrite
RestoreTool == Restore \/ (\E p \in Paths : RestoreFile(p)) \/ SaveRestored
CheckTool == (\E n \in Checks : RunCheck(n)) \/ (\E ok \in BOOLEAN : SaveResult(ok))
OutsideEdit == \E p \in Paths : \E c \in Outside \cup {Original[p]} : Edit(p, c)

WsNext == WriteTool \/ RestoreTool \/ CheckTool \/ Abort \/ OutsideEdit

WsSpec == WsInit /\ [][WsNext]_wsVars

-----------------------------------------------------------------------------
(* Properties.                                                             *)

\* A tool never destroys what someone else wrote: if nobody interferes with
\* a running call, content from outside is only replaced after it was stored
\* as the goal's recovery point (workspace_tools.py:207-213, 308-316).
OutsideWorkSurvives ==
    [][\A p \in Paths :
         file[p] \in Outside /\ file'[p] # file[p] /\ edits' = edits /\ ~ raced
           => snapshot[p].original = file[p]]_wsVars

\* "Per-goal original content and the latest mutation identities are durable
\* and recoverable" (docs/architecture.md:134): as long as nobody else has
\* changed the checkout, workspace_restore_changes is not refused.
OwnChangesRecoverable == edits = 0 /\ Idle => Restorable
=============================================================================
