-------------------------- MODULE PublicationProofs --------------------------
(***************************************************************************)
(* Workspace tools and publication, for any paths, contents and checks,    *)
(* any number of results and any interference: what the record says has    *)
(* happened, what was published and accepted has passed the checks, other  *)
(* people's content is never lost, and a publication that was interrupted  *)
(* can go on.                                                              *)
(*                                                                         *)
(* The argument follows one call: as long as nobody interferes while it    *)
(* runs, the checkout is what it was when the call looked at it, so the    *)
(* payload is the recorded one until the commit, and the commit contains   *)
(* what the checks have read.  The rest is what the record remembers of    *)
(* the moment it was prepared.                                             *)
(***************************************************************************)
EXTENDS Publication, TLAPS

-----------------------------------------------------------------------------
(* Types.                                                                  *)

Identity == States \cup {Null}

Snapshot == [original : States, previous : States, latest : States,
             restored : BOOLEAN]

\* What Digest can be.
Digests == UNION {[P -> States \X BOOLEAN] : P \in SUBSET Paths}

Payloads == [base : Nat, paths : SUBSET Paths, digest : Digests]

Result == [check : Checks, passed : BOOLEAN, digest : Digests,
           tested : [Paths -> States]]

PublishSteps == {"publish", "commit", "commitStaged", "committed", "push",
                 "pushed", "pull", "noPull", "pulled"}
Steps == {"none", "write", "restore", "restored", "check"} \cup PublishSteps

Call == [at : Steps, path : Paths \cup {Null}, content : Identity,
         before : Identity, todo : SUBSET Paths, check : Checks \cup {Null},
         tested : [Paths -> States] \cup {Null},
         payload : Payloads \cup {Null}, pull : Nat]

Commits == [parent : Nat, tree : [Paths -> States], titled : BOOLEAN]
Pulls == [open : BOOLEAN, commit : Nat]
Records == [status : {"prepared", "committed", "pushed", "created"},
            payload : Payloads, commit : Nat, pull : Nat]

WsTypes ==
    /\ file \in [Paths -> States]
    /\ snapshot \in [Paths -> Snapshot \cup {NoSnapshot}]
    /\ results \in SUBSET Result
    /\ edits \in Nat
    /\ raced \in BOOLEAN

CallTypes ==
    /\ call \in Call
    /\ At("write") => /\ call.path \in Paths /\ call.content \in States
                      /\ call.before \in States
                      /\ snapshot[call.path] \in Snapshot
    /\ At("restore") \/ At("restored") =>
          \A p \in call.todo : snapshot[p] \in Snapshot
    /\ At("restored") => call.path \in call.todo
    /\ At("check") => call.check \in Checks /\ call.tested \in [Paths -> States]

GitTypes ==
    /\ commits \in Seq(Commits)
    /\ head \in DOMAIN commits
    /\ index \in [Paths -> States]
    /\ remote \in Nat
    /\ pulls \in Seq(Pulls)

RecordTypes ==
    /\ record \in Records \cup {NoRecord}
    /\ call.at \in PublishSteps \ {"publish"} => record \in Records

PubTypes == WsTypes /\ CallTypes /\ GitTypes /\ RecordTypes

\* No call runs.
LEMMA NoCallType == NoCall \in Call /\ NoCall.at = "none"
BY DEF NoCall, Call, Steps, Identity

\* A call goes on to another step.
NextCall(x, s) == [x EXCEPT !.at = s]

LEMMA NextType ==
    ASSUME NEW x \in Call, NEW s \in Steps
    PROVE  LET y == NextCall(x, s)
           IN  y \in Call /\ y.at = s /\ y.path = x.path /\ y.todo = x.todo /\ y.pull = x.pull
BY DEF NextCall, Call, Steps, PublishSteps

\* A call to write begins.
WriteCall(p, c, b) == [NoCall EXCEPT !.at = "write", !.path = p, !.content = c, !.before = b]

LEMMA WriteType ==
    ASSUME NEW p \in Paths, NEW c \in States, NEW b \in States
    PROVE  LET y == WriteCall(p, c, b)
           IN  y \in Call /\ y.at = "write" /\ y.path = p /\ y.content = c /\ y.before = b
<1>1. ASSUME NEW x \in Call
      PROVE  LET y == [x EXCEPT !.at = "write", !.path = p, !.content = c, !.before = b]
             IN  y \in Call /\ y.at = "write" /\ y.path = p /\ y.content = c /\ y.before = b
  BY DEF Call, Steps, PublishSteps, Identity
<1> QED BY <1>1, NoCallType DEF WriteCall

\* A call to restore, and its later paths.
RestoreCall(T) == [NoCall EXCEPT !.at = "restore", !.todo = T]

LEMMA RestoreType ==
    ASSUME NEW T \in SUBSET Paths
    PROVE  LET y == RestoreCall(T)
           IN  y \in Call /\ y.at = "restore" /\ y.todo = T
<1>1. ASSUME NEW x \in Call
      PROVE  LET y == [x EXCEPT !.at = "restore", !.todo = T]
             IN  y \in Call /\ y.at = "restore" /\ y.todo = T
  BY DEF Call, Steps, PublishSteps, Identity
<1> QED BY <1>1, NoCallType DEF RestoreCall

\* The file is restored, its snapshot is not.
RestoredCall(x, p) == [x EXCEPT !.at = "restored", !.path = p]

LEMMA RestoredType ==
    ASSUME NEW x \in Call, NEW p \in Paths
    PROVE  LET y == RestoredCall(x, p)
           IN  y \in Call /\ y.at = "restored" /\ y.path = p /\ y.todo = x.todo
BY DEF RestoredCall, Call, Steps, PublishSteps

\* A call to check.
CheckCall(n, f) == [NoCall EXCEPT !.at = "check", !.check = n, !.tested = f]

LEMMA CheckType ==
    ASSUME NEW n \in Checks, NEW f \in [Paths -> States]
    PROVE  LET y == CheckCall(n, f)
           IN  y \in Call /\ y.at = "check" /\ y.check = n /\ y.tested = f
<1>1. ASSUME NEW x \in Call
      PROVE  LET y == [x EXCEPT !.at = "check", !.check = n, !.tested = f]
             IN  y \in Call /\ y.at = "check" /\ y.check = n /\ y.tested = f
  BY DEF Call, Steps, PublishSteps, Identity
<1> QED BY <1>1, NoCallType DEF CheckCall

\* A call to publish.
PublishCall(payload) == [NoCall EXCEPT !.at = "publish", !.payload = payload]

LEMMA PublishType ==
    ASSUME NEW payload \in Payloads
    PROVE  LET y == PublishCall(payload)
           IN  y \in Call /\ y.at = "publish"
<1>1. ASSUME NEW x \in Call
      PROVE  LET y == [x EXCEPT !.at = "publish", !.payload = payload]
             IN  y \in Call /\ y.at = "publish"
  BY DEF Call, Steps, PublishSteps, Identity
<1> QED BY <1>1, NoCallType DEF PublishCall

\* Its pull request is known.
PulledCall(x, n) == [x EXCEPT !.at = "pulled", !.pull = n]

LEMMA PulledType ==
    ASSUME NEW x \in Call, NEW n \in Nat
    PROVE  LET y == PulledCall(x, n)
           IN  y \in Call /\ y.at = "pulled" /\ y.pull = n
BY DEF PulledCall, Call, Steps, PublishSteps

\* The digest is of the goal's own paths.
LEMMA DigestType ==
    ASSUME WsTypes
    PROVE  /\ Owned \in SUBSET Paths /\ Changed \in SUBSET Owned
           /\ Digest \in Digests /\ DOMAIN Digest = Owned
           /\ \A p \in Owned : Digest[p][1] = file[p]
<1>1. Owned \in SUBSET Paths /\ Changed \in SUBSET Owned
  BY DEF Owned, Changed, Active
<1>2. \A p \in Owned : <<file[p], snapshot[p].restored>> \in States \X BOOLEAN
  BY <1>1 DEF WsTypes, Snapshot, Owned
<1>3. Digest \in [Owned -> States \X BOOLEAN]
  BY <1>2 DEF Digest
<1>4. Digest \in Digests
  BY <1>1, <1>3 DEF Digests
<1>5. \A p \in Owned : Digest[p][1] = file[p]
  BY DEF Digest
<1> QED BY <1>1, <1>3, <1>4, <1>5

\* The payload that is computed now.
LEMMA PayloadType ==
    ASSUME PubTypes
    PROVE  /\ Payload \in Payloads
           /\ Payload.paths = Changed /\ Payload.digest = Digest
           /\ record = NoRecord => Payload.base = head
           /\ record # NoRecord => Payload.base = record.payload.base
<1>1. /\ Digest \in Digests /\ Changed \in SUBSET Paths
      /\ head \in Nat
  BY DigestType DEF PubTypes, GitTypes
<1>2. record # NoRecord => record.payload.base \in Nat
  BY DEF PubTypes, RecordTypes, Records, Payloads
<1> QED BY <1>1, <1>2 DEF Payload, Payloads

\* A step of a workspace tool, or an edit by someone else.
LEMMA WsNextTypes ==
    ASSUME PubTypes, WsNext
    PROVE  /\ WsTypes' /\ CallTypes'
           /\ call'.at \notin PublishSteps \/ UNCHANGED call
<1> USE WorkspaceAssumption
<1> DEFINE Kept == /\ WsTypes' /\ CallTypes'
                   /\ call'.at \notin PublishSteps \/ UNCHANGED call
<1>0. WsTypes /\ CallTypes /\ call \in Call
  BY DEF PubTypes, CallTypes
<1>n. ASSUME call' = NoCall, WsTypes' PROVE Kept
  BY <1>n, NoCallType DEF CallTypes, At, PublishSteps
<1>s. ASSUME NEW p \in Paths, NEW s, SaveSnapshot(p, s), s \in Snapshot
      PROVE  /\ snapshot' \in [Paths -> Snapshot \cup {NoSnapshot}]
             /\ snapshot'[p] = s
             /\ \A o \in Paths : snapshot[o] \in Snapshot => snapshot'[o] \in Snapshot
  BY <1>0, <1>s DEF SaveSnapshot, WsTypes
<1>o. \A p \in Owned : p \in Paths /\ snapshot[p] \in Snapshot
  BY <1>0 DEF Owned, WsTypes
<1>1. ASSUME NEW p \in Paths, NEW c \in WritesOf[p], NEW e \in States,
             Write(p, c, e)
      PROVE  Kept
  <2>1. c \in States /\ file[p] \in States
    BY <1>0 DEF WsTypes, States
  <2>2. Created(p, c) \in Snapshot
    BY <2>1 DEF Created, Snapshot
  <2>3. p \in Owned => Advanced(snapshot[p], c) \in Snapshot
    BY <1>o, <2>1 DEF Advanced, Snapshot
  <2>4. /\ snapshot' \in [Paths -> Snapshot \cup {NoSnapshot}]
        /\ snapshot'[p] \in Snapshot
    BY <1>1, <1>s, <2>2, <2>3 DEF Write
  <2>5. /\ call' \in Call /\ call'.at = "write" /\ call'.path = p
        /\ call'.content = c /\ call'.before = file[p]
    <3>1. call' = WriteCall(p, c, file[p])
      BY <1>1 DEF Write, WriteCall
    <3> QED BY <2>1, <3>1, WriteType
  <2>6. CallTypes' /\ call'.at \notin PublishSteps
    BY <2>1, <2>4, <2>5 DEF CallTypes, At, PublishSteps
  <2> QED BY <1>0, <1>1, <2>4, <2>6 DEF Write, WsTypes
<1>2. ASSUME FinishWrite PROVE Kept
  BY <1>0, <1>2, <1>n DEF FinishWrite, WsTypes, CallTypes, Return
<1>3. ASSUME FailWrite PROVE Kept
  <2>1. /\ call.path \in Paths /\ call.before \in States
        /\ snapshot[call.path] \in Snapshot
    BY <1>0, <1>3 DEF FailWrite, CallTypes, WsTypes
  <2>2. Advanced(snapshot[call.path], call.before) \in Snapshot
    BY <2>1 DEF Advanced, Snapshot
  <2>3. snapshot' \in [Paths -> Snapshot \cup {NoSnapshot}]
    BY <1>3, <1>s, <2>1, <2>2 DEF FailWrite
  <2> QED BY <1>0, <1>3, <1>n, <2>3 DEF FailWrite, WsTypes, Return
<1>4. ASSUME Restore PROVE Kept
  <2>1. Active \in SUBSET Paths /\ Active \subseteq Owned
    BY DEF Active, Owned
  <2>2. call' \in Call /\ call'.at = "restore" /\ call'.todo = Active
    <3>1. call' = RestoreCall(Active)
      BY <1>4 DEF Restore, RestoreCall
    <3> QED BY <2>1, <3>1, RestoreType
  <2>3. CallTypes' /\ call'.at \notin PublishSteps
    BY <1>4, <1>o, <2>1, <2>2 DEF CallTypes, At, PublishSteps, Restore
  <2> QED BY <1>0, <1>4, <2>3 DEF Restore, WsTypes
<1>5. ASSUME NEW p \in Paths, RestoreFile(p) PROVE Kept
  <2>1. snapshot[p] \in Snapshot /\ p \in call.todo
    BY <1>0, <1>5 DEF RestoreFile, CallTypes
  <2>2. /\ call' \in Call /\ call'.at = "restored" /\ call'.path = p
        /\ call'.todo = call.todo
    <3>1. call' = RestoredCall(call, p)
      BY <1>5 DEF RestoreFile, RestoredCall
    <3> QED BY <1>0, <3>1, RestoredType
  <2>3. CallTypes' /\ call'.at \notin PublishSteps
    BY <1>0, <1>5, <2>1, <2>2 DEF CallTypes, At, PublishSteps, RestoreFile
  <2> QED BY <1>0, <1>5, <2>1, <2>3 DEF RestoreFile, WsTypes, Snapshot
<1>6. ASSUME SaveRestored PROVE Kept
  <2> DEFINE p == call.path
             s == [Advanced(snapshot[p], snapshot[p].original) EXCEPT !.restored = TRUE]
             rest == call.todo \ {p}
  <2>1. /\ snapshot[p] \in Snapshot /\ p \in Paths
        /\ call.todo \in SUBSET Paths
        /\ \A o \in call.todo : snapshot[o] \in Snapshot
    BY <1>0, <1>6 DEF SaveRestored, CallTypes, Call
  <2>2. s \in Snapshot
    BY <2>1 DEF Advanced, Snapshot
  <2>3. SaveSnapshot(p, s)
    BY <1>6 DEF SaveRestored
  <2>4. /\ snapshot' \in [Paths -> Snapshot \cup {NoSnapshot}]
        /\ \A o \in call.todo : snapshot'[o] \in Snapshot
    <3> HIDE DEF s, p
    <3> QED BY <1>s, <2>1, <2>2, <2>3
  <2>5. WsTypes'
    BY <1>0, <1>6, <2>4 DEF SaveRestored, WsTypes
  <2>6. CASE rest = {}
    BY <1>6, <1>n, <2>5, <2>6 DEF SaveRestored
  <2>7. CASE rest # {}
    <3>1. call' = RestoreCall(rest)
      BY <1>6, <2>7 DEF SaveRestored, RestoreCall
    <3>2. rest \in SUBSET Paths
      BY <2>1
    <3>3. call' \in Call /\ call'.at = "restore" /\ call'.todo = rest
      BY <3>1, <3>2, RestoreType
    <3> QED BY <2>4, <2>5, <3>3 DEF CallTypes, At, PublishSteps
  <2> QED BY <2>6, <2>7
<1>7. ASSUME NEW n \in Checks, RunCheck(n) PROVE Kept
  <2>1. call' \in Call /\ call'.at = "check" /\ call'.check = n /\ call'.tested = file
    <3>1. call' = CheckCall(n, file)
      BY <1>7 DEF RunCheck, CheckCall
    <3> QED BY <1>0, <3>1, CheckType DEF WsTypes
  <2>2. CallTypes' /\ call'.at \notin PublishSteps
    BY <1>0, <2>1 DEF CallTypes, At, PublishSteps, WsTypes
  <2> QED BY <1>0, <1>7, <2>2 DEF RunCheck, WsTypes
<1>8. ASSUME NEW ok \in BOOLEAN, SaveResult(ok) PROVE Kept
  <2>1. [check |-> call.check, passed |-> ok, digest |-> Digest,
         tested |-> call.tested] \in Result
    BY <1>0, <1>8, DigestType DEF SaveResult, CallTypes, Result
  <2>2. WsTypes'
    BY <1>0, <1>8, <2>1 DEF SaveResult, SaveVerification, WsTypes
  <2> QED BY <1>8, <1>n, <2>2 DEF SaveResult, Return
<1>9. ASSUME Abort PROVE Kept
  BY <1>0, <1>9, <1>n DEF Abort, WsTypes, Return
<1>10. ASSUME NEW p \in Paths, NEW c \in Outside \cup {Original[p]}, Edit(p, c)
       PROVE  Kept
  <2>1. c \in States
    BY DEF States
  <2>2. WsTypes'
    BY <1>0, <1>10, <2>1 DEF Edit, Interfere, WsTypes, Idle
  <2> QED BY <1>0, <1>10, <2>2 DEF Edit, Interfere, CallTypes, At
<1> QED BY <1>1, <1>2, <1>3, <1>4, <1>5, <1>6, <1>7, <1>8, <1>9, <1>10
        DEF WsNext, WriteTool, RestoreTool, CheckTool, OutsideEdit

\* Appending to the history keeps what is in it.
LEMMA Appended ==
    ASSUME NEW S, NEW s \in Seq(S), NEW x \in S
    PROVE  /\ Append(s, x) \in Seq(S)
           /\ Len(Append(s, x)) = Len(s) + 1
           /\ DOMAIN Append(s, x) = DOMAIN s \cup {Len(s) + 1}
           /\ Append(s, x)[Len(s) + 1] = x
           /\ \A n \in DOMAIN s : Append(s, x)[n] = s[n]
           /\ DOMAIN s = 1 .. Len(s) /\ Len(s) \in Nat
OBVIOUS

\* A new commit.
LEMMA NewCommitTypes ==
    ASSUME PubTypes, NEW tree \in [Paths -> States], NEW titled \in BOOLEAN,
           NewCommit(tree, titled)
    PROVE  /\ commits' \in Seq(Commits)
           /\ head' \in DOMAIN commits' /\ head' \notin DOMAIN commits
           /\ index' = tree
           /\ commits'[head'] = [parent |-> head, tree |-> tree, titled |-> titled]
           /\ \A n \in DOMAIN commits : n \in DOMAIN commits' /\ commits'[n] = commits[n]
<1> DEFINE c == [parent |-> head, tree |-> tree, titled |-> titled]
<1>1. commits \in Seq(Commits) /\ head \in DOMAIN commits
  BY DEF PubTypes, GitTypes
<1>2. head \in Nat
  BY <1>1
<1>3. c \in Commits
  BY <1>2 DEF Commits
<1>4. commits' = Append(commits, c) /\ head' = Len(commits) + 1 /\ index' = tree
  BY DEF NewCommit
<1> HIDE DEF c
<1>5. /\ commits' \in Seq(Commits)
      /\ DOMAIN commits' = DOMAIN commits \cup {head'}
      /\ commits'[head'] = c
      /\ \A n \in DOMAIN commits : commits'[n] = commits[n]
      /\ head' \notin DOMAIN commits
  BY <1>1, <1>3, <1>4, Appended
<1> QED BY <1>4, <1>5 DEF c

\* Going on to a step of the publication.
LEMMA GotoTypes ==
    ASSUME PubTypes, NEW s \in PublishSteps, Goto(s)
    PROVE  call' \in Call /\ call'.at = s /\ CallTypes' /\ call'.pull = call.pull
<1>1. call' = NextCall(call, s) /\ call \in Call /\ s \in Steps
  BY DEF Goto, NextCall, PubTypes, CallTypes, Steps
<1>2. call' \in Call /\ call'.at = s /\ call'.pull = call.pull
  BY <1>1, NextType
<1>3. CallTypes'
  BY <1>2 DEF CallTypes, At, PublishSteps
<1> QED BY <1>2, <1>3

\* The end of a call.
LEMMA ReturnTypes ==
    ASSUME Return
    PROVE  call' \in Call /\ call'.at = "none" /\ CallTypes'
BY NoCallType DEF Return, CallTypes, At

\* A step of the publication.
LEMMA PublishToolTypes ==
    ASSUME PubTypes, PublishTool
    PROVE  PubTypes' /\ UNCHANGED <<file, snapshot, results, edits, raced>>
<1> DEFINE Kept == PubTypes' /\ UNCHANGED <<file, snapshot, results, edits, raced>>
<1>0. WsTypes /\ CallTypes /\ GitTypes /\ RecordTypes /\ call \in Call
  BY DEF PubTypes, CallTypes
<1>w. ASSUME SameWorkspace
      PROVE  WsTypes' /\ UNCHANGED <<file, snapshot, results, edits, raced>>
  BY <1>0, <1>w DEF SameWorkspace, WsTypes
<1>g. ASSUME UNCHANGED gitVars, UNCHANGED outVars PROVE GitTypes'
  BY <1>0, <1>g DEF gitVars, outVars, GitTypes
<1>p. ASSUME UNCHANGED dbVars PROVE record' = record
  BY <1>p DEF dbVars
<1>1. ASSUME Publish PROVE Kept
  <2>1. call' = PublishCall(Payload) /\ Payload \in Payloads
    BY <1>1, PayloadType DEF Publish, PublishCall
  <2>2. call' \in Call /\ call'.at = "publish"
    BY <2>1, PublishType
  <2>3. CallTypes'
    BY <2>2 DEF CallTypes, At
  <2>4. WsTypes' /\ UNCHANGED <<file, snapshot, results, edits, raced>>
    BY <1>0, <1>1 DEF Publish, WsTypes
  <2>5. record' = record /\ GitTypes'
    BY <1>1, <1>g, <1>p DEF Publish
  <2> QED BY <1>0, <2>2, <2>3, <2>4, <2>5 DEF PubTypes, RecordTypes
<1>2. ASSUME Prepare PROVE Kept
  <2>1. CallTypes'
    BY <1>2, GotoTypes DEF Prepare, PublishSteps
  <2>2. record' \in Records
    BY <1>2, PayloadType DEF Prepare, SaveRecord, NewRecord, NoRecord, Records
  <2>3. GitTypes'
    BY <1>2, <1>g DEF Prepare
  <2> QED BY <1>2, <1>w, <2>1, <2>2, <2>3 DEF Prepare, PubTypes, RecordTypes
<1>3. ASSUME Resume PROVE Kept
  <2>1. Continue \in PublishSteps
    BY DEF Continue, PublishSteps
  <2>2. CallTypes'
    BY <1>3, <2>1, GotoTypes, ReturnTypes DEF Resume
  <2>3. record' = record /\ record \in Records
    BY <1>0, <1>3, <1>p DEF Resume, RecordTypes
  <2>4. GitTypes'
    BY <1>3, <1>g DEF Resume
  <2> QED BY <1>3, <1>w, <2>2, <2>3, <2>4 DEF Resume, PubTypes, RecordTypes
<1>4. ASSUME GitAdd PROVE Kept
  <2>1. CallTypes'
    BY <1>4, GotoTypes DEF GitAdd, PublishSteps
  <2>2. record' = record /\ record \in Records
    BY <1>0, <1>4, <1>p DEF GitAdd, RecordTypes, At, PublishSteps
  <2>3. GitTypes'
    BY <1>0, <1>4 DEF GitAdd, GitTypes, WsTypes, outVars
  <2> QED BY <1>4, <1>w, <2>1, <2>2, <2>3 DEF GitAdd, PubTypes, RecordTypes
<1>5. ASSUME GitCommit PROVE Kept
  <2>1. CallTypes'
    BY <1>5, GotoTypes DEF GitCommit, PublishSteps
  <2>2. record' = record /\ record \in Records
    BY <1>0, <1>5, <1>p DEF GitCommit, RecordTypes, At, PublishSteps
  <2>3. GitTypes'
    BY <1>0, <1>5, NewCommitTypes DEF GitCommit, GitTypes, outVars
  <2> QED BY <1>5, <1>w, <2>1, <2>2, <2>3 DEF GitCommit, PubTypes, RecordTypes
<1>6. ASSUME RecoverCommit PROVE Kept
  <2>1. CallTypes'
    BY <1>6, GotoTypes DEF RecoverCommit, PublishSteps
  <2>2. record' = record /\ record \in Records
    BY <1>0, <1>6, <1>p DEF RecoverCommit, RecordTypes, At, PublishSteps
  <2>3. GitTypes'
    BY <1>6, <1>g DEF RecoverCommit
  <2> QED BY <1>6, <1>w, <2>1, <2>2, <2>3 DEF RecoverCommit, PubTypes, RecordTypes
<1>7. ASSUME SaveCommitted PROVE Kept
  <2>1. CallTypes'
    BY <1>7, GotoTypes DEF SaveCommitted, PublishSteps
  <2>2. record \in Records /\ head \in Nat
    BY <1>0, <1>7 DEF SaveCommitted, RecordTypes, At, PublishSteps, GitTypes
  <2>3. record' \in Records
    BY <1>7, <2>2 DEF SaveCommitted, SaveRecord, AdvanceRecord, Records
  <2>4. GitTypes'
    BY <1>7, <1>g DEF SaveCommitted
  <2> QED BY <1>7, <1>w, <2>1, <2>3, <2>4 DEF SaveCommitted, PubTypes, RecordTypes
<1>8. ASSUME GitPush PROVE Kept
  <2>1. CallTypes'
    BY <1>8, GotoTypes DEF GitPush, PublishSteps
  <2>2. record' = record /\ record \in Records
    BY <1>0, <1>8, <1>p DEF GitPush, RecordTypes, At, PublishSteps
  <2>3. GitTypes'
    BY <1>0, <1>8 DEF GitPush, GitTypes, gitVars
  <2> QED BY <1>8, <1>w, <2>1, <2>2, <2>3 DEF GitPush, PubTypes, RecordTypes
<1>9. ASSUME SavePushed PROVE Kept
  <2>1. CallTypes'
    BY <1>9, GotoTypes DEF SavePushed, PublishSteps
  <2>2. record \in Records
    BY <1>0, <1>9 DEF SavePushed, RecordTypes, At, PublishSteps
  <2>3. record' \in Records
    BY <1>9, <2>2 DEF SavePushed, SaveRecord, AdvanceRecord, Records
  <2>4. GitTypes'
    BY <1>9, <1>g DEF SavePushed
  <2> QED BY <1>9, <1>w, <2>1, <2>3, <2>4 DEF SavePushed, PubTypes, RecordTypes
<1>10. ASSUME FindPull PROVE Kept
  <2>1. ASSUME NEW n \in OpenPulls,
               call' = [call EXCEPT !.at = "pulled", !.pull = n]
        PROVE  CallTypes'
    <3>1. call' = PulledCall(call, n) /\ n \in Nat
      BY <1>0, <2>1 DEF PulledCall, OpenPulls, GitTypes
    <3>2. call' \in Call /\ call'.at = "pulled"
      BY <1>0, <3>1, PulledType
    <3> QED BY <3>2 DEF CallTypes, At
  <2>2. Goto("noPull") => CallTypes'
    BY GotoTypes DEF PublishSteps
  <2>3. CallTypes'
    BY <1>10, <2>1, <2>2 DEF FindPull
  <2>4. record' = record /\ record \in Records
    BY <1>0, <1>10, <1>p DEF FindPull, RecordTypes, At, PublishSteps
  <2>5. GitTypes'
    BY <1>10, <1>g DEF FindPull
  <2> QED BY <1>10, <1>w, <2>3, <2>4, <2>5 DEF FindPull, PubTypes, RecordTypes
<1>11. ASSUME CreatePull PROVE Kept
  <2>1. pulls \in Seq(Pulls) /\ remote \in Nat /\ Len(pulls) + 1 \in Nat
    BY <1>0 DEF GitTypes
  <2>2. call' = PulledCall(call, Len(pulls) + 1)
    BY <1>11 DEF CreatePull, PulledCall
  <2>3. call' \in Call /\ call'.at = "pulled"
    BY <1>0, <2>1, <2>2, PulledType
  <2>4. CallTypes'
    BY <2>3 DEF CallTypes, At
  <2>5. [open |-> TRUE, commit |-> remote] \in Pulls
    BY <2>1 DEF Pulls
  <2>6. GitTypes'
    BY <1>0, <1>11, <2>1, <2>5, Appended DEF CreatePull, GitTypes, gitVars
  <2>7. record' = record /\ record \in Records
    BY <1>0, <1>11, <1>p DEF CreatePull, RecordTypes, At, PublishSteps
  <2> QED BY <1>11, <1>w, <2>4, <2>6, <2>7 DEF CreatePull, PubTypes, RecordTypes
<1>12. ASSUME SavePull PROVE Kept
  <2>1. CallTypes'
    BY <1>12, ReturnTypes DEF SavePull
  <2>2. record \in Records /\ call.pull \in Nat
    BY <1>0, <1>12 DEF SavePull, RecordTypes, At, PublishSteps, Call
  <2>3. record' \in Records
    BY <1>12, <2>2 DEF SavePull, SaveRecord, AdvanceRecord, Records
  <2>4. GitTypes'
    BY <1>12, <1>g DEF SavePull
  <2> QED BY <1>12, <1>w, <2>1, <2>3, <2>4 DEF SavePull, PubTypes, RecordTypes
<1> QED BY <1>1, <1>2, <1>3, <1>4, <1>5, <1>6, <1>7, <1>8, <1>9, <1>10, <1>11,
           <1>12 DEF PublishTool

\* Someone else changes something: the step is noted, and the call goes on.
LEMMA OutsideTypes ==
    ASSUME PubTypes, OutsideGit
    PROVE  /\ PubTypes'
           /\ UNCHANGED <<file, snapshot, results, call>>
           /\ edits' = edits + 1 /\ raced' = (raced \/ ~ Idle)
<1>0. WsTypes /\ CallTypes /\ GitTypes /\ RecordTypes
  BY DEF PubTypes
<1>1. ASSUME Interfere, UNCHANGED file
      PROVE  /\ WsTypes' /\ CallTypes'
             /\ UNCHANGED <<file, snapshot, results, call>>
             /\ edits' = edits + 1 /\ raced' = (raced \/ ~ Idle)
  <2>1. WsTypes'
    BY <1>0, <1>1 DEF Interfere, WsTypes, Idle
  <2> QED BY <1>0, <1>1, <2>1 DEF Interfere, CallTypes, At
<1>2. ASSUME UNCHANGED dbVars, UNCHANGED call PROVE RecordTypes'
  BY <1>0, <1>2 DEF dbVars, RecordTypes
<1>3. ASSUME NEW titled \in BOOLEAN, CommitOutside(titled) PROVE GitTypes'
  BY <1>0, <1>3, NewCommitTypes DEF CommitOutside, GitTypes, WsTypes, outVars
<1>4. ASSUME NEW p \in Paths, StageOutside(p) PROVE GitTypes'
  BY <1>0, <1>4 DEF StageOutside, GitTypes, WsTypes, outVars
<1>5. ASSUME NEW n \in DOMAIN pulls, ClosePull(n) PROVE GitTypes'
  <2>1. pulls \in Seq(Pulls) /\ [pulls[n] EXCEPT !.open = FALSE] \in Pulls
    <3>1. pulls \in Seq(Pulls)
      BY <1>0 DEF GitTypes
    <3>2. pulls[n] \in Pulls
      BY <3>1
    <3> QED BY <3>1, <3>2 DEF Pulls
  <2>2. pulls' = [pulls EXCEPT ![n] = [pulls[n] EXCEPT !.open = FALSE]]
    BY <1>5 DEF ClosePull
  <2>3. pulls' \in Seq(Pulls)
    BY <2>1, <2>2
  <2> QED BY <1>0, <1>5, <2>3 DEF ClosePull, GitTypes, gitVars
<1>6. ASSUME NEW titled \in BOOLEAN, CommitOutside(titled)
      PROVE  Interfere /\ UNCHANGED file /\ UNCHANGED dbVars
  BY <1>6 DEF CommitOutside
<1>7. ASSUME NEW p \in Paths, StageOutside(p)
      PROVE  Interfere /\ UNCHANGED file /\ UNCHANGED dbVars
  BY <1>7 DEF StageOutside
<1>8. ASSUME NEW n \in DOMAIN pulls, ClosePull(n)
      PROVE  Interfere /\ UNCHANGED file /\ UNCHANGED dbVars
  BY <1>8 DEF ClosePull
<1> QED BY <1>1, <1>2, <1>3, <1>4, <1>5, <1>6, <1>7, <1>8 DEF OutsideGit, PubTypes

\* What the operator and the reviewers do changes neither the workspace nor
\* the repository.
LEMMA OperatorTypes ==
    ASSUME PubTypes, Operator \/ Review
    PROVE  /\ PubTypes'
           /\ UNCHANGED <<wsVars, gitVars, outVars, record>>
           /\ approved \subseteq approved'
<1>1. UNCHANGED <<wsVars, gitVars, outVars, record>> /\ approved \subseteq approved'
  <2>1. CASE RequestPublication
    BY <2>1 DEF RequestPublication
  <2>2. ASSUME NEW payload \in requested, Approve(payload)
        PROVE  UNCHANGED <<wsVars, gitVars, outVars, record>> /\ approved \subseteq approved'
    BY <2>2 DEF Approve
  <2>3. CASE Review
    BY <2>3 DEF Review, dbVars
  <2> QED BY <2>1, <2>2, <2>3 DEF Operator
<1> QED BY <1>1 DEF PubTypes, WsTypes, CallTypes, GitTypes, RecordTypes, wsVars,
                    gitVars, outVars, At

\* At the start.
LEMMA InitTypes == PubInit => PubTypes
<1> SUFFICES ASSUME PubInit PROVE PubTypes
  OBVIOUS
<1>1. WsTypes
  BY WorkspaceAssumption DEF PubInit, WsInit, WsTypes
<1>2. CallTypes
  BY NoCallType DEF PubInit, WsInit, CallTypes, At
<1>3. GitTypes
  <2>1. [parent |-> 0, tree |-> Original, titled |-> FALSE] \in Commits
    BY WorkspaceAssumption DEF Commits
  <2>2. commits \in Seq(Commits) /\ 1 \in DOMAIN commits
    BY <2>1 DEF PubInit
  <2>3. pulls \in Seq(Pulls)
    <3>1. <<>> \in Seq(Pulls)
      OBVIOUS
    <3> QED BY <3>1 DEF PubInit
  <2> QED BY <2>2, <2>3, WorkspaceAssumption DEF PubInit, GitTypes
<1>4. RecordTypes
  BY NoCallType DEF PubInit, WsInit, RecordTypes, PublishSteps
<1> QED BY <1>1, <1>2, <1>3, <1>4 DEF PubTypes

LEMMA NextTypes == PubTypes /\ [PubNext]_pubVars => PubTypes'
<1> SUFFICES ASSUME PubTypes, [PubNext]_pubVars PROVE PubTypes'
  OBVIOUS
<1>1. CASE UNCHANGED pubVars
  BY <1>1 DEF pubVars, wsVars, gitVars, outVars, dbVars, PubTypes, WsTypes,
              CallTypes, GitTypes, RecordTypes, At
<1>2. ASSUME WsNext, UNCHANGED <<gitVars, outVars, dbVars, accepted>>
      PROVE  PubTypes'
  BY <1>2, WsNextTypes DEF gitVars, outVars, dbVars, PubTypes, GitTypes, RecordTypes
<1> QED BY <1>1, <1>2, PublishToolTypes, OutsideTypes, OperatorTypes DEF PubNext

\* For any checkout and any interference: every variable of the workspace and
\* of the publication has its type, and a call that commits, pushes or asks for
\* a pull request has a record.
THEOREM PubTypeCorrect == PubSpec => []PubTypes
BY InitTypes, NextTypes, PTL DEF PubSpec

-----------------------------------------------------------------------------
(* The workspace tools.                                                    *)

\* A snapshot remembers content from outside as the original or not at all.
Remembered ==
    \A p \in Paths :
       /\ snapshot[p].latest \in Outside => snapshot[p].latest = snapshot[p].original
       /\ snapshot[p].previous \in Outside =>
             snapshot[p].previous = snapshot[p].original

\* What a write replaces has been stored, if it came from outside, and is still
\* there.
Writing ==
    At("write") =>
       /\ call.before \in Outside => call.before = snapshot[call.path].original
       /\ ~ raced => file[call.path] = call.before

\* What a restore has still to replace is what a snapshot remembers.
Restoring ==
    ~ raced =>
       /\ At("restore") => \A p \in call.todo :
             file[p] \in {snapshot[p].latest, snapshot[p].previous}
       /\ At("restored") => \A p \in call.todo \ {call.path} :
             file[p] \in {snapshot[p].latest, snapshot[p].previous}

\* A result's digest is of what the command has read.
Reading ==
    ~ raced =>
       /\ \A r \in results : \A p \in DOMAIN r.digest : r.tested[p] = r.digest[p][1]
       /\ At("check") => call.tested = file

WsInv == Remembered /\ Writing /\ Restoring /\ Reading

\* A step that leaves the workspace alone.
LEMMA WsStays ==
    ASSUME WsInv, UNCHANGED <<file, snapshot, results>>, raced => raced',
           UNCHANGED call \/ call'.at \in {"none"} \cup PublishSteps
    PROVE  WsInv'
<1>1. UNCHANGED call \/ call'.at \notin {"write", "restore", "restored", "check"}
  BY DEF PublishSteps
<1> QED BY <1>1 DEF WsInv, Remembered, Writing, Restoring, Reading, At

\* A step of a workspace tool.
LEMMA WsNextKeeps ==
    ASSUME PubTypes, WsInv, WsNext
    PROVE  WsInv'
<1> USE WorkspaceAssumption
<1>0. WsTypes /\ CallTypes /\ call \in Call
  BY DEF PubTypes, CallTypes
<1>n. call' = NoCall => \A s \in Steps \ {"none"} : ~ At(s)'
  BY NoCallType DEF At
<1>e. {"write", "restore", "restored", "check"} \subseteq Steps \ {"none"}
  BY DEF Steps
<1>s. ASSUME NEW p \in Paths, NEW s, SaveSnapshot(p, s)
      PROVE  /\ snapshot'[p] = s
             /\ \A o \in Paths \ {p} : snapshot'[o] = snapshot[o]
  BY <1>0, <1>s DEF SaveSnapshot, WsTypes
<1>1. ASSUME NEW p \in Paths, NEW c \in WritesOf[p], NEW e \in States,
             Write(p, c, e)
      PROVE  WsInv'
  <2> DEFINE s == IF p \notin Owned THEN Created(p, c) ELSE Advanced(snapshot[p], c)
  <2>1. c \in States /\ c \notin Outside /\ file[p] \in States
    BY <1>0 DEF WsTypes, States
  <2>2. /\ call'.at = "write" /\ call'.path = p /\ call'.before = file[p]
    <3>1. call' = WriteCall(p, c, file[p])
      BY <1>1 DEF Write, WriteCall
    <3> QED BY <2>1, <3>1, WriteType
  <2>3. p \in Owned => snapshot[p] \in Snapshot /\ snapshot[p].latest = file[p]
    BY <1>0, <1>1 DEF Owned, WsTypes, Write, MayWrite
  <2>4. /\ s.latest = c
        /\ s.previous \in Outside => s.previous = s.original
        /\ file[p] \in Outside => file[p] = s.original
    BY <2>3 DEF WsInv, Remembered, Created, Advanced, Snapshot
  <2>5. SaveSnapshot(p, s)
    BY <1>1 DEF Write
  <2> HIDE DEF s
  <2>6. snapshot'[p] = s /\ \A o \in Paths \ {p} : snapshot'[o] = snapshot[o]
    BY <1>s, <2>5
  <2>7. Remembered'
    BY <2>1, <2>4, <2>6 DEF WsInv, Remembered
  <2>8. Writing' /\ Restoring' /\ Reading'
    BY <1>1, <2>2, <2>4, <2>6
       DEF WsInv, Writing, Restoring, Reading, At, Write
  <2> QED BY <2>7, <2>8 DEF WsInv
<1>2. ASSUME FinishWrite PROVE WsInv'
  BY <1>2, <1>n, <1>e
     DEF FinishWrite, Return, WsInv, Remembered, Writing, Restoring, Reading
<1>3. ASSUME FailWrite PROVE WsInv'
  <2> DEFINE p == call.path
             s == Advanced(snapshot[p], call.before)
  <2>1. p \in Paths /\ snapshot[p] \in Snapshot
    BY <1>0, <1>3 DEF FailWrite, CallTypes
  <2>2. /\ s.latest = call.before /\ s.original = snapshot[p].original
        /\ s.previous = snapshot[p].latest
    BY <2>1 DEF Advanced, Snapshot
  <2>3. SaveSnapshot(p, s)
    BY <1>3 DEF FailWrite
  <2> HIDE DEF s
  <2>4. snapshot'[p] = s /\ \A o \in Paths \ {p} : snapshot'[o] = snapshot[o]
    BY <1>s, <2>1, <2>3
  <2>5. Remembered'
    BY <1>3, <2>1, <2>2, <2>4 DEF WsInv, Remembered, Writing, FailWrite
  <2> QED BY <1>3, <1>n, <1>e, <2>5
          DEF FailWrite, Return, WsInv, Writing, Restoring, Reading
<1>4. ASSUME Restore PROVE WsInv'
  <2>1. Active \in SUBSET Paths
    BY DEF Active, Owned
  <2>2. call'.at = "restore" /\ call'.todo = Active
    <3>1. call' = RestoreCall(Active)
      BY <1>4 DEF Restore, RestoreCall
    <3> QED BY <2>1, <3>1, RestoreType
  <2> QED BY <1>4, <2>2
          DEF Restore, Restorable, WsInv, Remembered, Writing, Restoring, Reading, At
<1>5. ASSUME NEW p \in Paths, RestoreFile(p) PROVE WsInv'
  <2>1. call'.at = "restored" /\ call'.path = p /\ call'.todo = call.todo
    <3>1. call' = RestoredCall(call, p)
      BY <1>5 DEF RestoreFile, RestoredCall
    <3> QED BY <1>0, <3>1, RestoredType
  <2>2. \A o \in call.todo \ {p} : file'[o] = file[o]
    BY <1>0, <1>5 DEF RestoreFile, WsTypes, Call
  <2> QED BY <1>5, <2>1, <2>2
          DEF RestoreFile, WsInv, Remembered, Writing, Restoring, Reading, At
<1>6. ASSUME SaveRestored PROVE WsInv'
  <2> DEFINE p == call.path
             s == [Advanced(snapshot[p], snapshot[p].original) EXCEPT !.restored = TRUE]
             rest == call.todo \ {p}
  <2>1. p \in Paths /\ snapshot[p] \in Snapshot /\ rest \in SUBSET Paths
    BY <1>0, <1>6 DEF SaveRestored, CallTypes, Call
  <2>2. /\ s.latest = snapshot[p].original /\ s.original = snapshot[p].original
        /\ s.previous = snapshot[p].latest
    BY <2>1 DEF Advanced, Snapshot
  <2>3. SaveSnapshot(p, s)
    BY <1>6 DEF SaveRestored
  <2>4. call'.at = "none" \/ (call'.at = "restore" /\ call'.todo = rest)
    <3>1. call' = NoCall \/ call' = RestoreCall(rest)
      BY <1>6 DEF SaveRestored, RestoreCall
    <3> QED BY <2>1, <3>1, NoCallType, RestoreType
  <2> HIDE DEF s
  <2>5. snapshot'[p] = s /\ \A o \in Paths \ {p} : snapshot'[o] = snapshot[o]
    BY <1>s, <2>1, <2>3
  <2>6. Remembered'
    BY <2>1, <2>2, <2>5 DEF WsInv, Remembered
  <2>7. \A o \in rest : snapshot'[o] = snapshot[o]
    BY <2>1, <2>5
  <2> QED BY <1>6, <2>4, <2>6, <2>7
          DEF SaveRestored, WsInv, Writing, Restoring, Reading, At
<1>7. ASSUME NEW n \in Checks, RunCheck(n) PROVE WsInv'
  <2>1. call'.at = "check" /\ call'.tested = file
    <3>1. call' = CheckCall(n, file)
      BY <1>7 DEF RunCheck, CheckCall
    <3> QED BY <1>0, <3>1, CheckType DEF WsTypes
  <2> QED BY <1>7, <2>1
          DEF RunCheck, WsInv, Remembered, Writing, Restoring, Reading, At
<1>8. ASSUME NEW ok \in BOOLEAN, SaveResult(ok) PROVE WsInv'
  <2> DEFINE r == [check |-> call.check, passed |-> ok, digest |-> Digest,
                   tested |-> call.tested]
  <2>1. results' = results \cup {r} /\ raced' = raced /\ At("check")
    BY <1>8 DEF SaveResult, SaveVerification
  <2>2. ~ raced => \A p \in DOMAIN r.digest : r.tested[p] = r.digest[p][1]
    BY <1>0, <2>1, DigestType DEF WsInv, Reading
  <2> HIDE DEF r
  <2>3. ~ raced' => \A x \in results' : \A p \in DOMAIN x.digest :
                       x.tested[p] = x.digest[p][1]
    BY <2>1, <2>2 DEF WsInv, Reading
  <2> QED BY <1>8, <1>n, <1>e, <2>3
          DEF SaveResult, Return, WsInv, Remembered, Writing, Restoring, Reading
<1>9. ASSUME Abort PROVE WsInv'
  BY <1>9, <1>n, <1>e
     DEF Abort, Return, WsInv, Remembered, Writing, Restoring, Reading
<1>10. ASSUME NEW p \in Paths, NEW c \in Outside \cup {Original[p]}, Edit(p, c)
       PROVE  WsInv'
  <2>1. Idle => \A s \in Steps \ {"none"} : ~ At(s)
    BY NoCallType DEF Idle, At
  <2>2. /\ UNCHANGED <<snapshot, results, call>>
        /\ ~ raced' => ~ raced /\ Idle
    BY <1>0, <1>10 DEF Edit, Interfere, WsTypes
  <2> QED BY <1>e, <2>1, <2>2
          DEF WsInv, Remembered, Writing, Restoring, Reading, At
<1> QED BY <1>1, <1>2, <1>3, <1>4, <1>5, <1>6, <1>7, <1>8, <1>9, <1>10
        DEF WsNext, WriteTool, RestoreTool, CheckTool, OutsideEdit

-----------------------------------------------------------------------------
(* The record, the repository and the remote.                              *)

\* A commit of exactly what the record's payload names.
GoodCommit(c) ==
    LET payload == record.payload IN
    /\ c \in DOMAIN commits
    /\ commits[c].parent = payload.base
    /\ commits[c].titled
    /\ Differing(Tree(payload.base), Tree(c)) = payload.paths
    /\ \A p \in payload.paths : Tree(c)[p] = payload.digest[p][1]

\* What the record remembers of the moment it was prepared: the checks had
\* passed, and the goal's changes were what differed from the base.
Prepared ==
    record \in Records =>
       LET payload == record.payload
           base    == Tree(payload.base)
       IN
       /\ payload.base \in DOMAIN commits
       /\ payload.paths # {} /\ payload.paths \subseteq DOMAIN payload.digest
       /\ \A p \in payload.paths : payload.digest[p][1] # base[p]
       /\ \A p \in DOMAIN payload.digest \ payload.paths :
             payload.digest[p][1] = base[p]
       /\ \A n \in Checks : \E r \in results :
             r.check = n /\ r.passed /\ r.digest = payload.digest
       /\ ~ raced => payload \in approved

\* Where a call can be with a record.
Positions ==
    /\ call.at \in {"commit", "commitStaged", "committed"} =>
          record.status = "prepared"
    /\ call.at \in {"push", "pushed"} => record.status = "committed"
    /\ call.at \in {"pull", "noPull", "pulled"} => record.status = "pushed"

\* The effects the record claims, and the one a call is about to save.
Effects ==
    /\ At("pushed") \/ record.status \in {"pushed", "created"} =>
          remote = record.commit
    /\ \A n \in DOMAIN pulls :
          /\ record.status \in {"pushed", "created"}
          /\ pulls[n].commit = record.commit
    /\ At("pulled") => call.pull \in DOMAIN pulls
    /\ record.status = "created" => record.pull \in DOMAIN pulls

\* What a call has looked at is still so, if nobody has interfered with one.
Looked ==
    ~ raced =>
       /\ At("publish") => Payload \in approved
       /\ call.at \in {"commit", "commitStaged", "committed"} =>
             Payload = record.payload
       /\ At("commitStaged") =>
             /\ head = record.payload.base
             /\ \A p \in Paths :
                   index[p] = IF p \in record.payload.paths THEN file[p]
                              ELSE Tree(head)[p]
       /\ At("committed") => GoodCommit(head)
       /\ Begun => GoodCommit(record.commit)

RecordInv == Prepared /\ Positions /\ Effects /\ Looked

\* Commits are only added.
CommitsKept ==
    \A c \in DOMAIN commits : c \in DOMAIN commits' /\ commits'[c] = commits[c]

\* A good commit stays one.
LEMMA GoodCommitStays ==
    ASSUME NEW c, GoodCommit(c), CommitsKept, record'.payload = record.payload,
           record.payload.base \in DOMAIN commits
    PROVE  GoodCommit(c)'
BY DEF GoodCommit, CommitsKept, Tree, Differing

\* What was true when the record was prepared stays so.
LEMMA PreparedStays ==
    ASSUME PubTypes, Prepared, CommitsKept, results \subseteq results',
           approved \subseteq approved', raced => raced',
           record' \in Records => record \in Records /\ record'.payload = record.payload
    PROVE  Prepared'
<1>1. raced \in BOOLEAN
  BY DEF PubTypes, WsTypes
<1> QED BY <1>1 DEF Prepared, CommitsKept, Tree

\* The record's payload is that of its first save.
LEMMA RecordStatus ==
    ASSUME PubTypes
    PROVE  /\ record.status \in {"prepared", "committed", "pushed", "created"} =>
                 record \in Records
           /\ record # NoRecord => record \in Records
BY DEF PubTypes, RecordTypes, NoRecord

\* A step that leaves the record and the remote alone, and of which a running
\* publication sees nothing unless it is interference.
LEMMA RecordStays ==
    ASSUME PubTypes, RecordInv, CommitsKept, UNCHANGED <<remote, record>>,
           DOMAIN pulls' = DOMAIN pulls,
           \A n \in DOMAIN pulls : pulls'[n].commit = pulls[n].commit,
           results \subseteq results', approved \subseteq approved', raced => raced',
           \/ call'.at \notin PublishSteps
           \/ /\ UNCHANGED call
              /\ raced' \/ UNCHANGED <<file, snapshot, index, head>>
    PROVE  RecordInv'
<1>1. Prepared'
  BY PreparedStays DEF RecordInv
<1>2. Positions'
  BY DEF RecordInv, Positions, PublishSteps
<1>3. Effects'
  BY DEF RecordInv, Effects, At, PublishSteps
<1>4. Looked'
  <2> SUFFICES ASSUME ~ raced' PROVE Looked'
    BY DEF Looked
  <2>1. ~ raced
    OBVIOUS
  <2>2. Begun' => GoodCommit(record.commit)'
    <3>1. Begun' => Begun /\ record \in Records
      BY RecordStatus DEF Begun
    <3> QED BY <2>1, <3>1, GoodCommitStays DEF RecordInv, Looked, Prepared
  <2>3. CASE call'.at \notin PublishSteps
    BY <2>2, <2>3 DEF Looked, At, PublishSteps
  <2>4. CASE UNCHANGED call /\ UNCHANGED <<file, snapshot, index, head>>
    <3>1. Payload' = Payload
      BY <2>4 DEF Payload, Changed, Digest, Active, Owned
    <3>2. At("committed") => GoodCommit(head)'
      <4>1. At("committed") => record \in Records
        BY DEF PubTypes, RecordTypes, At, PublishSteps
      <4> QED BY <2>1, <2>4, <4>1, GoodCommitStays
              DEF RecordInv, Looked, Prepared
    <3>3. At("commitStaged") => commits'[head] = commits[head]
      BY DEF PubTypes, GitTypes, CommitsKept
    <3> QED BY <2>1, <2>2, <2>4, <3>1, <3>2, <3>3
            DEF RecordInv, Looked, At, Tree
  <2> QED BY <2>3, <2>4
<1> QED BY <1>1, <1>2, <1>3, <1>4 DEF RecordInv

\* The recorded commit stays good when the record and the commits do.
LEMMA BegunStays ==
    ASSUME PubTypes, RecordInv, CommitsKept, UNCHANGED record
    PROVE  ~ raced => (Begun' => GoodCommit(record.commit)')
<1>1. Begun => record \in Records
  BY RecordStatus DEF Begun
<1>2. Begun' <=> Begun
  BY DEF Begun
<1> QED BY <1>1, <1>2, GoodCommitStays DEF RecordInv, Looked, Prepared

\* A step that saves the next status, or the pull request.
LEMMA AdvanceKeepsPayload ==
    ASSUME NEW r \in Records, NEW status \in {"committed", "pushed", "created"},
           NEW c \in Nat, NEW n \in Nat
    PROVE  /\ LET x == [r EXCEPT !.status = status]
              IN  x.status = status /\ x.payload = r.payload
                  /\ x.commit = r.commit /\ x.pull = r.pull
           /\ LET x == [[r EXCEPT !.status = status] EXCEPT !.commit = c]
              IN  x.status = status /\ x.payload = r.payload /\ x.commit = c
           /\ LET x == [[r EXCEPT !.status = status] EXCEPT !.pull = n]
              IN  x.status = status /\ x.payload = r.payload
                  /\ x.commit = r.commit /\ x.pull = n
BY DEF Records

\* Prepare: the payload that is fixed is the one that was approved, and it is
\* what differs from the base.
LEMMA PrepareKeeps ==
    ASSUME PubTypes, RecordInv, Prepare
    PROVE  RecordInv'
<1>1. /\ call'.at = "commit" /\ UNCHANGED <<file, snapshot, results, raced>>
      /\ UNCHANGED <<commits, head, index, remote, pulls, approved>>
      /\ record' = NewRecord(Payload) /\ record = NoRecord
      /\ At("publish") /\ PayloadAllowed /\ MayPrepare
  BY GotoTypes DEF Prepare, SaveRecord, SameWorkspace, gitVars, outVars, PublishSteps
<1>2. /\ record'.status = "prepared" /\ record'.payload = Payload
      /\ record' # NoRecord /\ record.status = "none"
  BY <1>1 DEF NewRecord, NoRecord
<1>3. /\ Payload.base = head /\ Payload.paths = Changed /\ Payload.digest = Digest
      /\ DOMAIN Digest = Owned /\ Changed \subseteq Owned /\ Owned \subseteq Paths
      /\ \A p \in Owned : Digest[p][1] = file[p]
  BY <1>1, PayloadType, DigestType DEF PubTypes
<1>4. /\ index = Tree(head)
      /\ \A p \in Paths : p \in Changed <=> file[p] # Tree(head)[p]
  BY <1>1, <1>3 DEF MayPrepare, Staged, GitChanges, Differing
<1>5. Prepared'
  <2>1. head \in DOMAIN commits /\ Changed # {} /\ Verified
    BY <1>1 DEF PubTypes, GitTypes, PayloadAllowed
  <2>2. ~ raced => Payload \in approved
    BY <1>1 DEF RecordInv, Looked
  <2> QED BY <1>1, <1>2, <1>3, <1>4, <2>1, <2>2 DEF Prepared, Verified, Tree
<1>6. Positions'
  BY <1>1, <1>2 DEF Positions
<1>7. Effects'
  BY <1>1, <1>2 DEF RecordInv, Effects, At
<1>8. Payload' = record'.payload
  <2>1. Changed' = Changed /\ Digest' = Digest
    BY <1>1 DEF Changed, Digest, Active, Owned
  <2>2. Payload = [base |-> head, paths |-> Changed, digest |-> Digest]
    BY <1>1 DEF Payload
  <2>3. Payload' = [base |-> record'.payload.base, paths |-> Changed', digest |-> Digest']
    BY <1>2 DEF Payload
  <2>4. record'.payload.base = head
    BY <1>2, <1>3
  <2> QED BY <1>2, <2>1, <2>2, <2>3, <2>4
<1>9. Looked'
  BY <1>1, <1>2, <1>8 DEF Looked, At, Begun
<1> QED BY <1>5, <1>6, <1>7, <1>9 DEF RecordInv

\* git add: the index is the base with the changes.
LEMMA GitAddKeeps ==
    ASSUME PubTypes, RecordInv, GitAdd
    PROVE  RecordInv'
<1>1. /\ call'.at = "commitStaged" /\ UNCHANGED <<file, snapshot, results, raced>>
      /\ UNCHANGED <<commits, head, remote, pulls, record, approved>>
      /\ At("commit") /\ MayCommit
      /\ index' = [p \in Paths |->
                      IF p \in record.payload.paths THEN file[p] ELSE index[p]]
  BY GotoTypes DEF GitAdd, SameWorkspace, outVars, dbVars, PublishSteps
<1>2. CommitsKept
  BY <1>1 DEF CommitsKept
<1>3. Prepared'
  BY <1>1, <1>2, PreparedStays DEF RecordInv
<1>4. Positions' /\ Effects'
  BY <1>1 DEF RecordInv, Positions, Effects, At
<1>5. Payload' = Payload
  BY <1>1 DEF Payload, Changed, Digest, Active, Owned
<1>6. /\ head = record.payload.base
      /\ \A p \in Paths \ record.payload.paths : index[p] = Tree(head)[p]
  BY <1>1 DEF MayCommit, GitChanges, Differing
<1>7. Tree(head)' = Tree(head)
  BY <1>1 DEF Tree
<1>8. Looked'
  <2>1. ~ raced => (Begun' => GoodCommit(record.commit)')
    BY <1>1, <1>2, BegunStays
  <2>2. ~ raced => Payload = record.payload
    BY <1>1 DEF RecordInv, Looked, At
  <2> QED BY <1>1, <1>5, <1>6, <1>7, <2>1, <2>2 DEF Looked, At
<1> QED BY <1>3, <1>4, <1>8 DEF RecordInv

\* The changed paths have, in the payload, the content they have now.
LEMMA PayloadIsCurrent ==
    ASSUME PubTypes, record \in Records, Prepared, Payload = record.payload
    PROVE  /\ record.payload.paths = Changed /\ record.payload.digest = Digest
           /\ Changed \subseteq Paths /\ DOMAIN Digest = Owned /\ Changed \subseteq Owned
           /\ \A p \in Owned : record.payload.digest[p][1] = file[p]
BY PayloadType, DigestType DEF PubTypes

\* git commit: the commit is good.
LEMMA GitCommitKeeps ==
    ASSUME PubTypes, RecordInv, GitCommit
    PROVE  RecordInv'
<1>1. /\ call'.at = "committed" /\ UNCHANGED <<file, snapshot, results, raced>>
      /\ UNCHANGED <<remote, pulls, record, approved>>
      /\ At("commitStaged") /\ NewCommit(index, TRUE)
  BY GotoTypes DEF GitCommit, SameWorkspace, outVars, dbVars, PublishSteps
<1>2. /\ CommitsKept /\ head' \in DOMAIN commits'
      /\ commits'[head'] = [parent |-> head, tree |-> index, titled |-> TRUE]
  BY <1>1, NewCommitTypes DEF CommitsKept, PubTypes, GitTypes
<1>3. Prepared'
  BY <1>1, <1>2, PreparedStays DEF RecordInv
<1>4. Positions' /\ Effects'
  BY <1>1 DEF RecordInv, Positions, Effects, At
<1>5. record \in Records /\ record # NoRecord
  BY <1>1 DEF PubTypes, RecordTypes, At, PublishSteps, Records, NoRecord
<1>6. Payload' = Payload
  BY <1>1, <1>5 DEF Payload, Changed, Digest, Active, Owned
<1>7. ASSUME ~ raced PROVE Payload = record.payload /\ GoodCommit(head)'
  <2> DEFINE payload == record.payload
             base == commits[payload.base].tree
  <2>1. /\ Payload = payload /\ head = payload.base
        /\ \A p \in Paths : index[p] = IF p \in payload.paths THEN file[p]
                                       ELSE base[p]
    BY <1>1, <1>7 DEF RecordInv, Looked, At, Tree
  <2>2. /\ payload.paths \subseteq Paths
        /\ \A p \in payload.paths : payload.digest[p][1] = file[p]
        /\ payload.base \in DOMAIN commits
        /\ \A p \in payload.paths : payload.digest[p][1] # base[p]
    BY <1>5, <2>1, PayloadIsCurrent DEF RecordInv, Prepared, Tree
  <2>3. {p \in Paths : base[p] # index[p]} = payload.paths
    BY <2>1, <2>2
  <2>4. \A p \in payload.paths : index[p] = payload.digest[p][1]
    BY <2>1, <2>2
  <2>5. commits'[payload.base].tree = base /\ commits'[head'].tree = index
    BY <1>2, <2>2 DEF CommitsKept
  <2>6. /\ commits'[head'].parent = payload.base
        /\ commits'[head'].titled
    BY <1>2, <2>1
  <2>7. record'.payload = payload
    BY <1>1
  <2> HIDE DEF payload, base
  <2>8. GoodCommit(head)'
    BY <1>2, <2>3, <2>4, <2>5, <2>6, <2>7 DEF GoodCommit, Differing, Tree
  <2> QED BY <2>1, <2>8 DEF payload
<1>8. Looked'
  <2>1. ~ raced => (Begun' => GoodCommit(record.commit)')
    BY <1>1, <1>2, BegunStays
  <2> QED BY <1>1, <1>6, <1>7, <2>1 DEF Looked, At
<1> QED BY <1>3, <1>4, <1>8 DEF RecordInv

\* A step of a call that leaves every store alone.
LEMMA StoresStay ==
    ASSUME PubTypes, RecordInv, UNCHANGED <<file, snapshot, results, raced>>,
           UNCHANGED <<commits, head, index, remote, pulls, record, approved>>
    PROVE  /\ Prepared' /\ Payload' = Payload
           /\ ~ raced => (Begun' => GoodCommit(record.commit)')
<1>1. CommitsKept
  BY DEF CommitsKept
<1>2. Prepared'
  BY <1>1, PreparedStays DEF RecordInv
<1>3. Payload' = Payload
  BY DEF Payload, Changed, Digest, Active, Owned
<1> QED BY <1>1, <1>2, <1>3, BegunStays

\* The call that publishes begins with the payload that was approved, and goes
\* on where the record says.
LEMMA PublishKeeps ==
    ASSUME PubTypes, RecordInv, Publish \/ Resume
    PROVE  RecordInv'
<1>1. /\ UNCHANGED <<file, snapshot, results, raced>>
      /\ UNCHANGED <<commits, head, index, remote, pulls, record, approved>>
  BY DEF Publish, Resume, SameWorkspace, gitVars, outVars, dbVars
<1>2. /\ Prepared' /\ Payload' = Payload
      /\ ~ raced => (Begun' => GoodCommit(record.commit)')
  BY <1>1, StoresStay
<1>3. CASE Publish
  <2>1. call' = PublishCall(Payload) /\ Payload \in approved
    BY <1>3 DEF Publish, PublishCall, IsApproved
  <2>2. call'.at = "publish"
    BY <2>1, PayloadType, PublishType
  <2> QED BY <1>1, <1>2, <2>1, <2>2 DEF RecordInv, Positions, Effects, Looked, At
<1>4. CASE Resume
  <2>1. record \in Records /\ Payload = record.payload
    BY <1>4, RecordStatus DEF Resume, SamePayload
  <2>2. \/ call'.at = "none"
        \/ call'.at = Continue /\ record.status # "created"
    BY <1>4, GotoTypes, ReturnTypes DEF Resume, Continue, PublishSteps
  <2>3. \/ call'.at = "none"
        \/ call'.at = "commit" /\ record.status = "prepared"
        \/ call'.at = "push" /\ record.status = "committed"
        \/ call'.at = "pull" /\ record.status = "pushed"
    BY <2>1, <2>2 DEF Continue, Records
  <2> QED BY <1>1, <1>2, <2>1, <2>3 DEF RecordInv, Positions, Effects, Looked, At
<1> QED BY <1>3, <1>4

\* The commit of an interrupted call is recognised: it is good.
LEMMA RecoverCommitKeeps ==
    ASSUME PubTypes, RecordInv, RecoverCommit
    PROVE  RecordInv'
<1>1. /\ call'.at = "committed" /\ UNCHANGED <<file, snapshot, results, raced>>
      /\ UNCHANGED <<commits, head, index, remote, pulls, record, approved>>
      /\ At("commit") /\ MayRecover
  BY GotoTypes DEF RecoverCommit, SameWorkspace, gitVars, outVars, dbVars, PublishSteps
<1>2. /\ Prepared' /\ Payload' = Payload
      /\ ~ raced => (Begun' => GoodCommit(record.commit)')
  BY <1>1, StoresStay
<1>3. Positions' /\ Effects'
  BY <1>1 DEF RecordInv, Positions, Effects, At
<1>4. record \in Records
  BY <1>1 DEF PubTypes, RecordTypes, At, PublishSteps
<1>5. ASSUME ~ raced PROVE Payload = record.payload /\ GoodCommit(head)
  <2>1. Payload = record.payload
    BY <1>1, <1>5 DEF RecordInv, Looked, At
  <2>2. \A p \in record.payload.paths : p \in Paths /\ record.payload.digest[p][1] = file[p]
    BY <1>4, <2>1, PayloadIsCurrent DEF RecordInv
  <2>3. \A p \in Paths : file[p] = Tree(head)[p]
    BY <1>1 DEF MayRecover, GitChanges, Differing
  <2>4. head \in DOMAIN commits
    BY DEF PubTypes, GitTypes
  <2> QED BY <1>1, <2>1, <2>2, <2>3, <2>4 DEF MayRecover, CommittedPaths, GoodCommit
<1>6. GoodCommit(head) => GoodCommit(head)'
  BY <1>1 DEF GoodCommit, Tree, Differing
<1>7. Looked'
  BY <1>1, <1>2, <1>5, <1>6 DEF Looked, At
<1> QED BY <1>2, <1>3, <1>7 DEF RecordInv

\* The commit is recorded.
LEMMA SaveCommittedKeeps ==
    ASSUME PubTypes, RecordInv, SaveCommitted
    PROVE  RecordInv'
<1>1. /\ call'.at = "push" /\ UNCHANGED <<file, snapshot, results, raced>>
      /\ UNCHANGED <<commits, head, index, remote, pulls, approved>>
      /\ At("committed")
      /\ record' = [AdvanceRecord("committed") EXCEPT !.commit = head]
  BY GotoTypes DEF SaveCommitted, SaveRecord, SameWorkspace, gitVars, outVars, PublishSteps
<1>2. record \in Records /\ head \in Nat
  BY <1>1 DEF PubTypes, RecordTypes, GitTypes, At, PublishSteps
<1>3. /\ record'.status = "committed" /\ record'.payload = record.payload
      /\ record'.commit = head
  BY <1>1, <1>2, AdvanceKeepsPayload DEF AdvanceRecord
<1>4. Prepared'
  <2>1. CommitsKept
    BY <1>1 DEF CommitsKept
  <2> QED BY <1>1, <1>2, <1>3, <2>1, PreparedStays DEF RecordInv
<1>5. Positions'
  BY <1>1, <1>3 DEF Positions
<1>6. Effects'
  <2>1. record.status = "prepared"
    BY <1>1 DEF RecordInv, Positions, At
  <2>2. DOMAIN pulls = {}
    BY <2>1 DEF RecordInv, Effects
  <2> QED BY <1>1, <1>3, <2>2 DEF Effects, At
<1>7. Looked'
  <2>1. ~ raced => GoodCommit(head)
    BY <1>1 DEF RecordInv, Looked
  <2>2. GoodCommit(head) => GoodCommit(record.commit)'
    BY <1>1, <1>3 DEF GoodCommit, Tree, Differing
  <2> QED BY <1>1, <2>1, <2>2 DEF Looked, At
<1> QED BY <1>4, <1>5, <1>6, <1>7 DEF RecordInv

\* git push: the remote has the recorded commit.
LEMMA GitPushKeeps ==
    ASSUME PubTypes, RecordInv, GitPush
    PROVE  RecordInv'
<1>1. /\ call'.at = "pushed" /\ UNCHANGED <<file, snapshot, results, raced>>
      /\ UNCHANGED <<commits, head, index, pulls, record, approved>>
      /\ At("push") /\ remote' = head /\ head = record.commit
  BY GotoTypes DEF GitPush, MayPush, HeadIsCommit, SameWorkspace, gitVars, dbVars,
                   PublishSteps
<1>2. CommitsKept
  BY <1>1 DEF CommitsKept
<1>3. Prepared'
  BY <1>1, <1>2, PreparedStays DEF RecordInv
<1>4. record.status = "committed"
  BY <1>1 DEF RecordInv, Positions, At
<1>5. Positions' /\ Effects'
  BY <1>1, <1>4 DEF RecordInv, Positions, Effects, At
<1>6. Looked'
  BY <1>1, <1>2, BegunStays DEF Looked, At
<1> QED BY <1>3, <1>5, <1>6 DEF RecordInv

\* The push, or the pull request, is recorded.
LEMMA SavePushedKeeps ==
    ASSUME PubTypes, RecordInv, SavePushed \/ SavePull
    PROVE  RecordInv'
<1>1. /\ UNCHANGED <<file, snapshot, results, raced>>
      /\ UNCHANGED <<commits, head, index, remote, pulls, approved>>
      /\ \/ /\ At("pushed") /\ call'.at = "pull"
            /\ record' = AdvanceRecord("pushed")
         \/ /\ At("pulled") /\ call'.at = "none"
            /\ record' = [AdvanceRecord("created") EXCEPT !.pull = call.pull]
  BY GotoTypes, ReturnTypes
     DEF SavePushed, SavePull, SaveRecord, SameWorkspace, gitVars, outVars, PublishSteps
<1>2. record \in Records /\ call.pull \in Nat
  BY <1>1 DEF PubTypes, RecordTypes, CallTypes, Call, At, PublishSteps
<1>3. /\ record'.payload = record.payload /\ record'.commit = record.commit
      /\ \/ At("pushed") /\ call'.at = "pull" /\ record'.status = "pushed"
         \/ /\ At("pulled") /\ call'.at = "none" /\ record'.status = "created"
            /\ record'.pull = call.pull
  <2>1. CASE At("pushed") /\ call'.at = "pull" /\ record' = AdvanceRecord("pushed")
    BY <1>2, <2>1, AdvanceKeepsPayload DEF AdvanceRecord
  <2>2. CASE /\ At("pulled") /\ call'.at = "none"
             /\ record' = [AdvanceRecord("created") EXCEPT !.pull = call.pull]
    BY <1>2, <2>2, AdvanceKeepsPayload DEF AdvanceRecord
  <2> QED BY <1>1, <2>1, <2>2
<1>4. Prepared'
  <2>1. CommitsKept
    BY <1>1 DEF CommitsKept
  <2> QED BY <1>1, <1>2, <1>3, <2>1, PreparedStays DEF RecordInv
<1>5. Positions'
  BY <1>3 DEF Positions
<1>6. record.status \in {"committed", "pushed"} /\ remote = record.commit
  BY <1>3 DEF RecordInv, Positions, Effects, At
<1>7. Effects'
  BY <1>1, <1>3, <1>6 DEF RecordInv, Effects, At
<1>8. Looked'
  <2>1. ~ raced => GoodCommit(record.commit)
    BY <1>6 DEF RecordInv, Looked, Begun
  <2>2. GoodCommit(record.commit) => GoodCommit(record.commit)'
    BY <1>1, <1>3 DEF GoodCommit, Tree, Differing
  <2> QED BY <1>1, <1>3, <2>1, <2>2 DEF Looked, At
<1> QED BY <1>4, <1>5, <1>7, <1>8 DEF RecordInv

\* The pull request is found, or opened at the commit the remote has.
LEMMA FindPullKeeps ==
    ASSUME PubTypes, RecordInv, FindPull
    PROVE  RecordInv'
<1>1. /\ UNCHANGED <<file, snapshot, results, raced>>
      /\ UNCHANGED <<commits, head, index, remote, pulls, record, approved>>
      /\ At("pull")
  BY DEF FindPull, SameWorkspace, gitVars, outVars, dbVars
<1>2. /\ Prepared' /\ Payload' = Payload
      /\ ~ raced => (Begun' => GoodCommit(record.commit)')
  BY <1>1, StoresStay
<1>3. \/ call'.at = "noPull"
      \/ call'.at = "pulled" /\ call'.pull \in DOMAIN pulls
  <2>1. ASSUME NEW n \in OpenPulls, call' = [call EXCEPT !.at = "pulled", !.pull = n]
        PROVE  call'.at = "pulled" /\ call'.pull \in DOMAIN pulls
    <3>1. n \in DOMAIN pulls /\ n \in Nat /\ call \in Call
      BY DEF OpenPulls, PubTypes, GitTypes, CallTypes
    <3>2. call' = PulledCall(call, n)
      BY <2>1 DEF PulledCall
    <3> QED BY <3>1, <3>2, PulledType
  <2>2. Goto("noPull") => call'.at = "noPull"
    BY GotoTypes DEF PublishSteps
  <2> QED BY <2>1, <2>2 DEF FindPull
<1>4. record.status = "pushed"
  BY <1>1 DEF RecordInv, Positions, At
<1> QED BY <1>1, <1>2, <1>3, <1>4 DEF RecordInv, Positions, Effects, Looked, At

LEMMA CreatePullKeeps ==
    ASSUME PubTypes, RecordInv, CreatePull
    PROVE  RecordInv'
<1>1. /\ UNCHANGED <<file, snapshot, results, raced>>
      /\ UNCHANGED <<commits, head, index, remote, record, approved>>
      /\ At("noPull")
      /\ pulls' = Append(pulls, [open |-> TRUE, commit |-> remote])
  BY DEF CreatePull, SameWorkspace, gitVars, dbVars
<1>2. CommitsKept
  BY <1>1 DEF CommitsKept
<1>3. Prepared'
  BY <1>1, <1>2, PreparedStays DEF RecordInv
<1>4. record.status = "pushed" /\ remote = record.commit
  BY <1>1 DEF RecordInv, Positions, Effects, At
<1>5. /\ call'.at = "pulled" /\ call'.pull = Len(pulls) + 1
      /\ DOMAIN pulls' = DOMAIN pulls \cup {Len(pulls) + 1}
      /\ pulls'[Len(pulls) + 1].commit = remote
      /\ \A n \in DOMAIN pulls : pulls'[n] = pulls[n]
  <2>1. pulls \in Seq(Pulls) /\ remote \in Nat /\ call \in Call /\ Len(pulls) + 1 \in Nat
    BY DEF PubTypes, GitTypes, CallTypes
  <2>2. [open |-> TRUE, commit |-> remote] \in Pulls
    BY <2>1 DEF Pulls
  <2>3. call' = PulledCall(call, Len(pulls) + 1)
    BY DEF CreatePull, PulledCall
  <2>4. call'.at = "pulled" /\ call'.pull = Len(pulls) + 1
    BY <2>1, <2>3, PulledType
  <2> QED BY <1>1, <2>1, <2>2, <2>4, Appended
<1>6. Effects'
  BY <1>1, <1>4, <1>5 DEF RecordInv, Effects, At
<1>7. Positions'
  BY <1>1, <1>4, <1>5 DEF Positions
<1>8. Looked'
  BY <1>1, <1>2, <1>5, BegunStays DEF Looked, At
<1> QED BY <1>3, <1>6, <1>7, <1>8 DEF RecordInv

\* A running publication sees nothing of a step of the workspace that is not
\* interference.
LEMMA WsNextSeen ==
    ASSUME PubTypes, WsNext
    PROVE  /\ results \subseteq results'
           /\ raced => raced'
           /\ UNCHANGED call => call'.at \notin PublishSteps \/ raced'
<1> DEFINE Seen == /\ results \subseteq results'
                   /\ raced => raced'
                   /\ UNCHANGED call => call'.at \notin PublishSteps \/ raced'
<1>1. Idle \/ At("write") \/ At("restore") \/ At("restored") \/ At("check")
         => call.at \notin PublishSteps
  BY NoCallType DEF Idle, At, PublishSteps
<1>2. ASSUME WriteTool PROVE Seen
  <2>1. UNCHANGED <<results, raced>> /\ (Idle \/ At("write"))
    BY <1>2 DEF WriteTool, Write, FinishWrite, FailWrite
  <2> QED BY <1>1, <2>1
<1>3. ASSUME RestoreTool PROVE Seen
  <2>1. UNCHANGED <<results, raced>> /\ (Idle \/ At("restore") \/ At("restored"))
    BY <1>3 DEF RestoreTool, Restore, RestoreFile, SaveRestored
  <2> QED BY <1>1, <2>1
<1>4. ASSUME CheckTool PROVE Seen
  <2>1. /\ results \subseteq results' /\ UNCHANGED raced
        /\ Idle \/ At("check")
    BY <1>4 DEF CheckTool, RunCheck, SaveResult, SaveVerification
  <2> QED BY <1>1, <2>1
<1>5. ASSUME Abort PROVE Seen
  BY <1>5 DEF Abort, Return, Idle
<1>6. ASSUME OutsideEdit PROVE Seen
  <2>1. UNCHANGED results /\ raced' = (raced \/ ~ Idle)
    BY <1>6 DEF OutsideEdit, Edit, Interfere
  <2>2. Idle => call.at \notin PublishSteps
    BY <1>1
  <2>3. raced \in BOOLEAN /\ Idle \in BOOLEAN
    BY DEF PubTypes, WsTypes, Idle
  <2> QED BY <2>1, <2>2, <2>3
<1> QED BY <1>2, <1>3, <1>4, <1>5, <1>6 DEF WsNext

\* Other people's commits, staged paths and closed pull requests.
LEMMA OutsideKeeps ==
    ASSUME PubTypes, WsInv, RecordInv, OutsideGit
    PROVE  WsInv' /\ RecordInv'
<1>1. /\ UNCHANGED <<file, snapshot, results, call>>
      /\ raced => raced'
      /\ call.at \in PublishSteps => raced'
  <2>1. raced \in BOOLEAN /\ Idle \in BOOLEAN
    BY DEF PubTypes, WsTypes, Idle
  <2>2. Idle => call.at \notin PublishSteps
    BY NoCallType DEF Idle, PublishSteps
  <2> QED BY <2>1, <2>2, OutsideTypes
<1>2. WsInv'
  BY <1>1, WsStays
<1>3. UNCHANGED <<remote, record, approved>>
  BY DEF OutsideGit, CommitOutside, StageOutside, ClosePull, outVars, dbVars
<1>4. /\ CommitsKept /\ DOMAIN pulls' = DOMAIN pulls
      /\ \A n \in DOMAIN pulls : pulls'[n].commit = pulls[n].commit
  <2>1. ASSUME NEW titled \in BOOLEAN, CommitOutside(titled)
        PROVE  CommitsKept /\ UNCHANGED pulls
    BY <2>1, NewCommitTypes DEF CommitOutside, CommitsKept, outVars, PubTypes, WsTypes
  <2>2. ASSUME NEW p \in Paths, StageOutside(p)
        PROVE  CommitsKept /\ UNCHANGED pulls
    BY <2>2 DEF StageOutside, CommitsKept, outVars
  <2>3. ASSUME NEW n \in DOMAIN pulls, ClosePull(n)
        PROVE  /\ CommitsKept /\ DOMAIN pulls' = DOMAIN pulls
               /\ \A m \in DOMAIN pulls : pulls'[m].commit = pulls[m].commit
    <3>1. pulls \in Seq(Pulls)
      BY DEF PubTypes, GitTypes
    <3>2. \A m \in DOMAIN pulls : pulls[m] \in Pulls
      BY <3>1
    <3>3. /\ UNCHANGED commits
          /\ pulls' = [pulls EXCEPT ![n] = [pulls[n] EXCEPT !.open = FALSE]]
      BY <2>3 DEF ClosePull, gitVars
    <3>4. [pulls[n] EXCEPT !.open = FALSE].commit = pulls[n].commit
      BY <3>2 DEF Pulls
    <3> QED BY <3>1, <3>3, <3>4 DEF CommitsKept
  <2> QED BY <2>1, <2>2, <2>3 DEF OutsideGit
<1> QED BY <1>1, <1>2, <1>3, <1>4, RecordStays

\* A step of the publication leaves the workspace alone.
LEMMA PublishToolKeeps ==
    ASSUME PubTypes, WsInv, RecordInv, PublishTool
    PROVE  WsInv' /\ RecordInv'
<1>1. call'.at \in {"none"} \cup PublishSteps
  <2>1. CASE Publish
    <3>1. call' = PublishCall(Payload)
      BY <2>1 DEF Publish, PublishCall
    <3> QED BY <3>1, PayloadType, PublishType DEF PublishSteps
  <2>2. CASE Resume
    <3>1. Continue \in PublishSteps
      BY DEF Continue, PublishSteps
    <3> QED BY <2>2, <3>1, GotoTypes, ReturnTypes DEF Resume
  <2>3. CASE FindPull
    <3>1. ASSUME NEW n \in OpenPulls, call' = [call EXCEPT !.at = "pulled", !.pull = n]
          PROVE  call'.at = "pulled"
      <4>1. call \in Call /\ n \in Nat
        BY DEF PubTypes, CallTypes, GitTypes, OpenPulls
      <4>2. call' = PulledCall(call, n)
        BY <3>1 DEF PulledCall
      <4> QED BY <4>1, <4>2, PulledType
    <3> QED BY <2>3, <3>1, GotoTypes DEF FindPull, PublishSteps
  <2>4. CASE CreatePull
    <3>1. call \in Call /\ Len(pulls) + 1 \in Nat
      BY DEF PubTypes, CallTypes, GitTypes
    <3>2. call' = PulledCall(call, Len(pulls) + 1)
      BY <2>4 DEF CreatePull, PulledCall
    <3> QED BY <3>1, <3>2, PulledType DEF PublishSteps
  <2>5. CASE SavePull
    BY <2>5, ReturnTypes DEF SavePull
  <2>6. CASE Prepare \/ GitAdd \/ GitCommit \/ RecoverCommit \/ SaveCommitted
             \/ GitPush \/ SavePushed
    BY <2>6, GotoTypes DEF Prepare, GitAdd, GitCommit, RecoverCommit, SaveCommitted,
                          GitPush, SavePushed, PublishSteps
  <2> QED BY <2>1, <2>2, <2>3, <2>4, <2>5, <2>6 DEF PublishTool
<1>2. WsInv'
  BY <1>1, PublishToolTypes, WsStays
<1> QED BY <1>2, PrepareKeeps, GitAddKeeps, GitCommitKeeps, PublishKeeps,
           RecoverCommitKeeps, SaveCommittedKeeps, GitPushKeeps, SavePushedKeeps,
           FindPullKeeps, CreatePullKeeps DEF PublishTool

PubInv == PubTypes /\ WsInv /\ RecordInv

LEMMA InitInv == PubInit => PubInv
<1> SUFFICES ASSUME PubInit PROVE PubInv
  OBVIOUS
<1>1. PubTypes
  BY InitTypes
<1>2. call.at = "none"
  BY NoCallType DEF PubInit, WsInit
<1>3. WsInv
  <2>1. Null \in Outside => NoSnapshot.latest = NoSnapshot.original
    BY DEF NoSnapshot
  <2> QED BY <1>2 DEF PubInit, WsInit, WsInv, Remembered, Writing, Restoring,
                      Reading, At, NoSnapshot
<1>4. record.status = "none" /\ record = NoRecord /\ pulls = <<>>
  BY DEF PubInit, NoRecord
<1>5. record \notin Records
  BY <1>4 DEF Records
<1>6. RecordInv
  BY <1>2, <1>4, <1>5 DEF RecordInv, Prepared, Positions, Effects, Looked, At, Begun
<1> QED BY <1>1, <1>3, <1>6 DEF PubInv

LEMMA NextInv == PubInv /\ [PubNext]_pubVars => PubInv'
<1> SUFFICES ASSUME PubInv, [PubNext]_pubVars PROVE PubInv'
  OBVIOUS
<1>0. PubTypes /\ WsInv /\ RecordInv /\ PubTypes'
  BY NextTypes DEF PubInv
<1>1. CASE UNCHANGED <<wsVars, gitVars, outVars, record>> /\ approved \subseteq approved'
  <2>1. UNCHANGED <<file, snapshot, results, call, edits, raced, commits, head, index,
                    remote, pulls, record>>
    BY <1>1 DEF wsVars, gitVars, outVars
  <2>2. WsInv'
    BY <1>0, <2>1, WsStays
  <2>3. RecordInv'
    BY <1>0, <1>1, <2>1, RecordStays DEF CommitsKept
  <2> QED BY <1>0, <2>2, <2>3 DEF PubInv
<1>2. ASSUME WsNext, UNCHANGED <<gitVars, outVars, dbVars>> PROVE PubInv'
  <2>1. WsInv'
    BY <1>0, <1>2, WsNextKeeps
  <2>2. UNCHANGED <<commits, head, index, remote, pulls, record, approved>>
    BY <1>2 DEF gitVars, outVars, dbVars
  <2>3. RecordInv'
    <3>1. \/ call'.at \notin PublishSteps
          \/ UNCHANGED call /\ raced'
      BY <1>0, <1>2, WsNextTypes, WsNextSeen
    <3> QED BY <1>0, <1>2, <2>2, <3>1, WsNextSeen, RecordStays DEF CommitsKept
  <2> QED BY <1>0, <2>1, <2>3 DEF PubInv
<1>3. CASE UNCHANGED pubVars
  <2>1. UNCHANGED <<wsVars, gitVars, outVars, record, approved>>
    BY <1>3 DEF pubVars, dbVars
  <2> QED BY <1>1, <2>1
<1>4. CASE Operator \/ Review
  BY <1>0, <1>1, <1>4, OperatorTypes
<1>5. CASE PublishTool \/ OutsideGit
  BY <1>0, <1>5, PublishToolKeeps, OutsideKeeps DEF PubInv
<1> QED BY <1>2, <1>3, <1>4, <1>5 DEF PubNext

\* For any checkout, crashes and interference: the invariant.
THEOREM PublicationInvariant == PubSpec => []PubInv
BY InitInv, NextInv, PTL DEF PubSpec

-----------------------------------------------------------------------------
(* What the invariant is for.                                              *)

\* For any checkout, crashes and interference between two calls: the record
\* never claims a commit, a push or a pull request that has not happened.
THEOREM EffectsHappened == PubSpec => []RecordedEffectsHappened
<1>1. ASSUME PubInv PROVE RecordedEffectsHappened
  <2>1. ~ raced /\ Begun => GoodCommit(record.commit)
    BY <1>1 DEF PubInv, RecordInv, Looked
  <2> QED BY <1>1, <2>1
          DEF PubInv, RecordInv, Effects, GoodCommit, RecordedEffectsHappened
<1> QED BY <1>1, PublicationInvariant, PTL

\* A passing result for a digest has read what the digest is of.
LEMMA TestedContent ==
    ASSUME PubInv, ~ raced, NEW digest, NEW paths, paths \subseteq DOMAIN digest,
           NEW content, \A p \in paths : content[p] = digest[p][1],
           \A n \in Checks : \E r \in results :
              r.check = n /\ r.passed /\ r.digest = digest
    PROVE  Tested(paths, content)
<1>1. \A r \in results : \A p \in DOMAIN r.digest : r.tested[p] = r.digest[p][1]
  BY DEF PubInv, WsInv, Reading
<1> QED BY <1>1 DEF Tested

\* For any checkout, crashes and interference between two calls: the commit
\* that is recorded follows the approved base and changes exactly the approved
\* paths, to content that passed every check.
THEOREM PublicationsAreVerified == PubSpec => []PublishedWasVerified
<1>1. ASSUME PubInv PROVE PublishedWasVerified
  <2> SUFFICES ASSUME ~ raced, Begun PROVE PublishedWasVerified
    BY DEF PublishedWasVerified
  <2> DEFINE payload == record.payload
             tree == Tree(record.commit)
  <2>1. record \in Records
    BY <1>1, RecordStatus DEF PubInv, Begun
  <2>2. GoodCommit(record.commit) /\ Prepared
    BY <1>1 DEF PubInv, RecordInv, Looked
  <2>3. \A p \in payload.paths : tree[p] = payload.digest[p][1]
    BY <2>2 DEF GoodCommit
  <2>4. Tested(payload.paths, tree)
    BY <1>1, <2>1, <2>2, <2>3, TestedContent DEF Prepared
  <2>5. payload \in approved
    BY <2>1, <2>2 DEF Prepared
  <2> QED BY <2>2, <2>3, <2>4, <2>5 DEF GoodCommit, PublishedWasVerified
<1> QED BY <1>1, PublicationInvariant, PTL

\* For any checkout, crashes and interference between two calls: a goal is
\* accepted with content that passed every check, and with a pull request.
THEOREM AcceptancesAreVerified == PubSpec => []AcceptedWasVerified
<1>1. PubInit => AcceptedWasVerified
  BY DEF PubInit, AcceptedWasVerified
<1>2. PubInv /\ AcceptedWasVerified /\ [PubNext]_pubVars => AcceptedWasVerified'
  <2> SUFFICES ASSUME PubInv, AcceptedWasVerified, [PubNext]_pubVars
               PROVE  AcceptedWasVerified'
    OBVIOUS
  <2>1. CASE UNCHANGED pubVars
    BY <2>1 DEF AcceptedWasVerified, Tested, Owned, pubVars, wsVars, outVars
  <2>2. ASSUME accepted = Null, UNCHANGED accepted PROVE AcceptedWasVerified'
    BY <2>2 DEF AcceptedWasVerified
  <2>3. CASE Review
    <3>1. /\ UNCHANGED <<file, snapshot, results, raced, pulls>> /\ accepted' = file
          /\ Verified /\ record.status = "created"
      BY <2>3 DEF Review, wsVars, outVars
    <3>2. pulls # <<>>
      BY <3>1 DEF PubInv, RecordInv, Effects
    <3>3. ~ raced => Tested(Owned, file)
      <4>1. DOMAIN Digest = Owned /\ \A p \in Owned : file[p] = Digest[p][1]
        BY DigestType DEF PubInv, PubTypes
      <4> QED BY <3>1, <4>1, TestedContent DEF Verified
    <3> QED BY <3>1, <3>2, <3>3 DEF AcceptedWasVerified, Tested, Owned
  <2>4. CASE PublishTool
    <3>1. UNCHANGED accepted
      BY <2>4 DEF PublishTool, Publish, Prepare, Resume, GitAdd, GitCommit,
                  RecoverCommit, SaveCommitted, GitPush, SavePushed, FindPull,
                  CreatePull, SavePull
    <3> QED BY <2>1, <2>2, <3>1 DEF PubNext
  <2>5. CASE Operator \/ OutsideGit
    <3>1. UNCHANGED accepted
      BY <2>5 DEF Operator, RequestPublication, Approve, OutsideGit, CommitOutside,
                  StageOutside, ClosePull
    <3> QED BY <2>1, <2>2, <3>1 DEF PubNext
  <2> QED BY <2>1, <2>2, <2>3, <2>4, <2>5 DEF PubNext
<1> QED BY <1>1, <1>2, PublicationInvariant, PTL DEF PubSpec

\* For any checkout, crashes and interference between two calls: a write or a
\* restore replaces content from outside only where it is the recovery point.
THEOREM OutsideWorkIsKept == PubSpec => OutsideWorkSurvives
<1> DEFINE Survives(p) ==
       file[p] \in Outside /\ file'[p] # file[p] /\ edits' = edits /\ ~ raced
          => snapshot[p].original = file[p]
<1>1. PubInv /\ [PubNext]_pubVars => \A p \in Paths : Survives(p)
  <2> SUFFICES ASSUME PubInv, [PubNext]_pubVars, NEW q \in Paths
               PROVE  Survives(q)
    OBVIOUS
  <2>0. WsTypes /\ CallTypes /\ WsInv
    BY DEF PubInv, PubTypes
  <2>1. ASSUME UNCHANGED file \/ edits' = edits + 1 PROVE Survives(q)
    BY <2>0, <2>1 DEF WsTypes
  <2>2. CASE FinishWrite
    <3>1. file' = [file EXCEPT ![call.path] = call.content] /\ At("write")
      BY <2>2 DEF FinishWrite
    <3>2. CASE q = call.path
      BY <2>0, <3>1, <3>2 DEF WsInv, Writing
    <3>3. CASE q # call.path
      BY <2>0, <3>1, <3>3 DEF WsTypes
    <3> QED BY <3>2, <3>3
  <2>3. ASSUME NEW p \in Paths, RestoreFile(p) PROVE Survives(q)
    <3>1. /\ file' = [file EXCEPT ![p] = snapshot[p].original]
          /\ At("restore") /\ p \in call.todo
      BY <2>3 DEF RestoreFile
    <3>2. CASE q = p
      BY <2>0, <3>1, <3>2 DEF WsInv, Restoring, Remembered
    <3>3. CASE q # p
      BY <2>0, <3>1, <3>3 DEF WsTypes
    <3> QED BY <3>2, <3>3
  <2>4. CASE WsNext
    <3>1. CASE WriteTool
      BY <2>1, <2>2, <3>1 DEF WriteTool, Write, FailWrite
    <3>2. CASE RestoreTool
      BY <2>1, <2>3, <3>2 DEF RestoreTool, Restore, SaveRestored
    <3>3. CASE CheckTool \/ Abort
      BY <2>1, <3>3 DEF CheckTool, RunCheck, SaveResult, Abort
    <3>4. CASE OutsideEdit
      BY <2>1, <3>4 DEF OutsideEdit, Edit, Interfere
    <3> QED BY <2>4, <3>1, <3>2, <3>3, <3>4 DEF WsNext
  <2>5. CASE PublishTool \/ OutsideGit
    BY <2>1, <2>5, PublishToolTypes, OutsideTypes DEF PubInv
  <2>6. CASE Operator \/ Review \/ UNCHANGED pubVars
    BY <2>1, <2>6, OperatorTypes DEF PubInv, pubVars, wsVars
  <2> QED BY <2>4, <2>5, <2>6 DEF PubNext
<1>2. PubInv /\ [PubNext]_pubVars => [\A p \in Paths : Survives(p)]_wsVars
  BY <1>1
<1> HIDE DEF Survives
<1>3. PubSpec => [][\A p \in Paths : Survives(p)]_wsVars
  BY <1>2, PublicationInvariant, PTL DEF PubSpec
<1> QED BY <1>3 DEF OutsideWorkSurvives, Survives

-----------------------------------------------------------------------------
(* A publication can go on.  This needs to know what the checkout and the  *)
(* repository hold as long as nobody else has changed them.                *)

\* Only the goal's own paths differ from what the checkout held at first.
OwnFiles ==
    edits = 0 =>
       /\ ~ raced
       /\ \A p \in Paths : snapshot[p] \in Snapshot \/ file[p] = Original[p]

\* The index is the base, with some of the changes, until the good commit.
OwnCommits ==
    edits = 0 =>
       /\ 1 \in DOMAIN commits /\ Tree(1) = Original
       /\ record = NoRecord => head = 1 /\ index = Original
       /\ record \in Records => record.payload.base = 1
       /\ record.status = "prepared" =>
             \/ /\ head = 1
                /\ \A p \in Paths :
                      \/ index[p] = Original[p]
                      \/ /\ p \in record.payload.paths
                         /\ index[p] = record.payload.digest[p][1]
             \/ GoodCommit(head) /\ index = Tree(head)
       /\ Begun => head = record.commit /\ index = Tree(head)

\* The tools change only paths they have a snapshot of, and never drop one.
LEMMA OwnFilesStay ==
    ASSUME PubInv, OwnFiles, [PubNext]_pubVars
    PROVE  /\ OwnFiles'
           /\ edits' = 0 => edits = 0
<1>0. WsTypes /\ CallTypes
  BY DEF PubInv, PubTypes
<1>o. ASSUME edits' = edits + 1 PROVE OwnFiles' /\ (edits' = 0 => edits = 0)
  BY <1>0, <1>o DEF WsTypes, OwnFiles
<1>k. ASSUME UNCHANGED <<edits, raced, file>>,
             \A p \in Paths : snapshot[p] \in Snapshot => snapshot'[p] \in Snapshot
      PROVE  OwnFiles' /\ (edits' = 0 => edits = 0)
  BY <1>k DEF OwnFiles
<1>1. CASE WsNext
  <2>1. WsTypes'
    BY <1>1, WsNextTypes DEF PubInv
  <2>s. ASSUME NEW p \in Paths, NEW s, SaveSnapshot(p, s), s.latest \in States
        PROVE  \A o \in Paths : snapshot[o] \in Snapshot => snapshot'[o] \in Snapshot
    <3>1. snapshot' = [snapshot EXCEPT ![p] = s]
      BY <2>s DEF SaveSnapshot
    <3>2. snapshot'[p] = s /\ \A o \in Paths \ {p} : snapshot'[o] = snapshot[o]
      BY <1>0, <3>1 DEF WsTypes
    <3>3. NoSnapshot.latest \notin States
      BY WorkspaceAssumption DEF NoSnapshot
    <3>4. snapshot'[p] \in Snapshot
      BY <2>1, <2>s, <3>2, <3>3 DEF WsTypes
    <3> QED BY <3>2, <3>4
  <2>2. ASSUME NEW p \in Paths, NEW c \in WritesOf[p], NEW e \in States, Write(p, c, e)
        PROVE  OwnFiles' /\ (edits' = 0 => edits = 0)
    <3> DEFINE s == IF p \notin Owned THEN Created(p, c) ELSE Advanced(snapshot[p], c)
    <3>1. c \in States
      BY WorkspaceAssumption DEF States
    <3>2. p \in Owned => snapshot[p] \in Snapshot
      BY <1>0 DEF Owned, WsTypes
    <3>3. s.latest = c
      BY <3>2 DEF Created, Advanced, Snapshot
    <3>4. SaveSnapshot(p, s) /\ UNCHANGED <<edits, raced, file>>
      BY <2>2 DEF Write
    <3> HIDE DEF s
    <3> QED BY <1>k, <2>s, <3>1, <3>3, <3>4
  <2>3. CASE FinishWrite
    BY <1>0, <2>3 DEF FinishWrite, CallTypes, WsTypes, OwnFiles
  <2>4. CASE FailWrite
    <3> DEFINE s == Advanced(snapshot[call.path], call.before)
    <3>1. /\ call.path \in Paths /\ call.before \in States
          /\ snapshot[call.path] \in Snapshot
      BY <1>0, <2>4 DEF FailWrite, CallTypes
    <3>2. s.latest = call.before
      BY <3>1 DEF Advanced, Snapshot
    <3>3. SaveSnapshot(call.path, s) /\ UNCHANGED <<edits, raced, file>>
      BY <2>4 DEF FailWrite
    <3> HIDE DEF s
    <3> QED BY <1>k, <2>s, <3>1, <3>2, <3>3
  <2>5. ASSUME NEW p \in Paths, RestoreFile(p)
        PROVE  OwnFiles' /\ (edits' = 0 => edits = 0)
    <3>1. snapshot[p] \in Snapshot
      BY <1>0, <2>5 DEF RestoreFile, CallTypes
    <3> QED BY <1>0, <2>5, <3>1 DEF RestoreFile, WsTypes, OwnFiles
  <2>6. CASE SaveRestored
    <3> DEFINE p == call.path
               s == [Advanced(snapshot[p], snapshot[p].original) EXCEPT !.restored = TRUE]
    <3>1. p \in Paths /\ snapshot[p] \in Snapshot
      BY <1>0, <2>6 DEF SaveRestored, CallTypes, Call
    <3>2. s.latest = snapshot[p].original /\ snapshot[p].original \in States
      BY <3>1 DEF Advanced, Snapshot
    <3>3. SaveSnapshot(p, s) /\ UNCHANGED <<edits, raced, file>>
      BY <2>6 DEF SaveRestored
    <3> HIDE DEF s
    <3> QED BY <1>k, <2>s, <3>1, <3>2, <3>3
  <2>7. CASE Restore \/ CheckTool \/ Abort
    BY <1>k, <2>7 DEF Restore, CheckTool, RunCheck, SaveResult, Abort
  <2>8. CASE OutsideEdit
    BY <1>o, <2>8 DEF OutsideEdit, Edit, Interfere
  <2> QED BY <1>1, <2>2, <2>3, <2>4, <2>5, <2>6, <2>7, <2>8
          DEF WsNext, WriteTool, RestoreTool
<1>2. CASE PublishTool
  BY <1>2, <1>k, PublishToolTypes DEF PubInv
<1>3. CASE OutsideGit
  BY <1>3, <1>o, OutsideTypes DEF PubInv
<1>4. CASE Operator \/ Review \/ UNCHANGED pubVars
  BY <1>4, <1>k, OperatorTypes DEF PubInv, pubVars, wsVars
<1> QED BY <1>1, <1>2, <1>3, <1>4 DEF PubNext

\* A good commit is not its base.
LEMMA GoodIsNew ==
    ASSUME PubInv, record \in Records
    PROVE  ~ GoodCommit(record.payload.base)
BY DEF PubInv, RecordInv, Prepared, GoodCommit, Differing

\* A step that leaves the repository alone, and the record or its payload and
\* commit.
LEMMA OwnCommitsStay ==
    ASSUME PubInv, OwnCommits, UNCHANGED <<commits, head, index>>,
           edits' = 0 => edits = 0,
           \/ UNCHANGED record
           \/ /\ record \in Records /\ record' \in Records
              /\ Begun /\ record'.status # "prepared"
              /\ record'.payload = record.payload /\ record'.commit = record.commit
    PROVE  OwnCommits'
<1>1. CASE UNCHANGED record
  BY <1>1 DEF OwnCommits, GoodCommit, Tree, Differing, Begun
<1>2. CASE /\ record \in Records /\ record' \in Records
           /\ Begun /\ record'.status # "prepared"
           /\ record'.payload = record.payload /\ record'.commit = record.commit
  <2>1. record' # NoRecord
    BY <1>2 DEF Records, NoRecord
  <2> QED BY <1>2, <2>1 DEF OwnCommits, Tree
<1> QED BY <1>1, <1>2

\* The steps that change the repository, or record a commit.
LEMMA OwnCommitsFollow ==
    ASSUME PubInv, PubInv', OwnCommits, OwnFiles, UNCHANGED edits,
           Prepare \/ GitAdd \/ GitCommit \/ SaveCommitted
    PROVE  OwnCommits'
<1> SUFFICES ASSUME edits = 0 PROVE OwnCommits'
  BY DEF OwnCommits
<1>0. PubTypes /\ ~ raced
  BY DEF PubInv, OwnFiles
<1>1. CASE Prepare
  <2>1. /\ UNCHANGED <<commits, head, index>> /\ record = NoRecord
        /\ record' = NewRecord(Payload)
    BY <1>1 DEF Prepare, SaveRecord, gitVars
  <2>2. /\ record'.status = "prepared" /\ record'.payload.base = head
        /\ record' # NoRecord
    BY <1>0, <2>1, PayloadType DEF NewRecord, NoRecord
  <2> QED BY <2>1, <2>2 DEF OwnCommits, Tree, Begun
<1>2. ASSUME At("commit") \/ At("commitStaged") \/ At("committed")
      PROVE  /\ record \in Records /\ record # NoRecord /\ record.status = "prepared"
             /\ ~ Begun
  BY <1>2 DEF PubInv, PubTypes, RecordTypes, RecordInv, Positions, At, PublishSteps,
              Records, NoRecord, Begun
<1>3. CASE GitAdd
  <2>1. /\ UNCHANGED <<commits, head, record>> /\ head = record.payload.base
        /\ index' = [p \in Paths |->
                        IF p \in record.payload.paths THEN file[p] ELSE index[p]]
        /\ At("commit")
    BY <1>3 DEF GitAdd, MayCommit, dbVars
  <2>2. /\ record \in Records /\ record # NoRecord /\ record.status = "prepared"
        /\ ~ Begun
    BY <1>2, <2>1
  <2>3. ~ GoodCommit(head)
    BY <2>1, <2>2, GoodIsNew
  <2>4. Payload = record.payload
    BY <1>0, <2>1 DEF PubInv, RecordInv, Looked, At
  <2>5. \A p \in record.payload.paths : record.payload.digest[p][1] = file[p]
    BY <1>0, <2>2, <2>4, PayloadIsCurrent DEF PubInv, RecordInv
  <2>6. /\ head = 1
        /\ \A p \in Paths : \/ index'[p] = Original[p]
                            \/ /\ p \in record.payload.paths
                               /\ index'[p] = record.payload.digest[p][1]
    BY <2>1, <2>2, <2>3, <2>5 DEF OwnCommits
  <2> QED BY <2>1, <2>2, <2>6 DEF OwnCommits, Tree, Begun
<1>4. CASE GitCommit
  <2>1. /\ NewCommit(index, TRUE) /\ UNCHANGED record /\ At("commitStaged")
        /\ call'.at = "committed" /\ ~ raced'
    BY <1>0, <1>4, GotoTypes DEF GitCommit, dbVars, PublishSteps, SameWorkspace
  <2>2. /\ record \in Records /\ record # NoRecord /\ record.status = "prepared"
        /\ ~ Begun
    BY <1>2, <2>1
  <2>3. /\ commits'[head'].tree = index /\ index' = index
        /\ 1 \in DOMAIN commits => 1 \in DOMAIN commits' /\ commits'[1] = commits[1]
    <3>1. index \in [Paths -> States] /\ TRUE \in BOOLEAN
      BY <1>0 DEF PubTypes, GitTypes
    <3>2. /\ index' = index
          /\ commits'[head'] = [parent |-> head, tree |-> index, titled |-> TRUE]
          /\ \A n \in DOMAIN commits : n \in DOMAIN commits' /\ commits'[n] = commits[n]
      BY <1>0, <2>1, <3>1, NewCommitTypes
    <3> QED BY <3>2
  <2>4. GoodCommit(head)'
    BY <2>1 DEF PubInv, RecordInv, Looked, At
  <2>5. index' = Tree(head)'
    BY <2>3 DEF Tree
  <2> QED BY <2>1, <2>2, <2>3, <2>4, <2>5 DEF OwnCommits, Tree, Begun
<1>5. CASE SaveCommitted
  <2>1. /\ UNCHANGED <<commits, head, index>> /\ At("committed")
        /\ record' = [AdvanceRecord("committed") EXCEPT !.commit = head]
    BY <1>5 DEF SaveCommitted, SaveRecord, gitVars
  <2>2. record \in Records /\ record.status = "prepared" /\ head \in Nat
    BY <1>0, <1>2, <2>1 DEF PubTypes, GitTypes
  <2>3. /\ record'.status = "committed" /\ record'.payload = record.payload
        /\ record'.commit = head /\ record' # NoRecord
    <3>1. /\ record'.status = "committed" /\ record'.payload = record.payload
          /\ record'.commit = head
      BY <2>1, <2>2, AdvanceKeepsPayload DEF AdvanceRecord
    <3> QED BY <3>1 DEF NoRecord
  <2>4. GoodCommit(head)
    BY <1>0, <2>1 DEF PubInv, RecordInv, Looked
  <2>5. index = Tree(head)
    BY <2>2, <2>4, GoodIsNew DEF OwnCommits
  <2> QED BY <2>1, <2>2, <2>3, <2>5 DEF OwnCommits, Tree
<1> QED BY <1>1, <1>3, <1>4, <1>5

LEMMA OwnCommitsKept ==
    ASSUME PubInv, PubInv', OwnFiles, OwnCommits, [PubNext]_pubVars
    PROVE  OwnCommits'
<1>0. PubTypes /\ (edits' = 0 => edits = 0)
  BY OwnFilesStay DEF PubInv
<1>1. CASE WsNext /\ UNCHANGED <<gitVars, outVars, dbVars, accepted>>
  BY <1>0, <1>1, OwnCommitsStay DEF gitVars, dbVars
<1>2. CASE Prepare \/ GitAdd \/ GitCommit \/ SaveCommitted
  <2>1. UNCHANGED edits
    BY <1>0, <1>2, PublishToolTypes DEF PublishTool
  <2> QED BY <1>2, <2>1, OwnCommitsFollow
<1>3. CASE SavePushed \/ SavePull
  <2>1. /\ UNCHANGED <<commits, head, index>>
        /\ \/ At("pushed") /\ record' = AdvanceRecord("pushed")
           \/ /\ At("pulled")
              /\ record' = [AdvanceRecord("created") EXCEPT !.pull = call.pull]
    BY <1>3 DEF SavePushed, SavePull, SaveRecord, gitVars
  <2>2. /\ record \in Records /\ record' \in Records /\ call.pull \in Nat
    <3>1. record \in Records /\ call.pull \in Nat
      BY <1>0, <2>1 DEF PubTypes, RecordTypes, CallTypes, Call, At, PublishSteps
    <3> QED BY <2>1, <3>1 DEF AdvanceRecord, Records
  <2>3. Begun
    BY <2>1 DEF PubInv, RecordInv, Positions, At, Begun
  <2>4. /\ record'.payload = record.payload /\ record'.commit = record.commit
        /\ record'.status \in {"pushed", "created"}
    <3>1. CASE record' = AdvanceRecord("pushed")
      BY <2>2, <3>1, AdvanceKeepsPayload DEF AdvanceRecord
    <3>2. CASE record' = [AdvanceRecord("created") EXCEPT !.pull = call.pull]
      BY <2>2, <3>2, AdvanceKeepsPayload DEF AdvanceRecord
    <3> QED BY <2>1, <3>1, <3>2
  <2> QED BY <1>0, <2>1, <2>2, <2>3, <2>4, OwnCommitsStay
<1>4. CASE \/ Publish \/ Resume \/ RecoverCommit \/ GitPush \/ FindPull \/ CreatePull
           \/ Operator \/ Review \/ UNCHANGED pubVars
  <2>1. UNCHANGED <<commits, head, index, record>>
    BY <1>4 DEF Publish, Resume, RecoverCommit, GitPush, FindPull, CreatePull,
                Operator, RequestPublication, Approve, Review, pubVars, gitVars, dbVars
  <2> QED BY <1>0, <2>1, OwnCommitsStay
<1>5. CASE OutsideGit
  <2>1. edits' # 0
    BY <1>0, <1>5, OutsideTypes DEF PubTypes, WsTypes
  <2> QED BY <2>1 DEF OwnCommits
<1> QED BY <1>1, <1>2, <1>3, <1>4, <1>5 DEF PubNext, PublishTool

LEMMA InitOwn == PubInit => OwnFiles /\ OwnCommits
<1> SUFFICES ASSUME PubInit PROVE OwnFiles /\ OwnCommits
  OBVIOUS
<1>1. record.status = "none" /\ record = NoRecord /\ record \notin Records
  BY DEF PubInit, NoRecord, Records
<1>2. OwnFiles
  BY DEF PubInit, WsInit, OwnFiles
<1>3. 1 \in DOMAIN commits /\ Tree(1) = Original
  BY DEF PubInit, Tree
<1> QED BY <1>1, <1>2, <1>3 DEF PubInit, OwnCommits, Begun

\* With the recorded payload and the index the commit's, nothing is left to
\* commit.
LEMMA NothingLeft ==
    ASSUME PubInv, OwnFiles, OwnCommits, edits = 0, record \in Records,
           Payload = record.payload, GoodCommit(head), index = Tree(head)
    PROVE  GitChanges = {}
<1>1. /\ record.payload.paths \subseteq Paths /\ DOMAIN record.payload.digest = Owned
      /\ \A p \in Owned : record.payload.digest[p][1] = file[p]
      /\ Prepared
  BY PayloadIsCurrent DEF PubInv, RecordInv
<1>2. Tree(record.payload.base) = Original
  BY DEF OwnCommits
<1>3. \A p \in Paths \ record.payload.paths : file[p] = Original[p]
  <2>1. \A p \in Paths \ Owned : file[p] = Original[p]
    <3>1. NoSnapshot \notin Snapshot
      BY WorkspaceAssumption DEF NoSnapshot, Snapshot
    <3> QED BY <3>1 DEF OwnFiles, Owned
  <2> QED BY <1>1, <1>2, <2>1 DEF Prepared
<1>4. \A p \in Paths \ record.payload.paths : Tree(head)[p] = Original[p]
  BY <1>2 DEF GoodCommit, Differing
<1>5. \A p \in record.payload.paths : Tree(head)[p] = file[p]
  BY <1>1 DEF GoodCommit, Prepared
<1> QED BY <1>3, <1>4, <1>5 DEF GitChanges, Differing

\* For any checkout, and crashes, failed commands and lost answers anywhere in
\* the calls: as long as nobody else changes the checkout or the repository,
\* the next call with the same payload gets past every check.
THEOREM PublicationsResume == PubSpec => []PublicationResumable
<1>1. ASSUME PubInv, OwnFiles, OwnCommits PROVE PublicationResumable
  <2> SUFFICES ASSUME edits = 0, Idle, record # NoRecord, Payload = record.payload
               PROVE  /\ PayloadAllowed
                      /\ IsApproved(Payload)
                      /\ CASE record.status = "prepared"  -> MayCommit \/ MayRecover
                           [] record.status = "committed" -> MayPush
                           [] OTHER                       -> HeadIsCommit
    BY DEF PublicationResumable
  <2> DEFINE payload == record.payload
  <2>1. /\ PubTypes /\ Prepared /\ ~ raced /\ record \in Records
        /\ Begun => GoodCommit(record.commit)
    BY <1>1, RecordStatus DEF PubInv, RecordInv, Looked, OwnFiles
  <2>2. /\ payload.paths = Changed /\ payload.digest = Digest
        /\ Changed \subseteq Paths /\ Changed \subseteq Owned /\ DOMAIN Digest = Owned
        /\ \A p \in Owned : payload.digest[p][1] = file[p]
    BY <2>1, PayloadIsCurrent
  <2>3. PayloadAllowed /\ IsApproved(Payload)
    BY <2>1, <2>2 DEF Prepared, PayloadAllowed, Verified, IsApproved
  <2>4. /\ payload.base = 1 /\ Tree(1) = Original
    BY <1>1, <2>1 DEF OwnCommits
  <2>5. ASSUME GoodCommit(head), index = Tree(head) PROVE GitChanges = {}
    BY <1>1, <2>1, <2>5, NothingLeft
  <2>6. CASE record.status = "prepared"
    <3>1. CASE /\ head = 1
               /\ \A p \in Paths : \/ index[p] = Original[p]
                                   \/ /\ p \in payload.paths
                                      /\ index[p] = payload.digest[p][1]
      <4>1. \A p \in Paths \ Owned : file[p] = Original[p]
        <5>1. NoSnapshot \notin Snapshot
          BY WorkspaceAssumption DEF NoSnapshot, Snapshot
        <5> QED BY <1>1, <5>1 DEF OwnFiles, Owned
      <4>2. \A p \in Paths \ payload.paths : file[p] = Original[p]
        BY <2>1, <2>2, <2>4, <4>1 DEF Prepared
      <4>3. \A p \in payload.paths : file[p] # Original[p]
        BY <2>1, <2>2, <2>4 DEF Prepared
      <4>4. \A p \in Paths : index[p] = Original[p]
                                \/ (p \in payload.paths /\ index[p] = file[p])
        BY <2>2, <3>1
      <4>5. GitChanges = payload.paths
        BY <2>2, <2>4, <3>1, <4>2, <4>3, <4>4 DEF GitChanges, Differing
      <4> QED BY <2>3, <2>4, <2>6, <3>1, <4>5 DEF MayCommit
    <3>2. CASE GoodCommit(head) /\ index = Tree(head)
      <4>1. GitChanges = {} /\ head # payload.base
        BY <1>1, <2>1, <2>5, <3>2, GoodIsNew
      <4>2. MayRecover
        BY <3>2, <4>1 DEF MayRecover, GoodCommit, CommittedPaths
      <4> QED BY <2>3, <2>6, <4>2
    <3> QED BY <1>1, <2>6, <3>1, <3>2 DEF OwnCommits
  <2>7. CASE record.status # "prepared"
    <3>1. Begun
      BY <2>1, <2>7 DEF Begun, Records
    <3>2. head = record.commit /\ index = Tree(head) /\ GoodCommit(head)
      BY <1>1, <2>1, <3>1 DEF OwnCommits
    <3> QED BY <2>3, <2>5, <2>7, <3>2 DEF MayPush, HeadIsCommit
  <2> QED BY <2>6, <2>7
<1>2. PubInit => OwnFiles /\ OwnCommits
  BY InitOwn
<1>3. PubInv /\ PubInv' /\ OwnFiles /\ OwnCommits /\ [PubNext]_pubVars
         => OwnFiles' /\ OwnCommits'
  BY OwnFilesStay, OwnCommitsKept
<1> QED BY <1>1, <1>2, <1>3, PublicationInvariant, PTL DEF PubSpec

=============================================================================
