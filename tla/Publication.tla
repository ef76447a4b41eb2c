----------------------------- MODULE Publication -----------------------------
(***************************************************************************)
(* Publication of a maintenance goal (publication.py, github.py) and the   *)
(* review gates that end it (maintenance.py), beside the workspace tools.  *)
(*                                                                         *)
(* workspace_publish_pull_request commits the goal's changes, pushes the   *)
(* branch and opens a pull request.  Each is an effect in a store of its   *)
(* own (the repository, the remote, GitHub), followed by a save of the     *)
(* publication record.  A command or request may take effect and still     *)
(* fail, its answer lost or late: that is Abort after the effect.          *)
(*                                                                         *)
(* Title, branch and the other configured fields of the payload do not     *)
(* change and are left out; so is the branch check.                        *)
(***************************************************************************)
EXTENDS Workspace, Sequences

VARIABLES
    commits,        \* the commits of the local repository, oldest first
    head,           \* HEAD of the current branch
    index,          \* the paths as staged
    remote,         \* the branch at the remote, 0 if it does not exist
    pulls,          \* the pull requests of the branch, open or closed
    record,         \* table publication_records, for the goal
    requested,      \* payloads an approval was requested for
    approved,       \* payloads the operator has approved
    accepted        \* the checkout the review gates passed, or Null

gitVars == <<commits, head, index>>
outVars == <<remote, pulls>>
dbVars == <<record, requested, approved>>
pubVars == <<wsVars, gitVars, outVars, dbVars, accepted>>

NoRecord == [status |-> "none", payload |-> Null, commit |-> 0, pull |-> 0]

NewRecord(payload) == [NoRecord EXCEPT !.status = "prepared", !.payload = payload]

PubInit ==
    /\ WsInit
    /\ commits = <<[parent |-> 0, tree |-> Original, titled |-> FALSE]>>
    /\ head = 1
    /\ index = Original
    /\ remote = 0
    /\ pulls = <<>>
    /\ record = NoRecord
    /\ requested = {} /\ approved = {}
    /\ accepted = Null

-----------------------------------------------------------------------------
(* Git.                                                                    *)

Tree(c) == commits[c].tree
Differing(tree1, tree2) == {p \in Paths : tree1[p] # tree2[p]}

\* git status, git diff --cached, git diff --name-only base..HEAD.
GitChanges == Differing(file, index) \cup Differing(index, Tree(head))
Staged == index # Tree(head)
CommittedPaths(base) == Differing(Tree(base), Tree(head))

\* titled: the subject is the publication's title.
NewCommit(tree, titled) ==
    /\ commits' = Append(commits, [parent |-> head, tree |-> tree, titled |-> titled])
    /\ head' = Len(commits) + 1
    /\ index' = tree

-----------------------------------------------------------------------------
(* The payload and the guards of the tool.  The payload's base is HEAD     *)
(* until the record fixes it.                                              *)

Payload == [base   |-> IF record = NoRecord THEN head ELSE record.payload.base,
            paths  |-> Changed,
            digest |-> Digest]

PayloadAllowed == Changed # {} /\ Verified

MayPrepare == GitChanges = Payload.paths /\ ~ Staged

MayCommit ==
    /\ head = record.payload.base
    /\ GitChanges = record.payload.paths

\* Mistakes: any commit on top of the base is taken for the lost one; the
\* changes are expected to be still uncommitted.
MayRecoverAny == head # record.payload.base

MayRecoverDirty ==
    /\ head # record.payload.base
    /\ GitChanges = record.payload.paths

MayRecover ==
    /\ head # record.payload.base
    /\ commits[head].parent = record.payload.base
    /\ commits[head].titled
    /\ CommittedPaths(record.payload.base) = record.payload.paths
    /\ GitChanges = {}

HeadIsCommit == head = record.commit

MayPush == HeadIsCommit /\ GitChanges = {}

SamePayload == Payload = record.payload

-----------------------------------------------------------------------------
(* ToolExecutor and the operator.                                          *)

\* The payload is the argument the approval is about; without an approval
\* the goal pauses.
RequestPublication ==
    /\ Idle
    /\ PayloadAllowed
    /\ Payload \notin requested
    /\ requested' = requested \cup {Payload}
    /\ UNCHANGED <<wsVars, gitVars, outVars, record, approved, accepted>>

Approve(payload) ==
    /\ payload \notin approved
    /\ approved' = approved \cup {payload}
    /\ UNCHANGED <<wsVars, gitVars, outVars, record, requested, accepted>>

IsApproved(payload) == payload \in approved

Publish ==
    /\ Idle
    /\ PayloadAllowed
    /\ IsApproved(Payload)
    /\ call' = [NoCall EXCEPT !.at = "publish", !.payload = Payload]
    /\ UNCHANGED <<file, snapshot, results, edits, raced, gitVars, outVars, dbVars,
                   accepted>>

-----------------------------------------------------------------------------
(* WorkspacePublishPullRequestTool.invoke_with_context.                    *)

Continue == CASE record.status = "prepared"  -> "commit"
              [] record.status = "committed" -> "push"
              [] OTHER                       -> "pull"

SameWorkspace == UNCHANGED <<file, snapshot, results, edits, raced>>

StatusOrder == <<"none", "prepared", "committed", "pushed", "created">>
Rank(status) == CHOOSE n \in DOMAIN StatusOrder : StatusOrder[n] = status

\* The payload is fixed and the status never moves backwards.
SaveRecord(r) ==
    /\ record # NoRecord => r.payload = record.payload
    /\ Rank(r.status) >= Rank(record.status)
    /\ record' = r
    /\ UNCHANGED <<requested, approved>>

AdvanceRecord(status) == [record EXCEPT !.status = status]

\* The payload is computed again.  The first call stores it.
Prepare ==
    /\ At("publish")
    /\ PayloadAllowed
    /\ record = NoRecord
    /\ MayPrepare
    /\ SaveRecord(NewRecord(Payload))
    /\ Goto("commit")
    /\ SameWorkspace /\ UNCHANGED <<gitVars, outVars, accepted>>

Resume ==
    /\ At("publish")
    /\ PayloadAllowed
    /\ record # NoRecord
    /\ SamePayload
    /\ record.status \in {"committed", "pushed", "created"} => HeadIsCommit
    /\ IF record.status = "created" THEN Return ELSE Goto(Continue)
    /\ SameWorkspace /\ UNCHANGED <<gitVars, outVars, dbVars, accepted>>

GitAdd ==
    /\ At("commit")
    /\ MayCommit
    /\ index' = [p \in Paths |->
                     IF p \in record.payload.paths THEN file[p] ELSE index[p]]
    /\ Goto("commitStaged")
    /\ SameWorkspace /\ UNCHANGED <<commits, head, outVars, dbVars, accepted>>

GitCommit ==
    /\ At("commitStaged")
    /\ Staged
    /\ NewCommit(index, TRUE)
    /\ Goto("committed")
    /\ SameWorkspace /\ UNCHANGED <<outVars, dbVars, accepted>>

RecoverCommit ==
    /\ At("commit")
    /\ MayRecover
    /\ Goto("committed")
    /\ SameWorkspace /\ UNCHANGED <<gitVars, outVars, dbVars, accepted>>

\* rev-parse HEAD and the save.
SaveCommitted ==
    /\ At("committed")
    /\ SaveRecord([AdvanceRecord("committed") EXCEPT !.commit = head])
    /\ Goto("push")
    /\ SameWorkspace /\ UNCHANGED <<gitVars, outVars, accepted>>

\* Mistake: the record is advanced before the push.
GitPushLate ==
    /\ At("push")
    /\ MayPush
    /\ SaveRecord(AdvanceRecord("pushed"))
    /\ Goto("pull")
    /\ SameWorkspace /\ UNCHANGED <<gitVars, outVars, accepted>>

GitPush ==
    /\ At("push")
    /\ MayPush
    /\ remote' = head
    /\ Goto("pushed")
    /\ SameWorkspace /\ UNCHANGED <<gitVars, pulls, dbVars, accepted>>

SavePushed ==
    /\ At("pushed")
    /\ SaveRecord(AdvanceRecord("pushed"))
    /\ Goto("pull")
    /\ SameWorkspace /\ UNCHANGED <<gitVars, outVars, accepted>>

OpenPulls == {n \in DOMAIN pulls : pulls[n].open}

\* GET: an open pull request of the branch is used.
FindPull ==
    /\ At("pull")
    /\ \/ \E n \in OpenPulls :
             call' = [call EXCEPT !.at = "pulled", !.pull = n]
       \/ OpenPulls = {} /\ Goto("noPull")
    /\ SameWorkspace /\ UNCHANGED <<gitVars, outVars, dbVars, accepted>>

\* POST: GitHub refuses a second open pull request of the branch, and one
\* of a branch it does not have.
CreatePull ==
    /\ At("noPull")
    /\ remote # 0 /\ OpenPulls = {}
    /\ pulls' = Append(pulls, [open |-> TRUE, commit |-> remote])
    /\ call' = [call EXCEPT !.at = "pulled", !.pull = Len(pulls) + 1]
    /\ SameWorkspace /\ UNCHANGED <<gitVars, remote, dbVars, accepted>>

SavePull ==
    /\ At("pulled")
    /\ SaveRecord([AdvanceRecord("created") EXCEPT !.pull = call.pull])
    /\ Return
    /\ SameWorkspace /\ UNCHANGED <<gitVars, outVars, accepted>>

-----------------------------------------------------------------------------
(* VerificationGateReviewer and PublicationGateReviewer: the goal ends.    *)

Review ==
    /\ Idle /\ accepted = Null
    /\ Changed # {}
    /\ Verified
    /\ record.status = "created"
    /\ accepted' = file
    /\ UNCHANGED <<wsVars, gitVars, outVars, dbVars>>

-----------------------------------------------------------------------------
(* What other people do to the repository and to GitHub.                   *)

\* A commit of everything, possibly under the title of the publication.
CommitOutside(titled) ==
    /\ Interfere
    /\ GitChanges # {}
    /\ NewCommit(file, titled)
    /\ UNCHANGED <<file, outVars, dbVars, accepted>>

StageOutside(p) ==
    /\ Interfere
    /\ index[p] # file[p]
    /\ index' = [index EXCEPT ![p] = file[p]]
    /\ UNCHANGED <<file, commits, head, outVars, dbVars, accepted>>

ClosePull(n) ==
    /\ Interfere
    /\ n \in OpenPulls
    /\ pulls' = [pulls EXCEPT ![n].open = FALSE]
    /\ UNCHANGED <<file, gitVars, remote, dbVars, accepted>>

PublishTool ==
    \/ Publish \/ Prepare \/ Resume \/ GitAdd \/ GitCommit \/ RecoverCommit
    \/ SaveCommitted \/ GitPush \/ SavePushed
    \/ FindPull \/ CreatePull \/ SavePull

Operator == RequestPublication \/ \E payload \in requested : Approve(payload)

OutsideGit ==
    \/ \E titled \in BOOLEAN : CommitOutside(titled)
    \/ \E p \in Paths : StageOutside(p)
    \/ \E n \in DOMAIN pulls : ClosePull(n)

\* An accepted goal has ended.
PubNext ==
    /\ accepted = Null
    /\ \/ WsNext /\ UNCHANGED <<gitVars, outVars, dbVars, accepted>>
       \/ PublishTool
       \/ Operator
       \/ OutsideGit
       \/ Review

PubSpec == PubInit /\ [][PubNext]_pubVars

-----------------------------------------------------------------------------
(* Properties.  What they say of commits holds as long as nobody changes   *)
(* the checkout or the repository while a tool call runs: every call looks *)
(* first and acts later.                                                   *)

Begun == record.status \in {"committed", "pushed", "created"}

\* The current content of a path has passed every check.
Tested(paths, content) ==
    \A n \in Checks : \E r \in results :
        r.check = n /\ r.passed /\ \A p \in paths : r.tested[p] = content[p]

\* "Publication stages only goal-owned paths and requires current passing
\* checks plus exact approval" (docs/architecture.md:137), whatever crashes
\* and other people's commits came between: the recorded commit follows the
\* approved base, changes exactly the approved paths, to the approved
\* content, and that content has passed the checks.
PublishedWasVerified ==
    ~ raced /\ Begun =>
        LET payload == record.payload
            tree    == Tree(record.commit)
        IN  /\ payload \in approved
            /\ commits[record.commit].parent = payload.base
            /\ Differing(Tree(payload.base), tree) = payload.paths
            /\ \A p \in payload.paths : tree[p] = payload.digest[p][1]
            /\ Tested(payload.paths, tree)

\* "Commit, push, and PR creation advance through a durable, idempotent
\* state machine" (docs/architecture.md:138): the record never claims an
\* effect that has not happened.
RecordedEffectsHappened ==
    ~ raced =>
        /\ Begun => commits[record.commit].titled
        /\ record.status \in {"pushed", "created"} => remote = record.commit
        /\ record.status = "created" => pulls[record.pull].commit = record.commit

\* Wherever a call ended, in a crash, a failed command or a lost answer, the
\* next call with the same workspace gets past every check of the tool
\* (publication.py:76-107), unless someone else interfered.
PublicationResumable ==
    edits = 0 /\ Idle /\ record # NoRecord /\ Payload = record.payload =>
        /\ PayloadAllowed
        /\ IsApproved(Payload)
        /\ CASE record.status = "prepared"  -> MayCommit \/ MayRecover
             [] record.status = "committed" -> MayPush
             [] OTHER                       -> HeadIsCommit

\* "Guarded review rejects model PASS when a required check is missing,
\* failed, or stale" (docs/architecture.md:136): what the checkout holds
\* when the goal is accepted has passed the checks, and a pull request of
\* the goal exists.
AcceptedWasVerified ==
    ~ raced /\ accepted # Null =>
        /\ Tested(Owned, accepted)
        /\ pulls # <<>>
=============================================================================
