---------------------------- MODULE SeedRevisions ----------------------------
(***************************************************************************)
(* The society's knowledge items and experience records, their revision    *)
(* history, and the commands that change them: distillation, retrieval for *)
(* a task's context, consolidation (experience.py, memory.py,              *)
(* consolidation.py) and rollback (revisions.py).  A process runs one       *)
(* command on the shared SQLite database and ends.                         *)
(*                                                                         *)
(* A save reads the stored row first, outside the transaction that writes  *)
(* the row and its revision, and what it writes comes from a still older   *)
(* read.  A rollback reads, writes the row and appends its revision in     *)
(* three steps.  A process may end between any two steps.                  *)
(*                                                                         *)
(* Strengths are three levels: below the dormant threshold, below the      *)
(* promotion threshold, above it; fading takes one level at a time.  The   *)
(* clock counts decay horizons.  All experience here is of passed reviews  *)
(* of one task type.                                                       *)
(***************************************************************************)
EXTENDS Naturals, FiniteSets, Sequences, SequencesExt

CONSTANTS
    Experiences,    \* records, by their content-addressed id
    GoalOf,         \* the goal of the reviewed attempt
    LessonOf,       \* its first lesson
    Surprising,     \* records whose replay reaches the promotion thresholds
    Knowledge,      \* ids of knowledge items (uuid4)
    Processes,
    MinimumGoals,   \* ConsolidationPolicy.promotion_min_goals
    MaxDay,         \* bound: the clock
    MaxRevisions,   \* bound: length of the history
    Absent

Seeds == Experiences \cup Knowledge
Goals == {GoalOf[e] : e \in Experiences}

ASSUME SeedAssumption ==
    /\ IsFiniteSet(Experiences)
    /\ Experiences \cap Knowledge = {}
    /\ Absent \notin [strength : Nat, stamp : Nat]     \* None is no payload
    /\ Absent \notin [lesson : {LessonOf[e] : e \in Experiences}]
    /\ Surprising \subseteq Experiences
    /\ MinimumGoals \in Nat /\ MinimumGoals >= 2
    /\ MaxDay \in Nat /\ MaxRevisions \in Nat

VARIABLES
    live,           \* tables experience_records and knowledge
    revisions,      \* table seed_revisions, oldest first
    day,            \* the clock
    proc,           \* the processes
    ever            \* history: every payload that was live, with its seed

seedVars == <<live, revisions, day, proc, ever>>

\* queue: the saves still to make; next: the step after them; now: when the
\* command started; copy: the row read by a save, or the payload a rollback
\* installs; raced: history, the row changed since it was read.
New == [at |-> "new", queue |-> <<>>, next |-> "end", goal |-> Absent, now |-> 0,
        lessons |-> {}, undo |-> 0, copy |-> Absent, raced |-> FALSE]
Ended == [New EXCEPT !.at = "ended"]

SeedInit ==
    /\ live = [s \in Seeds |-> Absent]
    /\ revisions = <<>>
    /\ day = 0
    /\ proc = [p \in Processes |-> New]
    /\ ever = {}

-----------------------------------------------------------------------------
(* Payloads.                                                               *)

Faded == 0
Ordinary == 1
Strong == 2

Distilled == [strength |-> Ordinary, stamp |-> day]
Replayed(e, now) ==
    [strength |-> IF e \in Surprising THEN Strong ELSE Ordinary, stamp |-> now]
Reactivated(x) == [strength |-> Strong, stamp |-> day]
Decayed(x) == [x EXCEPT !.strength = @ - 1]
Item(lesson) == [lesson |-> lesson]

Stored == {e \in Experiences : live[e] # Absent}
OfGoal(g) == {e \in Experiences : GoalOf[e] = g}

-----------------------------------------------------------------------------
(* Saves, of one record after the other.                                   *)

At(p, step) == proc[p].at = step

\* The saves of the seeds that have a payload here.
Saves(payload, overwrite) ==
    LET order == SetToSeq(DOMAIN payload)
    IN  [i \in DOMAIN order |-> [seed |-> order[i], payload |-> payload[order[i]],
                                 overwrite |-> overwrite]]

\* A process with saves to make makes the next one, else goes on.
Continue(process) ==
    IF process.queue # <<>> THEN [process EXCEPT !.at = "save"]
    ELSE IF process.next = "end" THEN Ended
    ELSE [process EXCEPT !.at = process.next]

Saving(process, queue, next) ==
    Continue([process EXCEPT !.queue = queue, !.next = next])

\* get_experience or get_knowledge, before the write.
ReadPrevious(p) ==
    /\ At(p, "save")
    /\ proc' = [proc EXCEPT ![p].at = "write", ![p].raced = FALSE,
                            ![p].copy = live[Head(proc[p].queue).seed]]
    /\ UNCHANGED <<live, revisions, day, ever>>

\* The row of s changes; a save that has read it holds an old copy.
SetLive(p, s, payload, process) ==
    /\ live' = [live EXCEPT ![s] = payload]
    /\ ever' = IF payload = Absent THEN ever ELSE ever \cup {<<s, payload>>}
    /\ proc' = [q \in Processes |->
          IF q = p THEN process
          ELSE [proc[q] EXCEPT !.raced =
                    @ \/ (At(q, "write") /\ Head(proc[q].queue).seed = s)]]

AppendRevision(s, action, before, after) ==
    /\ Len(revisions) < MaxRevisions
    /\ revisions' = Append(revisions, [seed |-> s, action |-> action,
                                       before |-> before, after |-> after])

\* A plain insert leaves a row that is there alone: ON CONFLICT DO NOTHING.
RowAfter(save) ==
    IF save.overwrite \/ live[save.seed] = Absent THEN save.payload ELSE live[save.seed]

\* Mistake: an insert that met a row counts as a mutation, too.
EverySaveMutates(save) == TRUE

Mutates(save) == save.overwrite \/ live[save.seed] = Absent

ActionOf(previous) == IF previous = Absent THEN "create" ELSE "update"

Write(p) ==
    /\ At(p, "write")
    /\ LET save == Head(proc[p].queue)
           rest == Continue([proc[p] EXCEPT !.copy = Absent, !.raced = FALSE,
                                            !.queue = Tail(@)])
       IN  IF Mutates(save)
           THEN /\ SetLive(p, save.seed, RowAfter(save), rest)
                /\ AppendRevision(save.seed, ActionOf(proc[p].copy),
                                  proc[p].copy, save.payload)
           ELSE /\ proc' = [proc EXCEPT ![p] = rest]
                /\ UNCHANGED <<live, revisions, ever>>
    /\ UNCHANGED day

-----------------------------------------------------------------------------
(* Distillation and retrieval.                                             *)

Distill(p, g) ==
    /\ At(p, "new")
    /\ LET fresh == [e \in OfGoal(g) |-> Distilled]
       IN  proc' = [proc EXCEPT ![p] = Saving(New, Saves(fresh, FALSE), "end")]
    /\ UNCHANGED <<live, revisions, day, ever>>

\* build_context reads the records that are not dormant and strengthens them.
Retrieve(p) ==
    /\ At(p, "new")
    /\ LET retrieved == {e \in Stored : live[e].strength > Faded}
           stronger == [e \in retrieved |-> Reactivated(live[e])]
       IN  /\ retrieved # {}
           /\ proc' = [proc EXCEPT ![p] = Saving(New, Saves(stronger, TRUE), "end")]
    /\ UNCHANGED <<live, revisions, day, ever>>

-----------------------------------------------------------------------------
(* Consolidation of a goal.  A dry run saves the replayed records, too.    *)

Consolidate(p, g, apply) ==
    /\ At(p, "new")
    /\ LET new == [e \in OfGoal(g) \ Stored |-> Replayed(e, day)]
       IN  proc' = [proc EXCEPT ![p] =
              Saving([New EXCEPT !.goal = g, !.now = day], Saves(new, FALSE),
                     IF apply THEN "refresh" ELSE "end")]
    /\ UNCHANGED <<live, revisions, day, ever>>

\* Reconsolidation: every replayed record is written as if it were new.
Refresh(p) ==
    /\ At(p, "refresh")
    /\ LET replay == [e \in OfGoal(proc[p].goal) |-> Replayed(e, proc[p].now)]
       IN  proc' = [proc EXCEPT ![p] = Saving(@, Saves(replay, TRUE), "gather")]
    /\ UNCHANGED <<live, revisions, day, ever>>

\* Mistake: records count, whatever goals they are of.
RecordsOf(S) == S

GoalsOf(S) == {GoalOf[e] : e \in S}

Corroborated(S) ==
    {lesson \in {LessonOf[e] : e \in S} :
        Cardinality(GoalsOf({e \in S : LessonOf[e] = lesson})) >= MinimumGoals}

\* The lessons of a strong replayed record that enough goals of the store share.
Gather(p) ==
    /\ At(p, "gather")
    /\ LET replayed == OfGoal(proc[p].goal)
           interest == {LessonOf[e] : e \in replayed \cap Surprising}
       IN  proc' = [proc EXCEPT ![p].at = "screen",
              ![p].lessons = interest \cap Corroborated(Stored \cup replayed)]
    /\ UNCHANGED <<live, revisions, day, ever>>

\* No item has this id, nor is one about to be saved under it.
FreshIds ==
    {k \in Knowledge :
        /\ \A x \in ever : x[1] # k
        /\ \A q \in Processes : \A i \in DOMAIN proc[q].queue : proc[q].queue[i].seed # k}

\* A lesson the knowledge base holds already is not promoted; each other one
\* becomes an item with an id of its own.
Screen(p) ==
    /\ At(p, "screen")
    /\ LET known == {live[k].lesson : k \in {j \in Knowledge : live[j] # Absent}}
           promoted == proc[p].lessons \ known
       IN  \E id \in Injection(promoted, FreshIds) :
              LET items == [k \in {id[lesson] : lesson \in promoted} |->
                               Item(CHOOSE lesson \in promoted : id[lesson] = k)]
              IN  proc' = [proc EXCEPT ![p] = Saving(@, Saves(items, TRUE), "decay")]
    /\ UNCHANGED <<live, revisions, day, ever>>

\* A faded record fades no further here.
Decay(p) ==
    /\ At(p, "decay")
    /\ LET due == {e \in Stored : /\ proc[p].now > live[e].stamp
                                  /\ live[e].strength > Faded}
           weaker == [e \in due |-> Decayed(live[e])]
       IN  proc' = [proc EXCEPT ![p] = Saving(@, Saves(weaker, TRUE), "end")]
    /\ UNCHANGED <<live, revisions, day, ever>>

-----------------------------------------------------------------------------
(* Rollback of a revision.                                                 *)

Reversible(revision) == revision.action \in {"create", "update"}

\* Mistake: an undone revision is undone again.
AlwaysUndo(revision, current) == revision.before

\* What a rollback installs where the row is current: what the revision found,
\* or, where that is back already, what it left.
Target(revision, current) ==
    IF revision.before = current THEN revision.after ELSE revision.before

ReadTarget(p, i) ==
    /\ At(p, "new")
    /\ Reversible(revisions[i])
    /\ proc' = [proc EXCEPT ![p] = [New EXCEPT !.at = "install", !.undo = i,
                   !.copy = Target(revisions[i], live[revisions[i].seed])]]
    /\ UNCHANGED <<live, revisions, day, ever>>

Install(p) ==
    /\ At(p, "install")
    /\ SetLive(p, revisions[proc[p].undo].seed, proc[p].copy,
               [proc[p] EXCEPT !.at = "record", !.copy = Absent])
    /\ UNCHANGED <<revisions, day>>

\* The rollback's revision is built from what is live after the write.
Record(p) ==
    /\ At(p, "record")
    /\ LET undone == revisions[proc[p].undo]
       IN  AppendRevision(undone.seed, "rollback", live[undone.seed], undone.before)
    /\ proc' = [proc EXCEPT ![p] = Ended]
    /\ UNCHANGED <<live, day, ever>>

-----------------------------------------------------------------------------
Crash(p) ==
    /\ proc[p].at \notin {"new", "ended"}
    /\ proc' = [proc EXCEPT ![p] = Ended]
    /\ UNCHANGED <<live, revisions, day, ever>>

Tick ==
    /\ day < MaxDay
    /\ day' = day + 1
    /\ UNCHANGED <<live, revisions, proc, ever>>

Command(p) ==
    \/ \E g \in Goals : Distill(p, g)
    \/ Retrieve(p)
    \/ \E g \in Goals, apply \in BOOLEAN : Consolidate(p, g, apply)
    \/ \E i \in DOMAIN revisions : ReadTarget(p, i)

Step(p) ==
    \/ ReadPrevious(p) \/ Write(p)
    \/ Refresh(p) \/ Gather(p) \/ Screen(p) \/ Decay(p)
    \/ Install(p) \/ Record(p)

SeedNext == Tick \/ \E p \in Processes : Command(p) \/ Step(p) \/ Crash(p)

SeedSpec == SeedInit /\ [][SeedNext]_seedVars

-----------------------------------------------------------------------------
(* No payload a seed ever had is beyond recovery: it is live, or some      *)
(* recorded revision of the seed installs it within two rollbacks, however *)
(* saves raced and whichever process died ("an undo never destroys         *)
(* evidence and is itself reversible").                                    *)
NothingLost ==
    \A x \in ever :
        \/ live[x[1]] = x[2]
        \/ \E i \in DOMAIN revisions :
              LET once == Target(revisions[i], live[x[1]])
              IN  /\ revisions[i].seed = x[1] /\ Reversible(revisions[i])
                  /\ x[2] \in {once, Target(revisions[i], once)}

(* What consolidation has made knowledge was learned in as many goals as   *)
(* the policy asks for, even where the records were since rolled back or   *)
(* promoted by two processes at once.                                      *)
PromotedIsCorroborated ==
    \A k \in Knowledge : live[k] # Absent =>
        LET learned == {e \in Experiences : /\ LessonOf[e] = live[k].lesson
                                            /\ \E x \in ever : x[1] = e}
        IN  Cardinality({GoalOf[e] : e \in learned}) >= MinimumGoals

(* A save no other process raced with leaves exactly one revision with the *)
(* two sides of the change it made, and one that changed no row leaves     *)
(* none; a save that creates a row says so.                                *)
HistoryTellsChanges ==
    [][\A p \in Processes :
          At(p, "write") /\ proc'[p].queue # proc[p].queue =>
             LET s == Head(proc[p].queue).seed
                 last == revisions'[Len(revisions')]
             IN  IF revisions' = revisions THEN live' = live
                 ELSE /\ last.seed = s /\ last.after = live'[s]
                      /\ ~proc[p].raced =>
                            /\ last.before = live[s]
                            /\ (last.action = "create") <=> (live[s] = Absent)]_seedVars
=============================================================================
