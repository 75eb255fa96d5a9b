---------------------------- MODULE PlanningDocs -----------------------------
(***************************************************************************)
(* The planning documents ROADMAP.md and STATE.md, their managed blocks,   *)
(* and `harness state repair`, which renders the blocks anew:              *)
(* state_repair.py, backups.py, managed_block.py, roadmap_state.py,        *)
(* planning_grammar.py and the document checks of planning_status.py.      *)
(*                                                                         *)
(* Repair takes no lock: people and agents edit the same files meanwhile,  *)
(* and it may be killed between any two writes.                            *)
(***************************************************************************)
EXTENDS Integers, FiniteSets, Sequences, SequencesExt

CONSTANTS
  Ids,          \* milestone ids as people write them: [num, letter]
  None,         \* no milestone, no checkpoint, no path
  Checkpoints,  \* checkpoint ids
  CheckFiles,   \* checkpoint files, one for each folder
  Retention,    \* backups kept per file
  MaxEdits      \* bound on the edits by people, agents and verbs

ASSUME IdsAssumption == Ids \subseteq [num : Nat, letter : BOOLEAN]
ASSUME RetentionAssumption == Retention \in Nat \ {0}
ASSUME MaxEditsAssumption == MaxEdits \in Nat

\* A checklist line; `title` stands for its title.  A line is counted if it is
\* written as ROADMAP_BULLET_RE has it; the expression by which repair reads the
\* block also takes other spacing and any text after the title, but no letter.
Line == [num : Nat, letter : BOOLEAN, title : Ids, done : BOOLEAN, counted : BOOLEAN]

\* The managed block of a file: absent, there, or duplicate or unbalanced.
Marks == {"absent", "block", "broken"}

\* ROADMAP.md: the checklist that repair rewrites (`listed`), the lines under
\* the same heading but outside the block (`loose`), and whether other text
\* stands where the block will be (`prose`).
Roadmap == [marks : Marks, listed : SUBSET Line, loose : SUBSET Line, prose : BOOLEAN]

\* The milestone line of STATE.md; `titled`: "N - Title", not a bare number.
Position == [num : Nat, letter : BOOLEAN, titled : BOOLEAN]
ASSUME NoneAssumption == None \notin Nat \cup Checkpoints \cup CheckFiles \cup Position

\* STATE.md: the milestone line, the two checkpoint lines and the progress of
\* the front matter; `prose` as above.
Doc == [marks : Marks, at : Position \cup {None}, checkpoint : Checkpoints \cup {None},
        file : CheckFiles \cup {None}, total : Nat, completed : Nat, prose : BOOLEAN]

\* current_checkpoint, checkpoint_path and plan_path of phase-state.json; of the
\* plan only its folder matters, which the checkpoint file there stands for.
Pointer == [checkpoint : Checkpoints \cup {None}, file : CheckFiles \cup {None},
            plan : CheckFiles \cup {None}]

VARIABLES
  roadmap,  \* .planning/ROADMAP.md
  doc,      \* .planning/STATE.md
  pointer,  \* what .scratch/phase-state.json points at
  backups,  \* .harness/backups, oldest first, per file
  job,      \* the repair: the next step, what it read, whether that is stale
  edits     \* how often somebody edited

vars == <<roadmap, doc, pointer, backups, job, edits>>

-----------------------------------------------------------------------------
(* What the files say.                                                     *)

\* parse_state_snapshot: only "N - Title" is a milestone, its letter is dropped.
Active(d) == IF d.at = None THEN None ELSE IF d.at.titled THEN d.at.num ELSE None

\* planning_grammar's id, with its letter.
ActiveId(d) == IF Active(d) = None THEN None ELSE [num |-> d.at.num, letter |-> d.at.letter]

\* parse_roadmap_phases and parse_roadmap_phase_bullets see both kinds of line,
\* when they are written as they have them.
Written(r) == r.listed \cup r.loose
AllLines(r) == {l \in Written(r) : l.counted}
Done(lines) == {l \in lines : l.done}

\* The number of the first line that is not done, lines being in the order of
\* their numbers; None when all are done.
FirstOpen(lines) ==
  LET open == {l.num : l \in lines \ Done(lines)} IN
  IF open = {} THEN None ELSE CHOOSE n \in open : \A k \in open : n <= k

Out(code, present) == IF present THEN {code} ELSE {}

\* find_roadmap_state_sync_findings.  The percentage follows from the counts.
Findings(r, d, p) ==
  LET lines == AllLines(r) IN
  IF lines = {} THEN {"no_checklist"}
  ELSE Out("total", d.total # Cardinality(lines))
       \cup Out("completed", d.completed # Cardinality(Done(lines)))
       \cup Out("active", FirstOpen(lines) \notin {None, Active(d)})
       \cup Out("checkpoint", d.checkpoint \notin {None, p.checkpoint})
       \cup Out("checkpoint_path", d.file \notin {None, p.file})
       \cup Out("plan_path", None \notin {p.plan, d.file} /\ p.plan # d.file)

\* The blocking warnings of planning_status about the documents.
Blocking(r, d, p) ==
  LET lines == AllLines(r) IN
  Out("checkpoint_drift", None \notin {d.checkpoint, p.checkpoint} /\ d.checkpoint # p.checkpoint)
  \cup Out("checkpoint_path_drift", None \notin {d.file, p.file} /\ d.file # p.file)
  \cup Out("active_phase_drift",
           /\ ActiveId(d) # None
           /\ lines # {}
           /\ ActiveId(d) \notin {[num |-> l.num, letter |-> l.letter] : l \in lines})
  \cup Out("total_drift", lines # {} /\ d.total # Cardinality(lines))
  \cup Out("completed_drift", lines # {} /\ d.completed # Cardinality(Done(lines)))

\* Mutant of DashboardDrift: only the lines of the block are counted.
DashboardDriftInBlock(r, d, p) ==
  LET block == {l \in r.listed : l.counted} IN
  Out("checkpoint", p.checkpoint # None /\ d.checkpoint # p.checkpoint)
  \cup Out("total", block # {} /\ d.total \notin {0, Cardinality(block)})
  \cup Out("completed", block # {} /\ d.completed \notin {0, Cardinality(Done(block))})

\* check_consistency of the dashboard, which counts for itself: a zero is a
\* count that is not stated, and a STATE.md without a checkpoint has drifted
\* from whatever checkpoint the phase state is at.
DashboardDrift(r, d, p) ==
  LET lines == AllLines(r) IN
  Out("checkpoint", p.checkpoint # None /\ d.checkpoint # p.checkpoint)
  \cup Out("total", lines # {} /\ d.total \notin {0, Cardinality(lines)})
  \cup Out("completed", lines # {} /\ d.completed \notin {0, Cardinality(Done(lines))})

\* `dashboard --check`, which `harness check` runs at its end: the drift it finds
\* itself and the blocking warnings of the projection.
DashboardRefuses(r, d, p) == DashboardDrift(r, d, p) \cup Blocking(r, d, p) # {}

\* `harness check` stops at the documents.
CheckRefuses(r, d, p) == Findings(r, d, p) # {} \/ DashboardRefuses(r, d, p)

\* `harness doctor` has a finding of the first severity about the documents.
DoctorAlarms(r, d, p) == Blocking(r, d, p) \cup Findings(r, d, p) # {}

\* managed_block_warnings: the files whose block is not in order.
BlockWarnings(r, d) == Out("ROADMAP", r.marks # "block") \cup Out("STATE", d.marks # "block")

-----------------------------------------------------------------------------
(* What repair renders.                                                    *)

\* Mutant of Rendered: without a block the letters are kept.
RenderedWithLetters(r) ==
  IF r.marks = "block" THEN {[l EXCEPT !.counted = TRUE] : l \in {k \in r.listed : ~k.letter}}
  ELSE {l \in r.listed : l.counted}

\* Mutant of Rendered: of a block only the lines that are not ticked off are taken.
RenderedOpen(r) ==
  IF r.marks = "block"
  THEN {[l EXCEPT !.counted = TRUE] : l \in {k \in r.listed : ~k.letter /\ ~k.done}}
  ELSE {[l EXCEPT !.letter = FALSE] : l \in {k \in r.listed : k.counted}}

\* The lines of the new block: of the old one the lines with a plain number,
\* however they are written, and without a block those of the section that are
\* counted, whose letter is dropped.
Rendered(r) ==
  IF r.marks = "block" THEN {[l EXCEPT !.counted = TRUE] : l \in {k \in r.listed : ~k.letter}}
  ELSE {[l EXCEPT !.letter = FALSE] : l \in {k \in r.listed : k.counted}}

NewRoadmap(r) == [r EXCEPT !.marks = "block", !.listed = Rendered(r), !.prose = FALSE]

\* Mutant of NewDoc: the title is not looked up.
NewDocUntitled(d, lines, p) ==
  [d EXCEPT !.marks = "block", !.prose = FALSE,
            !.at = IF Active(d) = None THEN None
                   ELSE [num |-> Active(d), letter |-> FALSE, titled |-> FALSE]]

\* canonical_state_current_payload: the title comes from the checklist, and a
\* milestone that is not in it is rendered as a bare number.
NewDoc(d, lines, p) ==
  [d EXCEPT !.marks = "block", !.prose = FALSE,
            !.at = IF Active(d) = None THEN None
                   ELSE [num |-> Active(d), letter |-> FALSE,
                         titled |-> \E l \in lines : l.num = Active(d)],
            !.checkpoint = IF d.checkpoint # None THEN d.checkpoint ELSE p.checkpoint,
            !.file = IF d.file # None THEN d.file ELSE p.file]

-----------------------------------------------------------------------------
(* state repair.                                                           *)

\* `ended`: the repair is through, and nobody has edited since it read.
Idle(through) == [job EXCEPT !.pc = "idle", !.ended = through /\ ~job.stale]

\* RepairRefusedError: nothing is written.
Refused == "broken" \in {roadmap.marks, doc.marks}

\* The step that comes first, or after the roadmap: nothing is written of a
\* file that stays as it is.
FirstStep(r, d, p) ==
  IF NewRoadmap(r) # r THEN "back up roadmap"
  ELSE IF NewDoc(d, Rendered(r), p) # d THEN "back up state" ELSE "idle"
SecondStep == IF NewDoc(job.doc, Rendered(job.roadmap), job.pointer) # job.doc
              THEN "back up state" ELSE "idle"

\* All files are read at the start; what is written is computed from that.
RepairReads ==
  /\ job.pc = "idle"
  /\ ~Refused
  /\ job' = [pc |-> FirstStep(roadmap, doc, pointer), roadmap |-> roadmap, doc |-> doc,
             pointer |-> pointer, stale |-> FALSE,
             ended |-> FirstStep(roadmap, doc, pointer) = "idle"]
  /\ UNCHANGED <<roadmap, doc, pointer, backups, edits>>

\* Mutant of Kept: the newest go first.
KeptOldest(all) == IF Len(all) > Retention THEN SubSeq(all, 1, Retention) ELSE all

\* _prune_old_backups: the oldest go first.
Kept(all) ==
  IF Len(all) > Retention THEN SubSeq(all, Len(all) - Retention + 1, Len(all)) ELSE all

\* write_backup_with_excl_and_prune, with the text that was read.
BackUpRoadmap ==
  /\ job.pc = "back up roadmap"
  /\ backups' = [backups EXCEPT !.roadmap = Kept(Append(@, job.roadmap))]
  /\ job' = [job EXCEPT !.pc = "write roadmap"]
  /\ UNCHANGED <<roadmap, doc, pointer, edits>>

\* atomic_write_text of ROADMAP.md.
WriteRoadmap ==
  /\ job.pc = "write roadmap"
  /\ roadmap' = NewRoadmap(job.roadmap)
  /\ job' = IF SecondStep = "idle" THEN Idle(TRUE) ELSE [job EXCEPT !.pc = SecondStep]
  /\ UNCHANGED <<doc, pointer, backups, edits>>

BackUpState ==
  /\ job.pc = "back up state"
  /\ backups' = [backups EXCEPT !.doc = Kept(Append(@, job.doc))]
  /\ job' = [job EXCEPT !.pc = "write state"]
  /\ UNCHANGED <<roadmap, doc, pointer, edits>>

WriteState ==
  /\ job.pc = "write state"
  /\ doc' = NewDoc(job.doc, Rendered(job.roadmap), job.pointer)
  /\ job' = Idle(TRUE)
  /\ UNCHANGED <<roadmap, pointer, backups, edits>>

\* The process is killed, or a backup or a write fails.
RepairStops ==
  /\ job.pc # "idle"
  /\ job' = Idle(FALSE)
  /\ UNCHANGED <<roadmap, doc, pointer, backups, edits>>

-----------------------------------------------------------------------------
(* People, agents and verbs.                                               *)

\* An edit of any of the files; what a running repair has read is stale.
Edit ==
  /\ edits < MaxEdits
  /\ edits' = edits + 1
  /\ job' = [job EXCEPT !.stale = TRUE, !.ended = FALSE]
  /\ UNCHANGED backups

\* A milestone is added to the checklist, inside the block or beside it.
AddLine ==
  \E id \in Ids, inside, counted \in BOOLEAN :
    LET line == [num |-> id.num, letter |-> id.letter, title |-> id, done |-> FALSE,
                 counted |-> counted] IN
    /\ \A l \in Written(roadmap) : l.title # id
    \* other lines are text that nothing reads
    /\ counted \/ (inside /\ ~id.letter)
    /\ roadmap' = IF inside THEN [roadmap EXCEPT !.listed = @ \cup {line}]
                  ELSE [roadmap EXCEPT !.loose = @ \cup {line}]
    /\ inside \/ roadmap.marks = "block"
    /\ UNCHANGED <<doc, pointer>>

\* A milestone is ticked off.
TickLine ==
  \E l \in roadmap.listed \ Done(roadmap.listed) :
    /\ roadmap' = [roadmap EXCEPT !.listed = (@ \ {l}) \cup {[l EXCEPT !.done = TRUE]}]
    /\ UNCHANGED <<doc, pointer>>

\* Text is written where the blocks are, or the markers are deleted or doubled.
Scribble ==
  \/ roadmap' = [roadmap EXCEPT !.prose = TRUE] /\ UNCHANGED <<doc, pointer>>
  \/ doc' = [doc EXCEPT !.prose = TRUE] /\ UNCHANGED <<roadmap, pointer>>
  \/ \E m \in {"absent", "broken"} :
       \/ doc' = [doc EXCEPT !.marks = m] /\ UNCHANGED <<roadmap, pointer>>
       \/ /\ roadmap' = [roadmap EXCEPT !.marks = m, !.listed = Written(roadmap),
                                        !.loose = {}]
          /\ UNCHANGED <<doc, pointer>>

\* The next milestone or checkpoint is entered in STATE.md, with the progress.
Advance ==
  \E id \in Ids, c \in Checkpoints \cup {None}, f \in CheckFiles \cup {None} :
    /\ doc' = [doc EXCEPT !.at = [num |-> id.num, letter |-> id.letter, titled |-> TRUE],
                          !.checkpoint = c, !.file = f,
                          !.total = Cardinality(AllLines(roadmap)),
                          !.completed = Cardinality(Done(AllLines(roadmap)))]
    /\ UNCHANGED <<roadmap, pointer>>

\* phase set --stdin-json moves the pointers.
Point == pointer' \in Pointer /\ UNCHANGED <<roadmap, doc>>

\* "restore from .harness/backups/": the newest backup is copied back.
Restore ==
  \/ /\ backups.roadmap # <<>>
     /\ roadmap' = Last(backups.roadmap)
     /\ UNCHANGED <<doc, pointer>>
  \/ /\ backups.doc # <<>>
     /\ doc' = Last(backups.doc)
     /\ UNCHANGED <<roadmap, pointer>>

Next ==
  \/ RepairReads \/ BackUpRoadmap \/ WriteRoadmap \/ BackUpState \/ WriteState \/ RepairStops
  \/ Edit /\ (AddLine \/ TickLine \/ Scribble \/ Advance \/ Point \/ Restore)

\* What `harness init` lays down: one milestone, in blocks, at a checkpoint.
Init ==
  \E first \in Ids, c \in Checkpoints, f \in CheckFiles :
    /\ \A id \in Ids : first.num <= id.num /\ ~first.letter
    /\ roadmap = [marks |-> "block", loose |-> {}, prose |-> FALSE,
                  listed |-> {[num |-> first.num, letter |-> FALSE, title |-> first,
                               done |-> FALSE, counted |-> TRUE]}]
    \* the template keeps a commented example inside the block
    /\ doc = [marks |-> "block", checkpoint |-> c, file |-> f, total |-> 1, completed |-> 0,
              prose |-> TRUE,
              at |-> [num |-> first.num, letter |-> FALSE, titled |-> TRUE]]
    /\ pointer = [checkpoint |-> c, file |-> f, plan |-> None]
    /\ backups = [roadmap |-> <<>>, doc |-> <<>>]
    /\ job = [pc |-> "idle", roadmap |-> roadmap, doc |-> doc, pointer |-> pointer,
              stale |-> FALSE, ended |-> FALSE]
    /\ edits = 0

Spec == Init /\ [][Next]_vars

-----------------------------------------------------------------------------
(* Properties.                                                             *)

TypeOK ==
  /\ roadmap \in Roadmap
  /\ doc \in Doc
  /\ pointer \in Pointer
  /\ backups.roadmap \in Seq(Roadmap) /\ Len(backups.roadmap) <= Retention
  /\ backups.doc \in Seq(Doc) /\ Len(backups.doc) <= Retention
  /\ job.pc \in {"idle", "back up roadmap", "write roadmap", "back up state", "write state"}
  /\ edits \in 0..MaxEdits

\* The text that a rewrite takes out of a file is in .harness/backups when it
\* goes, however many backups are kept, unless somebody edited the file since
\* repair read it.
RewrittenTextIsKept ==
  [][/\ (job.pc = "write roadmap" /\ roadmap' # roadmap /\ ~job.stale) =>
          roadmap \in Range(backups.roadmap)
     /\ (job.pc = "write state" /\ doc' # doc /\ ~job.stale) =>
          doc \in Range(backups.doc)]_vars

\* A repair that is killed between its two files is finished by the next one:
\* from the new ROADMAP.md it renders the STATE.md that the first would have.
KilledRepairIsFinished ==
  (job.pc \in {"back up state", "write state"} /\ ~job.stale) =>
    NewDoc(doc, Rendered(roadmap), pointer) =
      NewDoc(job.doc, Rendered(job.roadmap), job.pointer)

\* What repair can render without loss: no line with a letter in the block, and
\* the milestone of STATE.md, if there is one, among the lines of the block.
Renderable(r, d) ==
  /\ r.marks = "block" => \A l \in r.listed : ~l.letter
  /\ Active(d) \in {None} \cup {l.num : l \in Rendered(r)}

\* "nothing to repair (already canonical)": after a repair that nobody
\* disturbed the blocks are in order, and a second one changes nothing if the
\* milestone of STATE.md was in the checklist.
RepairSettles ==
  job.ended =>
    /\ BlockWarnings(roadmap, doc) = {}
    /\ NewRoadmap(roadmap) = roadmap
    /\ Renderable(job.roadmap, job.doc) => NewDoc(doc, Rendered(roadmap), pointer) = doc

\* Whatever people, verbs and repair make of the documents, `harness doctor` has
\* an alarm for what `harness check` refuses, though they count with code of
\* their own -- but for a STATE.md that names no checkpoint, which only the
\* dashboard that check runs takes for drift.
DoctorSeesWhatCheckRefuses ==
  CheckRefuses(roadmap, doc, pointer) =>
    DoctorAlarms(roadmap, doc, pointer)
    \/ (pointer.checkpoint # None /\ doc.checkpoint = None)

\* Every line of the block is one that is counted: of another repair makes one
\* that is, and the progress of STATE.md is not what the checklist says any more.
Countable(r) == r.marks = "block" => \A l \in r.listed : l.counted

\* The plan is in another folder than the checkpoint file, which nobody compares
\* until repair has written that file into STATE.md.
PlanElsewhere(d, p) == d.file = None /\ None \notin {p.file, p.plan} /\ p.plan # p.file

\* Repairing what can be rendered and counted never makes `harness check`
\* complain of more, nor closes the gate of an agent that may edit -- but for a
\* plan that was out of place before.
RepairAddsNoDrift ==
  (job.ended /\ Renderable(job.roadmap, job.doc) /\ Countable(job.roadmap)) =>
    /\ Findings(roadmap, doc, pointer)
         \subseteq Findings(job.roadmap, job.doc, pointer)
                  \cup Out("plan_path", PlanElsewhere(job.doc, job.pointer))
    /\ Blocking(roadmap, doc, pointer) \subseteq Blocking(job.roadmap, job.doc, pointer)
    /\ DashboardDrift(roadmap, doc, pointer)
         \subseteq DashboardDrift(job.roadmap, job.doc, pointer)
=============================================================================
