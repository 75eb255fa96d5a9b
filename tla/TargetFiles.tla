----------------------------- MODULE TargetFiles -----------------------------
(***************************************************************************)
(* What the harness does to each file of a target over its life: init,     *)
(* upgrade, adoption and uninstall, between edits by the user.             *)
(*                                                                         *)
(* A file that belongs to the harness is replaced on upgrade, and a copy   *)
(* of what the user made of it goes to .harness/conflicts.  In AGENTS.md   *)
(* and .gitignore the harness owns a block between two markers and nothing *)
(* else.  Project files are put down once and then left alone.  What init  *)
(* and upgrade know of the past is the record of each file in              *)
(* installed-manifest.json.                                                *)
(*                                                                         *)
(* A run looks at one file after the other (Pass A), writes blocks and     *)
(* removes retired files in place, and puts the staged files down at its   *)
(* end.  How that end is made atomic is the matter of module Install; here *)
(* it happens or does not.  The user may edit between any two steps.       *)
(***************************************************************************)
EXTENDS Integers, FiniteSets

CONSTANTS
  Files,        \* the paths of any release, numbered in the order of the manifest
  Roomodes,     \* the one that is .roomodes
  Releases,     \* the releases, with the adapters, profiles and packs selected
  Policy,       \* Policy[v][f]: what the manifest of release v says of f
  Src,          \* Src[v][f]: the number of the text release v ships as f
  Graveyard,    \* Graveyard[v]: the paths v deletes wherever it finds them
  TooFar,       \* pairs of releases between which an upgrade refuses
  Scope,        \* Scope[f]: the scope of uninstall that f falls under
  Modes,        \* what the profiles put into .roomodes; 1 stands for none
  Required,     \* the project files adoption asks for
  MaxEdits,     \* bound on the edits by the user
  MaxCommands,  \* bound on the commands run on the target
  Absent, None, Idle

Policies == {"owned", "append", "project", "seed", "none"}

ASSUME ReleasesAssumption ==
  /\ Releases \subseteq Nat \ {0}
  /\ Policy \in [Releases -> [Files -> Policies]]
  /\ Src \in [Releases -> [Files -> Nat \ {0}]]
  /\ Graveyard \in [Releases -> SUBSET Files]
  /\ TooFar \subseteq Releases \X Releases
ASSUME FilesAssumption == Files \subseteq Nat /\ Roomodes \in Files /\ Required \subseteq Files
ASSUME BoundsAssumption == MaxEdits \in Nat /\ MaxCommands \in Nat /\ Modes \subseteq Nat \ {0}
\* In harness/manifest.json no path of the graveyard is shipped or had a block.
ASSUME GraveyardAssumption ==
  \A v, w \in Releases : \A f \in Graveyard[v] : Policy[v][f] = "none" /\ Policy[w][f] # "append"
\* From release to release a path keeps its policy there or is dropped, and
\* .roomodes is the harness's wherever the roo adapter is selected.
ASSUME PolicyAssumption ==
  /\ \A v, w \in Releases, f \in Files :
       Policy[v][f] # Policy[w][f] => "none" \in {Policy[v][f], Policy[w][f]}
  /\ \A v \in Releases : Policy[v][Roomodes] \in {"owned", "none"}
ASSUME ValuesAssumption == Absent \notin [text : Int, block : Int]

VARIABLES
  disk,         \* what the target holds at each path
  rec,          \* the record of each file in installed-manifest.json
  release,      \* the version in installed-manifest.json, 0 without one
  modes,        \* the profiles in it, as the modes they put into .roomodes
  saved,        \* the copies of user text in .harness/conflicts
  run,          \* the init or upgrade at work: what it has yet to look at, staged,
                \* set aside, tried to copy (backups) and failed to (uncopied)
  edits,        \* edits by the user so far
  commands,     \* commands so far
  touched,      \* the files the user has edited or removed
  late,         \* those edited during a run, after it had looked at them
  interrupted   \* whether a run has ended before its time

vars == <<disk, rec, release, modes, saved, run, edits, commands, touched, late, interrupted>>

(* A content is a text (0: empty, positive: from a release, negative: the  *)
(* user's) and the harness's part in it: the block of AGENTS.md by the     *)
(* release that rendered it, or the profile modes in .roomodes.            *)
Broken == 0 - (MaxEdits + 1)   \* markers that do not parse
NoBlock == 0
Content == [text : Int, block : Int]
Template(v, f) == [text |-> Src[v][f], block |-> NoBlock]
BlockOf(v, c) == [c EXCEPT !.block = v]
UserTexts(c) == IF c = Absent THEN {} ELSE {t \in {c.text, c.block} : t < 0 /\ t # Broken}

Exists(f) == disk[f] # Absent
\* Records of before there were blocks call AGENTS.md "managed".
Owned == {"owned", "managed"}

\* file_state, with the hash of the file and of its source.
State(v, f, c, applied) ==
  [policy |-> Policy[v][f], hash |-> c, installed |-> Template(v, f),
   src |-> Src[v][f], applied |-> applied]

NoRecords == [f \in Files |-> None]

\* A target the harness was never on, or one that an old release left behind.
Init ==
  /\ \/ /\ disk = [f \in Files |-> Absent]
        /\ rec = NoRecords /\ release = 0
     \/ \E v \in Releases :
          /\ disk = [f \in Files |-> IF Policy[v][f] = "append" THEN Template(v, f) ELSE Absent]
          /\ rec = [f \in Files |-> IF Policy[v][f] = "append"
                      THEN [State(v, f, Template(v, f), NoBlock) EXCEPT !.policy = "managed"]
                      ELSE None]
          /\ release = v
  /\ modes = 1
  /\ saved = {}
  /\ run = Idle
  /\ edits = 0 /\ commands = 0
  /\ touched = {}
  /\ late = {}
  /\ interrupted = FALSE

-----------------------------------------------------------------------------
(* The block in AGENTS.md and .gitignore.                                  *)

Conflict == [conflict |-> TRUE, content |-> None, applied |-> NoBlock]
Result(c, b) == [conflict |-> FALSE, content |-> c, applied |-> b]

AppliedOf(info) == IF info = None THEN NoBlock ELSE info.applied

\* plan_managed_append: what becomes of f and which block it then has.
PlanAppend(v, f, info) ==
  LET c == disk[f]
      expected == IF AppliedOf(info) = NoBlock THEN v ELSE AppliedOf(info)
  IN CASE c = Absent -> Result([text |-> 0, block |-> v], v)
       [] c # Absent /\ c.block = Broken -> Conflict
       [] c # Absent /\ c.block = NoBlock ->
            IF info = None \/ info.policy # "managed" THEN Result(BlockOf(v, c), v)
            ELSE IF c = info.hash THEN Result([text |-> 0, block |-> v], v)
            ELSE Conflict
       [] c # Absent /\ c.block \notin {Broken, NoBlock} ->
            IF c.block # expected THEN Conflict
            ELSE IF c.block \in Releases /\ Src[c.block][f] = Src[v][f] THEN Result(c, c.block)
            ELSE Result(BlockOf(v, c), v)

\* plan_managed_append_retirement: the block goes, the rest of the file stays.
PlanRetirement(f, info) ==
  LET c == disk[f]
  IN IF c = Absent THEN Result(Absent, NoBlock)
     ELSE IF c.block = NoBlock THEN Result(c, NoBlock)
     ELSE IF c.block = Broken \/ info.applied = NoBlock \/ c.block # info.applied
     THEN Conflict ELSE Result(BlockOf(NoBlock, c), NoBlock)

-----------------------------------------------------------------------------
(* The beginning of a run.                                                 *)

Command == commands < MaxCommands /\ commands' = commands + 1 /\ run = Idle

Begins(kind, v, force, records, m) ==
  run' = [kind |-> kind, v |-> v, force |-> force, todo |-> Files, rec |-> records,
          staged |-> {}, conflicts |-> {}, backups |-> {}, uncopied |-> {}, modes |-> m]

Existing(v) == {f \in Files : Policy[v][f] = "owned" /\ Exists(f)}

InitBegins(v, m) ==
  /\ Command /\ Existing(v) = {}
  /\ Begins("init", v, FALSE, NoRecords, m)
  /\ UNCHANGED <<disk, rec, release, modes, saved, edits, touched, late, interrupted>>

\* init --force removes the harness's files and all of .harness first.
InitForced(v, m) ==
  /\ Command /\ Existing(v) # {}
  /\ disk' = [f \in Files |-> IF f \in Existing(v) THEN Absent ELSE disk[f]]
  /\ rec' = NoRecords /\ release' = 0 /\ modes' = 1 /\ saved' = {}
  /\ Begins("init", v, TRUE, NoRecords, m)
  /\ UNCHANGED <<edits, touched, late, interrupted>>

UpgradeBegins(v, force) ==
  /\ Command /\ release # 0 /\ <<release, v>> \notin TooFar
  /\ Begins("upgrade", v, force, rec, modes)
  /\ UNCHANGED <<disk, rec, release, modes, saved, edits, touched, late, interrupted>>

\* build_adopted_install_state: the records of what is there as it should be.
AsAdopted(v, f) ==
  CASE Policy[v][f] = "project" /\ Exists(f) -> State(v, f, disk[f], NoBlock)
    [] Policy[v][f] = "append" /\ Exists(f) /\ disk[f].block # NoBlock ->
         State(v, f, disk[f], disk[f].block)
    [] Policy[v][f] = "owned" /\ disk[f] = Template(v, f) -> State(v, f, disk[f], NoBlock)
    [] OTHER -> None

\* What adoption will not overrule, and what it does not know.
ForeignBlock(v, f) ==
  /\ Policy[v][f] = "append" /\ Exists(f) /\ disk[f].block # NoBlock
  /\ disk[f].block \notin Releases \/ Src[disk[f].block][f] # Src[v][f]
ForeignFile(v, f) == Policy[v][f] = "owned" /\ Exists(f) /\ disk[f] # Template(v, f)

Artifact(v, f) ==
  Exists(f) /\ (Policy[v][f] = "owned" \/ (Policy[v][f] = "append" /\ disk[f].block # NoBlock))

\* Copies under a fixed name replace the copy of that name.
Save(how, S, contents) ==
  {s \in saved : s.how # how \/ s.file \notin S}
    \cup {[file |-> f, how |-> how, content |-> contents[f]] : f \in S}

\* upgrade --adopt-existing; a conflict stops it.
AdoptBegins(v, force, m) ==
  LET foreign == {f \in Files : ForeignFile(v, f)}
  IN /\ Command /\ release = 0
     /\ \A f \in Required : Policy[v][f] = "project" => Exists(f)
     /\ \E f \in Files : Artifact(v, f)
     /\ \A f \in Files : ~ForeignBlock(v, f)
     /\ force \/ foreign = {}
     /\ saved' = Save("adopted", foreign, disk)
     /\ Begins("adopt", v, force, [f \in Files |-> AsAdopted(v, f)], m)
     /\ UNCHANGED <<disk, rec, release, modes, edits, touched, late, interrupted>>

-----------------------------------------------------------------------------
(* One file of a run.                                                      *)

Handled(f, records) == run' = [run EXCEPT !.todo = @ \ {f}, !.rec = records]
Recorded(f, state) == [run.rec EXCEPT ![f] = state]

Pending(f) == run # Idle /\ f \in run.todo /\ \A g \in run.todo : f <= g
Upgrading == run # Idle /\ run.kind # "init"
Info(f) == run.rec[f]
\* A conflict: the file is left as it is, and so is its record.
Aside(f) == run' = [run EXCEPT !.todo = @ \ {f}, !.conflicts = @ \cup {f}]

\* init stages what is the harness's and writes the rest in place; it records
\* everything at the end.  A block that is not as it would write it stops it.
InitFile(f) ==
  /\ Pending(f) /\ run.kind = "init"
  /\ LET p == Policy[run.v][f]
         plan == PlanAppend(run.v, f, None)
     IN IF p = "append" /\ plan.conflict
        THEN /\ run' = Idle /\ interrupted' = TRUE
             /\ UNCHANGED disk
        ELSE /\ disk' = CASE p = "append" -> [disk EXCEPT ![f] = plan.content]
                          [] p \in {"project", "seed"} /\ ~Exists(f) ->
                               [disk EXCEPT ![f] = Template(run.v, f)]
                          [] OTHER -> disk
             /\ run' = [run EXCEPT !.todo = @ \ {f},
                  !.staged = IF p = "owned" THEN @ \cup {f} ELSE @]
             /\ UNCHANGED interrupted
  /\ UNCHANGED <<rec, release, modes, saved, edits, commands, touched, late>>

AppendFile(f) ==
  /\ Pending(f) /\ Upgrading /\ Policy[run.v][f] = "append"
  /\ LET plan == PlanAppend(run.v, f, Info(f))
     IN IF plan.conflict
        THEN Aside(f) /\ UNCHANGED disk
        ELSE /\ disk' = [disk EXCEPT ![f] = plan.content]
             /\ Handled(f, Recorded(f, State(run.v, f, plan.content, plan.applied)))
  /\ UNCHANGED <<rec, release, modes, saved, edits, commands, touched, late, interrupted>>

Modified(f) == Exists(f) /\ ~run.force /\ (Info(f) = None \/ disk[f] # Info(f).hash)

\* Mutant of Unchanged: the source is compared first.
UnchangedSource(f) ==
  Exists(f) /\ ~run.force /\ Info(f) # None /\ Info(f).src = Src[run.v][f]

\* The source is as it was and so is the file.
Unchanged(f) ==
  Exists(f) /\ ~run.force /\ ~Modified(f) /\ Info(f) # None /\ Info(f).src = Src[run.v][f]

KeepOwned(f) ==
  /\ Pending(f) /\ Upgrading /\ Policy[run.v][f] = "owned" /\ Unchanged(f)
  /\ UNCHANGED disk
  /\ Handled(f, run.rec)
  /\ UNCHANGED <<rec, release, modes, saved, edits, commands, touched, late, interrupted>>

\* Mutant of StageOwned: the copy of what the user made is left out.
StageOwnedNoCopy(f) ==
  /\ Pending(f) /\ Upgrading /\ Policy[run.v][f] = "owned" /\ ~Unchanged(f)
  /\ run' = [run EXCEPT !.todo = @ \ {f}, !.staged = @ \cup {f},
       !.rec[f] = State(run.v, f, Template(run.v, f), NoBlock)]
  /\ UNCHANGED <<disk, rec, release, modes, saved, edits, commands, touched, late, interrupted>>

\* A copy of a modified file goes to .harness/conflicts under the run's name.
\* The copy may fail; the file is staged all the same and nothing is said.
StageOwned(f) ==
  /\ Pending(f) /\ Upgrading /\ Policy[run.v][f] = "owned" /\ ~Unchanged(f)
  /\ \E fails \in {FALSE, Modified(f)} :
       /\ saved' = IF Modified(f) /\ ~fails
                   THEN saved \cup {[file |-> f, how |-> "backup", content |-> disk[f]]} ELSE saved
       /\ run' = [run EXCEPT !.todo = @ \ {f}, !.staged = @ \cup {f},
            !.backups = IF Modified(f) THEN @ \cup {f} ELSE @,
            !.uncopied = IF fails THEN @ \cup {f} ELSE @,
            !.rec[f] = State(run.v, f, Template(run.v, f), NoBlock)]
  /\ UNCHANGED <<disk, rec, release, modes, edits, commands, touched, late, interrupted>>

Retired(f) == Info(f) # None /\ Policy[run.v][f] = "none" /\ Info(f).policy \in Owned \cup {"append"}

\* The block as it stands, or nothing when the markers do not parse.
BlockAlone(f) ==
  [text |-> 0, block |-> IF disk[f].block = Broken THEN NoBlock ELSE disk[f].block]

RetireBlock(f) ==
  /\ Pending(f) /\ Upgrading /\ Retired(f) /\ Info(f).policy = "append"
  /\ LET plan == PlanRetirement(f, Info(f))
     IN IF plan.conflict
        THEN /\ Aside(f) /\ saved' = Save("retired", {f}, [disk EXCEPT ![f] = BlockAlone(f)])
             /\ UNCHANGED disk
        ELSE /\ disk' = [disk EXCEPT ![f] = plan.content]
             /\ Handled(f, Recorded(f, None))
             /\ UNCHANGED saved
  /\ UNCHANGED <<rec, release, modes, edits, commands, touched, late, interrupted>>

\* Mutant of RetireFile: the record of a removed file stays.
RetireFileKeepsRecord(f) ==
  /\ Pending(f) /\ Upgrading /\ Retired(f) /\ Info(f).policy \in Owned
  /\ IF Exists(f) /\ disk[f] # Info(f).hash
     THEN /\ Aside(f) /\ saved' = Save("retired", {f}, disk)
          /\ UNCHANGED disk
     ELSE /\ disk' = [disk EXCEPT ![f] = Absent]
          /\ Handled(f, run.rec)
          /\ UNCHANGED saved
  /\ UNCHANGED <<rec, release, modes, edits, commands, touched, late, interrupted>>

\* What the user changed is copied, left where it is, and stays on record.
RetireFile(f) ==
  /\ Pending(f) /\ Upgrading /\ Retired(f) /\ Info(f).policy \in Owned
  /\ IF Exists(f) /\ disk[f] # Info(f).hash
     THEN /\ Aside(f) /\ saved' = Save("retired", {f}, disk)
          /\ UNCHANGED disk
     ELSE /\ disk' = [disk EXCEPT ![f] = Absent]
          /\ Handled(f, Recorded(f, None))
          /\ UNCHANGED saved
  /\ UNCHANGED <<rec, release, modes, edits, commands, touched, late, interrupted>>

\* The graveyard and the project files that are recorded again as they are.
OtherFile(f) ==
  /\ Pending(f) /\ Upgrading /\ ~Retired(f)
  /\ Policy[run.v][f] \in {"project", "seed", "none"}
  /\ IF Info(f) = None /\ f \in Graveyard[run.v]
     THEN /\ disk' = [disk EXCEPT ![f] = Absent]
          /\ Handled(f, run.rec)
     ELSE /\ UNCHANGED disk
          /\ Handled(f, IF Policy[run.v][f] = "project" /\ Exists(f)
                        THEN Recorded(f, State(run.v, f, disk[f], NoBlock)) ELSE run.rec)
  /\ UNCHANGED <<rec, release, modes, saved, edits, commands, touched, late, interrupted>>

-----------------------------------------------------------------------------
(* The end of a run.                                                       *)

\* What init records: the staged files as they will be, the others as they are.
Composed ==
  [f \in Files |->
     IF Policy[run.v][f] = "none" THEN None
     ELSE IF f \in run.staged THEN State(run.v, f, Template(run.v, f), NoBlock)
     ELSE State(run.v, f, disk[f], IF Policy[run.v][f] = "append" THEN disk[f].block ELSE NoBlock)]

\* installed_sha256 is that of the source.  .roomodes is hashed anew, and its
\* installed_sha256 too if it went through a batch.
Stamped(records, landed) ==
  LET batch == run.kind = "init" \/ run.staged # {}
      synced(f) == f = Roomodes /\ landed[f] # Absent
  IN [f \in Files |->
        IF records[f] = None THEN None
        ELSE [records[f] EXCEPT
                !.hash = IF synced(f) THEN landed[f] ELSE @,
                !.installed = IF synced(f) /\ batch THEN landed[f]
                              ELSE IF Policy[run.v][f] = "none" THEN @
                              ELSE Template(run.v, f)]]

\* The profile modes are written into .roomodes, if it is there.
Synced(d, m) == [d EXCEPT ![Roomodes] = IF @ = Absent THEN @ ELSE BlockOf(m, @)]

Landed ==
  Synced([f \in Files |-> IF f \in run.staged THEN Template(run.v, f) ELSE disk[f]], run.modes)

\* A file init has to hash is gone, or its block is.
Composable ==
  \A f \in Files : Policy[run.v][f] \in {"append", "project", "seed"} =>
    /\ Exists(f)
    /\ Policy[run.v][f] = "append" => disk[f].block \notin {NoBlock, Broken}

Complete ==
  /\ run # Idle /\ run.todo = {}
  /\ run.kind = "init" => Composable
  /\ ~(run.kind = "adopt" /\ run.conflicts # {})
  /\ disk' = Landed
  /\ rec' = Stamped(IF run.kind = "init" THEN Composed ELSE run.rec, Landed)
  /\ release' = run.v
  /\ modes' = run.modes
  /\ run' = Idle
  /\ UNCHANGED <<saved, edits, commands, touched, late, interrupted>>

\* A run that dies, or that recovery rolls back with some of its files away.
Interrupt ==
  /\ run # Idle
  /\ \E gone \in SUBSET run.staged :
       /\ run.todo # {} => gone = {}
       /\ disk' = [f \in Files |-> IF f \in gone THEN Absent ELSE disk[f]]
  /\ run' = Idle
  /\ interrupted' = TRUE
  /\ UNCHANGED <<rec, release, modes, saved, edits, commands, touched, late>>

-----------------------------------------------------------------------------
(* Uninstall, and the user.                                                *)

Selected(S) == {f \in Files : rec[f] # None /\ Scope[f] \in S}

\* Mutant of Uninstalled: a file with a block in it is removed with the block.
UninstalledWhole(f) == Absent

\* What uninstall makes of a file on record.
Uninstalled(f) ==
  IF rec[f].policy = "append" THEN PlanRetirement(f, rec[f]).content ELSE Absent

\* build_removal_plan's conflicts: blocks that are not as they were applied.
RemovalConflicts(S) ==
  {f \in Selected(S) : rec[f].policy = "append" /\ PlanRetirement(f, rec[f]).conflict}

\* update_installed_scopes: the profiles that stay installed, as modes.
ResidualModes(S) == IF "docs" \in S THEN 1 ELSE modes

\* A conflict stops the whole of uninstall.
Uninstall(S, forget) ==
  LET residual == ResidualModes(S)
      left == [f \in Files |-> IF f \in Selected(S) THEN Uninstalled(f) ELSE disk[f]]
  IN /\ Command /\ release # 0
     /\ RemovalConflicts(S) = {}
     /\ forget => \A f \in Files : Scope[f] \in S
     /\ disk' = Synced(left, residual)
     /\ rec' = [f \in Files |-> IF forget \/ f \in Selected(S) THEN None ELSE rec[f]]
     /\ release' = IF forget THEN 0 ELSE release
     /\ modes' = IF forget THEN 1 ELSE residual
     /\ UNCHANGED <<saved, run, edits, touched, late, interrupted>>

\* uninstall --remove-install-state-only.
ForgetInstall ==
  /\ Command /\ release # 0
  /\ rec' = NoRecords /\ release' = 0 /\ modes' = 1
  /\ UNCHANGED <<disk, saved, run, edits, touched, late, interrupted>>

HasBlock(f) == \E v \in Releases : Policy[v][f] = "append"

\* The user writes the text, the block or its markers, or takes the block out.
Edited(f) ==
  LET u == 0 - (edits + 1)
      c == IF Exists(f) THEN disk[f] ELSE [text |-> 0, block |-> NoBlock]
  IN {[c EXCEPT !.text = u], Absent}
     \cup IF HasBlock(f) /\ c.block # NoBlock
          THEN {[c EXCEPT !.block = b] : b \in {u, Broken, NoBlock}} ELSE {}

\* A run that puts its own file down in any case has looked when it began.
LookedAt(f) ==
  run # Idle /\ (f \notin run.todo \/ (Policy[run.v][f] = "owned" /\ (run.force \/ run.kind = "init")))

UserEdits(f) ==
  /\ edits < MaxEdits
  /\ \E c \in Edited(f) \ {disk[f]} : disk' = [disk EXCEPT ![f] = c]
  /\ edits' = edits + 1
  /\ touched' = touched \cup {f}
  /\ late' = IF LookedAt(f) THEN late \cup {f} ELSE late
  /\ UNCHANGED <<rec, release, modes, saved, run, commands, interrupted>>

FileStep(f) == \/ InitFile(f) \/ AppendFile(f) \/ KeepOwned(f) \/ StageOwned(f)
               \/ RetireBlock(f) \/ RetireFile(f) \/ OtherFile(f)

Next ==
  \/ \E v \in Releases, m \in Modes :
       InitBegins(v, m) \/ InitForced(v, m) \/ \E force \in BOOLEAN : AdoptBegins(v, force, m)
  \/ \E v \in Releases, force \in BOOLEAN : UpgradeBegins(v, force)
  \/ \E f \in Files : FileStep(f) \/ UserEdits(f)
  \/ Complete \/ Interrupt \/ ForgetInstall
  \/ \E S \in (SUBSET {Scope[f] : f \in Files}) \ {{}}, forget \in BOOLEAN : Uninstall(S, forget)

Spec == Init /\ [][Next]_vars
-----------------------------------------------------------------------------
Texts == Content \cup {Absent}
FileRecords == [policy : Policies \cup {"managed"}, hash : Texts, installed : Content,
                src : Nat, applied : Int]

RunStates ==
  [kind : {"init", "upgrade", "adopt"}, v : Releases, force : BOOLEAN, todo : SUBSET Files,
   rec : [Files -> FileRecords \cup {None}], staged : SUBSET Files, conflicts : SUBSET Files,
   backups : SUBSET Files, uncopied : SUBSET Files, modes : Nat \ {0}]
ASSUME RunsAssumption == Idle \notin RunStates /\ None \notin FileRecords

TypeOK ==
  /\ disk \in [Files -> Texts]
  /\ rec \in [Files -> FileRecords \cup {None}]
  /\ release \in Releases \cup {0}
  /\ modes \in Modes \cup {1}
  /\ \A s \in saved : s.file \in Files /\ s.how \in {"backup", "retired", "adopted"}
                      /\ s.content \in Content
  /\ run # Idle => run \in RunStates /\ run.modes \in Modes \cup {1}
                   /\ run.staged \cap run.todo = {} /\ run.conflicts \cap run.todo = {}
  /\ edits \in 0 .. MaxEdits /\ commands \in 0 .. MaxCommands
  /\ touched \subseteq Files /\ late \subseteq touched

\* A run that is not told to force things takes no text of the user's away
\* without a copy in .harness/conflicts (upgrade.py's backups, conflicts and
\* retirements), unless it was written after a run had looked at the file, or it
\* is in the graveyard and on no record, or this run's copy of it failed:
\* upgrade.py passes over that ("backup is best-effort") and replaces the file.
KeepsUserText ==
  [][\A f \in Files :
       /\ run # Idle /\ edits' = edits /\ disk[f] # disk'[f]
       /\ ~run.force \/ run.kind = "adopt"
       /\ f \notin late \cup run.uncopied /\ (f \in Graveyard[run.v] => run.rec[f] # None)
       => \A t \in UserTexts(disk[f]) :
            \/ t \in UserTexts(disk'[f])
            \/ \E s \in saved' : s.file = f /\ t \in UserTexts(s.content)]_vars

\* What the user wrote around the block of AGENTS.md or .gitignore survives
\* every command, forced or not, uninstall included (append_block.py only ever
\* touches what is between its markers), old records apart.
AroundBlockKept ==
  [][\A f \in Files :
       /\ edits' = edits /\ HasBlock(f) /\ Exists(f)
       /\ disk[f].text < 0 /\ (rec[f] # None => rec[f].policy # "managed")
       => disk'[f] # Absent /\ disk'[f].text = disk[f].text]_vars

\* An upgrade to v would find nothing to do for f.
Settled(v, f) ==
  CASE Policy[v][f] = "owned" -> /\ Exists(f) /\ disk[f].text = Src[v][f]
                                 /\ rec[f].hash = disk[f] /\ rec[f].src = Src[v][f]
    [] Policy[v][f] = "append" -> /\ Exists(f) /\ disk[f].block \in Releases
                                  /\ Src[disk[f].block][f] = Src[v][f]
                                  /\ rec[f].applied = disk[f].block
    [] Policy[v][f] = "none" -> rec[f] = None \/ rec[f].policy \in {"project", "seed"}
    [] OTHER -> TRUE

\* A run that met no conflict leaves the target as the release has it, and its
\* records say so: a second upgrade to the same release has nothing to do.
\* .roomodes is left out, whose record takes over what the run finds there.
Converges ==
  [][\A v \in Releases :
       /\ Complete
       /\ run.v = v /\ run.conflicts = {} /\ late = {}
       => \A f \in Files \ {Roomodes} : Settled(v, f)']_vars

\* _check_roomodes_profile_sync: .roomodes has modes of profiles that are not
\* installed.
ForeignModes(f) == f = Roomodes /\ Exists(f) /\ disk[f].block \in Modes \ {1, modes}

\* validate_installed_managed_append: the block is missing, does not parse or is
\* not the one that was applied.
BlockComplaint(f) ==
  /\ rec[f] # None /\ rec[f].policy = "append" /\ Exists(f)
  /\ \/ disk[f].block \in {NoBlock, Broken}
     \/ rec[f].applied # NoBlock /\ disk[f].block # rec[f].applied

\* check_installed_target against the release v: the files it stops at.
Complaints(v) ==
  {f \in Files :
     \/ rec[f] # None /\ ~Exists(f)
     \/ rec[f] = None /\ ~Exists(f) /\ Policy[v][f] \notin {"project", "none"}
     \/ BlockComplaint(f)
     \/ rec[f] # None /\ Policy[v][f] # "none" /\ rec[f].policy # Policy[v][f]
     \/ rec[f] # None /\ Policy[v][f] = "none" /\ rec[f].policy # "project"
     \/ ForeignModes(f)}

\* After a run that met no conflict check stops at nothing that the run could
\* have mended: check.py tells the operator to upgrade for each of its errors.
\* Project and seed files are the exception: no upgrade puts one back or takes
\* one that a release dropped off the record.
CheckedAfterRun ==
  [][\A v \in Releases :
       /\ Complete
       /\ run.v = v /\ run.conflicts = {} /\ late = {}
       => \A f \in Complaints(v)' :
            \/ Policy[v][f] \in {"project", "seed"} /\ disk'[f] = Absent
            \/ rec'[f] # None /\ rec'[f].policy \in {"project", "seed"}]_vars

\* Mutant of Drift: AGENTS.md is compared as a whole.
DriftWhole(f) ==
  rec[f] # None /\ rec[f].policy \in Owned \cup {"append"} /\ disk[f] # rec[f].installed

\* verify_hashes, which check and doctor report as a file modified by others.
Drift(f) ==
  /\ rec[f] # None /\ rec[f].policy # "project"
  /\ CASE disk[f] = Absent -> TRUE
       [] disk[f] # Absent /\ rec[f].policy \in Owned -> disk[f] # rec[f].installed
       [] disk[f] # Absent /\ rec[f].policy = "append" ->
            rec[f].applied # NoBlock /\ disk[f].block \notin {NoBlock, rec[f].applied}
       [] OTHER -> FALSE

\* A file on record that nobody edited is never reported as drifted, never in conflict
\* and never copied as if the user had made something of it, as long as no run
\* was cut short; .roomodes apart.
UneditedIsQuiet ==
  ~interrupted =>
    \A f \in Files \ ({Roomodes} \cup touched) :
      rec[f] # None =>
        IF run = Idle THEN ~Drift(f) ELSE f \notin run.conflicts \cup run.backups
=============================================================================
