------------------------------- MODULE Install -------------------------------
(***************************************************************************)
(* How harness init and harness upgrade put a release on a target, and how *)
(* the recovery that state repair runs finishes or undoes what a run left  *)
(* behind.                                                                 *)
(*                                                                         *)
(* A run stages its harness-owned files under .harness/.staging-<runid>,   *)
(* writes the record of the install as a sidecar (pending), renames the    *)
(* staged files over the target one by one with a journal line after each, *)
(* writes a completion sentinel, merges the profile modes into .roomodes,  *)
(* writes the sidecar again and renames it to installed-manifest.json.     *)
(* Nothing here holds a lock.  A crash may come between any two steps, of  *)
(* a run as of a recovery, and any rename may fail.                        *)
(*                                                                         *)
(* Runs of init and upgrade do not overlap.  The failure message asks the  *)
(* operator to recover first: strays counts the runs started over the      *)
(* leftovers of an earlier one and the recoveries beside a run at work.    *)
(***************************************************************************)
EXTENDS Integers, FiniteSets

CONSTANTS
  Files,         \* the harness-owned paths, numbered in the order of a batch
  Roomodes,      \* the one of them that is .roomodes
  Runs,          \* the runs of init and upgrade, numbered as they begin
  Releases,      \* the source trees: what each holds for a path
  Absent, None,  \* no file, no manifest
  Repair,        \* the recovery
  MaxFaults,     \* bound on crashes, failing renames and strays together
  MaxStrays      \* bound on how often the operator strays

ASSUME FilesAssumption == /\ Files \subseteq Nat /\ IsFiniteSet(Files)
                          /\ Roomodes \in Files
ASSUME RunsAssumption == Runs \subseteq Nat /\ Repair \notin Runs /\ Releases \subseteq [Files -> Nat]
ASSUME BoundAssumption == MaxFaults \in Nat /\ MaxStrays \in Nat
ASSUME ValuesAssumption ==
  /\ Absent \notin [text : Nat, modes : BOOLEAN]
  /\ None \notin [run : Runs, src : [Files -> Nat],
                  hash : [Files -> [text : Nat, modes : BOOLEAN]]]

VARIABLES
  disk,      \* what the target holds at each path
  manifest,  \* installed-manifest.json
  left,      \* of each run: its sidecar, staging directory, journal, sentinel
  staged,    \* of each run: the files in its staging directory
  done,      \* of each run: the files its journal says are renamed
  payload,   \* of each run: the record it composed, which its sidecar holds
  at, todo,  \* of each run and of the recovery: the step, the files to go
  rep,       \* what the recovery has found and the run it works on
  faults,    \* crashes and failing renames so far
  strays     \* how often the operator has strayed

vars == <<disk, manifest, left, staged, done, payload, at, todo, rep, faults, strays>>

Drivers == Runs \cup {Repair}
Content == [text : Nat, modes : BOOLEAN]
\* A file as the release ships it, and .roomodes with the profile modes in it.
Template(n) == [text |-> n, modes |-> FALSE]
Merged(c) == [c EXCEPT !.modes = TRUE]
Records == [run : Runs, src : [Files -> Nat], hash : [Files -> Content]]
Artifacts == {"pending", "staging", "aborted", "old", "journal", "sentinel"}
InStaging == {"staging", "aborted", "old"}

First(S) == CHOOSE f \in S : \A g \in S : f <= g

Init ==
  /\ disk = [f \in Files |-> Absent]
  /\ manifest = None
  /\ left = [r \in Runs |-> {}]
  /\ staged = [r \in Runs |-> {}]
  /\ done = [r \in Runs |-> {}]
  /\ payload = [r \in Runs |-> None]
  /\ at = [d \in Drivers |-> "idle"]
  /\ todo = [d \in Drivers |-> {}]
  /\ rep = [pend |-> {}, stale |-> {}, on |-> None, legacy |-> FALSE]
  /\ faults = 0
  /\ strays = 0

Active(d) == at[d] \notin {"idle", "done", "refused", "failed", "dead"}
\* The run whose staging directory a driver works on.
On(d) == IF d = Repair THEN rep.on ELSE d
Goto(d, step) == at' = [at EXCEPT ![d] = step]
\* Where a driver goes when its batch stopped or its rename of the sidecar failed.
GiveUp(d) == Goto(d, IF d = Repair THEN "pick" ELSE "failed")

-----------------------------------------------------------------------------
(* The beginning of a run: what it stages, and the record it composes.     *)

Clean(r) == left[r] \cap {"pending", "staging"} = {}
\* The operator strays by going on although condition C does not hold.
Unless(C) == /\ C \/ (strays < MaxStrays /\ faults + strays < MaxFaults)
             /\ strays' = IF C THEN strays ELSE strays + 1

MayBegin(r) ==
  /\ at[r] = "idle" /\ \A q \in Runs : q < r => at[q] # "idle"
  /\ \A q \in Runs : ~Active(q)
  /\ Unless(~Active(Repair) /\ \A q \in Runs : Clean(q))

Existing == {f \in Files : disk[f] # Absent}

\* What an upgrade stages: every file with --force, else what is missing, what
\* was modified since it was recorded, and what the source changed.
ToStage(src, force) ==
  {f \in Files : \/ force \/ disk[f] = Absent
                 \/ disk[f] # manifest.hash[f]
                 \/ src[f] # manifest.src[f]}

Stages(r, S, record) ==
  /\ todo' = [todo EXCEPT ![r] = S]
  /\ payload' = [payload EXCEPT ![r] = record]
  /\ left' = [left EXCEPT ![r] = {"staging"}]

Fresh(r, src) == [run |-> r, src |-> src, hash |-> [f \in Files |-> Template(src[f])]]

InitRefused(r) ==
  /\ MayBegin(r) /\ Existing # {}
  /\ Goto(r, "refused")
  /\ UNCHANGED <<disk, manifest, left, staged, done, payload, todo, rep, faults>>

InitBegins(r) ==
  /\ MayBegin(r) /\ Existing = {}
  /\ \E src \in Releases : Stages(r, Files, Fresh(r, src))
  /\ Goto(r, "stage")
  /\ UNCHANGED <<disk, manifest, staged, done, rep, faults>>

\* init --force removes the files first and then all of .harness.
InitForced(r) ==
  /\ MayBegin(r) /\ Existing # {}
  /\ todo' = [todo EXCEPT ![r] = Existing]
  /\ Goto(r, "clear")
  /\ UNCHANGED <<disk, manifest, left, staged, done, payload, rep, faults>>

ClearFile(r) ==
  /\ at[r] = "clear" /\ todo[r] # {}
  /\ disk' = [disk EXCEPT ![First(todo[r])] = Absent]
  /\ todo' = [todo EXCEPT ![r] = @ \ {First(todo[r])}]
  /\ UNCHANGED <<manifest, left, staged, done, payload, at, rep, faults, strays>>

ClearHarness(r) ==
  /\ at[r] = "clear" /\ todo[r] = {}
  /\ manifest' = None
  /\ todo' = [todo EXCEPT ![r] = Files]
  /\ \E src \in Releases : payload' = [payload EXCEPT ![r] = Fresh(r, src)]
  /\ left' = [q \in Runs |-> IF q = r THEN {"staging"} ELSE {}]
  /\ staged' = [q \in Runs |-> {}]
  /\ done' = [q \in Runs |-> {}]
  /\ Goto(r, "stage")
  /\ UNCHANGED <<disk, rep, faults, strays>>

\* Without an installed-manifest.json an upgrade refuses (adoption apart).
UpgradeBegins(r) ==
  /\ MayBegin(r) /\ manifest # None
  /\ \E force \in BOOLEAN, src \in Releases :
       LET S == ToStage(src, force)
       IN /\ Stages(r, S,
               [run |-> r,
                src |-> [f \in Files |-> IF f \in S THEN src[f] ELSE manifest.src[f]],
                hash |-> [f \in Files |-> IF f \in S THEN Template(src[f])
                                                     ELSE manifest.hash[f]]])
          /\ Goto(r, IF S = {} THEN "direct" ELSE "stage")
  /\ UNCHANGED <<disk, manifest, staged, done, rep, faults>>

StageFile(r) ==
  /\ at[r] = "stage" /\ todo[r] # {}
  /\ staged' = [staged EXCEPT ![r] = @ \cup {First(todo[r])}]
  /\ todo' = [todo EXCEPT ![r] = @ \ {First(todo[r])}]
  /\ UNCHANGED <<disk, manifest, left, done, payload, at, rep, faults, strays>>

WritePending(r) ==
  /\ at[r] = "stage" /\ todo[r] = {}
  /\ left' = [left EXCEPT ![r] = @ \cup {"pending"}]
  /\ Goto(r, "open")
  /\ UNCHANGED <<disk, manifest, staged, done, payload, todo, rep, faults, strays>>

-----------------------------------------------------------------------------
(* The batch, by the run that staged it or by a recovery.                  *)

\* Mutant of BatchOpen: the journal is written as a plan of the renames to come.
BatchOpenPlans(d) ==
  LET r == On(d)
  IN /\ at[d] = "open" /\ "staging" \in left[r]
     /\ todo' = [todo EXCEPT ![d] = staged[r] \ done[r]]
     /\ left' = [left EXCEPT ![r] = @ \cup {"journal"}]
     /\ done' = [done EXCEPT ![r] = @ \cup staged[r]]
     /\ Goto(d, "rename")
     /\ UNCHANGED <<disk, manifest, staged, payload, rep, faults, strays>>

\* It lists the staged files, leaves out those the journal names, and opens
\* the journal.  A staging directory that is gone is an error.
BatchOpen(d) ==
  LET r == On(d)
  IN /\ at[d] = "open"
     /\ IF "staging" \in left[r]
        THEN /\ todo' = [todo EXCEPT ![d] = staged[r] \ done[r]]
             /\ left' = [left EXCEPT ![r] = @ \cup {"journal"}]
             /\ Goto(d, "rename")
        ELSE GiveUp(d) /\ UNCHANGED <<todo, left>>
     /\ UNCHANGED <<disk, manifest, staged, done, payload, rep, faults, strays>>

BatchRename(d) ==
  LET r == On(d)
      f == First(todo[d])
  IN /\ at[d] = "rename" /\ todo[d] # {} /\ f \in staged[r]
     /\ disk' = [disk EXCEPT ![f] = Template(payload[r].src[f])]
     /\ staged' = [staged EXCEPT ![r] = @ \ {f}]
     /\ Goto(d, "line")
     /\ UNCHANGED <<manifest, left, done, payload, todo, rep, faults, strays>>

\* Somebody else has renamed the file: it counts as done if it is there.
BatchVanished(d) ==
  LET f == First(todo[d])
  IN /\ at[d] = "rename" /\ todo[d] # {} /\ f \notin staged[On(d)]
     /\ IF disk[f] # Absent
        THEN Goto(d, "line") /\ UNCHANGED todo
        ELSE todo' = [todo EXCEPT ![d] = @ \ {f}] /\ UNCHANGED at
     /\ UNCHANGED <<disk, manifest, left, staged, done, payload, rep, faults, strays>>

\* The journal line follows the rename.
BatchLine(d) ==
  LET r == On(d)
      f == First(todo[d])
  IN /\ at[d] = "line"
     /\ done' = [done EXCEPT ![r] = IF "journal" \in left[r] THEN @ \cup {f} ELSE @]
     /\ todo' = [todo EXCEPT ![d] = @ \ {f}]
     /\ Goto(d, "rename")
     /\ UNCHANGED <<disk, manifest, left, staged, payload, rep, faults, strays>>

\* A rename that fails, or whose file went between the test and the rename,
\* leaves .aborted in the staging directory.
BatchAbort(d) ==
  LET r == On(d)
  IN /\ at[d] = "rename" /\ todo[d] # {}
     /\ IF First(todo[d]) \in staged[r]
        THEN faults + strays < MaxFaults /\ faults' = faults + 1
        ELSE UNCHANGED faults
     /\ left' = [left EXCEPT ![r] = IF "staging" \in @ THEN @ \cup {"aborted"} ELSE @]
     /\ GiveUp(d)
     /\ UNCHANGED <<disk, manifest, staged, done, payload, todo, rep, strays>>

BatchDone(d) ==
  LET r == On(d)
  IN /\ at[d] = "rename" /\ todo[d] = {}
     /\ IF d = Repair /\ rep.legacy
        THEN Goto(d, "sweep") /\ UNCHANGED left
        ELSE /\ left' = [left EXCEPT ![r] = @ \cup {"sentinel"}]
             /\ Goto(d, IF d = Repair THEN "publish" ELSE "merge")
     /\ UNCHANGED <<disk, manifest, staged, done, payload, todo, rep, faults, strays>>

-----------------------------------------------------------------------------
(* The end of a run.                                                       *)

\* The profile modes go into .roomodes, if there is one.
Merge(r) ==
  /\ at[r] \in {"merge", "direct"}
  /\ disk' = [disk EXCEPT ![Roomodes] = IF @ = Absent THEN @ ELSE Merged(@)]
  /\ Goto(r, IF at[r] = "merge" THEN "rewrite" ELSE "discard")
  /\ UNCHANGED <<manifest, left, staged, done, payload, todo, rep, faults, strays>>

Patched(r) ==
  [payload EXCEPT ![r].hash[Roomodes] = IF disk[Roomodes] = Absent THEN @ ELSE disk[Roomodes]]

\* The sidecar again, now with the hash of the merged .roomodes.
RewritePending(r) ==
  /\ at[r] = "rewrite"
  /\ payload' = Patched(r)
  /\ left' = [left EXCEPT ![r] = @ \cup {"pending"}]
  /\ Goto(r, "publish")
  /\ UNCHANGED <<disk, manifest, staged, done, todo, rep, faults, strays>>

\* The sidecar becomes the manifest.
Publish(d) ==
  LET r == On(d)
  IN /\ at[d] = "publish"
     /\ IF "pending" \in left[r]
        THEN /\ manifest' = payload[r]
             /\ left' = [left EXCEPT ![r] = @ \ {"pending"}]
             /\ Goto(d, "sweep")
        ELSE GiveUp(d) /\ UNCHANGED <<manifest, left>>
     /\ UNCHANGED <<disk, staged, done, payload, todo, rep, faults, strays>>

\* An upgrade that staged nothing discards its staging directory and writes
\* the manifest in place.
Discard(r) ==
  /\ at[r] = "discard"
  /\ left' = [left EXCEPT ![r] = @ \ InStaging]
  /\ Goto(r, "record")
  /\ UNCHANGED <<disk, manifest, staged, done, payload, todo, rep, faults, strays>>

Record(r) ==
  /\ at[r] = "record"
  /\ payload' = Patched(r)
  /\ manifest' = payload'[r]
  /\ Goto(r, "done")
  /\ UNCHANGED <<disk, left, staged, done, todo, rep, faults, strays>>

\* Mutant of SweepOrder: a recovery without a sidecar only removes the journal.
SweepOrderJournalOnly(d) ==
  IF d = Repair /\ rep.legacy THEN <<"journal">>
  ELSE <<"sentinel", "journal", "pending", "staging">>

\* What a driver removes at its end, and in which order.
SweepOrder(d) ==
  CASE d # Repair -> <<"sentinel", "journal", "staging">>
    [] d = Repair /\ ~rep.legacy -> <<"sentinel", "journal", "pending", "staging">>
    [] d = Repair /\ rep.legacy -> <<"staging", "journal">>

Sweep(d) ==
  LET r == On(d)
      remaining == {i \in DOMAIN SweepOrder(d) : SweepOrder(d)[i] \in left[r]}
      next == SweepOrder(d)[First(remaining)]
  IN /\ at[d] = "sweep"
     /\ IF remaining = {}
        THEN /\ Goto(d, IF d = Repair THEN "pick" ELSE "done")
             /\ UNCHANGED <<left, staged, done>>
        ELSE /\ left' = [left EXCEPT ![r] = @ \ IF next = "staging" THEN InStaging ELSE {next}]
             /\ staged' = [staged EXCEPT ![r] = IF next = "staging" THEN {} ELSE @]
             /\ done' = [done EXCEPT ![r] = IF next = "journal" THEN {} ELSE @]
             /\ UNCHANGED at
     /\ UNCHANGED <<disk, manifest, payload, todo, rep, faults, strays>>

-----------------------------------------------------------------------------
(* recover_aborted_install: the sidecars first, then the old directories.  *)

RepairScan ==
  /\ at[Repair] = "idle"
  /\ Unless(\A r \in Runs : ~Active(r))
  /\ LET pend == {r \in Runs : "pending" \in left[r]}
         stale == {r \in Runs : left[r] \cap {"aborted", "old"} # {}}
     IN /\ pend \cup stale # {}
        /\ rep' = [rep EXCEPT !.pend = pend, !.stale = stale \ pend]
  /\ Goto(Repair, "pick")
  /\ UNCHANGED <<disk, manifest, left, staged, done, payload, todo, faults>>

\* Mutant of Decision: an old staging directory is undone.
DecisionUndoesOld(r, legacy) ==
  IF legacy \/ "aborted" \in left[r] THEN "rollback"
  ELSE IF "sentinel" \in left[r] THEN "publish"
  ELSE IF {"journal", "staging"} \subseteq left[r] THEN "open" ELSE "pick"

\* Mutant of Decision: a complete batch only has to be cleaned up.
DecisionCleansUp(r, legacy) ==
  IF "aborted" \in left[r] THEN "rollback"
  ELSE IF legacy THEN "open"
  ELSE IF "sentinel" \in left[r] THEN "sweep"
  ELSE IF {"journal", "staging"} \subseteq left[r] THEN "open" ELSE "pick"

\* What to do about run r: undo it, publish it, finish its batch, or put the
\* sidecar aside.  Without a sidecar: undo it or finish its batch.
Decision(r, legacy) ==
  CASE "aborted" \in left[r] -> "rollback"
    [] "aborted" \notin left[r] /\ legacy -> "open"
    [] "aborted" \notin left[r] /\ ~legacy ->
         IF "sentinel" \in left[r] THEN "publish"
         ELSE IF {"journal", "staging"} \subseteq left[r] THEN "open" ELSE "pick"

Take(r, legacy) ==
  /\ at[Repair] = "pick"
  /\ rep' = [pend |-> rep.pend \ {r}, stale |-> rep.stale \ {r}, on |-> r, legacy |-> legacy]
  /\ Goto(Repair, Decision(r, legacy))
  /\ todo' = [todo EXCEPT ![Repair] = IF Decision(r, legacy) = "rollback" THEN done[r] ELSE {}]
  /\ left' = [left EXCEPT ![r] = IF Decision(r, legacy) = "pick" THEN @ \ {"pending"} ELSE @]
  /\ UNCHANGED <<disk, manifest, staged, done, payload, faults, strays>>

TakePending == \E r \in rep.pend : Take(r, FALSE)
TakeStale == rep.pend = {} /\ \E r \in rep.stale : Take(r, TRUE)

RepairEnds ==
  /\ at[Repair] = "pick" /\ rep.pend = {} /\ rep.stale = {}
  /\ Goto(Repair, "idle")
  /\ rep' = [pend |-> {}, stale |-> {}, on |-> None, legacy |-> FALSE]
  /\ UNCHANGED <<disk, manifest, left, staged, done, payload, todo, faults, strays>>

\* A file the journal names goes to .harness/conflicts: .harness/backups only
\* ever holds ROADMAP.md and STATE.md, which are in no batch.
Rollback ==
  /\ at[Repair] = "rollback"
  /\ IF todo[Repair] = {}
     THEN Goto(Repair, "sweep") /\ UNCHANGED <<disk, todo>>
     ELSE /\ disk' = [disk EXCEPT ![First(todo[Repair])] = Absent]
          /\ todo' = [todo EXCEPT ![Repair] = @ \ {First(@)}]
          /\ UNCHANGED at
  /\ UNCHANGED <<manifest, left, staged, done, payload, rep, faults, strays>>

-----------------------------------------------------------------------------
(* The world.                                                              *)

Crash(d) ==
  /\ Active(d) /\ faults + strays < MaxFaults
  /\ faults' = faults + 1
  /\ Goto(d, IF d = Repair THEN "idle" ELSE "dead")
  /\ todo' = [todo EXCEPT ![d] = {}]
  /\ rep' = IF d = Repair THEN [pend |-> {}, stale |-> {}, on |-> None, legacy |-> FALSE]
                          ELSE rep
  /\ UNCHANGED <<disk, manifest, left, staged, done, payload, strays>>

\* Ten minutes pass over a staging directory nobody works in.
Age(r) ==
  /\ "staging" \in left[r] /\ "old" \notin left[r] /\ ~Active(r)
  /\ left' = [left EXCEPT ![r] = @ \cup {"old"}]
  /\ UNCHANGED <<disk, manifest, staged, done, payload, at, todo, rep, faults, strays>>

Run(r) == \/ InitRefused(r) \/ InitBegins(r) \/ InitForced(r) \/ UpgradeBegins(r)
          \/ ClearFile(r) \/ ClearHarness(r) \/ StageFile(r) \/ WritePending(r)
          \/ Merge(r) \/ RewritePending(r) \/ Discard(r) \/ Record(r)
Batch(d) == \/ BatchOpen(d) \/ BatchRename(d) \/ BatchVanished(d) \/ BatchLine(d)
            \/ BatchDone(d) \/ Publish(d) \/ Sweep(d)
Recovery == RepairScan \/ TakePending \/ TakeStale \/ RepairEnds \/ Rollback

Next == \/ \E r \in Runs : Run(r) \/ Age(r)
        \/ \E d \in Drivers : Batch(d) \/ BatchAbort(d) \/ Crash(d)
        \/ Recovery

Spec == Init /\ [][Next]_vars

\* The operator runs state repair as long as there is something to repair, and
\* it is let run; old directories do get old.
LiveSpec == /\ Spec
            /\ WF_vars(Recovery \/ Batch(Repair))
            /\ \A r \in Runs : WF_vars(Age(r)) /\ WF_vars((Run(r) /\ Active(r)) \/ Batch(r))

-----------------------------------------------------------------------------
Steps == {"idle", "clear", "stage", "open", "rename", "line", "merge", "rewrite", "publish",
          "direct", "discard", "record", "sweep", "pick", "rollback", "done", "refused",
          "failed", "dead"}

TypeOK ==
  /\ disk \in [Files -> Content \cup {Absent}]
  /\ manifest \in Records \cup {None}
  /\ left \in [Runs -> SUBSET Artifacts]
  /\ staged \in [Runs -> SUBSET Files]
  /\ done \in [Runs -> SUBSET Files]
  /\ payload \in [Runs -> Records \cup {None}]
  /\ at \in [Drivers -> Steps]
  /\ todo \in [Drivers -> SUBSET Files]
  /\ rep \in [pend : SUBSET Runs, stale : SUBSET Runs, on : Runs \cup {None}, legacy : BOOLEAN]
  /\ faults \in 0 .. MaxFaults
  /\ strays \in 0 .. MaxStrays

\* The journal names a file only after its rename (atomic_install_batch), so a
\* resumed batch skips nothing and a rollback takes away only what was put down.
JournalAfterRename == \A r \in Runs : done[r] \cap staged[r] = {}

\* Whoever publishes a manifest, the run or a recovery after a crash, every file
\* the manifest names is then on the target as it says, .roomodes apart.
Described(m) == \A f \in Files : /\ disk[f] # Absent
                                 /\ f # Roomodes => disk[f] = m.hash[f]
PublishComplete ==
  [][strays = 0 /\ manifest' \notin {manifest, None} => Described(manifest')]_vars

\* A rollback (_recover_pending_manifest step 2, _recover_one) does not take
\* away the files of the run that the installed manifest describes.
RollbackSparesPublished ==
  [][\A f \in Files : /\ at[Repair] = "rollback"
                      /\ disk[f] # Absent /\ disk'[f] = Absent /\ strays = 0
                      => manifest = None \/ manifest.run # rep.on]_vars

\* The sidecar and the staging directory that a run leaves behind are gone in the
\* end, by the run or by recover_aborted_install, whichever of them dies.
LeftoversCleared == \A r \in Runs : ~Clean(r) ~> Clean(r)

\* A batch whose sentinel is written is published in the end (recovery step 3),
\* even if the run and a recovery die.
CompletedIsPublished ==
  \A r \in Runs : {"sentinel", "pending"} \subseteq left[r]
                  ~> strays > 0 \/ (manifest # None /\ manifest.run = r)
=============================================================================
