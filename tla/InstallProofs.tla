--------------------------- MODULE InstallProofs -----------------------------
(***************************************************************************)
(* The install and its recovery, for any files, any number of runs, any    *)
(* releases and any number of faults.                                      *)
(*                                                                         *)
(* The argument.  What a recovery works on is past its staging, so nobody  *)
(* stages a file the journal names already.  As long as the operator does  *)
(* not stray, one run at most has a sidecar or a staging directory, and    *)
(* nobody but that run or its recovery touches the target.  A run that may *)
(* still be published owes the files in its staging directory, and every   *)
(* other file is on the target as its record says; what is undone carries  *)
(* .aborted until its sidecar is gone.                                     *)
(***************************************************************************)
EXTENDS Install, WellFoundedInduction, TLAPS

Working(r) == at[Repair] \notin {"idle", "pick"} /\ rep.on = r

\* Before its batch a run has no journal, no sidecar and no mark.
EarlyClean ==
  \A r \in Runs :
    /\ at[r] \in {"idle", "refused"} => left[r] = {} /\ staged[r] = {}
    /\ at[r] \in {"idle", "refused", "clear", "stage"} =>
         /\ left[r] \subseteq {"staging"} /\ done[r] = {}
         /\ r \notin rep.pend \cup rep.stale /\ ~Working(r)

\* The recovery works on a run, and forgets what it found when it ends.
RecoverySteps == {"idle", "pick", "open", "rename", "line", "publish", "sweep", "rollback"}
RepairKnows ==
  /\ at[Repair] \in RecoverySteps
  /\ at[Repair] \notin {"idle", "pick"} => rep.on \in Runs
  /\ at[Repair] = "idle" => rep.pend = {} /\ rep.stale = {}

\* The next line of the journal is about a file that has left the staging directory.
LineRenamed ==
  \A d \in Drivers : at[d] = "line" => todo[d] # {} /\ First(todo[d]) \notin staged[On(d)]

\* A run that left anything behind has composed its record.
RecordComposed ==
  \A r \in Runs :
    /\ payload[r] # None => payload[r].run = r
    /\ payload[r] = None =>
         /\ at[r] \in {"idle", "refused", "clear", "dead"} /\ left[r] = {}
         /\ r \notin rep.pend \cup rep.stale /\ ~Working(r)

\* The marks are files in the staging directory.
MarksInStaging == \A r \in Runs : left[r] \cap {"aborted", "old"} # {} => "staging" \in left[r]

Traces == /\ JournalAfterRename /\ EarlyClean /\ RepairKnows /\ LineRenamed
          /\ RecordComposed /\ MarksInStaging
JournalInv == TypeOK /\ Traces

-----------------------------------------------------------------------------
(* What holds besides while the operator has not strayed.                  *)

\* The runs that are at work, have left something, or are in recovery.
Busy(r) == Active(r) \/ ~Clean(r) \/ r \in rep.pend \cup rep.stale \/ Working(r)
OneBusy ==
  /\ \A q, r \in Runs : Busy(q) /\ Busy(r) => q = r
  /\ Active(Repair) => \A r \in Runs : ~Active(r)

\* The sidecar, the sentinel and the mark of a run at each of its steps.
Sidecars(r) ==
  /\ at[r] \in {"open", "rename", "line", "merge", "rewrite", "publish"} =>
       "pending" \in left[r] /\ "aborted" \notin left[r]
  /\ at[r] \in {"stage", "open", "rename", "line"} => "staging" \in left[r]
  /\ at[r] \in {"merge", "rewrite", "publish"} => "sentinel" \in left[r]
  /\ at[r] \in {"direct", "discard", "record"} =>
       left[r] \subseteq {"staging"} /\ staged[r] = {} /\ done[r] = {}
  /\ at[r] = "sweep" => "pending" \notin left[r]

\* Those of the run in recovery.
RecoveryMarks ==
  at[Repair] \notin {"idle", "pick"} =>
    LET marks == left[rep.on]
    IN /\ rep.legacy => "pending" \notin marks
       /\ at[Repair] = "open" => "aborted" \notin marks
       /\ at[Repair] \in {"rename", "line"} => "staging" \in marks /\ "aborted" \notin marks
       /\ at[Repair] = "publish" => ~rep.legacy /\ "sentinel" \in marks /\ "aborted" \notin marks
       /\ at[Repair] = "rollback" => "aborted" \in marks
       /\ at[Repair] = "sweep" => "pending" \notin marks \/ "aborted" \in marks

\* What a batch has to do is what is in the staging directory.
BatchFollows(d) ==
  /\ at[d] = "rename" => todo[d] = staged[On(d)]
  /\ at[d] = "line" => todo[d] \ {First(todo[d])} = staged[On(d)]

\* With the sentinel the batch is complete.
SentinelComplete(r) == {"sentinel", "pending"} \subseteq left[r] => staged[r] = {}

\* The runs that may still be published, and the files they owe.
Publishable(r) ==
  \/ at[r] \in {"stage", "open", "rename", "line", "merge", "rewrite", "publish",
                "direct", "discard", "record"}
  \/ "pending" \in left[r] /\ "aborted" \notin left[r]
Owed(r) == staged[r] \cup IF at[r] = "stage" THEN todo[r] ELSE {}
InPlace(f, m) == disk[f] # Absent /\ (f # Roomodes => disk[f] = m.hash[f])
NothingMissing(r) ==
  Publishable(r) =>
    /\ \A f \in Owed(r) : payload[r].hash[f] = Template(payload[r].src[f])
    /\ \A f \in Files \ Owed(r) : InPlace(f, payload[r])

\* Nothing is left to do for a run that has been published.
Over(r) ==
  /\ at[r] \in {"sweep", "done", "dead", "failed"} /\ staged[r] = {}
  /\ left[r] \cap {"aborted", "pending"} = {}
IsPublished(r) == manifest # None /\ manifest.run = r

Orderly(r) ==
  Sidecars(r) /\ SentinelComplete(r) /\ NothingMissing(r) /\ (IsPublished(r) => Over(r))

CalmInv ==
  /\ OneBusy
  /\ RecoveryMarks /\ \A r \in rep.stale : "pending" \notin left[r]
  /\ \A d \in Drivers : BatchFollows(d)
  /\ \A r \in Runs : Orderly(r)

InstallInv == JournalInv /\ (strays = 0 => CalmInv)

-----------------------------------------------------------------------------
\* First picks the least member.
LEMMA FirstIn ==
  ASSUME NEW S, S \subseteq Nat, S # {}
  PROVE  First(S) \in S /\ \A x \in S : First(S) <= x
<1>1. PICK x \in S : \A y \in S : ~ (<<y, x>> \in OpToRel(<, Nat))
  BY NatLessThanWellFounded, WFMin, Zenon
<1>2. \A y \in S : x <= y
  <2> SUFFICES ASSUME NEW y \in S, y < x PROVE FALSE
    OBVIOUS
  <2>1. <<y, x>> \in Nat \X Nat /\ <<y, x>>[1] < <<y, x>>[2]
    OBVIOUS
  <2> QED
    BY <1>1, <2>1 DEF OpToRel
<1> QED
  BY <1>2 DEF First

\* The run whose staging directory a driver works on is past its staging and
\* has its record.
Moving == {"open", "rename", "line", "publish", "sweep"}

\* What a driver works on is past its staging and has its record.
LEMMA OnRun ==
  ASSUME JournalInv, NEW d \in Drivers, at[d] \in Moving
  PROVE  /\ On(d) \in Runs /\ payload[On(d)] \in Records
         /\ at[On(d)] \notin {"idle", "refused", "clear", "stage"}
         /\ d # Repair => On(d) = d
         /\ d = Repair => On(d) = rep.on /\ Working(On(d))
<1>1. CASE d = Repair
  BY <1>1 DEF JournalInv, Traces, EarlyClean, RepairKnows, RecordComposed, On, Moving, Working, TypeOK
<1>2. CASE d # Repair
  BY <1>2 DEF JournalInv, Traces, RecordComposed, On, Moving, TypeOK, Drivers
<1> QED
  BY <1>1, <1>2

\* The file a batch or a staging takes next is one of the files it has to take.
LEMMA NextFile ==
  ASSUME TypeOK, NEW d \in Drivers, todo[d] # {}
  PROVE  First(todo[d]) \in todo[d] /\ First(todo[d]) \in Files
<1>1. todo[d] \subseteq Files /\ todo[d] \subseteq Nat
  BY FilesAssumption DEF TypeOK
<1> QED
  BY <1>1, FirstIn

\* Patched touches the hash of .roomodes only.
LEMMA PatchedRecord ==
  ASSUME TypeOK, NEW r \in Runs, payload[r] \in Records
  PROVE  /\ Patched(r) \in [Runs -> Records \cup {None}]
         /\ \A q \in Runs \ {r} : Patched(r)[q] = payload[q]
         /\ Patched(r)[r] \in Records
         /\ Patched(r)[r].run = payload[r].run /\ Patched(r)[r].src = payload[r].src
         /\ \A f \in Files \ {Roomodes} : Patched(r)[r].hash[f] = payload[r].hash[f]
<1> DEFINE h == [payload[r].hash EXCEPT ![Roomodes] = IF disk[Roomodes] = Absent THEN @ ELSE disk[Roomodes]]
           m == [payload[r] EXCEPT !.hash = h]
<1>1. h \in [Files -> Content] /\ \A f \in Files \ {Roomodes} : h[f] = payload[r].hash[f]
  <2>1. payload[r].hash \in [Files -> Content]
    BY DEF Records
  <2> QED
    BY <2>1, FilesAssumption DEF TypeOK
<1>2. m \in Records /\ m.run = payload[r].run /\ m.src = payload[r].src /\ m.hash = h
  BY <1>1 DEF Records
<1>3. Patched(r) = [payload EXCEPT ![r] = m]
  BY DEF Patched
<1> HIDE DEF h, m
<1> QED
  BY <1>1, <1>2, <1>3 DEF TypeOK

-----------------------------------------------------------------------------
(* The invariant of the journal, step by step.                             *)

\* None is no record, Absent is no content.
LEMMA NoRecord == None \notin Records /\ Absent \notin Content
  BY ValuesAssumption DEF Records, Content

\* A run begins.
LEMMA BeginTraces ==
  ASSUME JournalInv, NEW r \in Runs,
         InitRefused(r) \/ InitBegins(r) \/ InitForced(r) \/ UpgradeBegins(r)
  PROVE  JournalInv'
<1> USE FilesAssumption, RunsAssumption, ValuesAssumption, BoundAssumption
    DEF JournalInv, Steps, MayBegin, Unless, Goto, Drivers, RecoverySteps
<1>1. CASE InitRefused(r)
  <2>1. TypeOK'
    BY <1>1 DEF InitRefused, TypeOK
  <2>2. Traces'
    BY <1>1 DEF InitRefused, TypeOK, Traces, JournalAfterRename, EarlyClean, Working, RepairKnows,
       LineRenamed, On, RecordComposed, MarksInStaging
  <2> QED
    BY <2>1, <2>2
<1>2. CASE InitForced(r)
  <2>1. TypeOK'
    BY <1>2 DEF InitForced, TypeOK, Existing
  <2>2. Traces'
    BY <1>2 DEF InitForced, TypeOK, Traces, JournalAfterRename, EarlyClean, Working, RepairKnows,
       LineRenamed, On, RecordComposed, MarksInStaging
  <2> QED
    BY <2>1, <2>2
<1>3. CASE InitBegins(r) \/ UpgradeBegins(r)
  <2>1. PICK S \in SUBSET Files, record \in Records :
          /\ record.run = r /\ Stages(r, S, record)
          /\ at[r] = "idle" /\ at' = [at EXCEPT ![r] = at'[r]] /\ at'[r] \in {"stage", "direct"}
    <3>1. CASE InitBegins(r)
      <4>1. PICK src \in Releases : Stages(r, Files, Fresh(r, src))
        BY <3>1 DEF InitBegins
      <4>2. Fresh(r, src) \in Records /\ Fresh(r, src).run = r
        BY DEF Fresh, Records, Content, Template
      <4> QED
        BY <3>1, <4>1, <4>2 DEF InitBegins, TypeOK
    <3>2. CASE UpgradeBegins(r)
      <4> DEFINE rec(S, src) ==
            [run |-> r,
             src |-> [f \in Files |-> IF f \in S THEN src[f] ELSE manifest.src[f]],
             hash |-> [f \in Files |-> IF f \in S THEN Template(src[f]) ELSE manifest.hash[f]]]
      <4>1. PICK force \in BOOLEAN, src \in Releases :
              LET S == ToStage(src, force)
              IN Stages(r, S, rec(S, src)) /\ Goto(r, IF S = {} THEN "direct" ELSE "stage")
        BY <3>2 DEF UpgradeBegins
      <4>2. manifest \in Records /\ ToStage(src, force) \in SUBSET Files
        BY <3>2 DEF UpgradeBegins, TypeOK, ToStage
      <4>3. rec(ToStage(src, force), src) \in Records /\ rec(ToStage(src, force), src).run = r
        BY <4>2 DEF Records, Content, Template
      <4> HIDE DEF rec
      <4> QED
        BY <3>2, <4>1, <4>2, <4>3 DEF UpgradeBegins, TypeOK
    <3> QED
      BY <1>3, <3>1, <3>2
  <2>2. UNCHANGED <<disk, manifest, staged, done, rep, faults>> /\ strays' \in 0 .. MaxStrays
    BY <1>3 DEF InitBegins, UpgradeBegins, TypeOK
  <2>3. TypeOK'
    BY <2>1, <2>2 DEF TypeOK, Stages, Artifacts
  <2>7. /\ at'[r] \in {"stage", "direct"} /\ left'[r] = {"staging"} /\ payload'[r] = record
        /\ \A q \in Runs \ {r} : left'[q] = left[q] /\ payload'[q] = payload[q]
        /\ \A d \in Drivers \ {r} : at'[d] = at[d] /\ todo'[d] = todo[d]
        /\ at'[Repair] = at[Repair] /\ r # Repair
    <3>1. /\ left'[r] = {"staging"} /\ payload'[r] = record
          /\ \A q \in Runs \ {r} : left'[q] = left[q] /\ payload'[q] = payload[q]
      BY <2>1 DEF Stages, TypeOK
    <3>2. \A d \in Drivers \ {r} : at'[d] = at[d] /\ todo'[d] = todo[d]
      BY <2>1 DEF Stages, TypeOK
    <3> QED
      BY <2>1, <3>1, <3>2
  <2>4. JournalAfterRename' /\ EarlyClean' /\ RepairKnows' /\ MarksInStaging'
    <3>1. EarlyClean'
      BY <2>1, <2>2, <2>7 DEF Traces, EarlyClean, Working
    <3>2. JournalAfterRename' /\ RepairKnows' /\ MarksInStaging'
      BY <2>2, <2>7 DEF Traces, JournalAfterRename, RepairKnows, MarksInStaging
    <3> QED
      BY <3>1, <3>2
  <2>5. LineRenamed'
    BY <2>2, <2>7 DEF Traces, LineRenamed, On
  <2>6. RecordComposed'
    BY <2>1, <2>2, <2>7, NoRecord DEF Traces, RecordComposed, Working
  <2> QED
    BY <2>3, <2>4, <2>5, <2>6 DEF Traces
<1> QED
  BY <1>1, <1>2, <1>3

\* A run clears the target and stages its files.
LEMMA StageTraces ==
  ASSUME JournalInv, NEW r \in Runs,
         ClearFile(r) \/ ClearHarness(r) \/ StageFile(r) \/ WritePending(r)
  PROVE  JournalInv'
<1> USE FilesAssumption, RunsAssumption, ValuesAssumption, BoundAssumption
    DEF JournalInv, Steps, Goto, Drivers, RecoverySteps
<1>1. CASE ClearFile(r)
  <2>1. TypeOK'
    BY <1>1 DEF ClearFile, TypeOK
  <2>2. Traces'
    BY <1>1 DEF ClearFile, TypeOK, Traces, JournalAfterRename, EarlyClean, Working, RepairKnows,
       LineRenamed, On, RecordComposed, MarksInStaging
  <2> QED
    BY <2>1, <2>2
<1>2. CASE ClearHarness(r)
  <2>1. PICK src \in Releases : payload' = [payload EXCEPT ![r] = Fresh(r, src)]
    BY <1>2 DEF ClearHarness
  <2>2. Fresh(r, src) \in Records /\ Fresh(r, src).run = r
    BY DEF Fresh, Records, Content, Template
  <2>3. TypeOK'
    BY <1>2, <2>1, <2>2 DEF ClearHarness, TypeOK, Artifacts
  <2>4. JournalAfterRename' /\ EarlyClean' /\ RepairKnows' /\ MarksInStaging' /\ LineRenamed'
    BY <1>2 DEF ClearHarness, TypeOK, Traces, JournalAfterRename, EarlyClean, Working, RepairKnows,
       LineRenamed, On, MarksInStaging
  <2>5. RecordComposed'
    <3>1. payload'[r] \in Records /\ payload'[r] # None /\ payload'[r].run = r
      BY <2>1, <2>2, NoRecord DEF TypeOK
    <3>2. \A q \in Runs \ {r} : payload'[q] = payload[q] /\ at'[q] = at[q] /\ left'[q] = {}
      BY <1>2, <2>1 DEF ClearHarness, TypeOK
    <3>3. rep' = rep /\ at'[Repair] = at[Repair]
      BY <1>2 DEF ClearHarness, TypeOK
    <3> QED
      BY <3>1, <3>2, <3>3 DEF Traces, RecordComposed, Working
  <2> QED
    BY <2>3, <2>4, <2>5 DEF Traces
<1>3. CASE StageFile(r)
  <2>1. First(todo[r]) \in todo[r] /\ First(todo[r]) \in Files
    BY <1>3, NextFile DEF StageFile
  <2>2. TypeOK'
    BY <1>3, <2>1 DEF StageFile, TypeOK
  <2>3. Traces'
    BY <1>3 DEF StageFile, TypeOK, Traces, JournalAfterRename, EarlyClean, Working, RepairKnows,
       LineRenamed, On, RecordComposed, MarksInStaging
  <2> QED
    BY <2>2, <2>3
<1>4. CASE WritePending(r)
  <2>1. TypeOK'
    BY <1>4 DEF WritePending, TypeOK, Artifacts
  <2>2. JournalAfterRename' /\ EarlyClean' /\ RepairKnows' /\ MarksInStaging' /\ LineRenamed'
    BY <1>4 DEF WritePending, TypeOK, Traces, JournalAfterRename, EarlyClean, Working, RepairKnows,
       LineRenamed, On, MarksInStaging
  <2>3. RecordComposed'
    BY <1>4 DEF WritePending, TypeOK, Traces, RecordComposed, Working
  <2> QED
    BY <2>1, <2>2, <2>3 DEF Traces
<1> QED
  BY <1>1, <1>2, <1>3, <1>4

\* A run ends.
LEMMA EndTraces ==
  ASSUME JournalInv, NEW r \in Runs,
         Merge(r) \/ RewritePending(r) \/ Discard(r) \/ Record(r) \/ Age(r)
  PROVE  JournalInv'
<1> USE FilesAssumption, RunsAssumption, ValuesAssumption, BoundAssumption
    DEF JournalInv, Steps, Goto, Drivers, RecoverySteps
<1>1. CASE Merge(r)
  <2>1. disk' \in [Files -> Content \cup {Absent}]
    <3>1. disk[Roomodes] # Absent => Merged(disk[Roomodes]) \in Content
      <4> SUFFICES ASSUME NEW c \in Content PROVE Merged(c) \in Content
        BY DEF TypeOK
      <4> QED
        BY DEF Merged, Content
    <3> QED
      BY <1>1, <3>1 DEF Merge, TypeOK
  <2>2. TypeOK'
    BY <1>1, <2>1 DEF Merge, TypeOK
  <2>3. Traces'
    BY <1>1 DEF Merge, TypeOK, Traces, JournalAfterRename, EarlyClean, Working, RepairKnows,
       LineRenamed, On, RecordComposed, MarksInStaging
  <2> QED
    BY <2>2, <2>3
<1>2. CASE RewritePending(r) \/ Record(r)
  <2>1. payload[r] \in Records /\ payload[r].run = r
    BY <1>2 DEF RewritePending, Record, TypeOK, Traces, RecordComposed
  <2>2. /\ Patched(r) \in [Runs -> Records \cup {None}]
        /\ \A q \in Runs \ {r} : Patched(r)[q] = payload[q]
        /\ Patched(r)[r] \in Records /\ Patched(r)[r].run = r
    BY <2>1, PatchedRecord
  <2>3. payload' = Patched(r)
    BY <1>2 DEF RewritePending, Record
  <2>4. TypeOK'
    <3>1. CASE RewritePending(r)
      BY <3>1, <2>2 DEF RewritePending, TypeOK, Artifacts
    <3>2. CASE Record(r)
      BY <3>2, <2>2 DEF Record, TypeOK
    <3> QED
      BY <1>2, <3>1, <3>2
  <2>5. JournalAfterRename' /\ EarlyClean' /\ RepairKnows' /\ MarksInStaging' /\ LineRenamed'
    <3>1. CASE RewritePending(r)
      BY <3>1 DEF RewritePending, TypeOK, Traces, JournalAfterRename, EarlyClean, Working, RepairKnows,
         LineRenamed, On, MarksInStaging
    <3>2. CASE Record(r)
      BY <3>2 DEF Record, TypeOK, Traces, JournalAfterRename, EarlyClean, Working, RepairKnows,
         LineRenamed, On, MarksInStaging
    <3> QED
      BY <1>2, <3>1, <3>2
  <2>6. RecordComposed'
    <3>1. \A q \in Runs : payload'[q] = None => q # r /\ payload[q] = None
      BY <2>2, <2>3, NoRecord
    <3>2. \A q \in Runs : payload'[q] # None => payload'[q].run = q
      BY <2>2, <2>3 DEF Traces, RecordComposed
    <3> QED
      <4>1. /\ \A q \in Runs \ {r} : at'[q] = at[q] /\ left'[q] = left[q]
            /\ rep' = rep /\ at'[Repair] = at[Repair]
        BY <1>2 DEF RewritePending, Record, TypeOK
      <4> QED
        BY <3>1, <3>2, <4>1 DEF Traces, RecordComposed, Working
  <2> QED
    BY <2>4, <2>5, <2>6 DEF Traces
<1>3. CASE Discard(r)
  <2>1. TypeOK'
    BY <1>3 DEF Discard, TypeOK
  <2>2. Traces'
    BY <1>3 DEF Discard, InStaging, TypeOK, Traces, JournalAfterRename, EarlyClean, Working, RepairKnows,
       LineRenamed, On, RecordComposed, MarksInStaging
  <2> QED
    BY <2>1, <2>2
<1>4. CASE Age(r)
  <2>1. TypeOK'
    BY <1>4 DEF Age, TypeOK, Artifacts
  <2>2. Traces'
    BY <1>4 DEF Age, Active, TypeOK, Traces, JournalAfterRename, EarlyClean, Working, RepairKnows,
       LineRenamed, On, RecordComposed, MarksInStaging
  <2> QED
    BY <2>1, <2>2
<1> QED
  BY <1>1, <1>2, <1>3, <1>4

\* What a step of a batch, of its publication or of its sweep does: it touches
\* the traces of the run it is about and of no other.
Effect(d) ==
  LET r == On(d)
  IN /\ at' \in [Drivers -> Steps] /\ \A e \in Drivers \ {d} : at'[e] = at[e]
     /\ at'[d] \notin {"idle", "refused", "clear", "stage"}
     /\ d = Repair => at'[d] \in RecoverySteps
     /\ todo' \in [Drivers -> SUBSET Files] /\ \A e \in Drivers \ {d} : todo'[e] = todo[e]
     /\ left' \in [Runs -> SUBSET Artifacts] /\ \A q \in Runs \ {r} : left'[q] = left[q]
     /\ left'[r] \cap {"aborted", "old"} # {} => "staging" \in left'[r]
     /\ staged' \in [Runs -> SUBSET Files] /\ \A q \in Runs \ {r} : staged'[q] = staged[q]
     /\ done' \in [Runs -> SUBSET Files] /\ \A q \in Runs \ {r} : done'[q] = done[q]
     /\ staged'[r] \subseteq staged[r] /\ done'[r] \cap staged'[r] = {}
     /\ at'[d] = "line" => todo'[d] # {} /\ First(todo'[d]) \notin staged'[r]
     /\ payload' = payload /\ rep' = rep /\ strays' = strays

\* The batch has this effect.
LEMMA BatchEffect ==
  ASSUME JournalInv, NEW d \in Drivers,
         \/ BatchOpen(d) \/ BatchRename(d) \/ BatchVanished(d) \/ BatchLine(d)
         \/ BatchAbort(d) \/ BatchDone(d)
  PROVE  Effect(d)
<1> DEFINE r == On(d)
<1>1. r \in Runs /\ (d # Repair => r = d)
  BY OnRun DEF BatchOpen, BatchRename, BatchVanished, BatchLine, BatchAbort, BatchDone, Moving
<1>2. done[r] \cap staged[r] = {} /\ (left[r] \cap {"aborted", "old"} # {} => "staging" \in left[r])
  BY <1>1 DEF JournalInv, Traces, JournalAfterRename, MarksInStaging
<1>3. TypeOK
  BY DEF JournalInv
<1>4. todo[d] # {} => First(todo[d]) \in todo[d] /\ First(todo[d]) \in Files
  BY <1>3, NextFile
<1>5. r = On(d)
  OBVIOUS
<1> HIDE DEF r
<1> USE <1>1, <1>2, <1>3
<1>6. CASE BatchOpen(d)
  <2> DEFINE opened == "staging" \in left[r]
  <2>1. CASE opened
    BY <1>5, <1>6, <2>1 DEF BatchOpen, Goto, Effect, TypeOK, Artifacts, Steps, RecoverySteps
  <2>2. CASE ~opened
    BY <1>5, <1>6, <2>2 DEF BatchOpen, Goto, GiveUp, Effect, TypeOK, Artifacts, Steps, RecoverySteps
  <2> QED
    BY <2>1, <2>2
<1>7. CASE BatchRename(d)
  BY <1>4, <1>5, <1>7 DEF BatchRename, Goto, Effect, TypeOK, Steps, RecoverySteps
<1>8. CASE BatchVanished(d)
  <2>1. CASE disk[First(todo[d])] # Absent
    BY <1>5, <1>8, <2>1 DEF BatchVanished, Goto, Effect, TypeOK, Steps, RecoverySteps
  <2>2. CASE disk[First(todo[d])] = Absent
    BY <1>5, <1>8, <2>2 DEF BatchVanished, Effect, TypeOK, Steps, RecoverySteps
  <2> QED
    BY <2>1, <2>2
<1>9. CASE BatchLine(d)
  <2>1. todo[d] # {} /\ First(todo[d]) \notin staged[r]
    BY <1>5, <1>9 DEF BatchLine, JournalInv, Traces, LineRenamed
  <2>2. /\ done' \in [Runs -> SUBSET Files] /\ \A q \in Runs \ {r} : done'[q] = done[q]
        /\ done'[r] \subseteq done[r] \cup {First(todo[d])}
    BY <1>4, <1>5, <1>9, <2>1 DEF BatchLine, TypeOK
  <2> QED
    BY <1>5, <1>9, <2>1, <2>2 DEF BatchLine, Goto, Effect, TypeOK, Steps, RecoverySteps
<1>10. CASE BatchAbort(d)
  <2>1. /\ left' \in [Runs -> SUBSET Artifacts] /\ \A q \in Runs \ {r} : left'[q] = left[q]
        /\ left'[r] \cap {"aborted", "old"} # {} => "staging" \in left'[r]
    BY <1>5, <1>10 DEF BatchAbort, TypeOK, Artifacts
  <2> QED
    BY <1>5, <1>10, <2>1 DEF BatchAbort, Goto, GiveUp, Effect, TypeOK, Steps, RecoverySteps
<1>11. CASE BatchDone(d)
  <2>1. CASE d = Repair /\ rep.legacy
    BY <1>5, <1>11, <2>1 DEF BatchDone, Goto, Effect, TypeOK, Steps, RecoverySteps
  <2>2. CASE ~(d = Repair /\ rep.legacy)
    BY <1>5, <1>11, <2>2 DEF BatchDone, Goto, Effect, TypeOK, Artifacts, Steps, RecoverySteps
  <2> QED
    BY <2>1, <2>2
<1> QED
  BY <1>6, <1>7, <1>8, <1>9, <1>10, <1>11

\* So have the publication and the sweep.
LEMMA CloseEffect ==
  ASSUME JournalInv, NEW d \in Drivers, Publish(d) \/ Sweep(d)
  PROVE  Effect(d)
<1> DEFINE r == On(d)
<1>1. r \in Runs /\ (d # Repair => r = d)
  BY OnRun DEF Publish, Sweep, Moving
<1>2. done[r] \cap staged[r] = {} /\ (left[r] \cap {"aborted", "old"} # {} => "staging" \in left[r])
  BY <1>1 DEF JournalInv, Traces, JournalAfterRename, MarksInStaging
<1>3. TypeOK
  BY DEF JournalInv
<1>5. r = On(d)
  OBVIOUS
<1> HIDE DEF r
<1> USE <1>1, <1>2, <1>3
<1>6. CASE Publish(d)
  <2>1. CASE "pending" \in left[r]
    BY <1>5, <1>6, <2>1 DEF Publish, Goto, Effect, TypeOK, Steps, RecoverySteps
  <2>2. CASE "pending" \notin left[r]
    BY <1>5, <1>6, <2>2 DEF Publish, Goto, GiveUp, Effect, TypeOK, Steps, RecoverySteps
  <2> QED
    BY <2>1, <2>2
<1>7. CASE Sweep(d)
  <2> DEFINE remaining == {i \in DOMAIN SweepOrder(d) : SweepOrder(d)[i] \in left[r]}
             next == SweepOrder(d)[First(remaining)]
  <2>1. CASE remaining = {}
    BY <1>5, <1>7, <2>1 DEF Sweep, Goto, Effect, TypeOK, Steps, RecoverySteps
  <2>2. CASE remaining # {}
    <3>1. /\ left' = [left EXCEPT ![r] = @ \ IF next = "staging" THEN InStaging ELSE {next}]
          /\ staged' = [staged EXCEPT ![r] = IF next = "staging" THEN {} ELSE @]
          /\ done' = [done EXCEPT ![r] = IF next = "journal" THEN {} ELSE @]
          /\ at[d] = "sweep" /\ UNCHANGED at
          /\ UNCHANGED <<disk, manifest, payload, todo, rep, faults, strays>>
      BY <1>5, <1>7, <2>2 DEF Sweep
    <3> HIDE DEF next
    <3>2. /\ left' \in [Runs -> SUBSET Artifacts] /\ \A q \in Runs \ {r} : left'[q] = left[q]
          /\ left'[r] \cap {"aborted", "old"} # {} => "staging" \in left'[r]
      BY <3>1 DEF InStaging, TypeOK
    <3>3. /\ staged' \in [Runs -> SUBSET Files] /\ \A q \in Runs \ {r} : staged'[q] = staged[q]
          /\ done' \in [Runs -> SUBSET Files] /\ \A q \in Runs \ {r} : done'[q] = done[q]
          /\ staged'[r] \subseteq staged[r] /\ done'[r] \subseteq done[r]
      BY <3>1 DEF TypeOK
    <3> QED
      BY <1>5, <3>1, <3>2, <3>3 DEF Effect, TypeOK, RecoverySteps
  <2> QED
    BY <2>1, <2>2
<1> QED
  BY <1>6, <1>7

\* Which keeps the invariant.
LEMMA EffectTraces ==
  ASSUME JournalInv, NEW d \in Drivers, at[d] \in Moving, Effect(d)
  PROVE  Traces'
<1> DEFINE r == On(d)
<1>1. /\ r \in Runs /\ payload[r] \in Records /\ at[r] \notin {"idle", "refused", "clear", "stage"}
      /\ d # Repair => r = d
      /\ d = Repair => r = rep.on
  BY OnRun
<1>2. /\ \A e \in Drivers \ {d} : at'[e] = at[e] /\ todo'[e] = todo[e]
      /\ at'[d] \notin {"idle", "refused", "clear", "stage"}
      /\ d = Repair => at'[d] \in RecoverySteps
      /\ \A q \in Runs \ {r} : left'[q] = left[q] /\ staged'[q] = staged[q] /\ done'[q] = done[q]
      /\ left'[r] \cap {"aborted", "old"} # {} => "staging" \in left'[r]
      /\ staged'[r] \subseteq staged[r] /\ done'[r] \cap staged'[r] = {}
      /\ at'[d] = "line" => todo'[d] # {} /\ First(todo'[d]) \notin staged'[r]
      /\ payload' = payload /\ rep' = rep
  BY DEF Effect
<1>3. Repair \in Drivers /\ Runs \subseteq Drivers /\ Repair \notin Runs
  BY RunsAssumption DEF Drivers
<1>4. \A e \in Drivers : On(e)' = On(e)
  BY <1>2 DEF On
<1>5. r = On(d)
  OBVIOUS
<1>6. \A q \in Runs \ {r} : at'[q] = at[q]
  BY <1>1, <1>2, <1>3
<1>7. at'[r] \notin {"idle", "refused", "clear", "stage"}
  BY <1>1, <1>2, <1>3
<1>8. \A q \in Runs \ {r} : Working(q)' => Working(q)
  BY <1>1, <1>2, <1>3 DEF Working
<1> HIDE DEF r
<1>9. JournalAfterRename' /\ MarksInStaging'
  BY <1>2 DEF JournalInv, Traces, JournalAfterRename, MarksInStaging
<1>10. EarlyClean'
  BY <1>2, <1>6, <1>7, <1>8 DEF JournalInv, Traces, EarlyClean
<1>11. RepairKnows'
  BY <1>1, <1>2, <1>3 DEF JournalInv, Traces, RepairKnows, Moving
<1>12. LineRenamed'
  <2> SUFFICES ASSUME NEW e \in Drivers, at'[e] = "line"
               PROVE  todo'[e] # {} /\ First(todo'[e]) \notin staged'[On(e)]
    BY <1>4 DEF LineRenamed
  <2>1. CASE e = d
    BY <1>2, <1>5, <2>1
  <2>2. CASE e # d
    <3>1. at[e] = "line" /\ todo'[e] = todo[e]
      BY <1>2, <2>2
    <3>2. todo[e] # {} /\ First(todo[e]) \notin staged[On(e)] /\ On(e) \in Runs
      BY <3>1, OnRun DEF JournalInv, Traces, LineRenamed, Moving
    <3> QED
      BY <1>2, <3>1, <3>2
  <2> QED
    BY <2>1, <2>2
<1>13. RecordComposed'
  <2>1. \A q \in Runs : payload'[q] = None => q # r
    BY <1>1, <1>2, NoRecord
  <2> QED
    BY <2>1, <1>2, <1>6, <1>8 DEF JournalInv, Traces, RecordComposed
<1> QED
  BY <1>9, <1>10, <1>11, <1>12, <1>13 DEF Traces

\* The batch, the publication and the sweep keep the invariant.
LEMMA BatchTraces ==
  ASSUME JournalInv, NEW d \in Drivers, Batch(d) \/ BatchAbort(d)
  PROVE  JournalInv'
<1>1. Effect(d)
  BY BatchEffect, CloseEffect DEF Batch
<1>2. at[d] \in Moving
  BY DEF Batch, BatchOpen, BatchRename, BatchVanished, BatchLine, BatchAbort, BatchDone, Publish,
     Sweep, Moving
<1>3. Traces'
  BY <1>1, <1>2, EffectTraces
<1>4. On(d) \in Runs /\ payload[On(d)] \in Records
  BY <1>2, OnRun
<1>5. disk' \in [Files -> Content \cup {Absent}]
  <2>1. CASE BatchRename(d)
    <3>1. First(todo[d]) \in Files
      BY <2>1, NextFile DEF BatchRename, JournalInv
    <3>2. Template(payload[On(d)].src[First(todo[d])]) \in Content
      BY <1>4, <3>1 DEF Records, Template, Content
    <3> QED
      BY <2>1, <3>2 DEF BatchRename, JournalInv, TypeOK
  <2>2. CASE ~BatchRename(d)
    BY <2>2 DEF Batch, BatchOpen, BatchVanished, BatchLine, BatchAbort, BatchDone, Publish, Sweep,
       JournalInv, TypeOK
  <2> QED
    BY <2>1, <2>2
<1>6. manifest' \in Records \cup {None}
  BY <1>4 DEF Batch, BatchOpen, BatchRename, BatchVanished, BatchLine, BatchAbort, BatchDone,
     Publish, Sweep, JournalInv, TypeOK
<1>7. faults' \in 0 .. MaxFaults
  BY BoundAssumption DEF Batch, BatchOpen, BatchRename, BatchVanished, BatchLine, BatchAbort,
     BatchDone, Publish, Sweep, JournalInv, TypeOK
<1> QED
  BY <1>1, <1>3, <1>5, <1>6, <1>7 DEF Effect, JournalInv, TypeOK

\* The recovery.
LEMMA RecoveryTraces ==
  ASSUME JournalInv, Recovery
  PROVE  JournalInv'
<1> USE FilesAssumption, RunsAssumption, BoundAssumption DEF JournalInv, Steps, Goto, Drivers, RecoverySteps
<1>1. CASE RepairScan
  <2> DEFINE pend == {q \in Runs : "pending" \in left[q]}
             stale == {q \in Runs : left[q] \cap {"aborted", "old"} # {}}
  <2>1. /\ at[Repair] = "idle" /\ at' = [at EXCEPT ![Repair] = "pick"]
        /\ rep' = [rep EXCEPT !.pend = pend, !.stale = stale \ pend]
        /\ UNCHANGED <<disk, manifest, left, staged, done, payload, todo, faults>>
    BY <1>1 DEF RepairScan
  <2>2. /\ rep'.pend = pend /\ rep'.stale = stale \ pend
        /\ rep' \in [pend : SUBSET Runs, stale : SUBSET Runs, on : Runs \cup {None}, legacy : BOOLEAN]
    BY <2>1 DEF TypeOK
  <2>3. strays' \in 0 .. MaxStrays
    BY <1>1 DEF RepairScan, Unless, TypeOK
  <2>4. TypeOK'
    BY <2>1, <2>2, <2>3 DEF TypeOK
  <2>5. EarlyClean' /\ RecordComposed'
    <3>1. \A q \in Runs : ~Working(q)' /\ at'[q] = at[q]
      BY <2>1 DEF Working, TypeOK
    <3>4. \A q \in Runs : q \in rep'.pend \cup rep'.stale => left[q] \cap {"pending", "aborted", "old"} # {}
      BY <2>2
    <3>2. EarlyClean'
      <4> HIDE DEF pend, stale
      <4> QED
        BY <2>1, <3>1, <3>4 DEF Traces, EarlyClean
    <3>3. RecordComposed'
      BY <2>1, <2>2, <3>1 DEF Traces, RecordComposed
    <3> QED
      BY <3>2, <3>3
  <2>6. JournalAfterRename' /\ RepairKnows' /\ MarksInStaging'
    BY <2>1 DEF TypeOK, Traces, JournalAfterRename, RepairKnows, MarksInStaging
  <2>7. LineRenamed'
    BY <2>1 DEF TypeOK, Traces, LineRenamed, On
  <2> QED
    BY <2>4, <2>5, <2>6, <2>7 DEF Traces
<1>2. CASE TakePending \/ TakeStale
  <2>1. PICK r \in rep.pend \cup rep.stale, legacy \in BOOLEAN : Take(r, legacy)
    BY <1>2 DEF TakePending, TakeStale
  <2>2. /\ r \in Runs /\ payload[r] # None /\ at[r] \notin {"idle", "refused", "clear", "stage"}
    BY <2>1 DEF TypeOK, Traces, EarlyClean, RecordComposed
  <2>3. /\ at[Repair] = "pick" /\ at' = [at EXCEPT ![Repair] = Decision(r, legacy)]
        /\ rep' = [pend |-> rep.pend \ {r}, stale |-> rep.stale \ {r}, on |-> r, legacy |-> legacy]
        /\ todo' = [todo EXCEPT ![Repair] = IF Decision(r, legacy) = "rollback" THEN done[r] ELSE {}]
        /\ left' = [left EXCEPT ![r] = IF Decision(r, legacy) = "pick" THEN @ \ {"pending"} ELSE @]
        /\ UNCHANGED <<disk, manifest, staged, done, payload, faults, strays>>
    BY <2>1 DEF Take
  <2>4. Decision(r, legacy) \in {"rollback", "open", "publish", "pick"}
    BY <2>1 DEF Decision
  <2>5. TypeOK'
    BY <2>1, <2>2, <2>3, <2>4 DEF TypeOK
  <2>6. /\ \A q \in Runs : left'[q] \subseteq left[q] /\ at'[q] = at[q]
        /\ \A q \in Runs : left'[q] \cap {"aborted", "old", "staging"} = left[q] \cap {"aborted", "old", "staging"}
        /\ at'[Repair] \in {"rollback", "open", "publish", "pick"}
        /\ rep'.on = r /\ rep'.pend \subseteq rep.pend /\ rep'.stale \subseteq rep.stale
    BY <2>2, <2>3, <2>4 DEF TypeOK
  <2>7. EarlyClean'
    BY <2>2, <2>3, <2>6 DEF Traces, EarlyClean, Working
  <2>8. RecordComposed'
    BY <2>2, <2>3, <2>6 DEF Traces, RecordComposed, Working
  <2>9. JournalAfterRename' /\ RepairKnows'
    BY <2>2, <2>3, <2>6 DEF Traces, JournalAfterRename, RepairKnows
  <2>10. MarksInStaging'
    BY <2>6 DEF Traces, MarksInStaging
  <2>11. LineRenamed'
    BY <2>3, <2>6 DEF TypeOK, Traces, LineRenamed, On
  <2> QED
    BY <2>5, <2>7, <2>8, <2>9, <2>10, <2>11 DEF Traces
<1>3. CASE RepairEnds
  <2>1. TypeOK'
    BY <1>3 DEF RepairEnds, TypeOK
  <2>2. Traces'
    BY <1>3 DEF RepairEnds, TypeOK, Traces, JournalAfterRename, EarlyClean, Working, RepairKnows,
       LineRenamed, On, RecordComposed, MarksInStaging
  <2> QED
    BY <2>1, <2>2
<1>4. CASE Rollback
  <2>1. /\ at[Repair] = "rollback" /\ at'[Repair] \in {"rollback", "sweep"}
        /\ \A e \in Drivers \ {Repair} : at'[e] = at[e] /\ todo'[e] = todo[e]
        /\ UNCHANGED <<manifest, left, staged, done, payload, rep, faults, strays>>
    <3>1. CASE todo[Repair] = {}
      BY <1>4, <3>1 DEF Rollback, TypeOK
    <3>2. CASE todo[Repair] # {}
      BY <1>4, <3>2 DEF Rollback, TypeOK
    <3> QED
      BY <3>1, <3>2
  <2>2. TypeOK'
    <3>1. at' \in [Drivers -> Steps]
      BY <1>4 DEF Rollback, TypeOK
    <3>2. todo' \in [Drivers -> SUBSET Files] /\ disk' \in [Files -> Content \cup {Absent}]
      <4>1. CASE todo[Repair] = {}
        BY <1>4, <4>1 DEF Rollback, TypeOK
      <4>2. CASE todo[Repair] # {}
        <5>1. disk' = [disk EXCEPT ![First(todo[Repair])] = Absent]
          BY <1>4, <4>2 DEF Rollback
        <5>2. todo' = [todo EXCEPT ![Repair] = todo[Repair] \ {First(todo[Repair])}]
          BY <1>4, <4>2 DEF Rollback
        <5> QED
          BY <5>1, <5>2 DEF TypeOK
      <4> QED
        BY <4>1, <4>2
    <3> QED
      BY <2>1, <3>1, <3>2 DEF TypeOK
  <2>3. EarlyClean' /\ RecordComposed' /\ RepairKnows'
    BY <2>1 DEF Traces, EarlyClean, RecordComposed, RepairKnows, Working
  <2>4. JournalAfterRename' /\ MarksInStaging'
    BY <2>1 DEF Traces, JournalAfterRename, MarksInStaging
  <2>5. LineRenamed'
    BY <2>1 DEF Traces, LineRenamed, On
  <2> QED
    BY <2>2, <2>3, <2>4, <2>5 DEF Traces
<1> QED
  BY <1>1, <1>2, <1>3, <1>4 DEF Recovery

\* A driver dies.
LEMMA CrashTraces ==
  ASSUME JournalInv, NEW d \in Drivers, Crash(d)
  PROVE  JournalInv'
<1> USE FilesAssumption, RunsAssumption, BoundAssumption DEF JournalInv, Steps, Goto, Drivers, RecoverySteps
<1>1. CASE d = Repair
  <2>1. TypeOK'
    BY <1>1 DEF Crash, TypeOK
  <2>2. Traces'
    BY <1>1 DEF Crash, Active, TypeOK, Traces, JournalAfterRename, EarlyClean, Working, RepairKnows,
       LineRenamed, On, RecordComposed, MarksInStaging
  <2> QED
    BY <2>1, <2>2
<1>2. CASE d # Repair
  <2>1. TypeOK'
    BY <1>2 DEF Crash, TypeOK
  <2>2. Traces'
    BY <1>2 DEF Crash, Active, TypeOK, Traces, JournalAfterRename, EarlyClean, Working, RepairKnows,
       LineRenamed, On, RecordComposed, MarksInStaging
  <2> QED
    BY <2>1, <2>2
<1> QED
  BY <1>1, <1>2

\* The invariant of the journal holds at first and is kept by every step.
LEMMA JournalInit == Init => JournalInv
<1> SUFFICES ASSUME Init PROVE JournalInv
  OBVIOUS
<1> USE FilesAssumption, RunsAssumption, BoundAssumption DEF Init, Drivers, RecoverySteps
<1>1. TypeOK
  BY DEF TypeOK, Steps
<1>2. Traces
  BY DEF Traces, JournalAfterRename, EarlyClean, Working, RepairKnows, LineRenamed, On,
     RecordComposed, MarksInStaging
<1> QED
  BY <1>1, <1>2 DEF JournalInv

\* The invariant of the journal is inductive, whatever the operator does.
LEMMA JournalNext == JournalInv /\ [Next]_vars => JournalInv'
<1> SUFFICES ASSUME JournalInv, [Next]_vars PROVE JournalInv'
  OBVIOUS
<1>1. ASSUME NEW r \in Runs, Run(r) \/ Age(r) PROVE JournalInv'
  BY <1>1, BeginTraces, StageTraces, EndTraces DEF Run
<1>2. ASSUME NEW d \in Drivers, Batch(d) \/ BatchAbort(d) PROVE JournalInv'
  BY <1>2, BatchTraces
<1>3. ASSUME NEW d \in Drivers, Crash(d) PROVE JournalInv'
  BY <1>3, CrashTraces
<1>4. CASE Recovery
  BY <1>4, RecoveryTraces
<1>5. CASE UNCHANGED vars
  BY <1>5 DEF vars, JournalInv, TypeOK, Traces, JournalAfterRename, EarlyClean, Working,
     RepairKnows, LineRenamed, On, RecordComposed, MarksInStaging
<1> QED
  BY <1>1, <1>2, <1>3, <1>4, <1>5 DEF Next

\* Every reachable state satisfies the invariant of the journal: a run before its
\* batch has left nothing a recovery would act on, the next line of a journal is
\* about a file that was renamed, the recovery knows the run it works on.
THEOREM JournalInvariant == Spec => []JournalInv
  BY JournalInit, JournalNext, PTL DEF Spec

\* The state keeps its type: the bounds hold, and what is recorded is a record.
THEOREM TypeTheorem == Spec => []TypeOK
  BY JournalInvariant, PTL DEF JournalInv

\* A journal names a file only after its rename (atomic_install_batch), whatever
\* crashes, fails or overlaps: the operator may stray here.
THEOREM JournalTheorem == Spec => []JournalAfterRename
<1>1. JournalInv => JournalAfterRename
  BY DEF JournalInv, Traces
<1> QED
  BY <1>1, JournalInvariant, PTL

-----------------------------------------------------------------------------
(* The rest of the invariant, as long as the operator does not stray.      *)

\* Without straying, a driver at work is alone with the run it works on.
LEMMA Alone ==
  ASSUME JournalInv, CalmInv, NEW d \in Drivers, NEW r \in Runs, Active(d),
         IF d = Repair THEN Working(r) ELSE r = d
  PROVE  /\ Busy(r) /\ \A q \in Runs \ {r} : ~Busy(q) /\ ~Active(q) /\ ~Publishable(q)
         /\ d # Repair => at[Repair] = "idle" /\ rep.pend = {} /\ rep.stale = {}
         /\ d = Repair => at[r] \in {"done", "failed", "dead"} /\ \A q \in Runs : ~Active(q)
         /\ On(d) = r
<1>1. Busy(r)
  BY DEF Busy
<1>2. \A q \in Runs \ {r} : ~Busy(q)
  BY <1>1 DEF CalmInv, OneBusy
<1>3. \A q \in Runs \ {r} : ~Active(q) /\ ~Publishable(q)
  BY <1>2 DEF Busy, Publishable, Active, Clean
<1>4. CASE d = Repair
  <2>1. \A q \in Runs : ~Active(q)
    BY <1>4 DEF CalmInv, OneBusy
  <2>2. at[r] \in {"done", "failed", "dead"}
    BY <1>4, <2>1 DEF JournalInv, Traces, EarlyClean, Active
  <2> QED
    BY <1>1, <1>2, <1>3, <1>4, <2>1, <2>2 DEF On, Working
<1>5. CASE d # Repair
  <2>1. at[Repair] = "idle"
    BY <1>5 DEF CalmInv, OneBusy, JournalInv, Traces, RepairKnows, RecoverySteps, Active
  <2> QED
    BY <1>1, <1>2, <1>3, <1>5, <2>1 DEF On, JournalInv, Traces, RepairKnows
<1> QED
  BY <1>4, <1>5

\* So a step of that driver keeps the invariant when it leaves the other runs
\* alone and its own run orderly.
Local(d, r) ==
  /\ \A e \in Drivers \ {d} : at'[e] = at[e] /\ todo'[e] = todo[e]
  /\ \A q \in Runs \ {r} : left'[q] = left[q] /\ staged'[q] = staged[q] /\ done'[q] = done[q]
                           /\ payload'[q] = payload[q]
  /\ rep' = rep
  /\ d = Repair => left'[r] \cap {"pending"} \subseteq left[r]
  /\ manifest' = manifest \/ (manifest' # None /\ manifest'.run = r)

\* A step that stays with the run its driver works on keeps the target calm.
LEMMA CalmStep ==
  ASSUME JournalInv, CalmInv, NEW d \in Drivers, NEW r \in Runs, Active(d),
         IF d = Repair THEN Working(r) ELSE r = d,
         Local(d, r), Orderly(r)', BatchFollows(d)', d = Repair => RecoveryMarks'
  PROVE  CalmInv'
<1>1. /\ Busy(r) /\ \A q \in Runs \ {r} : ~Busy(q) /\ ~Active(q) /\ ~Publishable(q)
      /\ d # Repair => at[Repair] = "idle" /\ rep.pend = {} /\ rep.stale = {}
      /\ d = Repair => at[r] \in {"done", "failed", "dead"} /\ \A q \in Runs : ~Active(q)
      /\ On(d) = r
  BY Alone
<1>2. Repair \in Drivers /\ Runs \subseteq Drivers /\ Repair \notin Runs
  BY RunsAssumption DEF Drivers
<1>3. /\ \A e \in Drivers \ {d} : at'[e] = at[e] /\ todo'[e] = todo[e]
      /\ \A q \in Runs \ {r} : left'[q] = left[q] /\ staged'[q] = staged[q] /\ done'[q] = done[q]
                               /\ payload'[q] = payload[q]
      /\ rep' = rep
      /\ d = Repair => left'[r] \cap {"pending"} \subseteq left[r]
      /\ manifest' = manifest \/ (manifest' # None /\ manifest'.run = r)
  BY DEF Local
<1>4. \A q \in Runs \ {r} : at'[q] = at[q] /\ todo'[q] = todo[q]
  BY <1>2, <1>3
<1>5. \A q \in Runs \ {r} : ~Working(q)'
  BY <1>1, <1>2, <1>3 DEF Working, Busy
<1>6. \A q \in Runs \ {r} : ~Busy(q)'
  BY <1>1, <1>3, <1>4, <1>5 DEF Busy, Active, Clean
<1>7. OneBusy'
  <2>1. d = Repair => \A q \in Runs : ~Active(q)'
    BY <1>1, <1>2, <1>3 DEF Active
  <2>2. d # Repair => ~Active(Repair)'
    BY <1>1, <1>2, <1>3 DEF Active
  <2> QED
    BY <1>6, <2>1, <2>2 DEF OneBusy
<1>8. RecoveryMarks'
  BY <1>1, <1>2, <1>3 DEF RecoveryMarks
<1>9. (\A q \in rep.stale : "pending" \notin left[q])'
  BY <1>1, <1>3 DEF CalmInv, JournalInv, TypeOK
<1>10. \A e \in Drivers : BatchFollows(e)'
  <2> SUFFICES ASSUME NEW e \in Drivers, e # d PROVE BatchFollows(e)'
    OBVIOUS
  <2>1. at'[e] \notin {"rename", "line"}
    BY <1>1, <1>2, <1>3 DEF Active, Drivers
  <2> QED
    BY <2>1 DEF BatchFollows
<1>11. \A q \in Runs : Orderly(q)'
  <2> SUFFICES ASSUME NEW q \in Runs, q # r PROVE Orderly(q)'
    OBVIOUS
  <2>1. Orderly(q)
    BY DEF CalmInv
  <2>2. at'[q] = at[q] /\ left'[q] = left[q] /\ staged'[q] = staged[q] /\ done'[q] = done[q]
    BY <1>3, <1>4
  <2>3. Sidecars(q)' /\ SentinelComplete(q)'
    BY <2>1, <2>2 DEF Orderly, Sidecars, SentinelComplete
  <2>4. ~Publishable(q)'
    BY <1>1, <2>2 DEF Publishable
  <2>5. IsPublished(q)' => Over(q)'
    BY <1>3, <2>1, <2>2 DEF Orderly, IsPublished, Over
  <2> QED
    BY <2>3, <2>4, <2>5 DEF Orderly, NothingMissing
<1> QED
  BY <1>7, <1>8, <1>9, <1>10, <1>11 DEF CalmInv

\* A run begins.
LEMMA BeginCalm ==
  ASSUME JournalInv, CalmInv, NEW r \in Runs, strays' = 0,
         InitRefused(r) \/ InitBegins(r) \/ InitForced(r) \/ UpgradeBegins(r)
  PROVE  CalmInv'
<1>1. /\ at[r] = "idle" /\ at[Repair] = "idle" /\ rep.pend = {} /\ rep.stale = {}
      /\ \A q \in Runs : ~Active(q) /\ Clean(q)
  <2>1. MayBegin(r)
    BY DEF InitRefused, InitBegins, InitForced, UpgradeBegins
  <2>2. ~Active(Repair) /\ \A q \in Runs : Clean(q)
    BY <2>1 DEF MayBegin, Unless, JournalInv, TypeOK
  <2> QED
    BY <2>1, <2>2 DEF MayBegin, JournalInv, Traces, RepairKnows, RecoverySteps, Active
<1>2. Repair \in Drivers /\ Runs \subseteq Drivers /\ Repair \notin Runs
  BY RunsAssumption DEF Drivers
<1>3. /\ \A e \in Drivers \ {r} : at'[e] = at[e]
      /\ \A q \in Runs \ {r} : left'[q] = left[q] /\ payload'[q] = payload[q]
      /\ UNCHANGED <<disk, manifest, staged, done, rep>>
  BY DEF InitRefused, InitBegins, InitForced, UpgradeBegins, Stages, Goto, JournalInv, TypeOK
<1>4. \A q \in Runs \ {r} : at'[q] = at[q]
  BY <1>2, <1>3
<1>5. at'[Repair] = "idle"
  BY <1>1, <1>2, <1>3
<1>6. staged[r] = {} /\ done[r] = {} /\ left[r] = {}
  BY <1>1 DEF JournalInv, Traces, EarlyClean
<1>7. /\ at'[r] \in {"refused", "clear", "stage", "direct"}
      /\ left'[r] \subseteq {"staging"}
      /\ at'[r] \in {"stage", "direct"} => left'[r] = {"staging"}
  BY <1>6 DEF InitRefused, InitBegins, InitForced, UpgradeBegins, Stages, Goto, JournalInv, TypeOK, Drivers
<1>8. ~IsPublished(r)
  BY <1>1 DEF CalmInv, Orderly, Over
<1>9. OneBusy'
  <2>1. \A q \in Runs \ {r} : ~Busy(q)'
    BY <1>1, <1>3, <1>4, <1>5 DEF Busy, Active, Clean, Working
  <2> QED
    BY <1>5, <2>1 DEF OneBusy, Active
<1>10. RecoveryMarks' /\ (\A q \in rep.stale : "pending" \notin left[q])'
  BY <1>1, <1>3, <1>5 DEF RecoveryMarks
<1>11. \A d \in Drivers : BatchFollows(d)'
  <2> SUFFICES ASSUME NEW d \in Drivers PROVE at'[d] \notin {"rename", "line"}
    BY DEF BatchFollows
  <2> QED
    BY <1>1, <1>3, <1>5, <1>7 DEF Active, Drivers
<1>12. \A q \in Runs \ {r} : Orderly(q)'
  <2> SUFFICES ASSUME NEW q \in Runs \ {r} PROVE Orderly(q)'
    OBVIOUS
  <2>1. at'[q] = at[q] /\ left'[q] = left[q] /\ staged'[q] = staged[q] /\ done'[q] = done[q]
    BY <1>3, <1>4
  <2>2. Orderly(q) /\ ~Active(q) /\ Clean(q)
    BY <1>1 DEF CalmInv
  <2>3. Sidecars(q)' /\ SentinelComplete(q)'
    BY <2>1, <2>2 DEF Orderly, Sidecars, SentinelComplete
  <2>4. ~Publishable(q)'
    BY <2>1, <2>2 DEF Publishable, Active, Clean
  <2>5. IsPublished(q)' => Over(q)'
    BY <1>3, <2>1, <2>2 DEF Orderly, IsPublished, Over
  <2> QED
    BY <2>3, <2>4, <2>5 DEF Orderly, NothingMissing
<1>13. Orderly(r)'
  <2>1. Sidecars(r)' /\ SentinelComplete(r)'
    BY <1>3, <1>6, <1>7 DEF Sidecars, SentinelComplete
  <2>2. ~IsPublished(r)'
    BY <1>3, <1>8 DEF IsPublished
  <2>3. NothingMissing(r)'
    <3>1. CASE InitRefused(r) \/ InitForced(r)
      <4>1. at'[r] \in {"refused", "clear"}
        BY <3>1, <1>2 DEF InitRefused, InitForced, Goto, JournalInv, TypeOK
      <4> QED
        BY <1>7, <4>1 DEF NothingMissing, Publishable
    <3>2. CASE InitBegins(r)
      <4>1. PICK src \in Releases : Stages(r, Files, Fresh(r, src))
        BY <3>2 DEF InitBegins
      <4>2. at'[r] = "stage" /\ todo'[r] = Files /\ payload'[r] = Fresh(r, src)
        BY <3>2, <4>1, <1>2 DEF InitBegins, Stages, Goto, JournalInv, TypeOK
      <4> QED
        BY <1>3, <1>6, <4>2 DEF NothingMissing, Owed, Fresh
    <3>3. CASE UpgradeBegins(r)
      <4> DEFINE rec(S, src) ==
            [run |-> r,
             src |-> [f \in Files |-> IF f \in S THEN src[f] ELSE manifest.src[f]],
             hash |-> [f \in Files |-> IF f \in S THEN Template(src[f]) ELSE manifest.hash[f]]]
      <4>1. PICK force \in BOOLEAN, src \in Releases :
              LET S == ToStage(src, force)
              IN Stages(r, S, rec(S, src)) /\ Goto(r, IF S = {} THEN "direct" ELSE "stage")
        BY <3>3 DEF UpgradeBegins
      <4> DEFINE S == ToStage(src, force)
      <4>2. \A f \in Files \ S : disk[f] # Absent /\ disk[f] = manifest.hash[f]
        BY DEF ToStage
      <4>3. /\ \A f \in Files : f \in S => rec(S, src).hash[f] = Template(rec(S, src).src[f])
            /\ \A f \in Files : f \notin S => rec(S, src).hash[f] = manifest.hash[f]
        OBVIOUS
      <4>4. S \subseteq Files
        BY DEF ToStage
      <4>5. /\ payload'[r] = rec(S, src) /\ todo'[r] = S
            /\ S # {} => at'[r] = "stage"
        BY <4>1, <1>2 DEF Stages, Goto, JournalInv, TypeOK
      <4> HIDE DEF S, rec
      <4>6. Owed(r)' = S
        BY <1>3, <1>6, <4>5 DEF Owed
      <4> QED
        BY <1>3, <4>2, <4>3, <4>4, <4>5, <4>6 DEF NothingMissing, InPlace
    <3> QED
      BY <3>1, <3>2, <3>3
  <2> QED
    BY <2>1, <2>2, <2>3 DEF Orderly
<1> QED
  BY <1>9, <1>10, <1>11, <1>12, <1>13 DEF CalmInv

\* A run at its work, before and after its batch.
LEMMA RunCalm ==
  ASSUME JournalInv, CalmInv, NEW r \in Runs,
         \/ ClearFile(r) \/ StageFile(r) \/ WritePending(r)
         \/ Merge(r) \/ RewritePending(r) \/ Discard(r) \/ Record(r)
  PROVE  CalmInv'
<1>1. Repair \in Drivers /\ r \in Drivers /\ r # Repair
  BY RunsAssumption DEF Drivers
<1>2. Active(r) /\ at[r] # "sweep"
  BY DEF ClearFile, StageFile, WritePending, Merge, RewritePending, Discard, Record, Active
<1>3. ~IsPublished(r)
  BY <1>2 DEF CalmInv, Orderly, Over, Active
<1>4. Orderly(r)
  BY DEF CalmInv
<1>5. TypeOK
  BY DEF JournalInv
<1>6. SUFFICES Local(r, r) /\ Orderly(r)' /\ BatchFollows(r)'
  BY <1>1, <1>2, CalmStep, Zenon
<1>7. CASE ClearFile(r)
  <2>1. Local(r, r) /\ at'[r] = "clear" /\ left'[r] = left[r] /\ staged'[r] = staged[r]
    BY <1>5, <1>7 DEF ClearFile, Local, TypeOK
  <2>2. left[r] \subseteq {"staging"} /\ manifest' = manifest
    BY <1>7 DEF ClearFile, JournalInv, Traces, EarlyClean
  <2> QED
    BY <1>3, <2>1, <2>2 DEF Orderly, Sidecars, SentinelComplete, NothingMissing, Publishable,
       IsPublished, BatchFollows
<1>8. CASE StageFile(r)
  <2>1. First(todo[r]) \in todo[r] /\ First(todo[r]) \in Files
    BY <1>1, <1>5, <1>8, NextFile DEF StageFile
  <2>2. /\ Local(r, r) /\ at[r] = "stage" /\ at'[r] = "stage" /\ left'[r] = left[r]
        /\ staged'[r] = staged[r] \cup {First(todo[r])} /\ todo'[r] = todo[r] \ {First(todo[r])}
        /\ UNCHANGED <<disk, manifest, payload>>
    BY <1>1, <1>5, <1>8 DEF StageFile, Local, TypeOK
  <2>3. left[r] \subseteq {"staging"}
    BY <1>8 DEF StageFile, JournalInv, Traces, EarlyClean
  <2>4. Owed(r)' = Owed(r)
    BY <2>1, <2>2 DEF Owed
  <2>5. NothingMissing(r)'
    BY <1>4, <2>2, <2>4 DEF Orderly, NothingMissing, Publishable, InPlace
  <2> QED
    BY <1>3, <1>4, <2>2, <2>3, <2>5 DEF Orderly, Sidecars, SentinelComplete, IsPublished, BatchFollows
<1>9. CASE WritePending(r)
  <2>1. /\ Local(r, r) /\ at[r] = "stage" /\ at'[r] = "open" /\ left'[r] = left[r] \cup {"pending"}
        /\ todo[r] = {} /\ UNCHANGED <<disk, manifest, payload, staged>>
    BY <1>1, <1>5, <1>9 DEF WritePending, Goto, Local, TypeOK
  <2>2. left[r] \subseteq {"staging"}
    BY <1>9 DEF WritePending, JournalInv, Traces, EarlyClean
  <2>3. Owed(r)' = Owed(r)
    BY <2>1 DEF Owed
  <2>4. NothingMissing(r)'
    BY <1>4, <2>1, <2>3 DEF Orderly, NothingMissing, Publishable, InPlace
  <2> QED
    BY <1>3, <1>4, <2>1, <2>2, <2>4 DEF Orderly, Sidecars, SentinelComplete, IsPublished, BatchFollows
<1>10. CASE Merge(r)
  <2>1. /\ Local(r, r) /\ left'[r] = left[r]
        /\ \/ at[r] = "merge" /\ at'[r] = "rewrite"
           \/ at[r] = "direct" /\ at'[r] = "discard"
        /\ UNCHANGED <<manifest, payload, staged, done>>
    BY <1>1, <1>5, <1>10 DEF Merge, Goto, Local, TypeOK
  <2>2. staged[r] = {}
    BY <1>4, <2>1 DEF Orderly, Sidecars, SentinelComplete
  <2>3. Owed(r) = {} /\ Owed(r)' = {}
    BY <2>1, <2>2 DEF Owed
  <2>4. \A f \in Files : /\ f # Roomodes => disk'[f] = disk[f]
                         /\ disk[f] # Absent => disk'[f] # Absent
    <3>1. disk[Roomodes] # Absent => Merged(disk[Roomodes]) \in Content
      <4> SUFFICES ASSUME NEW c \in Content PROVE Merged(c) \in Content
        BY <1>5, FilesAssumption DEF TypeOK
      <4> QED
        BY DEF Merged, Content
    <3>2. disk' = [disk EXCEPT ![Roomodes] = IF @ = Absent THEN @ ELSE Merged(@)]
      BY <1>10 DEF Merge
    <3> QED
      BY <1>5, <3>1, <3>2, NoRecord, FilesAssumption DEF TypeOK
  <2>5. NothingMissing(r)'
    BY <1>4, <2>1, <2>3, <2>4 DEF Orderly, NothingMissing, Publishable, InPlace
  <2> QED
    BY <1>3, <1>4, <2>1, <2>5 DEF Orderly, Sidecars, SentinelComplete, IsPublished, BatchFollows
<1>11. CASE RewritePending(r) \/ Record(r)
  <2>1. at[r] \in {"rewrite", "record"}
    BY <1>11 DEF RewritePending, Record
  <2>2. payload[r] \in Records /\ payload[r].run = r
    BY <1>5, <2>1 DEF JournalInv, TypeOK, Traces, RecordComposed
  <2>3. /\ \A q \in Runs \ {r} : Patched(r)[q] = payload[q]
        /\ Patched(r)[r] \in Records /\ Patched(r)[r].run = r
        /\ \A f \in Files \ {Roomodes} : Patched(r)[r].hash[f] = payload[r].hash[f]
    BY <1>5, <2>2, PatchedRecord
  <2>4. /\ payload' = Patched(r) /\ UNCHANGED <<disk, staged, done, todo>>
        /\ \A e \in Drivers \ {r} : at'[e] = at[e]
        /\ \A q \in Runs \ {r} : left'[q] = left[q]
        /\ rep' = rep
    BY <1>5, <1>11 DEF RewritePending, Record, Goto, TypeOK
  <2>5. Owed(r) = {} /\ Owed(r)' = {} /\ staged[r] = {}
    BY <1>4, <2>1, <2>4, <1>1, <1>5, <1>11
       DEF Orderly, Sidecars, SentinelComplete, Owed, RewritePending, Record, Goto, TypeOK
  <2>6. NothingMissing(r)'
    BY <1>4, <2>1, <2>3, <2>4, <2>5 DEF Orderly, NothingMissing, Publishable, InPlace
  <2>7. CASE RewritePending(r)
    <3>1. at'[r] = "publish" /\ left'[r] = left[r] \cup {"pending"} /\ manifest' = manifest
      BY <1>1, <1>5, <2>7 DEF RewritePending, Goto, TypeOK
    <3>2. Local(r, r)
      BY <1>1, <2>3, <2>4, <3>1 DEF Local
    <3>3. at[r] = "rewrite"
      BY <2>7 DEF RewritePending
    <3> QED
      BY <1>3, <1>4, <2>4, <2>5, <2>6, <3>1, <3>2, <3>3
         DEF Orderly, Sidecars, SentinelComplete, IsPublished, BatchFollows
  <2>8. CASE Record(r)
    <3>1. at'[r] = "done" /\ left' = left /\ manifest' = Patched(r)[r] /\ at[r] = "record"
      BY <1>1, <1>5, <2>4, <2>8 DEF Record, Goto, TypeOK
    <3>2. Local(r, r)
      BY <1>1, <2>3, <2>4, <3>1, NoRecord DEF Local
    <3>3. left[r] \subseteq {"staging"}
      BY <1>4, <3>1 DEF Orderly, Sidecars
    <3> QED
      BY <2>4, <2>5, <2>6, <3>1, <3>2, <3>3
         DEF Orderly, Sidecars, SentinelComplete, Over, BatchFollows
  <2> QED
    BY <1>11, <2>7, <2>8
<1>12. CASE Discard(r)
  <2>1. /\ Local(r, r) /\ at[r] = "discard" /\ at'[r] = "record" /\ left'[r] \subseteq left[r]
        /\ UNCHANGED <<disk, manifest, payload, staged, done>>
    BY <1>1, <1>5, <1>12 DEF Discard, Goto, Local, TypeOK
  <2>2. Owed(r)' = Owed(r)
    BY <2>1 DEF Owed
  <2>3. NothingMissing(r)'
    BY <1>4, <2>1, <2>2 DEF Orderly, NothingMissing, Publishable, InPlace
  <2> QED
    BY <1>3, <1>4, <2>1, <2>3 DEF Orderly, Sidecars, SentinelComplete, IsPublished, BatchFollows
<1> QED
  BY <1>7, <1>8, <1>9, <1>10, <1>11, <1>12

\* init --force starts over: nothing of an earlier run is left.
LEMMA ClearCalm ==
  ASSUME JournalInv, CalmInv, NEW r \in Runs, ClearHarness(r)
  PROVE  CalmInv'
<1>1. Repair \in Drivers /\ r \in Drivers /\ r # Repair /\ Runs \subseteq Drivers /\ Repair \notin Runs
  BY RunsAssumption DEF Drivers
<1>2. Active(r)
  BY DEF ClearHarness, Active
<1>3. /\ \A q \in Runs \ {r} : ~Busy(q) /\ ~Active(q)
      /\ at[Repair] = "idle" /\ rep.pend = {} /\ rep.stale = {}
  BY <1>1, <1>2, Alone
<1>4. PICK src \in Releases : payload' = [payload EXCEPT ![r] = Fresh(r, src)]
  BY DEF ClearHarness
<1>5. /\ \A e \in Drivers \ {r} : at'[e] = at[e] /\ todo'[e] = todo[e]
      /\ at'[r] = "stage" /\ todo'[r] = Files /\ left'[r] = {"staging"} /\ manifest' = None
      /\ \A q \in Runs \ {r} : left'[q] = {}
      /\ \A q \in Runs : staged'[q] = {} /\ done'[q] = {}
      /\ rep' = rep
  BY <1>1 DEF ClearHarness, Goto, JournalInv, TypeOK
<1>6. payload'[r] = Fresh(r, src)
  BY <1>4 DEF JournalInv, TypeOK
<1>7. at'[Repair] = "idle" /\ \A q \in Runs \ {r} : at'[q] = at[q]
  BY <1>1, <1>3, <1>5
<1>8. OneBusy'
  <2>1. \A q \in Runs \ {r} : ~Busy(q)'
    BY <1>3, <1>5, <1>7 DEF Busy, Active, Clean, Working
  <2> QED
    BY <1>7, <2>1 DEF OneBusy, Active
<1>9. RecoveryMarks' /\ (\A q \in rep.stale : "pending" \notin left[q])'
  BY <1>3, <1>5, <1>7 DEF RecoveryMarks
<1>10. \A d \in Drivers : BatchFollows(d)'
  <2> SUFFICES ASSUME NEW d \in Drivers PROVE at'[d] \notin {"rename", "line"}
    BY DEF BatchFollows
  <2> QED
    BY <1>3, <1>5, <1>7 DEF Active, Drivers
<1>11. \A q \in Runs \ {r} : Orderly(q)'
  BY <1>3, <1>5, <1>7 DEF Active, Orderly, Sidecars, SentinelComplete, NothingMissing, Publishable,
     IsPublished
<1>12. Orderly(r)'
  <2>1. NothingMissing(r)'
    BY <1>5, <1>6 DEF NothingMissing, Owed, Fresh
  <2> QED
    BY <1>5, <2>1 DEF Orderly, Sidecars, SentinelComplete, IsPublished
<1> QED
  BY <1>8, <1>9, <1>10, <1>11, <1>12 DEF CalmInv

\* The renames, by a run or by a recovery: what a batch puts down is what the
\* record of its run says.
LEMMA RenameCalm ==
  ASSUME JournalInv, CalmInv, NEW d \in Drivers,
         BatchOpen(d) \/ BatchRename(d) \/ BatchVanished(d) \/ BatchLine(d)
  PROVE  CalmInv'
<1>1. at[d] \in {"open", "rename", "line"}
  BY DEF BatchOpen, BatchRename, BatchVanished, BatchLine
<1>2. Active(d)
  BY <1>1 DEF Active
<1>3. PICK r \in Runs : r = On(d) /\ IF d = Repair THEN Working(r) ELSE r = d
  BY <1>1, OnRun DEF Moving
<1>4. /\ d = Repair => at[r] \in {"done", "failed", "dead"}
      /\ \A q \in Runs \ {r} : ~Busy(q) /\ ~Active(q)
  BY <1>2, <1>3, Alone
<1>5. TypeOK /\ Orderly(r) /\ BatchFollows(d) /\ RecoveryMarks
  BY DEF JournalInv, CalmInv
<1>6. Repair \in Drivers /\ r \in Drivers /\ Repair \notin Runs
  BY RunsAssumption DEF Drivers
<1>7. done[r] \cap staged[r] = {}
  BY DEF JournalInv, Traces, JournalAfterRename
<1>8. payload[r] \in Records /\ On(d) = r
  BY <1>1, <1>3, OnRun DEF Moving
<1>9. ~IsPublished(r) \/ staged[r] = {}
  BY <1>5 DEF Orderly, Over
<1>10. d # Repair => ~IsPublished(r)
  BY <1>1, <1>3, <1>5 DEF Orderly, Over
<1>11. SUFFICES Local(d, r) /\ Orderly(r)' /\ BatchFollows(d)' /\ (d = Repair => RecoveryMarks')
  BY <1>2, <1>3, CalmStep, Zenon
<1>12. CASE BatchOpen(d)
  <2>1. CASE "staging" \in left[r]
    <3>1. /\ Local(d, r) /\ at[d] = "open" /\ at'[d] = "rename" /\ todo'[d] = staged[r]
          /\ left'[r] = left[r] \cup {"journal"}
          /\ UNCHANGED <<disk, manifest, staged, done, payload, rep>>
      <4>1. staged[r] \ done[r] = staged[r]
        BY <1>7
      <4>2. /\ at[d] = "open" /\ at' = [at EXCEPT ![d] = "rename"]
            /\ todo' = [todo EXCEPT ![d] = staged[r]]
            /\ left' = [left EXCEPT ![r] = @ \cup {"journal"}]
            /\ UNCHANGED <<disk, manifest, staged, done, payload, rep>>
        BY <1>8, <1>12, <2>1, <4>1 DEF BatchOpen, Goto
      <4> QED
        BY <1>5, <4>2 DEF Local, TypeOK
    <3>2. at'[r] = IF d = Repair THEN at[r] ELSE "rename"
      BY <1>3, <1>6, <3>1 DEF Local
    <3>3. Owed(r)' = staged[r] /\ Owed(r) = staged[r]
      BY <1>3, <1>4, <3>1, <3>2 DEF Owed
    <3>4. NothingMissing(r)'
      BY <1>3, <1>5, <3>1, <3>2, <3>3 DEF Orderly, NothingMissing, Publishable, InPlace
    <3>5. Sidecars(r)' /\ SentinelComplete(r)'
      BY <1>3, <1>4, <1>5, <3>1, <3>2 DEF Orderly, Sidecars, SentinelComplete
    <3>6. IsPublished(r)' => Over(r)'
      BY <1>5, <1>10, <3>1, <3>2 DEF Orderly, IsPublished, Over
    <3>7. BatchFollows(d)'
      BY <1>8, <3>1 DEF BatchFollows, On
    <3>8. d = Repair => RecoveryMarks'
      BY <1>3, <1>5, <2>1, <3>1 DEF RecoveryMarks, Working
    <3> QED
      BY <3>1, <3>4, <3>5, <3>6, <3>7, <3>8 DEF Orderly
  <2>2. CASE "staging" \notin left[r]
    <3>1. d = Repair
      BY <1>3, <1>5, <1>12, <2>2 DEF BatchOpen, Orderly, Sidecars
    <3>2. /\ Local(d, r) /\ at'[d] = "pick" /\ at'[r] = at[r]
          /\ UNCHANGED <<disk, manifest, left, staged, done, payload, todo>>
      BY <1>3, <1>5, <1>6, <1>8, <1>12, <2>2, <3>1 DEF BatchOpen, GiveUp, Goto, Local, TypeOK
    <3>3. Orderly(r)'
      BY <1>5, <3>2 DEF Orderly, Sidecars, SentinelComplete, NothingMissing, Publishable, Owed, InPlace,
         IsPublished, Over
    <3> QED
      BY <3>1, <3>2, <3>3 DEF BatchFollows, RecoveryMarks
  <2> QED
    BY <2>1, <2>2
<1>13. CASE BatchRename(d)
  <2> DEFINE f == First(todo[d])
  <2>1. f \in Files /\ f \in staged[r] /\ todo[d] = staged[r]
    BY <1>5, <1>8, <1>13, NextFile DEF BatchRename, BatchFollows
  <2>2. /\ at[d] = "rename" /\ disk' = [disk EXCEPT ![f] = Template(payload[r].src[f])]
        /\ staged' = [staged EXCEPT ![r] = @ \ {f}] /\ at' = [at EXCEPT ![d] = "line"]
        /\ UNCHANGED <<manifest, left, done, payload, todo, rep>>
    BY <1>8, <1>13 DEF BatchRename, Goto
  <2> HIDE DEF f
  <2>3. Local(d, r) /\ at'[d] = "line" /\ staged'[r] = staged[r] \ {f}
    BY <1>5, <2>2 DEF Local, TypeOK
  <2>4. at'[r] = IF d = Repair THEN at[r] ELSE "line"
    BY <1>3, <1>6, <2>3 DEF Local
  <2>5. Template(payload[r].src[f]) # Absent
    <3>1. payload[r].src[f] \in Nat
      BY <1>8, <2>1 DEF Records
    <3>2. Template(payload[r].src[f]) \in Content
      BY <3>1 DEF Template, Content
    <3> QED
      BY <3>2, NoRecord
  <2>6. Owed(r)' = staged[r] \ {f} /\ Owed(r) = staged[r]
    BY <1>3, <1>4, <2>2, <2>3, <2>4 DEF Owed
  <2>7. NothingMissing(r)'
    <3> SUFFICES ASSUME Publishable(r)'
                 PROVE  /\ \A g \in staged[r] \ {f} : payload[r].hash[g] = Template(payload[r].src[g])
                        /\ \A g \in Files \ (staged[r] \ {f}) : InPlace(g, payload[r])'
      BY <2>2, <2>6 DEF NothingMissing, InPlace
    <3>1. Publishable(r)
      BY <1>3, <2>2, <2>4 DEF Publishable
    <3>2. /\ \A g \in staged[r] : payload[r].hash[g] = Template(payload[r].src[g])
          /\ \A g \in Files \ staged[r] : InPlace(g, payload[r])
      BY <1>5, <2>6, <3>1 DEF Orderly, NothingMissing
    <3>3. ASSUME NEW g \in Files \ (staged[r] \ {f}) PROVE InPlace(g, payload[r])'
      <4>1. CASE g = f
        BY <1>5, <2>1, <2>2, <2>5, <3>2, <4>1 DEF InPlace, TypeOK
      <4>2. CASE g # f
        BY <1>5, <2>2, <3>2, <4>2 DEF InPlace, TypeOK
      <4> QED
        BY <4>1, <4>2
    <3> QED
      BY <3>2, <3>3
  <2>8. Sidecars(r)' /\ SentinelComplete(r)'
    BY <1>3, <1>4, <1>5, <2>2, <2>3, <2>4 DEF Orderly, Sidecars, SentinelComplete
  <2>9. ~IsPublished(r)'
    BY <1>9, <2>1, <2>2 DEF IsPublished
  <2>10. BatchFollows(d)'
    BY <1>8, <2>1, <2>2, <2>3 DEF BatchFollows, On, f
  <2>11. d = Repair => RecoveryMarks'
    BY <1>3, <1>5, <2>2, <2>3 DEF RecoveryMarks, Working
  <2> QED
    BY <2>3, <2>7, <2>8, <2>9, <2>10, <2>11 DEF Orderly
<1>14. CASE BatchVanished(d)
  <2>1. todo[d] = staged[r] /\ todo[d] # {} /\ First(todo[d]) \notin staged[r]
    BY <1>5, <1>8, <1>14 DEF BatchVanished, BatchFollows
  <2> QED
    BY <2>1, NextFile DEF JournalInv
<1>15. CASE BatchLine(d)
  <2>1. /\ Local(d, r) /\ at[d] = "line" /\ at'[d] = "rename"
        /\ todo'[d] = todo[d] \ {First(todo[d])}
        /\ UNCHANGED <<disk, manifest, left, staged, payload, rep>>
    BY <1>5, <1>8, <1>15 DEF BatchLine, Goto, Local, TypeOK
  <2>2. at'[r] = IF d = Repair THEN at[r] ELSE "rename"
    BY <1>3, <1>6, <2>1 DEF Local
  <2>3. Owed(r)' = staged[r] /\ Owed(r) = staged[r]
    BY <1>3, <1>4, <2>1, <2>2 DEF Owed
  <2>4. NothingMissing(r)'
    BY <1>3, <1>5, <2>1, <2>2, <2>3 DEF Orderly, NothingMissing, Publishable, InPlace
  <2>5. Sidecars(r)' /\ SentinelComplete(r)'
    BY <1>3, <1>4, <1>5, <2>1, <2>2 DEF Orderly, Sidecars, SentinelComplete
  <2>6. IsPublished(r)' => Over(r)'
    BY <1>5, <1>10, <2>1, <2>2 DEF Orderly, IsPublished, Over
  <2>7. BatchFollows(d)'
    BY <1>5, <1>8, <2>1 DEF BatchFollows, On
  <2>8. d = Repair => RecoveryMarks'
    BY <1>3, <1>5, <2>1 DEF RecoveryMarks, Working
  <2> QED
    BY <2>1, <2>4, <2>5, <2>6, <2>7, <2>8 DEF Orderly
<1> QED
  BY <1>12, <1>13, <1>14, <1>15

\* The end of a batch, its publication and its sweep.
LEMMA CloseCalm ==
  ASSUME JournalInv, CalmInv, NEW d \in Drivers,
         BatchAbort(d) \/ BatchDone(d) \/ Publish(d) \/ Sweep(d)
  PROVE  CalmInv'
<1>1. at[d] \in {"rename", "publish", "sweep"}
  BY DEF BatchAbort, BatchDone, Publish, Sweep
<1>2. Active(d)
  BY <1>1 DEF Active
<1>3. PICK r \in Runs : r = On(d) /\ IF d = Repair THEN Working(r) ELSE r = d
  BY <1>1, OnRun DEF Moving
<1>4. d = Repair => at[r] \in {"done", "failed", "dead"} /\ rep.on = r
  BY <1>2, <1>3, Alone DEF Working
<1>5. TypeOK /\ Orderly(r) /\ BatchFollows(d) /\ RecoveryMarks
  BY DEF JournalInv, CalmInv
<1>6. Repair \in Drivers /\ r \in Drivers /\ Repair \notin Runs
  BY RunsAssumption DEF Drivers
<1>7. payload[r] \in Records /\ payload[r].run = r /\ On(d) = r
  BY <1>1, <1>3, OnRun, NoRecord DEF Moving, JournalInv, Traces, RecordComposed
<1>8. \A q \in Runs : On(d) = r
  BY <1>7
<1>9. SUFFICES Local(d, r) /\ Orderly(r)' /\ BatchFollows(d)' /\ (d = Repair => RecoveryMarks')
  BY <1>2, <1>3, CalmStep, Zenon
<1>10. CASE BatchAbort(d)
  <2>1. "staging" \in left[r]
    BY <1>3, <1>4, <1>5, <1>10 DEF BatchAbort, Orderly, Sidecars, RecoveryMarks
  <2>2. /\ Local(d, r) /\ at[d] = "rename" /\ at'[d] \in {"pick", "failed"} /\ (d = Repair => at'[d] = "pick")
        /\ todo[d] # {} /\ left'[r] = left[r] \cup {"aborted"}
        /\ UNCHANGED <<disk, manifest, staged, done, payload, todo, rep>>
    BY <1>5, <1>7, <1>10, <2>1 DEF BatchAbort, GiveUp, Goto, Local, TypeOK
  <2>3. at'[r] \in {"done", "failed", "dead", "pick"}
    BY <1>3, <1>4, <1>6, <2>2 DEF Local
  <2>4. ~IsPublished(r)'
    BY <1>5, <1>7, <2>2 DEF Orderly, BatchFollows, IsPublished, Over
  <2> QED
    BY <1>5, <2>2, <2>3, <2>4 DEF Orderly, Sidecars, SentinelComplete, NothingMissing, Publishable,
       BatchFollows, RecoveryMarks
<1>11. CASE BatchDone(d)
  <2>1. at[d] = "rename" /\ staged[r] = {} /\ UNCHANGED <<disk, manifest, staged, done, payload, todo, rep>>
    BY <1>5, <1>7, <1>11 DEF BatchDone, BatchFollows
  <2>2. /\ Local(d, r) /\ left'[r] \in {left[r], left[r] \cup {"sentinel"}}
        /\ at'[d] \in {"sweep", "publish", "merge"}
        /\ IF d = Repair /\ rep.legacy THEN at'[d] = "sweep"
           ELSE "sentinel" \in left'[r] /\ at'[d] = IF d = Repair THEN "publish" ELSE "merge"
    <3>1. CASE d = Repair /\ rep.legacy
      BY <1>5, <1>7, <1>11, <3>1 DEF BatchDone, Goto, Local, TypeOK
    <3>2. CASE ~(d = Repair /\ rep.legacy)
      BY <1>5, <1>7, <1>11, <3>2 DEF BatchDone, Goto, Local, TypeOK
    <3> QED
      BY <3>1, <3>2
  <2>3. at'[r] = IF d = Repair THEN at[r] ELSE "merge"
    BY <1>3, <1>6, <2>2 DEF Local
  <2>4. Owed(r) = {} /\ Owed(r)' = {}
    BY <1>3, <1>4, <2>1, <2>3 DEF Owed
  <2>5. NothingMissing(r)'
    BY <1>3, <1>5, <2>1, <2>2, <2>3, <2>4 DEF Orderly, NothingMissing, Publishable, InPlace
  <2>6. Sidecars(r)' /\ SentinelComplete(r)'
    BY <1>3, <1>4, <1>5, <2>1, <2>2, <2>3 DEF Orderly, Sidecars, SentinelComplete
  <2>7. IsPublished(r)' => Over(r)'
    BY <1>3, <1>5, <2>1, <2>2, <2>3 DEF Orderly, IsPublished, Over
  <2>8. d = Repair => RecoveryMarks'
    BY <1>4, <1>5, <2>1, <2>2 DEF RecoveryMarks
  <2> QED
    BY <2>2, <2>5, <2>6, <2>7, <2>8 DEF Orderly, BatchFollows
<1>12. CASE Publish(d)
  <2>1. CASE "pending" \in left[r]
    <3>1. /\ Local(d, r) /\ at[d] = "publish" /\ at'[d] = "sweep" /\ left'[r] = left[r] \ {"pending"}
          /\ manifest' = payload[r] /\ UNCHANGED <<disk, staged, done, payload, todo, rep>>
      BY <1>5, <1>7, <1>12, <2>1, NoRecord DEF Publish, Goto, Local, TypeOK
    <3>2. "sentinel" \in left[r] /\ "aborted" \notin left[r]
      BY <1>3, <1>4, <1>5, <3>1 DEF Orderly, Sidecars, RecoveryMarks
    <3>3. staged[r] = {}
      BY <1>5, <2>1, <3>2 DEF Orderly, SentinelComplete
    <3>4. at'[r] = IF d = Repair THEN at[r] ELSE "sweep"
      BY <1>3, <1>6, <3>1 DEF Local
    <3> QED
      BY <1>4, <1>5, <3>1, <3>2, <3>3, <3>4 DEF Orderly, Sidecars, SentinelComplete, NothingMissing, Publishable,
         Over, BatchFollows, RecoveryMarks
  <2>2. CASE "pending" \notin left[r]
    <3>1. d = Repair
      BY <1>3, <1>5, <1>12, <2>2 DEF Publish, Orderly, Sidecars
    <3>2. /\ Local(d, r) /\ at'[d] = "pick" /\ at'[r] = at[r]
          /\ UNCHANGED <<disk, manifest, left, staged, done, payload, todo>>
      BY <1>5, <1>6, <1>7, <1>12, <2>2, <3>1 DEF Publish, GiveUp, Goto, Local, TypeOK
    <3>3. Orderly(r)'
      BY <1>5, <3>2 DEF Orderly, Sidecars, SentinelComplete, NothingMissing, Publishable, Owed, InPlace,
         IsPublished, Over
    <3> QED
      BY <3>1, <3>2, <3>3 DEF BatchFollows, RecoveryMarks
  <2> QED
    BY <2>1, <2>2
<1>13. CASE Sweep(d)
  <2> DEFINE remaining == {i \in DOMAIN SweepOrder(d) : SweepOrder(d)[i] \in left[r]}
             next == SweepOrder(d)[First(remaining)]
  <2>1. /\ at[d] = "sweep" /\ Local(d, r) /\ left'[r] \subseteq left[r] /\ staged'[r] \subseteq staged[r]
        /\ UNCHANGED <<disk, manifest, payload, todo, rep>>
        /\ IF remaining = {} THEN at'[d] = (IF d = Repair THEN "pick" ELSE "done") /\ left' = left
           ELSE at' = at /\ left'[r] = left[r] \ IF next = "staging" THEN InStaging ELSE {next}
    <3>1. CASE remaining = {}
      BY <1>5, <1>7, <1>13, <3>1 DEF Sweep, Goto, Local, TypeOK
    <3>2. CASE remaining # {}
      <4>1. /\ at[d] = "sweep" /\ at' = at
            /\ left' = [left EXCEPT ![r] = @ \ IF next = "staging" THEN InStaging ELSE {next}]
            /\ staged' = [staged EXCEPT ![r] = IF next = "staging" THEN {} ELSE @]
            /\ done' = [done EXCEPT ![r] = IF next = "journal" THEN {} ELSE @]
            /\ UNCHANGED <<disk, manifest, payload, todo, rep>>
        BY <1>7, <1>13, <3>2 DEF Sweep
      <4> HIDE DEF next, remaining
      <4> QED
        BY <1>5, <3>2, <4>1 DEF Local, TypeOK
    <3> QED
      BY <3>1, <3>2
  <2>2. at'[r] = at[r] \/ (d # Repair /\ at'[r] = "done")
    BY <1>3, <1>6, <2>1 DEF Local
  <2>3. ("pending" \in left'[r] => "aborted" \in left'[r]) /\ ("pending" \in left[r] => d = Repair)
    <3>1. CASE "pending" \notin left[r]
      BY <2>1, <3>1
    <3>2. CASE "pending" \in left[r]
      <4>1. d = Repair /\ ~rep.legacy /\ "aborted" \in left[r]
        BY <1>3, <1>4, <1>5, <2>1, <3>2 DEF Orderly, Sidecars, RecoveryMarks
      <4>2. SweepOrder(d) = <<"sentinel", "journal", "pending", "staging">>
        BY <4>1 DEF SweepOrder
      <4>3. remaining \subseteq 1 .. 4 /\ 3 \in remaining
        BY <3>2, <4>2
      <4>4. First(remaining) \in 1 .. 3
        <5>1. remaining \subseteq Nat
          BY <4>3
        <5> HIDE DEF remaining
        <5>2. First(remaining) \in remaining /\ \A x \in remaining : First(remaining) <= x
          BY <4>3, <5>1, FirstIn
        <5>3. First(remaining) \in 1 .. 4 /\ First(remaining) <= 3
          BY <4>3, <5>2
        <5> QED
          BY <5>3
      <4>5. next \in {"sentinel", "journal", "pending"}
        <5> HIDE DEF remaining
        <5> QED
          BY <4>2, <4>4
      <4>6. left'[r] = left[r] \ {next}
        BY <2>1, <4>3, <4>5
      <4> QED
        BY <4>1, <4>5, <4>6
    <3> QED
      BY <3>1, <3>2
  <2> HIDE DEF remaining, next
  <2>4. Sidecars(r)' /\ SentinelComplete(r)'
    BY <1>3, <1>4, <1>5, <2>1, <2>2 DEF Orderly, Sidecars, SentinelComplete
  <2>5. NothingMissing(r)'
    BY <1>3, <1>4, <2>1, <2>2, <2>3 DEF NothingMissing, Publishable
  <2>6. IsPublished(r)' => Over(r)'
    BY <1>3, <1>5, <2>1, <2>2 DEF Orderly, IsPublished, Over
  <2>7. BatchFollows(d)'
    BY <1>1, <2>1 DEF BatchFollows
  <2>8. d = Repair => RecoveryMarks'
    BY <1>4, <1>5, <2>1, <2>3 DEF RecoveryMarks
  <2> QED
    BY <2>1, <2>4, <2>5, <2>6, <2>7, <2>8 DEF Orderly
<1> QED
  BY <1>10, <1>11, <1>12, <1>13

\* The recovery: what it takes up was left by the one run that left anything.
LEMMA RecoveryCalm ==
  ASSUME JournalInv, CalmInv, strays' = 0, Recovery
  PROVE  CalmInv'
<1>1. Repair \in Drivers /\ Runs \subseteq Drivers /\ Repair \notin Runs
  BY RunsAssumption DEF Drivers
<1>2. TypeOK /\ Traces /\ OneBusy /\ RecoveryMarks
  BY DEF JournalInv, CalmInv
<1>3. at[Repair] \in {"idle", "pick", "rollback"}
  BY DEF Recovery, RepairScan, TakePending, TakeStale, Take, RepairEnds, Rollback
<1>4. \A q \in Runs : at'[q] = at[q] /\ todo'[q] = todo[q]
  BY <1>1, <1>2 DEF Recovery, RepairScan, TakePending, TakeStale, Take, RepairEnds, Rollback, Goto, TypeOK
<1>5. \A q \in Runs : staged'[q] = staged[q] /\ done'[q] = done[q] /\ payload'[q] = payload[q]
  BY DEF Recovery, RepairScan, TakePending, TakeStale, Take, RepairEnds, Rollback
<1>6. manifest' = manifest
  BY DEF Recovery, RepairScan, TakePending, TakeStale, Take, RepairEnds, Rollback
<1>7. \A q \in Runs : ~Active(q)
  <2>1. CASE RepairScan
    BY <1>2, <2>1 DEF RepairScan, Unless, TypeOK
  <2>2. CASE ~RepairScan
    <3>1. Active(Repair)
      BY <2>2 DEF Recovery, TakePending, TakeStale, Take, RepairEnds, Rollback, Active
    <3> QED
      BY <1>2, <3>1 DEF OneBusy
  <2> QED
    BY <2>1, <2>2
<1>8. \A q \in Runs : ~Active(q)'
  BY <1>4, <1>7 DEF Active
\* What has to be shown of a step of the recovery.
<1>9. ASSUME \A q \in Runs : Busy(q)' => Busy(q),
             \A q \in Runs : left'[q] = left[q]
                             \/ ("pending" \notin left'[q] /\ left'[q] \subseteq left[q]),
             \A q \in Runs : Publishable(q)' => disk' = disk,
             at'[Repair] \notin {"rename", "line"}, RecoveryMarks',
             \A q \in rep'.stale : q \in Runs /\ "pending" \notin left'[q]
      PROVE  CalmInv'
  <2>1. OneBusy'
    BY <1>2, <1>8, <1>9 DEF OneBusy
  <2>2. \A e \in Drivers : BatchFollows(e)'
    <3> SUFFICES ASSUME NEW e \in Drivers PROVE at'[e] \notin {"rename", "line"}
      BY DEF BatchFollows
    <3> QED
      BY <1>7, <1>4, <1>9 DEF Drivers, Active
  <2>3. \A q \in Runs : Orderly(q)'
    <3> SUFFICES ASSUME NEW q \in Runs PROVE Orderly(q)'
      OBVIOUS
    <3>1. Orderly(q) /\ ~Active(q) /\ at'[q] = at[q] /\ staged'[q] = staged[q] /\ payload'[q] = payload[q]
      BY <1>4, <1>5, <1>7 DEF CalmInv
    <3>2. Sidecars(q)' /\ SentinelComplete(q)'
      BY <1>9, <3>1 DEF Orderly, Sidecars, SentinelComplete, Active
    <3>3. IsPublished(q)' => Over(q)'
      BY <1>6, <1>9, <3>1 DEF Orderly, IsPublished, Over
    <3>4. Publishable(q)' => Publishable(q)
      BY <1>9, <3>1 DEF Publishable, Active
    <3>5. Owed(q)' = Owed(q)
      BY <3>1, <1>4 DEF Owed
    <3>6. NothingMissing(q)'
      BY <1>9, <3>1, <3>4, <3>5 DEF Orderly, NothingMissing, InPlace
    <3> QED
      BY <3>2, <3>3, <3>6 DEF Orderly
  <2> QED
    BY <1>9, <2>1, <2>2, <2>3 DEF CalmInv
<1>10. CASE RepairScan
  <2> DEFINE pend == {q \in Runs : "pending" \in left[q]}
             stale == {q \in Runs : left[q] \cap {"aborted", "old"} # {}}
  <2>1. /\ at'[Repair] = "pick" /\ rep' = [rep EXCEPT !.pend = pend, !.stale = stale \ pend]
        /\ left' = left /\ disk' = disk
    BY <1>1, <1>2, <1>10 DEF RepairScan, Goto, TypeOK
  <2>2. rep'.pend = pend /\ rep'.stale = stale \ pend
    BY <1>2, <2>1 DEF TypeOK
  <2>3. \A q \in Runs : q \in rep'.pend \cup rep'.stale => ~Clean(q)
    BY <1>2, <2>2 DEF Traces, MarksInStaging, Clean
  <2>4. \A q \in Runs : Busy(q)' => Busy(q)
    BY <1>8, <2>1, <2>3 DEF Busy, Clean, Working
  <2>5. \A q \in rep'.stale : q \in Runs /\ "pending" \notin left'[q]
    BY <2>1, <2>2
  <2>6. RecoveryMarks' /\ at'[Repair] \notin {"rename", "line"}
    BY <2>1 DEF RecoveryMarks
  <2> HIDE DEF pend, stale
  <2> QED
    BY <1>9, <2>1, <2>4, <2>5, <2>6
<1>11. CASE TakePending \/ TakeStale
  <2>1. PICK r \in rep.pend \cup rep.stale, legacy \in BOOLEAN :
          Take(r, legacy) /\ (legacy => r \in rep.stale)
    BY <1>11 DEF TakePending, TakeStale
  <2>2. r \in Runs /\ Busy(r)
    BY <1>2, <2>1 DEF TypeOK, Busy
  <2>3. /\ at[Repair] = "pick" /\ at'[Repair] = Decision(r, legacy)
        /\ rep' = [pend |-> rep.pend \ {r}, stale |-> rep.stale \ {r}, on |-> r, legacy |-> legacy]
        /\ left' = [left EXCEPT ![r] = IF Decision(r, legacy) = "pick" THEN @ \ {"pending"} ELSE @]
        /\ disk' = disk
    BY <1>1, <1>2, <2>1 DEF Take, Goto, TypeOK
  <2>4. \A q \in Runs : left'[q] = left[q]
                        \/ ("pending" \notin left'[q] /\ left'[q] \subseteq left[q])
    BY <1>2, <2>2, <2>3 DEF TypeOK
  <2>5. \A q \in Runs : Busy(q)' => Busy(q)
    <3>1. \A q \in Runs : Clean(q) => Clean(q)'
      BY <2>4 DEF Clean
    <3> QED
      BY <1>8, <2>2, <2>3, <3>1 DEF Busy, Working
  <2>6. \A q \in rep'.stale : q \in Runs /\ "pending" \notin left'[q]
    <3>1. \A q \in rep.stale : q \in Runs /\ "pending" \notin left[q]
      BY <1>2 DEF TypeOK, CalmInv
    <3>2. rep'.stale \subseteq rep.stale
      BY <2>3
    <3> QED
      BY <2>4, <3>1, <3>2
  <2>7. RecoveryMarks' /\ at'[Repair] \notin {"rename", "line"}
    <3>1. legacy => "pending" \notin left[r]
      BY <2>1 DEF CalmInv
    <3>2. rep'.on = r /\ rep'.legacy = legacy
      BY <2>3
    <3>3. Decision(r, legacy) # "pick" => left'[r] = left[r]
      BY <1>2, <2>2, <2>3 DEF TypeOK
    <3>4. /\ Decision(r, legacy) \in {"rollback", "open", "publish", "pick"}
          /\ Decision(r, legacy) = "rollback" => "aborted" \in left[r]
          /\ Decision(r, legacy) = "open" => "aborted" \notin left[r]
          /\ Decision(r, legacy) = "publish" => ~legacy /\ "sentinel" \in left[r] /\ "aborted" \notin left[r]
      BY <2>1 DEF Decision
    <3> QED
      BY <2>3, <3>1, <3>2, <3>3, <3>4 DEF RecoveryMarks
  <2> QED
    BY <1>9, <2>3, <2>4, <2>5, <2>6, <2>7
<1>12. CASE RepairEnds
  <2>1. at'[Repair] = "idle" /\ rep'.pend = {} /\ rep'.stale = {} /\ left' = left /\ disk' = disk
    BY <1>1, <1>2, <1>12 DEF RepairEnds, Goto, TypeOK
  <2>2. \A q \in Runs : Busy(q)' => Busy(q)
    BY <1>8, <2>1 DEF Busy, Clean, Working
  <2> QED
    BY <1>9, <2>1, <2>2 DEF RecoveryMarks
<1>13. CASE Rollback
  <2>1. /\ at[Repair] = "rollback" /\ at'[Repair] \in {"rollback", "sweep"} /\ left' = left /\ rep' = rep
    BY <1>1, <1>2, <1>13 DEF Rollback, Goto, TypeOK
  <2>2. PICK r \in Runs : r = rep.on
    BY <1>2, <2>1 DEF Traces, RepairKnows
  <2>3. Working(r) /\ Active(Repair) /\ "aborted" \in left[r]
    BY <1>2, <2>1, <2>2 DEF Working, Active, RecoveryMarks
  <2>4. \A q \in Runs : ~Publishable(q)
    <3>1. \A q \in Runs \ {r} : ~Publishable(q)
      BY <1>1, <2>3, Alone
    <3>2. ~Publishable(r)
      BY <1>7, <2>3 DEF Publishable, Active
    <3> QED
      BY <3>1, <3>2
  <2>5. \A q \in Runs : ~Publishable(q)'
    BY <1>4, <2>1, <2>4 DEF Publishable
  <2>6. \A q \in Runs : Busy(q)' => Busy(q)
    BY <1>8, <2>1 DEF Busy, Clean, Working
  <2>7. RecoveryMarks'
    BY <1>2, <2>1, <2>2, <2>3 DEF RecoveryMarks
  <2>8. \A q \in rep.stale : q \in Runs /\ "pending" \notin left[q]
    BY <1>2 DEF TypeOK, CalmInv
  <2> QED
    BY <1>9, <2>1, <2>5, <2>6, <2>7, <2>8
<1> QED
  BY <1>10, <1>11, <1>12, <1>13 DEF Recovery

\* A driver dies, or an old directory gets old.
LEMMA WorldCalm ==
  ASSUME JournalInv, CalmInv,
         (\E d \in Drivers : Crash(d)) \/ (\E r \in Runs : Age(r))
  PROVE  CalmInv'
<1>1. Repair \in Drivers /\ Runs \subseteq Drivers /\ Repair \notin Runs
  BY RunsAssumption DEF Drivers
<1>2. TypeOK /\ Traces /\ OneBusy /\ RecoveryMarks
  BY DEF JournalInv, CalmInv
<1>3. ASSUME NEW r \in Runs, Crash(r) PROVE CalmInv'
  <2>1. /\ Active(r) /\ Local(r, r) /\ at'[r] = "dead" /\ left'[r] = left[r] /\ staged'[r] = staged[r]
        /\ UNCHANGED <<disk, manifest, payload>>
    BY <1>1, <1>2, <1>3 DEF Crash, Goto, Local, TypeOK
  <2>2. Orderly(r)
    BY DEF CalmInv
  <2>3. IsPublished(r)' => Over(r)'
    BY <2>1, <2>2 DEF Orderly, IsPublished, Over
  <2>4. NothingMissing(r)'
    <3> SUFFICES ASSUME "pending" \in left[r], "aborted" \notin left[r] PROVE NothingMissing(r)'
      BY <2>1 DEF NothingMissing, Publishable
    <3>1. at[r] # "stage" /\ Publishable(r)
      BY <1>2 DEF Traces, EarlyClean, Publishable
    <3>2. Owed(r)' = Owed(r)
      BY <2>1, <3>1 DEF Owed
    <3> QED
      BY <2>1, <2>2, <3>1, <3>2 DEF Orderly, NothingMissing, InPlace
  <2>5. Orderly(r)'
    BY <2>1, <2>2, <2>3, <2>4 DEF Orderly, Sidecars, SentinelComplete
  <2>6. BatchFollows(r)'
    BY <2>1 DEF BatchFollows
  <2> QED
    BY <1>1, <2>1, <2>5, <2>6, CalmStep
<1>4. ASSUME Crash(Repair) PROVE CalmInv'
  <2>1. /\ at'[Repair] = "idle" /\ rep'.pend = {} /\ rep'.stale = {}
        /\ \A q \in Runs : at'[q] = at[q] /\ todo'[q] = todo[q]
        /\ UNCHANGED <<disk, manifest, left, staged, done, payload>>
    BY <1>1, <1>2, <1>4 DEF Crash, Goto, TypeOK
  <2>2. \A q \in Runs : ~Active(q)
    BY <1>2, <1>4 DEF Crash, OneBusy
  <2>3. OneBusy'
    BY <1>2, <2>1 DEF OneBusy, Busy, Active, Clean, Working
  <2>4. \A e \in Drivers : BatchFollows(e)'
    <3> SUFFICES ASSUME NEW e \in Drivers PROVE at'[e] \notin {"rename", "line"}
      BY DEF BatchFollows
    <3> QED
      BY <2>1, <2>2 DEF Drivers, Active
  <2>5. \A q \in Runs : Orderly(q)'
    BY <2>1 DEF CalmInv, Orderly, Sidecars, SentinelComplete, NothingMissing, Publishable, Owed, InPlace,
       IsPublished, Over
  <2> QED
    BY <2>1, <2>3, <2>4, <2>5 DEF CalmInv, RecoveryMarks
<1>5. ASSUME NEW r \in Runs, Age(r) PROVE CalmInv'
  <2>1. /\ ~Active(r) /\ left'[r] = left[r] \cup {"old"}
        /\ \A q \in Runs \ {r} : left'[q] = left[q]
        /\ UNCHANGED <<disk, manifest, staged, done, payload, at, todo, rep>>
    BY <1>2, <1>5 DEF Age, TypeOK
  <2>2. \A q \in Runs : left'[q] \ {"old"} = left[q] \ {"old"}
    BY <2>1
  <2>3. OneBusy'
    BY <1>2, <2>1, <2>2 DEF OneBusy, Busy, Active, Clean, Working
  <2>4. RecoveryMarks' /\ (\A q \in rep.stale : "pending" \notin left[q])'
    <3>1. at[Repair] \notin {"idle", "pick"} => rep.on \in Runs
      BY <1>2 DEF Traces, RepairKnows
    <3> QED
      BY <1>2, <2>1, <2>2, <3>1 DEF RecoveryMarks, CalmInv, TypeOK
  <2>5. \A e \in Drivers : BatchFollows(e)'
    BY <2>1 DEF CalmInv, BatchFollows, On
  <2>6. \A q \in Runs : Orderly(q)'
    <3> SUFFICES ASSUME NEW q \in Runs PROVE Orderly(q)'
      OBVIOUS
    <3>1. Orderly(q) /\ left'[q] \ {"old"} = left[q] \ {"old"} /\ (q = r => ~Active(q))
      BY <2>1, <2>2 DEF CalmInv
    <3>2. Sidecars(q)'
      BY <2>1, <3>1 DEF Orderly, Sidecars, Active
    <3>3. SentinelComplete(q)' /\ NothingMissing(q)' /\ (IsPublished(q)' => Over(q)')
      BY <2>1, <3>1 DEF Orderly, SentinelComplete, NothingMissing, Publishable, Owed, InPlace, IsPublished, Over
    <3> QED
      BY <3>2, <3>3 DEF Orderly
  <2> QED
    BY <2>3, <2>4, <2>5, <2>6 DEF CalmInv
<1> QED
  BY <1>3, <1>4, <1>5 DEF Drivers

\* The whole invariant: while the operator recovers before it goes on, one run at
\* most has left something, and what may still be published is complete or staged.
THEOREM InstallInvariant == Spec => []InstallInv
<1>1. Init => InstallInv
  <2> SUFFICES ASSUME Init PROVE CalmInv
    BY JournalInit DEF InstallInv
  <2> USE RunsAssumption DEF Init, Drivers
  <2>1. OneBusy /\ RecoveryMarks /\ \A d \in Drivers : BatchFollows(d)
    BY DEF OneBusy, Busy, Active, Clean, Working, RecoveryMarks, BatchFollows
  <2>2. \A r \in Runs : Orderly(r)
    BY DEF Orderly, Sidecars, SentinelComplete, NothingMissing, Publishable, IsPublished
  <2> QED
    BY <2>1, <2>2 DEF CalmInv
<1>2. InstallInv /\ [Next]_vars => InstallInv'
  <2> SUFFICES ASSUME InstallInv, [Next]_vars, strays' = 0 PROVE CalmInv'
    BY JournalNext DEF InstallInv
  <2>1. strays = 0
    <3>1. strays \in Nat
      BY BoundAssumption DEF InstallInv, JournalInv, TypeOK
    <3> SUFFICES strays' = strays \/ strays' = strays + 1
      BY <3>1
    <3>2. CASE \E r \in Runs : Run(r) \/ Age(r)
      BY <3>2 DEF Run, Age, InitRefused, InitBegins, InitForced, UpgradeBegins, MayBegin, Unless,
         ClearFile, ClearHarness, StageFile, WritePending, Merge, RewritePending, Discard, Record
    <3>3. CASE \E d \in Drivers : Batch(d) \/ BatchAbort(d) \/ Crash(d)
      BY <3>3 DEF Batch, BatchOpen, BatchRename, BatchVanished, BatchLine, BatchDone, BatchAbort,
         Publish, Sweep, Crash
    <3>4. CASE Recovery
      BY <3>4 DEF Recovery, RepairScan, Unless, TakePending, TakeStale, Take, RepairEnds, Rollback
    <3>5. CASE UNCHANGED vars
      BY <3>5 DEF vars
    <3> QED
      BY <3>2, <3>3, <3>4, <3>5 DEF Next
  <2>2. JournalInv /\ CalmInv
    BY <2>1 DEF InstallInv
  <2>3. ASSUME NEW r \in Runs, Run(r) PROVE CalmInv'
    BY <2>2, <2>3, BeginCalm, RunCalm, ClearCalm DEF Run
  <2>4. ASSUME NEW d \in Drivers, Batch(d) \/ BatchAbort(d) PROVE CalmInv'
    BY <2>2, <2>4, RenameCalm, CloseCalm DEF Batch
  <2>5. CASE (\E d \in Drivers : Crash(d)) \/ (\E r \in Runs : Age(r))
    BY <2>2, <2>5, WorldCalm
  <2>6. CASE Recovery
    BY <2>2, <2>6, RecoveryCalm
  <2>7. CASE UNCHANGED vars
    BY <2>2, <2>7 DEF vars, CalmInv, OneBusy, Busy, Active, Clean, Working, RecoveryMarks,
       BatchFollows, On, Orderly, Sidecars, SentinelComplete, NothingMissing, Publishable, Owed, InPlace,
       IsPublished, Over
  <2> QED
    BY <2>3, <2>4, <2>5, <2>6, <2>7 DEF Next
<1> QED
  BY <1>1, <1>2, PTL DEF Spec

\* Whoever publishes a manifest, every file it names is on the target as it says.
THEOREM PublishTheorem == Spec => PublishComplete
<1> DEFINE Step == strays = 0 /\ manifest' \notin {manifest, None} => Described(manifest')
<1>1. InstallInv /\ [Next]_vars => [Step]_vars
  <2> SUFFICES ASSUME InstallInv, Next, strays = 0, manifest' \notin {manifest, None}
               PROVE  Described(manifest')
    OBVIOUS
  <2>1. JournalInv /\ CalmInv
    BY DEF InstallInv
  <2>2. (\E d \in Drivers : Publish(d)) \/ (\E r \in Runs : Record(r))
    BY DEF Next, Run, Age, Batch, Recovery, InitRefused, InitBegins, InitForced,
       UpgradeBegins, ClearFile, ClearHarness, StageFile, WritePending, Merge, RewritePending,
       Discard, BatchOpen, BatchRename, BatchVanished, BatchLine, BatchDone, BatchAbort,
       Sweep, Crash, RepairScan, TakePending, TakeStale, Take, RepairEnds, Rollback
  <2>3. ASSUME NEW d \in Drivers, Publish(d) PROVE Described(manifest')
    <3>1. at[d] = "publish" /\ "pending" \in left[On(d)] /\ manifest' = payload[On(d)]
      BY <2>3 DEF Publish
    <3>2. PICK r \in Runs : r = On(d) /\ IF d = Repair THEN Working(r) ELSE r = d
      BY <2>1, <3>1, OnRun DEF Moving
    <3>3. Orderly(r) /\ RecoveryMarks
      BY <2>1 DEF CalmInv
    <3>4. "sentinel" \in left[r] /\ "aborted" \notin left[r]
      BY <3>1, <3>2, <3>3 DEF Orderly, Sidecars, RecoveryMarks, Working
    <3>5. staged[r] = {} /\ Publishable(r)
      BY <3>1, <3>2, <3>3, <3>4 DEF Orderly, SentinelComplete, Publishable
    <3>6. at[r] # "stage"
      BY <2>1, <3>1, <3>2 DEF JournalInv, Traces, EarlyClean
    <3>7. \A f \in Files : InPlace(f, payload[r])
      BY <3>3, <3>5, <3>6 DEF Orderly, NothingMissing, Owed
    <3> QED
      BY <3>1, <3>2, <3>7 DEF Described, InPlace
  <2>4. ASSUME NEW r \in Runs, Record(r) PROVE Described(manifest')
    <3>1. at[r] = "record" /\ manifest' = Patched(r)[r]
      BY <2>4 DEF Record
    <3>2. payload[r] \in Records
      BY <2>1, <3>1 DEF JournalInv, TypeOK, Traces, RecordComposed
    <3>3. \A f \in Files \ {Roomodes} : Patched(r)[r].hash[f] = payload[r].hash[f]
      BY <2>1, <3>2, PatchedRecord DEF JournalInv
    <3>4. Orderly(r)
      BY <2>1 DEF CalmInv
    <3>5. staged[r] = {}
      BY <3>1, <3>4 DEF Orderly, Sidecars
    <3>6. \A f \in Files : InPlace(f, payload[r])
      BY <3>1, <3>4, <3>5 DEF Orderly, NothingMissing, Publishable, Owed
    <3> QED
      BY <3>1, <3>3, <3>6 DEF Described, InPlace
  <2> QED
    BY <2>2, <2>3, <2>4
<1> QED
  BY <1>1, InstallInvariant, PTL DEF Spec, PublishComplete

\* A rollback does not take away what the installed manifest describes.
THEOREM RollbackTheorem == Spec => RollbackSparesPublished
<1> DEFINE Step == \A f \in Files : /\ at[Repair] = "rollback"
                                    /\ disk[f] # Absent /\ disk'[f] = Absent /\ strays = 0
                                    => manifest = None \/ manifest.run # rep.on
<1>1. InstallInv => [Step]_vars
  <2> SUFFICES ASSUME InstallInv, at[Repair] = "rollback", strays = 0, IsPublished(rep.on) PROVE FALSE
    BY DEF IsPublished
  <2>1. rep.on \in Runs /\ RecoveryMarks /\ \A r \in Runs : Orderly(r)
    BY DEF InstallInv, JournalInv, CalmInv, Traces, RepairKnows
  <2> QED
    BY <2>1 DEF RecoveryMarks, Orderly, Over
<1> QED
  BY <1>1, InstallInvariant, PTL DEF Spec, RollbackSparesPublished

=============================================================================
