------------------------- MODULE TargetFilesProofs ---------------------------
(***************************************************************************)
(* What the commands leave of the user's text, and where a run that is not *)
(* disturbed leads, for any files and releases, any number of edits and    *)
(* any number of commands.                                                 *)
(*                                                                         *)
(* The argument.  A path keeps its policy, so what is staged is never a    *)
(* file with a block, and a record tells the kind of its file.  A file the *)
(* run has looked at and the user has not touched since is as the run saw  *)
(* it.  The text of a harness-owned file that agrees with its record is    *)
(* the release's, or there is a copy of it; so the comparison with the     *)
(* record is enough to know when a copy is needed.  (KindInv, TextInv.)    *)
(*                                                                         *)
(* The record of a file that nobody touched tells the truth: its hashes    *)
(* are those of the disk, and of the source it was taken from.  A file the *)
(* run is done with is where the release has it, or staged to be there     *)
(* when the run ends; so at the end nothing is left to do, and neither the *)
(* hash check nor check has a complaint.  (RunInv.)                        *)
(***************************************************************************)
EXTENDS TargetFiles, TLAPS

\* A record tells the kind of its file: append blocks of old are "managed".
Kind(f, info) ==
  info # None =>
    IF info.policy = "managed" THEN HasBlock(f)
    ELSE info.policy # "none" /\ \E v \in Releases : Policy[v][f] = info.policy

\* The records, and what the run at work goes by.
Kinds ==
  /\ \A f \in Files : Kind(f, rec[f])
  /\ release = 0 => rec = NoRecords
  /\ run # Idle =>
       /\ \A f \in Files : Kind(f, run.rec[f])
       /\ \A f \in run.staged : Policy[run.v][f] = "owned"
       /\ run.kind = "init" => run.rec = NoRecords
       /\ \A f \in Files : run.rec[f] # None /\ run.rec[f].policy = "managed" =>
                             rec[f] # None /\ rec[f].policy = "managed"

KindInv == TypeOK /\ Kinds

-----------------------------------------------------------------------------
(* Where the text of the user is.                                          *)

Copies(f) == UNION {UserTexts(s.content) : s \in {c \in saved : c.file = f}}
Safe(f) == UserTexts(disk[f]) \subseteq Copies(f)

\* A text of the user is older than the next one, and blocks are only in files
\* that have one.
Old(c) == c # Absent => c.text >= 0 - edits
Texture(f) == Old(disk[f]) /\ (Exists(f) /\ ~HasBlock(f) => disk[f].block >= 0)

\* What a record says of a file the user has not edited behind a run.
Telling(f, info) ==
  info # None =>
    /\ Old(info.hash)
    /\ f \notin late =>
         /\ info.policy = "managed" => info.hash # Absent /\ info.hash.text > 0 /\ info.hash.block = NoBlock
         /\ info.policy \in {"append", "managed"} => info.applied >= 0
         /\ info.policy = "owned" /\ Exists(f) /\ info.hash # Absent /\ disk[f].text = info.hash.text
              => Safe(f)

\* What a run has made sure of.
Seen(f) ==
  f \notin late =>
    /\ run.kind = "init" /\ Policy[run.v][f] = "owned" => ~Exists(f) /\ f \in run.todo \cup run.staged
    /\ run.kind = "init" /\ Policy[run.v][f] = "append" /\ f \notin run.todo /\ Exists(f) =>
         disk[f].block >= 0
    /\ run.kind = "adopt" /\ run.force /\ Policy[run.v][f] = "owned" => Safe(f)
    /\ f \in run.staged \ run.uncopied /\ (~run.force \/ run.kind = "adopt") => Safe(f)
    /\ f \notin run.todo \cup run.staged /\ run.rec[f] # None /\ run.rec[f].policy = "owned" => Safe(f)

Told(f) ==
  /\ Texture(f) /\ Telling(f, rec[f])
  /\ run # Idle => Telling(f, run.rec[f]) /\ Seen(f)

TextInv == KindInv /\ \A f \in Files : Told(f)

-----------------------------------------------------------------------------
(* What has been done, and what nobody disturbed.                          *)

\* The hash of a harness-owned file is that of its source, but for .roomodes.
Hashed(f, info) ==
  info # None /\ info.policy \in Owned /\ f # Roomodes =>
    info.hash = [text |-> info.src, block |-> NoBlock]

\* A file that the run is done with, without a conflict, is as the release has
\* it or about to be, and is recorded so.
Arrived(f) ==
  f \notin run.todo \cup run.conflicts \cup late =>
    CASE Policy[run.v][f] = "owned" ->
           \/ f \in run.staged
           \/ /\ run.kind # "init" /\ Exists(f) /\ run.rec[f] # None
              /\ disk[f] = run.rec[f].hash /\ run.rec[f].src = Src[run.v][f]
      [] Policy[run.v][f] = "append" ->
           /\ Exists(f) /\ disk[f].block \in Releases
           /\ Src[disk[f].block][f] = Src[run.v][f]
           /\ run.kind # "init" => /\ run.rec[f] # None /\ run.rec[f].policy = "append"
                                   /\ run.rec[f].applied = disk[f].block
      [] Policy[run.v][f] = "none" ->
           run.rec[f] = None \/ run.rec[f].policy \in {"project", "seed"}
      [] OTHER -> TRUE

\* A record of a file as it is.
Calm(f, info) ==
  info # None =>
    /\ info.policy # "project" => Exists(f)
    /\ info.policy \in Owned => disk[f] = info.hash /\ disk[f] = info.installed
    /\ info.policy = "append" => disk[f].block = info.applied /\ info.applied \notin {NoBlock, Broken}

\* What is so of a file that nobody has edited, as long as no run was cut short.
Untouched(f) == ~interrupted /\ f # Roomodes /\ f \notin touched
Undisturbed(f) ==
  Untouched(f) =>
    IF run = Idle THEN Calm(f, rec[f])
    ELSE /\ rec[f] # None => f \notin run.conflicts \cup run.backups
         /\ f \in run.conflicts => run.rec[f] = None
         /\ run.kind = "upgrade" /\ f \in run.todo => run.rec[f] = rec[f]
         /\ run.kind = "adopt" => rec[f] = None
         /\ f \notin run.staged => Calm(f, run.rec[f])

Done(f) ==
  /\ Hashed(f, rec[f])
  /\ run # Idle =>
       /\ Hashed(f, run.rec[f]) /\ Arrived(f)
       /\ f \in run.staged /\ run.kind # "init" =>
            run.rec[f] = State(run.v, f, Template(run.v, f), NoBlock)
       /\ run.kind = "init" /\ Policy[run.v][f] = "owned" => f \in run.todo \cup run.staged
  /\ Undisturbed(f)

RunInv == KindInv /\ \A f \in Files : Done(f)

-----------------------------------------------------------------------------
(* Facts about the operators.                                              *)

\* The contents are what they look like.
LEMMA Contents ==
  /\ Content = [text : Int, block : Int] /\ Absent \notin Content
  /\ \A v \in Releases, f \in Files : Template(v, f) \in Content /\ Template(v, f).text > 0
                                      /\ Template(v, f).block = NoBlock
  /\ \A c \in Content, b \in Int : BlockOf(b, c) \in Content /\ BlockOf(b, c).text = c.text
                                   /\ BlockOf(b, c).block = b
<1>1. Content = [text : Int, block : Int] /\ Absent \notin Content
  BY ValuesAssumption DEF Content
<1>2. ASSUME NEW v \in Releases, NEW f \in Files
      PROVE  Template(v, f) \in Content /\ Template(v, f).text > 0 /\ Template(v, f).block = NoBlock
  <2>1. Src[v][f] \in Nat \ {0}
    BY ReleasesAssumption
  <2> QED
    BY <2>1 DEF Template, Content, NoBlock
<1>3. ASSUME NEW c \in Content, NEW b \in Int
      PROVE  BlockOf(b, c) \in Content /\ BlockOf(b, c).text = c.text /\ BlockOf(b, c).block = b
  BY DEF BlockOf, Content
<1> QED
  BY <1>1, <1>2, <1>3

\* State makes a record, of the policy of the release.
LEMMA StateIsRecord ==
  ASSUME NEW v \in Releases, NEW f \in Files, NEW c \in Texts, NEW a \in Int
  PROVE  /\ State(v, f, c, a) \in FileRecords
         /\ State(v, f, c, a).policy = Policy[v][f] /\ State(v, f, c, a).hash = c
         /\ State(v, f, c, a).applied = a /\ State(v, f, c, a).policy # "managed"
         /\ State(v, f, c, a).src = Src[v][f] /\ State(v, f, c, a).installed = Template(v, f)
<1>1. Policy[v][f] \in Policies /\ Src[v][f] \in Nat
  BY ReleasesAssumption
<1>2. "managed" \notin Policies
  BY DEF Policies
<1> QED
  BY <1>1, <1>2, Contents DEF State, FileRecords

\* A path with a block is never the harness's own.
LEMMA BlockKind ==
  ASSUME NEW f \in Files, NEW info, Kind(f, info), info # None
  PROVE  /\ HasBlock(f) => info.policy \in {"append", "managed"}
         /\ info.policy \in {"append", "managed"} => HasBlock(f)
         /\ \A v \in Releases : Policy[v][f] = "owned" => ~HasBlock(f) /\ info.policy = "owned"
         /\ info.policy = "owned" => \A v \in Releases : Policy[v][f] \in {"owned", "none"}
         /\ \A v \in Releases :
              Policy[v][f] \in {"none", IF info.policy = "managed" THEN "append" ELSE info.policy}
<1>1. \A v, w \in Releases : Policy[v][f] # Policy[w][f] => "none" \in {Policy[v][f], Policy[w][f]}
  BY PolicyAssumption
<1>2. CASE info.policy = "managed"
  <2>1. PICK w \in Releases : Policy[w][f] = "append"
    BY <1>2 DEF Kind, HasBlock
  <2>2. HasBlock(f) /\ \A v \in Releases : Policy[v][f] \in {"append", "none"}
    BY <1>1, <2>1 DEF HasBlock
  <2> QED
    BY <1>2, <2>2
<1>3. CASE info.policy # "managed"
  <2>1. PICK w \in Releases : Policy[w][f] = info.policy /\ info.policy # "none"
    BY <1>3 DEF Kind
  <2>2. \A v \in Releases : Policy[v][f] \in {info.policy, "none"}
    BY <1>1, <2>1
  <2> QED
    BY <1>3, <2>1, <2>2 DEF HasBlock
<1> QED
  BY <1>2, <1>3

\* What plan_managed_append answers when there is no conflict.
LEMMA AppendPlan ==
  ASSUME NEW v \in Releases, NEW f \in Files, NEW info \in FileRecords \cup {None},
         disk[f] \in Texts, ~PlanAppend(v, f, info).conflict
  PROVE  LET plan == PlanAppend(v, f, info)
         IN /\ plan.content \in Content /\ plan.applied \in Releases
            /\ plan.content.block = plan.applied /\ Src[plan.applied][f] = Src[v][f]
            /\ Exists(f) =>
                 /\ \/ disk[f].block = NoBlock
                    \/ disk[f].block = IF AppliedOf(info) = NoBlock THEN v ELSE AppliedOf(info)
                 /\ \/ plan.content.text = disk[f].text
                    \/ info # None /\ info.policy = "managed" /\ disk[f] = info.hash
            /\ plan.content.text = 0 \/ (Exists(f) /\ plan.content.text = disk[f].text)
<1> DEFINE c == disk[f]
           plan == PlanAppend(v, f, info)
           new == [text |-> 0, block |-> v]
<1>1. v \in Nat \ {0} /\ Releases \subseteq Nat \ {0} /\ Releases \subseteq Int
  BY ReleasesAssumption
<1>2. new \in Content /\ new.block = v /\ new.text = 0
  BY <1>1 DEF Content
<1>3. c # Absent => c \in Content
  BY DEF Texts
<1>4. CASE c = Absent
  <2>1. plan = Result(new, v)
    BY <1>4 DEF PlanAppend
  <2> QED
    BY <1>2, <1>4, <2>1 DEF Result, Exists
<1>4a. Broken # NoBlock
  BY BoundsAssumption DEF Broken, NoBlock
<1>5. CASE c # Absent /\ c.block = Broken
  <2>1. plan = Conflict
    BY <1>5, <1>4a DEF PlanAppend
  <2> QED
    BY <2>1 DEF Conflict
<1>6. CASE c # Absent /\ c.block = NoBlock
  <2>1. CASE info = None \/ info.policy # "managed"
    <3>1. plan = Result(BlockOf(v, c), v)
      BY <1>6, <1>4a, <2>1 DEF PlanAppend
    <3>2. BlockOf(v, c) \in Content /\ BlockOf(v, c).text = c.text /\ BlockOf(v, c).block = v
      BY <1>1, <1>3, <1>6, Contents
    <3>3. plan.content = BlockOf(v, c) /\ plan.applied = v
      BY <3>1 DEF Result
    <3> QED
      BY <1>6, <3>2, <3>3 DEF Exists
  <2>2. CASE ~(info = None \/ info.policy # "managed") /\ c = info.hash
    <3>1. plan = Result(new, v)
      BY <1>6, <1>4a, <2>2 DEF PlanAppend
    <3> QED
      BY <1>2, <1>6, <2>2, <3>1 DEF Result
  <2>3. CASE ~(info = None \/ info.policy # "managed") /\ c # info.hash
    <3>1. plan = Conflict
      BY <1>6, <1>4a, <2>3 DEF PlanAppend
    <3> QED
      BY <3>1 DEF Conflict
  <2> QED
    BY <2>1, <2>2, <2>3
<1>7. CASE c # Absent /\ c.block \notin {Broken, NoBlock}
  <2> DEFINE expected == IF AppliedOf(info) = NoBlock THEN v ELSE AppliedOf(info)
  <2>1. CASE c.block # expected
    <3>1. plan = Conflict
      BY <1>7, <2>1 DEF PlanAppend
    <3> QED
      BY <3>1 DEF Conflict
  <2>2. CASE c.block = expected /\ c.block \in Releases /\ Src[c.block][f] = Src[v][f]
    <3>1. plan = Result(c, c.block)
      BY <1>7, <2>2 DEF PlanAppend
    <3> QED
      BY <1>3, <1>7, <2>2, <3>1 DEF Result, Exists
  <2>3. CASE c.block = expected /\ ~(c.block \in Releases /\ Src[c.block][f] = Src[v][f])
    <3>1. plan = Result(BlockOf(v, c), v)
      BY <1>7, <2>3 DEF PlanAppend
    <3>2. BlockOf(v, c) \in Content /\ BlockOf(v, c).text = c.text /\ BlockOf(v, c).block = v
      BY <1>1, <1>3, <1>7, Contents
    <3>3. plan.content = BlockOf(v, c) /\ plan.applied = v
      BY <3>1 DEF Result
    <3> QED
      BY <1>7, <2>3, <3>2, <3>3 DEF Exists
  <2> QED
    BY <2>1, <2>2, <2>3
<1> QED
  BY <1>4, <1>5, <1>6, <1>7

\* What plan_managed_append_retirement answers when there is no conflict.
LEMMA RetirementPlan ==
  ASSUME NEW f \in Files, NEW info \in FileRecords, disk[f] \in Texts,
         ~PlanRetirement(f, info).conflict
  PROVE  LET c == PlanRetirement(f, info).content
         IN /\ c \in Texts
            /\ disk[f] = Absent => c = Absent
            /\ Exists(f) => /\ c \in Content /\ c.text = disk[f].text /\ c.block = NoBlock
                            /\ disk[f].block \in {NoBlock, info.applied}
<1>1. CASE disk[f] = Absent
  <2>1. PlanRetirement(f, info) = Result(Absent, NoBlock)
    BY <1>1 DEF PlanRetirement
  <2> QED
    BY <1>1, <2>1 DEF Result, Exists, Texts
<1>2. CASE disk[f] # Absent /\ disk[f].block = NoBlock
  <2>1. PlanRetirement(f, info) = Result(disk[f], NoBlock)
    BY <1>2 DEF PlanRetirement
  <2> QED
    BY <1>2, <2>1 DEF Result, Exists, Texts
<1>3. CASE /\ disk[f] # Absent /\ disk[f].block # NoBlock
           /\ disk[f].block = Broken \/ info.applied = NoBlock \/ disk[f].block # info.applied
  <2>1. PlanRetirement(f, info) = Conflict
    BY <1>3 DEF PlanRetirement
  <2> QED
    BY <2>1 DEF Conflict
<1>4. CASE /\ disk[f] # Absent /\ disk[f].block # NoBlock
           /\ ~(disk[f].block = Broken \/ info.applied = NoBlock \/ disk[f].block # info.applied)
  <2>1. PlanRetirement(f, info) = Result(BlockOf(NoBlock, disk[f]), NoBlock)
    BY <1>4 DEF PlanRetirement
  <2>2. NoBlock \in Int /\ disk[f] \in Content
    BY <1>4 DEF NoBlock, Texts
  <2>3. PlanRetirement(f, info).content = BlockOf(NoBlock, disk[f])
    BY <2>1 DEF Result
  <2> QED
    BY <1>4, <2>2, <2>3, Contents DEF Texts
<1> QED
  BY <1>1, <1>2, <1>3, <1>4

-----------------------------------------------------------------------------
(* What each action does, and that types and kinds stay.                   *)

\* A file of a run: only that file changes, and its record and its place in the
\* run's lists.
FileEffect(f) ==
  /\ disk' \in [Files -> Texts] /\ \A g \in Files \ {f} : disk'[g] = disk[g]
  /\ UNCHANGED <<rec, release, modes, edits, commands, touched, late>>
  /\ run # Idle /\ run \in RunStates /\ f \in run.todo
  /\ \/ run' = Idle /\ interrupted' = TRUE
     \/ /\ interrupted' = interrupted /\ run' \in RunStates
        /\ run'.kind = run.kind /\ run'.v = run.v /\ run'.force = run.force /\ run'.modes = run.modes
        /\ run'.todo = run.todo \ {f}
        /\ run'.staged = run.staged \/ (run'.staged = run.staged \cup {f} /\ Policy[run.v][f] = "owned")
        /\ run'.conflicts \in {run.conflicts, run.conflicts \cup {f}}
        /\ run'.backups \in {run.backups, run.backups \cup {f}} /\ run.uncopied \subseteq run'.uncopied
        /\ \A g \in Files \ {f} : run'.rec[g] = run.rec[g]
        /\ \/ run'.rec[f] \in {run.rec[f], None}
           \/ /\ run.kind # "init" /\ run'.rec[f].policy = Policy[run.v][f]
              /\ Policy[run.v][f] \in {"owned", "append", "project"}

\* The copies a file step makes are of that file.
Copied(f) ==
  \/ saved' = saved
  \/ \E how \in {"backup", "retired"}, c \in Content :
       /\ \A s \in saved' : s \in saved \/ s = [file |-> f, how |-> how, content |-> c]
       /\ \A s \in saved : s.file # f \/ how = "backup" => s \in saved'

\* The shape of a run, for a file it has to look at.
LEMMA Looking ==
  ASSUME TypeOK, NEW f \in Files, Pending(f)
  PROVE  /\ run # Idle /\ run \in RunStates /\ f \in run.todo /\ run.v \in Releases
         /\ run.rec \in [Files -> FileRecords \cup {None}] /\ run.rec[f] \in FileRecords \cup {None}
         /\ Policy[run.v][f] \in Policies /\ disk[f] \in Texts
<1>1. run # Idle /\ run \in RunStates /\ f \in run.todo
  BY DEF TypeOK, Pending
<1>2. run.v \in Releases /\ run.rec \in [Files -> FileRecords \cup {None}]
  BY <1>1 DEF RunStates
<1>3. Policy[run.v][f] \in Policies
  <2>1. Policy[run.v] \in [Files -> Policies]
    BY <1>2, ReleasesAssumption
  <2> QED
    BY <2>1
<1>4. disk[f] \in Texts
  BY DEF TypeOK
<1>5. run.rec[f] \in FileRecords \cup {None}
  BY <1>2
<1> QED
  BY <1>1, <1>2, <1>3, <1>4, <1>5

\* init looks at a file.
LEMMA InitFileEffect ==
  ASSUME KindInv, NEW f \in Files, InitFile(f)
  PROVE  FileEffect(f) /\ Copied(f)
<1> DEFINE p == Policy[run.v][f]
           plan == PlanAppend(run.v, f, None)
<1>1. Pending(f) /\ run.kind = "init" /\ UNCHANGED <<rec, release, modes, saved, edits, commands, touched, late>>
  BY DEF InitFile
<1>2. /\ run # Idle /\ run \in RunStates /\ f \in run.todo /\ run.v \in Releases
      /\ run.rec \in [Files -> FileRecords \cup {None}] /\ disk[f] \in Texts
      /\ disk \in [Files -> Texts]
  BY <1>1, Looking DEF KindInv, TypeOK
<1>3. Copied(f)
  BY <1>1 DEF Copied
<1>4. CASE p = "append" /\ plan.conflict
  <2>1. run' = Idle /\ disk' = disk /\ interrupted' = TRUE
    BY <1>4 DEF InitFile
  <2> QED
    BY <1>1, <1>2, <1>3, <2>1 DEF FileEffect
<1>5. CASE ~(p = "append" /\ plan.conflict)
  <2>1. /\ run' = [run EXCEPT !.todo = @ \ {f}, !.staged = IF p = "owned" THEN @ \cup {f} ELSE @]
        /\ interrupted' = interrupted
    BY <1>5 DEF InitFile
  <2>2. /\ run' \in RunStates
        /\ run'.kind = run.kind /\ run'.v = run.v /\ run'.force = run.force
        /\ run'.modes = run.modes /\ run'.todo = run.todo \ {f}
        /\ run'.backups \in {run.backups, run.backups \cup {f}} /\ run.uncopied \subseteq run'.uncopied
        /\ run'.staged = (IF p = "owned" THEN run.staged \cup {f} ELSE run.staged)
        /\ run'.conflicts = run.conflicts /\ run'.rec = run.rec
    BY <1>2, <2>1 DEF RunStates
  <2>3. disk' \in [Files -> Texts] /\ \A g \in Files \ {f} : disk'[g] = disk[g]
    <3>1. CASE p = "append"
      <4>1. plan.content \in Texts
        BY <1>2, <1>5, <3>1, AppendPlan DEF Texts
      <4>2. disk' = [disk EXCEPT ![f] = plan.content]
        BY <1>5, <3>1 DEF InitFile
      <4> HIDE DEF plan
      <4> QED
        BY <1>2, <4>1, <4>2
    <3>2. CASE p \in {"project", "seed"} /\ ~Exists(f)
      <4>1. disk' = [disk EXCEPT ![f] = Template(run.v, f)]
        BY <1>5, <3>2 DEF InitFile
      <4> QED
        BY <1>2, <4>1, Contents DEF Texts
    <3>3. CASE p # "append" /\ ~(p \in {"project", "seed"} /\ ~Exists(f))
      <4>1. disk' = disk
        BY <1>5, <3>3 DEF InitFile
      <4> QED
        BY <1>2, <4>1
    <3> QED
      BY <3>1, <3>2, <3>3
  <2> QED
    BY <1>1, <1>2, <1>3, <2>1, <2>2, <2>3 DEF FileEffect
<1> QED
  BY <1>4, <1>5

\* What upgrade keeps, stages or merges.
LEMMA UpgradeFileEffect ==
  ASSUME KindInv, NEW f \in Files, AppendFile(f) \/ KeepOwned(f) \/ StageOwned(f)
  PROVE  FileEffect(f) /\ Copied(f)
<1>1. /\ Pending(f) /\ run.kind # "init"
      /\ UNCHANGED <<rec, release, modes, edits, commands, touched, late, interrupted>>
  BY DEF AppendFile, KeepOwned, StageOwned, Upgrading
<1>2. /\ run # Idle /\ run \in RunStates /\ f \in run.todo /\ run.v \in Releases
      /\ run.rec \in [Files -> FileRecords \cup {None}] /\ run.rec[f] \in FileRecords \cup {None}
      /\ disk[f] \in Texts /\ disk \in [Files -> Texts]
  BY <1>1, Looking DEF KindInv, TypeOK
<1>3. CASE AppendFile(f)
  <2> DEFINE plan == PlanAppend(run.v, f, Info(f))
             new == State(run.v, f, plan.content, plan.applied)
  <2>1. saved' = saved /\ Policy[run.v][f] = "append"
    BY <1>3 DEF AppendFile
  <2>2. CASE plan.conflict
    <3>1. disk' = disk /\ run' = [run EXCEPT !.todo = @ \ {f}, !.conflicts = @ \cup {f}]
      BY <1>3, <2>2 DEF AppendFile, Aside
    <3>2. /\ run' \in RunStates
          /\ run'.kind = run.kind /\ run'.v = run.v /\ run'.force = run.force
          /\ run'.modes = run.modes /\ run'.todo = run.todo \ {f}
          /\ run'.backups \in {run.backups, run.backups \cup {f}} /\ run.uncopied \subseteq run'.uncopied
          /\ run'.staged = run.staged /\ run'.conflicts = run.conflicts \cup {f} /\ run'.rec = run.rec
      BY <1>2, <3>1 DEF RunStates
    <3> QED
      BY <1>1, <1>2, <2>1, <3>1, <3>2 DEF FileEffect, Copied
  <2>3. CASE ~plan.conflict
    <3>1. disk' = [disk EXCEPT ![f] = plan.content]
          /\ run' = [run EXCEPT !.todo = @ \ {f}, !.rec = [run.rec EXCEPT ![f] = new]]
      BY <1>3, <2>3 DEF AppendFile, Handled, Recorded
    <3>2. plan.content \in Texts /\ plan.applied \in Int
      <4>1. Info(f) = run.rec[f]
        BY DEF Info
      <4>2. plan.content \in Content /\ plan.applied \in Releases
        BY <1>2, <2>3, <4>1, AppendPlan
      <4>3. Releases \subseteq Int
        BY ReleasesAssumption
      <4> QED
        BY <4>2, <4>3 DEF Texts
    <3>3. new \in FileRecords /\ new.policy = Policy[run.v][f]
      BY <1>2, <3>2, StateIsRecord
    <3> HIDE DEF plan, new
    <3>4. /\ run' \in RunStates
          /\ run'.kind = run.kind /\ run'.v = run.v /\ run'.force = run.force
          /\ run'.modes = run.modes /\ run'.todo = run.todo \ {f}
          /\ run'.backups \in {run.backups, run.backups \cup {f}} /\ run.uncopied \subseteq run'.uncopied
          /\ run'.staged = run.staged /\ run'.conflicts = run.conflicts
          /\ run'.rec = [run.rec EXCEPT ![f] = new]
      BY <1>2, <3>1, <3>3 DEF RunStates
    <3>5. disk' \in [Files -> Texts] /\ \A g \in Files \ {f} : disk'[g] = disk[g]
      BY <1>2, <3>1, <3>2
    <3> QED
      BY <1>1, <1>2, <2>1, <3>3, <3>4, <3>5 DEF FileEffect, Copied
  <2> QED
    BY <2>2, <2>3
<1>4. CASE KeepOwned(f)
  <2>1. disk' = disk /\ saved' = saved /\ run' = [run EXCEPT !.todo = @ \ {f}, !.rec = run.rec]
    BY <1>4 DEF KeepOwned, Handled
  <2>2. /\ run' \in RunStates
        /\ run'.kind = run.kind /\ run'.v = run.v /\ run'.force = run.force
        /\ run'.modes = run.modes /\ run'.todo = run.todo \ {f}
        /\ run'.backups \in {run.backups, run.backups \cup {f}} /\ run.uncopied \subseteq run'.uncopied
        /\ run'.staged = run.staged /\ run'.conflicts = run.conflicts /\ run'.rec = run.rec
    BY <1>2, <2>1 DEF RunStates
  <2> QED
    BY <1>1, <1>2, <2>1, <2>2 DEF FileEffect, Copied
<1>5. CASE StageOwned(f)
  <2> DEFINE new == State(run.v, f, Template(run.v, f), NoBlock)
  <2>1. PICK fails \in {FALSE, Modified(f)} :
          /\ disk' = disk /\ Policy[run.v][f] = "owned"
          /\ saved' = IF Modified(f) /\ ~fails
                      THEN saved \cup {[file |-> f, how |-> "backup", content |-> disk[f]]} ELSE saved
          /\ run' = [run EXCEPT !.todo = @ \ {f}, !.staged = @ \cup {f},
                       !.backups = IF Modified(f) THEN @ \cup {f} ELSE @,
                       !.uncopied = IF fails THEN @ \cup {f} ELSE @, !.rec[f] = new]
    BY <1>5 DEF StageOwned
  <2>2. new \in FileRecords /\ new.policy = Policy[run.v][f]
    BY <1>2, StateIsRecord, Contents DEF Texts, NoBlock
  <2> HIDE DEF new
  <2>3. /\ run' \in RunStates
        /\ run'.kind = run.kind /\ run'.v = run.v /\ run'.force = run.force
        /\ run'.modes = run.modes /\ run'.todo = run.todo \ {f}
        /\ run'.backups \in {run.backups, run.backups \cup {f}} /\ run.uncopied \subseteq run'.uncopied
        /\ run'.staged = run.staged \cup {f} /\ run'.conflicts = run.conflicts
        /\ run'.rec = [run.rec EXCEPT ![f] = new]
    BY <1>2, <2>1, <2>2 DEF RunStates
  <2>4. Copied(f)
    <3>1. CASE Modified(f) /\ ~fails
      <4>1. saved' = saved \cup {[file |-> f, how |-> "backup", content |-> disk[f]]}
        BY <2>1, <3>1
      <4>2. disk[f] \in Content
        BY <1>2, <3>1 DEF Modified, Exists, Texts
      <4> QED
        BY <4>1, <4>2 DEF Copied
    <3>2. CASE ~(Modified(f) /\ ~fails)
      BY <2>1, <3>2 DEF Copied
    <3> QED
      BY <3>1, <3>2
  <2> QED
    BY <1>1, <1>2, <2>1, <2>2, <2>3, <2>4 DEF FileEffect
<1> QED
  BY <1>3, <1>4, <1>5

\* What a release no longer ships, and the rest.
LEMMA RetiredFileEffect ==
  ASSUME KindInv, NEW f \in Files, RetireBlock(f) \/ RetireFile(f) \/ OtherFile(f)
  PROVE  FileEffect(f) /\ Copied(f)
<1>1. /\ Pending(f) /\ run.kind # "init"
      /\ UNCHANGED <<rec, release, modes, edits, commands, touched, late, interrupted>>
  BY DEF RetireBlock, RetireFile, OtherFile, Upgrading
<1>2. /\ run # Idle /\ run \in RunStates /\ f \in run.todo /\ run.v \in Releases
      /\ run.rec \in [Files -> FileRecords \cup {None}] /\ run.rec[f] \in FileRecords \cup {None}
      /\ disk[f] \in Texts /\ disk \in [Files -> Texts]
  BY <1>1, Looking DEF KindInv, TypeOK
<1>3. ASSUME Aside(f), NEW contents, contents[f] \in Content,
             saved' = Save("retired", {f}, contents), disk' = disk
      PROVE  FileEffect(f) /\ Copied(f)
  <2>1. run' = [run EXCEPT !.todo = @ \ {f}, !.conflicts = @ \cup {f}]
    BY <1>3 DEF Aside
  <2>2. /\ run' \in RunStates
        /\ run'.kind = run.kind /\ run'.v = run.v /\ run'.force = run.force
        /\ run'.modes = run.modes /\ run'.todo = run.todo \ {f}
        /\ run'.backups \in {run.backups, run.backups \cup {f}} /\ run.uncopied \subseteq run'.uncopied
        /\ run'.staged = run.staged /\ run'.conflicts = run.conflicts \cup {f} /\ run'.rec = run.rec
    BY <1>2, <2>1 DEF RunStates
  <2>3. Copied(f)
    <3> DEFINE copy == [file |-> f, how |-> "retired", content |-> contents[f]]
    <3>1. saved' = {s \in saved : s.how # "retired" \/ s.file \notin {f}} \cup {copy}
      BY <1>3 DEF Save
    <3> QED
      BY <1>3, <3>1 DEF Copied
  <2> QED
    BY <1>1, <1>2, <1>3, <2>2, <2>3 DEF FileEffect
<1>4. ASSUME NEW records \in {run.rec, [run.rec EXCEPT ![f] = None]}, Handled(f, records),
             saved' = saved, disk' \in [Files -> Texts], \A g \in Files \ {f} : disk'[g] = disk[g]
      PROVE  FileEffect(f) /\ Copied(f)
  <2>1. run' = [run EXCEPT !.todo = @ \ {f}, !.rec = records]
    BY <1>4 DEF Handled
  <2>2. records \in [Files -> FileRecords \cup {None}]
    BY <1>2
  <2>3. /\ run' \in RunStates
        /\ run'.kind = run.kind /\ run'.v = run.v /\ run'.force = run.force
        /\ run'.modes = run.modes /\ run'.todo = run.todo \ {f}
        /\ run'.backups \in {run.backups, run.backups \cup {f}} /\ run.uncopied \subseteq run'.uncopied
        /\ run'.staged = run.staged /\ run'.conflicts = run.conflicts /\ run'.rec = records
    BY <1>2, <2>1, <2>2 DEF RunStates
  <2>4. records[f] \in {run.rec[f], None} /\ \A g \in Files \ {f} : records[g] = run.rec[g]
    BY <1>2
  <2> QED
    BY <1>1, <1>2, <1>4, <2>3, <2>4 DEF FileEffect, Copied
<1>5. CASE RetireBlock(f)
  <2>1. run.rec[f] \in FileRecords
    BY <1>2, <1>5 DEF RetireBlock, Retired, Info
  <2>2. CASE PlanRetirement(f, Info(f)).conflict
    <3>1. disk[f] \in Content
      BY <1>2, <2>2 DEF PlanRetirement, Result, Exists, Texts
    <3> DEFINE contents == [disk EXCEPT ![f] = BlockAlone(f)]
    <3>2. contents[f] \in Content
      BY <1>2, <3>1 DEF BlockAlone, Content, NoBlock
    <3>3. Aside(f) /\ saved' = Save("retired", {f}, contents) /\ disk' = disk
      BY <1>5, <2>2 DEF RetireBlock
    <3> HIDE DEF contents
    <3> QED
      BY <1>3, <3>2, <3>3
  <2>3. CASE ~PlanRetirement(f, Info(f)).conflict
    <3>1. PlanRetirement(f, Info(f)).content \in Texts
      BY <1>2, <2>1, <2>3, RetirementPlan DEF Info
    <3>2. /\ disk' = [disk EXCEPT ![f] = PlanRetirement(f, Info(f)).content]
          /\ Handled(f, [run.rec EXCEPT ![f] = None]) /\ saved' = saved
      BY <1>5, <2>3 DEF RetireBlock, Recorded
    <3> QED
      BY <1>2, <1>4, <3>1, <3>2
  <2> QED
    BY <2>2, <2>3
<1>6. CASE RetireFile(f)
  <2>1. CASE Exists(f) /\ disk[f] # Info(f).hash
    BY <1>2, <1>3, <1>6, <2>1 DEF RetireFile, Exists, Texts
  <2>2. CASE ~(Exists(f) /\ disk[f] # Info(f).hash)
    <3>1. disk' = [disk EXCEPT ![f] = Absent] /\ Handled(f, [run.rec EXCEPT ![f] = None]) /\ saved' = saved
      BY <1>6, <2>2 DEF RetireFile, Recorded
    <3> QED
      BY <1>2, <1>4, <3>1 DEF Texts
  <2> QED
    BY <2>1, <2>2
<1>7. CASE OtherFile(f)
  <2>1. CASE Info(f) = None /\ f \in Graveyard[run.v]
    <3>1. disk' = [disk EXCEPT ![f] = Absent] /\ Handled(f, run.rec) /\ saved' = saved
      BY <1>7, <2>1 DEF OtherFile
    <3> QED
      BY <1>2, <1>4, <3>1 DEF Texts
  <2>2. CASE ~(Info(f) = None /\ f \in Graveyard[run.v]) /\ ~(Policy[run.v][f] = "project" /\ Exists(f))
    <3>1. disk' = disk /\ Handled(f, run.rec) /\ saved' = saved
      BY <1>7, <2>2 DEF OtherFile
    <3> QED
      BY <1>2, <1>4, <3>1
  <2>3. CASE ~(Info(f) = None /\ f \in Graveyard[run.v]) /\ Policy[run.v][f] = "project" /\ Exists(f)
    <3> DEFINE new == State(run.v, f, disk[f], NoBlock)
    <3>1. disk' = disk /\ saved' = saved
          /\ run' = [run EXCEPT !.todo = @ \ {f}, !.rec = [run.rec EXCEPT ![f] = new]]
      BY <1>7, <2>3 DEF OtherFile, Handled, Recorded
    <3>2. new \in FileRecords /\ new.policy = Policy[run.v][f]
      BY <1>2, StateIsRecord DEF NoBlock
    <3> HIDE DEF new
    <3>3. /\ run' \in RunStates
          /\ run'.kind = run.kind /\ run'.v = run.v /\ run'.force = run.force
          /\ run'.modes = run.modes /\ run'.todo = run.todo \ {f}
          /\ run'.backups \in {run.backups, run.backups \cup {f}} /\ run.uncopied \subseteq run'.uncopied
          /\ run'.staged = run.staged /\ run'.conflicts = run.conflicts
          /\ run'.rec = [run.rec EXCEPT ![f] = new]
      BY <1>2, <3>1, <3>2 DEF RunStates
    <3> QED
      BY <1>1, <1>2, <2>3, <3>1, <3>2, <3>3 DEF FileEffect, Copied
  <2> QED
    BY <2>1, <2>2, <2>3
<1> QED
  BY <1>5, <1>6, <1>7

\* A file of a run leaves types and kinds in order.
LEMMA FileKeepsKinds ==
  ASSUME KindInv, NEW f \in Files, FileEffect(f), Copied(f)
  PROVE  KindInv'
<1>1. /\ disk' \in [Files -> Texts] /\ run # Idle /\ run \in RunStates /\ disk[f] \in Texts
      /\ UNCHANGED <<rec, release, modes, edits, commands, touched, late>>
  BY DEF FileEffect, KindInv, TypeOK
<1>2. \A s \in saved' : s.file \in Files /\ s.how \in {"backup", "retired", "adopted"}
                        /\ s.content \in Content
  <2>1. \A s \in saved : s.file \in Files /\ s.how \in {"backup", "retired", "adopted"}
                         /\ s.content \in Content
    BY DEF KindInv, TypeOK
  <2>2. CASE saved' = saved
    BY <2>1, <2>2
  <2>3. CASE saved' # saved
    <3>1. PICK how \in {"backup", "retired"}, c \in Content :
            \A s \in saved' : s \in saved \/ s = [file |-> f, how |-> how, content |-> c]
      BY <2>3 DEF Copied
    <3> QED
      BY <2>1, <3>1
  <2> QED
    BY <2>2, <2>3
<1>3. /\ run' \in RunStates \/ run' = Idle
      /\ run' # Idle =>
           /\ run'.kind = run.kind /\ run'.v = run.v /\ run'.modes = run.modes
           /\ run'.todo = run.todo \ {f} /\ run'.conflicts \subseteq run.conflicts \cup {f}
           /\ \/ run'.staged = run.staged
              \/ run'.staged = run.staged \cup {f} /\ Policy[run.v][f] = "owned"
           /\ \A g \in Files \ {f} : run'.rec[g] = run.rec[g]
           /\ \/ run'.rec[f] \in {run.rec[f], None}
              \/ /\ run.kind # "init" /\ run'.rec[f].policy = Policy[run.v][f]
                 /\ Policy[run.v][f] \in {"owned", "append", "project"}
  BY DEF FileEffect
<1>4. /\ run.modes \in Modes \cup {1} /\ run.staged \cap run.todo = {}
      /\ run.conflicts \cap run.todo = {} /\ run.v \in Releases
  BY <1>1 DEF KindInv, TypeOK, RunStates
<1>5. /\ \A g \in Files : Kind(g, run.rec[g])
      /\ \A g \in run.staged : Policy[run.v][g] = "owned"
      /\ run.kind = "init" => run.rec = NoRecords
      /\ \A g \in Files : run.rec[g] # None /\ run.rec[g].policy = "managed" =>
                            rec[g] # None /\ rec[g].policy = "managed"
  BY <1>1 DEF KindInv, Kinds
<1>6. TypeOK'
  <2>1. run' # Idle => run'.modes \in Modes \cup {1} /\ run'.staged \cap run'.todo = {}
                       /\ run'.conflicts \cap run'.todo = {}
    BY <1>3, <1>4
  <2> QED
    BY <1>1, <1>2, <1>3, <2>1 DEF KindInv, TypeOK
<1>7. ASSUME run' # Idle, NEW g \in Files
      PROVE  /\ Kind(g, run'.rec[g])
             /\ run'.rec[g] # None /\ run'.rec[g].policy = "managed" =>
                  rec'[g] # None /\ rec'[g].policy = "managed"
  <2>1. CASE run'.rec[g] = run.rec[g]
    BY <1>1, <1>5, <2>1
  <2>2. CASE run'.rec[g] = None
    BY <2>2 DEF Kind
  <2>3. CASE run'.rec[g].policy = Policy[run.v][g] /\ Policy[run.v][g] \in {"owned", "append", "project"}
    BY <1>4, <2>3 DEF Kind
  <2> QED
    BY <1>3, <1>7, <2>1, <2>2, <2>3
<1>8. ASSUME run' # Idle, run'.kind = "init"
      PROVE  run'.rec = NoRecords
  <2>1. run.rec = NoRecords /\ \A g \in Files : run'.rec[g] = None
    BY <1>3, <1>5, <1>8 DEF NoRecords
  <2>2. run'.rec \in [Files -> FileRecords \cup {None}]
    BY <1>3, <1>8 DEF RunStates
  <2> QED
    BY <2>1, <2>2 DEF NoRecords
<1>9. run' # Idle => \A g \in run'.staged : Policy[run'.v][g] = "owned"
  BY <1>3, <1>5
<1>10. (\A g \in Files : Kind(g, rec'[g])) /\ (release' = 0 => rec' = NoRecords)
  BY <1>1 DEF KindInv, Kinds
<1> QED
  BY <1>6, <1>7, <1>8, <1>9, <1>10 DEF KindInv, Kinds

\* The beginning of a run does.
LEMMA BeginKeepsKinds ==
  ASSUME KindInv, NEW kind \in {"init", "upgrade", "adopt"}, NEW v \in Releases,
         NEW force \in BOOLEAN, NEW records \in [Files -> FileRecords \cup {None}],
         NEW m \in Modes \cup {1}, Begins(kind, v, force, records, m),
         \A f \in Files : Kind(f, records[f]), kind = "init" => records = NoRecords,
         \A f \in Files : records[f] # None /\ records[f].policy = "managed" =>
                            rec'[f] # None /\ rec'[f].policy = "managed",
         disk' \in [Files -> Texts],
         \A s \in saved' : s.file \in Files /\ s.how \in {"backup", "retired", "adopted"}
                           /\ s.content \in Content,
         \/ UNCHANGED <<rec, release, modes>>
         \/ rec' = NoRecords /\ release' = 0 /\ modes' = 1,
         Command, UNCHANGED <<edits, touched, late>>
  PROVE  KindInv'
<1>1. run' = [kind |-> kind, v |-> v, force |-> force, todo |-> Files, rec |-> records,
              staged |-> {}, conflicts |-> {}, backups |-> {}, uncopied |-> {}, modes |-> m]
  BY DEF Begins
<1>2. m \in Nat \ {0}
  BY BoundsAssumption
<1>3. run' \in RunStates
  BY <1>1, <1>2 DEF RunStates
<1>4. /\ run'.modes = m /\ run'.v = v /\ run'.staged = {} /\ run'.conflicts = {}
      /\ run'.rec = records /\ run'.kind = kind
  BY <1>1
<1>5. rec' \in [Files -> FileRecords \cup {None}] /\ release' \in Releases \cup {0}
      /\ modes' \in Modes \cup {1}
  BY DEF NoRecords, KindInv, TypeOK
<1>6. commands' \in 0 .. MaxCommands
  BY BoundsAssumption DEF Command, KindInv, TypeOK
<1>7. TypeOK'
  BY <1>3, <1>4, <1>5, <1>6 DEF KindInv, TypeOK
<1>8. (\A f \in Files : Kind(f, rec'[f])) /\ (release' = 0 => rec' = NoRecords)
  BY DEF KindInv, Kinds, Kind, NoRecords
<1> QED
  BY <1>4, <1>7, <1>8 DEF KindInv, Kinds

\* What adoption records.
LEMMA Adopting ==
  ASSUME TypeOK, NEW v \in Releases, NEW f \in Files
  PROVE  AsAdopted(v, f) \in FileRecords \cup {None} /\ Kind(f, AsAdopted(v, f))
         /\ ~(AsAdopted(v, f) # None /\ AsAdopted(v, f).policy = "managed")
<1>1. disk[f] \in Texts /\ NoBlock \in Int
  BY DEF NoBlock, TypeOK
<1>2. ASSUME NEW a \in Int, AsAdopted(v, f) = State(v, f, disk[f], a),
             Policy[v][f] \in {"project", "append", "owned"}
      PROVE  AsAdopted(v, f) \in FileRecords /\ Kind(f, AsAdopted(v, f))
             /\ AsAdopted(v, f).policy # "managed"
  BY <1>1, <1>2, StateIsRecord DEF Kind
<1>3. CASE Policy[v][f] = "project" /\ Exists(f)
  <2>1. AsAdopted(v, f) = State(v, f, disk[f], NoBlock)
    BY <1>3 DEF AsAdopted
  <2> QED
    BY <1>1, <1>2, <1>3, <2>1
<1>4. CASE Policy[v][f] = "append" /\ Exists(f) /\ disk[f].block # NoBlock
  <2>1. AsAdopted(v, f) = State(v, f, disk[f], disk[f].block)
    BY <1>4 DEF AsAdopted
  <2>2. disk[f].block \in Int
    BY <1>1, <1>4 DEF Exists, Texts, Content
  <2> QED
    BY <1>2, <1>4, <2>1, <2>2
<1>5. CASE Policy[v][f] = "owned" /\ disk[f] = Template(v, f)
  <2>1. AsAdopted(v, f) = State(v, f, disk[f], NoBlock)
    BY <1>5 DEF AsAdopted
  <2> QED
    BY <1>1, <1>2, <1>5, <2>1
<1>6. CASE /\ ~(Policy[v][f] = "project" /\ Exists(f))
           /\ ~(Policy[v][f] = "append" /\ Exists(f) /\ disk[f].block # NoBlock)
           /\ ~(Policy[v][f] = "owned" /\ disk[f] = Template(v, f))
  <2>1. AsAdopted(v, f) = None
    BY <1>6 DEF AsAdopted
  <2> QED
    BY <2>1 DEF Kind
<1> QED
  BY <1>3, <1>4, <1>5, <1>6

\* A beginning of each kind.
LEMMA CommandsKeepKinds ==
  ASSUME KindInv, NEW v \in Releases, NEW m \in Modes, NEW force \in BOOLEAN,
         InitBegins(v, m) \/ InitForced(v, m) \/ AdoptBegins(v, force, m)
  PROVE  KindInv'
<1>1. /\ disk \in [Files -> Texts] /\ rec \in [Files -> FileRecords \cup {None}]
      /\ modes \in Modes \cup {1}
      /\ \A s \in saved : s.file \in Files /\ s.how \in {"backup", "retired", "adopted"}
                          /\ s.content \in Content
  BY DEF KindInv, TypeOK
<1>2. NoRecords \in [Files -> FileRecords \cup {None}] /\ \A f \in Files : NoRecords[f] = None
  BY DEF NoRecords
<1>3. \A f \in Files : Kind(f, NoRecords[f])
  BY <1>2 DEF Kind
<1>4. CASE InitBegins(v, m)
  <2>1. /\ Begins("init", v, FALSE, NoRecords, m) /\ Command
        /\ UNCHANGED <<disk, saved, rec, release, modes, edits, touched, late>>
    BY <1>4 DEF InitBegins
  <2> QED
    BY <1>1, <1>2, <1>3, <2>1, BeginKeepsKinds
<1>5. CASE InitForced(v, m)
  <2>1. /\ Begins("init", v, TRUE, NoRecords, m) /\ Command
        /\ rec' = NoRecords /\ release' = 0 /\ modes' = 1 /\ saved' = {}
        /\ UNCHANGED <<edits, touched, late>>
    BY <1>5 DEF InitForced, Begins
  <2>2. disk' \in [Files -> Texts]
    BY <1>1, <1>5 DEF InitForced, Texts
  <2> QED
    BY <1>2, <1>3, <2>1, <2>2, BeginKeepsKinds
<1>6. CASE AdoptBegins(v, force, m)
  <2> DEFINE records == [f \in Files |-> AsAdopted(v, f)]
             foreign == {f \in Files : ForeignFile(v, f)}
  <2>1. /\ Begins("adopt", v, force, records, m) /\ Command /\ saved' = Save("adopted", foreign, disk)
        /\ UNCHANGED <<disk, rec, release, modes, edits, touched, late>>
    BY <1>6 DEF AdoptBegins
  <2>2. ASSUME NEW s \in saved'
        PROVE  s.file \in Files /\ s.how \in {"backup", "retired", "adopted"} /\ s.content \in Content
    <3>1. CASE s \in saved
      BY <1>1, <3>1
    <3>2. CASE s \notin saved
      <4>1. PICK f \in foreign : s = [file |-> f, how |-> "adopted", content |-> disk[f]]
        BY <2>1, <3>2 DEF Save
      <4>2. disk[f] \in Content
        BY <1>1, <4>1 DEF ForeignFile, Exists, Texts
      <4> QED
        BY <4>1, <4>2
    <3> QED
      BY <3>1, <3>2
  <2>3. ASSUME NEW f \in Files
        PROVE  AsAdopted(v, f) \in FileRecords \cup {None} /\ Kind(f, AsAdopted(v, f))
               /\ ~(AsAdopted(v, f) # None /\ AsAdopted(v, f).policy = "managed")
    BY Adopting DEF KindInv
  <2>4. records \in [Files -> FileRecords \cup {None}] /\ \A f \in Files : records[f] = AsAdopted(v, f)
    BY <2>3
  <2> HIDE DEF records
  <2> QED
    BY <1>1, <2>1, <2>2, <2>3, <2>4, BeginKeepsKinds
<1> QED
  BY <1>4, <1>5, <1>6

\* What the end of a run writes into the records: policies and blocks stay.
LEMMA Stamping ==
  ASSUME run \in RunStates, NEW records \in [Files -> FileRecords \cup {None}],
         NEW landed \in [Files -> Texts]
  PROVE  LET new == Stamped(records, landed)
         IN /\ new \in [Files -> FileRecords \cup {None}]
            /\ \A f \in Files :
                 /\ records[f] = None => new[f] = None
                 /\ records[f] # None =>
                      /\ new[f] # None
                      /\ new[f].policy = records[f].policy /\ new[f].applied = records[f].applied
                      /\ new[f].src = records[f].src
                      /\ f # Roomodes => new[f].installed = IF Policy[run.v][f] = "none"
                                            THEN records[f].installed ELSE Template(run.v, f)
                      /\ new[f].hash = IF f = Roomodes /\ landed[f] # Absent THEN landed[f]
                                       ELSE records[f].hash
<1> DEFINE batch == run.kind = "init" \/ run.staged # {}
           synced(f) == f = Roomodes /\ landed[f] # Absent
           hash(f) == IF synced(f) THEN landed[f] ELSE records[f].hash
           installed(f) == IF synced(f) /\ batch THEN landed[f]
                           ELSE IF Policy[run.v][f] = "none" THEN records[f].installed
                           ELSE Template(run.v, f)
           stamp(f) == IF records[f] = None THEN None
                       ELSE [records[f] EXCEPT !.hash = hash(f), !.installed = installed(f)]
<1>1. Stamped(records, landed) = [f \in Files |-> stamp(f)]
  BY DEF Stamped
<1>2. ASSUME NEW f \in Files, records[f] # None
      PROVE  /\ stamp(f) \in FileRecords /\ stamp(f).policy = records[f].policy
             /\ stamp(f).applied = records[f].applied /\ stamp(f).hash = hash(f)
             /\ stamp(f).src = records[f].src /\ stamp(f).installed = installed(f)
  <2>1. records[f] \in FileRecords /\ run.v \in Releases /\ landed[f] \in Texts
    BY <1>2 DEF RunStates
  <2>2. hash(f) \in Texts
    BY <2>1 DEF FileRecords
  <2>3. installed(f) \in Content
    BY <2>1, Contents DEF Texts, FileRecords
  <2>4. stamp(f) = [records[f] EXCEPT !.hash = hash(f), !.installed = installed(f)]
    BY <1>2
  <2> HIDE DEF hash, installed, stamp
  <2> QED
    BY <2>1, <2>2, <2>3, <2>4 DEF FileRecords
<1>3. ASSUME NEW f \in Files
      PROVE  /\ stamp(f) \in FileRecords \cup {None} /\ (records[f] = None => stamp(f) = None)
             /\ records[f] # None => stamp(f) # None
  BY <1>2, RunsAssumption
<1> HIDE DEF stamp
<1> QED
  BY <1>1, <1>2, <1>3

\* What a run puts down at its end.
LEMMA Landing ==
  ASSUME TypeOK, run # Idle
  PROVE  /\ run \in RunStates /\ run.v \in Releases /\ Landed \in [Files -> Texts]
         /\ \A f \in Files :
              LET down == IF f \in run.staged THEN Template(run.v, f) ELSE disk[f]
              IN Landed[f] = IF f = Roomodes /\ down # Absent THEN BlockOf(run.modes, down) ELSE down
<1> DEFINE down == [f \in Files |-> IF f \in run.staged THEN Template(run.v, f) ELSE disk[f]]
<1>1. run \in RunStates /\ disk \in [Files -> Texts]
  BY DEF TypeOK
<1>2. run.v \in Releases /\ run.modes \in Int
  BY <1>1 DEF RunStates
<1>3. down \in [Files -> Texts]
      /\ \A f \in Files : down[f] = IF f \in run.staged THEN Template(run.v, f) ELSE disk[f]
  BY <1>1, <1>2, Contents DEF Texts
<1>4. Landed = [down EXCEPT ![Roomodes] = IF down[Roomodes] = Absent THEN down[Roomodes]
                                          ELSE BlockOf(run.modes, down[Roomodes])]
  BY DEF Landed, Synced
<1> HIDE DEF down
<1>5. Roomodes \in Files
  BY FilesAssumption
<1>6. down[Roomodes] # Absent => BlockOf(run.modes, down[Roomodes]) \in Texts
  BY <1>2, <1>3, <1>5, Contents DEF Texts
<1>7. Landed \in [Files -> Texts]
  BY <1>3, <1>4, <1>5, <1>6
<1>8. \A f \in Files : Landed[f] = IF f = Roomodes /\ down[f] # Absent
                                   THEN BlockOf(run.modes, down[f]) ELSE down[f]
  BY <1>3, <1>4, <1>5
<1> QED
  BY <1>1, <1>2, <1>3, <1>7, <1>8

\* What init records.
LEMMA Composing ==
  ASSUME TypeOK, run # Idle, Composable
  PROVE  /\ Composed \in [Files -> FileRecords \cup {None}]
         /\ \A f \in Files :
              /\ Policy[run.v][f] = "none" => Composed[f] = None
              /\ Policy[run.v][f] # "none" =>
                   /\ Composed[f] \in FileRecords /\ Composed[f].policy = Policy[run.v][f]
                   /\ Composed[f].policy # "managed"
                   /\ Composed[f].src = Src[run.v][f]
                   /\ Composed[f].hash = IF f \in run.staged THEN Template(run.v, f) ELSE disk[f]
                   /\ Policy[run.v][f] = "append" /\ f \notin run.staged =>
                        Exists(f) /\ Composed[f].applied = disk[f].block
<1>1. run \in RunStates /\ disk \in [Files -> Texts]
  BY DEF TypeOK
<1>2. run.v \in Releases
  BY <1>1 DEF RunStates
<1>3. ASSUME NEW f \in Files, Policy[run.v][f] # "none"
      PROVE  /\ Composed[f] \in FileRecords /\ Composed[f].policy = Policy[run.v][f]
             /\ Composed[f].policy # "managed" /\ Composed[f].src = Src[run.v][f]
             /\ Composed[f].hash = IF f \in run.staged THEN Template(run.v, f) ELSE disk[f]
             /\ Policy[run.v][f] = "append" /\ f \notin run.staged =>
                  Exists(f) /\ Composed[f].applied = disk[f].block
  <2>1. CASE f \in run.staged
    <3>1. Composed[f] = State(run.v, f, Template(run.v, f), NoBlock)
      BY <1>3, <2>1 DEF Composed
    <3>2. Template(run.v, f) \in Texts /\ NoBlock \in Int
      BY <1>2, Contents DEF Texts, NoBlock
    <3> QED
      BY <1>2, <2>1, <3>1, <3>2, StateIsRecord
  <2>2. CASE f \notin run.staged
    <3> DEFINE a == IF Policy[run.v][f] = "append" THEN disk[f].block ELSE NoBlock
    <3>1. Composed[f] = State(run.v, f, disk[f], a)
      BY <1>3, <2>2 DEF Composed
    <3>2. Policy[run.v][f] = "append" => Exists(f) /\ disk[f].block \in Int
      BY <1>1 DEF Composable, Exists, Texts, Content
    <3>3. a \in Int /\ disk[f] \in Texts
      BY <1>1, <3>2 DEF NoBlock
    <3>4. /\ Composed[f] \in FileRecords /\ Composed[f].policy = Policy[run.v][f]
          /\ Composed[f].policy # "managed" /\ Composed[f].hash = disk[f] /\ Composed[f].applied = a
          /\ Composed[f].src = Src[run.v][f]
      <4> HIDE DEF a
      <4> QED
        BY <1>2, <3>1, <3>3, StateIsRecord
    <3> QED
      BY <2>2, <3>2, <3>4
  <2> QED
    BY <2>1, <2>2
<1>4. \A f \in Files : Policy[run.v][f] = "none" => Composed[f] = None
  BY DEF Composed
<1>5. \A f \in Files : Composed[f] \in FileRecords \cup {None}
  BY <1>3, <1>4
<1>6. Composed \in [Files -> FileRecords \cup {None}]
  BY <1>5 DEF Composed
<1> QED
  BY <1>3, <1>4, <1>6

\* The end of a run leaves types and kinds in order.
LEMMA CompleteKeepsKinds ==
  ASSUME KindInv, Complete
  PROVE  KindInv'
<1> DEFINE records == IF run.kind = "init" THEN Composed ELSE run.rec
<1>1. /\ run # Idle /\ run' = Idle /\ disk' = Landed /\ rec' = Stamped(records, Landed)
      /\ release' = run.v /\ modes' = run.modes
      /\ UNCHANGED <<saved, edits, commands, touched, late>>
  BY DEF Complete
<1>2. run \in RunStates /\ run.v \in Releases /\ Landed \in [Files -> Texts]
  BY <1>1, Landing DEF KindInv
<1>3. records \in [Files -> FileRecords \cup {None}] /\ \A f \in Files : Kind(f, records[f])
  <2>1. CASE run.kind = "init"
    <3>1. Composable
      BY <2>1 DEF Complete
    <3>2. records = Composed /\ Composed \in [Files -> FileRecords \cup {None}]
      BY <1>1, <2>1, <3>1, Composing DEF KindInv
    <3>3. ASSUME NEW f \in Files
          PROVE  Kind(f, Composed[f])
      <4>1. CASE Policy[run.v][f] = "none"
        <5>1. Composed[f] = None
          BY <1>1, <3>1, <4>1, Composing DEF KindInv
        <5> QED
          BY <5>1 DEF Kind
      <4>2. CASE Policy[run.v][f] # "none"
        <5>1. Composed[f].policy = Policy[run.v][f] /\ Composed[f].policy # "managed"
          BY <1>1, <3>1, <4>2, Composing DEF KindInv
        <5> QED
          BY <1>2, <4>2, <5>1 DEF Kind
      <4> QED
        BY <4>1, <4>2
    <3> QED
      BY <3>2, <3>3
  <2>2. CASE run.kind # "init"
    BY <1>1, <1>2, <2>2 DEF RunStates, KindInv, Kinds
  <2> QED
    BY <2>1, <2>2
<1> HIDE DEF records
<1>4. /\ rec' \in [Files -> FileRecords \cup {None}]
      /\ \A f \in Files : /\ records[f] = None => rec'[f] = None
                          /\ records[f] # None => rec'[f].policy = records[f].policy
  BY <1>1, <1>2, <1>3, Stamping
<1>5. \A f \in Files : Kind(f, rec'[f])
  BY <1>3, <1>4 DEF Kind
<1>6. modes' \in Modes \cup {1} /\ release' \in Releases /\ release' # 0
  BY <1>1, <1>2, ReleasesAssumption DEF KindInv, TypeOK
<1> QED
  BY <1>1, <1>2, <1>4, <1>5, <1>6 DEF KindInv, TypeOK, Kinds

\* A run that ends before its time does.
LEMMA InterruptKeepsKinds ==
  ASSUME KindInv, Interrupt
  PROVE  KindInv'
<1>1. PICK gone \in SUBSET run.staged : disk' = [f \in Files |-> IF f \in gone THEN Absent ELSE disk[f]]
  BY DEF Interrupt
<1>2. /\ run' = Idle /\ UNCHANGED <<rec, release, modes, saved, edits, commands, touched, late>>
  BY DEF Interrupt
<1>3. disk' \in [Files -> Texts]
  BY <1>1 DEF KindInv, TypeOK, Texts
<1> QED
  BY <1>2, <1>3 DEF KindInv, TypeOK, Kinds

\* What uninstall leaves.
LEMMA Uninstalling ==
  ASSUME TypeOK, NEW S, NEW forget \in BOOLEAN, Uninstall(S, forget)
  PROVE  /\ disk' \in [Files -> Texts]
         /\ \A f \in Files : disk'[f] # Absent =>
              /\ Exists(f)
              /\ disk'[f].text = disk[f].text
              /\ \/ disk'[f].block = disk[f].block
                 \/ disk'[f].block >= 0
         /\ \A f \in Files : Exists(f) /\ (rec[f] # None => rec[f].policy = "append") => disk'[f] # Absent
         /\ \A f \in Files \ (Selected(S) \cup {Roomodes}) : disk'[f] = disk[f]
<1> DEFINE left == [f \in Files |-> IF f \in Selected(S) THEN Uninstalled(f) ELSE disk[f]]
           m == ResidualModes(S)
<1>1. disk' = Synced(left, m) /\ RemovalConflicts(S) = {}
  BY DEF Uninstall
<1>2. disk \in [Files -> Texts] /\ modes \in Modes \cup {1} /\ rec \in [Files -> FileRecords \cup {None}]
  BY DEF TypeOK
<1>3. m \in Nat
  BY <1>2, BoundsAssumption DEF ResidualModes
<1>4. ASSUME NEW f \in Files
      PROVE  /\ left[f] \in Texts
             /\ left[f] # Absent => /\ Exists(f) /\ left[f].text = disk[f].text
                                   /\ \/ left[f].block = disk[f].block
                                      \/ left[f].block >= 0
             /\ Exists(f) /\ (rec[f] # None => rec[f].policy = "append") => left[f] # Absent
  <2>1. CASE f \notin Selected(S)
    BY <1>2, <2>1 DEF Exists
  <2>2. CASE f \in Selected(S) /\ rec[f].policy # "append"
    <3>1. left[f] = Absent /\ rec[f] # None
      BY <2>2 DEF Uninstalled, Selected
    <3> QED
      BY <2>2, <3>1 DEF Texts
  <2>3. CASE f \in Selected(S) /\ rec[f].policy = "append"
    <3>1. left[f] = PlanRetirement(f, rec[f]).content /\ rec[f] \in FileRecords
      BY <1>2, <2>3 DEF Uninstalled, Selected
    <3>2. ~PlanRetirement(f, rec[f]).conflict
      BY <1>1, <2>3 DEF RemovalConflicts
    <3>3. /\ PlanRetirement(f, rec[f]).content \in Texts
          /\ disk[f] = Absent => PlanRetirement(f, rec[f]).content = Absent
          /\ Exists(f) => PlanRetirement(f, rec[f]).content \in Content
                          /\ PlanRetirement(f, rec[f]).content.text = disk[f].text
                          /\ PlanRetirement(f, rec[f]).content.block >= 0
      BY <1>2, <3>1, <3>2, RetirementPlan DEF NoBlock
    <3> HIDE DEF left
    <3> QED
      BY <3>1, <3>3, Contents DEF Exists
  <2> QED
    BY <2>1, <2>2, <2>3
<1>5. left \in [Files -> Texts]
  BY <1>4
<1>13. \A f \in Files \ Selected(S) : left[f] = disk[f]
  OBVIOUS
<1> HIDE DEF left, m
<1>6. Roomodes \in Files
  BY FilesAssumption
<1>7. disk' = [left EXCEPT ![Roomodes] = IF left[Roomodes] = Absent THEN left[Roomodes]
                                         ELSE BlockOf(m, left[Roomodes])]
  BY <1>1 DEF Synced
<1>8. left[Roomodes] # Absent =>
        BlockOf(m, left[Roomodes]) \in Content /\ BlockOf(m, left[Roomodes]).text = left[Roomodes].text
        /\ BlockOf(m, left[Roomodes]).block >= 0
  BY <1>3, <1>5, <1>6, Contents DEF Texts
<1>9. disk' \in [Files -> Texts]
  BY <1>5, <1>6, <1>7, <1>8 DEF Texts
<1>10. ASSUME NEW f \in Files
       PROVE  /\ disk'[f] # Absent => /\ left[f] # Absent /\ disk'[f].text = left[f].text
                                      /\ \/ disk'[f].block = left[f].block
                                         \/ disk'[f].block >= 0
              /\ left[f] # Absent => disk'[f] # Absent
  BY <1>5, <1>6, <1>7, <1>8, Contents
<1>11. ASSUME NEW f \in Files, disk'[f] # Absent
       PROVE  /\ Exists(f) /\ disk'[f].text = disk[f].text
              /\ disk'[f].block = disk[f].block \/ disk'[f].block >= 0
  BY <1>4, <1>10, <1>11
<1>12. ASSUME NEW f \in Files, Exists(f), rec[f] # None => rec[f].policy = "append"
       PROVE  disk'[f] # Absent
  BY <1>4, <1>10, <1>12
<1>14. \A f \in Files \ (Selected(S) \cup {Roomodes}) : disk'[f] = disk[f]
  BY <1>5, <1>7, <1>13
<1> QED
  BY <1>9, <1>11, <1>12, <1>14

\* What the commands that uninstall, and the user, leave of types and kinds.
LEMMA OthersKeepKinds ==
  ASSUME KindInv,
         \/ \E S \in (SUBSET {Scope[f] : f \in Files}) \ {{}}, forget \in BOOLEAN : Uninstall(S, forget)
         \/ ForgetInstall
         \/ \E f \in Files : UserEdits(f)
         \/ UNCHANGED vars
  PROVE  KindInv'
<1>1. /\ disk \in [Files -> Texts] /\ rec \in [Files -> FileRecords \cup {None}]
      /\ modes \in Modes \cup {1} /\ commands \in 0 .. MaxCommands /\ edits \in 0 .. MaxEdits
      /\ touched \subseteq Files /\ late \subseteq touched
      /\ \A f \in Files : Kind(f, rec[f])
  BY DEF KindInv, TypeOK, Kinds
<1>2. NoRecords \in [Files -> FileRecords \cup {None}] /\ \A f \in Files : Kind(f, NoRecords[f])
  BY DEF NoRecords, Kind
<1>3. ASSUME Command, disk' \in [Files -> Texts], rec' \in [Files -> FileRecords \cup {None}],
             \A f \in Files : Kind(f, rec'[f]), release' \in {release, 0},
             release' = 0 => rec' = NoRecords, modes' \in Modes \cup {1},
             UNCHANGED <<saved, run, edits, touched, late>>
      PROVE  KindInv'
  <2>1. commands' \in 0 .. MaxCommands /\ run' = Idle
    BY <1>1, <1>3, BoundsAssumption DEF Command
  <2>2. TypeOK'
    BY <1>3, <2>1 DEF KindInv, TypeOK
  <2> QED
    BY <1>3, <2>1, <2>2 DEF KindInv, Kinds
<1>4. ASSUME NEW S, NEW forget \in BOOLEAN, Uninstall(S, forget)
      PROVE  KindInv'
  <2>1. /\ Command /\ UNCHANGED <<saved, run, edits, touched, late>> /\ release # 0
        /\ rec' = [f \in Files |-> IF forget \/ f \in Selected(S) THEN None ELSE rec[f]]
        /\ release' = (IF forget THEN 0 ELSE release)
        /\ modes' = (IF forget THEN 1 ELSE ResidualModes(S))
    BY <1>4 DEF Uninstall
  <2>2. disk' \in [Files -> Texts]
    BY <1>4, Uninstalling DEF KindInv
  <2>3. rec' \in [Files -> FileRecords \cup {None}] /\ \A f \in Files : Kind(f, rec'[f])
    BY <1>1, <2>1 DEF Kind
  <2>4. modes' \in Modes \cup {1} /\ release' \in {release, 0}
    BY <1>1, <2>1 DEF ResidualModes
  <2>5. release' = 0 => rec' = NoRecords
    BY <2>1 DEF NoRecords
  <2> QED
    BY <1>3, <2>1, <2>2, <2>3, <2>4, <2>5
<1>5. CASE ForgetInstall
  <2>1. /\ Command /\ UNCHANGED <<disk, saved, run, edits, touched, late>>
        /\ rec' = NoRecords /\ release' = 0 /\ modes' = 1
    BY <1>5 DEF ForgetInstall
  <2> QED
    BY <1>1, <1>2, <1>3, <2>1
<1>6. ASSUME NEW f \in Files, UserEdits(f)
      PROVE  KindInv'
  <2>1. /\ edits < MaxEdits /\ edits' = edits + 1 /\ touched' = touched \cup {f}
        /\ late' = (IF LookedAt(f) THEN late \cup {f} ELSE late)
        /\ UNCHANGED <<rec, release, modes, saved, run, commands>>
    BY <1>6 DEF UserEdits
  <2>2. PICK c \in Edited(f) : disk' = [disk EXCEPT ![f] = c]
    BY <1>6 DEF UserEdits
  <2>3. c \in Texts
    <3> DEFINE old == IF Exists(f) THEN disk[f] ELSE [text |-> 0, block |-> NoBlock]
               u == 0 - (edits + 1)
    <3>1. old \in Content /\ u \in Int /\ Broken \in Int /\ NoBlock \in Int
      BY <1>1, BoundsAssumption DEF Exists, Texts, Content, Broken, NoBlock
    <3>2. \/ c = Absent \/ c = [old EXCEPT !.text = u]
          \/ \E b \in {u, Broken, NoBlock} : c = [old EXCEPT !.block = b]
      BY <2>2 DEF Edited
    <3> HIDE DEF old, u
    <3> QED
      BY <3>1, <3>2 DEF Texts, Content
  <2>4. disk' \in [Files -> Texts] /\ edits' \in 0 .. MaxEdits
    BY <1>1, <2>1, <2>2, <2>3, BoundsAssumption
  <2>5. touched' \subseteq Files /\ late' \subseteq touched'
    BY <1>1, <2>1
  <2>6. TypeOK'
    BY <2>1, <2>4, <2>5 DEF KindInv, TypeOK
  <2> QED
    BY <2>1, <2>6 DEF KindInv, Kinds
<1>7. CASE UNCHANGED vars
  BY <1>7 DEF vars, KindInv, TypeOK, Kinds
<1> QED
  BY <1>4, <1>5, <1>6, <1>7

\* A target is on no record, or has blocks of old and nothing else.
LEMMA InitKinds == Init => KindInv
<1> SUFFICES ASSUME Init
             PROVE  KindInv
  OBVIOUS
<1>1. /\ modes = 1 /\ saved = {} /\ run = Idle /\ edits = 0 /\ commands = 0 /\ touched = {} /\ late = {}
  BY DEF Init
<1>2. 0 \in 0 .. MaxEdits /\ 0 \in 0 .. MaxCommands
  BY BoundsAssumption
<1>3. CASE disk = [f \in Files |-> Absent] /\ rec = NoRecords /\ release = 0
  BY <1>1, <1>2, <1>3 DEF KindInv, TypeOK, Kinds, Kind, NoRecords, Texts
<1>4. ASSUME NEW v \in Releases,
             disk = [f \in Files |-> IF Policy[v][f] = "append" THEN Template(v, f) ELSE Absent],
             rec = [f \in Files |-> IF Policy[v][f] = "append"
                      THEN [State(v, f, Template(v, f), NoBlock) EXCEPT !.policy = "managed"]
                      ELSE None],
             release = v
      PROVE  KindInv
  <2>1. disk \in [Files -> Texts]
    BY <1>4, Contents DEF Texts
  <2>2. ASSUME NEW f \in Files, rec[f] # None
        PROVE  rec[f] \in FileRecords /\ rec[f].policy = "managed" /\ Policy[v][f] = "append"
    <3>1. State(v, f, Template(v, f), NoBlock) \in FileRecords
      <4>1. Template(v, f) \in Texts /\ NoBlock \in Int
        BY Contents DEF Texts, NoBlock
      <4> QED
        BY <4>1, StateIsRecord
    <3>2. rec[f] = [State(v, f, Template(v, f), NoBlock) EXCEPT !.policy = "managed"]
          /\ Policy[v][f] = "append"
      BY <1>4, <2>2
    <3> QED
      BY <3>1, <3>2 DEF FileRecords
  <2>3. rec \in [Files -> FileRecords \cup {None}]
    <3>1. \A f \in Files : rec[f] \in FileRecords \cup {None}
      BY <2>2
    <3>2. rec = [f \in Files |-> rec[f]]
      BY <1>4
    <3> QED
      BY <3>1, <3>2
  <2>4. \A f \in Files : Kind(f, rec[f])
    BY <2>2 DEF Kind, HasBlock
  <2>5. release \in Releases /\ release # 0
    BY <1>4, ReleasesAssumption
  <2> QED
    BY <1>1, <1>2, <2>1, <2>3, <2>4, <2>5 DEF KindInv, TypeOK, Kinds
<1> QED
  BY <1>3, <1>4 DEF Init

\* Looking at a file changes that file only.
LEMMA FileStepEffect ==
  ASSUME KindInv, NEW f \in Files, FileStep(f)
  PROVE  FileEffect(f) /\ Copied(f)
BY InitFileEffect, UpgradeFileEffect, RetiredFileEffect DEF FileStep

\* Each step leaves types and kinds in order.
LEMMA NextKeepsKinds ==
  ASSUME KindInv, [Next]_vars
  PROVE  KindInv'
<1>1. ASSUME NEW v \in Releases, NEW m \in Modes, NEW force \in BOOLEAN,
             InitBegins(v, m) \/ InitForced(v, m) \/ AdoptBegins(v, force, m)
      PROVE  KindInv'
  BY <1>1, CommandsKeepKinds
<1>2. ASSUME NEW v \in Releases, NEW force \in BOOLEAN, UpgradeBegins(v, force)
      PROVE  KindInv'
  <2>1. /\ Begins("upgrade", v, force, rec, modes) /\ Command
        /\ UNCHANGED <<disk, saved, rec, release, modes, edits, touched, late>>
    BY <1>2 DEF UpgradeBegins
  <2>2. /\ disk \in [Files -> Texts] /\ rec \in [Files -> FileRecords \cup {None}]
        /\ modes \in Modes \cup {1} /\ \A f \in Files : Kind(f, rec[f])
        /\ \A s \in saved : s.file \in Files /\ s.how \in {"backup", "retired", "adopted"}
                            /\ s.content \in Content
    BY DEF KindInv, TypeOK, Kinds
  <2> QED
    BY <2>1, <2>2, BeginKeepsKinds
<1>3. ASSUME NEW f \in Files, FileStep(f)
      PROVE  KindInv'
  BY <1>3, FileStepEffect, FileKeepsKinds
<1>4. CASE Complete
  BY <1>4, CompleteKeepsKinds
<1>5. CASE Interrupt
  BY <1>5, InterruptKeepsKinds
<1>6. CASE \/ \E S \in (SUBSET {Scope[f] : f \in Files}) \ {{}}, forget \in BOOLEAN : Uninstall(S, forget)
           \/ ForgetInstall \/ (\E f \in Files : UserEdits(f)) \/ UNCHANGED vars
  BY <1>6, OthersKeepKinds
<1>7. (TRUE \in BOOLEAN) /\ (FALSE \in BOOLEAN)
  OBVIOUS
<1> QED
  BY <1>1, <1>2, <1>3, <1>4, <1>5, <1>6, <1>7 DEF Next

\* The types, and what records and runs say of the kinds of the files.
THEOREM KindInvariant == Spec => []KindInv
<1>1. KindInv /\ [Next]_vars => KindInv'
  BY NextKeepsKinds
<1> QED
  BY <1>1, InitKinds, PTL DEF Spec

\* Every state is well typed.
THEOREM TypeTheorem == Spec => []TypeOK
<1>1. KindInv => TypeOK
  BY DEF KindInv
<1> QED
  BY <1>1, KindInvariant, PTL

-----------------------------------------------------------------------------
(* The text around a block.                                                *)

\* A file that has a block, and is not on a record of old.
BlockFile(f) == HasBlock(f) /\ Exists(f) /\ (rec[f] # None => rec[f].policy # "managed")
TextKept(f) == disk'[f] # Absent /\ disk'[f].text = disk[f].text

\* What the harness owns as a whole has no block.
LEMMA OwnedHasNoBlock ==
  ASSUME NEW v \in Releases, NEW f \in Files, Policy[v][f] = "owned"
  PROVE  ~HasBlock(f)
BY PolicyAssumption DEF HasBlock

\* A run that looks at a file keeps the text around its block.
LEMMA FileKeepsText ==
  ASSUME KindInv, NEW f \in Files, BlockFile(f), NEW g \in Files, FileStep(g)
  PROVE  TextKept(f)
<1>1. FileEffect(g)
  BY FileStepEffect
<1>2. disk \in [Files -> Texts] /\ disk[f] # Absent
  BY DEF KindInv, TypeOK, BlockFile, Exists
<1>3. CASE f # g
  BY <1>1, <1>2, <1>3 DEF FileEffect, TextKept
<1>4. ASSUME f = g, disk' # disk
      PROVE  TextKept(f)
  <2>1. Pending(f)
    BY <1>4 DEF FileStep, InitFile, AppendFile, KeepOwned, StageOwned, RetireBlock, RetireFile, OtherFile
  <2>2. /\ run \in RunStates /\ run.v \in Releases /\ disk[f] \in Texts
        /\ run.rec \in [Files -> FileRecords \cup {None}] /\ run.rec[f] \in FileRecords \cup {None}
    BY <2>1, Looking DEF KindInv
  <2>3. Kind(f, run.rec[f]) /\ ~(run.rec[f] # None /\ run.rec[f].policy = "managed")
    BY <2>1 DEF KindInv, Kinds, BlockFile, Pending
  <2>4. ASSUME NEW c \in Content, disk' = [disk EXCEPT ![f] = c], c.text = disk[f].text
        PROVE  TextKept(f)
    BY <1>2, <2>4, Contents DEF TextKept
  <2>5. CASE InitFile(f)
    <3>1. CASE Policy[run.v][f] = "append"
      <4>1. ~PlanAppend(run.v, f, None).conflict /\ disk' = [disk EXCEPT ![f] = PlanAppend(run.v, f, None).content]
        BY <1>4, <2>5, <3>1 DEF InitFile
      <4>2. PlanAppend(run.v, f, None).content \in Content
            /\ PlanAppend(run.v, f, None).content.text = disk[f].text
        BY <1>2, <2>2, <4>1, AppendPlan DEF Exists
      <4> QED
        BY <2>4, <4>1, <4>2
    <3>2. CASE Policy[run.v][f] # "append"
      BY <1>2, <1>4, <2>5, <3>2 DEF InitFile, Exists
    <3> QED
      BY <3>1, <3>2
  <2>6. CASE AppendFile(f)
    <3> DEFINE plan == PlanAppend(run.v, f, run.rec[f])
    <3>1. ~plan.conflict /\ disk' = [disk EXCEPT ![f] = plan.content]
      BY <1>4, <2>6 DEF AppendFile, Info
    <3>2. plan.content \in Content /\ plan.content.text = disk[f].text
      BY <1>2, <2>2, <2>3, <3>1, AppendPlan DEF Exists
    <3> QED
      BY <2>4, <3>1, <3>2
  <2>7. CASE KeepOwned(f) \/ StageOwned(f)
    BY <1>4, <2>7 DEF KeepOwned, StageOwned
  <2>8. CASE RetireBlock(f)
    <3> DEFINE plan == PlanRetirement(f, run.rec[f])
    <3>1. ~plan.conflict /\ disk' = [disk EXCEPT ![f] = plan.content] /\ run.rec[f] # None
      BY <1>4, <2>8 DEF RetireBlock, Retired, Info
    <3>2. plan.content \in Content /\ plan.content.text = disk[f].text
      BY <1>2, <2>2, <3>1, RetirementPlan DEF Exists
    <3> QED
      BY <2>4, <3>1, <3>2
  <2>9. CASE RetireFile(f)
    <3>1. run.rec[f] # None /\ run.rec[f].policy = "owned"
      BY <2>3, <2>9 DEF RetireFile, Retired, Info, Owned
    <3> QED
      BY <2>3, <3>1, BlockKind DEF BlockFile
  <2>10. CASE OtherFile(f)
    <3>1. f \in Graveyard[run.v]
      BY <1>4, <2>10 DEF OtherFile
    <3> QED
      BY <2>2, <3>1, GraveyardAssumption DEF BlockFile, HasBlock
  <2> QED
    BY <1>4, <2>5, <2>6, <2>7, <2>8, <2>9, <2>10 DEF FileStep
<1>5. CASE disk' = disk
  BY <1>2, <1>5 DEF TextKept
<1> QED
  BY <1>3, <1>4, <1>5

\* The end of a run, whichever it is, does.
LEMMA EndKeepsText ==
  ASSUME KindInv, NEW f \in Files, BlockFile(f), Complete \/ Interrupt
  PROVE  TextKept(f)
<1>1. run # Idle /\ run \in RunStates /\ disk[f] \in Content
  BY DEF KindInv, TypeOK, BlockFile, Exists, Texts, Complete, Interrupt
<1>2. run.v \in Releases /\ run.modes \in Int
  BY <1>1 DEF RunStates
<1>3. f \notin run.staged
  BY <1>1, <1>2, OwnedHasNoBlock DEF KindInv, Kinds, BlockFile
<1>4. CASE Complete
  <2>1. disk' = Landed
    BY <1>4 DEF Complete
  <2>2. Landed[f] = IF f = Roomodes THEN BlockOf(run.modes, disk[f]) ELSE disk[f]
    BY <1>1, <1>3, Landing, Contents DEF KindInv
  <2> QED
    BY <1>1, <1>2, <2>1, <2>2, Contents DEF TextKept
<1>5. CASE Interrupt
  <2>1. PICK gone \in SUBSET run.staged : disk' = [g \in Files |-> IF g \in gone THEN Absent ELSE disk[g]]
    BY <1>5 DEF Interrupt
  <2>2. disk'[f] = disk[f]
    BY <1>3, <2>1
  <2> QED
    BY <1>1, <2>2, Contents DEF TextKept
<1> QED
  BY <1>4, <1>5

\* A step of the harness keeps it.
LEMMA NextKeepsText ==
  ASSUME KindInv, [Next]_vars, edits' = edits, NEW f \in Files, BlockFile(f)
  PROVE  TextKept(f)
<1>1. disk \in [Files -> Texts] /\ disk[f] # Absent /\ edits \in Int
  BY DEF KindInv, TypeOK, BlockFile, Exists
<1>2. ASSUME disk' = disk
      PROVE  TextKept(f)
  BY <1>1, <1>2 DEF TextKept
<1>3. ASSUME NEW v \in Releases, NEW m \in Modes, NEW force \in BOOLEAN,
             InitBegins(v, m) \/ InitForced(v, m) \/ AdoptBegins(v, force, m)
      PROVE  TextKept(f)
  <2>1. CASE InitForced(v, m)
    <3>1. disk' = [g \in Files |-> IF g \in Existing(v) THEN Absent ELSE disk[g]]
      BY <2>1 DEF InitForced
    <3>2. f \notin Existing(v)
      BY OwnedHasNoBlock DEF Existing, BlockFile
    <3> QED
      BY <1>1, <3>1, <3>2 DEF TextKept
  <2>2. CASE ~InitForced(v, m)
    BY <1>2, <1>3, <2>2 DEF InitBegins, AdoptBegins
  <2> QED
    BY <2>1, <2>2
<1>4. ASSUME NEW v \in Releases, NEW force \in BOOLEAN, UpgradeBegins(v, force)
      PROVE  TextKept(f)
  BY <1>2, <1>4 DEF UpgradeBegins
<1>5. ASSUME NEW g \in Files, FileStep(g)
      PROVE  TextKept(f)
  BY <1>5, FileKeepsText
<1>6. ASSUME NEW g \in Files, UserEdits(g)
      PROVE  FALSE
  BY <1>1, <1>6 DEF UserEdits
<1>7. ASSUME NEW S, NEW forget \in BOOLEAN, Uninstall(S, forget)
      PROVE  TextKept(f)
  <2>1. rec[f] # None => rec[f].policy = "append"
    BY BlockKind DEF KindInv, Kinds, BlockFile
  <2> QED
    BY <1>7, <2>1, Uninstalling DEF KindInv, BlockFile, TextKept
<1>8. CASE Complete \/ Interrupt
  BY <1>8, EndKeepsText
<1>9. CASE ForgetInstall \/ UNCHANGED vars
  BY <1>2, <1>9 DEF ForgetInstall, vars
<1>10. (TRUE \in BOOLEAN) /\ (FALSE \in BOOLEAN)
  OBVIOUS
<1> QED
  BY <1>3, <1>4, <1>5, <1>6, <1>7, <1>8, <1>9, <1>10 DEF Next

\* What the user wrote around a block survives every command.
THEOREM AroundBlockTheorem == Spec => AroundBlockKept
<1> DEFINE Kept == \A f \in Files :
                     /\ edits' = edits /\ HasBlock(f) /\ Exists(f)
                     /\ disk[f].text < 0 /\ (rec[f] # None => rec[f].policy # "managed")
                     => disk'[f] # Absent /\ disk'[f].text = disk[f].text
<1>1. KindInv /\ [Next]_vars => Kept
  BY NextKeepsText DEF BlockFile, TextKept
<1>2. KindInv /\ [Next]_vars => [Kept]_vars
  BY <1>1
<1> QED
  BY <1>2, KindInvariant, PTL DEF Spec, AroundBlockKept

-----------------------------------------------------------------------------
(* Where the text of the user is, step by step.                            *)

\* What is the release's own holds no text of the user's, and less holds less.
LEMMA Harmless ==
  ASSUME NEW c \in Texts, c # Absent => c.text >= 0 /\ c.block >= 0
  PROVE  UserTexts(c) = {}
BY DEF UserTexts, Texts, Content

\* A content that keeps of another its text and its block, or a block of the
\* release's, has no text of the user's that the other has not.
LEMMA Fewer ==
  ASSUME NEW c \in Texts, NEW d \in Texts,
         c # Absent => /\ d # Absent /\ c.text = d.text
                       /\ c.block = d.block \/ c.block >= 0
  PROVE  UserTexts(c) \subseteq UserTexts(d)
BY DEF UserTexts, Texts, Content

\* Copies of a file that stay keep its text safe, and a copy of it makes it so.
LEMMA CopiesStay ==
  ASSUME NEW f \in Files, \A s \in saved : s.file = f => s \in saved'
  PROVE  /\ Copies(f) \subseteq Copies(f)'
         /\ disk'[f] = disk[f] /\ Safe(f) => Safe(f)'
<1>1. Copies(f) \subseteq Copies(f)'
  BY DEF Copies
<1> QED
  BY <1>1 DEF Safe

\* A copy of what the file holds makes its text safe.
LEMMA CopyMakesSafe ==
  ASSUME NEW f \in Files, NEW s \in saved', s.file = f, s.content = disk'[f]
  PROVE  Safe(f)'
BY DEF Safe, Copies

\* A file without text of the user's is safe as it is.
LEMMA NothingToLose ==
  ASSUME NEW f \in Files, disk'[f] \in Texts,
         disk'[f] # Absent => disk'[f].text >= 0 /\ disk'[f].block >= 0
  PROVE  Safe(f)'
<1>1. UserTexts(disk'[f]) = {}
  BY Harmless
<1> QED
  BY <1>1 DEF Safe

\* A record tells what it told, unless it is of a harness-owned file whose
\* text is lost.
LEMMA TellingStays ==
  ASSUME NEW f \in Files, NEW info, Telling(f, info), edits' = edits, late \subseteq late',
         info # None /\ info.policy = "owned" =>
           Safe(f)' \/ (disk'[f] = disk[f] /\ (Safe(f) => Safe(f)'))
  PROVE  Telling(f, info)'
<1>1. info # None => Old(info.hash)'
  BY DEF Telling, Old
<1>2. ASSUME info # None, f \notin late', info.policy = "owned", Exists(f)', info.hash # Absent,
             disk'[f].text = info.hash.text
      PROVE  Safe(f)'
  <2>1. CASE Safe(f)'
    BY <2>1
  <2>2. CASE disk'[f] = disk[f] /\ (Safe(f) => Safe(f)')
    <3>1. Exists(f) /\ f \notin late /\ disk[f].text = info.hash.text
      BY <1>2, <2>2 DEF Exists
    <3>2. Safe(f)
      BY <1>2, <3>1 DEF Telling
    <3> QED
      BY <2>2, <3>2
  <2> QED
    BY <1>2, <2>1, <2>2
<1>3. ASSUME info # None, f \notin late'
      PROVE  /\ info.policy = "managed" => info.hash # Absent /\ info.hash.text > 0 /\ info.hash.block = NoBlock
             /\ info.policy \in {"append", "managed"} => info.applied >= 0
  BY <1>3 DEF Telling
<1> QED
  BY <1>1, <1>2, <1>3 DEF Telling

\* The record in the manifest tells the truth still, or is dropped.
LEMMA RecTellingStays ==
  ASSUME NEW f \in Files, Telling(f, rec[f]), rec'[f] \in {rec[f], None},
         edits' = edits, late \subseteq late',
         rec[f] # None /\ rec[f].policy = "owned" =>
           Safe(f)' \/ (disk'[f] = disk[f] /\ (Safe(f) => Safe(f)'))
  PROVE  Telling(f, rec[f])'
<1>1. CASE rec'[f] = None
  BY <1>1 DEF Telling
<1>2. CASE rec'[f] = rec[f]
  <2>1. PICK info : info = rec[f]
    OBVIOUS
  <2>2. Telling(f, info)
    BY <2>1 DEF Telling
  <2>3. Telling(f, info)'
    BY <2>1, <2>2, TellingStays
  <2> QED
    BY <1>2, <2>1, <2>3 DEF Telling
<1> QED
  BY <1>1, <1>2

\* So does the record that the run at work goes by.
LEMMA RunTellingStays ==
  ASSUME NEW f \in Files, Telling(f, run.rec[f]), run'.rec[f] \in {run.rec[f], None},
         edits' = edits, late \subseteq late',
         run.rec[f] # None /\ run.rec[f].policy = "owned" =>
           Safe(f)' \/ (disk'[f] = disk[f] /\ (Safe(f) => Safe(f)'))
  PROVE  Telling(f, run.rec[f])'
<1>1. CASE run'.rec[f] = None
  BY <1>1 DEF Telling
<1>2. CASE run'.rec[f] = run.rec[f]
  <2>1. PICK info : info = run.rec[f]
    OBVIOUS
  <2>2. Telling(f, info)
    BY <2>1 DEF Telling
  <2>3. Telling(f, info)'
    BY <2>1, <2>2, TellingStays
  <2> QED
    BY <1>2, <2>1, <2>3 DEF Telling
<1> QED
  BY <1>1, <1>2

\* The other files of a run.
LEMMA OthersStayTold ==
  ASSUME TextInv, NEW f \in Files, NEW g \in Files, f # g, FileEffect(g), Copied(g)
  PROVE  Told(f)'
<1>1. disk'[f] = disk[f] /\ UNCHANGED <<rec, edits, late>> /\ run # Idle
  BY DEF FileEffect
<1>2. Told(f)
  BY DEF TextInv
<1>3. \A s \in saved : s.file = f => s \in saved'
  BY DEF Copied
<1>4. Safe(f) => Safe(f)'
  BY <1>1, <1>3, CopiesStay
<1>5. Texture(f)'
  BY <1>1, <1>2 DEF Told, Texture, Old, Exists
<1>6. Telling(f, rec[f])'
  BY <1>1, <1>2, <1>4, RecTellingStays DEF Told
<1>7. ASSUME run' # Idle
      PROVE  Telling(f, run.rec[f])' /\ Seen(f)'
  <2>1. /\ run'.kind = run.kind /\ run'.v = run.v /\ run'.force = run.force
        /\ f \in run'.todo <=> f \in run.todo
        /\ f \in run'.staged <=> f \in run.staged
        /\ f \in run.uncopied => f \in run'.uncopied
        /\ run'.rec[f] = run.rec[f]
    BY <1>7 DEF FileEffect
  <2>2. Telling(f, run.rec[f]) /\ Seen(f)
    BY <1>1, <1>2 DEF Told
  <2>3. Telling(f, run.rec[f])'
    BY <1>1, <1>4, <2>1, <2>2, RunTellingStays
  <2>4. Seen(f)'
    BY <1>1, <1>4, <2>1, <2>2 DEF Seen, Exists
  <2> QED
    BY <2>3, <2>4
<1> QED
  BY <1>5, <1>6, <1>7 DEF Told

\* What holds of a file when a run looks at it.
LEMMA LookedUp ==
  ASSUME TextInv, NEW f \in Files, Pending(f)
  PROVE  /\ run # Idle /\ run \in RunStates /\ f \in run.todo /\ f \notin run.staged
         /\ run.v \in Releases /\ disk \in [Files -> Texts] /\ disk[f] \in Texts
         /\ run.rec \in [Files -> FileRecords \cup {None}] /\ run.rec[f] \in FileRecords \cup {None}
         /\ Kind(f, rec[f]) /\ Kind(f, run.rec[f])
         /\ Texture(f) /\ Telling(f, rec[f]) /\ Telling(f, run.rec[f]) /\ Seen(f)
         /\ edits \in Nat
<1>1. /\ run \in RunStates /\ f \in run.todo /\ run.v \in Releases /\ disk[f] \in Texts
      /\ run.rec \in [Files -> FileRecords \cup {None}] /\ run.rec[f] \in FileRecords \cup {None}
  BY Looking DEF TextInv, KindInv
<1>2. run # Idle /\ disk \in [Files -> Texts] /\ run.staged \cap run.todo = {}
  BY DEF Pending, TextInv, KindInv, TypeOK
<1>3. Kind(f, rec[f]) /\ Kind(f, run.rec[f])
  BY <1>2 DEF TextInv, KindInv, Kinds
<1>4. Texture(f) /\ Telling(f, rec[f]) /\ Telling(f, run.rec[f]) /\ Seen(f)
  BY <1>2 DEF TextInv, Told
<1>5. edits \in Nat
  BY BoundsAssumption DEF TextInv, KindInv, TypeOK
<1> QED
  BY <1>1, <1>2, <1>3, <1>4, <1>5

\* A text of a release, or none, in place of the file's.
LEMMA TextureOf ==
  ASSUME NEW f \in Files, edits \in Nat, edits' = edits, disk'[f] \in Texts,
         disk'[f] # Absent => /\ disk'[f].text >= 0 \/ (Exists(f) /\ disk'[f].text = disk[f].text)
                              /\ HasBlock(f) \/ disk'[f].block >= 0,
         Texture(f)
  PROVE  Texture(f)'
BY DEF Texture, Old, Exists, Texts, Content

\* Told is kept of a file that init stages, writes or leaves.
LEMMA InitFileTold ==
  ASSUME TextInv, NEW f \in Files, InitFile(f)
  PROVE  Told(f)'
<1> DEFINE p == Policy[run.v][f]
           plan == PlanAppend(run.v, f, None)
<1>1. /\ Pending(f) /\ run.kind = "init"
      /\ UNCHANGED <<rec, release, modes, saved, edits, commands, touched, late>>
  BY DEF InitFile
<1>2. /\ run \in RunStates /\ run # Idle /\ f \in run.todo /\ f \notin run.staged /\ run.v \in Releases
      /\ disk \in [Files -> Texts] /\ disk[f] \in Texts /\ edits \in Nat
      /\ Kind(f, rec[f]) /\ Texture(f) /\ Telling(f, rec[f]) /\ Seen(f)
  BY <1>1, LookedUp
<1>3. disk' \in [Files -> Texts]
  BY InitFileEffect DEF TextInv, FileEffect
<1>4. run.rec[f] = None
  BY <1>1, <1>2 DEF TextInv, KindInv, Kinds, NoRecords
<1>5. disk'[f] = disk[f] /\ Safe(f) => Safe(f)'
  BY <1>1, CopiesStay
<1>6. \/ disk'[f] = disk[f]
      \/ p = "append" /\ ~plan.conflict /\ disk'[f] = plan.content
      \/ p \in {"project", "seed"} /\ ~Exists(f) /\ disk'[f] = Template(run.v, f)
  <2>1. CASE p = "append" /\ plan.conflict
    BY <2>1 DEF InitFile
  <2>2. CASE p = "append" /\ ~plan.conflict
    <3>1. disk' = [disk EXCEPT ![f] = plan.content]
      BY <2>2 DEF InitFile
    <3> QED
      BY <1>2, <2>2, <3>1
  <2>3. CASE p \in {"project", "seed"} /\ ~Exists(f)
    <3>1. disk' = [disk EXCEPT ![f] = Template(run.v, f)]
      BY <2>3 DEF InitFile
    <3> QED
      BY <1>2, <2>3, <3>1
  <2>4. CASE p # "append" /\ ~(p \in {"project", "seed"} /\ ~Exists(f))
    BY <2>4 DEF InitFile
  <2> QED
    BY <2>1, <2>2, <2>3, <2>4
<1>7. ASSUME ~plan.conflict
      PROVE  /\ plan.content \in Content /\ plan.content.block >= 0
             /\ plan.content.text = 0 \/ (Exists(f) /\ plan.content.text = disk[f].text)
  <2>1. /\ plan.content \in Content /\ plan.applied \in Releases
        /\ plan.content.block = plan.applied
        /\ plan.content.text = 0 \/ (Exists(f) /\ plan.content.text = disk[f].text)
    BY <1>2, <1>7, AppendPlan
  <2>2. plan.applied \in Nat
    BY <2>1, ReleasesAssumption
  <2> QED
    BY <2>1, <2>2
<1>8. Template(run.v, f).text >= 0 /\ Template(run.v, f).block >= 0
  BY <1>2, Contents DEF NoBlock, Content
<1> HIDE DEF plan
<1>9. Texture(f)'
  <2>1. CASE disk'[f] = disk[f]
    BY <1>1, <1>2, <2>1 DEF Texture, Old, Exists
  <2>2. CASE disk'[f] # disk[f]
    <3>1. disk'[f].text >= 0 \/ (Exists(f) /\ disk'[f].text = disk[f].text)
      BY <1>6, <1>7, <1>8, <2>2
    <3>2. disk'[f].block >= 0
      BY <1>6, <1>7, <1>8, <2>2
    <3> QED
      BY <1>1, <1>2, <1>3, <3>1, <3>2, TextureOf
  <2> QED
    BY <2>1, <2>2
<1>10. Telling(f, rec[f])'
  <2>1. rec[f] # None /\ rec[f].policy = "owned" => disk'[f] = disk[f]
    BY <1>2, <1>6, BlockKind
  <2> QED
    BY <1>1, <1>2, <1>5, <2>1, RecTellingStays
<1>11. ASSUME run' # Idle
       PROVE  Telling(f, run.rec[f])' /\ Seen(f)'
  <2>1. ~(p = "append" /\ plan.conflict)
    BY <1>11 DEF InitFile, plan
  <2>2. run' = [run EXCEPT !.todo = @ \ {f}, !.staged = IF p = "owned" THEN @ \cup {f} ELSE @]
    BY <2>1 DEF InitFile, plan
  <2>3. /\ run'.kind = "init" /\ run'.v = run.v /\ run'.rec = run.rec /\ run'.todo = run.todo \ {f}
        /\ run'.staged = IF p = "owned" THEN run.staged \cup {f} ELSE run.staged
    BY <1>1, <1>2, <2>2 DEF RunStates
  <2>4. Telling(f, run.rec[f])'
    BY <1>4, <2>3 DEF Telling
  <2>5. ASSUME f \notin late', p = "owned"
        PROVE  ~Exists(f)' /\ f \in run'.staged /\ Safe(f)'
    <3>1. ~Exists(f)
      BY <1>1, <1>2, <2>5 DEF Seen
    <3>2. disk'[f] = disk[f]
      BY <1>6, <2>5
    <3>3. disk'[f] = Absent
      BY <3>1, <3>2 DEF Exists
    <3>4. Safe(f)'
      BY <1>2, <3>2, <3>3, NothingToLose
    <3> QED
      BY <2>3, <2>5, <3>3, <3>4 DEF Exists
  <2>6. ASSUME p = "append"
        PROVE  disk'[f].block >= 0
    <3>1. disk'[f] = plan.content
      <4>1. disk' = [disk EXCEPT ![f] = plan.content]
        BY <2>1, <2>6 DEF InitFile, plan
      <4> QED
        BY <1>2, <4>1
    <3> QED
      BY <1>7, <2>1, <2>6, <3>1
  <2>7. f \in run'.staged => p = "owned"
    BY <1>2, <2>3
  <2>8. Seen(f)'
    BY <1>4, <2>3, <2>5, <2>6, <2>7 DEF Seen
  <2> QED
    BY <2>4, <2>8
<1> QED
  BY <1>9, <1>10, <1>11 DEF Told

\* Told is kept of a file whose block is put in, refreshed or in conflict.
LEMMA AppendFileTold ==
  ASSUME TextInv, NEW f \in Files, AppendFile(f)
  PROVE  Told(f)'
<1> DEFINE plan == PlanAppend(run.v, f, run.rec[f])
           new == State(run.v, f, plan.content, plan.applied)
<1>1. /\ Pending(f) /\ run.kind # "init" /\ Policy[run.v][f] = "append"
      /\ UNCHANGED <<rec, release, modes, saved, edits, commands, touched, late>>
  BY DEF AppendFile, Upgrading
<1>2. /\ run \in RunStates /\ run # Idle /\ f \in run.todo /\ f \notin run.staged /\ run.v \in Releases
      /\ disk \in [Files -> Texts] /\ disk[f] \in Texts /\ edits \in Nat
      /\ run.rec \in [Files -> FileRecords \cup {None}] /\ run.rec[f] \in FileRecords \cup {None}
      /\ Kind(f, rec[f]) /\ Kind(f, run.rec[f])
      /\ Texture(f) /\ Telling(f, rec[f]) /\ Telling(f, run.rec[f])
  BY <1>1, LookedUp
<1>3. disk' \in [Files -> Texts]
  BY UpgradeFileEffect DEF TextInv, FileEffect
<1>4. /\ HasBlock(f) /\ ~(rec[f] # None /\ rec[f].policy = "owned")
      /\ ~(run.rec[f] # None /\ run.rec[f].policy = "owned")
  BY <1>1, <1>2, BlockKind DEF HasBlock
<1>5. Telling(f, rec[f])'
  BY <1>1, <1>2, <1>4, RecTellingStays
<1>6. CASE plan.conflict
  <2>1. disk' = disk /\ run' = [run EXCEPT !.todo = @ \ {f}, !.conflicts = @ \cup {f}]
    BY <1>6 DEF AppendFile, Aside, Info
  <2>2. /\ run'.kind = run.kind /\ run'.v = run.v /\ run'.rec = run.rec
        /\ run'.staged = run.staged /\ run'.todo = run.todo \ {f}
    BY <1>2, <2>1 DEF RunStates
  <2>3. Texture(f)'
    BY <1>1, <1>2, <2>1 DEF Texture, Old, Exists
  <2>4. Telling(f, run.rec[f])'
    BY <1>1, <1>2, <1>4, <2>2, RunTellingStays
  <2>5. Seen(f)'
    BY <1>1, <1>2, <1>4, <2>2 DEF Seen
  <2> QED
    BY <1>5, <2>3, <2>4, <2>5 DEF Told
<1>7. CASE ~plan.conflict
  <2>1. disk' = [disk EXCEPT ![f] = plan.content]
        /\ run' = [run EXCEPT !.todo = @ \ {f}, !.rec = [run.rec EXCEPT ![f] = new]]
    BY <1>7 DEF AppendFile, Handled, Recorded, Info
  <2>2. /\ plan.content \in Content /\ plan.applied \in Releases
        /\ plan.content.text = 0 \/ (Exists(f) /\ plan.content.text = disk[f].text)
    BY <1>2, <1>7, AppendPlan
  <2>2a. plan.applied \in Nat
    BY <2>2, ReleasesAssumption
  <2>3. new.policy = "append" /\ new.hash = plan.content /\ new.applied = plan.applied
    BY <1>1 DEF State
  <2> HIDE DEF plan, new
  <2>4. disk'[f] = plan.content
    BY <1>2, <2>1
  <2>5. /\ run'.kind = run.kind /\ run'.v = run.v /\ run'.rec[f] = new
        /\ run'.staged = run.staged /\ run'.todo = run.todo \ {f}
    BY <1>2, <2>1 DEF RunStates
  <2>6. Texture(f)'
    <3>1. disk'[f].text >= 0 \/ (Exists(f) /\ disk'[f].text = disk[f].text)
      BY <2>2, <2>4
    <3> QED
      BY <1>1, <1>2, <1>3, <1>4, <3>1, TextureOf
  <2>7. Telling(f, run.rec[f])'
    <3>1. PICK info : info = new
      OBVIOUS
    <3>2. /\ info.policy = "append" /\ info.hash = disk'[f] /\ info.applied >= 0
          /\ run'.rec[f] = info
      BY <2>2a, <2>3, <2>4, <2>5, <3>1
    <3>3. Telling(f, info)'
      BY <2>6, <3>2 DEF Telling, Texture, Old
    <3> QED
      BY <3>2, <3>3 DEF Telling
  <2>8. Seen(f)'
    BY <1>1, <1>2, <2>3, <2>5 DEF Seen
  <2> QED
    BY <1>5, <2>6, <2>7, <2>8 DEF Told
<1> QED
  BY <1>6, <1>7

\* Told is kept of a harness-owned file that is passed over as unchanged.
LEMMA KeepOwnedTold ==
  ASSUME TextInv, NEW f \in Files, KeepOwned(f)
  PROVE  Told(f)'
<1>1. /\ Pending(f) /\ run.kind # "init" /\ Policy[run.v][f] = "owned" /\ Unchanged(f)
      /\ UNCHANGED <<disk, rec, release, modes, saved, edits, commands, touched, late>>
      /\ run' = [run EXCEPT !.todo = @ \ {f}, !.rec = run.rec]
  BY DEF KeepOwned, Upgrading, Handled
<1>2. /\ run \in RunStates /\ run # Idle /\ f \in run.todo /\ f \notin run.staged /\ run.v \in Releases
      /\ Texture(f) /\ Telling(f, rec[f]) /\ Telling(f, run.rec[f]) /\ Seen(f)
  BY <1>1, LookedUp
<1>3. /\ run'.kind = run.kind /\ run'.v = run.v /\ run'.rec = run.rec /\ run'.force = run.force
      /\ run'.staged = run.staged /\ run'.todo = run.todo \ {f}
  BY <1>1, <1>2 DEF RunStates
<1>4. disk'[f] = disk[f] /\ (Safe(f) => Safe(f)')
  BY <1>1, CopiesStay
<1>5. Texture(f)'
  BY <1>1, <1>2 DEF Texture, Old, Exists
<1>6. Telling(f, rec[f])' /\ Telling(f, run.rec[f])'
  BY <1>1, <1>2, <1>3, <1>4, RecTellingStays, RunTellingStays
<1>7. f \notin late /\ run.rec[f] # None /\ run.rec[f].policy = "owned" => Safe(f)
  BY <1>1, <1>2 DEF Unchanged, Modified, Info, Telling, Exists
<1>8. Seen(f)'
  BY <1>1, <1>2, <1>3, <1>4, <1>7 DEF Seen
<1> QED
  BY <1>5, <1>6, <1>8 DEF Told

\* Told is kept of a harness-owned file that is staged, after a copy if it was
\* modified.
LEMMA StageOwnedTold ==
  ASSUME TextInv, NEW f \in Files, StageOwned(f)
  PROVE  Told(f)'
<1> DEFINE new == State(run.v, f, Template(run.v, f), NoBlock)
           copy == [file |-> f, how |-> "backup", content |-> disk[f]]
<1>1. PICK fails \in {FALSE, Modified(f)} :
      /\ Pending(f) /\ run.kind # "init" /\ Policy[run.v][f] = "owned"
      /\ UNCHANGED <<disk, rec, release, modes, edits, commands, touched, late>>
      /\ saved' = (IF Modified(f) /\ ~fails THEN saved \cup {copy} ELSE saved)
      /\ run' = [run EXCEPT !.todo = @ \ {f}, !.staged = @ \cup {f},
                   !.backups = IF Modified(f) THEN @ \cup {f} ELSE @,
                   !.uncopied = IF fails THEN @ \cup {f} ELSE @, !.rec[f] = new]
  BY DEF StageOwned, Upgrading
<1>2. /\ run \in RunStates /\ run # Idle /\ f \in run.todo /\ f \notin run.staged /\ run.v \in Releases
      /\ run.rec \in [Files -> FileRecords \cup {None}] /\ run.rec[f] \in FileRecords \cup {None}
      /\ disk[f] \in Texts /\ edits \in Nat /\ Kind(f, run.rec[f])
      /\ Texture(f) /\ Telling(f, rec[f]) /\ Telling(f, run.rec[f]) /\ Seen(f)
  BY <1>1, LookedUp
<1>3. /\ new.policy = "owned" /\ new.hash = Template(run.v, f)
      /\ Template(run.v, f).text > 0 /\ Template(run.v, f) \in Content
  BY <1>1, <1>2, Contents DEF State
<1> HIDE DEF new
<1>4. /\ run'.kind = run.kind /\ run'.v = run.v /\ run'.force = run.force /\ run'.rec[f] = new
      /\ run'.staged = run.staged \cup {f} /\ run'.todo = run.todo \ {f}
      /\ run'.uncopied = (IF fails THEN run.uncopied \cup {f} ELSE run.uncopied)
  BY <1>1, <1>2 DEF RunStates
<1>5. disk'[f] = disk[f] /\ (Safe(f) => Safe(f)')
  BY <1>1, CopiesStay
<1>6. Texture(f)'
  BY <1>1, <1>2 DEF Texture, Old, Exists
<1>7. Telling(f, rec[f])'
  BY <1>1, <1>2, <1>5, RecTellingStays
<1>8. Exists(f) /\ disk[f].text = new.hash.text => Safe(f)'
  <2>1. Exists(f) => disk[f].block >= 0
    BY <1>1, <1>2, OwnedHasNoBlock DEF Texture
  <2> QED
    BY <1>2, <1>3, <1>5, <2>1, NothingToLose DEF Exists, Texts, Content
<1>9. Telling(f, run.rec[f])'
  <2>1. PICK info : info = new
    OBVIOUS
  <2>2. /\ info.policy = "owned" /\ info.hash \in Content /\ info.hash.text > 0 /\ run'.rec[f] = info
    BY <1>3, <1>4, <2>1
  <2>3. Old(info.hash)'
    BY <1>1, <1>2, <2>2 DEF Old, Content
  <2>4. Exists(f)' /\ disk'[f].text = info.hash.text => Safe(f)'
    BY <1>5, <1>8, <2>1 DEF Exists
  <2>5. Telling(f, info)'
    BY <2>2, <2>3, <2>4 DEF Telling
  <2> QED
    BY <2>2, <2>5 DEF Telling
<1>10. ASSUME f \notin late, ~run.force \/ run.kind = "adopt", ~fails
       PROVE  Safe(f)'
  <2>1. CASE run.force
    <3>1. run.kind = "adopt" /\ Safe(f)
      BY <1>1, <1>2, <1>10, <2>1 DEF Seen
    <3> QED
      BY <1>5, <3>1
  <2>2. CASE Modified(f)
    <3>1. copy \in saved'
      BY <1>1, <1>10, <2>2
    <3> QED
      BY <1>5, <3>1, CopyMakesSafe
  <2>3. CASE ~run.force /\ ~Modified(f) /\ Exists(f)
    <3>1. run.rec[f] # None /\ disk[f] = run.rec[f].hash
      BY <2>3 DEF Modified, Info
    <3>2. run.rec[f].policy = "owned"
      BY <1>1, <1>2, <3>1, BlockKind
    <3>3. Safe(f)
      BY <1>2, <1>10, <2>3, <3>1, <3>2 DEF Telling, Exists
    <3> QED
      BY <1>5, <3>3
  <2>4. CASE ~Exists(f)
    BY <1>2, <1>5, <2>4, NothingToLose DEF Exists
  <2> QED
    BY <2>1, <2>2, <2>3, <2>4
<1>11. Seen(f)'
  BY <1>1, <1>2, <1>4, <1>5, <1>10 DEF Seen
<1> QED
  BY <1>6, <1>7, <1>9, <1>11 DEF Told

\* Told is kept of a file whose block the release drops.
LEMMA RetireBlockTold ==
  ASSUME TextInv, NEW f \in Files, RetireBlock(f)
  PROVE  Told(f)'
<1> DEFINE plan == PlanRetirement(f, run.rec[f])
<1>1. /\ Pending(f) /\ run.kind # "init" /\ Policy[run.v][f] = "none"
      /\ run.rec[f] # None /\ run.rec[f].policy = "append"
      /\ UNCHANGED <<rec, release, modes, edits, commands, touched, late>>
  BY DEF RetireBlock, Upgrading, Retired, Info
<1>2. /\ run \in RunStates /\ run # Idle /\ f \in run.todo /\ f \notin run.staged /\ run.v \in Releases
      /\ run.rec \in [Files -> FileRecords \cup {None}] /\ run.rec[f] \in FileRecords \cup {None}
      /\ disk \in [Files -> Texts] /\ disk[f] \in Texts /\ edits \in Nat
      /\ Kind(f, rec[f]) /\ Kind(f, run.rec[f])
      /\ Texture(f) /\ Telling(f, rec[f]) /\ Telling(f, run.rec[f])
  BY <1>1, LookedUp
<1>3. disk' \in [Files -> Texts]
  BY RetiredFileEffect DEF TextInv, FileEffect
<1>4. HasBlock(f) /\ ~(rec[f] # None /\ rec[f].policy = "owned")
  BY <1>1, <1>2, BlockKind
<1>5. Telling(f, rec[f])'
  BY <1>1, <1>2, <1>4, RecTellingStays
<1>6. CASE plan.conflict
  <2>1. disk' = disk /\ run' = [run EXCEPT !.todo = @ \ {f}, !.conflicts = @ \cup {f}]
    BY <1>6 DEF RetireBlock, Aside, Info
  <2>2. /\ run'.kind = run.kind /\ run'.v = run.v /\ run'.rec = run.rec
        /\ run'.staged = run.staged /\ run'.todo = run.todo \ {f}
    BY <1>2, <2>1 DEF RunStates
  <2>3. Texture(f)'
    BY <1>1, <1>2, <2>1 DEF Texture, Old, Exists
  <2>4. Telling(f, run.rec[f])'
    BY <1>1, <1>2, <2>2, RunTellingStays
  <2>5. Seen(f)'
    BY <1>1, <1>2, <2>2 DEF Seen
  <2> QED
    BY <1>5, <2>3, <2>4, <2>5 DEF Told
<1>7. CASE ~plan.conflict
  <2>1. disk' = [disk EXCEPT ![f] = plan.content]
        /\ run' = [run EXCEPT !.todo = @ \ {f}, !.rec = [run.rec EXCEPT ![f] = None]]
    BY <1>7 DEF RetireBlock, Handled, Recorded, Info
  <2>2. /\ disk[f] = Absent => plan.content = Absent
        /\ Exists(f) => plan.content \in Content /\ plan.content.text = disk[f].text
    BY <1>1, <1>2, <1>7, RetirementPlan
  <2> HIDE DEF plan
  <2>3. disk'[f] = plan.content
    BY <1>2, <2>1
  <2>4. /\ run'.kind = run.kind /\ run'.v = run.v /\ run'.rec[f] = None
        /\ run'.staged = run.staged /\ run'.todo = run.todo \ {f}
    BY <1>2, <2>1 DEF RunStates
  <2>5. Texture(f)'
    BY <1>1, <1>2, <1>3, <1>4, <2>2, <2>3, TextureOf DEF Exists
  <2>6. Telling(f, run.rec[f])'
    BY <2>4 DEF Telling
  <2>7. Seen(f)'
    BY <1>1, <1>2, <2>4 DEF Seen
  <2> QED
    BY <1>5, <2>5, <2>6, <2>7 DEF Told
<1> QED
  BY <1>6, <1>7

\* Told is kept of a file that the release drops: a modified one is copied.
LEMMA RetireFileTold ==
  ASSUME TextInv, NEW f \in Files, RetireFile(f)
  PROVE  Told(f)'
<1> DEFINE copy == [file |-> f, how |-> "retired", content |-> disk[f]]
<1>1. /\ Pending(f) /\ run.kind # "init" /\ Policy[run.v][f] = "none"
      /\ UNCHANGED <<rec, release, modes, edits, commands, touched, late>>
  BY DEF RetireFile, Upgrading, Retired
<1>2. /\ run \in RunStates /\ run # Idle /\ f \in run.todo /\ f \notin run.staged /\ run.v \in Releases
      /\ run.rec \in [Files -> FileRecords \cup {None}]
      /\ disk \in [Files -> Texts] /\ disk[f] \in Texts
      /\ Texture(f) /\ Telling(f, rec[f]) /\ Telling(f, run.rec[f])
  BY <1>1, LookedUp
<1>3. CASE Exists(f) /\ disk[f] # Info(f).hash
  <2>1. /\ disk' = disk /\ run' = [run EXCEPT !.todo = @ \ {f}, !.conflicts = @ \cup {f}]
        /\ copy \in saved'
    BY <1>3 DEF RetireFile, Aside, Save
  <2>2. /\ run'.kind = run.kind /\ run'.v = run.v /\ run'.rec = run.rec
        /\ run'.staged = run.staged /\ run'.todo = run.todo \ {f}
    BY <1>2, <2>1 DEF RunStates
  <2>3. Safe(f)'
    BY <2>1, CopyMakesSafe
  <2>4. Texture(f)'
    BY <1>1, <1>2, <2>1 DEF Texture, Old, Exists
  <2>5. Telling(f, rec[f])' /\ Telling(f, run.rec[f])'
    BY <1>1, <1>2, <2>2, <2>3, RecTellingStays, RunTellingStays
  <2>6. Seen(f)'
    BY <1>1, <1>2, <2>2, <2>3 DEF Seen
  <2> QED
    BY <2>4, <2>5, <2>6 DEF Told
<1>4. CASE ~(Exists(f) /\ disk[f] # Info(f).hash)
  <2>1. disk' = [disk EXCEPT ![f] = Absent]
        /\ run' = [run EXCEPT !.todo = @ \ {f}, !.rec = [run.rec EXCEPT ![f] = None]]
    BY <1>4 DEF RetireFile, Handled, Recorded
  <2>2. disk'[f] = Absent
    BY <1>2, <2>1
  <2>3. /\ run'.kind = run.kind /\ run'.v = run.v /\ run'.rec[f] = None
        /\ run'.staged = run.staged /\ run'.todo = run.todo \ {f}
    BY <1>2, <2>1 DEF RunStates
  <2>4. Safe(f)'
    BY <2>2, NothingToLose DEF Texts
  <2>5. Texture(f)'
    BY <2>2 DEF Texture, Old, Exists
  <2>6. Telling(f, rec[f])' /\ Telling(f, run.rec[f])'
    BY <1>1, <1>2, <2>3, <2>4, RecTellingStays DEF Telling
  <2>7. Seen(f)'
    BY <1>1, <1>2, <2>3, <2>4 DEF Seen
  <2> QED
    BY <2>5, <2>6, <2>7 DEF Told
<1> QED
  BY <1>3, <1>4

\* Told is kept of the graveyard, of project files and of seeds.
LEMMA OtherFileTold ==
  ASSUME TextInv, NEW f \in Files, OtherFile(f)
  PROVE  Told(f)'
<1>1. /\ Pending(f) /\ run.kind # "init" /\ ~Retired(f)
      /\ Policy[run.v][f] \in {"project", "seed", "none"}
      /\ UNCHANGED <<rec, release, modes, saved, edits, commands, touched, late>>
  BY DEF OtherFile, Upgrading
<1>2. /\ run \in RunStates /\ run # Idle /\ f \in run.todo /\ f \notin run.staged /\ run.v \in Releases
      /\ run.rec \in [Files -> FileRecords \cup {None}] /\ run.rec[f] \in FileRecords \cup {None}
      /\ disk \in [Files -> Texts] /\ disk[f] \in Texts /\ Kind(f, run.rec[f])
      /\ Texture(f) /\ Telling(f, rec[f]) /\ Telling(f, run.rec[f])
  BY <1>1, LookedUp
<1>3. ~(run.rec[f] # None /\ run.rec[f].policy = "owned")
  BY <1>1, <1>2, BlockKind DEF Retired, Info, Owned
<1>4. CASE Info(f) = None /\ f \in Graveyard[run.v]
  <2>1. disk' = [disk EXCEPT ![f] = Absent] /\ run' = [run EXCEPT !.todo = @ \ {f}, !.rec = run.rec]
    BY <1>4 DEF OtherFile, Handled
  <2>2. disk'[f] = Absent
    BY <1>2, <2>1
  <2>3. /\ run'.kind = run.kind /\ run'.v = run.v /\ run'.rec[f] = None
        /\ run'.staged = run.staged /\ run'.todo = run.todo \ {f}
    BY <1>2, <1>4, <2>1 DEF RunStates, Info
  <2>4. Safe(f)'
    BY <2>2, NothingToLose DEF Texts
  <2>5. Texture(f)'
    BY <2>2 DEF Texture, Old, Exists
  <2>6. Telling(f, rec[f])' /\ Telling(f, run.rec[f])'
    BY <1>1, <1>2, <2>3, <2>4, RecTellingStays DEF Telling
  <2>7. Seen(f)'
    BY <1>1, <1>2, <2>3, <2>4 DEF Seen
  <2> QED
    BY <2>5, <2>6, <2>7 DEF Told
<1>5. CASE ~(Info(f) = None /\ f \in Graveyard[run.v])
  <2> DEFINE new == State(run.v, f, disk[f], NoBlock)
             again == Policy[run.v][f] = "project" /\ Exists(f)
  <2>1. /\ disk' = disk
        /\ run' = [run EXCEPT !.todo = @ \ {f},
                     !.rec = IF again THEN [run.rec EXCEPT ![f] = new] ELSE run.rec]
    BY <1>5 DEF OtherFile, Handled, Recorded
  <2>2. again => new.policy = "project" /\ new.hash = disk[f]
    BY DEF State
  <2> HIDE DEF new
  <2>3. /\ run'.kind = run.kind /\ run'.v = run.v
        /\ run'.rec[f] = IF again THEN new ELSE run.rec[f]
        /\ run'.staged = run.staged /\ run'.todo = run.todo \ {f}
    BY <1>2, <2>1 DEF RunStates
  <2>4. Texture(f)'
    BY <1>1, <1>2, <2>1 DEF Texture, Old, Exists
  <2>5. Telling(f, rec[f])'
    <3>1. disk'[f] = disk[f] /\ (Safe(f) => Safe(f)')
      BY <1>1, <2>1, CopiesStay
    <3> QED
      BY <1>1, <1>2, <3>1, RecTellingStays
  <2>6. Telling(f, run.rec[f])'
    <3>1. CASE again
      <4>1. PICK info : info = new
        OBVIOUS
      <4>2. info.policy = "project" /\ info.hash = disk'[f] /\ run'.rec[f] = info
        BY <2>1, <2>2, <2>3, <3>1, <4>1
      <4>3. Telling(f, info)'
        BY <2>4, <4>2 DEF Telling, Texture, Old
      <4> QED
        BY <4>2, <4>3 DEF Telling
    <3>2. CASE ~again
      BY <1>1, <1>2, <1>3, <2>3, <3>2, RunTellingStays
    <3> QED
      BY <3>1, <3>2
  <2>7. Seen(f)'
    BY <1>1, <1>2, <1>3, <2>2, <2>3 DEF Seen
  <2> QED
    BY <2>4, <2>5, <2>6, <2>7 DEF Told
<1> QED
  BY <1>4, <1>5

\* A step on any file leaves each file told.
LEMMA FileStepTold ==
  ASSUME TextInv, NEW f \in Files, NEW g \in Files, FileStep(g)
  PROVE  Told(f)'
<1>1. CASE f # g
  BY <1>1, FileStepEffect, OthersStayTold DEF TextInv
<1>2. CASE f = g
  BY <1>2, InitFileTold, AppendFileTold, KeepOwnedTold, StageOwnedTold, RetireBlockTold,
     RetireFileTold, OtherFileTold DEF FileStep
<1> QED
  BY <1>1, <1>2

\* The beginning of a run.
LEMMA BeginTold ==
  ASSUME TextInv, NEW v \in Releases, NEW m, NEW force \in BOOLEAN, NEW f \in Files,
         InitBegins(v, m) \/ InitForced(v, m) \/ UpgradeBegins(v, force)
  PROVE  Told(f)'
<1>1. Texture(f) /\ Telling(f, rec[f]) /\ disk \in [Files -> Texts]
  BY DEF TextInv, Told, KindInv, TypeOK
<1>2. CASE InitBegins(v, m)
  <2>1. /\ UNCHANGED <<disk, rec, saved, edits, late>> /\ Existing(v) = {}
        /\ run'.kind = "init" /\ run'.v = v /\ run'.rec[f] = None
        /\ run'.todo = Files /\ run'.staged = {}
    BY <1>2 DEF InitBegins, Begins, NoRecords
  <2>2. disk'[f] = disk[f] /\ (Safe(f) => Safe(f)')
    BY <2>1, CopiesStay
  <2>3. Texture(f)'
    BY <1>1, <2>1 DEF Texture, Old, Exists
  <2>4. Telling(f, rec[f])' /\ Telling(f, run.rec[f])'
    BY <1>1, <2>1, <2>2, RecTellingStays DEF Telling
  <2>5. Policy[v][f] = "owned" => ~Exists(f)'
    BY <2>1 DEF Existing, Exists
  <2>6. Seen(f)'
    BY <2>1, <2>5 DEF Seen
  <2> QED
    BY <2>3, <2>4, <2>6 DEF Told
<1>3. CASE InitForced(v, m)
  <2>1. /\ disk' = [g \in Files |-> IF g \in Existing(v) THEN Absent ELSE disk[g]]
        /\ UNCHANGED <<edits, late>> /\ rec'[f] = None
        /\ run'.kind = "init" /\ run'.v = v /\ run'.rec[f] = None
        /\ run'.todo = Files /\ run'.staged = {}
    BY <1>3 DEF InitForced, Begins, NoRecords
  <2>2. Texture(f)'
    BY <1>1, <2>1 DEF Texture, Old, Exists
  <2>3. Telling(f, rec[f])' /\ Telling(f, run.rec[f])'
    BY <2>1 DEF Telling
  <2>4. Policy[v][f] = "owned" => ~Exists(f)'
    BY <2>1 DEF Existing, Exists
  <2>5. Seen(f)'
    BY <2>1, <2>4 DEF Seen
  <2> QED
    BY <2>2, <2>3, <2>5 DEF Told
<1>4. CASE UpgradeBegins(v, force)
  <2>1. /\ UNCHANGED <<disk, rec, saved, edits, late>>
        /\ run'.kind = "upgrade" /\ run'.v = v /\ run'.rec = rec
        /\ run'.todo = Files /\ run'.staged = {}
    BY <1>4 DEF UpgradeBegins, Begins
  <2>2. disk'[f] = disk[f] /\ (Safe(f) => Safe(f)')
    BY <2>1, CopiesStay
  <2>3. Texture(f)'
    BY <1>1, <2>1 DEF Texture, Old, Exists
  <2>4. Telling(f, rec[f])'
    BY <1>1, <2>1, <2>2, RecTellingStays
  <2>5. Telling(f, run.rec[f])'
    <3>1. PICK info : info = rec[f]
      OBVIOUS
    <3>2. Telling(f, info)'
      BY <2>1, <2>4, <3>1 DEF Telling
    <3>3. run'.rec[f] = info
      BY <2>1, <3>1
    <3> QED
      BY <3>2, <3>3 DEF Telling
  <2>6. Seen(f)'
    BY <2>1 DEF Seen
  <2> QED
    BY <2>3, <2>4, <2>5, <2>6 DEF Told
<1> QED
  BY <1>2, <1>3, <1>4

\* Adoption, which records what is the release's and copies the rest.
LEMMA AdoptTold ==
  ASSUME TextInv, NEW v \in Releases, NEW m \in Modes, NEW force \in BOOLEAN, NEW f \in Files,
         AdoptBegins(v, force, m)
  PROVE  Told(f)'
<1> DEFINE foreign == {g \in Files : ForeignFile(v, g)}
<1>1. Texture(f) /\ disk \in [Files -> Texts]
  BY DEF TextInv, Told, KindInv, TypeOK
<1>2. /\ UNCHANGED <<disk, rec, release, edits, late>> /\ release = 0 /\ ~ForeignBlock(v, f)
      /\ saved' = Save("adopted", foreign, disk)
      /\ run'.kind = "adopt" /\ run'.v = v /\ run'.rec[f] = AsAdopted(v, f)
      /\ run'.todo = Files /\ run'.staged = {}
  BY DEF AdoptBegins, Begins
<1>3. rec'[f] = None
  BY <1>2 DEF TextInv, KindInv, Kinds, NoRecords
<1>4. Texture(f)'
  BY <1>1, <1>2 DEF Texture, Old, Exists
<1>5. Policy[v][f] = "owned" => Safe(f)'
  <2>1. CASE ForeignFile(v, f)
    <3>1. [file |-> f, how |-> "adopted", content |-> disk[f]] \in saved'
      BY <1>2, <2>1 DEF Save
    <3> QED
      BY <1>2, <3>1, CopyMakesSafe
  <2>2. CASE Policy[v][f] = "owned" /\ ~ForeignFile(v, f)
    <3>1. disk[f] = Absent \/ disk[f] = Template(v, f)
      BY <2>2 DEF ForeignFile, Exists
    <3> QED
      BY <1>1, <1>2, <3>1, NothingToLose, Contents DEF NoBlock, Content
  <2> QED
    BY <2>1, <2>2
<1>6. Telling(f, run.rec[f])'
  <2>1. PICK info : info = AsAdopted(v, f)
    OBVIOUS
  <2>2. info # None => info.hash = disk[f] /\ info.policy = Policy[v][f]
                       /\ info.policy \in {"project", "append", "owned"}
    BY <2>1 DEF AsAdopted, State
  <2>3. info # None /\ info.policy = "append" => info.applied >= 0
    <3>1. CASE Policy[v][f] = "append" /\ Exists(f) /\ disk[f].block # NoBlock
      <4>1. info.applied = disk[f].block
        BY <2>1, <3>1 DEF AsAdopted, State
      <4>2. disk[f].block \in Releases
        BY <1>2, <3>1 DEF ForeignBlock
      <4>3. disk[f].block \in Nat
        BY <4>2, ReleasesAssumption
      <4> QED
        BY <4>1, <4>3
    <3>2. CASE Policy[v][f] = "append" /\ ~(Exists(f) /\ disk[f].block # NoBlock)
      <4>1. info = None
        BY <2>1, <3>2 DEF AsAdopted
      <4> QED
        BY <4>1
    <3> QED
      BY <2>2, <3>1, <3>2
  <2>4. Telling(f, info)'
    BY <1>2, <1>4, <1>5, <2>2, <2>3 DEF Telling, Texture, Old
  <2>5. run'.rec[f] = info
    BY <1>2, <2>1
  <2> QED
    BY <2>4, <2>5 DEF Telling
<1>7. Telling(f, rec[f])'
  BY <1>3 DEF Telling
<1>8. Seen(f)'
  BY <1>2, <1>5 DEF Seen
<1> QED
  BY <1>4, <1>6, <1>7, <1>8 DEF Told

\* What the user does to a file behind a run.
LEMMA UserTold ==
  ASSUME TextInv, NEW f \in Files, NEW g \in Files, UserEdits(g)
  PROVE  Told(f)'
<1>1. /\ edits' = edits + 1 /\ late' = (IF LookedAt(g) THEN late \cup {g} ELSE late)
      /\ UNCHANGED <<rec, saved, run>>
  BY DEF UserEdits
<1>2. /\ disk \in [Files -> Texts] /\ edits \in Nat /\ rec[f] \in FileRecords \cup {None}
      /\ run # Idle => run \in RunStates /\ run.rec[f] \in FileRecords \cup {None}
                       /\ Kind(f, run.rec[f]) /\ run.staged \cap run.todo = {}
      /\ Kind(f, rec[f]) /\ Told(f)
  BY BoundsAssumption DEF TextInv, KindInv, TypeOK, Kinds, RunStates
<1>3. PICK c \in Edited(g) : disk' = [disk EXCEPT ![g] = c]
  BY DEF UserEdits
<1>4. f # g => disk'[f] = disk[f] /\ (Safe(f) => Safe(f)')
  <2>1. f # g => disk'[f] = disk[f]
    BY <1>2, <1>3
  <2> QED
    BY <1>1, <2>1, CopiesStay
<1>5. ASSUME f = g
      PROVE  /\ c # Absent => /\ c.text = 0 - (edits + 1) \/ (HasBlock(f) /\ Exists(f) /\ c.text = disk[f].text)
                                \/ (HasBlock(f) /\ ~Exists(f) /\ c.text = 0)
                              /\ HasBlock(f) \/ (IF Exists(f) THEN c.block = disk[f].block ELSE c.block = 0)
             /\ disk'[f] = c
  <2> DEFINE old == IF Exists(f) THEN disk[f] ELSE [text |-> 0, block |-> NoBlock]
             u == 0 - (edits + 1)
  <2>1. old \in Content /\ u \in Int /\ NoBlock = 0
    BY <1>2 DEF Exists, Texts, Content, NoBlock
  <2>2. \/ c = Absent \/ c = [old EXCEPT !.text = u]
        \/ HasBlock(f) /\ \E b \in {u, Broken, NoBlock} : c = [old EXCEPT !.block = b]
    BY <1>3, <1>5 DEF Edited
  <2>3. c # Absent => /\ c.text = u \/ (HasBlock(f) /\ c.text = old.text)
                      /\ HasBlock(f) \/ c.block = old.block
    <3> HIDE DEF old, u
    <3> QED
      BY <2>1, <2>2 DEF Content
  <2>4. disk'[f] = c
    BY <1>2, <1>3, <1>5
  <2> QED
    BY <2>1, <2>3, <2>4
<1>6. Texture(f)'
  <2>1. CASE f # g
    BY <1>1, <1>2, <1>4, <2>1 DEF Told, Texture, Old, Exists, Texts, Content
  <2>2. CASE f = g
    <3>1. disk'[f] # Absent => disk'[f].text >= 0 - edits'
      BY <1>1, <1>2, <1>5, <2>2 DEF Told, Texture, Old, Exists, Texts, Content
    <3>2. disk'[f] # Absent /\ ~HasBlock(f) => disk'[f].block >= 0
      BY <1>2, <1>5, <2>2 DEF Told, Texture
    <3> QED
      BY <3>1, <3>2 DEF Texture, Old, Exists
  <2> QED
    BY <2>1, <2>2
<1>7. ASSUME NEW info \in FileRecords \cup {None}, Telling(f, info), Kind(f, info)
      PROVE  Telling(f, info)'
  <2>1. info # None => info.hash \in Texts
    BY DEF FileRecords
  <2>2. info # None => Old(info.hash)'
    BY <1>1, <1>2, <1>7, <2>1 DEF Telling, Old, Texts, Content
  <2>3. ASSUME info # None, f \notin late', info.policy = "owned", Exists(f)', info.hash # Absent,
               disk'[f].text = info.hash.text
        PROVE  Safe(f)'
    <3>1. CASE f # g
      <4>1. Exists(f) /\ f \notin late /\ disk[f].text = info.hash.text
        BY <1>1, <1>4, <2>3, <3>1 DEF Exists
      <4>2. Safe(f)
        BY <1>7, <2>3, <4>1 DEF Telling
      <4> QED
        BY <1>4, <3>1, <4>2
    <3>2. CASE f = g
      <4>1. ~HasBlock(f)
        BY <1>7, <2>3, BlockKind
      <4>2. info.hash.text = 0 - (edits + 1)
        BY <1>5, <2>3, <3>2, <4>1 DEF Exists
      <4>3. info.hash.text >= 0 - edits
        BY <1>7, <2>3 DEF Telling, Old
      <4> QED
        BY <1>2, <4>2, <4>3
    <3> QED
      BY <3>1, <3>2
  <2>4. ASSUME info # None, f \notin late'
        PROVE  /\ info.policy = "managed" => info.hash # Absent /\ info.hash.text > 0 /\ info.hash.block = NoBlock
               /\ info.policy \in {"append", "managed"} => info.applied >= 0
    BY <1>1, <1>7, <2>4 DEF Telling
  <2> QED
    BY <2>2, <2>3, <2>4 DEF Telling
<1>8. Telling(f, rec[f])'
  <2>1. PICK info \in FileRecords \cup {None} : info = rec[f]
    BY <1>2
  <2>2. Telling(f, info) /\ Kind(f, info)
    BY <1>2, <2>1 DEF Told, Telling
  <2>3. Telling(f, info)'
    BY <1>7, <2>2
  <2> QED
    BY <1>1, <2>1, <2>3 DEF Telling
<1>9. ASSUME run' # Idle
      PROVE  Telling(f, run.rec[f])' /\ Seen(f)'
  <2>1. PICK info \in FileRecords \cup {None} : info = run.rec[f]
    BY <1>1, <1>2, <1>9
  <2>2. Telling(f, info) /\ Kind(f, info)
    BY <1>1, <1>2, <1>9, <2>1 DEF Told, Telling
  <2>3. Telling(f, info)'
    BY <1>7, <2>2
  <2>4. Telling(f, run.rec[f])'
    BY <1>1, <2>1, <2>3 DEF Telling
  <2>5. Seen(f)'
    <3>1. CASE f # g
      BY <1>1, <1>2, <1>4, <1>9, <3>1 DEF Told, Seen, Exists
    <3>2. CASE f = g
      <4>1. f \notin late' => ~LookedAt(f)
        BY <1>1, <3>2
      <4>2. f \notin late' => f \in run.todo /\ ~(Policy[run.v][f] = "owned" /\ (run.force \/ run.kind = "init"))
        BY <1>1, <1>9, <4>1 DEF LookedAt
      <4> QED
        BY <1>1, <1>2, <1>9, <4>2 DEF Seen
    <3> QED
      BY <3>1, <3>2
  <2> QED
    BY <2>4, <2>5
<1> QED
  BY <1>6, <1>8, <1>9 DEF Told

\* What the end of a run puts in place of a file: no new text of the user's.
LEMMA LandedText ==
  ASSUME TextInv, run # Idle, NEW f \in Files
  PROVE  /\ Landed \in [Files -> Texts]
         /\ f \in run.staged => /\ Landed[f] # Absent /\ Landed[f].text > 0 /\ Landed[f].block >= 0
         /\ f \notin run.staged /\ Landed[f] # Absent =>
              /\ Exists(f) /\ Landed[f].text = disk[f].text
              /\ Landed[f].block = disk[f].block \/ Landed[f].block >= 0
         /\ f \notin run.staged /\ f # Roomodes => Landed[f] = disk[f]
<1> DEFINE down == IF f \in run.staged THEN Template(run.v, f) ELSE disk[f]
<1>1. /\ run \in RunStates /\ run.v \in Releases /\ Landed \in [Files -> Texts]
      /\ Landed[f] = IF f = Roomodes /\ down # Absent THEN BlockOf(run.modes, down) ELSE down
  BY Landing DEF TextInv, KindInv
<1>2. disk[f] \in Texts /\ run.modes \in Nat
  BY <1>1 DEF TextInv, KindInv, TypeOK, RunStates
<1>3. Template(run.v, f) \in Content /\ Template(run.v, f).text > 0 /\ Template(run.v, f).block = 0
  BY <1>1, Contents DEF NoBlock
<1>4. down \in Texts
  BY <1>2, <1>3 DEF Texts
<1>5. down # Absent => /\ BlockOf(run.modes, down).text = down.text
                       /\ BlockOf(run.modes, down).block = run.modes
                       /\ BlockOf(run.modes, down) \in Content
  <2>1. run.modes \in Int /\ (down # Absent => down \in Content)
    BY <1>2, <1>4 DEF Texts
  <2> HIDE DEF down
  <2> QED
    BY <2>1, Contents
<1>6. CASE f \in run.staged
  <2>1. down = Template(run.v, f) /\ down # Absent
    BY <1>3, <1>6, Contents
  <2>2. Landed[f] = BlockOf(run.modes, down) \/ Landed[f] = down
    BY <1>1
  <2> HIDE DEF down
  <2> QED
    BY <1>1, <1>2, <1>3, <1>5, <1>6, <2>1, <2>2, Contents
<1>7. CASE f \notin run.staged
  <2>1. down = disk[f]
    BY <1>7
  <2> HIDE DEF down
  <2> QED
    BY <1>1, <1>2, <1>5, <1>7, <2>1 DEF Exists
<1> QED
  BY <1>6, <1>7

\* What it leaves of the text of a file it has not staged.
LEMMA LandedSafe ==
  ASSUME TextInv, run # Idle, NEW f \in Files, disk'[f] = Landed[f], saved' = saved
  PROVE  /\ f \in run.staged => Safe(f)'
         /\ f \notin run.staged /\ Safe(f) => Safe(f)'
<1>1. disk'[f] \in Texts /\ disk[f] \in Texts
  BY LandedText DEF TextInv, KindInv, TypeOK
<1>2. f \in run.staged => Safe(f)'
  <2>1. f \in run.staged => disk'[f].text >= 0 /\ disk'[f].block >= 0
    BY <1>1, LandedText DEF Texts, Content
  <2> QED
    BY <1>1, <2>1, NothingToLose
<1>3. ASSUME f \notin run.staged, Safe(f)
      PROVE  Safe(f)'
  <2>1. UserTexts(disk'[f]) \subseteq UserTexts(disk[f])
    <3>1. disk'[f] # Absent => /\ disk[f] # Absent /\ disk'[f].text = disk[f].text
                               /\ disk'[f].block = disk[f].block \/ disk'[f].block >= 0
      BY <1>3, LandedText DEF Exists
    <3> QED
      BY <1>1, <3>1, Fewer
  <2>2. Copies(f) \subseteq Copies(f)'
    BY CopiesStay
  <2> QED
    BY <1>3, <2>1, <2>2 DEF Safe
<1> QED
  BY <1>2, <1>3

\* The end of a run.
LEMMA CompleteTold ==
  ASSUME TextInv, Complete, NEW f \in Files
  PROVE  Told(f)'
<1> DEFINE records == IF run.kind = "init" THEN Composed ELSE run.rec
<1>1. /\ run # Idle /\ run' = Idle /\ disk' = Landed /\ rec' = Stamped(records, Landed)
      /\ UNCHANGED <<saved, edits, late>> /\ run.todo = {}
      /\ run.kind = "init" => Composable
  BY DEF Complete
<1>2. run \in RunStates /\ run.v \in Releases /\ Landed \in [Files -> Texts] /\ disk[f] \in Texts
  BY <1>1, Landing DEF TextInv, KindInv, TypeOK
<1>3. /\ Telling(f, run.rec[f]) /\ Seen(f) /\ Texture(f) /\ Kind(f, run.rec[f]) /\ edits \in Nat
  BY <1>1, BoundsAssumption DEF TextInv, Told, KindInv, TypeOK, Kinds
<1>4. records \in [Files -> FileRecords \cup {None}]
  BY <1>1, <1>2, Composing DEF TextInv, KindInv, RunStates
<1>5. Texture(f)'
  <2>1. disk'[f] \in Texts
    BY <1>1, <1>2
  <2>2. disk'[f] # Absent => disk'[f].text >= 0 \/ (Exists(f) /\ disk'[f].text = disk[f].text)
    BY <1>1, <2>1, LandedText DEF Texts, Content
  <2>3. disk'[f] # Absent => HasBlock(f) \/ disk'[f].block >= 0
    BY <1>1, <1>3, LandedText DEF Texture
  <2> QED
    BY <1>1, <1>3, <2>1, <2>2, <2>3, TextureOf
<1>6. /\ f \in run.staged => Safe(f)'
      /\ f \notin run.staged /\ Safe(f) => Safe(f)'
  BY <1>1, LandedSafe
\* What the record says before it is stamped.
<1>7. ASSUME records[f] # None
      PROVE  /\ Old(records[f].hash)
             /\ f \notin late =>
                  /\ records[f].policy = "managed" =>
                       records[f].hash # Absent /\ records[f].hash.text > 0 /\ records[f].hash.block = NoBlock
                  /\ records[f].policy \in {"append", "managed"} => records[f].applied >= 0
                  /\ records[f].policy = "owned" => f \in run.staged \/ Safe(f)
             /\ records[f].policy = "managed" => f # Roomodes
  <2>1. CASE run.kind = "init"
    <3>1. Policy[run.v][f] # "none"
      BY <1>1, <1>7, <2>1, Composing DEF TextInv, KindInv
    <3>2. /\ records[f].policy = Policy[run.v][f] /\ records[f].policy # "managed"
          /\ records[f].hash = IF f \in run.staged THEN Template(run.v, f) ELSE disk[f]
          /\ Policy[run.v][f] = "append" /\ f \notin run.staged =>
                        Exists(f) /\ records[f].applied = disk[f].block
      BY <1>1, <2>1, <3>1, Composing DEF TextInv, KindInv
    <3>3. Old(records[f].hash)
      <4>1. Old(Template(run.v, f))
        BY <1>2, <1>3, Contents DEF Old, Content
      <4> QED
        BY <1>3, <3>2, <4>1 DEF Texture
    <3>4. f \notin late /\ Policy[run.v][f] = "owned" => f \in run.staged
      BY <1>1, <1>3, <2>1 DEF Seen
    <3>5. f \in run.staged => Policy[run.v][f] = "owned"
      BY <1>1 DEF TextInv, KindInv, Kinds
    <3>6. f \notin late /\ Policy[run.v][f] = "append" => records[f].applied >= 0
      BY <1>1, <1>3, <2>1, <3>2, <3>5 DEF Seen
    <3> QED
      BY <3>2, <3>3, <3>4, <3>6
  <2>2. CASE run.kind # "init"
    <3>1. records[f] = run.rec[f]
      BY <2>2
    <3>2. run.rec[f].policy = "managed" => f # Roomodes
      BY <1>3, <1>7, <3>1, BlockKind, PolicyAssumption DEF HasBlock
    <3>3. f \notin late /\ run.rec[f].policy = "owned" => f \in run.staged \/ Safe(f)
      BY <1>1, <1>3, <1>7, <3>1 DEF Seen
    <3> HIDE DEF records
    <3> QED
      BY <1>3, <1>7, <3>1, <3>2, <3>3 DEF Telling
  <2> QED
    BY <2>1, <2>2
<1> HIDE DEF records
<1>8. /\ records[f] = None => rec'[f] = None
      /\ records[f] # None =>
           /\ rec'[f].policy = records[f].policy /\ rec'[f].applied = records[f].applied
           /\ rec'[f].hash = IF f = Roomodes /\ Landed[f] # Absent THEN disk'[f] ELSE records[f].hash
  BY <1>1, <1>2, <1>4, Stamping
<1>9. Telling(f, rec[f])'
  <2>1. CASE records[f] = None
    BY <1>8, <2>1 DEF Telling
  <2>2. ASSUME records[f] # None
        PROVE  Telling(f, rec[f])'
    <3>1. Old(rec[f].hash)'
      <4>1. Old(records[f].hash)
        BY <1>7, <2>2
      <4> QED
        BY <1>1, <1>5, <1>8, <2>2, <4>1 DEF Old, Texture
    <3>2. ASSUME f \notin late'
          PROVE  /\ rec'[f].policy = "managed" =>
                      rec'[f].hash # Absent /\ rec'[f].hash.text > 0 /\ rec'[f].hash.block = NoBlock
                 /\ rec'[f].policy \in {"append", "managed"} => rec'[f].applied >= 0
                 /\ rec'[f].policy = "owned" => Safe(f)'
      BY <1>1, <1>6, <1>7, <1>8, <2>2, <3>2
    <3> QED
      BY <3>1, <3>2 DEF Telling
  <2> QED
    BY <2>1, <2>2
<1> QED
  BY <1>1, <1>5, <1>9 DEF Told

\* A run that ends before its time.
LEMMA InterruptTold ==
  ASSUME TextInv, Interrupt, NEW f \in Files
  PROVE  Told(f)'
<1>1. run' = Idle /\ UNCHANGED <<rec, saved, edits, late>>
  BY DEF Interrupt
<1>2. PICK gone \in SUBSET run.staged : disk' = [g \in Files |-> IF g \in gone THEN Absent ELSE disk[g]]
  BY DEF Interrupt
<1>3. Texture(f) /\ Telling(f, rec[f])
  BY DEF TextInv, Told
<1>4. disk'[f] = Absent => Safe(f)'
  BY NothingToLose DEF Texts
<1>5. disk'[f] = disk[f] => (Safe(f) => Safe(f)')
  BY <1>1, CopiesStay
<1>6. Texture(f)'
  BY <1>1, <1>2, <1>3 DEF Texture, Old, Exists
<1>7. Telling(f, rec[f])'
  BY <1>1, <1>2, <1>3, <1>4, <1>5, RecTellingStays
<1> QED
  BY <1>1, <1>6, <1>7 DEF Told

\* Uninstall.
LEMMA UninstallTold ==
  ASSUME TextInv, NEW S, NEW forget \in BOOLEAN, Uninstall(S, forget) \/ ForgetInstall, NEW f \in Files
  PROVE  Told(f)'
<1>1. run' = Idle /\ UNCHANGED <<saved, edits, late>> /\ rec'[f] \in {rec[f], None}
  BY DEF Uninstall, ForgetInstall, Command, NoRecords
<1>2. /\ disk[f] \in Texts /\ edits \in Nat /\ disk \in [Files -> Texts]
      /\ Texture(f) /\ Telling(f, rec[f])
  BY BoundsAssumption DEF TextInv, Told, KindInv, TypeOK
<1>3. /\ disk'[f] \in Texts
      /\ disk'[f] # Absent => /\ Exists(f) /\ disk'[f].text = disk[f].text
                              /\ disk'[f].block = disk[f].block \/ disk'[f].block >= 0
  <2>1. CASE Uninstall(S, forget)
    BY <2>1, Uninstalling DEF TextInv, KindInv
  <2>2. CASE ForgetInstall
    BY <1>2, <2>2 DEF ForgetInstall, Exists
  <2> QED
    BY <2>1, <2>2
<1>4. Texture(f)'
  BY <1>1, <1>2, <1>3 DEF Texture, Old, Exists
<1>5. Safe(f) => Safe(f)'
  <2>1. UserTexts(disk'[f]) \subseteq UserTexts(disk[f])
    BY <1>2, <1>3, Fewer DEF Exists
  <2>2. Copies(f) \subseteq Copies(f)'
    BY <1>1, CopiesStay
  <2> QED
    BY <2>1, <2>2 DEF Safe
<1>6. Telling(f, rec[f])'
  <2>1. CASE disk'[f] = Absent \/ rec'[f] = None
    <3>1. disk'[f] = Absent => Safe(f)'
      BY NothingToLose DEF Texts
    <3>2. CASE rec'[f] = None
      BY <3>2 DEF Telling
    <3>3. CASE disk'[f] = Absent
      BY <1>1, <1>2, <3>1, <3>3, RecTellingStays
    <3> QED
      BY <2>1, <3>2, <3>3
  <2>2. ASSUME disk'[f] # Absent, rec'[f] = rec[f], rec'[f] # None
        PROVE  Telling(f, rec[f])'
    <3>1. disk'[f].text = disk[f].text /\ Exists(f)
      BY <1>3, <2>2
    <3>2. f \notin late /\ rec[f].policy = "owned" /\ rec[f].hash # Absent
            /\ disk'[f].text = rec[f].hash.text => Safe(f)'
      BY <1>2, <1>5, <2>2, <3>1 DEF Telling
    <3> QED
      BY <1>1, <1>2, <2>2, <3>2 DEF Telling, Old
  <2> QED
    BY <1>1, <2>1, <2>2
<1> QED
  BY <1>1, <1>4, <1>6 DEF Told

\* Told holds of every file of a target before the first command.
LEMMA InitTold == Init => \A f \in Files : Told(f)
<1> SUFFICES ASSUME Init, NEW f \in Files
             PROVE  Told(f)
  OBVIOUS
<1>1. run = Idle /\ edits = 0
  BY DEF Init
<1>2. CASE disk = [g \in Files |-> Absent] /\ rec = NoRecords
  BY <1>1, <1>2 DEF Told, Texture, Telling, Old, Exists, NoRecords
<1>3. ASSUME NEW v \in Releases,
             disk = [g \in Files |-> IF Policy[v][g] = "append" THEN Template(v, g) ELSE Absent],
             rec = [g \in Files |-> IF Policy[v][g] = "append"
                      THEN [State(v, g, Template(v, g), NoBlock) EXCEPT !.policy = "managed"]
                      ELSE None]
      PROVE  Told(f)
  <2>1. Template(v, f) \in Content /\ Template(v, f).text > 0 /\ Template(v, f).block = NoBlock
    BY Contents
  <2>2. Old(Template(v, f))
    BY <1>1, <2>1 DEF Old, Content
  <2>3. CASE Policy[v][f] # "append"
    BY <1>1, <1>3, <2>3 DEF Told, Texture, Telling, Old, Exists
  <2>4. CASE Policy[v][f] = "append"
    <3>1. disk[f] = Template(v, f) /\ HasBlock(f)
      BY <1>3, <2>4 DEF HasBlock
    <3>2. /\ rec[f].policy = "managed" /\ rec[f].hash = Template(v, f) /\ rec[f].applied = NoBlock
      BY <1>3, <2>4 DEF State
    <3>3. Template(v, f) # Absent /\ NoBlock >= 0
      BY <2>1, Contents DEF NoBlock
    <3> QED
      BY <1>1, <2>1, <2>2, <3>1, <3>2, <3>3 DEF Told, Texture, Telling
  <2> QED
    BY <2>3, <2>4
<1> QED
  BY <1>2, <1>3 DEF Init

\* Told is kept by every step.
LEMMA NextTold ==
  ASSUME TextInv, [Next]_vars, NEW f \in Files
  PROVE  Told(f)'
<1>1. ASSUME NEW v \in Releases, NEW m \in Modes, NEW force \in BOOLEAN,
             InitBegins(v, m) \/ InitForced(v, m) \/ AdoptBegins(v, force, m)
      PROVE  Told(f)'
  BY <1>1, BeginTold, AdoptTold
<1>2. ASSUME NEW v \in Releases, NEW force \in BOOLEAN, UpgradeBegins(v, force)
      PROVE  Told(f)'
  BY <1>2, BeginTold
<1>3. ASSUME NEW g \in Files, FileStep(g)
      PROVE  Told(f)'
  BY <1>3, FileStepTold
<1>4. ASSUME NEW g \in Files, UserEdits(g)
      PROVE  Told(f)'
  BY <1>4, UserTold
<1>5. CASE Complete \/ Interrupt
  BY <1>5, CompleteTold, InterruptTold
<1>6. ASSUME NEW S, NEW forget \in BOOLEAN, Uninstall(S, forget) \/ ForgetInstall
      PROVE  Told(f)'
  BY <1>6, UninstallTold
<1>7. CASE UNCHANGED vars
  BY <1>7 DEF vars, TextInv, Told, Texture, Telling, Seen, Safe, Copies, Old, Exists
<1>8. (TRUE \in BOOLEAN) /\ (FALSE \in BOOLEAN)
  OBVIOUS
<1> QED
  BY <1>1, <1>2, <1>3, <1>4, <1>5, <1>6, <1>7, <1>8 DEF Next

\* The records, the run and the copies tell where the text of the user is.
THEOREM TextInvariant == Spec => []TextInv
<1>1. Init => TextInv
  BY InitKinds, InitTold DEF TextInv
<1>2. TextInv /\ [Next]_vars => TextInv'
  BY NextKeepsKinds, NextTold DEF TextInv
<1> QED
  BY <1>1, <1>2, PTL DEF Spec

-----------------------------------------------------------------------------
(* No text is taken away without a copy.                                   *)

\* Each text of the user's in f stays in it or is in a copy of it.
Kept(f) == \A t \in UserTexts(disk[f]) :
             \/ t \in UserTexts(disk'[f])
             \/ \E s \in saved' : s.file = f /\ t \in UserTexts(s.content)

\* A text that is safe is kept as long as no copy is lost.
LEMMA SafeIsKept ==
  ASSUME NEW f \in Files, Safe(f), saved' = saved
  PROVE  Kept(f)
BY DEF Safe, Copies, Kept

\* The text stays, and the part that changes is not the user's.
LEMMA TextIsKept ==
  ASSUME NEW f \in Files, disk[f] \in Texts,
         Exists(f) => /\ disk[f].block >= 0
                      /\ disk'[f] # Absent /\ disk'[f].text = disk[f].text
  PROVE  Kept(f)
<1>1. ASSUME NEW t \in UserTexts(disk[f])
      PROVE  t \in UserTexts(disk'[f])
  <2>1. disk[f] # Absent /\ disk[f] \in Content
    BY DEF UserTexts, Texts
  <2>2. t = disk[f].text /\ t < 0 /\ t # Broken
    BY <2>1 DEF UserTexts, Exists, Content
  <2> QED
    BY <2>1, <2>2 DEF UserTexts, Exists
<1> QED
  BY <1>1 DEF Kept

\* A run that looks at a file.
LEMMA FileKeepsAll ==
  ASSUME TextInv, NEW f \in Files, NEW g \in Files, FileStep(g), disk'[f] # disk[f],
         f \notin late, f \in Graveyard[run.v] => run.rec[f] # None
  PROVE  Kept(f)
<1>1. f = g
  BY FileStepEffect DEF TextInv, FileEffect
<1>2. Pending(f)
  BY <1>1 DEF FileStep, InitFile, AppendFile, KeepOwned, StageOwned, RetireBlock, RetireFile, OtherFile
<1>3. /\ run \in RunStates /\ run.v \in Releases /\ disk \in [Files -> Texts] /\ disk[f] \in Texts
      /\ run.rec[f] \in FileRecords \cup {None} /\ Kind(f, run.rec[f]) /\ Telling(f, run.rec[f])
  BY <1>2, LookedUp
<1>3a. run.v \in Nat
  BY <1>3, ReleasesAssumption
<1>4. CASE InitFile(f)
  <2> DEFINE plan == PlanAppend(run.v, f, None)
  <2>1. CASE Policy[run.v][f] = "append"
    <3>1. ~plan.conflict /\ disk' = [disk EXCEPT ![f] = plan.content]
      BY <1>4, <2>1 DEF InitFile
    <3>2. /\ plan.content \in Content
          /\ Exists(f) => /\ disk[f].block = NoBlock \/ disk[f].block = run.v
                          /\ plan.content.text = disk[f].text
      BY <1>3, <3>1, AppendPlan DEF AppliedOf
    <3>3. disk'[f] = plan.content
      BY <1>3, <3>1
    <3>4. NoBlock >= 0 /\ run.v >= 0
      BY <1>3a DEF NoBlock
    <3> QED
      BY <1>3, <3>2, <3>3, <3>4, TextIsKept, Contents
  <2>2. CASE Policy[run.v][f] # "append"
    <3>1. ~Exists(f)
      BY <1>4, <2>2 DEF InitFile
    <3> QED
      BY <1>3, <3>1, TextIsKept
  <2> QED
    BY <2>1, <2>2
<1>5. CASE AppendFile(f)
  <2> DEFINE plan == PlanAppend(run.v, f, run.rec[f])
  <2>1. ~plan.conflict /\ disk' = [disk EXCEPT ![f] = plan.content] /\ Policy[run.v][f] = "append"
        /\ saved' = saved
    BY <1>5 DEF AppendFile, Info
  <2>2. /\ plan.content \in Content
        /\ Exists(f) =>
             /\ \/ disk[f].block = NoBlock
                \/ disk[f].block = IF AppliedOf(run.rec[f]) = NoBlock THEN run.v ELSE AppliedOf(run.rec[f])
             /\ \/ plan.content.text = disk[f].text
                \/ run.rec[f] # None /\ run.rec[f].policy = "managed" /\ disk[f] = run.rec[f].hash
    BY <1>3, <2>1, AppendPlan
  <2>3. disk'[f] = plan.content
    BY <1>3, <2>1
  <2>4. run.v >= 0 /\ AppliedOf(run.rec[f]) >= 0
    <3>1. run.rec[f] # None => run.rec[f].policy \in {"append", "managed"}
      BY <1>3, <2>1, BlockKind DEF HasBlock
    <3>2. run.rec[f] # None => run.rec[f].applied >= 0
      BY <1>3, <3>1 DEF Telling
    <3> QED
      BY <1>3a, <3>2 DEF AppliedOf, NoBlock
  <2>5. Exists(f) => disk[f].block >= 0
    BY <2>2, <2>4 DEF NoBlock
  <2>6. CASE Exists(f) => plan.content.text = disk[f].text
    BY <1>3, <2>2, <2>3, <2>5, <2>6, TextIsKept, Contents
  <2>7. CASE Exists(f) /\ run.rec[f] # None /\ run.rec[f].policy = "managed" /\ disk[f] = run.rec[f].hash
    <3>1. disk[f].text >= 0
      BY <1>3, <2>7 DEF Telling, Texts, Content
    <3>2. UserTexts(disk[f]) = {}
      BY <1>3, <2>5, <2>7, <3>1, Harmless
    <3> QED
      BY <3>2 DEF Kept
  <2> QED
    BY <2>2, <2>6, <2>7
<1>6. CASE KeepOwned(f) \/ StageOwned(f)
  BY <1>6 DEF KeepOwned, StageOwned
<1>7. CASE RetireBlock(f)
  <2> DEFINE plan == PlanRetirement(f, run.rec[f])
  <2>1. /\ ~plan.conflict /\ disk' = [disk EXCEPT ![f] = plan.content]
        /\ run.rec[f] # None /\ run.rec[f].policy = "append"
    BY <1>7 DEF RetireBlock, Retired, Info
  <2>2. Exists(f) => /\ plan.content \in Content /\ plan.content.text = disk[f].text
                     /\ disk[f].block \in {NoBlock, run.rec[f].applied}
    BY <1>3, <2>1, RetirementPlan
  <2>3. disk'[f] = plan.content
    BY <1>3, <2>1
  <2>4. run.rec[f].applied >= 0 /\ NoBlock >= 0
    BY <1>3, <2>1 DEF Telling, NoBlock
  <2> QED
    BY <1>3, <2>2, <2>3, <2>4, TextIsKept, Contents
<1>8. CASE RetireFile(f)
  <2>1. /\ ~(Exists(f) /\ disk[f] # run.rec[f].hash) /\ saved' = saved
        /\ run.rec[f] # None /\ run.rec[f].policy \in {"owned", "managed"}
    BY <1>8 DEF RetireFile, Retired, Info, Owned
  <2>2. CASE ~Exists(f)
    BY <1>3, <2>2, TextIsKept
  <2>3. CASE Exists(f) /\ run.rec[f].policy = "owned"
    <3>1. Safe(f)
      BY <1>3, <2>1, <2>3 DEF Telling, Exists
    <3> QED
      BY <2>1, <3>1, SafeIsKept
  <2>4. CASE Exists(f) /\ run.rec[f].policy = "managed"
    <3>1. disk[f].text >= 0 /\ disk[f].block >= 0
      BY <1>3, <2>1, <2>4 DEF Telling, NoBlock, Texts, Content
    <3>2. UserTexts(disk[f]) = {}
      BY <1>3, <3>1, Harmless
    <3> QED
      BY <3>2 DEF Kept
  <2> QED
    BY <2>1, <2>2, <2>3, <2>4
<1>9. CASE OtherFile(f)
  BY <1>9 DEF OtherFile, Info
<1> QED
  BY <1>1, <1>4, <1>5, <1>6, <1>7, <1>8, <1>9 DEF FileStep

\* The end of a run, before its time or not.
LEMMA EndKeepsAll ==
  ASSUME TextInv, NEW f \in Files, Complete \/ Interrupt, disk'[f] # disk[f],
         f \notin late \cup run.uncopied, ~run.force \/ run.kind = "adopt"
  PROVE  Kept(f)
<1>1. run # Idle /\ saved' = saved
  BY DEF Complete, Interrupt
<1>2. disk[f] \in Texts /\ Texture(f) /\ Seen(f)
  BY <1>1 DEF TextInv, Told, KindInv, TypeOK
<1>3. CASE f \in run.staged
  <2>1. Safe(f)
    BY <1>2, <1>3 DEF Seen
  <2> QED
    BY <1>1, <2>1, SafeIsKept
<1>4. CASE f \notin run.staged
  <2>1. Complete
    BY <1>4 DEF Interrupt, TextInv, KindInv, TypeOK
  <2>2. disk' = Landed
    BY <2>1 DEF Complete
  <2>3. f = Roomodes
    BY <1>1, <1>4, <2>2, LandedText
  <2>4. ~HasBlock(f)
    BY <2>3, PolicyAssumption DEF HasBlock
  <2>5. Landed[f] # Absent => Exists(f) /\ Landed[f].text = disk[f].text
    BY <1>1, <1>4, LandedText
  <2>6. Exists(f) => Landed[f] # Absent
    <3>1. run \in RunStates /\ Landed[f] = IF disk[f] # Absent THEN BlockOf(run.modes, disk[f]) ELSE disk[f]
      BY <1>1, <1>4, <2>3, Landing DEF TextInv, KindInv
    <3>2. run.modes \in Int
      BY <3>1 DEF RunStates
    <3> QED
      BY <1>2, <3>1, <3>2, Contents DEF Exists, Texts
  <2> QED
    BY <1>2, <2>2, <2>4, <2>5, <2>6, TextIsKept DEF Texture
<1> QED
  BY <1>3, <1>4

\* A run that is not told to force things takes no text away without a copy.
THEOREM UserTextTheorem == Spec => KeepsUserText
<1> DEFINE Keeps ==
      \A f \in Files :
       /\ run # Idle /\ edits' = edits /\ disk[f] # disk'[f]
       /\ ~run.force \/ run.kind = "adopt"
       /\ f \notin late \cup run.uncopied /\ (f \in Graveyard[run.v] => run.rec[f] # None)
       => \A t \in UserTexts(disk[f]) :
            \/ t \in UserTexts(disk'[f])
            \/ \E s \in saved' : s.file = f /\ t \in UserTexts(s.content)
<1>1. ASSUME TextInv, [Next]_vars
      PROVE  [Keeps]_vars
  <2>1. SUFFICES ASSUME NEW f \in Files, run # Idle, edits' = edits, disk[f] # disk'[f],
                        ~run.force \/ run.kind = "adopt", f \notin late \cup run.uncopied,
                        f \in Graveyard[run.v] => run.rec[f] # None
                 PROVE  Kept(f)
    BY DEF Kept
  <2>2. ASSUME NEW g \in Files, FileStep(g)
        PROVE  Kept(f)
    BY <1>1, <2>1, <2>2, FileKeepsAll
  <2>3. ASSUME NEW g \in Files, UserEdits(g)
        PROVE  FALSE
    BY <1>1, <2>1, <2>3 DEF UserEdits, TextInv, KindInv, TypeOK
  <2>4. CASE Complete \/ Interrupt
    BY <1>1, <2>1, <2>4, EndKeepsAll
  <2>5. ~UNCHANGED vars
    BY <2>1 DEF vars
  <2> QED
    BY <1>1, <2>1, <2>2, <2>3, <2>4, <2>5
    DEF Next, InitBegins, InitForced, AdoptBegins, UpgradeBegins, Uninstall, ForgetInstall, Command
<1> QED
  BY <1>1, TextInvariant, PTL DEF Spec, KeepsUserText

-----------------------------------------------------------------------------
(* What is done, and what is left alone, step by step.                     *)

\* The block of a record that tells the truth is no conflict.
LEMMA CalmPlans ==
  ASSUME NEW v \in Releases, NEW f \in Files, NEW info, info # None, Calm(f, info), Hashed(f, info)
  PROVE  /\ info.policy = "append" \/ (info.policy = "managed" /\ f # Roomodes)
              => ~PlanAppend(v, f, info).conflict
         /\ info.policy = "append" => ~PlanRetirement(f, info).conflict
<1>1. CASE info.policy = "append"
  <2>1. /\ disk[f] # Absent /\ disk[f].block = info.applied /\ info.applied \notin {NoBlock, Broken}
    BY <1>1 DEF Calm, Exists
  <2>2. AppliedOf(info) = info.applied
    BY DEF AppliedOf
  <2>3. \/ PlanAppend(v, f, info) = Result(disk[f], disk[f].block)
        \/ PlanAppend(v, f, info) = Result(BlockOf(v, disk[f]), v)
    BY <2>1, <2>2 DEF PlanAppend
  <2>4. PlanRetirement(f, info) = Result(BlockOf(NoBlock, disk[f]), NoBlock)
    BY <2>1 DEF PlanRetirement
  <2> QED
    BY <1>1, <2>3, <2>4 DEF Result
<1>2. CASE info.policy = "managed" /\ f # Roomodes
  <2>1. disk[f] # Absent /\ disk[f] = info.hash /\ disk[f].block = NoBlock /\ NoBlock # Broken
    BY <1>2, BoundsAssumption DEF Calm, Hashed, Owned, Exists, NoBlock, Broken
  <2>2. PlanAppend(v, f, info) = Result([text |-> 0, block |-> v], v)
    BY <1>2, <2>1 DEF PlanAppend
  <2> QED
    BY <1>2, <2>2 DEF Result
<1> QED
  BY <1>1, <1>2

\* The other files of a run.
LEMMA OthersStayDone ==
  ASSUME RunInv, NEW f \in Files, NEW g \in Files, f # g, FileEffect(g)
  PROVE  Done(f)'
<1>1. disk'[f] = disk[f] /\ UNCHANGED <<rec, late, touched>> /\ run # Idle
  BY DEF FileEffect
<1>2. Done(f)
  BY DEF RunInv
<1>3. Hashed(f, rec[f])'
  BY <1>1, <1>2 DEF Done, Hashed
<1>4. CASE run' = Idle /\ interrupted' = TRUE
  <2>1. ~Untouched(f)'
    BY <1>4 DEF Untouched
  <2> QED
    BY <1>3, <1>4, <2>1 DEF Done, Undisturbed
<1>5. ASSUME ~(run' = Idle /\ interrupted' = TRUE)
      PROVE  Done(f)'
  <2>1. /\ run'.kind = run.kind /\ run'.v = run.v /\ interrupted' = interrupted
        /\ f \in run'.todo <=> f \in run.todo
        /\ f \in run'.staged <=> f \in run.staged
        /\ f \in run'.conflicts <=> f \in run.conflicts
        /\ f \in run'.backups <=> f \in run.backups
        /\ run'.rec[f] = run.rec[f]
    BY <1>5 DEF FileEffect
  <2>2. Hashed(f, run.rec[f])'
    BY <1>1, <1>2, <2>1 DEF Done, Hashed
  <2>3. Arrived(f)'
    <3>1. Arrived(f)
      BY <1>1, <1>2 DEF Done
    <3> QED
      BY <1>1, <2>1, <3>1 DEF Arrived, Exists
  <2>4. /\ f \in run'.staged /\ run'.kind # "init" =>
             run'.rec[f] = State(run'.v, f, Template(run'.v, f), NoBlock)
        /\ run'.kind = "init" /\ Policy[run'.v][f] = "owned" => f \in run'.todo \cup run'.staged
    BY <1>1, <1>2, <2>1 DEF Done
  <2>5. ASSUME Untouched(f)', run' # Idle
        PROVE  /\ rec'[f] # None => f \notin run'.conflicts \cup run'.backups
               /\ f \in run'.conflicts => run'.rec[f] = None
               /\ run'.kind = "upgrade" /\ f \in run'.todo => run'.rec[f] = rec'[f]
               /\ run'.kind = "adopt" => rec'[f] = None
               /\ f \notin run'.staged => Calm(f, run.rec[f])'
    <3>1. Untouched(f)
      BY <1>1, <2>1, <2>5 DEF Untouched
    <3>2. /\ rec[f] # None => f \notin run.conflicts \cup run.backups
          /\ f \in run.conflicts => run.rec[f] = None
          /\ run.kind = "upgrade" /\ f \in run.todo => run.rec[f] = rec[f]
          /\ run.kind = "adopt" => rec[f] = None
          /\ f \notin run.staged => Calm(f, run.rec[f])
      BY <1>1, <1>2, <3>1 DEF Done, Undisturbed
    <3>3. f \notin run'.staged => Calm(f, run.rec[f])'
      BY <1>1, <2>1, <3>2 DEF Calm, Exists
    <3> QED
      BY <1>1, <2>1, <3>2, <3>3
  <2>6. run' # Idle
    BY <1>5, RunsAssumption DEF FileEffect
  <2>7. Undisturbed(f)'
    BY <2>5, <2>6 DEF Undisturbed
  <2> QED
    BY <1>3, <2>2, <2>3, <2>4, <2>7 DEF Done
<1> QED
  BY <1>4, <1>5

\* What holds of a file when a run looks at it.
LEMMA LookedDone ==
  ASSUME RunInv, NEW f \in Files, Pending(f)
  PROVE  /\ run # Idle /\ run \in RunStates /\ f \in run.todo /\ f \notin run.staged /\ f \notin run.conflicts
         /\ run.v \in Releases /\ disk \in [Files -> Texts] /\ disk[f] \in Texts
         /\ run.kind \in {"init", "upgrade", "adopt"}
         /\ run.rec \in [Files -> FileRecords \cup {None}] /\ run.rec[f] \in FileRecords \cup {None}
         /\ Kind(f, run.rec[f]) /\ Hashed(f, rec[f]) /\ Hashed(f, run.rec[f])
         /\ Untouched(f) =>
              /\ rec[f] # None => f \notin run.backups
              /\ run.kind = "upgrade" => run.rec[f] = rec[f]
              /\ run.kind = "adopt" => rec[f] = None
              /\ Calm(f, run.rec[f])
<1>1. /\ run \in RunStates /\ f \in run.todo /\ run.v \in Releases /\ disk[f] \in Texts
      /\ run.rec \in [Files -> FileRecords \cup {None}] /\ run.rec[f] \in FileRecords \cup {None}
  BY Looking DEF RunInv, KindInv
<1>2. /\ run # Idle /\ disk \in [Files -> Texts] /\ run.staged \cap run.todo = {}
      /\ run.conflicts \cap run.todo = {}
  BY DEF Pending, RunInv, KindInv, TypeOK
<1>3. Kind(f, run.rec[f]) /\ Done(f)
  BY <1>2 DEF RunInv, KindInv, Kinds
<1>4. Hashed(f, rec[f]) /\ Hashed(f, run.rec[f]) /\ Undisturbed(f)
  BY <1>2, <1>3 DEF Done
<1>5. run.kind \in {"init", "upgrade", "adopt"}
  BY <1>1 DEF RunStates
<1>6. f \notin run.staged /\ f \notin run.conflicts
  BY <1>1, <1>2
<1>7. Untouched(f) =>
              /\ rec[f] # None => f \notin run.backups
              /\ run.kind = "upgrade" => run.rec[f] = rec[f]
              /\ run.kind = "adopt" => rec[f] = None
              /\ Calm(f, run.rec[f])
  BY <1>1, <1>2, <1>4, <1>6 DEF Undisturbed
<1> QED
  BY <1>1, <1>2, <1>3, <1>4, <1>5, <1>6, <1>7

\* What is to be shown of a file that a run has looked at.
LEMMA LookedIsDone ==
  ASSUME NEW f \in Files, Hashed(f, rec[f]), rec' = rec, run' # Idle, f \notin run'.todo,
         Hashed(f, run.rec[f])', Arrived(f)',
         f \in run'.staged => \/ run'.kind = "init"
                              \/ run'.rec[f] = State(run'.v, f, Template(run'.v, f), NoBlock),
         run'.kind = "init" /\ Policy[run'.v][f] = "owned" => f \in run'.staged,
         Untouched(f)' =>
           /\ rec'[f] # None => f \notin run'.conflicts \cup run'.backups
           /\ f \in run'.conflicts => run'.rec[f] = None
           /\ run'.kind = "adopt" => rec'[f] = None
           /\ f \notin run'.staged => Calm(f, run.rec[f])'
  PROVE  Done(f)'
<1>1. Hashed(f, rec[f])'
  BY DEF Hashed
<1>2. Undisturbed(f)'
  BY DEF Undisturbed
<1> QED
  BY <1>1, <1>2 DEF Done

\* Done holds of a file that init has staged, written or left.
LEMMA InitFileDone ==
  ASSUME RunInv, NEW f \in Files, InitFile(f)
  PROVE  Done(f)'
<1> DEFINE p == Policy[run.v][f]
           plan == PlanAppend(run.v, f, None)
<1>1. Pending(f) /\ run.kind = "init" /\ UNCHANGED <<rec, touched, late>>
  BY DEF InitFile
<1>2. /\ run \in RunStates /\ run # Idle /\ f \in run.todo /\ f \notin run.staged /\ run.v \in Releases
      /\ f \notin run.conflicts /\ disk \in [Files -> Texts] /\ disk[f] \in Texts
      /\ Hashed(f, rec[f]) /\ Untouched(f) => (rec[f] # None => f \notin run.backups)
  BY <1>1, LookedDone
<1>3. Hashed(f, rec[f])
  BY <1>1, LookedDone
<1>4. run.rec[f] = None
  BY <1>1, <1>2 DEF RunInv, KindInv, Kinds, NoRecords
<1>5. CASE p = "append" /\ plan.conflict
  <2>1. run' = Idle /\ interrupted' = TRUE
    BY <1>5 DEF InitFile
  <2>2. ~Untouched(f)'
    BY <2>1 DEF Untouched
  <2>3. Hashed(f, rec[f])'
    BY <1>1, <1>3 DEF Hashed
  <2> QED
    BY <2>1, <2>2, <2>3 DEF Done, Undisturbed
<1>6. CASE ~(p = "append" /\ plan.conflict)
  <2>1. /\ run' = [run EXCEPT !.todo = @ \ {f}, !.staged = IF p = "owned" THEN @ \cup {f} ELSE @]
        /\ interrupted' = interrupted
    BY <1>6 DEF InitFile
  <2>2. /\ run' \in RunStates /\ run'.kind = "init" /\ run'.v = run.v /\ run'.rec = run.rec
        /\ run'.todo = run.todo \ {f} /\ run'.conflicts = run.conflicts /\ run'.backups = run.backups
        /\ run'.staged = IF p = "owned" THEN run.staged \cup {f} ELSE run.staged
    BY <1>1, <1>2, <2>1 DEF RunStates
  <2>3. run' # Idle
    BY <2>2, RunsAssumption
  <2>4. p = "append" => /\ disk'[f] # Absent /\ disk'[f].block \in Releases
                        /\ Src[disk'[f].block][f] = Src[run.v][f]
    <3>1. p = "append" => disk' = [disk EXCEPT ![f] = plan.content]
      BY <1>6 DEF InitFile
    <3>2. ~plan.conflict => /\ plan.content \in Content /\ plan.content.block \in Releases
                            /\ Src[plan.content.block][f] = Src[run.v][f]
      BY <1>2, AppendPlan
    <3> HIDE DEF plan
    <3> QED
      BY <1>2, <1>6, <3>1, <3>2, Contents
  <2>5. Arrived(f)'
    BY <1>4, <2>2, <2>4 DEF Arrived, Exists
  <2>6. Hashed(f, run.rec[f])' /\ Calm(f, run.rec[f])'
    BY <1>4, <2>2 DEF Hashed, Calm
  <2>7. Untouched(f)' => Untouched(f)
    BY <1>1, <2>1 DEF Untouched
  <2> QED
    BY <1>1, <1>2, <1>3, <1>4, <2>2, <2>3, <2>5, <2>6, <2>7, LookedIsDone
<1> QED
  BY <1>5, <1>6

\* Done holds of a file whose block was put in, refreshed or in conflict.
LEMMA AppendFileDone ==
  ASSUME RunInv, NEW f \in Files, AppendFile(f)
  PROVE  Done(f)'
<1> DEFINE plan == PlanAppend(run.v, f, run.rec[f])
           new == State(run.v, f, plan.content, plan.applied)
<1>1. /\ Pending(f) /\ run.kind # "init" /\ Policy[run.v][f] = "append"
      /\ UNCHANGED <<rec, touched, late, interrupted>>
  BY DEF AppendFile, Upgrading
<1>2. /\ run \in RunStates /\ run # Idle /\ f \in run.todo /\ f \notin run.staged /\ run.v \in Releases
      /\ f \notin run.conflicts /\ disk \in [Files -> Texts] /\ disk[f] \in Texts
      /\ run.kind \in {"init", "upgrade", "adopt"}
      /\ run.rec \in [Files -> FileRecords \cup {None}] /\ run.rec[f] \in FileRecords \cup {None}
      /\ Kind(f, run.rec[f]) /\ Hashed(f, rec[f]) /\ Hashed(f, run.rec[f])
  BY <1>1, LookedDone
<1>3. Untouched(f)' =>
        /\ rec[f] # None => f \notin run.backups
        /\ run.kind = "upgrade" => run.rec[f] = rec[f]
        /\ run.kind = "adopt" => rec[f] = None
        /\ Calm(f, run.rec[f])
  <2>1. Untouched(f)' => Untouched(f)
    BY <1>1 DEF Untouched
  <2> QED
    BY <1>1, <2>1, LookedDone
<1>4. f # Roomodes
  BY <1>1, <1>2, PolicyAssumption
<1>5. CASE plan.conflict
  <2>1. disk' = disk /\ run' = [run EXCEPT !.todo = @ \ {f}, !.conflicts = @ \cup {f}]
    BY <1>5 DEF AppendFile, Aside, Info
  <2>2. /\ run' \in RunStates /\ run'.kind = run.kind /\ run'.v = run.v /\ run'.rec = run.rec
        /\ run'.todo = run.todo \ {f} /\ run'.conflicts = run.conflicts \cup {f}
        /\ run'.backups = run.backups /\ run'.staged = run.staged
    BY <1>2, <2>1 DEF RunStates
  <2>3. run' # Idle
    BY <2>2, RunsAssumption
  <2>4. Untouched(f)' => run.rec[f] = None
    <3>1. run.rec[f] # None => run.rec[f].policy \in {"append", "managed"}
      BY <1>1, <1>2, BlockKind DEF HasBlock
    <3> QED
      BY <1>2, <1>3, <1>4, <1>5, <3>1, CalmPlans
  <2>5. Untouched(f)' => rec[f] = None
    BY <1>1, <1>2, <1>3, <2>4
  <2>6. Arrived(f)'
    BY <2>2 DEF Arrived
  <2>7. Hashed(f, run.rec[f])'
    BY <1>2, <2>2 DEF Hashed
  <2>8. Untouched(f)' => Calm(f, run.rec[f])'
    BY <2>2, <2>4 DEF Calm
  <2> QED
    BY <1>1, <1>2, <2>2, <2>3, <2>4, <2>5, <2>6, <2>7, <2>8, LookedIsDone
<1>6. CASE ~plan.conflict
  <2>1. disk' = [disk EXCEPT ![f] = plan.content]
        /\ run' = [run EXCEPT !.todo = @ \ {f}, !.rec = [run.rec EXCEPT ![f] = new]]
    BY <1>6 DEF AppendFile, Handled, Recorded, Info
  <2>2. /\ plan.content \in Content /\ plan.applied \in Releases
        /\ plan.content.block = plan.applied /\ Src[plan.applied][f] = Src[run.v][f]
    BY <1>2, <1>6, AppendPlan
  <2>3. plan.applied \in Nat \ {0}
    BY <2>2, ReleasesAssumption
  <2>4. new \in FileRecords /\ new.policy = "append" /\ new.applied = plan.applied
    BY <1>1, <1>2, <2>2, <2>3, StateIsRecord DEF Texts
  <2> HIDE DEF plan, new
  <2>5. disk'[f] = plan.content /\ disk'[f] # Absent
    BY <1>2, <2>1, <2>2, Contents
  <2>6. /\ run' \in RunStates /\ run'.kind = run.kind /\ run'.v = run.v /\ run'.rec[f] = new
        /\ run'.todo = run.todo \ {f} /\ run'.conflicts = run.conflicts
        /\ run'.backups = run.backups /\ run'.staged = run.staged
    BY <1>2, <2>1, <2>4 DEF RunStates
  <2>7. run' # Idle
    BY <2>6, RunsAssumption
  <2>8. new # None
    BY <2>4, RunsAssumption
  <2>9. Hashed(f, run.rec[f])'
    BY <2>4, <2>6 DEF Hashed, Owned
  <2>10. Arrived(f)'
    BY <1>1, <2>2, <2>4, <2>5, <2>6, <2>8 DEF Arrived, Exists
  <2>11. Calm(f, run.rec[f])'
    <3>1. plan.applied \notin {NoBlock, Broken}
      BY <2>3, BoundsAssumption DEF NoBlock, Broken
    <3> QED
      BY <2>2, <2>4, <2>5, <2>6, <3>1 DEF Calm, Exists, Owned
  <2> QED
    BY <1>1, <1>2, <1>3, <2>6, <2>7, <2>9, <2>10, <2>11, LookedIsDone
<1> QED
  BY <1>5, <1>6

\* Done holds of a harness-owned file that was passed over as unchanged.
LEMMA KeepOwnedDone ==
  ASSUME RunInv, NEW f \in Files, KeepOwned(f)
  PROVE  Done(f)'
<1>1. /\ Pending(f) /\ run.kind # "init" /\ Policy[run.v][f] = "owned" /\ Unchanged(f)
      /\ UNCHANGED <<disk, rec, touched, late, interrupted>>
      /\ run' = [run EXCEPT !.todo = @ \ {f}, !.rec = run.rec]
  BY DEF KeepOwned, Upgrading, Handled
<1>2. /\ run \in RunStates /\ run # Idle /\ f \in run.todo /\ f \notin run.staged
      /\ f \notin run.conflicts /\ Hashed(f, rec[f]) /\ Hashed(f, run.rec[f])
  BY <1>1, LookedDone
<1>3. Untouched(f)' =>
        /\ rec[f] # None => f \notin run.backups
        /\ run.kind = "adopt" => rec[f] = None
        /\ Calm(f, run.rec[f])
  <2>1. Untouched(f)' => Untouched(f)
    BY <1>1 DEF Untouched
  <2> QED
    BY <1>1, <2>1, LookedDone
<1>4. /\ run' \in RunStates /\ run'.kind = run.kind /\ run'.v = run.v /\ run'.rec = run.rec
      /\ run'.todo = run.todo \ {f} /\ run'.conflicts = run.conflicts
      /\ run'.backups = run.backups /\ run'.staged = run.staged
  BY <1>1, <1>2 DEF RunStates
<1>5. run' # Idle
  BY <1>4, RunsAssumption
<1>6. Hashed(f, run.rec[f])' /\ (Calm(f, run.rec[f]) => Calm(f, run.rec[f])')
  BY <1>1, <1>2, <1>4 DEF Hashed, Calm, Exists
<1>7. Arrived(f)'
  <2>1. /\ Exists(f) /\ run.rec[f] # None /\ disk[f] = run.rec[f].hash
        /\ run.rec[f].src = Src[run.v][f]
    BY <1>1 DEF Unchanged, Modified, Info
  <2> QED
    BY <1>1, <1>4, <2>1 DEF Arrived, Exists
<1> QED
  BY <1>1, <1>2, <1>3, <1>4, <1>5, <1>6, <1>7, LookedIsDone

\* Done holds of a harness-owned file that was staged.
LEMMA StageOwnedDone ==
  ASSUME RunInv, NEW f \in Files, StageOwned(f)
  PROVE  Done(f)'
<1> DEFINE new == State(run.v, f, Template(run.v, f), NoBlock)
<1>1. PICK fails \in {FALSE, Modified(f)} :
      /\ Pending(f) /\ run.kind # "init" /\ Policy[run.v][f] = "owned"
      /\ UNCHANGED <<disk, rec, touched, late, interrupted>>
      /\ run' = [run EXCEPT !.todo = @ \ {f}, !.staged = @ \cup {f},
                   !.backups = IF Modified(f) THEN @ \cup {f} ELSE @,
                   !.uncopied = IF fails THEN @ \cup {f} ELSE @, !.rec[f] = new]
  BY DEF StageOwned, Upgrading
<1>2. /\ run \in RunStates /\ run # Idle /\ f \in run.todo /\ f \notin run.staged /\ run.v \in Releases
      /\ f \notin run.conflicts /\ run.kind \in {"init", "upgrade", "adopt"}
      /\ run.rec \in [Files -> FileRecords \cup {None}]
      /\ Kind(f, run.rec[f]) /\ Hashed(f, rec[f]) /\ Hashed(f, run.rec[f])
  BY <1>1, LookedDone
<1>3. Untouched(f)' =>
        /\ rec[f] # None => f \notin run.backups
        /\ run.kind = "upgrade" => run.rec[f] = rec[f]
        /\ run.kind = "adopt" => rec[f] = None
        /\ Calm(f, run.rec[f])
  <2>1. Untouched(f)' => Untouched(f)
    BY <1>1 DEF Untouched
  <2> QED
    BY <1>1, <2>1, LookedDone
<1>4. /\ new \in FileRecords /\ new.policy = "owned" /\ new.hash = [text |-> new.src, block |-> NoBlock]
  BY <1>1, <1>2, StateIsRecord, Contents DEF Texts, NoBlock, State, Template
<1>5. Untouched(f)' => rec[f] = None \/ ~Modified(f)
  <2>1. ASSUME Untouched(f)', rec[f] # None
        PROVE  ~Modified(f)
    <3>1. run.rec[f] # None /\ Calm(f, run.rec[f])
      BY <1>1, <1>2, <1>3, <2>1
    <3>2. run.rec[f].policy = "owned"
      BY <1>1, <1>2, <3>1, BlockKind
    <3> QED
      BY <3>1, <3>2 DEF Calm, Modified, Owned, Info
  <2> QED
    BY <2>1
<1>6. /\ run' \in RunStates /\ run'.kind = run.kind /\ run'.v = run.v /\ run'.rec[f] = new
      /\ run'.todo = run.todo \ {f} /\ run'.conflicts = run.conflicts
      /\ run'.backups = (IF Modified(f) THEN run.backups \cup {f} ELSE run.backups)
      /\ run'.staged = run.staged \cup {f}
  <2> HIDE DEF new
  <2> QED
    BY <1>1, <1>2, <1>4 DEF RunStates
<1>7. run' # Idle
  BY <1>6, RunsAssumption
<1>8. Hashed(f, run.rec[f])'
  <2> HIDE DEF new
  <2> QED
    BY <1>4, <1>6 DEF Hashed
<1>9. Arrived(f)'
  BY <1>1, <1>6 DEF Arrived
<1>10. run'.rec[f] = State(run'.v, f, Template(run'.v, f), NoBlock)
  BY <1>6
<1> HIDE DEF new
<1> QED
  BY <1>1, <1>2, <1>3, <1>5, <1>6, <1>7, <1>8, <1>9, <1>10, LookedIsDone

\* Done holds of a file whose block the release drops.
LEMMA RetireBlockDone ==
  ASSUME RunInv, NEW f \in Files, RetireBlock(f)
  PROVE  Done(f)'
<1> DEFINE plan == PlanRetirement(f, run.rec[f])
<1>1. /\ Pending(f) /\ run.kind # "init" /\ Policy[run.v][f] = "none"
      /\ run.rec[f] # None /\ run.rec[f].policy = "append"
      /\ UNCHANGED <<rec, touched, late, interrupted>>
  BY DEF RetireBlock, Upgrading, Retired, Info
<1>2. /\ run \in RunStates /\ run # Idle /\ f \in run.todo /\ f \notin run.staged /\ run.v \in Releases
      /\ f \notin run.conflicts /\ run.rec \in [Files -> FileRecords \cup {None}]
      /\ Hashed(f, rec[f]) /\ Hashed(f, run.rec[f])
  BY <1>1, LookedDone
<1>3. Untouched(f)' =>
        /\ rec[f] # None => f \notin run.backups
        /\ run.kind = "adopt" => rec[f] = None
        /\ Calm(f, run.rec[f])
  <2>1. Untouched(f)' => Untouched(f)
    BY <1>1 DEF Untouched
  <2> QED
    BY <1>1, <2>1, LookedDone
<1>4. CASE plan.conflict
  <2>1. run' = [run EXCEPT !.todo = @ \ {f}, !.conflicts = @ \cup {f}]
    BY <1>4 DEF RetireBlock, Aside, Info
  <2>2. /\ run' \in RunStates /\ run'.kind = run.kind /\ run'.v = run.v /\ run'.rec = run.rec
        /\ run'.todo = run.todo \ {f} /\ run'.conflicts = run.conflicts \cup {f}
        /\ run'.backups = run.backups /\ run'.staged = run.staged
    BY <1>2, <2>1 DEF RunStates
  <2>3. run' # Idle
    BY <2>2, RunsAssumption
  <2>4. ~Untouched(f)'
    BY <1>1, <1>2, <1>3, <1>4, CalmPlans
  <2>5. Arrived(f)'
    BY <2>2 DEF Arrived
  <2>6. Hashed(f, run.rec[f])'
    BY <1>2, <2>2 DEF Hashed
  <2> QED
    BY <1>1, <1>2, <2>2, <2>3, <2>4, <2>5, <2>6, LookedIsDone
<1>5. CASE ~plan.conflict
  <2>1. run' = [run EXCEPT !.todo = @ \ {f}, !.rec = [run.rec EXCEPT ![f] = None]]
    BY <1>5 DEF RetireBlock, Handled, Recorded, Info
  <2>2. /\ run' \in RunStates /\ run'.kind = run.kind /\ run'.v = run.v /\ run'.rec[f] = None
        /\ run'.todo = run.todo \ {f} /\ run'.conflicts = run.conflicts
        /\ run'.backups = run.backups /\ run'.staged = run.staged
    BY <1>2, <2>1 DEF RunStates
  <2>3. run' # Idle
    BY <2>2, RunsAssumption
  <2>4. Arrived(f)'
    BY <1>1, <2>2 DEF Arrived
  <2>5. Hashed(f, run.rec[f])' /\ Calm(f, run.rec[f])'
    BY <2>2 DEF Hashed, Calm
  <2> QED
    BY <1>1, <1>2, <1>3, <2>2, <2>3, <2>4, <2>5, LookedIsDone
<1> QED
  BY <1>4, <1>5

\* Done holds of a file that the release drops.
LEMMA RetireFileDone ==
  ASSUME RunInv, NEW f \in Files, RetireFile(f)
  PROVE  Done(f)'
<1>1. /\ Pending(f) /\ run.kind # "init" /\ Policy[run.v][f] = "none"
      /\ run.rec[f] # None /\ run.rec[f].policy \in Owned
      /\ UNCHANGED <<rec, touched, late, interrupted>>
  BY DEF RetireFile, Upgrading, Retired, Info
<1>2. /\ run \in RunStates /\ run # Idle /\ f \in run.todo /\ f \notin run.staged /\ run.v \in Releases
      /\ f \notin run.conflicts /\ run.rec \in [Files -> FileRecords \cup {None}]
      /\ Hashed(f, rec[f]) /\ Hashed(f, run.rec[f])
  BY <1>1, LookedDone
<1>3. Untouched(f)' =>
        /\ rec[f] # None => f \notin run.backups
        /\ run.kind = "adopt" => rec[f] = None
        /\ Calm(f, run.rec[f])
  <2>1. Untouched(f)' => Untouched(f)
    BY <1>1 DEF Untouched
  <2> QED
    BY <1>1, <2>1, LookedDone
<1>4. CASE Exists(f) /\ disk[f] # Info(f).hash
  <2>1. run' = [run EXCEPT !.todo = @ \ {f}, !.conflicts = @ \cup {f}]
    BY <1>4 DEF RetireFile, Aside
  <2>2. /\ run' \in RunStates /\ run'.kind = run.kind /\ run'.v = run.v /\ run'.rec = run.rec
        /\ run'.todo = run.todo \ {f} /\ run'.conflicts = run.conflicts \cup {f}
        /\ run'.backups = run.backups /\ run'.staged = run.staged
    BY <1>2, <2>1 DEF RunStates
  <2>3. run' # Idle
    BY <2>2, RunsAssumption
  <2>4. ~Untouched(f)'
    BY <1>1, <1>3, <1>4 DEF Calm, Info
  <2>5. Arrived(f)'
    BY <2>2 DEF Arrived
  <2>6. Hashed(f, run.rec[f])'
    BY <1>2, <2>2 DEF Hashed
  <2> QED
    BY <1>1, <1>2, <2>2, <2>3, <2>4, <2>5, <2>6, LookedIsDone
<1>5. CASE ~(Exists(f) /\ disk[f] # Info(f).hash)
  <2>1. run' = [run EXCEPT !.todo = @ \ {f}, !.rec = [run.rec EXCEPT ![f] = None]]
    BY <1>5 DEF RetireFile, Handled, Recorded
  <2>2. /\ run' \in RunStates /\ run'.kind = run.kind /\ run'.v = run.v /\ run'.rec[f] = None
        /\ run'.todo = run.todo \ {f} /\ run'.conflicts = run.conflicts
        /\ run'.backups = run.backups /\ run'.staged = run.staged
    BY <1>2, <2>1 DEF RunStates
  <2>3. run' # Idle
    BY <2>2, RunsAssumption
  <2>4. Arrived(f)'
    BY <1>1, <2>2 DEF Arrived
  <2>5. Hashed(f, run.rec[f])' /\ Calm(f, run.rec[f])'
    BY <2>2 DEF Hashed, Calm
  <2> QED
    BY <1>1, <1>2, <1>3, <2>2, <2>3, <2>4, <2>5, LookedIsDone
<1> QED
  BY <1>4, <1>5

\* Done holds of the graveyard, of project files and of seeds.
LEMMA OtherFileDone ==
  ASSUME RunInv, NEW f \in Files, OtherFile(f)
  PROVE  Done(f)'
<1> DEFINE p == Policy[run.v][f]
           new == State(run.v, f, disk[f], NoBlock)
           again == p = "project" /\ Exists(f) /\ ~(Info(f) = None /\ f \in Graveyard[run.v])
<1>1. /\ Pending(f) /\ run.kind # "init" /\ p \in {"project", "seed", "none"} /\ ~Retired(f)
      /\ UNCHANGED <<rec, touched, late, interrupted>>
  BY DEF OtherFile, Upgrading
<1>2. /\ run \in RunStates /\ run # Idle /\ f \in run.todo /\ f \notin run.staged /\ run.v \in Releases
      /\ f \notin run.conflicts /\ run.rec \in [Files -> FileRecords \cup {None}]
      /\ run.rec[f] \in FileRecords \cup {None} /\ disk[f] \in Texts /\ disk \in [Files -> Texts]
      /\ Kind(f, run.rec[f]) /\ Hashed(f, rec[f]) /\ Hashed(f, run.rec[f])
  BY <1>1, LookedDone
<1>3. Untouched(f)' =>
        /\ rec[f] # None => f \notin run.backups
        /\ run.kind = "adopt" => rec[f] = None
        /\ Calm(f, run.rec[f])
  <2>1. Untouched(f)' => Untouched(f)
    BY <1>1 DEF Untouched
  <2> QED
    BY <1>1, <2>1, LookedDone
<1>4. run.rec[f] # None => run.rec[f].policy \in {"project", "seed"}
  <2>1. ASSUME run.rec[f] # None
        PROVE  run.rec[f].policy \in {"project", "seed"}
    <3>1. /\ p \in {"none", IF run.rec[f].policy = "managed" THEN "append" ELSE run.rec[f].policy}
          /\ run.rec[f].policy # "none"
      BY <1>2, <2>1, BlockKind DEF Kind
    <3>2. run.rec[f].policy \in Policies \cup {"managed"}
      BY <1>2, <2>1 DEF FileRecords
    <3>3. p = "none" => run.rec[f].policy \notin {"owned", "managed", "append"}
      BY <1>1, <2>1 DEF Retired, Info, Owned
    <3> QED
      BY <1>1, <3>1, <3>2, <3>3 DEF Policies
  <2> QED
    BY <2>1
<1>5. run' = [run EXCEPT !.todo = @ \ {f}, !.rec = IF again THEN [run.rec EXCEPT ![f] = new] ELSE run.rec]
      /\ \/ disk' = disk
         \/ run.rec[f] = None /\ disk' = [disk EXCEPT ![f] = Absent]
  BY DEF OtherFile, Handled, Recorded, Info
<1>6. again => new \in FileRecords /\ new.policy = "project"
  BY <1>2, StateIsRecord DEF NoBlock
<1> HIDE DEF new, again
<1>7. /\ run' \in RunStates /\ run'.kind = run.kind /\ run'.v = run.v
      /\ run'.rec[f] = (IF again THEN new ELSE run.rec[f])
      /\ run'.todo = run.todo \ {f} /\ run'.conflicts = run.conflicts
      /\ run'.backups = run.backups /\ run'.staged = run.staged
  BY <1>2, <1>5, <1>6 DEF RunStates
<1>8. run' # Idle
  BY <1>7, RunsAssumption
<1>9. Arrived(f)'
  BY <1>1, <1>4, <1>6, <1>7 DEF Arrived
<1>10. Hashed(f, run.rec[f])'
  BY <1>2, <1>6, <1>7 DEF Hashed, Owned
<1>11. Calm(f, run.rec[f]) => Calm(f, run.rec[f])'
  <2>1. CASE again
    BY <1>6, <1>7, <2>1 DEF Calm, Owned
  <2>2. CASE ~again
    BY <1>2, <1>5, <1>7, <2>2 DEF Calm, Exists
  <2> QED
    BY <2>1, <2>2
<1> QED
  BY <1>1, <1>2, <1>3, <1>7, <1>8, <1>9, <1>10, <1>11, LookedIsDone

\* A step on any file leaves each file done.
LEMMA FileStepDone ==
  ASSUME RunInv, NEW f \in Files, NEW g \in Files, FileStep(g)
  PROVE  Done(f)'
<1>1. CASE f # g
  BY <1>1, FileStepEffect, OthersStayDone DEF RunInv
<1>2. CASE f = g
  BY <1>2, InitFileDone, AppendFileDone, KeepOwnedDone, StageOwnedDone, RetireBlockDone,
     RetireFileDone, OtherFileDone DEF FileStep
<1> QED
  BY <1>1, <1>2

\* What is to be shown of a file when a run begins.
LEMMA BegunIsDone ==
  ASSUME RunInv, NEW f \in Files, run' \in RunStates, run'.todo = Files, run'.staged = {},
         run'.conflicts = {}, run'.backups = {}, rec'[f] \in {rec[f], None},
         Hashed(f, run.rec[f])',
         Untouched(f)' =>
           /\ run'.kind = "upgrade" => run'.rec[f] = rec'[f]
           /\ run'.kind = "adopt" => rec'[f] = None
           /\ Calm(f, run.rec[f])'
  PROVE  Done(f)'
<1>1. run' # Idle
  BY RunsAssumption
<1>2. Hashed(f, rec[f])
  BY DEF RunInv, Done
<1>3. Hashed(f, rec[f])'
  BY <1>2 DEF Hashed
<1>4. Arrived(f)'
  BY DEF Arrived
<1>5. Undisturbed(f)'
  BY <1>1 DEF Undisturbed
<1> QED
  BY <1>1, <1>3, <1>4, <1>5 DEF Done

\* The shape of a run that begins.
LEMMA Begun ==
  ASSUME NEW kind \in {"init", "upgrade", "adopt"}, NEW v \in Releases,
         NEW force \in BOOLEAN, NEW records \in [Files -> FileRecords \cup {None}],
         NEW m \in Modes \cup {1}, Begins(kind, v, force, records, m)
  PROVE  /\ run' \in RunStates /\ run'.kind = kind /\ run'.v = v /\ run'.todo = Files
         /\ run'.rec = records /\ run'.staged = {} /\ run'.conflicts = {} /\ run'.backups = {}
<1>1. m \in Nat \ {0}
  BY BoundsAssumption
<1> QED
  BY <1>1 DEF Begins, RunStates

\* init begins.
LEMMA InitBeginsDone ==
  ASSUME RunInv, NEW v \in Releases, NEW m \in Modes, NEW f \in Files,
         InitBegins(v, m) \/ InitForced(v, m)
  PROVE  Done(f)'
<1>1. NoRecords \in [Files -> FileRecords \cup {None}] /\ NoRecords[f] = None
  BY DEF NoRecords
<1>2. /\ Begins("init", v, FALSE, NoRecords, m) \/ Begins("init", v, TRUE, NoRecords, m)
      /\ rec'[f] \in {rec[f], None}
  BY <1>1 DEF InitBegins, InitForced, Begins
<1>3. /\ run' \in RunStates /\ run'.kind = "init" /\ run'.todo = Files /\ run'.rec = NoRecords
      /\ run'.staged = {} /\ run'.conflicts = {} /\ run'.backups = {}
  BY <1>1, <1>2, Begun
<1>4. Hashed(f, run.rec[f])' /\ Calm(f, run.rec[f])'
  BY <1>1, <1>3 DEF Hashed, Calm
<1> QED
  BY <1>2, <1>3, <1>4, BegunIsDone

\* An upgrade begins with the records as they are.
LEMMA UpgradeBeginsDone ==
  ASSUME RunInv, NEW v \in Releases, NEW force \in BOOLEAN, NEW f \in Files,
         UpgradeBegins(v, force)
  PROVE  Done(f)'
<1>1. /\ rec \in [Files -> FileRecords \cup {None}] /\ modes \in Modes \cup {1} /\ Done(f)
  BY DEF RunInv, KindInv, TypeOK
<1>2. /\ Begins("upgrade", v, force, rec, modes) /\ run = Idle
      /\ UNCHANGED <<disk, rec, touched, interrupted>>
  BY DEF UpgradeBegins, Command
<1>3. /\ run' \in RunStates /\ run'.kind = "upgrade" /\ run'.todo = Files /\ run'.rec = rec
      /\ run'.staged = {} /\ run'.conflicts = {} /\ run'.backups = {}
  BY <1>1, <1>2, Begun
<1>4. Hashed(f, run.rec[f])'
  BY <1>1, <1>3 DEF Done, Hashed
<1>5. ASSUME Untouched(f)'
      PROVE  Calm(f, run.rec[f])'
  <2>1. Untouched(f)
    BY <1>2, <1>5 DEF Untouched
  <2>2. Calm(f, rec[f])
    BY <1>1, <1>2, <2>1 DEF Done, Undisturbed
  <2> QED
    BY <1>2, <1>3, <2>2 DEF Calm, Exists
<1> QED
  BY <1>2, <1>3, <1>4, <1>5, BegunIsDone

\* Adoption records what is as it should be.
LEMMA AdoptBeginsDone ==
  ASSUME RunInv, NEW v \in Releases, NEW m \in Modes, NEW force \in BOOLEAN, NEW f \in Files,
         AdoptBegins(v, force, m)
  PROVE  Done(f)'
<1> DEFINE records == [g \in Files |-> AsAdopted(v, g)]
<1>1. /\ Begins("adopt", v, force, records, m) /\ ~ForeignBlock(v, f) /\ release = 0
      /\ UNCHANGED <<disk, rec>>
  BY DEF AdoptBegins
<1>2. /\ run'.kind = "adopt" /\ run'.todo = Files /\ run'.rec[f] = AsAdopted(v, f)
      /\ run'.staged = {} /\ run'.conflicts = {} /\ run'.backups = {}
  BY <1>1 DEF Begins
<1>3. rec'[f] = None
  BY <1>1 DEF RunInv, KindInv, Kinds, NoRecords
<1>4. PICK info : info = AsAdopted(v, f)
  OBVIOUS
<1>5. records \in [Files -> FileRecords \cup {None}]
  BY Adopting DEF RunInv, KindInv
<1>6. Hashed(f, info)' /\ Calm(f, info)'
  <2>1. CASE Policy[v][f] = "project" /\ Exists(f)
    <3>1. info = State(v, f, disk[f], NoBlock)
      BY <1>4, <2>1 DEF AsAdopted
    <3>2. info.policy = "project"
      BY <2>1, <3>1 DEF State
    <3> QED
      BY <3>2 DEF Hashed, Calm, Owned
  <2>2. CASE Policy[v][f] = "append" /\ Exists(f) /\ disk[f].block # NoBlock
    <3>1. info = State(v, f, disk[f], disk[f].block)
      BY <1>4, <2>2 DEF AsAdopted
    <3>2. info.policy = "append" /\ info.applied = disk[f].block
      BY <2>2, <3>1 DEF State
    <3>3. disk[f].block \in Releases
      BY <1>1, <2>2 DEF ForeignBlock
    <3>4. disk[f].block \in Nat
      BY <3>3, ReleasesAssumption
    <3>5. disk[f].block \notin {NoBlock, Broken}
      BY <2>2, <3>4, BoundsAssumption DEF Broken
    <3> QED
      BY <1>1, <2>2, <3>2, <3>5 DEF Hashed, Calm, Owned, Exists
  <2>3. CASE Policy[v][f] = "owned" /\ disk[f] = Template(v, f)
    <3>1. info = State(v, f, disk[f], NoBlock)
      BY <1>4, <2>3 DEF AsAdopted
    <3>2. /\ info.policy = "owned" /\ info.hash = disk[f] /\ info.installed = disk[f]
          /\ info.src = Src[v][f]
      BY <2>3, <3>1 DEF State
    <3>3. disk[f] # Absent
      BY <2>3, Contents
    <3> QED
      BY <1>1, <2>3, <3>2, <3>3 DEF Hashed, Calm, Exists, Template
  <2>4. CASE /\ ~(Policy[v][f] = "project" /\ Exists(f))
             /\ ~(Policy[v][f] = "append" /\ Exists(f) /\ disk[f].block # NoBlock)
             /\ ~(Policy[v][f] = "owned" /\ disk[f] = Template(v, f))
    <3>1. info = None
      BY <1>4, <2>4 DEF AsAdopted
    <3> QED
      BY <3>1 DEF Hashed, Calm
  <2> QED
    BY <2>1, <2>2, <2>3, <2>4
<1>7. Hashed(f, run.rec[f])' /\ Calm(f, run.rec[f])'
  BY <1>2, <1>4, <1>6 DEF Hashed, Calm
<1>8. run' \in RunStates
  <2> HIDE DEF records
  <2> QED
    BY <1>1, <1>5, Begun
<1> QED
  BY <1>2, <1>3, <1>7, <1>8, BegunIsDone

\* Between runs: what is to be shown of a file whose record is kept or dropped.
LEMMA IdleIsDone ==
  ASSUME RunInv, NEW f \in Files, run' = Idle, rec'[f] \in {rec[f], None},
         Untouched(f)' => Calm(f, rec[f])'
  PROVE  Done(f)'
<1>1. Hashed(f, rec[f])
  BY DEF RunInv, Done
<1>2. Hashed(f, rec[f])'
  BY <1>1 DEF Hashed
<1>3. Undisturbed(f)'
  BY DEF Undisturbed
<1> QED
  BY <1>2, <1>3 DEF Done

\* A run that is cut short: nothing is said of its files from then on.
LEMMA InterruptDone ==
  ASSUME RunInv, Interrupt, NEW f \in Files
  PROVE  Done(f)'
<1>1. run' = Idle /\ interrupted' = TRUE /\ rec' = rec
  BY DEF Interrupt
<1>2. ~Untouched(f)'
  BY <1>1 DEF Untouched
<1> QED
  BY <1>1, <1>2, IdleIsDone

\* uninstall, which drops the records of the files it changes.
LEMMA UninstallDone ==
  ASSUME RunInv, NEW S, NEW forget \in BOOLEAN, Uninstall(S, forget), NEW f \in Files
  PROVE  Done(f)'
<1>1. /\ run = Idle /\ UNCHANGED <<run, touched, interrupted>>
      /\ rec' = [g \in Files |-> IF forget \/ g \in Selected(S) THEN None ELSE rec[g]]
  BY DEF Uninstall, Command
<1>2. rec'[f] \in {rec[f], None} /\ (f \in Selected(S) => rec'[f] = None)
  BY <1>1
<1>3. f # Roomodes /\ f \notin Selected(S) => disk'[f] = disk[f]
  BY Uninstalling DEF RunInv, KindInv
<1>4. ASSUME Untouched(f)', rec'[f] # None
      PROVE  Calm(f, rec[f])'
  <2>1. Untouched(f)
    BY <1>1, <1>4 DEF Untouched
  <2>2. Calm(f, rec[f])
    BY <1>1, <2>1 DEF RunInv, Done, Undisturbed
  <2>3. disk'[f] = disk[f] /\ rec'[f] = rec[f]
    BY <1>2, <1>3, <1>4 DEF Untouched
  <2> QED
    BY <2>2, <2>3 DEF Calm, Exists
<1>5. rec'[f] = None => Calm(f, rec[f])'
  BY DEF Calm
<1> QED
  BY <1>1, <1>2, <1>4, <1>5, IdleIsDone

\* uninstall that forgets the records and no more.
LEMMA ForgetDone ==
  ASSUME RunInv, ForgetInstall, NEW f \in Files
  PROVE  Done(f)'
<1>1. run' = Idle /\ rec'[f] = None
  BY DEF ForgetInstall, Command, NoRecords
<1>2. Calm(f, rec[f])'
  BY <1>1 DEF Calm
<1> QED
  BY <1>1, <1>2, IdleIsDone

\* The user edits: a file the run had looked at is late, and no longer untouched.
LEMMA UserEditsDone ==
  ASSUME RunInv, NEW f \in Files, NEW g \in Files, UserEdits(g)
  PROVE  Done(f)'
<1>1. /\ touched' = touched \cup {g} /\ late' = (IF LookedAt(g) THEN late \cup {g} ELSE late)
      /\ UNCHANGED <<rec, run, interrupted>>
  BY DEF UserEdits
<1>2. f # g => disk'[f] = disk[f]
  BY DEF UserEdits
<1>3. Done(f)
  BY DEF RunInv
<1>4. Hashed(f, rec[f])' /\ (run' # Idle => Hashed(f, run.rec[f])')
  BY <1>1, <1>3 DEF Done, Hashed
<1>5. ASSUME run' # Idle
      PROVE  Arrived(f)'
  <2>1. Arrived(f)
    BY <1>1, <1>3, <1>5 DEF Done
  <2>2. CASE f = g
    <3>1. f \notin run'.todo => f \in late'
      BY <1>1, <1>5, <2>2 DEF LookedAt
    <3> QED
      BY <3>1 DEF Arrived
  <2>3. CASE f # g
    <3>1. f \in late' <=> f \in late
      BY <1>1, <2>3
    <3> QED
      BY <1>1, <1>2, <2>1, <2>3, <3>1 DEF Arrived, Exists
  <2> QED
    BY <2>2, <2>3
<1>6. run' # Idle =>
        /\ f \in run'.staged /\ run'.kind # "init" =>
             run'.rec[f] = State(run'.v, f, Template(run'.v, f), NoBlock)
        /\ run'.kind = "init" /\ Policy[run'.v][f] = "owned" => f \in run'.todo \cup run'.staged
  BY <1>1, <1>3 DEF Done
<1>7. ASSUME Untouched(f)'
      PROVE  Undisturbed(f)'
  <2>1. f # g /\ Untouched(f) /\ disk'[f] = disk[f]
    BY <1>1, <1>2, <1>7 DEF Untouched
  <2>2. Undisturbed(f)
    BY <1>3 DEF Done
  <2>3. ASSUME NEW info, Calm(f, info)
        PROVE  Calm(f, info)'
    BY <2>1, <2>3 DEF Calm, Exists
  <2>4. CASE run = Idle
    <3>1. PICK info : info = rec[f]
      OBVIOUS
    <3>2. Calm(f, info)
      BY <2>1, <2>2, <2>4, <3>1 DEF Undisturbed
    <3>3. Calm(f, info)' /\ rec'[f] = info /\ run' = Idle
      BY <1>1, <2>3, <2>4, <3>1, <3>2
    <3>4. Calm(f, rec[f])'
      BY <3>3 DEF Calm
    <3> QED
      BY <3>3, <3>4 DEF Undisturbed
  <2>5. CASE run # Idle
    <3>1. PICK info : info = run.rec[f]
      OBVIOUS
    <3>2. /\ rec[f] # None => f \notin run.conflicts \cup run.backups
          /\ f \in run.conflicts => run.rec[f] = None
          /\ run.kind = "upgrade" /\ f \in run.todo => run.rec[f] = rec[f]
          /\ run.kind = "adopt" => rec[f] = None
      BY <2>1, <2>2, <2>5 DEF Undisturbed
    <3>3. f \notin run.staged => Calm(f, info)
      BY <2>1, <2>2, <2>5, <3>1 DEF Undisturbed
    <3>4. f \notin run'.staged => Calm(f, info)'
      BY <1>1, <2>3, <3>3
    <3>5. run'.rec[f] = info /\ run' # Idle
      BY <1>1, <2>5, <3>1
    <3>6. f \notin run'.staged => Calm(f, run.rec[f])'
      BY <3>4, <3>5 DEF Calm
    <3> QED
      BY <1>1, <3>2, <3>5, <3>6 DEF Undisturbed
  <2> QED
    BY <2>4, <2>5
<1>8. Undisturbed(f)'
  BY <1>7 DEF Undisturbed
<1> QED
  BY <1>4, <1>5, <1>6, <1>8 DEF Done

\* Nothing happens.
LEMMA StutterDone ==
  ASSUME RunInv, UNCHANGED vars, NEW f \in Files
  PROVE  Done(f)'
<1>1. UNCHANGED <<disk, rec, run, touched, late, interrupted>> /\ Done(f)
  BY DEF vars, RunInv
<1> QED
  BY <1>1 DEF Done, Hashed, Arrived, Undisturbed, Untouched, Calm, Exists

\* The targets that init and upgrade meet.
LEMMA InitDone == Init => \A f \in Files : Done(f)
<1> SUFFICES ASSUME Init, NEW f \in Files
             PROVE  Done(f)
  OBVIOUS
<1>1. run = Idle
  BY DEF Init
<1>2. CASE rec = NoRecords
  <2>1. rec[f] = None
    BY <1>2 DEF NoRecords
  <2> QED
    BY <1>1, <2>1 DEF Done, Hashed, Undisturbed, Calm
<1>3. ASSUME NEW v \in Releases, Policy[v][f] = "append", disk[f] = Template(v, f),
             rec[f] = [State(v, f, Template(v, f), NoBlock) EXCEPT !.policy = "managed"]
      PROVE  Done(f)
  <2>1. /\ rec[f].policy = "managed" /\ rec[f].hash = Template(v, f)
        /\ rec[f].installed = Template(v, f) /\ rec[f].src = Src[v][f]
    BY <1>3 DEF State
  <2>2. Hashed(f, rec[f])
    BY <2>1 DEF Hashed, Template
  <2>3. disk[f] # Absent
    BY <1>3, Contents
  <2>4. Calm(f, rec[f])
    BY <1>3, <2>1, <2>3 DEF Calm, Exists, Owned
  <2> QED
    BY <1>1, <2>2, <2>4 DEF Done, Undisturbed
<1>4. ASSUME NEW v \in Releases,
             disk = [g \in Files |-> IF Policy[v][g] = "append" THEN Template(v, g) ELSE Absent],
             rec = [g \in Files |-> IF Policy[v][g] = "append"
                      THEN [State(v, g, Template(v, g), NoBlock) EXCEPT !.policy = "managed"]
                      ELSE None]
      PROVE  Done(f)
  <2>1. CASE Policy[v][f] = "append"
    BY <1>3, <1>4, <2>1
  <2>2. CASE Policy[v][f] # "append"
    <3>1. rec[f] = None
      BY <1>4, <2>2
    <3> QED
      BY <1>1, <3>1 DEF Done, Hashed, Undisturbed, Calm
  <2> QED
    BY <2>1, <2>2
<1> QED
  BY <1>2, <1>4 DEF Init

-----------------------------------------------------------------------------
(* The end of a run.                                                       *)

\* What the end of any run puts in place of a file, and in its record.
LEMMA Ending ==
  ASSUME RunInv, Complete, NEW f \in Files
  PROVE  /\ run # Idle /\ run \in RunStates /\ run.v \in Releases /\ run.todo = {} /\ run' = Idle
         /\ UNCHANGED <<touched, late, interrupted>> /\ modes' = run.modes
         /\ disk' \in [Files -> Texts] /\ disk[f] \in Texts
         /\ f # Roomodes => disk'[f] = IF f \in run.staged THEN Template(run.v, f) ELSE disk[f]
         /\ disk'[f] = Absent <=> f \notin run.staged /\ disk[f] = Absent
         /\ f = Roomodes /\ disk'[f] # Absent => disk'[f].block = run.modes
         /\ run.kind = "init" => Composable
<1>1. /\ run # Idle /\ run' = Idle /\ disk' = Landed /\ run.todo = {} /\ modes' = run.modes
      /\ UNCHANGED <<touched, late, interrupted>> /\ (run.kind = "init" => Composable)
  BY DEF Complete
<1>2. TypeOK
  BY DEF RunInv, KindInv
<1>3. PICK down : down = IF f \in run.staged THEN Template(run.v, f) ELSE disk[f]
  OBVIOUS
<1>4. /\ run \in RunStates /\ run.v \in Releases /\ Landed \in [Files -> Texts] /\ disk[f] \in Texts
      /\ Landed[f] = IF f = Roomodes /\ down # Absent THEN BlockOf(run.modes, down) ELSE down
  BY <1>1, <1>2, <1>3, Landing DEF TypeOK
<1>5. Template(run.v, f) \in Content /\ Template(run.v, f) # Absent
  BY <1>4, Contents
<1>6. down = Absent <=> f \notin run.staged /\ disk[f] = Absent
  BY <1>3, <1>5
<1>7. run.modes \in Int
  BY <1>4 DEF RunStates
<1>8. down # Absent => down \in Content
  BY <1>3, <1>4, <1>5 DEF Texts
<1>9. down # Absent => BlockOf(run.modes, down) # Absent /\ BlockOf(run.modes, down).block = run.modes
  BY <1>7, <1>8, Contents
<1>10. f # Roomodes => disk'[f] = IF f \in run.staged THEN Template(run.v, f) ELSE disk[f]
  BY <1>1, <1>3, <1>4
<1>11. disk'[f] = Absent <=> down = Absent
  BY <1>1, <1>4, <1>9
<1>12. f = Roomodes /\ disk'[f] # Absent => disk'[f].block = run.modes
  BY <1>1, <1>4, <1>9, <1>11
<1> QED
  BY <1>1, <1>4, <1>6, <1>10, <1>11, <1>12

\* What init has on record in the end.
LEMMA InitRecords ==
  ASSUME RunInv, Complete, NEW f \in Files, run.kind = "init"
  PROVE  /\ Policy[run.v][f] = "none" => rec'[f] = None
         /\ Policy[run.v][f] # "none" =>
              /\ rec'[f] # None /\ rec'[f].policy = Policy[run.v][f] /\ rec'[f].src = Src[run.v][f]
              /\ f # Roomodes => /\ rec'[f].installed = Template(run.v, f)
                                 /\ rec'[f].hash = disk'[f]
              /\ Policy[run.v][f] = "append" => rec'[f].applied = disk'[f].block
         /\ Policy[run.v][f] \in {"append", "project", "seed"} => disk'[f] # Absent
         /\ Policy[run.v][f] = "append" => disk'[f].block \notin {NoBlock, Broken}
         /\ Policy[run.v][f] = "owned" => f \in run.staged
<1>1. /\ run # Idle /\ run \in RunStates /\ run.v \in Releases /\ run.todo = {} /\ Composable
      /\ disk' \in [Files -> Texts]
      /\ f # Roomodes => disk'[f] = IF f \in run.staged THEN Template(run.v, f) ELSE disk[f]
      /\ disk'[f] = Absent <=> f \notin run.staged /\ disk[f] = Absent
  BY Ending
<1>2. rec' = Stamped(Composed, disk')
  BY DEF Complete
<1>3. Composed \in [Files -> FileRecords \cup {None}]
  BY <1>1, Composing DEF RunInv, KindInv
<1>4. /\ Composed[f] = None => rec'[f] = None
      /\ Composed[f] # None =>
           /\ rec'[f] # None
           /\ rec'[f].policy = Composed[f].policy /\ rec'[f].applied = Composed[f].applied
           /\ rec'[f].src = Composed[f].src
           /\ f # Roomodes => rec'[f].installed = IF Policy[run.v][f] = "none"
                                THEN Composed[f].installed ELSE Template(run.v, f)
           /\ f # Roomodes => rec'[f].hash = Composed[f].hash
      /\ rec' \in [Files -> FileRecords \cup {None}]
  BY <1>1, <1>2, <1>3, Stamping
<1>5. /\ Policy[run.v][f] = "none" => Composed[f] = None
      /\ Policy[run.v][f] # "none" =>
           /\ Composed[f] \in FileRecords /\ Composed[f].policy = Policy[run.v][f]
           /\ Composed[f].src = Src[run.v][f]
           /\ Composed[f].hash = IF f \in run.staged THEN Template(run.v, f) ELSE disk[f]
           /\ Policy[run.v][f] = "append" /\ f \notin run.staged =>
                Exists(f) /\ Composed[f].applied = disk[f].block
  BY <1>1, Composing DEF RunInv, KindInv
<1>6. f \in run.staged => Policy[run.v][f] = "owned"
  BY <1>1 DEF RunInv, KindInv, Kinds
<1>7. Policy[run.v][f] = "append" => f # Roomodes
  BY <1>1, PolicyAssumption
<1>8. Policy[run.v][f] = "owned" => f \in run.staged
  BY <1>1 DEF RunInv, Done
<1>9. Policy[run.v][f] \in {"append", "project", "seed"} => disk'[f] # Absent
  BY <1>1, <1>6 DEF Composable, Exists
<1>10. Policy[run.v][f] = "append" =>
          /\ disk'[f] = disk[f] /\ disk[f].block \notin {NoBlock, Broken}
          /\ Composed[f].applied = disk[f].block
  BY <1>1, <1>5, <1>6, <1>7 DEF Composable
<1>11. Policy[run.v][f] # "none" => Composed[f] # None
  BY <1>5, RunsAssumption
<1>12. ASSUME Policy[run.v][f] # "none"
       PROVE  /\ rec'[f].policy = Policy[run.v][f] /\ rec'[f].src = Src[run.v][f]
              /\ f # Roomodes => /\ rec'[f].installed = Template(run.v, f)
                                 /\ rec'[f].hash = disk'[f]
              /\ Policy[run.v][f] = "append" => rec'[f].applied = disk'[f].block
  BY <1>1, <1>4, <1>5, <1>10, <1>11, <1>12
<1>13. Policy[run.v][f] # "none" => rec'[f] # None
  BY <1>4, <1>11
<1> QED
  BY <1>4, <1>5, <1>8, <1>9, <1>10, <1>12, <1>13

\* What an upgrade or an adoption has on record in the end.
LEMMA UpgradeRecords ==
  ASSUME RunInv, Complete, NEW f \in Files, run.kind # "init"
  PROVE  /\ run.rec[f] = None => rec'[f] = None
         /\ run.rec[f] # None =>
              /\ rec'[f] # None /\ rec'[f].policy = run.rec[f].policy
              /\ rec'[f].applied = run.rec[f].applied /\ rec'[f].src = run.rec[f].src
              /\ f # Roomodes =>
                   /\ rec'[f].installed = IF Policy[run.v][f] = "none"
                                          THEN run.rec[f].installed ELSE Template(run.v, f)
                   /\ rec'[f].hash = run.rec[f].hash
         /\ f \in run.staged =>
              /\ Policy[run.v][f] = "owned" /\ run.rec[f] # None /\ run.rec[f].policy = "owned"
              /\ run.rec[f].hash = Template(run.v, f) /\ run.rec[f].src = Src[run.v][f]
<1>1. /\ run # Idle /\ run \in RunStates /\ run.v \in Releases /\ disk' \in [Files -> Texts]
  BY Ending
<1>2. rec' = Stamped(run.rec, disk')
  BY DEF Complete
<1>3. run.rec \in [Files -> FileRecords \cup {None}]
  BY <1>1 DEF RunStates
<1>4. f \in run.staged => /\ Policy[run.v][f] = "owned"
                          /\ run.rec[f] = State(run.v, f, Template(run.v, f), NoBlock)
  BY <1>1 DEF RunInv, KindInv, Kinds, Done
<1>5. f \in run.staged =>
        /\ run.rec[f] # None /\ run.rec[f].policy = "owned"
        /\ run.rec[f].hash = Template(run.v, f) /\ run.rec[f].src = Src[run.v][f]
  <2>1. Template(run.v, f) \in Texts /\ NoBlock \in Int
    BY <1>1, Contents DEF Texts, NoBlock
  <2>2. LET new == State(run.v, f, Template(run.v, f), NoBlock)
        IN new \in FileRecords /\ new.policy = Policy[run.v][f] /\ new.hash = Template(run.v, f)
           /\ new.src = Src[run.v][f]
    BY <1>1, <2>1, StateIsRecord
  <2> QED
    BY <1>4, <2>2, RunsAssumption
<1> QED
  BY <1>1, <1>2, <1>3, <1>4, <1>5, Stamping

\* A file that met no conflict and no late edit is where the release has it.
LEMMA CompleteSettles ==
  ASSUME RunInv, Complete, NEW f \in Files, f \notin late, f \notin run.conflicts
  PROVE  /\ Policy[run.v][f] = "owned" =>
              /\ disk'[f] # Absent /\ rec'[f] # None /\ rec'[f].policy = "owned"
              /\ f # Roomodes => /\ disk'[f] = Template(run.v, f) /\ rec'[f].hash = disk'[f]
                                 /\ rec'[f].installed = disk'[f] /\ rec'[f].src = Src[run.v][f]
         /\ Policy[run.v][f] = "append" =>
              /\ disk'[f] # Absent /\ rec'[f] # None /\ rec'[f].policy = "append"
              /\ disk'[f].block \in Releases /\ Src[disk'[f].block][f] = Src[run.v][f]
              /\ rec'[f].applied = disk'[f].block
         /\ Policy[run.v][f] = "none" => rec'[f] = None \/ rec'[f].policy \in {"project", "seed"}
<1>1. /\ run # Idle /\ run \in RunStates /\ run.v \in Releases /\ run.todo = {}
      /\ disk' \in [Files -> Texts]
      /\ f # Roomodes => disk'[f] = IF f \in run.staged THEN Template(run.v, f) ELSE disk[f]
      /\ disk'[f] = Absent <=> f \notin run.staged /\ disk[f] = Absent
  BY Ending
<1>2. Arrived(f) /\ Hashed(f, run.rec[f]) /\ Kind(f, run.rec[f])
  BY <1>1 DEF RunInv, Done, KindInv, Kinds
<1>3. f \in run.staged => Policy[run.v][f] = "owned"
  BY <1>1 DEF RunInv, KindInv, Kinds
<1>4. Policy[run.v][f] = "append" => f # Roomodes
  BY <1>1, PolicyAssumption
<1>5. Template(run.v, f) # Absent
  BY <1>1, Contents
<1>6. CASE Policy[run.v][f] = "owned"
  <2>1. CASE run.kind = "init"
    <3>1. /\ rec'[f] # None /\ rec'[f].policy = "owned" /\ rec'[f].src = Src[run.v][f]
          /\ f \in run.staged
          /\ f # Roomodes => rec'[f].installed = Template(run.v, f) /\ rec'[f].hash = disk'[f]
      BY <1>6, <2>1, InitRecords
    <3> QED
      BY <1>1, <1>5, <1>6, <3>1
  <2>2. CASE run.kind # "init" /\ f \in run.staged
    <3>1. /\ rec'[f] # None /\ rec'[f].policy = "owned" /\ rec'[f].src = Src[run.v][f]
          /\ f # Roomodes => rec'[f].installed = Template(run.v, f) /\ rec'[f].hash = Template(run.v, f)
      BY <1>6, <2>2, UpgradeRecords
    <3> QED
      BY <1>1, <1>5, <1>6, <2>2, <3>1
  <2>3. CASE run.kind # "init" /\ f \notin run.staged
    <3>1. /\ Exists(f) /\ run.rec[f] # None /\ disk[f] = run.rec[f].hash
          /\ run.rec[f].src = Src[run.v][f]
      BY <1>1, <1>2, <1>6, <2>3 DEF Arrived
    <3>2. run.rec[f].policy = "owned"
      BY <1>1, <1>2, <1>6, <3>1, BlockKind
    <3>3. f # Roomodes => disk[f] = Template(run.v, f)
      BY <1>2, <3>1, <3>2 DEF Hashed, Owned, Template
    <3>4. /\ rec'[f] # None /\ rec'[f].policy = "owned" /\ rec'[f].src = Src[run.v][f]
          /\ f # Roomodes => rec'[f].installed = Template(run.v, f) /\ rec'[f].hash = run.rec[f].hash
      BY <1>6, <2>3, <3>1, <3>2, UpgradeRecords
    <3> QED
      BY <1>1, <1>6, <2>3, <3>1, <3>3, <3>4 DEF Exists
  <2> QED
    BY <2>1, <2>2, <2>3
<1>7. CASE Policy[run.v][f] = "append"
  <2>1. /\ Exists(f) /\ disk[f].block \in Releases /\ Src[disk[f].block][f] = Src[run.v][f]
        /\ run.kind # "init" => /\ run.rec[f] # None /\ run.rec[f].policy = "append"
                                /\ run.rec[f].applied = disk[f].block
    BY <1>1, <1>2, <1>7 DEF Arrived
  <2>2. disk'[f] = disk[f]
    BY <1>1, <1>3, <1>4, <1>7
  <2>3. rec'[f] # None /\ rec'[f].policy = "append" /\ rec'[f].applied = disk'[f].block
    <3>1. CASE run.kind = "init"
      BY <1>7, <3>1, InitRecords
    <3>2. CASE run.kind # "init"
      BY <2>1, <2>2, <3>2, UpgradeRecords
    <3> QED
      BY <3>1, <3>2
  <2> QED
    BY <1>7, <2>1, <2>2, <2>3 DEF Exists
<1>8. CASE Policy[run.v][f] = "none"
  <2>1. CASE run.kind = "init"
    BY <1>8, <2>1, InitRecords
  <2>2. CASE run.kind # "init"
    <3>1. run.rec[f] = None \/ run.rec[f].policy \in {"project", "seed"}
      BY <1>1, <1>2, <1>8 DEF Arrived
    <3> QED
      BY <1>8, <2>2, <3>1, UpgradeRecords
  <2> QED
    BY <1>8, <2>1, <2>2
<1> QED
  BY <1>6, <1>7, <1>8

\* The end of a run: the records are of files as they are.
LEMMA CompleteDone ==
  ASSUME RunInv, Complete, NEW f \in Files
  PROVE  Done(f)'
<1>1. /\ run # Idle /\ run \in RunStates /\ run.v \in Releases /\ run.todo = {} /\ run' = Idle
      /\ UNCHANGED <<touched, late, interrupted>>
      /\ f # Roomodes => disk'[f] = IF f \in run.staged THEN Template(run.v, f) ELSE disk[f]
  BY Ending
<1>2. /\ Hashed(f, run.rec[f]) /\ Kind(f, run.rec[f]) /\ Undisturbed(f) /\ late \subseteq touched
      /\ Policy[run.v][f] \in Policies
  <2>1. Policy[run.v] \in [Files -> Policies]
    BY <1>1, ReleasesAssumption
  <2> QED
    BY <1>1, <2>1 DEF RunInv, Done, KindInv, Kinds, TypeOK
<1>3. Hashed(f, rec[f])'
  <2>1. CASE run.kind = "init"
    <3>1. rec'[f] # None => /\ rec'[f].policy = Policy[run.v][f] /\ rec'[f].src = Src[run.v][f]
                            /\ f # Roomodes => rec'[f].hash = disk'[f]
                            /\ Policy[run.v][f] = "owned" => f \in run.staged
      BY <2>1, InitRecords
    <3>2. Policy[run.v][f] # "managed"
      BY <1>2 DEF Policies
    <3> QED
      BY <1>1, <3>1, <3>2 DEF Hashed, Owned, Template
  <2>2. CASE run.kind # "init"
    <3>1. /\ run.rec[f] = None => rec'[f] = None
          /\ run.rec[f] # None =>
               /\ rec'[f].policy = run.rec[f].policy /\ rec'[f].src = run.rec[f].src
               /\ f # Roomodes => rec'[f].hash = run.rec[f].hash
      BY <2>2, UpgradeRecords
    <3> QED
      BY <1>2, <3>1 DEF Hashed
  <2> QED
    BY <2>1, <2>2
<1>4. ASSUME Untouched(f)', rec'[f] # None
      PROVE  Calm(f, rec[f])'
  <2>1. Untouched(f) /\ f # Roomodes /\ f \notin late
    BY <1>1, <1>2, <1>4 DEF Untouched
  <2>2. CASE run.kind = "init"
    <3>1. /\ rec'[f].policy = Policy[run.v][f] /\ Policy[run.v][f] # "none"
          /\ rec'[f].installed = Template(run.v, f) /\ rec'[f].hash = disk'[f]
          /\ Policy[run.v][f] = "append" => rec'[f].applied = disk'[f].block
          /\ Policy[run.v][f] \in {"append", "project", "seed"} => disk'[f] # Absent
          /\ Policy[run.v][f] = "append" => disk'[f].block \notin {NoBlock, Broken}
          /\ Policy[run.v][f] = "owned" => f \in run.staged
      BY <1>4, <2>1, <2>2, InitRecords
    <3>2. Policy[run.v][f] = "owned" => disk'[f] = Template(run.v, f) /\ disk'[f] # Absent
      BY <1>1, <2>1, <3>1, Contents
    <3>3. Policy[run.v][f] \in {"owned", "append", "project", "seed"}
      BY <1>2, <3>1 DEF Policies
    <3> QED
      BY <3>1, <3>2, <3>3 DEF Calm, Exists, Owned
  <2>3. CASE run.kind # "init"
    <3>1. /\ run.rec[f] # None /\ rec'[f].policy = run.rec[f].policy
          /\ rec'[f].applied = run.rec[f].applied
      BY <1>4, <2>3, UpgradeRecords
    <3>2. f \notin run.conflicts /\ (f \notin run.staged => Calm(f, run.rec[f]))
      BY <1>1, <1>2, <2>1, <3>1 DEF Undisturbed
    <3>3. CASE Policy[run.v][f] = "owned"
      <4>1. /\ disk'[f] # Absent /\ rec'[f].policy = "owned" /\ rec'[f].hash = disk'[f]
            /\ rec'[f].installed = disk'[f]
        BY <2>1, <3>2, <3>3, CompleteSettles
      <4> QED
        BY <4>1 DEF Calm, Exists, Owned
    <3>4. CASE Policy[run.v][f] = "append"
      <4>1. /\ disk'[f] # Absent /\ rec'[f].policy = "append" /\ rec'[f].applied = disk'[f].block
            /\ disk'[f].block \in Releases
        BY <2>1, <3>2, <3>4, CompleteSettles
      <4>2. disk'[f].block \in Nat \ {0}
        BY <4>1, ReleasesAssumption
      <4>3. disk'[f].block \notin {NoBlock, Broken}
        BY <4>2, BoundsAssumption DEF NoBlock, Broken
      <4> QED
        BY <4>1, <4>3 DEF Calm, Exists, Owned
    <3>5. CASE Policy[run.v][f] \in {"none", "project", "seed"}
      <4>1. f \notin run.staged
        BY <1>1, <3>5 DEF RunInv, KindInv, Kinds
      <4>2. disk'[f] = disk[f] /\ Calm(f, run.rec[f])
        BY <1>1, <2>1, <3>2, <4>1
      <4>3. rec'[f].policy \in {"project", "seed"}
        <5>1. CASE Policy[run.v][f] = "none"
          BY <1>4, <2>1, <3>2, <5>1, CompleteSettles
        <5>2. CASE Policy[run.v][f] # "none"
          <6>1. Policy[run.v][f] = IF run.rec[f].policy = "managed" THEN "append" ELSE run.rec[f].policy
            BY <1>1, <1>2, <3>1, <5>2, BlockKind
          <6> QED
            BY <3>1, <3>5, <5>2, <6>1
        <5> QED
          BY <5>1, <5>2
      <4> QED
        BY <3>1, <4>2, <4>3 DEF Calm, Exists, Owned
    <3> QED
      BY <1>2, <3>3, <3>4, <3>5 DEF Policies
  <2> QED
    BY <2>2, <2>3
<1>5. rec'[f] = None => Calm(f, rec[f])'
  BY DEF Calm
<1>6. Undisturbed(f)'
  BY <1>1, <1>4, <1>5 DEF Undisturbed
<1> QED
  BY <1>1, <1>3, <1>6 DEF Done

\* Each step leaves each file done.
LEMMA NextDone ==
  ASSUME RunInv, [Next]_vars, NEW f \in Files
  PROVE  Done(f)'
<1>1. ASSUME NEW v \in Releases, NEW m \in Modes, NEW force \in BOOLEAN,
             InitBegins(v, m) \/ InitForced(v, m) \/ AdoptBegins(v, force, m)
      PROVE  Done(f)'
  BY <1>1, InitBeginsDone, AdoptBeginsDone
<1>2. ASSUME NEW v \in Releases, NEW force \in BOOLEAN, UpgradeBegins(v, force)
      PROVE  Done(f)'
  BY <1>2, UpgradeBeginsDone
<1>3. ASSUME NEW g \in Files, FileStep(g) \/ UserEdits(g)
      PROVE  Done(f)'
  BY <1>3, FileStepDone, UserEditsDone
<1>4. CASE Complete \/ Interrupt \/ ForgetInstall \/ UNCHANGED vars
  BY <1>4, CompleteDone, InterruptDone, ForgetDone, StutterDone
<1>5. ASSUME NEW S, NEW forget \in BOOLEAN, Uninstall(S, forget)
      PROVE  Done(f)'
  BY <1>5, UninstallDone
<1>6. (TRUE \in BOOLEAN) /\ (FALSE \in BOOLEAN)
  OBVIOUS
<1> QED
  BY <1>1, <1>2, <1>3, <1>4, <1>5, <1>6 DEF Next

\* What runs have done, and what nobody disturbed (upgrade.py's Pass A and its
\* end, init.py's and adoption's records, uninstall's).
THEOREM RunInvariant == Spec => []RunInv
<1>1. Init => RunInv
  BY InitKinds, InitDone DEF RunInv
<1>2. RunInv /\ [Next]_vars => RunInv'
  <2> SUFFICES ASSUME RunInv, [Next]_vars
               PROVE  RunInv'
    OBVIOUS
  <2>1. KindInv'
    BY NextKeepsKinds DEF RunInv
  <2>2. \A f \in Files : Done(f)'
    BY NextDone
  <2> QED
    BY <2>1, <2>2 DEF RunInv
<1> QED
  BY <1>1, <1>2, PTL DEF Spec

-----------------------------------------------------------------------------
(* What follows: quiet files, runs that converge, checks that pass.        *)

\* A file on record that nobody edited is not reported as drifted, not in
\* conflict and not copied (verify_hashes, upgrade.py's conflicts and backups).
THEOREM QuietTheorem == Spec => []UneditedIsQuiet
<1>1. ASSUME RunInv, ~interrupted, NEW f \in Files \ ({Roomodes} \cup touched), rec[f] # None
      PROVE  IF run = Idle THEN ~Drift(f) ELSE f \notin run.conflicts \cup run.backups
  <2>1. Undisturbed(f) /\ Untouched(f)
    BY <1>1 DEF RunInv, Done, Untouched
  <2>2. CASE run = Idle
    <3>1. Calm(f, rec[f])
      BY <2>1, <2>2 DEF Undisturbed
    <3>2. ~Drift(f)
      BY <1>1, <3>1 DEF Calm, Drift, Exists
    <3> QED
      BY <2>2, <3>2
  <2>3. CASE run # Idle
    BY <1>1, <2>1, <2>3 DEF Undisturbed
  <2> QED
    BY <2>2, <2>3
<1>2. RunInv => UneditedIsQuiet
  BY <1>1 DEF UneditedIsQuiet
<1> QED
  BY <1>2, RunInvariant, PTL

\* A run that met no conflict leaves nothing for a second one to do (upgrade.py
\* compares with the records the first has written).
THEOREM ConvergesTheorem == Spec => Converges
<1>1. ASSUME RunInv, NEW v \in Releases, Complete, run.v = v, run.conflicts = {}, late = {},
             NEW f \in Files \ {Roomodes}
      PROVE  Settled(v, f)'
  <2>1. f \in Files /\ f # Roomodes /\ f \notin late /\ f \notin run.conflicts
    BY <1>1
  <2>2. CASE Policy[v][f] = "owned"
    <3>1. /\ disk'[f] # Absent /\ disk'[f] = Template(v, f) /\ rec'[f].hash = disk'[f]
          /\ rec'[f].src = Src[v][f]
      BY <1>1, <2>1, <2>2, CompleteSettles
    <3>2. disk'[f].text = Src[v][f]
      BY <3>1 DEF Template
    <3> QED
      BY <2>2, <3>1, <3>2 DEF Settled, Exists
  <2>3. CASE Policy[v][f] = "append"
    <3>1. /\ disk'[f] # Absent /\ disk'[f].block \in Releases
          /\ Src[disk'[f].block][f] = Src[v][f] /\ rec'[f].applied = disk'[f].block
      BY <1>1, <2>1, <2>3, CompleteSettles
    <3> QED
      BY <2>3, <3>1 DEF Settled, Exists
  <2>4. CASE Policy[v][f] = "none"
    <3>1. rec'[f] = None \/ rec'[f].policy \in {"project", "seed"}
      BY <1>1, <2>1, <2>4, CompleteSettles
    <3> QED
      BY <2>4, <3>1 DEF Settled
  <2>5. CASE Policy[v][f] \notin {"owned", "append", "none"}
    BY <2>5 DEF Settled
  <2> QED
    BY <2>2, <2>3, <2>4, <2>5
<1>2. RunInv => [\A v \in Releases :
                   /\ Complete
                   /\ run.v = v /\ run.conflicts = {} /\ late = {}
                   => \A f \in Files \ {Roomodes} : Settled(v, f)']_vars
  BY <1>1
<1> QED
  BY <1>2, RunInvariant, PTL DEF Converges

\* After a run that met no conflict, check stops at nothing an upgrade could mend
\* (check_installed_target).
THEOREM CheckedTheorem == Spec => CheckedAfterRun
<1>1. ASSUME RunInv, KindInv', NEW v \in Releases, Complete, run.v = v, run.conflicts = {},
             late = {}, NEW f \in Complaints(v)'
      PROVE  \/ Policy[v][f] \in {"project", "seed"} /\ disk'[f] = Absent
             \/ rec'[f] # None /\ rec'[f].policy \in {"project", "seed"}
  <2>1. f \in Files
    BY <1>1 DEF Complaints
  <2>2. f \notin late /\ f \notin run.conflicts
    BY <1>1
  <2>3. /\ modes' = run.modes
        /\ f = Roomodes /\ disk'[f] # Absent => disk'[f].block = run.modes
    BY <1>1, <2>1, Ending
  <2>4. Kind(f, rec'[f]) /\ Policy[v][f] \in Policies
    <3>1. Policy[v] \in [Files -> Policies]
      BY ReleasesAssumption
    <3> QED
      BY <1>1, <2>1, <3>1 DEF KindInv, Kinds, Kind, HasBlock
  <2>5. ~ForeignModes(f)'
    BY <2>3 DEF ForeignModes, Exists
  <2>6. \/ rec'[f] # None /\ disk'[f] = Absent
        \/ rec'[f] = None /\ disk'[f] = Absent /\ Policy[v][f] \notin {"project", "none"}
        \/ BlockComplaint(f)'
        \/ rec'[f] # None /\ Policy[v][f] # "none" /\ rec'[f].policy # Policy[v][f]
        \/ rec'[f] # None /\ Policy[v][f] = "none" /\ rec'[f].policy # "project"
    BY <1>1, <2>5 DEF Complaints, Exists
  <2>7. CASE Policy[v][f] = "owned"
    <3>1. disk'[f] # Absent /\ rec'[f] # None /\ rec'[f].policy = "owned"
      BY <1>1, <2>1, <2>2, <2>7, CompleteSettles
    <3> QED
      BY <2>6, <2>7, <3>1 DEF BlockComplaint
  <2>8. CASE Policy[v][f] = "append"
    <3>1. /\ disk'[f] # Absent /\ rec'[f] # None /\ rec'[f].policy = "append"
          /\ disk'[f].block \in Releases /\ rec'[f].applied = disk'[f].block
      BY <1>1, <2>1, <2>2, <2>8, CompleteSettles
    <3>2. disk'[f].block \in Nat \ {0}
      BY <3>1, ReleasesAssumption
    <3>3. disk'[f].block \notin {NoBlock, Broken}
      BY <3>2, BoundsAssumption DEF NoBlock, Broken
    <3>4. ~BlockComplaint(f)'
      BY <3>1, <3>3 DEF BlockComplaint
    <3> QED
      BY <2>6, <2>8, <3>1, <3>4
  <2>9. CASE Policy[v][f] = "none"
    <3>1. rec'[f] = None \/ rec'[f].policy \in {"project", "seed"}
      BY <1>1, <2>1, <2>2, <2>9, CompleteSettles
    <3> QED
      BY <2>6, <2>9, <3>1 DEF BlockComplaint
  <2>10. CASE Policy[v][f] \in {"project", "seed"}
    <3>1. CASE rec'[f] = None
      BY <2>6, <2>10, <3>1 DEF BlockComplaint
    <3>2. CASE rec'[f] # None
      <4>1. Policy[v][f] = IF rec'[f].policy = "managed" THEN "append" ELSE rec'[f].policy
        BY <2>1, <2>4, <2>10, <3>2, BlockKind
      <4> QED
        BY <2>10, <3>2, <4>1
    <3> QED
      BY <3>1, <3>2
  <2> QED
    BY <2>4, <2>7, <2>8, <2>9, <2>10 DEF Policies
<1>2. RunInv /\ KindInv' =>
        [\A v \in Releases :
           /\ Complete
           /\ run.v = v /\ run.conflicts = {} /\ late = {}
           => \A f \in Complaints(v)' :
                \/ Policy[v][f] \in {"project", "seed"} /\ disk'[f] = Absent
                \/ rec'[f] # None /\ rec'[f].policy \in {"project", "seed"}]_vars
  BY <1>1
<1> QED
  BY <1>2, RunInvariant, KindInvariant, PTL DEF CheckedAfterRun

=============================================================================
