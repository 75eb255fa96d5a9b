------------------------- MODULE PlanningDocsProofs -------------------------
(***************************************************************************)
(* `harness state repair` keeps what it rewrites, can be killed and run    *)
(* again, settles and makes no reader complain of more -- for every set of *)
(* milestones, every retention and any number of edits.                    *)
(*                                                                         *)
(* The argument: while nobody edits, the repair knows what the files say   *)
(* (ReadInv), and rendering a checklist drops letters but no line, because *)
(* no two lines have the same title (LinesInv).                            *)
(***************************************************************************)
EXTENDS PlanningDocs, FiniteSetTheorems, SequenceTheorems, TLAPS

\* The repair is a record of that shape, and so is each backup.
JobTypeOK ==
  /\ TypeOK
  /\ job \in [pc : {"idle", "back up roadmap", "write roadmap", "back up state", "write state"},
              roadmap : Roadmap, doc : Doc, pointer : Pointer,
              stale : BOOLEAN, ended : BOOLEAN]
  /\ backups \in [roadmap : Seq(Roadmap), doc : Seq(Doc)]

\* The lines of a checklist: finitely many, inside the block or beside it -- a
\* file without block has nothing beside it -- each with a title of its own.
WellKept(r) ==
  /\ IsFiniteSet(Written(r))
  /\ r.listed \cap r.loose = {}
  /\ r.marks # "block" => r.loose = {}
  /\ \A k, l \in Written(r) : k.title = l.title => k = l

\* Every ROADMAP.md there is or was is well kept.
LinesInv ==
  /\ WellKept(roadmap)
  /\ WellKept(job.roadmap)
  /\ \A i \in 1..Len(backups.roadmap) : WellKept(backups.roadmap[i])

\* What the files say while a repair runs and nobody edits: what it read, and
\* after the first write the new ROADMAP.md.
ReadInv ==
  ~job.stale =>
    /\ job.pc \in {"back up roadmap", "write roadmap"} =>
         roadmap = job.roadmap /\ doc = job.doc /\ pointer = job.pointer
    /\ job.pc \in {"back up state", "write state"} =>
         roadmap = NewRoadmap(job.roadmap) /\ doc = job.doc /\ pointer = job.pointer
    /\ job.pc = "write roadmap" => roadmap \in Range(backups.roadmap)
    /\ job.pc = "write state" => doc \in Range(backups.doc)

\* What they say after it.
EndedInv ==
  job.ended =>
    /\ job.pc = "idle"
    /\ roadmap = NewRoadmap(job.roadmap)
    /\ doc = NewDoc(job.doc, Rendered(job.roadmap), job.pointer)
    /\ pointer = job.pointer

RepairInv == JobTypeOK /\ LinesInv /\ ReadInv /\ EndedInv

-----------------------------------------------------------------------------
(* What is rendered.                                                       *)

\* The line without its letter, and the line in the form the counts read.
PlainLine(l) == [l EXCEPT !.letter = FALSE]
CountedLine(l) == [l EXCEPT !.counted = TRUE]

\* A line without its letter is a line, and otherwise the same.
LEMMA DroppedLetter ==
  ASSUME NEW l \in Line
  PROVE  /\ PlainLine(l) \in Line
         /\ PlainLine(l).letter = FALSE
         /\ PlainLine(l).num = l.num
         /\ PlainLine(l).title = l.title
         /\ PlainLine(l).done = l.done
         /\ PlainLine(l).counted = l.counted
  BY DEF Line, PlainLine

\* So is a line written in the way that is counted, which one that is counted
\* was before.
LEMMA MadeCounted ==
  ASSUME NEW l \in Line
  PROVE  /\ CountedLine(l) \in Line
         /\ CountedLine(l).counted = TRUE
         /\ CountedLine(l).letter = l.letter
         /\ CountedLine(l).title = l.title
         /\ l.counted => CountedLine(l) = l
  BY DEF Line, CountedLine

\* A rendered block has lines that are counted, none with a letter, and each
\* with the title of a line that was in the list.
LEMMA RenderedType ==
  ASSUME NEW r \in Roadmap
  PROVE  /\ Rendered(r) \in SUBSET Line
         /\ \A l \in Rendered(r) : ~l.letter /\ l.counted
         /\ \A l \in Rendered(r) : \E k \in r.listed : l.title = k.title
<1>1. r.listed \in SUBSET Line
  BY DEF Roadmap
<1>2. CASE r.marks = "block"
  <2>1. Rendered(r) = {CountedLine(l) : l \in {k \in r.listed : ~k.letter}}
    BY <1>2 DEF Rendered, PlainLine, CountedLine
  <2>2. \A l \in r.listed : /\ CountedLine(l) \in Line
                             /\ CountedLine(l).counted
                             /\ CountedLine(l).letter = l.letter
                             /\ CountedLine(l).title = l.title
    BY <1>1, MadeCounted
  <2> QED
    BY <2>1, <2>2
<1>3. CASE r.marks # "block"
  <2>1. Rendered(r) = {PlainLine(l) : l \in {k \in r.listed : k.counted}}
    BY <1>3 DEF Rendered, PlainLine, CountedLine
  <2>2. \A l \in r.listed : /\ PlainLine(l) \in Line
                             /\ ~PlainLine(l).letter
                             /\ PlainLine(l).counted = l.counted
                             /\ PlainLine(l).title = l.title
    BY <1>1, DroppedLetter
  <2> QED
    BY <2>1, <2>2
<1> QED
  BY <1>2, <1>3

\* The new ROADMAP.md is one.
LEMMA NewRoadmapType ==
  ASSUME NEW r \in Roadmap
  PROVE  /\ NewRoadmap(r) \in Roadmap
         /\ NewRoadmap(r).marks = "block"
         /\ NewRoadmap(r).listed = Rendered(r)
         /\ NewRoadmap(r).loose = r.loose
         /\ NewRoadmap(r).prose = FALSE
<1>1. Rendered(r) \in SUBSET Line
  BY RenderedType
<1> QED
  BY <1>1 DEF NewRoadmap, Roadmap, Marks

\* Rendering what was rendered gives the same.
LEMMA RenderedTwice ==
  ASSUME NEW r \in Roadmap
  PROVE  /\ Rendered(NewRoadmap(r)) = Rendered(r)
         /\ NewRoadmap(NewRoadmap(r)) = NewRoadmap(r)
<1>1. Rendered(NewRoadmap(r)) = Rendered(r)
  <2>1. Rendered(NewRoadmap(r)) =
          {CountedLine(l) : l \in {k \in Rendered(r) : ~k.letter}}
    <3>1. PICK n : n = NewRoadmap(r)
      OBVIOUS
    <3>2. n.marks = "block" /\ n.listed = Rendered(r)
      BY <3>1, NewRoadmapType
    <3>3. Rendered(n) = {CountedLine(l) : l \in {k \in n.listed : ~k.letter}}
      BY <3>2 DEF Rendered, PlainLine, CountedLine
    <3> QED
      BY <3>1, <3>2, <3>3
  <2>2. {k \in Rendered(r) : ~k.letter} = Rendered(r)
    BY RenderedType
  <2>3. Rendered(r) \in SUBSET Line /\ \A l \in Rendered(r) : l.counted
    BY RenderedType
  <2>4. \A l \in Rendered(r) : CountedLine(l) = l
    BY <2>3, MadeCounted
  <2> QED
    BY <2>1, <2>2, <2>4
<1>2. NewRoadmap(NewRoadmap(r)) = NewRoadmap(r)
  <2> DEFINE n == NewRoadmap(r)
  <2>1. /\ n \in Roadmap /\ n.marks = "block" /\ n.listed = Rendered(n) /\ n.prose = FALSE
    BY <1>1, NewRoadmapType
  <2> HIDE DEF n
  <2>2. NewRoadmap(n) = n
    BY <2>1 DEF NewRoadmap, Roadmap
  <2> QED
    BY <2>2 DEF n
<1> QED
  BY <1>1, <1>2

\* The number of the active milestone is a number.
LEMMA ActiveType ==
  ASSUME NEW d \in Doc
  PROVE  /\ Active(d) \in Nat \cup {None}
         /\ Active(d) # None => d.at \in Position /\ Active(d) = d.at.num /\ d.at.titled
  BY NoneAssumption DEF Active, Doc, Position

\* The milestone line of the new STATE.md.
NewAt(d, lines) ==
  IF Active(d) = None THEN None
  ELSE [num |-> Active(d), letter |-> FALSE, titled |-> \E l \in lines : l.num = Active(d)]

\* Its checkpoint lines.
NewCheckpoint(d, p) == IF d.checkpoint # None THEN d.checkpoint ELSE p.checkpoint
NewFile(d, p) == IF d.file # None THEN d.file ELSE p.file

\* The new STATE.md is one.
LEMMA NewDocType ==
  ASSUME NEW d \in Doc, NEW lines, NEW p \in Pointer
  PROVE  /\ NewDoc(d, lines, p) \in Doc
         /\ NewDoc(d, lines, p).marks = "block"
         /\ NewDoc(d, lines, p).prose = FALSE
         /\ NewDoc(d, lines, p).at = NewAt(d, lines)
         /\ NewDoc(d, lines, p).checkpoint = NewCheckpoint(d, p)
         /\ NewDoc(d, lines, p).file = NewFile(d, p)
         /\ NewDoc(d, lines, p).total = d.total
         /\ NewDoc(d, lines, p).completed = d.completed
<1>1. NewAt(d, lines) \in Position \cup {None}
  BY ActiveType DEF NewAt, Position
<1>2. NewCheckpoint(d, p) \in Checkpoints \cup {None} /\ NewFile(d, p) \in CheckFiles \cup {None}
  BY DEF Doc, Pointer, NewCheckpoint, NewFile
<1>3. NewDoc(d, lines, p) = [d EXCEPT !.marks = "block", !.prose = FALSE,
                                      !.at = NewAt(d, lines),
                                      !.checkpoint = NewCheckpoint(d, p),
                                      !.file = NewFile(d, p)]
  BY DEF NewDoc, NewAt, NewCheckpoint, NewFile
<1> QED
  <2>1. PICK at : at = NewAt(d, lines)
    OBVIOUS
  <2>2. PICK checkpoint : checkpoint = NewCheckpoint(d, p)
    OBVIOUS
  <2>3. PICK file : file = NewFile(d, p)
    OBVIOUS
  <2>4. PICK n : n = [d EXCEPT !.marks = "block", !.prose = FALSE, !.at = at,
                               !.checkpoint = checkpoint, !.file = file]
    OBVIOUS
  <2>5. /\ n.marks = "block" /\ n.prose = FALSE /\ n.at = at
        /\ n.checkpoint = checkpoint /\ n.file = file
        /\ n.total = d.total /\ n.completed = d.completed
    BY <2>4 DEF Doc
  <2>6. n \in Doc
    BY <1>1, <1>2, <2>1, <2>2, <2>3, <2>4 DEF Doc, Marks
  <2> QED
    BY <1>3, <2>1, <2>2, <2>3, <2>4, <2>5, <2>6

\* The milestone of the new STATE.md is that of the old one if it is in the
\* checklist, and it has no letter.
LEMMA NewActive ==
  ASSUME NEW d \in Doc, NEW lines, NEW p \in Pointer,
         Active(d) \in {None} \cup {l.num : l \in lines}
  PROVE  /\ Active(NewDoc(d, lines, p)) = Active(d)
         /\ Active(d) # None =>
              ActiveId(NewDoc(d, lines, p)) = [num |-> Active(d), letter |-> FALSE]
<1>1. PICK n : n = NewDoc(d, lines, p)
  OBVIOUS
<1>2. n.at = NewAt(d, lines)
  BY <1>1, NewDocType
<1>3. CASE Active(d) = None
  <2>1. n.at = None
    BY <1>2, <1>3 DEF NewAt
  <2> QED
    BY <1>1, <1>3, <2>1 DEF Active
<1>4. CASE Active(d) # None
  <2>1. NewAt(d, lines).num = Active(d) /\ NewAt(d, lines).letter = FALSE
    BY <1>4 DEF NewAt
  <2>2. NewAt(d, lines).titled
    BY <1>4 DEF NewAt
  <2>3. NewAt(d, lines) \in Position
    BY <1>4, ActiveType DEF NewAt, Position
  <2>4. n.at # None
    BY <1>2, <2>3, NoneAssumption
  <2>5. Active(n) = Active(d)
    BY <1>2, <2>1, <2>2, <2>4 DEF Active
  <2>6. ActiveId(n) = [num |-> Active(d), letter |-> FALSE]
    BY <1>2, <1>4, <2>1, <2>5 DEF ActiveId
  <2> QED
    BY <1>1, <2>5, <2>6
<1> QED
  BY <1>3, <1>4

\* Rendering what was rendered gives the same STATE.md.
LEMMA NewDocTwice ==
  ASSUME NEW d \in Doc, NEW lines, NEW p \in Pointer,
         Active(d) \in {None} \cup {l.num : l \in lines}
  PROVE  NewDoc(NewDoc(d, lines, p), lines, p) = NewDoc(d, lines, p)
<1>1. PICK n : n = NewDoc(d, lines, p)
  OBVIOUS
<1>2. /\ n \in Doc /\ n.marks = "block" /\ n.prose = FALSE
      /\ n.at = NewAt(d, lines) /\ n.checkpoint = NewCheckpoint(d, p) /\ n.file = NewFile(d, p)
  BY <1>1, NewDocType
<1>3. Active(n) = Active(d)
  BY <1>1, NewActive
<1>4. NewAt(n, lines) = n.at
  BY <1>2, <1>3 DEF NewAt
<1>5. NewCheckpoint(n, p) = n.checkpoint /\ NewFile(n, p) = n.file
  BY <1>2 DEF NewCheckpoint, NewFile
<1>6. PICK m : m = NewDoc(n, lines, p)
  OBVIOUS
<1>7. /\ m \in Doc /\ m.marks = n.marks /\ m.prose = n.prose /\ m.at = n.at
      /\ m.checkpoint = n.checkpoint /\ m.file = n.file /\ m.total = n.total /\ m.completed = n.completed
  BY <1>2, <1>4, <1>5, <1>6, NewDocType
<1>8. m = n
  BY <1>2, <1>7 DEF Doc
<1> QED
  BY <1>1, <1>6, <1>8

-----------------------------------------------------------------------------
(* Backups.                                                                *)

\* Each of `k` is one of `s`, or x.
Among(k, s, x) == \A i \in 1..Len(k) : k[i] = x \/ \E j \in 1..Len(s) : k[i] = s[j]

\* The newest backup is kept, those kept are among the old ones, and they are
\* never more than the retention.
LEMMA KeptProperties ==
  ASSUME NEW S, NEW s \in Seq(S), NEW x \in S
  PROVE  /\ Kept(Append(s, x)) \in Seq(S)
         /\ Len(Kept(Append(s, x))) <= Retention
         /\ x \in Range(Kept(Append(s, x)))
         /\ Among(Kept(Append(s, x)), s, x)
<1>1. PICK all : all = Append(s, x)
  OBVIOUS
<1>2. /\ all \in Seq(S) /\ Len(s) \in Nat /\ Len(all) = Len(s) + 1
      /\ all[Len(all)] = x
      /\ \A i \in 1..Len(s) : all[i] = s[i]
  BY <1>1
<1>3. Retention \in Nat \ {0}
  BY RetentionAssumption
<1>4. \A i \in 1..Len(all) : all[i] \in S
  BY <1>2, ElementOfSeq
<1>5. PICK k : k = Kept(all)
  OBVIOUS
<1>6. CASE Len(all) > Retention
  <2>1. k = SubSeq(all, Len(all) - Retention + 1, Len(all))
    BY <1>5, <1>6 DEF Kept
  <2>2. Len(all) - Retention + 1 \in Int /\ Len(all) \in Int
    BY <1>2, <1>3
  <2>3. \A i \in (Len(all) - Retention + 1)..Len(all) : all[i] \in S
    BY <1>2, <1>3, <1>4, <1>6
  <2>4. /\ k \in Seq(S)
        /\ Len(k) = IF Len(all) - Retention + 1 <= Len(all)
                    THEN Len(all) - (Len(all) - Retention + 1) + 1 ELSE 0
        /\ \A i \in 1..(Len(all) - (Len(all) - Retention + 1) + 1) :
             k[i] = all[(Len(all) - Retention + 1) + i - 1]
    BY <2>1, <2>2, <2>3, SubSeqProperties
  <2>5. Len(k) = Retention
    BY <1>2, <1>3, <2>4
  <2>6. \A i \in 1..Retention : k[i] = all[Len(all) - Retention + i]
    <3>1. TAKE i \in 1..Retention
    <3>2. /\ i \in 1..(Len(all) - (Len(all) - Retention + 1) + 1)
          /\ (Len(all) - Retention + 1) + i - 1 = Len(all) - Retention + i
      BY <1>2, <1>3
    <3> QED
      BY <2>4, <3>2
  <2>7. k[Retention] = x
    <3>1. Len(all) - Retention + Retention = Len(all) /\ Retention \in 1..Retention
      BY <1>2, <1>3
    <3> QED
      BY <1>2, <2>6, <3>1
  <2>8. x \in Range(k)
    <3>1. Retention \in DOMAIN k
      BY <1>3, <2>4, <2>5, LenProperties
    <3> QED
      BY <2>7, <3>1 DEF Range
  <2>9. ASSUME NEW i \in 1..Len(k) PROVE k[i] = x \/ \E j \in 1..Len(s) : k[i] = s[j]
    <3>1. k[i] = all[Len(all) - Retention + i]
      BY <2>5, <2>6
    <3>2. Len(all) - Retention + i \in 1..Len(all)
      BY <1>2, <1>3, <1>6, <2>5
    <3>3. CASE Len(all) - Retention + i = Len(all)
      BY <1>2, <3>1, <3>3
    <3>4. CASE Len(all) - Retention + i # Len(all)
      <4>1. Len(all) - Retention + i \in 1..Len(s)
        BY <1>2, <1>3, <3>2, <3>4
      <4> QED
        BY <1>2, <3>1, <4>1
    <3> QED
      BY <3>3, <3>4
  <2>10. Len(k) <= Retention
    BY <1>3, <2>5
  <2> QED
    BY <1>1, <1>5, <2>4, <2>8, <2>9, <2>10 DEF Among
<1>7. CASE ~(Len(all) > Retention)
  <2>1. k = all
    BY <1>5, <1>7 DEF Kept
  <2>2. Len(all) \in DOMAIN all
    BY <1>2, LenProperties
  <2>3. x \in Range(all)
    BY <1>2, <2>2 DEF Range
  <2>4. Len(all) <= Retention
    BY <1>2, <1>3, <1>7
  <2>5. ASSUME NEW i \in 1..Len(all) PROVE all[i] = x \/ \E j \in 1..Len(s) : all[i] = s[j]
    <3>1. i = Len(all) \/ i \in 1..Len(s)
      BY <1>2
    <3> QED
      BY <1>2, <3>1
  <2> QED
    BY <1>1, <1>2, <1>5, <2>1, <2>3, <2>4, <2>5 DEF Among
<1> QED
  BY <1>6, <1>7

\* The last backup is one of them.
LEMMA LastProperties ==
  ASSUME NEW S, NEW s \in Seq(S), s # <<>>
  PROVE  Last(s) \in S /\ \E i \in 1..Len(s) : Last(s) = s[i]
<1>1. Len(s) \in Nat \ {0}
  BY EmptySeq
<1>2. Len(s) \in 1..Len(s) /\ Last(s) = s[Len(s)]
  BY <1>1 DEF Last
<1> QED
  BY <1>2, ElementOfSeq

-----------------------------------------------------------------------------
(* The files have their shape.                                             *)

\* Where a repair goes next is a step.
LEMMA StepType ==
  /\ \A r, d, p : FirstStep(r, d, p) \in {"idle", "back up roadmap", "back up state"}
  /\ SecondStep \in {"idle", "back up state"}
  BY DEF FirstStep, SecondStep

\* The files before the first edit.
LEMMA InitType == Init => JobTypeOK
<1> SUFFICES ASSUME Init PROVE JobTypeOK
  OBVIOUS
<1>1. PICK first \in Ids, c \in Checkpoints, f \in CheckFiles :
        /\ roadmap = [marks |-> "block", loose |-> {}, prose |-> FALSE,
                      listed |-> {[num |-> first.num, letter |-> FALSE, title |-> first,
                                   done |-> FALSE, counted |-> TRUE]}]
        /\ doc = [marks |-> "block", checkpoint |-> c, file |-> f, total |-> 1, completed |-> 0,
                  prose |-> TRUE,
                  at |-> [num |-> first.num, letter |-> FALSE, titled |-> TRUE]]
        /\ pointer = [checkpoint |-> c, file |-> f, plan |-> None]
        /\ backups = [roadmap |-> <<>>, doc |-> <<>>]
        /\ job = [pc |-> "idle", roadmap |-> roadmap, doc |-> doc, pointer |-> pointer,
                  stale |-> FALSE, ended |-> FALSE]
        /\ edits = 0
  BY DEF Init
<1>2. first.num \in Nat
  BY IdsAssumption
<1>3. [num |-> first.num, letter |-> FALSE, title |-> first, done |-> FALSE,
       counted |-> TRUE] \in Line
  BY <1>2 DEF Line
<1>4. roadmap \in Roadmap
  BY <1>1, <1>3 DEF Roadmap, Marks
<1>5. doc \in Doc
  BY <1>1, <1>2 DEF Doc, Marks, Position
<1>6. backups.roadmap = <<>> /\ backups.doc = <<>> /\ Len(<<>>) = 0 /\ Retention \in Nat
  BY <1>1, RetentionAssumption
<1>7. <<>> \in Seq(Roadmap) /\ <<>> \in Seq(Doc)
  OBVIOUS
<1>8. edits \in 0..MaxEdits
  BY <1>1, MaxEditsAssumption
<1>9. pointer \in Pointer
  BY <1>1 DEF Pointer
<1> QED
  BY <1>1, <1>4, <1>5, <1>6, <1>7, <1>8, <1>9 DEF JobTypeOK, TypeOK

\* A step of the repair leaves files and repair their shape.
LEMMA RepairType ==
  ASSUME JobTypeOK,
         RepairReads \/ BackUpRoadmap \/ WriteRoadmap \/ BackUpState \/ WriteState \/ RepairStops
  PROVE  JobTypeOK'
<1> USE DEF JobTypeOK, TypeOK
<1>1. /\ NewRoadmap(job.roadmap) \in Roadmap
      /\ NewDoc(job.doc, Rendered(job.roadmap), job.pointer) \in Doc
  BY NewRoadmapType, NewDocType
<1>2. CASE RepairReads
  <2>1. PICK step, through :
          step = FirstStep(roadmap, doc, pointer) /\ through = (step = "idle")
    OBVIOUS
  <2>2. step \in {"idle", "back up roadmap", "back up state"} /\ through \in BOOLEAN
    BY <2>1, StepType
  <2>3. job' = [pc |-> step, roadmap |-> roadmap, doc |-> doc, pointer |-> pointer,
                stale |-> FALSE, ended |-> through]
    BY <1>2, <2>1 DEF RepairReads
  <2>4. UNCHANGED <<roadmap, doc, pointer, backups, edits>>
    BY <1>2 DEF RepairReads
  <2> QED
    BY <2>2, <2>3, <2>4
<1>3. CASE BackUpRoadmap
  <2>1. PICK new : new = Kept(Append(backups.roadmap, job.roadmap))
    OBVIOUS
  <2>2. new \in Seq(Roadmap) /\ Len(new) <= Retention
    BY <2>1, KeptProperties
  <2>3. backups' = [backups EXCEPT !.roadmap = new]
    BY <1>3, <2>1 DEF BackUpRoadmap
  <2>4. backups'.roadmap = new /\ backups'.doc = backups.doc
        /\ backups' \in [roadmap : Seq(Roadmap), doc : Seq(Doc)]
    BY <2>2, <2>3
  <2> QED
    BY <1>3, <2>2, <2>4 DEF BackUpRoadmap
<1>4. CASE WriteRoadmap
  BY <1>1, <1>4, StepType DEF WriteRoadmap, Idle
<1>5. CASE BackUpState
  <2>1. PICK new : new = Kept(Append(backups.doc, job.doc))
    OBVIOUS
  <2>2. new \in Seq(Doc) /\ Len(new) <= Retention
    BY <2>1, KeptProperties
  <2>3. backups' = [backups EXCEPT !.doc = new]
    BY <1>5, <2>1 DEF BackUpState
  <2>4. backups'.roadmap = backups.roadmap /\ backups'.doc = new
        /\ backups' \in [roadmap : Seq(Roadmap), doc : Seq(Doc)]
    BY <2>2, <2>3
  <2> QED
    BY <1>5, <2>2, <2>4 DEF BackUpState
<1>6. CASE WriteState
  BY <1>1, <1>6 DEF WriteState, Idle
<1>7. CASE RepairStops
  BY <1>7 DEF RepairStops, Idle
<1> QED
  BY <1>2, <1>3, <1>4, <1>5, <1>6, <1>7

\* What an edit makes of ROADMAP.md.
Edited(new) ==
  \/ new = roadmap
  \/ \E id \in Ids, inside, counted \in BOOLEAN :
       LET line == [num |-> id.num, letter |-> id.letter, title |-> id, done |-> FALSE,
                    counted |-> counted] IN
       /\ \A l \in Written(roadmap) : l.title # id
       /\ new = IF inside THEN [roadmap EXCEPT !.listed = @ \cup {line}]
                ELSE [roadmap EXCEPT !.loose = @ \cup {line}]
       /\ inside \/ roadmap.marks = "block"
  \/ \E l \in roadmap.listed \ Done(roadmap.listed) :
       new = [roadmap EXCEPT !.listed = (@ \ {l}) \cup {[l EXCEPT !.done = TRUE]}]
  \/ new = [roadmap EXCEPT !.prose = TRUE]
  \/ \E m \in {"absent", "broken"} :
       new = [roadmap EXCEPT !.marks = m, !.listed = Written(roadmap), !.loose = {}]
  \/ backups.roadmap # <<>> /\ new = Last(backups.roadmap)

\* What anybody but the repair does to ROADMAP.md is one of these edits.
LEMMA EditsRoadmap ==
  ASSUME AddLine \/ TickLine \/ Scribble \/ Advance \/ Point \/ Restore
  PROVE  Edited(roadmap')
<1>1. CASE AddLine
  BY <1>1 DEF AddLine, Edited
<1>2. CASE TickLine
  BY <1>2 DEF TickLine, Edited
<1>3. CASE Scribble
  BY <1>3 DEF Scribble, Edited
<1>4. CASE Advance \/ Point
  BY <1>4 DEF Advance, Point, Edited
<1>5. CASE Restore
  BY <1>5 DEF Restore, Edited
<1> QED
  BY <1>1, <1>2, <1>3, <1>4, <1>5

\* What an edit makes of ROADMAP.md is one.
LEMMA EditedType ==
  ASSUME JobTypeOK, NEW new, Edited(new)
  PROVE  new \in Roadmap
<1> USE DEF JobTypeOK, TypeOK
<1>1. CASE new = roadmap
  BY <1>1
<1>2. ASSUME NEW id \in Ids, NEW inside \in BOOLEAN, NEW counted \in BOOLEAN, NEW line,
             line = [num |-> id.num, letter |-> id.letter, title |-> id, done |-> FALSE,
                     counted |-> counted],
             new = IF inside THEN [roadmap EXCEPT !.listed = @ \cup {line}]
                   ELSE [roadmap EXCEPT !.loose = @ \cup {line}]
      PROVE  new \in Roadmap
  <2>1. line \in Line
    BY <1>2, IdsAssumption DEF Line
  <2>2. CASE inside
    BY <1>2, <2>1, <2>2 DEF Roadmap
  <2>3. CASE ~inside
    BY <1>2, <2>1, <2>3 DEF Roadmap
  <2> QED
    BY <2>2, <2>3
<1>3. ASSUME NEW l \in roadmap.listed,
             new = [roadmap EXCEPT !.listed = (@ \ {l}) \cup {[l EXCEPT !.done = TRUE]}]
      PROVE  new \in Roadmap
  <2>1. l \in Line
    BY DEF Roadmap
  <2>2. [l EXCEPT !.done = TRUE] \in Line
    BY <2>1 DEF Line
  <2> QED
    BY <1>3, <2>2 DEF Roadmap
<1>4. CASE new = [roadmap EXCEPT !.prose = TRUE]
  BY <1>4 DEF Roadmap
<1>5. ASSUME NEW m \in {"absent", "broken"},
             new = [roadmap EXCEPT !.marks = m, !.listed = Written(roadmap), !.loose = {}]
      PROVE  new \in Roadmap
  BY <1>5 DEF Roadmap, Marks, Written
<1>6. CASE backups.roadmap # <<>> /\ new = Last(backups.roadmap)
  BY <1>6, LastProperties
<1> QED
  BY <1>1, <1>2, <1>3, <1>4, <1>5, <1>6 DEF Edited

\* A checklist of finitely many lines has a number of them.
LEMMA CountType ==
  ASSUME NEW r, WellKept(r)
  PROVE  /\ IsFiniteSet(AllLines(r))
         /\ Cardinality(AllLines(r)) \in Nat
         /\ IsFiniteSet(Done(AllLines(r)))
         /\ Cardinality(Done(AllLines(r))) \in Nat
<1>1. AllLines(r) \in SUBSET Written(r) /\ Done(AllLines(r)) \in SUBSET Written(r)
  BY DEF Done, AllLines
<1> QED
  BY <1>1, FS_Subset, FS_CardinalityType DEF WellKept

\* An edit is counted within its bound.
LEMMA EditCount ==
  ASSUME NEW n \in 0..MaxEdits, n < MaxEdits
  PROVE  n + 1 \in 0..MaxEdits
  BY MaxEditsAssumption

\* An edit leaves files and repair their shape.
LEMMA EditType ==
  ASSUME JobTypeOK, LinesInv,
         Edit, AddLine \/ TickLine \/ Scribble \/ Advance \/ Point \/ Restore
  PROVE  JobTypeOK'
<1> USE DEF JobTypeOK, TypeOK
<1>1. roadmap' \in Roadmap
  BY EditsRoadmap, EditedType
<1>2. doc' \in Doc
  <2>1. CASE AddLine \/ TickLine \/ Point
    BY <2>1 DEF AddLine, TickLine, Point
  <2>2. CASE Scribble
    BY <2>2 DEF Scribble, Doc, Marks
  <2>3. CASE Advance
    <3> DEFINE t == Cardinality(AllLines(roadmap))
               k == Cardinality(Done(AllLines(roadmap)))
    <3>2. t \in Nat /\ k \in Nat
      BY CountType DEF LinesInv
    <3>1. PICK id \in Ids, c \in Checkpoints \cup {None}, f \in CheckFiles \cup {None} :
            doc' = [doc EXCEPT !.at = [num |-> id.num, letter |-> id.letter, titled |-> TRUE],
                               !.checkpoint = c, !.file = f, !.total = t, !.completed = k]
      BY <2>3 DEF Advance
    <3> HIDE DEF t, k
    <3>3. [num |-> id.num, letter |-> id.letter, titled |-> TRUE] \in Position
      BY IdsAssumption DEF Position
    <3> QED
      BY <3>1, <3>2, <3>3 DEF Doc
  <2>4. CASE Restore
    <3>1. doc' = doc \/ (backups.doc # <<>> /\ doc' = Last(backups.doc))
      BY <2>4 DEF Restore
    <3>2. backups.doc # <<>> => Last(backups.doc) \in Doc
      BY LastProperties
    <3> QED
      BY <3>1, <3>2
  <2> QED
    BY <2>1, <2>2, <2>3, <2>4
<1>3. pointer' \in Pointer
  BY DEF AddLine, TickLine, Scribble, Advance, Point, Restore
<1>4. edits' \in 0..MaxEdits
  <2>1. edits \in 0..MaxEdits /\ edits < MaxEdits /\ edits' = edits + 1
    BY DEF Edit
  <2> QED
    BY <2>1, EditCount
<1>5. job' \in [pc : {"idle", "back up roadmap", "write roadmap", "back up state", "write state"},
              roadmap : Roadmap, doc : Doc, pointer : Pointer,
              stale : BOOLEAN, ended : BOOLEAN]
  BY DEF Edit
<1>6. backups' = backups
  BY DEF Edit
<1> QED
  BY <1>1, <1>2, <1>3, <1>4, <1>5, <1>6

-----------------------------------------------------------------------------
(* No line is lost or doubled.                                             *)

\* Each line has a title of its own.
OwnTitles(lines) == \A k, l \in lines : k.title = l.title => k = l

\* f rewrites the lines of S, keeps their titles, and gives every line of T.
Rewrites(f, S, T) ==
  /\ f \in [S -> T]
  /\ \A t \in T : \E l \in S : f[l] = t
  /\ \A l \in S : f[l].title = l.title

\* Rewriting lines with different titles keeps their number as long as each
\* keeps its title.
LEMMA RewrittenCount ==
  ASSUME NEW S, IsFiniteSet(S), OwnTitles(S), NEW T, NEW f, Rewrites(f, S, T)
  PROVE  /\ IsFiniteSet(T)
         /\ Cardinality(T) = Cardinality(S)
         /\ OwnTitles(T)
<1>1. f \in Surjection(S, T)
  BY DEF Surjection, Rewrites
<1>2. \A k, l \in S : f[k] = f[l] => k = l
  BY DEF Rewrites, OwnTitles
<1>3. f \in Injection(S, T)
  BY <1>2 DEF Injection, IsInjective, Rewrites
<1>4. ASSUME NEW k \in T, NEW l \in T, k.title = l.title PROVE k = l
  <2>1. PICK i \in S : f[i] = k
    BY DEF Rewrites
  <2>2. PICK j \in S : f[j] = l
    BY DEF Rewrites
  <2>3. i.title = j.title
    BY <1>4, <2>1, <2>2 DEF Rewrites
  <2>4. i = j
    BY <2>3 DEF OwnTitles
  <2> QED
    BY <2>1, <2>2, <2>4
<1> QED
  BY <1>1, <1>3, <1>4, FS_Surjection DEF OwnTitles

\* So it is with letters that are dropped.
LEMMA DroppedCount ==
  ASSUME NEW S \in SUBSET Line, IsFiniteSet(S), OwnTitles(S),
         NEW T, T = {PlainLine(l) : l \in S}
  PROVE  /\ IsFiniteSet(T)
         /\ Cardinality(T) = Cardinality(S)
         /\ OwnTitles(T)
<1> DEFINE f == [l \in S |-> PlainLine(l)]
<1>1. f \in [S -> T] /\ \A t \in T : \E l \in S : f[l] = t
  OBVIOUS
<1>2. \A l \in S : f[l].title = l.title
  BY DroppedLetter
<1>3. Rewrites(f, S, T)
  BY <1>1, <1>2 DEF Rewrites
<1> HIDE DEF f
<1> QED
  BY <1>3, RewrittenCount

\* And with lines that are written as the counts read them.
LEMMA CountedCount ==
  ASSUME NEW S \in SUBSET Line, IsFiniteSet(S), OwnTitles(S),
         NEW T, T = {CountedLine(l) : l \in S}
  PROVE  /\ IsFiniteSet(T)
         /\ OwnTitles(T)
<1> DEFINE f == [l \in S |-> CountedLine(l)]
<1>1. f \in [S -> T] /\ \A t \in T : \E l \in S : f[l] = t
  OBVIOUS
<1>2. \A l \in S : f[l].title = l.title
  BY MadeCounted
<1>3. Rewrites(f, S, T)
  BY <1>1, <1>2 DEF Rewrites
<1> HIDE DEF f
<1> QED
  BY <1>3, RewrittenCount

\* The lines of the new ROADMAP.md: where there was no block they are the old
\* ones that are counted, without letters.
LEMMA NewLines ==
  ASSUME NEW r \in Roadmap, WellKept(r)
  PROVE  /\ Written(NewRoadmap(r)) = Rendered(r) \cup r.loose
         /\ AllLines(NewRoadmap(r)) = Rendered(r) \cup {l \in r.loose : l.counted}
         /\ r.marks # "block" =>
              /\ AllLines(r) = {k \in r.listed : k.counted}
              /\ AllLines(NewRoadmap(r)) = Rendered(r)
              /\ Rendered(r) = {PlainLine(l) : l \in AllLines(r)}
<1>1. Written(NewRoadmap(r)) = Rendered(r) \cup r.loose
  BY NewRoadmapType DEF Written
<1>2. AllLines(NewRoadmap(r)) = Rendered(r) \cup {l \in r.loose : l.counted}
  BY <1>1, RenderedType DEF AllLines
<1>3. CASE r.marks # "block"
  <2>1. r.loose = {}
    BY <1>3 DEF WellKept
  <2>2. AllLines(r) = {k \in r.listed : k.counted}
    BY <2>1 DEF AllLines, Written
  <2> QED
    BY <1>1, <1>2, <1>3, <2>1, <2>2 DEF Rendered, PlainLine, CountedLine
<1> QED
  BY <1>1, <1>2, <1>3

\* What is rendered are finitely many lines, each with a title of its own.
LEMMA RenderedWellKept ==
  ASSUME NEW r \in Roadmap, WellKept(r)
  PROVE  /\ IsFiniteSet(Rendered(r))
         /\ \A k, l \in Rendered(r) : k.title = l.title => k = l
<1>1. \A S \in SUBSET r.listed :
        /\ S \in SUBSET Line /\ IsFiniteSet(S)
        /\ OwnTitles(S)
  <2>1. r.listed \in SUBSET Written(r) /\ r.listed \in SUBSET Line
    BY DEF Written, Roadmap
  <2>2. IsFiniteSet(r.listed)
    BY <2>1, FS_Subset DEF WellKept
  <2> QED
    BY <2>1, <2>2, FS_Subset DEF WellKept, OwnTitles
<1>2. CASE r.marks = "block"
  <2>1. PICK S : S = {k \in r.listed : ~k.letter}
    OBVIOUS
  <2>2. S \in SUBSET r.listed /\ Rendered(r) = {CountedLine(l) : l \in S}
    BY <1>2, <2>1 DEF Rendered, PlainLine, CountedLine
  <2> QED
    BY <1>1, <2>2, CountedCount DEF OwnTitles
<1>3. CASE r.marks # "block"
  <2>1. PICK S : S = {k \in r.listed : k.counted}
    OBVIOUS
  <2>2. S \in SUBSET r.listed /\ Rendered(r) = {PlainLine(l) : l \in S}
    BY <1>3, <2>1 DEF Rendered, PlainLine, CountedLine
  <2> QED
    BY <1>1, <2>2, DroppedCount DEF OwnTitles
<1> QED
  BY <1>2, <1>3

\* The new ROADMAP.md is well kept.
LEMMA NewWellKept ==
  ASSUME NEW r \in Roadmap, WellKept(r)
  PROVE  WellKept(NewRoadmap(r))
<1>1. PICK n : n = NewRoadmap(r)
  OBVIOUS
<1>2. n.marks = "block" /\ n.listed = Rendered(r) /\ n.loose = r.loose
  BY <1>1, NewRoadmapType
<1>3. Written(n) = Rendered(r) \cup r.loose
  BY <1>1, NewLines
<1>4. /\ IsFiniteSet(Rendered(r))
      /\ \A k, l \in Rendered(r) : k.title = l.title => k = l
  BY RenderedWellKept
<1>5. r.loose \in SUBSET Written(r) /\ r.listed \in SUBSET Written(r)
  BY DEF Written
<1>6. IsFiniteSet(Written(n))
  <2>1. IsFiniteSet(r.loose)
    BY <1>5, FS_Subset DEF WellKept
  <2>2. PICK S : S = Rendered(r)
    OBVIOUS
  <2>3. PICK T : T = r.loose
    OBVIOUS
  <2>4. IsFiniteSet(S \cup T)
    BY <1>4, <2>1, <2>2, <2>3, FS_Union
  <2> QED
    BY <1>3, <2>2, <2>3, <2>4
<1>7. ASSUME NEW k \in Rendered(r), NEW l \in r.loose PROVE k.title # l.title
  <2>1. PICK i \in r.listed : k.title = i.title
    BY RenderedType
  <2>2. i # l
    BY DEF WellKept
  <2> QED
    BY <1>5, <2>1, <2>2 DEF WellKept
<1>8. n.listed \cap n.loose = {}
  BY <1>2, <1>7
<1>9. \A k, l \in Written(n) : k.title = l.title => k = l
  BY <1>3, <1>4, <1>5, <1>7 DEF WellKept
<1> QED
  BY <1>1, <1>2, <1>6, <1>8, <1>9 DEF WellKept

\* An edit leaves ROADMAP.md well kept.
LEMMA EditedWellKept ==
  ASSUME JobTypeOK, LinesInv, NEW new, Edited(new)
  PROVE  WellKept(new)
<1>0. roadmap \in Roadmap /\ WellKept(roadmap) /\ backups.roadmap \in Seq(Roadmap)
  BY DEF JobTypeOK, TypeOK, LinesInv
<1>1. CASE new = roadmap
  BY <1>0, <1>1
<1>2. ASSUME NEW id \in Ids, NEW inside \in BOOLEAN, NEW counted \in BOOLEAN, NEW line,
             line = [num |-> id.num, letter |-> id.letter, title |-> id, done |-> FALSE,
                     counted |-> counted],
             \A l \in Written(roadmap) : l.title # id,
             new = IF inside THEN [roadmap EXCEPT !.listed = @ \cup {line}]
                   ELSE [roadmap EXCEPT !.loose = @ \cup {line}],
             inside \/ roadmap.marks = "block"
      PROVE  WellKept(new)
  <2>1. line.title = id /\ line \notin Written(roadmap)
    BY <1>2
  <2>2. /\ new.marks = roadmap.marks
        /\ inside => new.listed = roadmap.listed \cup {line} /\ new.loose = roadmap.loose
        /\ ~inside => new.listed = roadmap.listed /\ new.loose = roadmap.loose \cup {line}
    BY <1>0, <1>2 DEF Roadmap
  <2>3. Written(new) = Written(roadmap) \cup {line}
    BY <2>2 DEF Written
  <2>4. IsFiniteSet(Written(new))
    BY <1>0, <2>3, FS_AddElement DEF WellKept
  <2>5. new.listed \cap new.loose = {}
    BY <1>0, <2>1, <2>2 DEF WellKept, Written
  <2>6. new.marks # "block" => new.loose = {}
    BY <1>0, <1>2, <2>2 DEF WellKept
  <2>7. \A k, l \in Written(new) : k.title = l.title => k = l
    BY <1>0, <1>2, <2>1, <2>3 DEF WellKept
  <2> QED
    BY <2>4, <2>5, <2>6, <2>7 DEF WellKept
<1>3. ASSUME NEW old \in roadmap.listed, NEW line, line = [old EXCEPT !.done = TRUE],
             new = [roadmap EXCEPT !.listed = (@ \ {old}) \cup {line}]
      PROVE  WellKept(new)
  <2>1. old \in Line
    BY <1>0 DEF Roadmap
  <2>2. line.title = old.title
    BY <1>3, <2>1 DEF Line
  <2>3. /\ new.marks = roadmap.marks /\ new.loose = roadmap.loose
        /\ new.listed = (roadmap.listed \ {old}) \cup {line}
    BY <1>0, <1>3 DEF Roadmap
  <2>4. old \in Written(roadmap) /\ old \notin roadmap.loose
    BY <1>0 DEF Written, WellKept
  <2>5. Written(new) = (Written(roadmap) \ {old}) \cup {line}
    BY <2>3, <2>4 DEF Written
  <2>6. IsFiniteSet(Written(new))
    <3>1. IsFiniteSet(Written(roadmap) \ {old})
      BY <1>0, FS_RemoveElement DEF WellKept
    <3> QED
      BY <2>5, <3>1, FS_AddElement
  <2>7. \A l \in Written(roadmap) : l.title = old.title => l = old
    BY <1>0, <2>4 DEF WellKept
  <2>8. line \notin roadmap.loose
    BY <2>2, <2>4, <2>7 DEF Written
  <2>9. new.listed \cap new.loose = {}
    BY <1>0, <2>3, <2>8 DEF WellKept
  <2>10. ASSUME NEW k \in Written(new), NEW l \in Written(new), k.title = l.title PROVE k = l
    <3>1. \A i \in Written(new) : i = line \/ (i \in Written(roadmap) /\ i.title # line.title)
      BY <2>2, <2>5, <2>7
    <3>2. CASE k = line \/ l = line
      BY <2>10, <3>1, <3>2
    <3>3. CASE k # line /\ l # line
      BY <1>0, <2>10, <3>1, <3>3 DEF WellKept
    <3> QED
      BY <3>2, <3>3
  <2>11. new.marks # "block" => new.loose = {}
    BY <1>0, <2>3 DEF WellKept
  <2> QED
    BY <2>6, <2>9, <2>10, <2>11 DEF WellKept
<1>4. CASE new = [roadmap EXCEPT !.prose = TRUE]
  <2>1. /\ new.marks = roadmap.marks /\ new.loose = roadmap.loose
        /\ new.listed = roadmap.listed
    BY <1>0, <1>4 DEF Roadmap
  <2>2. Written(new) = Written(roadmap)
    BY <2>1 DEF Written
  <2> QED
    BY <1>0, <2>1, <2>2 DEF WellKept
<1>5. ASSUME NEW m \in {"absent", "broken"},
             new = [roadmap EXCEPT !.marks = m, !.listed = Written(roadmap), !.loose = {}]
      PROVE  WellKept(new)
  <2>1. new.listed = Written(roadmap) /\ new.loose = {}
    BY <1>0, <1>5 DEF Roadmap
  <2>2. Written(new) = Written(roadmap)
    BY <2>1 DEF Written
  <2> QED
    BY <1>0, <2>1, <2>2 DEF WellKept
<1>6. CASE backups.roadmap # <<>> /\ new = Last(backups.roadmap)
  <2>1. PICK i \in 1..Len(backups.roadmap) : new = backups.roadmap[i]
    BY <1>0, <1>6, LastProperties
  <2> QED
    BY <2>1 DEF LinesInv
<1> QED
  BY <1>1, <1>2, <1>3, <1>4, <1>5, <1>6 DEF Edited

\* Every ROADMAP.md there is stays well kept.
LEMMA LinesStep ==
  ASSUME JobTypeOK, LinesInv, [Next]_vars
  PROVE  LinesInv'
<1>0. /\ roadmap \in Roadmap /\ job.roadmap \in Roadmap /\ backups.roadmap \in Seq(Roadmap)
      /\ backups \in [roadmap : Seq(Roadmap), doc : Seq(Doc)]
      /\ job \in [pc : {"idle", "back up roadmap", "write roadmap", "back up state", "write state"},
                  roadmap : Roadmap, doc : Doc, pointer : Pointer,
                  stale : BOOLEAN, ended : BOOLEAN]
  BY DEF JobTypeOK, TypeOK
<1>1. WellKept(roadmap) /\ WellKept(job.roadmap)
  BY DEF LinesInv
<1>2. WellKept(NewRoadmap(job.roadmap))
  BY <1>0, <1>1, NewWellKept
<1>3. WellKept(roadmap')
  <2>1. CASE WriteRoadmap
    BY <1>2, <2>1 DEF WriteRoadmap
  <2>2. CASE Edit /\ (AddLine \/ TickLine \/ Scribble \/ Advance \/ Point \/ Restore)
    BY <2>2, EditsRoadmap, EditedWellKept
  <2>3. CASE RepairReads \/ BackUpRoadmap \/ BackUpState \/ WriteState \/ RepairStops
             \/ UNCHANGED vars
    <3>1. roadmap' = roadmap
      BY <2>3 DEF RepairReads, BackUpRoadmap, BackUpState, WriteState, RepairStops, vars
    <3> QED
      BY <1>1, <3>1
  <2> QED
    BY <2>1, <2>2, <2>3 DEF Next
<1>4. WellKept(job'.roadmap)
  <2>1. CASE RepairReads
    BY <1>1, <2>1 DEF RepairReads
  <2>2. CASE ~RepairReads
    <3>1. CASE BackUpRoadmap \/ BackUpState \/ WriteState
      BY <1>0, <1>1, <3>1 DEF BackUpRoadmap, BackUpState, WriteState, Idle
    <3>2. CASE WriteRoadmap
      BY <1>0, <1>1, <3>2 DEF WriteRoadmap, Idle
    <3>3. CASE RepairStops \/ Edit
      BY <1>0, <1>1, <3>3 DEF RepairStops, Edit, Idle
    <3>4. CASE UNCHANGED vars
      BY <1>1, <3>4 DEF vars
    <3> QED
      BY <2>2, <3>1, <3>2, <3>3, <3>4 DEF Next
  <2> QED
    BY <2>1, <2>2
<1>5. \A i \in 1..Len(backups'.roadmap) : WellKept(backups'.roadmap[i])
  <2>1. CASE BackUpRoadmap
    <3>1. PICK new : new = Kept(Append(backups.roadmap, job.roadmap))
      OBVIOUS
    <3>2. backups'.roadmap = new
      BY <1>0, <2>1, <3>1 DEF BackUpRoadmap
    <3>3. \A i \in 1..Len(new) :
            new[i] = job.roadmap \/ \E j \in 1..Len(backups.roadmap) : new[i] = backups.roadmap[j]
      <4>1. Among(new, backups.roadmap, job.roadmap)
        BY <1>0, <3>1, KeptProperties
      <4> QED
        BY <4>1 DEF Among
    <3>4. \A i \in 1..Len(new) : WellKept(new[i])
      BY <1>1, <3>3 DEF LinesInv
    <3> QED
      BY <3>2, <3>4
  <2>2. CASE ~BackUpRoadmap
    <3>1. CASE BackUpState
      <4>1. backups'.roadmap = backups.roadmap
        BY <1>0, <3>1 DEF BackUpState
      <4> QED
        BY <4>1 DEF LinesInv
    <3>2. CASE ~BackUpState
      <4>1. backups' = backups
        BY <2>2, <3>2 DEF Next, RepairReads, WriteRoadmap, WriteState, RepairStops, Edit, vars
      <4> QED
        BY <4>1 DEF LinesInv
    <3> QED
      BY <3>1, <3>2
  <2> QED
    BY <2>1, <2>2
<1> QED
  BY <1>3, <1>4, <1>5 DEF LinesInv

\* The files have their shape after every step.
LEMMA TypeStep ==
  ASSUME JobTypeOK, LinesInv, [Next]_vars
  PROVE  JobTypeOK'
<1>1. CASE UNCHANGED vars
  BY <1>1 DEF vars, JobTypeOK, TypeOK
<1> QED
  BY <1>1, RepairType, EditType DEF Next

-----------------------------------------------------------------------------
(* What the repair knows of the files.                                     *)

\* A step of the repair.
LEMMA RepairKnows ==
  ASSUME JobTypeOK, ReadInv, EndedInv,
         RepairReads \/ BackUpRoadmap \/ WriteRoadmap \/ BackUpState \/ WriteState \/ RepairStops
  PROVE  ReadInv' /\ EndedInv'
<1>0. /\ job \in [pc : {"idle", "back up roadmap", "write roadmap", "back up state", "write state"},
                  roadmap : Roadmap, doc : Doc, pointer : Pointer,
                  stale : BOOLEAN, ended : BOOLEAN]
      /\ backups \in [roadmap : Seq(Roadmap), doc : Seq(Doc)]
  BY DEF JobTypeOK
<1>1. CASE RepairReads
  <2>1. PICK step, through :
          step = FirstStep(roadmap, doc, pointer) /\ through = (step = "idle")
    OBVIOUS
  <2>2. /\ job' = [pc |-> step, roadmap |-> roadmap, doc |-> doc, pointer |-> pointer,
                   stale |-> FALSE, ended |-> through]
        /\ UNCHANGED <<roadmap, doc, pointer, backups>>
    BY <1>1, <2>1 DEF RepairReads
  <2>3. /\ step \in {"back up state", "idle", "back up roadmap"}
        /\ step # "back up roadmap" => NewRoadmap(roadmap) = roadmap
        /\ step = "idle" => NewDoc(doc, Rendered(roadmap), pointer) = doc
    BY <2>1 DEF FirstStep
  <2>4. ReadInv'
    BY <2>2, <2>3 DEF ReadInv
  <2>5. EndedInv'
    BY <2>1, <2>2, <2>3 DEF EndedInv
  <2> QED
    BY <2>4, <2>5
<1>2. CASE BackUpRoadmap
  <2>1. PICK new : new = Kept(Append(backups.roadmap, job.roadmap))
    OBVIOUS
  <2>2. job.roadmap \in Range(new)
    BY <1>0, <2>1, KeptProperties
  <2>3. backups'.roadmap = new
    BY <1>0, <1>2, <2>1 DEF BackUpRoadmap
  <2>4. /\ job.pc = "back up roadmap" /\ job'.pc = "write roadmap"
        /\ job'.roadmap = job.roadmap /\ job'.doc = job.doc /\ job'.pointer = job.pointer
        /\ job'.stale = job.stale /\ job'.ended = job.ended
        /\ UNCHANGED <<roadmap, doc, pointer>>
    BY <1>0, <1>2 DEF BackUpRoadmap
  <2>5. ReadInv'
    BY <2>2, <2>3, <2>4 DEF ReadInv
  <2>6. EndedInv'
    BY <2>4 DEF EndedInv
  <2> QED
    BY <2>5, <2>6
<1>3. CASE WriteRoadmap
  <2>1. /\ job.pc = "write roadmap" /\ roadmap' = NewRoadmap(job.roadmap)
        /\ job'.pc = SecondStep
        /\ job'.roadmap = job.roadmap /\ job'.doc = job.doc /\ job'.pointer = job.pointer
        /\ job'.stale = job.stale
        /\ UNCHANGED <<doc, pointer, backups>>
    BY <1>0, <1>3 DEF WriteRoadmap, Idle
  <2>2. /\ SecondStep \in {"idle", "back up state"}
        /\ SecondStep = "idle" =>
             NewDoc(job.doc, Rendered(job.roadmap), job.pointer) = job.doc
    BY DEF SecondStep
  <2>3. ~job.stale => doc = job.doc /\ pointer = job.pointer
    BY <2>1 DEF ReadInv
  <2>4. ReadInv'
    BY <2>1, <2>2, <2>3 DEF ReadInv
  <2>5. job'.ended => SecondStep = "idle" /\ ~job.stale
    <3>1. CASE SecondStep = "idle"
      BY <1>0, <1>3, <3>1 DEF WriteRoadmap, Idle
    <3>2. CASE SecondStep # "idle"
      <4>1. job'.ended = job.ended
        BY <1>0, <1>3, <3>2 DEF WriteRoadmap
      <4> QED
        BY <2>1, <4>1 DEF EndedInv
    <3> QED
      BY <3>1, <3>2
  <2>6. EndedInv'
    BY <2>1, <2>2, <2>3, <2>5 DEF EndedInv
  <2> QED
    BY <2>4, <2>6
<1>4. CASE BackUpState
  <2>1. PICK new : new = Kept(Append(backups.doc, job.doc))
    OBVIOUS
  <2>2. job.doc \in Range(new)
    BY <1>0, <2>1, KeptProperties
  <2>3. backups'.doc = new
    BY <1>0, <1>4, <2>1 DEF BackUpState
  <2>4. /\ job.pc = "back up state" /\ job'.pc = "write state"
        /\ job'.roadmap = job.roadmap /\ job'.doc = job.doc /\ job'.pointer = job.pointer
        /\ job'.stale = job.stale /\ job'.ended = job.ended
        /\ UNCHANGED <<roadmap, doc, pointer>>
    BY <1>0, <1>4 DEF BackUpState
  <2>5. ReadInv'
    BY <2>2, <2>3, <2>4 DEF ReadInv
  <2>6. EndedInv'
    BY <2>4 DEF EndedInv
  <2> QED
    BY <2>5, <2>6
<1>5. CASE WriteState
  <2>1. /\ job.pc = "write state" /\ doc' = NewDoc(job.doc, Rendered(job.roadmap), job.pointer)
        /\ job'.pc = "idle"
        /\ job'.roadmap = job.roadmap /\ job'.doc = job.doc /\ job'.pointer = job.pointer
        /\ job'.ended => ~job.stale
        /\ UNCHANGED <<roadmap, pointer>>
    BY <1>0, <1>5 DEF WriteState, Idle
  <2>2. ReadInv'
    BY <2>1 DEF ReadInv
  <2>3. ~job.stale => roadmap = NewRoadmap(job.roadmap) /\ pointer = job.pointer
    BY <2>1 DEF ReadInv
  <2>4. EndedInv'
    BY <2>1, <2>3 DEF EndedInv
  <2> QED
    BY <2>2, <2>4
<1>6. CASE RepairStops
  <2>1. job'.pc = "idle" /\ ~job'.ended
    BY <1>0, <1>6 DEF RepairStops, Idle
  <2> QED
    BY <2>1 DEF ReadInv, EndedInv
<1> QED
  BY <1>1, <1>2, <1>3, <1>4, <1>5, <1>6

\* The invariant is inductive.
LEMMA NextRepairInv == RepairInv /\ [Next]_vars => RepairInv'
<1> SUFFICES ASSUME RepairInv, [Next]_vars PROVE RepairInv'
  OBVIOUS
<1>1. JobTypeOK' /\ LinesInv'
  BY TypeStep, LinesStep DEF RepairInv
<1>2. CASE RepairReads \/ BackUpRoadmap \/ WriteRoadmap \/ BackUpState \/ WriteState
           \/ RepairStops
  BY <1>1, <1>2, RepairKnows DEF RepairInv
<1>3. CASE Edit
  <2>1. job'.stale /\ ~job'.ended
    BY <1>3 DEF Edit, RepairInv, JobTypeOK
  <2> QED
    BY <1>1, <2>1 DEF RepairInv, ReadInv, EndedInv
<1>4. CASE UNCHANGED vars
  <2>1. ReadInv' /\ EndedInv'
    BY <1>4 DEF vars, RepairInv, ReadInv, EndedInv
  <2> QED
    BY <1>1, <2>1 DEF RepairInv
<1> QED
  BY <1>2, <1>3, <1>4 DEF Next

\* It holds of what `harness init` lays down.
LEMMA InitRepairInv == Init => RepairInv
<1> SUFFICES ASSUME Init PROVE RepairInv
  OBVIOUS
<1>1. JobTypeOK
  BY InitType
<1>2. PICK line : roadmap = [marks |-> "block", loose |-> {}, prose |-> FALSE, listed |-> {line}]
  BY DEF Init
<1>3. Written(roadmap) = {line}
  BY <1>2 DEF Written
<1>4. WellKept(roadmap)
  BY <1>2, <1>3, FS_Singleton DEF WellKept
<1>5. job.roadmap = roadmap /\ job.pc = "idle" /\ ~job.ended /\ backups.roadmap = <<>>
  BY DEF Init
<1>6. LinesInv
  BY <1>4, <1>5 DEF LinesInv
<1> QED
  BY <1>1, <1>5, <1>6 DEF RepairInv, ReadInv, EndedInv

\* Every reachable state satisfies the inductive invariant.
THEOREM RepairInvariant == Spec => []RepairInv
  BY InitRepairInv, NextRepairInv, PTL DEF Spec

-----------------------------------------------------------------------------
(* What follows for the files.                                             *)

\* The files have their shape, and never more backups than the retention.
THEOREM TypeTheorem == Spec => []TypeOK
<1>1. RepairInv => TypeOK
  BY DEF RepairInv, JobTypeOK
<1> QED
  BY <1>1, RepairInvariant, PTL

\* What a rewrite takes out of a file is among the backups.
THEOREM KeptTheorem == Spec => RewrittenTextIsKept
<1> DEFINE IsKept ==
      /\ (job.pc = "write roadmap" /\ roadmap' # roadmap /\ ~job.stale) =>
           roadmap \in Range(backups.roadmap)
      /\ (job.pc = "write state" /\ doc' # doc /\ ~job.stale) =>
           doc \in Range(backups.doc)
<1>1. RepairInv /\ [Next]_vars => [IsKept]_vars
  BY DEF RepairInv, ReadInv
<1> QED
  BY <1>1, RepairInvariant, PTL DEF Spec, RewrittenTextIsKept

\* The next repair renders the STATE.md that the killed one would have.
THEOREM KilledTheorem == Spec => []KilledRepairIsFinished
<1>1. ASSUME RepairInv PROVE KilledRepairIsFinished
  <2>1. job.roadmap \in Roadmap
    BY <1>1 DEF RepairInv, JobTypeOK
  <2>2. Rendered(NewRoadmap(job.roadmap)) = Rendered(job.roadmap)
    BY <2>1, RenderedTwice
  <2> QED
    BY <1>1, <2>2 DEF KilledRepairIsFinished, RepairInv, ReadInv
<1> QED
  BY <1>1, RepairInvariant, PTL

\* A repair that nobody disturbed leaves nothing to repair.
THEOREM SettlesTheorem == Spec => []RepairSettles
<1>1. ASSUME RepairInv, job.ended
      PROVE  /\ BlockWarnings(roadmap, doc) = {}
             /\ NewRoadmap(roadmap) = roadmap
             /\ Renderable(job.roadmap, job.doc) => NewDoc(doc, Rendered(roadmap), pointer) = doc
  <2>1. job.roadmap \in Roadmap /\ job.doc \in Doc /\ job.pointer \in Pointer
    BY <1>1 DEF RepairInv, JobTypeOK
  <2>2. /\ roadmap = NewRoadmap(job.roadmap)
        /\ doc = NewDoc(job.doc, Rendered(job.roadmap), job.pointer)
        /\ pointer = job.pointer
    BY <1>1 DEF RepairInv, EndedInv
  <2>3. roadmap.marks = "block" /\ doc.marks = "block"
    BY <2>1, <2>2, NewRoadmapType, NewDocType
  <2>4. BlockWarnings(roadmap, doc) = {}
    BY <2>3 DEF BlockWarnings, Out
  <2>5. NewRoadmap(roadmap) = roadmap /\ Rendered(roadmap) = Rendered(job.roadmap)
    BY <2>1, <2>2, RenderedTwice
  <2>6. Renderable(job.roadmap, job.doc) => NewDoc(doc, Rendered(roadmap), pointer) = doc
    BY <2>1, <2>2, <2>5, NewDocTwice DEF Renderable
  <2> QED
    BY <2>4, <2>5, <2>6
<1>2. RepairInv => RepairSettles
  BY <1>1 DEF RepairSettles
<1> QED
  BY <1>2, RepairInvariant, PTL

\* Three pieces of code count the lines and compare the checkpoints; what check
\* refuses for, doctor reports.
LEMMA DoctorCounts ==
  ASSUME NEW r, NEW d, NEW p, CheckRefuses(r, d, p), ~DoctorAlarms(r, d, p)
  PROVE  p.checkpoint # None /\ d.checkpoint = None
<1>1. Findings(r, d, p) = {} /\ Blocking(r, d, p) = {} /\ DashboardDrift(r, d, p) # {}
  BY DEF CheckRefuses, DoctorAlarms, DashboardRefuses
<1>2. /\ AllLines(r) # {} => d.total = Cardinality(AllLines(r))
      /\ AllLines(r) # {} => d.completed = Cardinality(Done(AllLines(r)))
      /\ ~(None \notin {d.checkpoint, p.checkpoint} /\ d.checkpoint # p.checkpoint)
  BY <1>1 DEF Blocking, Out
<1>3. p.checkpoint # None /\ d.checkpoint # p.checkpoint
  BY <1>1, <1>2 DEF DashboardDrift, Out
<1> QED
  BY <1>2, <1>3

\* What `harness check` refuses of the two documents the doctor reports too, but
\* for a STATE.md without a checkpoint line: both compare the same counters.
THEOREM DoctorTheorem == Spec => []DoctorSeesWhatCheckRefuses
<1>1. DoctorSeesWhatCheckRefuses
  BY DoctorCounts DEF DoctorSeesWhatCheckRefuses
<1> QED
  BY <1>1, PTL

-----------------------------------------------------------------------------
(* What the readers make of a repair.                                      *)

\* The numbers of the lines that are not done, and the least of them.
OpenNumbers(lines) == {l.num : l \in lines \ Done(lines)}
Least(open) == IF open = {} THEN None ELSE CHOOSE n \in open : \A k \in open : n <= k

\* The first open line of a checklist has the least of the open numbers.
LEMMA FirstIsLeast == \A lines : FirstOpen(lines) = Least(OpenNumbers(lines))
  BY DEF FirstOpen, Least, OpenNumbers

\* Rendering what can be rendered loses no line, and no tick.
LEMMA SameCount ==
  ASSUME NEW r \in Roadmap, WellKept(r),
         r.marks = "block" => \A l \in r.listed : ~l.letter /\ l.counted,
         NEW old, NEW new, old = AllLines(r), new = AllLines(NewRoadmap(r))
  PROVE  /\ Cardinality(new) = Cardinality(old)
         /\ Cardinality(Done(new)) = Cardinality(Done(old))
         /\ OpenNumbers(new) = OpenNumbers(old)
         /\ new = {} <=> old = {}
<1>1. CASE r.marks = "block"
  <2>1. Rendered(r) = r.listed
    <3>1. Rendered(r) = {CountedLine(l) : l \in r.listed}
      BY <1>1 DEF Rendered, PlainLine, CountedLine
    <3>2. \A l \in r.listed : CountedLine(l) = l
      BY <1>1, MadeCounted DEF Roadmap
    <3> QED
      BY <3>1, <3>2
  <2>2. new = old
    BY <1>1, <2>1, NewLines DEF AllLines, Written
  <2> QED
    BY <2>2
<1>2. CASE r.marks # "block"
  <2>1. old = {k \in r.listed : k.counted} /\ new = {PlainLine(l) : l \in old}
    BY <1>2, NewLines
  <2>2. old \in SUBSET Line /\ IsFiniteSet(old) /\ OwnTitles(old)
    <3>1. old \in SUBSET Line /\ old \in SUBSET Written(r)
      BY <2>1 DEF Roadmap, Written
    <3> QED
      BY <3>1, FS_Subset DEF WellKept, OwnTitles
  <2>3. Cardinality(new) = Cardinality(old)
    BY <2>1, <2>2, DroppedCount
  <2>4. \A l \in old : l \in Line
    BY <2>2
  <2>5. Done(new) = {PlainLine(l) : l \in Done(old)}
    <3>1. \A l \in old : PlainLine(l).done = l.done
      BY <2>4, DroppedLetter
    <3> QED
      BY <2>1, <3>1 DEF Done
  <2>6. Done(old) \in SUBSET old
    BY DEF Done
  <2>7. Cardinality(Done(new)) = Cardinality(Done(old))
    <3>1. Done(old) \in SUBSET Line /\ IsFiniteSet(Done(old))
      BY <2>2, <2>6, FS_Subset
    <3>2. OwnTitles(Done(old))
      BY <2>2, <2>6 DEF OwnTitles
    <3> QED
      BY <2>5, <3>1, <3>2, DroppedCount
  <2>8. OpenNumbers(new) = OpenNumbers(old)
    <3>1. \A l \in old : PlainLine(l).num = l.num
                         /\ PlainLine(l).done = l.done
      BY <2>4, DroppedLetter
    <3>2. ASSUME NEW l \in new \ Done(new) PROVE \E k \in old \ Done(old) : l.num = k.num
      BY <2>1, <3>1, <3>2 DEF Done
    <3>3. ASSUME NEW k \in old \ Done(old) PROVE \E l \in new \ Done(new) : l.num = k.num
      <4>1. PlainLine(k) \in new \ Done(new)
        BY <2>1, <3>1 DEF Done
      <4> QED
        BY <3>1, <4>1
    <3> QED
      BY <3>2, <3>3 DEF OpenNumbers
  <2> QED
    BY <2>1, <2>3, <2>7, <2>8
<1> QED
  BY <1>1, <1>2

\* A repair of what can be rendered and counted adds nothing to what check and
\* dashboard find in the documents, but for a plan that was out of place before.
THEOREM NoDriftTheorem == Spec => []RepairAddsNoDrift
<1>1. ASSUME RepairInv, job.ended, Renderable(job.roadmap, job.doc), Countable(job.roadmap)
      PROVE  /\ Findings(roadmap, doc, pointer)
                  \subseteq Findings(job.roadmap, job.doc, pointer)
                           \cup Out("plan_path", PlanElsewhere(job.doc, job.pointer))
             /\ Blocking(roadmap, doc, pointer) \subseteq Blocking(job.roadmap, job.doc, pointer)
             /\ DashboardDrift(roadmap, doc, pointer)
                  \subseteq DashboardDrift(job.roadmap, job.doc, pointer)
  <2>1. PICK r, d, p, lines, old, new :
          /\ r = job.roadmap /\ d = job.doc /\ p = job.pointer /\ lines = Rendered(r)
          /\ old = AllLines(r) /\ new = AllLines(NewRoadmap(r))
    OBVIOUS
  <2>2. /\ r \in Roadmap /\ d \in Doc /\ p \in Pointer /\ WellKept(r)
    BY <1>1, <2>1 DEF RepairInv, JobTypeOK, LinesInv
  <2>3. /\ roadmap = NewRoadmap(r) /\ doc = NewDoc(d, lines, p) /\ pointer = p
    BY <1>1, <2>1 DEF RepairInv, EndedInv
  <2>4. /\ r.marks = "block" => \A l \in r.listed : ~l.letter /\ l.counted
        /\ Active(d) \in {None} \cup {l.num : l \in lines}
    BY <1>1, <2>1 DEF Renderable, Countable
  <2>5. /\ Cardinality(new) = Cardinality(old)
        /\ Cardinality(Done(new)) = Cardinality(Done(old))
        /\ OpenNumbers(new) = OpenNumbers(old)
        /\ new = {} <=> old = {}
    BY <2>1, <2>2, <2>4, SameCount
  <2>6. AllLines(roadmap) = new /\ AllLines(job.roadmap) = old /\ job.doc = d /\ job.pointer = p
    BY <2>1, <2>3
  <2>7. FirstOpen(new) = FirstOpen(old)
    BY <2>5, FirstIsLeast
  <2>8. /\ doc.total = d.total /\ doc.completed = d.completed
        /\ doc.checkpoint = NewCheckpoint(d, p) /\ doc.file = NewFile(d, p)
        /\ Active(doc) = Active(d)
        /\ Active(d) # None => ActiveId(doc) = [num |-> Active(d), letter |-> FALSE]
    <3>1. /\ doc.total = d.total /\ doc.completed = d.completed
          /\ doc.checkpoint = NewCheckpoint(d, p) /\ doc.file = NewFile(d, p)
      <4>1. /\ NewDoc(d, lines, p).checkpoint = NewCheckpoint(d, p)
            /\ NewDoc(d, lines, p).file = NewFile(d, p)
            /\ NewDoc(d, lines, p).total = d.total
            /\ NewDoc(d, lines, p).completed = d.completed
        BY <2>2, NewDocType, Zenon
      <4> QED
        BY <2>3, <4>1
    <3>2. /\ Active(NewDoc(d, lines, p)) = Active(d)
          /\ Active(d) # None =>
               ActiveId(NewDoc(d, lines, p)) = [num |-> Active(d), letter |-> FALSE]
      BY <2>2, <2>4, NewActive, Zenon
    <3> QED
      BY <2>3, <3>1, <3>2
  <2>9. Findings(roadmap, doc, pointer)
          \subseteq Findings(job.roadmap, job.doc, pointer)
                   \cup Out("plan_path", PlanElsewhere(job.doc, job.pointer))
    BY <2>3, <2>5, <2>6, <2>7, <2>8
    DEF Findings, Out, NewCheckpoint, NewFile, PlanElsewhere
  <2>10. ActiveId(doc) # None =>
           ActiveId(doc) \in {[num |-> l.num, letter |-> l.letter] : l \in new}
    <3>1. SUFFICES ASSUME ActiveId(doc) # None
                   PROVE  ActiveId(doc) \in {[num |-> l.num, letter |-> l.letter] : l \in new}
      OBVIOUS
    <3>2. Active(d) # None
      BY <2>8, <3>1 DEF ActiveId
    <3>3. PICK l \in lines : l.num = Active(d)
      BY <2>4, <3>2
    <3>4. l \in new /\ l \in Line /\ l.letter = FALSE
      BY <2>1, <2>2, <3>3, NewLines, RenderedType DEF Line
    <3> QED
      BY <2>8, <3>2, <3>3, <3>4
  <2>11. Blocking(roadmap, doc, pointer) \subseteq Blocking(job.roadmap, job.doc, pointer)
    BY <2>3, <2>5, <2>6, <2>8, <2>10 DEF Blocking, Out, NewCheckpoint, NewFile
  <2>12. DashboardDrift(roadmap, doc, pointer)
           \subseteq DashboardDrift(job.roadmap, job.doc, pointer)
    BY <2>3, <2>5, <2>6, <2>8 DEF DashboardDrift, Out, NewCheckpoint
  <2> QED
    BY <2>9, <2>11, <2>12
<1>2. RepairInv => RepairAddsNoDrift
  BY <1>1 DEF RepairAddsNoDrift
<1> QED
  BY <1>2, RepairInvariant, PTL
=============================================================================
