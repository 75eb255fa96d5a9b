-------------------------- MODULE OrientationProofs --------------------------
(***************************************************************************)
(* A recon run settles, meets the criterion of milestone 0, and loses what *)
(* somebody wrote in the named ways only -- for any documents, project     *)
(* files and order of writing, and any number of edits and killed runs.    *)
(*                                                                         *)
(* The argument: what a run in progress will write was built from what it  *)
(* read (RunInv), an agent's document keeps the text it had, and building  *)
(* the documents from what was built gives the same again.                 *)
(***************************************************************************)
EXTENDS Orientation, WellFoundedInduction, TLAPS

\* A document is a record of its frontmatter and its text.
IsDoc(doc) ==
  doc \in [day : {doc.day}, by : {doc.by}, status : {doc.status}, text : {doc.text}]

\* The documents that exist and those a run will write are documents.
ShapeInv ==
  /\ recon = [running |-> recon.running, old |-> recon.old, new |-> recon.new,
              todo |-> recon.todo]
  /\ \A f \in DOMAIN docs : IsDoc(docs[f])
  /\ recon.running => \A f \in DOMAIN recon.new : IsDoc(recon.new[f])

\* What a run in progress has to write: documents of the project, declared
\* current, an agent's with the text that was read.
BuiltInv ==
  recon.running =>
    /\ dir
    /\ recon.todo \subseteq DOMAIN recon.new
    /\ DOMAIN recon.new \subseteq Files
    /\ \A f \in DOMAIN recon.new :
         /\ recon.new[f].status = "current"
         /\ f \in AutoFiles \cup AgentFiles
         /\ f \in AgentFiles /\ f \in DOMAIN recon.old => recon.new[f].text = recon.old[f].text

RunInv == ShapeInv /\ BuiltInv

-----------------------------------------------------------------------------
(* Building the documents.                                                 *)

\* What the run writes of a document.
LEMMA MergeIs ==
  ASSUME NEW f, NEW old, NEW auto, NEW by
  PROVE  /\ Merge(f, old, auto, by).day = day
         /\ Merge(f, old, auto, by).by = by
         /\ Merge(f, old, auto, by).status = "current"
         /\ f \in AgentFiles /\ f \in DOMAIN old => Merge(f, old, auto, by).text = old[f].text
         /\ IsDoc(Merge(f, old, auto, by))
  BY DEF Merge, IsDoc

\* The documents that are written are of the project and of a known kind.
LEMMA ProducedKinds ==
  ASSUME NEW old, NEW m
  PROVE  Produced(old, m) \subseteq Files \cap (AutoFiles \cup AgentFiles)
  BY DEF Produced, AutoFiles, AgentFiles

\* No document is automatic and an agent's.
LEMMA KindsDiffer == AutoFiles \cap AgentFiles = {}
  BY DEF AutoFiles, AgentFiles

\* A set of numbers that is not empty has a least one.
LEMMA LeastNumber ==
  ASSUME NEW S \in SUBSET Nat, S # {}
  PROVE  Min(S) \in S /\ \A n \in S : Min(S) <= n
<1>1. PICK x \in S : \A y \in S : ~(<<y, x>> \in OpToRel(<, Nat))
  BY NatLessThanWellFounded, WFMin, Zenon
<1>2. \A y \in S : x <= y
  <2> SUFFICES ASSUME NEW y \in S, y < x PROVE FALSE
    OBVIOUS
  <2>1. <<y, x>> \in Nat \X Nat /\ <<y, x>>[1] < <<y, x>>[2]
    OBVIOUS
  <2> QED
    BY <1>1, <2>1 DEF OpToRel
<1> QED
  BY <1>2 DEF Min

\* The document that is written next is one of those to write.
LEMMA FirstInTodo ==
  ASSUME NEW todo \in SUBSET Files, todo # {}
  PROVE  First(todo) \in todo
<1> DEFINE I == {i \in 1..Len(Order) : Order[i] \in todo}
<1>1. Order \in Seq(STRING)
  BY OrderAssumption
<1>2. Len(Order) \in Nat /\ DOMAIN Order = 1..Len(Order)
  BY <1>1
<1>3. I # {}
  <2>1. PICK f \in todo : f \in Files
    OBVIOUS
  <2>2. PICK i \in DOMAIN Order : Order[i] = f
    BY <2>1 DEF Files, ToSet
  <2> QED
    BY <1>2, <2>1, <2>2
<1>4. Min(I) \in I
  <2>1. I \in SUBSET Nat
    BY <1>2
  <2> HIDE DEF I
  <2> QED
    BY <1>3, <2>1, LeastNumber
<1>5. SelectInSeq(Order, LAMBDA f : f \in todo) = Min(I)
  BY <1>3 DEF SelectInSeq
<1>6. First(todo) = Order[Min(I)]
  BY <1>5 DEF First
<1> HIDE DEF I
<1>7. Order[Min(I)] \in todo
  BY <1>4 DEF I
<1> QED
  BY <1>6, <1>7

-----------------------------------------------------------------------------
(* A run in progress.                                                      *)

\* What is built of a document: current, and an agent's keeps its text.
Fit(f, doc, old) ==
  /\ IsDoc(doc)
  /\ doc.status = "current"
  /\ f \in Files
  /\ f \in AutoFiles \cup AgentFiles
  /\ f \in AgentFiles /\ f \in DOMAIN old => doc.text = old[f].text

\* BuildDocs makes the documents that are due, each fit to be written.
LEMMA Built ==
  ASSUME NEW old, NEW m, NEW hasDir, NEW new, new = BuildDocs(old, m, hasDir)
  PROVE  /\ DOMAIN new = Produced(old, m)
         /\ \A f \in DOMAIN new : Fit(f, new[f], old)
<1>1. DOMAIN new = Produced(old, m)
  BY DEF BuildDocs
<1>2. ASSUME NEW f \in DOMAIN new PROVE Fit(f, new[f], old)
  <2>1. PICK auto : new[f] = Merge(f, old, auto, Author(f, old))
    <3>1. new[f] = Merge(f, old, IF f \in AutoFiles THEN AutoSections(f, m, hasDir) ELSE <<>>,
                         Author(f, old))
      BY <1>1 DEF BuildDocs
    <3> QED
      BY <3>1
  <2>2. /\ new[f].status = "current" /\ IsDoc(new[f])
        /\ f \in AgentFiles /\ f \in DOMAIN old => new[f].text = old[f].text
    <3>1. PICK by : by = Author(f, old)
      OBVIOUS
    <3>2. new[f] = Merge(f, old, auto, by)
      BY <2>1, <3>1
    <3>3. Merge(f, old, auto, by).status = "current" /\ IsDoc(Merge(f, old, auto, by))
      BY MergeIs
    <3>4. f \in AgentFiles /\ f \in DOMAIN old => Merge(f, old, auto, by).text = old[f].text
      BY MergeIs
    <3> QED
      BY <3>2, <3>3, <3>4
  <2>3. f \in Files /\ f \in AutoFiles \cup AgentFiles
    BY <1>1, <1>2, ProducedKinds
  <2> QED
    BY <2>2, <2>3 DEF Fit
<1> QED
  BY <1>1, <1>2

\* Documents with another one put in.
LEMMA WithOthers ==
  ASSUME NEW d, NEW f, NEW new
  PROVE  /\ DOMAIN With(d, f, new) = DOMAIN d \cup {f}
         /\ With(d, f, new)[f] = new
         /\ \A g \in DOMAIN d : g # f => With(d, f, new)[g] = d[g]
  BY DEF With

\* A document put among documents leaves only documents.
LEMMA WithShape ==
  ASSUME NEW d, NEW f, NEW new, IsDoc(new), \A g \in DOMAIN d : IsDoc(d[g]),
         NEW e, e = With(d, f, new)
  PROVE  \A g \in DOMAIN e : IsDoc(e[g])
<1> SUFFICES ASSUME NEW g \in DOMAIN e PROVE IsDoc(e[g])
  OBVIOUS
<1>1. e = [h \in DOMAIN d \cup {f} |-> IF h = f THEN new ELSE d[h]]
  BY DEF With
<1>2. CASE g = f
  BY <1>1, <1>2
<1>3. CASE g # f
  BY <1>1, <1>3
<1> QED
  BY <1>2, <1>3

\* A run starts: it reads and builds.
LEMMA StartStep ==
  ASSUME RunInv, StartRecon
  PROVE  RunInv'
<1>1. PICK new : new = BuildDocs(docs, markers, dir)
  OBVIOUS
<1>2. /\ recon' = [running |-> TRUE, old |-> docs, new |-> new, todo |-> Changed(docs, new)]
      /\ dir' /\ docs' = docs
  BY <1>1 DEF StartRecon
<1>3. Changed(docs, new) \subseteq DOMAIN new
  BY DEF Changed
<1>4. \A f \in DOMAIN new : Fit(f, new[f], docs)
  BY <1>1, Built
<1>5. ShapeInv'
  BY <1>2, <1>4 DEF RunInv, ShapeInv, Fit
<1>6. BuiltInv'
  BY <1>2, <1>3, <1>4 DEF BuiltInv, Fit
<1> QED
  BY <1>5, <1>6 DEF RunInv

\* A run writes a document.
LEMMA WriteStep ==
  ASSUME RunInv, WriteDoc
  PROVE  RunInv'
<1>1. /\ recon.running /\ recon'.running = recon.running /\ dir' = dir
      /\ recon'.old = recon.old /\ recon'.new = recon.new
      /\ recon'.todo \subseteq recon.todo
      /\ recon' = [running |-> recon'.running, old |-> recon'.old, new |-> recon'.new,
                   todo |-> recon'.todo]
  <2>1. PICK f, left : f = First(recon.todo) /\ left = recon.todo \ {f}
    OBVIOUS
  <2>2. recon' = [recon EXCEPT !.todo = left] /\ recon.running /\ dir' = dir
    BY <2>1 DEF WriteDoc
  <2>3. recon' = [running |-> recon.running, old |-> recon.old, new |-> recon.new, todo |-> left]
    BY <2>2 DEF RunInv, ShapeInv
  <2> QED
    BY <2>1, <2>2, <2>3
<1>2. BuiltInv'
  BY <1>1 DEF RunInv, BuiltInv
<1>3. PICK f : f = First(recon.todo) /\ docs' = With(docs, f, recon.new[f]) /\ recon.todo # {}
  BY DEF WriteDoc
<1>4. f \in DOMAIN recon.new
  <2>1. recon.todo \in SUBSET Files
    BY <1>1 DEF RunInv, BuiltInv
  <2> QED
    BY <1>1, <1>3, <2>1, FirstInTodo DEF RunInv, BuiltInv
<1>5. \A g \in DOMAIN docs' : IsDoc(docs'[g])
  BY <1>1, <1>3, <1>4, WithShape DEF RunInv, ShapeInv
<1>6. ShapeInv'
  BY <1>1, <1>5 DEF RunInv, ShapeInv
<1> QED
  BY <1>2, <1>6 DEF RunInv

\* A run ends or is killed.
LEMMA EndStep ==
  ASSUME RunInv, EndRecon \/ KillRecon
  PROVE  RunInv'
<1>1. recon' = NoRun
  BY DEF EndRecon, KillRecon
<1>2. \A g \in DOMAIN docs' : IsDoc(docs'[g])
  <2>1. CASE docs' = docs
    BY <2>1 DEF RunInv, ShapeInv
  <2>2. CASE docs' # docs
    <3>1. recon.running /\ recon.todo # {}
      BY <2>2 DEF EndRecon, KillRecon
    <3>2. PICK cut \in CutShort(recon.new[First(recon.todo)]) :
            docs' = With(docs, First(recon.todo), cut)
      BY <2>2 DEF EndRecon, KillRecon
    <3>3. First(recon.todo) \in DOMAIN recon.new
      <4>1. recon.todo \in SUBSET Files
        BY <3>1 DEF RunInv, BuiltInv
      <4> QED
        BY <3>1, <4>1, FirstInTodo DEF RunInv, BuiltInv
    <3>4. PICK doc : doc = recon.new[First(recon.todo)] /\ IsDoc(doc)
      BY <3>1, <3>3 DEF RunInv, ShapeInv
    <3>5. IsDoc([doc EXCEPT !.text = <<>>])
      BY <3>4 DEF IsDoc
    <3>6. IsDoc(cut)
      BY <3>2, <3>4, <3>5 DEF CutShort, IsDoc
    <3> QED
      BY <3>2, <3>6, WithShape DEF RunInv, ShapeInv
  <2> QED
    BY <2>1, <2>2
<1> QED
  BY <1>1, <1>2 DEF RunInv, ShapeInv, BuiltInv, NoRun

\* Somebody edits, deletes, or time goes by.
LEMMA WorldStep ==
  ASSUME RunInv, Today \/ ProjectChanges \/ WriteSection \/ DeleteDoc \/ UNCHANGED vars
  PROVE  RunInv'
<1>1. recon' = recon /\ dir' = dir
  BY DEF Today, ProjectChanges, WriteSection, DeleteDoc, vars
<1>2. \A g \in DOMAIN docs' : IsDoc(docs'[g])
  <2>1. CASE Today \/ ProjectChanges \/ UNCHANGED vars
    BY <2>1 DEF Today, ProjectChanges, vars, RunInv, ShapeInv
  <2>2. CASE DeleteDoc
    BY <2>2 DEF DeleteDoc, RunInv, ShapeInv
  <2>3. CASE WriteSection
    <3>1. PICK f \in DOMAIN docs, s \in {"body", "tree", "key_paths", "scopes", Own} :
            docs' = With(docs, f, [docs[f] EXCEPT !.by = "agent", !.text = With(@, s, Words)])
      BY <2>3 DEF WriteSection
    <3>2. IsDoc([docs[f] EXCEPT !.by = "agent", !.text = With(@, s, Words)])
      <4>1. PICK doc, text : doc = docs[f] /\ text = With(docs[f].text, s, Words)
        OBVIOUS
      <4>2. IsDoc(doc)
        BY <4>1 DEF RunInv, ShapeInv
      <4>3. PICK new : new = [doc EXCEPT !.by = "agent", !.text = text]
        OBVIOUS
      <4>4. new \in [day : {doc.day}, by : {"agent"}, status : {doc.status}, text : {text}]
        BY <4>2, <4>3 DEF IsDoc
      <4>5. IsDoc(new)
        BY <4>4 DEF IsDoc
      <4>6. [docs[f] EXCEPT !.by = "agent", !.text = With(@, s, Words)] = new
        BY <4>1, <4>2, <4>3 DEF IsDoc
      <4> QED
        BY <4>5, <4>6
    <3> QED
      BY <3>1, <3>2, WithShape DEF RunInv, ShapeInv
  <2> QED
    BY <2>1, <2>2, <2>3
<1> QED
  BY <1>1, <1>2 DEF RunInv, ShapeInv, BuiltInv

\* The invariant is inductive.
LEMMA NextRunInv == RunInv /\ [Next]_vars => RunInv'
  BY StartStep, WriteStep, EndStep, WorldStep DEF Next

\* It holds of an installed project and of one that predates the documents.
LEMMA InitRunInv == Init => RunInv
<1> SUFFICES ASSUME Init PROVE RunInv
  OBVIOUS
<1>1. recon = NoRun
  BY DEF Init
<1>2. \A f \in DOMAIN docs : IsDoc(docs[f])
  BY DEF Init, IsDoc, Template
<1> QED
  BY <1>1, <1>2 DEF RunInv, ShapeInv, BuiltInv, NoRun

\* Every reachable state satisfies the invariant.
THEOREM RunInvariant == Spec => []RunInv
  BY InitRunInv, NextRunInv, PTL DEF Spec

-----------------------------------------------------------------------------
\* When a run ends and nobody touched the core documents, the criterion of
\* milestone 0 asks for an open milestone only.
THEOREM M0Theorem == Spec => []RunMeetsM0
<1>1. ASSUME RunInv, recon.running,
             \A f \in DOMAIN recon.new : f \in DOMAIN docs /\ docs[f] = recon.new[f],
             CoreFiles \cap Files \subseteq DOMAIN recon.new,
             NEW active \in 0..2, NEW future \in BOOLEAN
      PROVE  M0Refuses(active, future) <=> (active > 0 /\ ~future)
  <2>1. dir /\ \A f \in CoreFiles \cap Files : f \in DOMAIN docs /\ docs[f].status = "current"
    BY <1>1 DEF RunInv, BuiltInv
  <2> QED
    BY <2>1 DEF M0Refuses
<1>2. RunInv => RunMeetsM0
  BY <1>1 DEF RunMeetsM0
<1> QED
  BY <1>2, RunInvariant, PTL

-----------------------------------------------------------------------------
(* What somebody wrote.                                                    *)

\* Where words are.
LEMMA WordsAre ==
  ASSUME NEW d, NEW w
  PROVE  w \in HasWords(d) <=>
           /\ w \in (DOMAIN d) \X {"body", "tree", "key_paths", "scopes", Own}
           /\ w[2] \in DOMAIN d[w[1]].text
           /\ d[w[1]].text[w[2]] = Words
  BY DEF HasWords

\* They stay in a document that keeps its text.
LEMMA WordsStay ==
  ASSUME NEW d, NEW e, NEW w \in HasWords(d), w[1] \in DOMAIN e,
         e[w[1]].text = d[w[1]].text
  PROVE  w \in HasWords(e)
<1>1. /\ w \in (DOMAIN d) \X {"body", "tree", "key_paths", "scopes", Own}
      /\ w[2] \in DOMAIN d[w[1]].text
      /\ d[w[1]].text[w[2]] = Words
  BY WordsAre
<1>2. w \in (DOMAIN e) \X {"body", "tree", "key_paths", "scopes", Own}
  BY <1>1
<1> QED
  BY <1>1, <1>2, WordsAre

\* A document that is put in leaves the words of the others alone.
LEMMA WordsBeside ==
  ASSUME NEW d, NEW f, NEW new, NEW w \in HasWords(d), w[1] # f
  PROVE  w \in HasWords(With(d, f, new))
<1>1. w[1] \in DOMAIN d
  BY WordsAre
<1>2. PICK e : e = With(d, f, new)
  OBVIOUS
<1>3. e = [h \in DOMAIN d \cup {f} |-> IF h = f THEN new ELSE d[h]]
  BY <1>2 DEF With
<1>4. w[1] \in DOMAIN e /\ e[w[1]] = d[w[1]]
  BY <1>1, <1>3
<1> QED
  BY <1>2, <1>4, WordsStay

\* The ways in which words are lost, those of automatic documents included.
LostNamed(w) == LostOtherwise(w) \/ w[1] \in AutoFiles

\* The write of a document.
LEMMA WriteLoses ==
  ASSUME RunInv, WriteDoc, NEW w \in HasWords(docs), w \notin HasWords(docs')
  PROVE  LostNamed(w)
<1>1. PICK f, new : f = First(recon.todo) /\ new = recon.new[f]
  OBVIOUS
<1>2. recon.running /\ recon.todo # {} /\ docs' = With(docs, f, new)
  BY <1>1 DEF WriteDoc
<1>3. f \in recon.todo
  <2>1. recon.todo \in SUBSET Files
    BY <1>2 DEF RunInv, BuiltInv
  <2> QED
    BY <1>1, <1>2, <2>1, FirstInTodo
<1>4. w[1] = f
  BY <1>2, WordsBeside
<1>5. docs'[f] = new /\ f \in DOMAIN docs'
  BY <1>2 DEF With
<1>6. CASE f \in AutoFiles
  BY <1>4, <1>6 DEF LostNamed, LostOtherwise
<1>7. CASE f \notin AutoFiles
  <2>1. f \in AgentFiles /\ f \in DOMAIN recon.new
    BY <1>2, <1>3, <1>7 DEF RunInv, BuiltInv
  <2>2. ASSUME w \in HasWords(recon.old) PROVE FALSE
    <3>1. f \in DOMAIN recon.old
      BY <1>4, <2>2, WordsAre
    <3>2. docs'[f].text = recon.old[f].text
      BY <1>1, <1>2, <1>5, <2>1, <3>1 DEF RunInv, BuiltInv
    <3> QED
      BY <1>4, <1>5, <2>2, <3>2, WordsStay
  <2> QED
    BY <1>2, <2>2 DEF LostNamed, LostOtherwise
<1> QED
  BY <1>6, <1>7

\* A kill.
LEMMA KillLoses ==
  ASSUME KillRecon, NEW w \in HasWords(docs), w \notin HasWords(docs')
  PROVE  LostNamed(w)
<1>1. recon.running /\ ~recon'.running
  BY DEF KillRecon, NoRun
<1>2. docs' # docs
  OBVIOUS
<1>3. PICK cut : docs' = With(docs, First(recon.todo), cut)
  BY <1>2 DEF KillRecon
<1>4. w[1] = First(recon.todo)
  BY <1>3, WordsBeside
<1> QED
  BY <1>1, <1>4 DEF LostNamed, LostOtherwise

\* Writing a section loses no words, nor does deleting another document.
LEMMA EditLoses ==
  ASSUME RunInv, WriteSection \/ DeleteDoc, NEW w \in HasWords(docs), w \notin HasWords(docs')
  PROVE  LostNamed(w)
<1>1. /\ w \in (DOMAIN docs) \X {"body", "tree", "key_paths", "scopes", Own}
      /\ w[2] \in DOMAIN docs[w[1]].text
      /\ docs[w[1]].text[w[2]] = Words
  BY WordsAre
<1>2. CASE DeleteDoc
  <2>1. PICK f \in DOMAIN docs : docs' = [g \in (DOMAIN docs) \ {f} |-> docs[g]]
    BY <1>2 DEF DeleteDoc
  <2>2. CASE w[1] = f
    BY <2>1, <2>2 DEF LostNamed, LostOtherwise
  <2>3. CASE w[1] # f
    <3>1. w[1] \in DOMAIN docs' /\ docs'[w[1]] = docs[w[1]]
      BY <1>1, <2>1, <2>3
    <3> QED
      BY <3>1, WordsStay
  <2> QED
    BY <2>2, <2>3
<1>3. CASE WriteSection
  <2>1. PICK f \in DOMAIN docs, s \in {"body", "tree", "key_paths", "scopes", Own} :
          docs' = With(docs, f, [docs[f] EXCEPT !.by = "agent", !.text = With(@, s, Words)])
    BY <1>3 DEF WriteSection
  <2>2. PICK text, doc : /\ text = With(docs[f].text, s, Words)
                         /\ doc = [docs[f] EXCEPT !.by = "agent", !.text = With(@, s, Words)]
    OBVIOUS
  <2>3. doc.text = text
    <3>1. PICK old : old = docs[f] /\ IsDoc(old)
      BY DEF RunInv, ShapeInv
    <3>2. PICK d, b, st, tx : old = [day |-> d, by |-> b, status |-> st, text |-> tx]
      BY <3>1 DEF IsDoc
    <3>3. doc = [old EXCEPT !.by = "agent", !.text = text]
      BY <2>2, <3>1, <3>2
    <3> QED
      BY <3>2, <3>3
  <2>4. w[1] = f
    BY <2>1, WordsBeside
  <2>5. docs' = With(docs, f, doc)
    BY <2>1, <2>2
  <2>6. docs'[f] = doc /\ DOMAIN docs' = DOMAIN docs \cup {f}
    BY <2>5 DEF With
  <2>7. text = [t \in DOMAIN docs[f].text \cup {s} |-> IF t = s THEN Words ELSE docs[f].text[t]]
    BY <2>2 DEF With
  <2>8. w[2] \in DOMAIN text /\ text[w[2]] = Words
    BY <1>1, <2>4, <2>7
  <2>9. w \in HasWords(docs')
    <3>1. w \in (DOMAIN docs') \X {"body", "tree", "key_paths", "scopes", Own}
      BY <1>1, <2>6
    <3>2. w[2] \in DOMAIN docs'[w[1]].text /\ docs'[w[1]].text[w[2]] = Words
      BY <2>3, <2>4, <2>6, <2>8
    <3> QED
      BY <3>1, <3>2, WordsAre
  <2> QED
    BY <2>9
<1> QED
  BY <1>2, <1>3

\* No run takes words out of an agent's document.
THEOREM WordsTheorem == Spec => WordsSurvive
<1> DEFINE Survive == \A w \in HasWords(docs) \ HasWords(docs') : LostNamed(w)
<1>1. RunInv /\ [Next]_vars => [Survive]_vars
  <2> SUFFICES ASSUME RunInv, Next, NEW w \in HasWords(docs) \ HasWords(docs')
               PROVE  LostNamed(w)
    OBVIOUS
  <2>1. docs' # docs
    OBVIOUS
  <2>2. WriteDoc \/ KillRecon \/ WriteSection \/ DeleteDoc
    BY <2>1 DEF Next, Today, ProjectChanges, StartRecon, EndRecon
  <2> QED
    BY <2>2, WriteLoses, KillLoses, EditLoses
<1>2. Survive => \A w \in HasWords(docs) \ HasWords(docs') :
                    w[1] \in AgentFiles => LostOtherwise(w)
  BY DEF LostNamed, AutoFiles, AgentFiles
<1> QED
  BY <1>1, <1>2, RunInvariant, PTL DEF Spec, WordsSurvive

-----------------------------------------------------------------------------
(* The second run.                                                         *)

\* What recon makes of the text of a document.
NewText(f, base, auto) ==
  IF f \in AgentFiles THEN base.text
  ELSE [s \in Anchors(f) |-> IF s \in DOMAIN auto THEN auto[s]
                             ELSE IF s \in DOMAIN base.text THEN base.text[s] ELSE Todo]

\* The document it starts from.
BaseOf(f, old) == IF f \in DOMAIN old THEN old[f] ELSE Template(f)

\* Merging into a document, or into its template, in one formula.
LEMMA MergeText ==
  ASSUME NEW f, NEW old, NEW auto, NEW by
  PROVE  Merge(f, old, auto, by) = [day |-> day, by |-> by, status |-> "current",
                                    text |-> NewText(f, BaseOf(f, old), auto)]
  BY DEF Merge, NewText, BaseOf

\* Laying out the text again gives the same.
LEMMA TextTwice ==
  ASSUME NEW f, NEW base, NEW auto, NEW doc, doc.text = NewText(f, base, auto)
  PROVE  NewText(f, doc, auto) = doc.text
<1>1. CASE f \in AgentFiles
  BY <1>1 DEF NewText
<1>2. CASE f \notin AgentFiles
  <2>1. PICK t : t = doc.text
    OBVIOUS
  <2>2. t = [s \in Anchors(f) |-> IF s \in DOMAIN auto THEN auto[s]
                                  ELSE IF s \in DOMAIN base.text THEN base.text[s] ELSE Todo]
    BY <1>2, <2>1 DEF NewText
  <2>3. NewText(f, doc, auto) = [s \in Anchors(f) |-> IF s \in DOMAIN auto THEN auto[s]
                                   ELSE IF s \in DOMAIN t THEN t[s] ELSE Todo]
    BY <1>2, <2>1 DEF NewText
  <2>4. DOMAIN t = Anchors(f)
    BY <2>2
  <2>5. \A s \in Anchors(f) : (IF s \in DOMAIN auto THEN auto[s]
                               ELSE IF s \in DOMAIN t THEN t[s] ELSE Todo) = t[s]
    BY <2>2, <2>4
  <2>6. t = [s \in Anchors(f) |-> t[s]]
    BY <2>2
  <2> QED
    BY <2>1, <2>3, <2>5, <2>6
<1> QED
  BY <1>1, <1>2

\* The second run writes the documents that the first one did.
LEMMA SameProduced ==
  ASSUME NEW d, NEW first, DOMAIN first = DOMAIN d \cup Produced(d, markers)
  PROVE  Produced(first, markers) = Produced(d, markers)
<1>1. "INTEGRATIONS" \notin AgentFiles
  BY DEF AgentFiles
<1>2. \A f \in AgentFiles : f \notin {"STACK", "STRUCTURE", "TESTING", "INTEGRATIONS"}
  BY DEF AgentFiles
<1>3. "INTEGRATIONS" \in Produced(d, markers) =>
        DetectIntegrations(markers) # {} \/ "INTEGRATIONS" \in DOMAIN d
  BY <1>1 DEF Produced
<1>4. \A f \in AgentFiles : f \in Produced(d, markers) => skeleton \/ f \in DOMAIN d
  BY <1>2 DEF Produced
<1>5. \A f \in Produced(first, markers) : f \in Produced(d, markers)
  BY <1>3, <1>4 DEF Produced
<1>6. \A f \in Produced(d, markers) : f \in Produced(first, markers)
  BY DEF Produced
<1> QED
  BY <1>5, <1>6

\* Nothing is left to write for a second run on what the first one left.
LEMMA SecondRun ==
  ASSUME NEW d, NEW first, first = AfterRun(d, TRUE)
  PROVE  Changed(first, BuildDocs(first, markers, TRUE)) = {}
<1>1. PICK new, again : /\ new = BuildDocs(d, markers, TRUE)
                        /\ again = BuildDocs(first, markers, TRUE)
  OBVIOUS
<1>2. /\ DOMAIN new = Produced(d, markers)
      /\ DOMAIN first = DOMAIN d \cup Produced(d, markers)
      /\ \A f \in DOMAIN new : first[f] = new[f]
  <2>1. DOMAIN new = Produced(d, markers)
    BY <1>1 DEF BuildDocs
  <2>2. first = [f \in DOMAIN d \cup DOMAIN new |-> IF f \in DOMAIN new THEN new[f] ELSE d[f]]
    BY <1>1 DEF AfterRun
  <2> QED
    BY <2>1, <2>2
<1>3. DOMAIN again = DOMAIN new
  BY <1>1, <1>2, SameProduced DEF BuildDocs
<1>4. ASSUME NEW f \in DOMAIN again PROVE f \in DOMAIN first /\ first[f] = again[f]
  <2>1. PICK auto : auto = IF f \in AutoFiles THEN AutoSections(f, markers, TRUE) ELSE <<>>
    OBVIOUS
  <2>2. f \in DOMAIN new /\ f \in DOMAIN first /\ first[f] = new[f]
    BY <1>2, <1>3
  <2>3. new[f] = Merge(f, d, auto, Author(f, d))
    BY <1>1, <1>2, <2>1, <2>2 DEF BuildDocs
  <2>4. again[f] = Merge(f, first, auto, Author(f, first))
    <3>1. DOMAIN again = Produced(first, markers)
      BY <1>1 DEF BuildDocs
    <3> QED
      BY <1>1, <2>1, <3>1 DEF BuildDocs
  <2>5. PICK text : /\ text = NewText(f, BaseOf(f, d), auto)
                    /\ new[f] = [day |-> day, by |-> Author(f, d), status |-> "current",
                                 text |-> text]
    BY <2>3, MergeText
  <2>6. new[f].text = text /\ new[f].by = Author(f, d)
    BY <2>5
  <2>7. NewText(f, first[f], auto) = text
    <3>1. PICK doc, base : doc = first[f] /\ base = BaseOf(f, d)
      OBVIOUS
    <3>2. doc.text = text
      BY <2>2, <2>6, <3>1
    <3>3. text = NewText(f, base, auto)
      BY <2>5, <3>1
    <3>4. doc.text = NewText(f, base, auto)
      BY <3>2, <3>3
    <3>5. NewText(f, doc, auto) = doc.text
      BY <3>4, TextTwice, Zenon
    <3> QED
      BY <3>1, <3>2, <3>5
  <2>8. BaseOf(f, first) = first[f]
    BY <2>2 DEF BaseOf
  <2>9. Author(f, first) = Author(f, d)
    <3>1. CASE f \in AutoFiles
      BY <3>1 DEF Author
    <3>2. CASE f \notin AutoFiles
      <4>1. Author(f, d) # ""
        BY <3>2 DEF Author
      <4>2. first[f].by = Author(f, d)
        BY <2>2, <2>6
      <4> QED
        BY <2>2, <3>2, <4>1, <4>2 DEF Author
    <3> QED
      BY <3>1, <3>2
  <2>10. again[f] = [day |-> day, by |-> Author(f, first), status |-> "current",
                     text |-> NewText(f, BaseOf(f, first), auto)]
    BY <2>4, MergeText
  <2>11. again[f] = [day |-> day, by |-> Author(f, d), status |-> "current", text |-> text]
    BY <2>7, <2>8, <2>9, <2>10
  <2> QED
    BY <2>2, <2>5, <2>11
<1>5. Changed(first, again) = {}
  BY <1>4 DEF Changed
<1> QED
  BY <1>1, <1>5

\* A second run on the same day writes nothing, or the third.
THEOREM SettleTheorem == Spec => []ReconSettles
<1>1. ReconSettles
  <2>1. dir = TRUE => Changed(AfterRun(docs, dir), BuildDocs(AfterRun(docs, dir), markers, TRUE)) = {}
    BY SecondRun
  <2>2. \A first : Changed(AfterRun(first, TRUE),
                           BuildDocs(AfterRun(first, TRUE), markers, TRUE)) = {}
    BY SecondRun
  <2> QED
    BY <2>1, <2>2 DEF ReconSettles
<1> QED
  BY <1>1, PTL
=============================================================================
