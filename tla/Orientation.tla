---------------------------- MODULE Orientation ----------------------------
(***************************************************************************)
(* `harness recon` and the milestone-0 criterion it feeds (recon.py,       *)
(* cmd_recon of harness.py, check_m0_done of check.py).                    *)
(*                                                                         *)
(* A run reads the documents of .planning/codebase/, scans the project,    *)
(* builds every document in memory and writes the ones that changed, one   *)
(* by one, with a plain write: an agent may edit between the read and the  *)
(* write, and a killed run leaves a document cut short.                    *)
(*                                                                         *)
(* A document is its frontmatter (updated_at, generated_by, status) and    *)
(* the text of its sections.  A section's text is one of four kinds: the   *)
(* skeleton's comment, recon's TODO, what recon found, or words someone    *)
(* wrote.                                                                  *)
(***************************************************************************)
EXTENDS Integers, Sequences, FiniteSets, SequencesExt

CONSTANTS
    Order,      \* the documents modelled, in the order recon writes them
    Markers,    \* the project files recon looks for that may come and go
    MaxDay,     \* bound on the date
    MaxEdits,   \* bound on the edits people and agents make
    MaxRuns,    \* bound on the recon runs
    MaxKills    \* bound on the runs that are killed

ASSUME OrderAssumption == Order \in Seq(STRING) /\ IsInjective(Order)

VARIABLES
    docs,       \* the documents that exist, by name
    dir,        \* does .planning/codebase/ exist
    skeleton,   \* are the skeleton's templates at hand
    markers,    \* the project files that exist now
    day,        \* today
    recon,      \* the run in progress: what it read, built and has to write
    budget      \* what is left of the bounds

vars == <<docs, dir, skeleton, markers, day, recon, budget>>

-----------------------------------------------------------------------------

Files == ToSet(Order)
CoreFiles == {"SUMMARY", "STACK", "STRUCTURE", "TESTING", "CONVENTIONS", "CONCERNS"}
AutoFiles == {"STACK", "STRUCTURE", "TESTING", "INTEGRATIONS"}
AgentFiles == {"SUMMARY", "CONVENTIONS", "CONCERNS", "ARCHITECTURE"}

Blank == [kind |-> "blank"]
Todo == [kind |-> "todo"]
Words == [kind |-> "words"]
Found(items) == [kind |-> "found", items |-> items]

\* A section the template does not have: one a person added to the document.
Own == "own"

\* What the scan of the project's root reports, bucket by bucket, for the
\* markers that are there.  Without a pyproject, pip stands for Python.
DetectStack(m) ==
    LET python == m \cap {"pyproject", "requirements", "setup"}
        pip == IF "pyproject" \notin m /\ python # {} THEN {"pip"} ELSE {}
        langs == pip \cup (m \cap {"pyproject", "package", "cargo", "gomod", "gemfile",
                                   "csproj", "pom", "gradle"})
        pytest == IF "tests" \in m /\ python # {} THEN {"pytest"} ELSE {}
    IN [languages        |-> langs,
        runtime          |-> langs,
        package_managers |-> langs \ {"csproj"},
        build            |-> m \cap {"vite", "webpack", "makefile", "pyproject"},
        test             |-> pytest \cup (m \cap {"jest", "cargo", "gomod"}),
        lint             |-> m \cap {"eslint", "prettier", "ruff", "flake8"},
        ci               |-> m \cap {"workflows", "gitlab", "circleci", "jenkins", "travis"},
        entrypoints      |-> m \cap {"main", "app", "manage"}]

DetectIntegrations(m) == m \cap {"compose", "env"}

\* The directories down to depth two: recon's own directory is one of them.
DirTree(m, hasDir) == (m \cap {"tests"}) \cup (IF hasDir THEN {"codebase"} ELSE {})

\* The sections recon fills in itself, each with the text it gives them: what
\* the scan found where there is a scan, a TODO for an agent elsewhere.
AutoSections(f, m, hasDir) ==
    CASE f = "STACK" ->
            [bucket \in DOMAIN DetectStack(m) |-> Found(DetectStack(m)[bucket])]
      [] f = "STRUCTURE" ->
            [tree |-> Found(DirTree(m, hasDir)), key_paths |-> Todo]
      [] f = "TESTING" ->
            [frameworks |-> Found(DetectStack(m).test),
             commands   |-> IF "pyproject" \in m THEN Found({"pytest"}) ELSE Todo,
             scopes     |-> Todo]
      [] f = "INTEGRATIONS" -> [signals |-> Found(DetectIntegrations(m))]

\* The anchors of the skeleton's template: the sections recon fills in for an
\* automatic document, the agent's for the others.
Anchors(f) == IF f \in AutoFiles THEN DOMAIN AutoSections(f, {}, FALSE) ELSE {"body"}

Template(f) ==
    [day |-> 0, by |-> "skeleton", status |-> "partial",
     text |-> [s \in Anchors(f) |-> Blank]]

-----------------------------------------------------------------------------
(* Building the documents.                                                 *)

\* Mutant of Merge: every document is rebuilt from the template's anchors.
MergeRebuildsAgentFiles(f, old, auto, by) ==
    LET base == IF f \in DOMAIN old THEN old[f] ELSE Template(f)
    IN [day |-> day, by |-> by, status |-> "current",
        text |-> [s \in Anchors(f) |-> IF s \in DOMAIN auto THEN auto[s]
                                       ELSE IF s \in DOMAIN base.text THEN base.text[s]
                                       ELSE Todo]]

\* Mutant of Merge: the status of a document that exists is left as it is.
MergeKeepsStatus(f, old, auto, by) ==
    LET base == IF f \in DOMAIN old THEN old[f] ELSE Template(f)
    IN [day |-> day, by |-> by, status |-> base.status,
        text |-> IF f \in AgentFiles THEN base.text
                 ELSE [s \in Anchors(f) |-> IF s \in DOMAIN auto THEN auto[s]
                                            ELSE IF s \in DOMAIN base.text THEN base.text[s]
                                            ELSE Todo]]

\* An agent's document keeps its body and gets a fresh frontmatter; an
\* automatic one is laid out again on the template's anchors, so a section
\* that is not one of them is dropped.  Both are declared current.
Merge(f, old, auto, by) ==
    LET base == IF f \in DOMAIN old THEN old[f] ELSE Template(f)
    IN [day |-> day, by |-> by, status |-> "current",
        text |-> IF f \in AgentFiles THEN base.text
                 ELSE [s \in Anchors(f) |-> IF s \in DOMAIN auto THEN auto[s]
                                            ELSE IF s \in DOMAIN base.text THEN base.text[s]
                                            ELSE Todo]]

\* INTEGRATIONS is written when there is a signal or it exists already, an
\* agent's document when it exists or the skeleton has a template for it.
Produced(old, m) ==
    Files \cap ({"STACK", "STRUCTURE", "TESTING"}
        \cup (IF DetectIntegrations(m) # {} \/ "INTEGRATIONS" \in DOMAIN old
              THEN {"INTEGRATIONS"} ELSE {})
        \cup {f \in AgentFiles : skeleton \/ f \in DOMAIN old})

\* An agent's document keeps its author; one with no author, or none yet, is
\* the skeleton's.
Author(f, old) ==
    IF f \in AutoFiles THEN "recon"
    ELSE IF f \in DOMAIN old /\ old[f].by # "" THEN old[f].by ELSE "skeleton"

\* Mutant of BuildDocs: the directory tree also lists the files of the directory.
BuildDocsListsFiles(old, m, hasDir) ==
    [f \in Produced(old, m) |->
        IF f = "STRUCTURE"
        THEN Merge(f, old, [tree |-> Found(DirTree(m, hasDir) \cup DOMAIN old), key_paths |-> Todo], "recon")
        ELSE Merge(f, old, IF f \in AutoFiles THEN AutoSections(f, m, hasDir) ELSE <<>>, Author(f, old))]

BuildDocs(old, m, hasDir) ==
    [f \in Produced(old, m) |->
        Merge(f, old, IF f \in AutoFiles THEN AutoSections(f, m, hasDir) ELSE <<>>,
              Author(f, old))]

\* The names the run has to write: those whose text differs from what it read.
Changed(old, new) == {f \in DOMAIN new : f \notin DOMAIN old \/ old[f] # new[f]}

\* The one it writes next.
First(todo) == Order[SelectInSeq(Order, LAMBDA f : f \in todo)]

-----------------------------------------------------------------------------

NoRun == [running |-> FALSE, old |-> <<>>, new |-> <<>>, todo |-> {}]

\* A project installed from the skeleton has every document; one that predates
\* them has none, nor their directory.
Init ==
    /\ skeleton \in BOOLEAN
    /\ \/ docs = [f \in Files |-> Template(f)] /\ dir = TRUE
       \/ docs = <<>> /\ dir = FALSE
    /\ markers \in {{}, Markers}
    /\ day = 0
    /\ recon = NoRun
    /\ budget = [edits |-> MaxEdits, runs |-> MaxRuns, kills |-> MaxKills]

Spend(what) == budget[what] > 0 /\ budget' = [budget EXCEPT ![what] = @ - 1]

With(d, f, doc) == [g \in DOMAIN d \cup {f} |-> IF g = f THEN doc ELSE d[g]]

Today ==
    /\ day < MaxDay
    /\ day' = day + 1
    /\ UNCHANGED <<docs, dir, skeleton, markers, recon, budget>>

\* The project gains or loses one of the files recon looks for.
ProjectChanges ==
    /\ Spend("edits")
    /\ \E m \in Markers :
         markers' = IF m \in markers THEN markers \ {m} ELSE markers \cup {m}
    /\ UNCHANGED <<docs, dir, skeleton, day, recon>>

\* An agent or a person writes a section, one of the template's or their own.
WriteSection ==
    /\ Spend("edits")
    /\ \E f \in DOMAIN docs, s \in {"body", "tree", "key_paths", "scopes", Own} :
         /\ s \in Anchors(f) \cup {Own}
         /\ docs' = With(docs, f, [docs[f] EXCEPT !.by = "agent", !.text = With(@, s, Words)])
    /\ UNCHANGED <<dir, skeleton, markers, day, recon>>

DeleteDoc ==
    /\ Spend("edits")
    /\ \E f \in DOMAIN docs : docs' = [g \in (DOMAIN docs) \ {f} |-> docs[g]]
    /\ UNCHANGED <<dir, skeleton, markers, day, recon>>

\* cmd_recon up to the loop that writes: read, scan, build, make the directory.
\* A dry run stops before the directory and changes nothing.
StartRecon ==
    /\ ~recon.running
    /\ Spend("runs")
    /\ LET new == BuildDocs(docs, markers, dir)
       IN recon' = [running |-> TRUE, old |-> docs, new |-> new, todo |-> Changed(docs, new)]
    /\ dir' = TRUE
    /\ UNCHANGED <<docs, skeleton, markers, day>>

WriteDoc ==
    /\ recon.running /\ recon.todo # {}
    /\ LET f == First(recon.todo)
       IN /\ docs' = With(docs, f, recon.new[f])
          /\ recon' = [recon EXCEPT !.todo = @ \ {f}]
    /\ UNCHANGED <<dir, skeleton, markers, day, budget>>

EndRecon ==
    /\ recon.running /\ recon.todo = {}
    /\ recon' = NoRun
    /\ UNCHANGED <<docs, dir, skeleton, markers, day, budget>>

\* What a write that is cut short leaves: nothing, or the frontmatter alone.
CutShort(doc) == {[day |-> 0, by |-> "", status |-> "", text |-> <<>>],
                  [doc EXCEPT !.text = <<>>]}

KillRecon ==
    /\ recon.running
    /\ Spend("kills")
    /\ \/ UNCHANGED docs
       \/ /\ recon.todo # {}
          /\ \E cut \in CutShort(recon.new[First(recon.todo)]) :
               docs' = With(docs, First(recon.todo), cut)
    /\ recon' = NoRun
    /\ UNCHANGED <<dir, skeleton, markers, day>>

Next == Today \/ ProjectChanges \/ WriteSection \/ DeleteDoc
        \/ StartRecon \/ WriteDoc \/ EndRecon \/ KillRecon

Spec == Init /\ [][Next]_vars

-----------------------------------------------------------------------------
(* The criterion of milestone 0.                                           *)

\* Mutant of M0Refuses: the criterion is enforced during milestone 0 too.
M0RefusesFromZero(active, futureMilestone) ==
    /\ dir
    /\ active >= 0
    /\ \/ \E f \in CoreFiles \cap Files : f \notin DOMAIN docs \/ docs[f].status # "current"
       \/ ~futureMilestone

\* check_m0_done past milestone 0: every core document is there and declared
\* current, and the roadmap lists a milestone that is still open.
M0Refuses(active, futureMilestone) ==
    /\ dir
    /\ active > 0
    /\ \/ \E f \in CoreFiles \cap Files : f \notin DOMAIN docs \/ docs[f].status # "current"
       \/ ~futureMilestone

-----------------------------------------------------------------------------
(* Properties.                                                             *)

\* The sections, of which document, that hold what someone wrote.
HasWords(d) == {w \in (DOMAIN d) \X {"body", "tree", "key_paths", "scopes", Own} :
                  w[2] \in DOMAIN d[w[1]].text /\ d[w[1]].text[w[2]] = Words}

\* Words are lost in a way recon does not answer for: somebody deletes the
\* document, a kill cuts short the very write of it, or they were written after the
\* run in progress had read the document.
LostOtherwise(w) ==
    \/ w[1] \notin DOMAIN docs'
    \/ recon.running /\ ~recon'.running /\ w[1] = First(recon.todo)
    \/ recon.running /\ w \notin HasWords(recon.old)

\* No run takes out of an agent's document what someone wrote there, in a section
\* of the template's or of their own, whatever runs, kills, edits and deletions of
\* other documents came before.  (merge_file without overwrite.)
WordsSurvive ==
    [][\A w \in HasWords(docs) \ HasWords(docs') :
         w[1] \in AgentFiles => LostOtherwise(w)]_vars

\* The skeleton's TESTING.md says of its sections but the first two that they are
\* human-owned and survive recon's re-runs, docs/CODEBASE-SCHEMA.md that the file
\* preserves sections.  recon gives them a TODO every time
\* (render_testing_sections, merge_file with overwrite).
HumanSectionsSurvive ==
    [][\A w \in HasWords(docs) \ HasWords(docs') :
         w = <<"TESTING", "scopes">> => LostOtherwise(w)]_vars

\* The documents when a run that nothing disturbs has ended.
AfterRun(d, hasDir) ==
    LET new == BuildDocs(d, markers, hasDir)
    IN [f \in DOMAIN d \cup DOMAIN new |-> IF f \in DOMAIN new THEN new[f] ELSE d[f]]

\* A second run on the same day, with nothing else changed, writes nothing --
\* provided the directory existed when the first one scanned the project, for
\* the tree it records includes the directory it is about to create.  It holds
\* of cut-short, deleted and hand-edited documents alike.  (build_codebase_docs,
\* and cmd_recon's comparison with what it read.)
ReconSettles ==
    ~recon.running =>
      LET first == AfterRun(docs, dir)
          second == AfterRun(first, TRUE)
      IN /\ dir => Changed(first, BuildDocs(first, markers, TRUE)) = {}
         /\ Changed(second, BuildDocs(second, markers, TRUE)) = {}

\* When a run ends and nobody touched a core document meanwhile, the criterion
\* of milestone 0 refuses exactly when a milestone is active and the roadmap has
\* no open one left: no document holds it back, read or empty, cut short or
\* never hydrated.  (merge_file's status, check_m0_done.)  Without the templates
\* a core document that was missing stays missing.
RunMeetsM0 ==
    recon.running /\ recon.todo = {}
        /\ (\A f \in DOMAIN recon.new : f \in DOMAIN docs /\ docs[f] = recon.new[f])
        /\ CoreFiles \cap Files \subseteq DOMAIN recon.new
    => \A active \in 0..2, future \in BOOLEAN :
         M0Refuses(active, future) <=> (active > 0 /\ ~future)

=============================================================================
