---------------------------- MODULE CommitScope ----------------------------
(***************************************************************************)
(* The pre-commit scope hook: hooks.py installs and removes it, and the    *)
(* hook runs `harness check --worktree`, whose scope check is worktree.py. *)
(* The phase state, the verbs and its other readers are those of           *)
(* StatusNext; this module adds the scope, git's three copies of the       *)
(* files, the hook file and a commit in progress, which reads all of them  *)
(* one after another while agents and people go on.                        *)
(*                                                                         *)
(* A path and a pattern are sequences of segments.  The content of a file  *)
(* is where it came from and a version, so that a moved file can be told.  *)
(* The hook file is the sequence of its lines, the body of the managed     *)
(* block being one line.                                                   *)
(***************************************************************************)
EXTENDS StatusNext, Sequences, SequencesExt

CONSTANTS
    Paths,        \* the paths modelled, that of the state file among them
    StatePath,    \* .scratch/phase-state.json
    Tracked,      \* the paths that the first commit holds
    SourcePaths,  \* the paths whose extension is a programming language's
    Scopes,       \* the sets of patterns a plan allows
    Blocked,      \* the sets of patterns a project blocks
    MaxEdits,     \* bound on the edits of files, scope and hook
    MaxCommits    \* bound on the commits that are tried

ASSUME ScopeAssumption ==
    StatePath \in Paths /\ SourcePaths \subseteq Paths /\ Tracked \subseteq Paths \ {StatePath}

VARIABLES
    allowed, blocked,    \* allowed_paths and blocked_paths of the phase state
    head, index, work,   \* the last commit, the index and the working tree
    hook,                \* .git/hooks/pre-commit
    job,                 \* the commit in progress, and what its hook has read
    edits, commits       \* how many edits were made and commits tried

scopeVars == <<state, now, allowed, blocked, head, index, work, hook, job, edits, commits>>
files == <<head, index, work>>
gate == <<state, now>>
scope == <<allowed, blocked>>

-----------------------------------------------------------------------------
(* Scope patterns (worktree.py).                                           *)

\* A pattern that ends in a slash covers everything below; in any other one a
\* star stands for one segment and never crosses a slash.
Matches(path, pattern) ==
    IF pattern.dir THEN IsStrictPrefix(pattern.segs, path)
    ELSE /\ Len(path) = Len(pattern.segs)
         /\ \A i \in 1..Len(path) : pattern.segs[i] \in {"*", path[i]}

MatchesAny(path, patterns) == \E pattern \in patterns : Matches(path, pattern)

\* Mutant of PathAllowed: a path that is allowed by name is not blocked.
PathAllowedFirst(path, open, closed) == MatchesAny(path, open)

PathAllowed(path, open, closed) == ~MatchesAny(path, closed) /\ MatchesAny(path, open)

\* changed_path_gate_allows_state: work may be committed.
GateAllows(st) == \/ st.phase = "execute" /\ st.approved
                  \/ st.phase = "done" /\ ~st.approved

-----------------------------------------------------------------------------
(* What git lists.                                                         *)

\* git diff --name-only from one tree to another: a file that was moved, even
\* if edited a little, is listed under its new name only.
DiffNames(from, to) ==
    {p \in Paths :
        /\ from[p] # to[p]
        /\ ~(/\ to[p] = None
             /\ \E q \in Paths : from[q] = None /\ to[q] # None
                                 /\ to[q].origin = from[p].origin)}

\* Mutant of Listing: what is staged is not looked at.
ListingUnstaged(what) ==
    CASE what = "unstaged"  -> {p \in Paths : index[p] # None /\ work[p] # index[p]}
      [] what = "staged"    -> {}
      [] what = "untracked" -> {p \in Paths : index[p] = None /\ work[p] # None}

\* The three lists of git_worktree_paths.  The unstaged diff shows no moved file,
\* for the new name is untracked.
Listing(what) ==
    CASE what = "unstaged"  -> {p \in Paths : index[p] # None /\ work[p] # index[p]}
      [] what = "staged"    -> DiffNames(head, index)
      [] what = "untracked" -> {p \in Paths : index[p] = None /\ work[p] # None}

\* check_phase_source_drift: while the work is discussed or planned no source
\* file may exist, whoever wrote it -- an earlier milestone included.
PhaseSourceDrift(st) ==
    st.phase \in {"discuss", "plan"} /\ \E p \in SourcePaths : work[p] # None

\* check_changed_paths, for a base.
BaseCheckPasses(base, tip) ==
    /\ GateAllows(state)
    /\ \A p \in DiffNames(base, tip) : PathAllowed(p, allowed, blocked)

-----------------------------------------------------------------------------
(* The hook file (hooks.py).                                               *)

Block == <<"begin", "check", "end">>
Skeleton == <<"sh">> \o Block

NoHook == [exists |-> FALSE, lines |-> <<>>, exec |-> FALSE]

Has(lines, line) == line \in ToSet(lines)
First(lines, line) == SelectInSeq(lines, LAMBDA x : x = line)
From(lines, i) == SubSeq(lines, i, Len(lines))

\* The text around the block: up to the first begin marker, and after the first
\* end marker behind it -- nothing when there is none.
Before(lines) == SubSeq(lines, 1, First(lines, "begin") - 1)
After(lines) ==
    LET rest == From(lines, First(lines, "begin") + 1)
        end == First(rest, "end")
    IN IF end = 0 THEN <<>> ELSE From(rest, end + 1)

Marked(lines) == Has(lines, "begin") /\ Has(lines, "end")

Interpreted(lines) == lines # <<>> /\ Head(lines) \in {"sh", "other"}

\* A hook of another interpreter is not spliced.
InstallRefused(h) == h.exists /\ ~Marked(h.lines) /\ h.lines # <<>> /\ Head(h.lines) = "other"

\* Mutant of Installed: the block is appended without looking for the old one.
InstalledTwice(h) ==
    [exists |-> TRUE, exec |-> TRUE,
     lines |-> IF ~h.exists THEN Skeleton ELSE h.lines \o Block]

\* The file install_pre_commit_hook leaves.
Installed(h) ==
    [exists |-> TRUE, exec |-> TRUE,
     lines |-> IF ~h.exists THEN Skeleton
               ELSE IF Marked(h.lines) THEN Before(h.lines) \o Block \o After(h.lines)
               ELSE h.lines \o Block]

\* Mutant of Uninstalled: whatever stands before the block is the skeleton's.
UninstalledDropsHeader(h) ==
    IF ~h.exists \/ ~Marked(h.lines) THEN h
    ELSE IF After(h.lines) = <<>> THEN NoHook
    ELSE [exists |-> TRUE, exec |-> TRUE, lines |-> Before(h.lines) \o After(h.lines)]

\* The file uninstall_pre_commit_hook leaves: none, when only the skeleton's
\* first line would remain.
Uninstalled(h) ==
    IF ~h.exists \/ ~Marked(h.lines) THEN h
    ELSE IF After(h.lines) = <<>> /\ Before(h.lines) \in {<<>>, <<"sh">>} THEN NoHook
    ELSE [exists |-> TRUE, exec |-> TRUE, lines |-> Before(h.lines) \o After(h.lines)]

\* git runs the hook and its block is reached.
Guards(h) ==
    /\ h.exists /\ h.exec
    /\ Has(h.lines, "check")
    /\ ~\E i \in 1..First(h.lines, "check") : h.lines[i] \in {"exit", "other"}

-----------------------------------------------------------------------------

Original(p) == [origin |-> p, version |-> 0]

\* No commit is in progress; nothing has been read.
NoJob == [at |-> "none", allowed |-> {}, blocked |-> {}, contract |-> FALSE,
          denied |-> {}, index |-> <<>>, checked |-> FALSE]

\* A repository into which the harness was just put, without a state file.
ScopeInit ==
    /\ Init
    /\ allowed = {}
    /\ blocked \in Blocked
    /\ head = [p \in Paths |-> IF p \in Tracked THEN Original(p) ELSE None]
    /\ index = head /\ work = head
    /\ hook \in {NoHook} \cup [exists : {TRUE}, exec : {TRUE},
                               lines : {<<"sh", "user">>, <<"other", "user">>}]
    /\ job = NoJob
    /\ edits = 0 /\ commits = 0

Edit == edits < MaxEdits /\ edits' = edits + 1

\* A text of the file that the index does not have.  Two versions are enough:
\* git only compares, and an edit may bring back the committed text.
Newer(p) ==
    [origin  |-> IF work[p] = None THEN p ELSE work[p].origin,
     version |-> IF index[p] = None THEN 1 ELSE 1 - index[p].version]

\* Time passes.
Wait == Tick /\ UNCHANGED <<scope, files, hook, job, edits, commits>>

\* A phase verb, by itself or from harness run, which also changes the state file
\* in the working tree; reopen puts allowed_paths away and leaves blocked_paths.
Verb ==
    /\ \/ \E target \in Phases, reset \in BOOLEAN :
            \/ Set(target, reset) /\ UNCHANGED allowed
            \/ Reopen(target, reset) /\ allowed' = {}
       \/ \E at \in AtTimes \cup {WholeSecond(now)} : Approve(at) /\ UNCHANGED allowed
       \/ HarnessRun /\ UNCHANGED allowed
    /\ work' = [work EXCEPT ![StatePath] = Newer(StatePath)]
    /\ UNCHANGED <<blocked, head, index, hook, job, edits, commits>>

\* The agent fills in the plan, in the state file.
WritePlan ==
    /\ ~state.contract
    /\ FillPlan
    /\ allowed' \in Scopes
    /\ work' = [work EXCEPT ![StatePath] = Newer(StatePath)]
    /\ UNCHANGED <<blocked, head, index, hook, job, edits, commits>>

\* The agent changes the scope in the state file, in whatever phase.
EditScope ==
    /\ Edit
    /\ state.contract
    /\ allowed' \in Scopes \ {allowed}
    /\ work' = [work EXCEPT ![StatePath] = Newer(StatePath)]
    /\ UNCHANGED <<gate, blocked, head, index, hook, job, commits>>

\* The agent writes, deletes or moves a file.
EditFile ==
    /\ Edit
    /\ \E p \in Paths \ {StatePath} :
         \/ work' = [work EXCEPT ![p] = Newer(p)]
         \/ work' = [work EXCEPT ![p] = None]
         \/ /\ work[p] # None
            /\ \E q \in Paths \ {StatePath, p} :
                 work' = [work EXCEPT ![q] = work[p], ![p] = None]
    /\ UNCHANGED <<gate, scope, head, index, hook, job, commits>>

\* git add of a path.
Stage ==
    /\ \E p \in Paths : index[p] # work[p] /\ index' = [index EXCEPT ![p] = work[p]]
    /\ UNCHANGED <<gate, scope, head, work, hook, job, edits, commits>>

-----------------------------------------------------------------------------
(* A commit.  While its hook runs, git holds nothing: everything else goes *)
(* on, the index included, which git reads again afterwards.               *)

\* git commit starts: it runs the hook where there is one.
StartCommit ==
    /\ job = NoJob
    /\ index # head
    /\ commits < MaxCommits /\ commits' = commits + 1
    /\ job' = [NoJob EXCEPT !.at = IF Guards(hook) THEN "hook" ELSE "passed"]
    /\ UNCHANGED <<gate, scope, files, hook, edits>>

\* The hook leaves without a check: it finds no working tree, or
\* HARNESS_HOOK_ALLOW_SKIP is set and there is no harness or no state file.
HookSkips ==
    /\ job.at = "hook"
    /\ job' = [job EXCEPT !.at = "passed"]
    /\ UNCHANGED <<gate, scope, files, hook, edits, commits>>

\* check_worktree_paths reads the state file and tests the phase.
HookReadsState ==
    /\ job.at = "hook"
    /\ GateAllows(state)
    /\ job' = [job EXCEPT !.at = "unstaged", !.allowed = allowed, !.blocked = blocked,
                          !.contract = state.contract]
    /\ UNCHANGED <<gate, scope, files, hook, edits, commits>>

\* What git is asked next.
Following(what) ==
    CASE what = "unstaged" -> "staged" [] what = "staged" -> "untracked"
      [] what = "untracked" -> "listed"

\* git_worktree_paths: one of its three questions to git.  Of what is listed the
\* paths outside the scope that was read are kept in mind.
HookLists ==
    /\ job.at \in {"unstaged", "staged", "untracked"}
    /\ job' = [job EXCEPT !.at = Following(@),
         !.denied = @ \cup {p \in Listing(job.at) : ~PathAllowed(p, job.allowed, job.blocked)},
         !.index = IF job.at = "staged" THEN index ELSE @]
    /\ UNCHANGED <<gate, scope, files, hook, edits, commits>>

\* Every path was in scope; check_phase_source_drift, which reads
\* the state file anew, follows.  The parts of `harness check` that look at the
\* installation and at the documents can only refuse more.
HookPasses ==
    /\ job.at = "listed"
    /\ job.denied = {}
    /\ ~PhaseSourceDrift(state)
    /\ job' = [job EXCEPT !.at = "passed", !.checked = TRUE]
    /\ UNCHANGED <<gate, scope, files, hook, edits, commits>>

\* Some check refuses, there is nothing to commit, or the user gives up.
CommitFails ==
    /\ job # NoJob
    /\ job' = NoJob
    /\ UNCHANGED <<gate, scope, files, hook, edits, commits>>

\* The index becomes the new tip, in the place of the last one or on top of it.
\* (--amend: the hook's lists and the properties are about what differs from the
\* last tip.)
Commit ==
    /\ job.at = "passed"
    /\ index # head
    /\ head' = index
    /\ job' = NoJob
    /\ UNCHANGED <<gate, scope, index, work, hook, edits, commits>>

-----------------------------------------------------------------------------
(* The hook file changes.                                                  *)

\* The verbs, when they change the file.
InstallHook ==
    /\ ~InstallRefused(hook)
    /\ hook # Installed(hook)
    /\ hook' = Installed(hook)
    /\ UNCHANGED <<gate, scope, files, job, edits, commits>>

UninstallHook ==
    /\ hook # Uninstalled(hook)
    /\ hook' = Uninstalled(hook)
    /\ UNCHANGED <<gate, scope, files, job, edits, commits>>

\* The file is rewritten in place and then made executable: a kill leaves the
\* first lines of the new text, and the mode the file had.
KillHookVerb ==
    /\ Edit
    /\ \E new \in {Installed(hook), Uninstalled(hook)} :
         /\ new = Installed(hook) => ~InstallRefused(hook)
         /\ new.exists /\ new.lines # hook.lines
         /\ \E n \in 0..Len(new.lines) :
              hook' = [exists |-> TRUE, exec |-> hook.exec, lines |-> SubSeq(new.lines, 1, n)]
    /\ UNCHANGED <<gate, scope, files, job, commits>>

\* People edit the hook: a line of theirs goes in, never above the interpreter
\* line, or a line comes out.
EditHook ==
    /\ Edit
    /\ hook.exists
    /\ \/ \E i \in 0..Len(hook.lines), line \in {"user", "exit"} :
            /\ ~(i = 0 /\ Interpreted(hook.lines))
            /\ hook' = [hook EXCEPT !.lines = InsertAt(@, i + 1, line)]
       \/ \E i \in 1..Len(hook.lines) : hook' = [hook EXCEPT !.lines = RemoveAt(@, i)]
    /\ UNCHANGED <<gate, scope, files, job, commits>>

ScopeNext ==
    Wait \/ Verb \/ WritePlan \/ EditScope \/ EditFile \/ Stage
    \/ StartCommit \/ HookSkips \/ HookReadsState \/ HookLists \/ HookPasses
    \/ CommitFails \/ Commit
    \/ InstallHook \/ UninstallHook \/ KillHookVerb \/ EditHook

ScopeSpec == ScopeInit /\ [][ScopeNext]_scopeVars

-----------------------------------------------------------------------------
(* Properties.                                                             *)

\* The old name of a file that a commit from one tree to another moves.
MovedAway(p, from, to) ==
    /\ to[p] = None
    /\ \E q \in Paths : from[q] = None /\ to[q] # None /\ to[q].origin = from[p].origin

\* What the hook has checked and lets through was planned and in scope, although
\* agents edit, stage, widen the scope and change the phase while it reads one
\* thing after another: the plan contract was in force when it read the state,
\* and every path that the commit changes was allowed by the scope it read and
\* not blocked.  There are two exceptions.  What is staged after the hook listed
\* the index goes in unseen.  And docs/WORKFLOW.md, section 8, says that changes
\* outside allowed_paths are stopped, but the old name of a moved file is not,
\* since git's list of names leaves it out.  A commit during which nothing
\* changed also passes `check --base` against its parent.
CommitStaysInScope ==
    [][(head' # head /\ job.checked) =>
        /\ job.contract
        /\ \A p \in Paths : head'[p] # head[p] =>
             \/ ~MatchesAny(p, job.blocked) /\ MatchesAny(p, job.allowed)
             \/ index[p] # job.index[p]
             \/ MovedAway(p, head, job.index)
        /\ (/\ GateAllows(state) /\ index = job.index
            /\ allowed = job.allowed /\ blocked = job.blocked) =>
             BaseCheckPasses(head, head')]_scopeVars

\* The lines that are not the harness's, and are marked off from it: no marker,
\* or one begin and one end behind it.
WellMarked(lines) ==
    LET marks == {i \in 1..Len(lines) : lines[i] \in {"begin", "end"}}
    IN \/ marks = {}
       \/ \E b, e \in marks : b < e /\ lines[b] = "begin" /\ lines[e] = "end" /\ marks = {b, e}

UserLines(lines) == IF Marked(lines) THEN Before(lines) \o After(lines) ELSE lines

\* Installing and removing the hook keeps every line of the user's, in order,
\* after any edits and killed runs, as long as the markers still stand in
\* pairs.  A first install brings the interpreter line, and a removal takes it
\* when nothing else is left.  (With a marker missing, the second install after
\* that drops what the user wrote below it.)
UserLinesSurvive ==
    [][(hook' # hook /\ hook.exists /\ WellMarked(hook.lines)
            /\ (InstallHook \/ UninstallHook)) =>
        \/ UserLines(hook'.lines) = UserLines(hook.lines)
        \/ ~hook'.exists /\ UserLines(hook.lines) \in {<<>>, <<"sh">>}]_scopeVars

\* Installing again changes nothing once the markers stand in pairs, and
\* whatever state the file is in the second install is the last that changes
\* it; an installed hook guards every commit, unless a line of the user's leaves
\* the script.
InstallSettles ==
    ~InstallRefused(hook) =>
        LET once == Installed(hook)
            twice == Installed(once)
        IN /\ WellMarked(hook.lines) => twice = once
           /\ Installed(twice) = twice
           /\ ~Has(hook.lines, "exit") => Guards(once)

=============================================================================
