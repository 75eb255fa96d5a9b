# TLA+ models of the agent harness

The harness (`src/scripts`) makes an agent plan before it works and ask a person
before it executes or finishes. It puts its own files on a repository, keeps
them up to date around what the user writes, and checks what the agent commits.
This directory models the parts of it that change something: the phase gate and
the locks that guard it, installation and recovery, the life of each installed
file, the planning documents and their repair, the codebase documents, and the
commit hook. `PROJECT.json` maps every definition to its source lines and lists
the hazards of the code, each at its line, with the property that watches it.

## 1. Inventory

### Components, state and operations

| component | state it keeps | operations | hard behaviour | what makes it correct | module |
|---|---|---|---|---|---|
| primary lock (`lib/phase_lock.py`) | `.scratch/phase-state.json.lock`, `...lock.recovery` | `acquire_primary` (STEP A-D), `try_recover`, `release_primary` | interleaving per system call, crash, pid reuse, reboot, timeouts | one owner; no live lock is evicted unless a failed boot lookup is misread; the recovery mutex is given back | `PhaseLock` |
| phase state and validator (`phase_state.py`, `transition.py`) | phase, approval, stamps, plan contract | `validate_transition_with_state`, `stamp_transition_timestamps` | long sequences of legal calls, time precision | execute and done only on a fresh approval and a plan contract | `PhaseState`, `PhaseGate`, `Workflow` |
| verbs and commit protocol (`phase_cli.py`, `phase_approve.py`, `phase_reopen.py`, `phase_txn.py`) | `phase-state.json`, its tmp file | `phase set`, `approve`, `reopen`; tmp, audit row, rename | two lock families, a prompt between read and write, crashes | each verb acts as if alone, or what survives when it does not | `PhaseVerbs` |
| session lock (`session.py`) | `.harness/session.lock` | create, release, atexit and signal hooks, `session unlock` | removal by name from four places | one process inside | `SessionLock` |
| audit log (`audit.py`) | `.harness/audit.log` and rotated files | append, rotate | flock on a file that is renamed | rows counted, files bounded, no deadlock, only the oldest dropped | `AuditLog` |
| readers of the gate (`status_next*.py`, `planning_status.py`, part of `check.py`) | none | `status`, `next`, `run`, `may_edit`, `check` | each decides anew what the validator decides | advice is accepted, projections agree, remedies help | `StatusNext` |
| install and recovery (`install.py`, `upgrade.py` Pass B, `atomic_io.py`, `install_recovery.py`) | sidecar, staging, journal, sentinel, manifest | stage, batch, publish, scan, resume, roll back | crash or failing rename between any two steps, no lock | manifests are published complete; leftovers are finished or cleared | `Install` |
| files of a target (`upgrade.py` Pass A, `uninstall_harness.py`, `adoption.py`, `append_block.py`, `state.py`, `roomodes_writer.py`, part of `check.py`) | every file, its record, copies in `.harness/conflicts` | init, upgrade, adopt, uninstall, `verify_hashes` | user edits between any two steps, retired files, blocks in user files | user text is kept, runs converge, unedited is quiet | `TargetFiles` |
| planning documents (`state_repair.py`, `backups.py`, `managed_block.py`, `roadmap_state.py`, `planning_grammar.py`, `project_dashboard/core.py`, `doctor.py`) | `ROADMAP.md`, `STATE.md`, backups | `state repair`, the checks over both | kill between two files, edits meanwhile, four readers of one text | repair settles, loses nothing, adds no drift | `PlanningDocs` |
| codebase documents (`recon.py`, `cmd_recon`, `check_m0_done`) | `.planning/codebase/*.md` | recon, the milestone-0 criterion | plain writes, kills, agents writing meanwhile | words survive, runs settle, milestone 0 is judged right | `Orientation` |
| hook and scope (`hooks.py`, `worktree.py`) | `.git/hooks/pre-commit` | install, uninstall, what a commit may touch | user edits of the hook; state, tree and index read one after another; renames | commits stay in the scope that was read, user lines survive | `CommitScope` |
| safe open, manifest parsing, reconciler, profiles, release tools, dashboard page, command line | none, or one file each | read-only reports, wrappers | - | - | - |

### How they interact

- `phase set` runs under `session.lock`, reads and replaces the state file
  itself, and appends its audit row afterwards. `phase approve` and `phase
  reopen` run under the primary lock and commit with `phase_txn`. **The two
  families do not take each other's lock.**
- `phase_txn`, all verbs and the recovery of the primary lock append to the
  audit log, which has its own flock.
- Agents write `verification`, `allowed_paths` and the checkpoint pointers
  straight into the state file; the validator asks them to.
- `status`, `next`, `check`, the planning projection, the dashboard and the hook
  read the state file and the documents, each with code of its own.
- init and upgrade share staging, the batch and the manifest; `state repair`
  begins with the recovery of whatever install was cut short. None of them takes
  a lock.
- The hook runs `check --worktree`, which reads the phase state that the verbs
  write and the scope that the plan contract holds. It runs as a child of git,
  which reads the index again when it has ended: all the while agents edit, stage
  and run verbs.

## 2. Modules

| module | models | how it corresponds to the code |
|---|---|---|
| `Mutex` | the promise of the primary lock | abstract: who is inside, no files |
| `PhaseLock` | `phase_lock.py` | one action per system call that others can see; `pc` is the position in the call, `obs` the record last read, `expired` the deadline |
| `PhaseState` | `transition.py`, `phase_state.py`, what each verb writes | operators on a state record; no variables |
| `PhaseGate` | the verbs when each runs alone | one action per verb, and a clock |
| `Workflow` | the promise of the gate | abstract: phase and "granted" only, no times |
| `StatusNext` | `status_next.py`, `status_next_cli.py`, part of `check.py`, `planning_status.py` and the messages of `transition.py` and `phase_cli.py` | `EXTENDS PhaseGate`: readers are operators on its state and on which of the fields that no verb demands are filled (`Fillings`: `plan_id`, the pointers, the summary, the acceptance criteria); `harness run` is an action |
| `SessionLock` | `session.py`, `cmd_session_unlock` | one action per create, write, removal |
| `PhaseVerbs` | the verbs step by step, several processes | `EXTENDS PhaseState, SessionLock`; read, decide, tmp, append, replace; crashes and errors at each |
| `AuditLog` | `audit.py` | one action per system call; `name` maps file names to inodes, a flock belongs to an inode |
| `Install` | `install.py`, `upgrade.py` Pass B, `atomic_install_batch`, `install_recovery.py` | one action per durable step of a driver (a run or the recovery), `at` its position, `todo` what it has left |
| `TargetFiles` | `upgrade.py` Pass A, init, adoption, uninstall, `verify_hashes`, `check_installed_target` | one action per file a run looks at; `run` holds what a run knows, `rec` the manifest |
| `PlanningDocs` | `state_repair.py` and the readers of the two documents | repair in four writes, `job` its locals; every reader an operator on the two documents |
| `Orientation` | `recon.py`, `cmd_recon`, `check_m0_done` | read, build, write one document after another |
| `CommitScope` | `hooks.py`, `worktree.py`, `check_phase_source_drift`, the hook script | `EXTENDS StatusNext`; the hook file line by line, head, index and working tree as functions of paths; `job` is a commit in progress: where its hook is and what it has read of state, tree and index, one action per reading |
| `*Proofs` (8) | - | theorems and proofs of the module they are named after; `PhaseGateProofs` also of `StatusNext` and `CommitScope`, `PhaseVerbsProofs` of `PhaseState` |
| `MC*` | - | instances and symmetry for TLC |

Composition: `PhaseGate` and `PhaseVerbs` use the operators of `PhaseState`, so
a verb writes the same thing alone and in company; `PhaseGate` implements
`Workflow` (`INSTANCE ... WITH`, `granted <- approved`); `PhaseVerbs` states that
a verb which was not overtaken is one step of `PhaseGate`. In `PhaseVerbs` the
primary lock is one mutex that becomes free when its owner dies. Both sides of
this step are proved: `PhaseLock` implements `Mutex` (until a boot lookup is
misread, section 3), and `approve` and `reopen`
use their lock as the same `Mutex`. `StatusNext` and `CommitScope` put the
readers, and git on top of them, on the same `PhaseGate`: `CommitScope` is shown to
implement `StatusNext`. `TargetFiles` takes the end of
a run as one step that happens or does not: `Install` shows what that step is.

### What the models leave out on purpose

- Names, hashes, texts, json and exit codes. A refused verb changes nothing and
  is a stutter, or the early return that gives its lock back. A text is a number
  or one of a few kinds; a user's text differs from every release's.
- `PhaseLock`: owner tokens are never reused while something remembers them
  (128 random bits); the same for the start times of one pid and for boot
  identifiers. A half-written record is as unreadable as an empty one.
- `PhaseState`: `contract` stands for "`verification` and `allowed_paths` are
  both non-empty"; the drafts that `reopen` keeps are never read by the gate.
- `PhaseVerbs`: of the audit rows only those of `approve` are kept, by their
  `approved_at` (the row carries no phase); `--at` is covered in `PhaseGate` only.
  Identity, tty and install-record checks come before any lock or state and only
  refuse.
- `AuditLog`: the overflow archive of long rows (nothing reads it). `exists` and
  the rename after it are one step: if the file vanishes between them the code
  dies with `FileNotFoundError`, which `Stop` allows everywhere.
- `Install`: the hook (in `CommitScope`), the install record, backups of user
  files (in `TargetFiles`), the verify branch, orphans of `.complete.tmp`, the
  fallback for renames across file systems, a failure to write `.aborted`.
- `TargetFiles`: dry runs.
- `PlanningDocs`: a missing document or "Phases" section, percentages, paused
  phases, the schema version, an unreadable state file, the findings about
  `state_path` and about files that are named and missing, what the checkpoint's
  own file says (`planning_status.py:425-481`), the recovery of an install with
  which repair starts, the dashboard's phase folders.
- `Orientation`: `--dry-run` and `--scope`, layout, titles, preambles.
- `StatusNext`: the values of the fields that no verb demands, which are filled or
  not.
- `CommitScope`: malformed patterns, character classes, the warning about
  colliding patterns; what `--amend` compares with, merges and rebases; the parts
  of `harness check` that look at the installation and the documents, which can
  only refuse more.

## 3. Runs

| run | question | bounds | distinct states |
|---|---|---|---|
| `phase_lock` | is the lock a lock, with crashes, pid reuse, reboots, failing lookups, writes and unlinks? | 2 processes on one host, 2 tokens, 2 start times, 2 boot ids | 160952, up to symmetry |
| `phase_lock_live` | does `acquire_primary` return? | 2 hosts with one process each, 1 boot id | 262656; holds, unless others re-create the lock for ever |
| `phase_verbs` | what survives when verbs overlap and die? | 2 processes, the clock ticks once | 1051302, up to symmetry |
| `phase_verbs_lost` | does a verb replace only what it has read? | 2 processes | violated (finding 1) |
| `session_lock` | is one process inside? | 2 slots, no `--force` | violated (finding 2) |
| `audit_log` | what does the flock keep, when the locked file is renamed? | 2 processes, 6 inodes, 2 rotated files, 2 entries, 3 rows | 499651, up to symmetry |
| `install` | are manifests published complete and leftovers cleared? | 2 runs over 2 files, 2 faults, 1 stray | 64699 |
| `target_files` | is user text kept, do runs converge, is the unedited quiet? | 2 releases, 5 files of every policy, 3 commands, 1 edit | 347966 |
| `planning_docs` | does repair settle, lose nothing, add no drift? | 3 milestone ids, 2 checkpoints in 2 files, 2 backups, 2 edits | 1007966 |
| `orientation` | do words survive, does recon settle, is milestone 0 judged right? | 2 runs, 2 edits, 1 kill, 2 days | 896713 |
| `orientation_human` | do the sections survive that the documents call human-owned? | as `orientation` | violated (finding 3) |
| `commit_scope` | does every sequence of verbs keep the promise, do its readers agree, does their advice help; is what passes the hook in scope, is the hook file the user's? | 8 ticks, 2 per second, `--at` 0, 3 or 9; 3 paths, 2 scopes, 2 edits, 1 commit | 43161 |

**Bounds.** Two processes are enough for the lock because a process that died
may start again as another one: the owner that is gone, the recoverer and the
newcomer meet in two slots, and two tokens let the file change hands while a
process still remembers the other one. A start time and a boot identifier are
only compared with one other value, so two are enough. With processes on two
hosts the question is only how long `acquire_primary` waits, for which one boot
identifier and the fallback do. Eight ticks of half a second allow a full cycle with a
reopen and a second approval; the `--at` values lie before, inside and after it
(9 is beyond `MaxTime`, in the future). In `phase_verbs` the clock ticks
once, so that a verb may write at another time than it has read, and an approval
may be older than another one; freshness is the subject of `commit_scope`, and
the theorems hold for every `MaxTime`. In `audit_log` the
limits are as small as they can be with the entry limit below the size limit, as
in the code (10 MiB hold more full rows than 10000); six inodes never cut a
behaviour short. In `install` two files are the fewest with a file before and
one after a crash, one of them `.roomodes`, which alone is changed after the
batch; two runs let a recovery meet the leftovers of both; two faults let the
recovery die too. In `target_files` three commands allow init, upgrade and what
follows either, and one edit may come between any two steps; the five files are
one of each policy and two that the second release retires, one of them in its
graveyard. In `planning_docs` two backups with two repairs bring pruning about; two
edits let one fall before a repair and one into it or after it (three make more
than ten million states).
In `orientation` a kill, an edit and a second run are what a document cut short
takes. In `commit_scope` a path at each depth and a pattern of each kind suffice
because a pattern looks at one path at a time. `MCCommitScope` keeps apart what
has nothing to do with one another (`Apart`): a behaviour moves the clock (the
gate and its readers, which are this run's first half), or git's files with one
edit (a commit in progress, while verbs change the phase and plans the scope), or the
hook file with two, which are its two markers. The proofs know no such limit.

**Deadlock** is checked wherever the system runs on (the locks, the verbs, the
log). The other runs stop when their commands, edits, commits or ticks are used
up.

**Fairness.** `phase_lock_live`: a process inside a call is scheduled and time
passes. The loop of `acquire_primary` is made of non-blocking calls and bounded
sleeps, so the operating system gives it that. No fairness is assumed of starting
a verb, releasing, dying or rebooting. The exception in the property is real: the
`FileNotFoundError` branch of STEP C (line 370) loops without a look at the
deadline. `install`: a command that was started is let run, a staging directory
gets older, and the operator runs `state repair` as long as it has something to
repair, as every failure message of install and upgrade says. Nothing makes the
faults stop but their bound.

### What the properties say

- *Lock.* `ImplementsMutex` (with it, that two processes never own the lock);
  `HolderKeepsFile` (release and the error path unlink by name: the file must be
  the owner's own); `NoLiveEviction` (check-then-unlink in `try_recover`);
  `MutexGivenBack` (the `finally`). **The first three end with a mistake that the
  code allows**: a lookup of the boot identifier that fails, for the owner or for
  the reader, gives a fixed string that is compared like an identifier, and a
  recovery that takes the difference for a reboot removes a live lock. The model
  has these failures; `misread` becomes true when such a verdict is given, and the
  properties are stated up to then. That nothing else takes a lock from a live
  owner (failing lookups of start times, pid reuse, reboots, failing writes, kills)
  is what they say. `MutexGivenBack` has no such condition.
- *Gate and readers.* `ContractInForce`, `ImplementsWorkflow`;
  `SafeCommandAccepted` (advice is a legal move); `ProjectionsAgree` (three
  answers to "may the agent edit?", two to "is it the user's turn?"). The
  projections and `check` ask for fields that no verb demands, and times are
  compared as texts here and as times there, in one unit or with fractions of any
  length: the property says when the answers agree, and its exceptions are those
  fields and times within one second. `CheckRefusesOnlyPending` has the same
  exception for fields. `RemediesHelp`: following the messages gets people through,
  except from an approval that predates its phase, a done state with fields
  missing (`state repair` does not fill them), and `HARNESS_AUTOMATION`.
- *Verbs.* `NoWorkWithoutPlan` and `ApprovalIsAudited` hold although updates are
  lost; `CommitIsAlone`; `VerbsAreAtomic`.
- *Audit log.* `NoDeadlyEmbrace`, `LogBounded`, `RowsCount`,
  `OnlyOldestDropped`, whose exception is real: a rotator that was overtaken may
  overwrite `audit.log.1` by its last rename.
- *Install.* `JournalAfterRename`, `PublishComplete`, `RollbackSparesPublished`,
  and under fairness `LeftoversCleared` and `CompletedIsPublished`. The second
  and third are stated for operators who recover first; one who starts a new run
  over leftovers, or repairs beside a run at work, breaks them: nothing locks.
- *Files.* `KeepsUserText`, `AroundBlockKept`, `Converges`, `CheckedAfterRun`,
  `UneditedIsQuiet`, with the exceptions their comments name. A copy into
  `.harness/conflicts` may fail, and the file is replaced all the same:
  `KeepsUserText` names this as one of the ways in which text is lost.
- *Planning documents.* `KilledRepairIsFinished`, `RepairSettles`,
  `RepairAddsNoDrift`, `RewrittenTextIsKept`, `DoctorSeesWhatCheckRefuses`. Repair
  does bring up findings in two cases, which `RepairAddsNoDrift` names and sets
  apart: a plan outside the folder that repair fills in, and lines of a block that
  repair reads and nobody else counts.
- *Recon.* `WordsSurvive`, `ReconSettles`, `RunMeetsM0`.
- *Hook.* `CommitStaysInScope`: a hook that ran through lets in what the scope it
  has read allows, though everything moves between its readings; with two
  exceptions, what is staged after the index was listed and the old name of a
  moved file. It says nothing of a hook that leaves early (`HookSkips`).
  `UserLinesSurvive`, `InstallSettles`.

Each module also has a `TypeOK`, or names its types where it declares its
variables. The runs spend their time on other things: the `TypeOK` of the lock,
the gate, the verbs, `Install`, `TargetFiles` and `PlanningDocs` are theorems or
conjuncts of the invariants of section 4, and what the proofs of `AuditLog`,
`Orientation` and `CommitScope` need of types stands in theirs.

### Findings

1. `phase_verbs_lost`: `set` and `approve`/`reopen` overwrite each other.
   `docs/WORKFLOW.md` describes one lock and one commit path for all verbs.
2. `session_lock`: the atexit hook unlinks `session.lock` a second time.
3. `orientation_human`: recon lays out the sections of automatic documents anew,
   those included that the skeleton's `TESTING.md:14` calls human-owned and the
   docstring of `merge_file` preserved.

Found on the way and allowed for in the properties, each as an exception that
its comment names, or in the choice of what the model does:

- A failed lookup of the boot identifier is recorded, or compared, as if it were
  one (`phase_lock.py:147-179`, `:262`): a live lock is then recovered, though
  `phase_lock.py:278-280` says that a live holder "is not silently recovered".
- The recovery mutex is given back by an unlink of which only
  `FileNotFoundError` and `DurableFsError` are caught (`phase_lock.py:501-507`):
  another error leaves it there.
- The recovery mutex is tested before the create, not with it
  (`phase_lock.py:323`); harmless for exclusion, because the recoverer compares
  tokens. A recoverer that is killed leaves a mutex that no code removes.
- An approval in the second in which `plan` or `execute` was entered is stamped
  before the floor and refused (`phase_approve.py:332`). The message then asks to
  approve again, which does nothing while there is an approval; only a reset or a
  reopen helps. `set done` with plan fields missing advises `state repair`, which
  does not fill them (`phase_cli.py:258-268`).
- A leftover `phase-state.json.tmp` blocks every later commit
  (`phase_txn.py:170`).
- Between the rotator's rename and its flock on the new `audit.log` another
  writer may fill that file; the rotator numbers its row 1 again
  (`audit.py:272`).
- `next` says "Run: harness run" for an agent-safe plan or execute, where
  `harness run` only prints (`status_next_cli.py:506`); the machine interface
  asks for the approval of a plan that is approved; `check` refuses an approved
  plan and an execute that waits for its approval.
- Check's dashboard refuses a `STATE.md` without a checkpoint line, of which the
  doctor says nothing (`project_dashboard/core.py:613`).
- An upgrade that stages nothing records the hash of `.roomodes` anew but not
  its installed hash (`upgrade.py:744`), which the doctor compares.
- A run that died while it was staging, before its sidecar, looks to recovery like
  a batch to finish (`install_recovery.py:437`): ten minutes later `state repair`
  puts down the part of the release that was staged and publishes nothing. After
  an init the next init reports it; after an upgrade only `--verify-hashes` does.
- `AGENTS.md` is written in place while files are still being staged: a run that
  dies then leaves a block that every later upgrade takes for the user's.
- An error of the copy into `.harness/conflicts` is swallowed ("backup is
  best-effort") and the user's file replaced (`upgrade.py:434`).
- Uninstall deletes files the user has modified; `docs/INSTALL-MODEL.md:168`
  says otherwise. `.adopted` and `.retired` copies replace earlier ones.
- Repair drops the letter of a milestone id; a roadmap with letters is not
  repaired idempotently. Its pattern for the lines of a block
  (`state_repair.py:177`) is laxer than that of the readers
  (`planning_grammar.py:83`), so an uncounted line becomes one that counts; and
  the comparison of the plan's folder (`roadmap_state.py:320`) begins only when
  repair has filled in the checkpoint file.
- Recon's first run changes the tree it records; it stamps documents nobody
  filled `status: current`.
- Entering execute spends the approval, so the hook refuses every commit until
  the attempt itself is approved, and the state file counts among the changed
  paths. `docs/WORKFLOW.md:193-194` says that changes outside `allowed_paths` are
  stopped; the old name of a moved file is not, nor what is staged after the hook
  listed the index, nor anything where the hook finds no working tree, or
  `HARNESS_HOOK_ALLOW_SKIP` is set and the harness or the state file is missing.
  An agent may widen `allowed_paths` after the approval. An orphan marker in the hook makes the
  install after next drop user lines below it.

## 4. Proofs

Checked by TLAPS for every value of the constants: any number of processes,
hosts, tokens, files, releases, milestones, hook lines, edits, faults and runs,
any clock and precision. **Every safety property that a passing run checks is a
theorem**, action properties and the two refinements included. Each module of
proofs begins with its argument in words; here they are side by side. Hardly
any of the properties is inductive; what had to be added is the interesting part.

- `PhaseLockProofs`. `LockInvariant`, until a boot lookup is misread: the owner's
  file is its own; whoever is past STEP A in a recovery holds the mutex; and, the heart of it, *whatever
  record a process was told is stale belongs to a process that is gone, and two
  records with the same token are the same record*. From it follow exclusion,
  `HolderKeepsFile`, `NoLiveEviction` and `MutexGivenBack`, and `LockIsMutex`: as
  a step changes one process or kills some, and one owner at most is there before
  and after it, who comes in finds nobody in.
- `PhaseGateProofs`, the gate. The contract, the shape of an approval and the
  stamped floors are inductive (`GateInv`); `GateImplementsWorkflow` maps every
  step to a step or a stutter of `Workflow`.
- `PhaseGateProofs`, the readers. `harness run` takes no step that `phase set`
  does not take, so `GateInv` holds with it, and from it alone follow
  `SafeCommandAccepted` (the copy of the freshness comparison decides as the
  validator does), `CheckRefusesOnlyPending`, `RemediesHelp` (one lemma per
  remedy) and `ProjectionsAgree`, for which `TextComparison` shows that comparing
  the texts of two times goes wrong within one second only, whatever the
  precision.
- `PhaseGateProofs`, the hook. What git and the editor do around the gate is no
  step of it (`ScopeImplementsStatus`), so all that is proved of the gate and its
  readers holds beside a commit. `JobInv` says what a hook knows at
  each point of its readings: the contract was in force when it read the state, and
  once it has listed the index every path that this index changes is in the scope
  it has read, or denied. Since a hook that ran through has denied nothing, what it
  lets in is in scope, or moved away, or was staged after the listing
  (`CommitStaysInScope`). For the hook file, `HookInv` says that the first line of a
  foreign interpreter stands first and alone; a block that was put in is found
  again where it was put, because nothing before it is a begin marker. That
  gives `InstallSettles` and `UserLinesSurvive` for files of any length.
- `PhaseVerbsProofs`. `VerbsInv`: *every copy* of the state - the file, the tmp
  file, what each process has read - is `Sound` and every approval in one of them
  has its audit row. That is why lost updates do no worse: an overtaken verb
  writes the image of a sound state. `CommitInv` adds that the tmp file of a
  commit is what its verb makes of the state it has read, at some time; so a verb
  that was not overtaken is one step of the gate (`VerbsAreAtomic`).
  `VerbsUseMutex` is the other half of `LockIsMutex`.
- `AuditLogProofs`. *A file that was renamed away while somebody has it open never
  becomes `audit.log` again.* Hence whoever waits for the new file with an old one
  locked waits for somebody who does not wait, and no circle closes
  (`NoDeadlyEmbrace`). For `LogBounded` the invariant counts the processes that
  will append to a file without testing it (`Coming`) against the room it has
  left: each of them comes once, as it would have to rotate the file away first.
- `InstallProofs`. In two parts. `JournalInv` holds for any operator: before its
  batch a run has left nothing that a recovery acts on, and the next line of a
  journal is about a file that was renamed. `CalmInv` holds as long as the
  operator recovers before a new run: one run at most has anything lying about; it
  owes what is in its staging directory, and every other file is as its record
  says; what is undone carries its mark until its sidecar is gone.
- `TargetFilesProofs`. `KindInv`: a path keeps its policy, so what is staged is
  never a file with a block (`AroundBlockKept`). `TextInv`: a file the run has
  looked at and the user has not touched since is as the run saw it, and a text
  that agrees with its record is the release's or has a copy, or its copy failed
  (`KeepsUserText`).
  `RunInv`: the record of a file nobody touched tells the truth, and a file the
  run is done with is where the release has it or staged to be there; so nothing
  is left at the end (`Converges`, `CheckedAfterRun`, `UneditedIsQuiet`).
- `PlanningDocsProofs`. `ReadInv` and `EndedInv` say what the documents hold
  between the writes of a repair while nobody edits. `LinesInv` says that the
  lines of every roadmap, backups included, have titles of their own: that is why
  a repair that drops a letter drops no line. `SettlesTheorem` takes any lines,
  counted or not; `NoDriftTheorem` the counted ones. `DoctorSeesWhatCheckRefuses` needs
  no invariant; it compares the counters of the two readers.
- `OrientationProofs`. What a run in progress will write was built from what it
  read (`RunInv`), an agent's document with the text it had; and building from
  what was built gives the same again, which is `ReconSettles`.

**Assumptions.** The named assumptions of the modules, and no others. Most say
that special values are not members of the sets they stand beside, or that a
parameter is a number. The rest say something of the code: `HostOf` is a
function and one second has a tick at least; writers of the log are finitely many
and the entry limit is below the size limit (10000 rows, 10 MiB); from release to
release a path keeps its policy or is dropped, `.roomodes` is owned by the harness
or not shipped, and a path in the graveyard is not shipped and never had a block
(`harness/manifest.json`); recon writes in an order without repeats
(`recon.py`). TLC evaluates them on the instances.

**Only model-checked.** Liveness, which is beyond the prover:
`AcquireReturnsUnlessChurn`, `LeftoversCleared`, `CompletedIsPublished`. Each has
a safety side that is proved: `MutexGivenBack` for the first, the invariant of a
calm target for the others. `NoLostUpdate`, `SessionExclusion` and
`HumanSectionsSurvive` are violated by the code (section 3); of `SessionLock` nothing else is claimed.

## 5. Not modelled

- `safe_open.py`: path checks around single system calls; a model would restate
  each check.
- `manifest*.py`: the manifest is a constant of `TargetFiles`; its parser is text
  handling, and no command calls the reconciler.
- `profiles.py`, `state_diagnostics.py`, `progress.py`, `release*.py`,
  `workflow_static_checks.py` and the other release tools; the dashboard's page
  and server; `harness.py` but for recon and the hook; smoke tests: parsing,
  dispatch and reports, with no state that a step of another part depends on.

## 6. Plan

Done: all components above that change state, and the proof of every safety
property of the runs. Left, in this order:

1. What `SessionLock` does keep without `--force` and the atexit hook, stated and
   proved.
2. The parts of `Install` and `PlanningDocs` that section 2 leaves out.
3. The proofs of `TargetFiles`, a third of all proof text, in fewer lemmas: the cases
   of init, upgrade and adoption share more than they say.
