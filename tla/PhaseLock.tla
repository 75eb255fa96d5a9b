------------------------------ MODULE PhaseLock ------------------------------
(***************************************************************************)
(* The primary lock of the phase gate, `.scratch/phase-state.json.lock`,   *)
(* and its recovery mutex, `...lock.recovery` (src/scripts/lib/            *)
(* phase_lock.py).  Each process runs the STEP A/B/C/D loop of             *)
(* acquire_primary, one action per system call that another process can    *)
(* observe or interleave with; a process may be killed anywhere, its pid   *)
(* may be reused, and a host may be rebooted.                              *)
(*                                                                         *)
(* A process is named by its host and pid, so that a restarted process is  *)
(* pid reuse.  Owner tokens, process start times and boot identifiers are  *)
(* compared for equality only: a new one is any value that no file and no  *)
(* process remembers.                                                      *)
(*                                                                         *)
(* Every lookup may fail: that of a start time is recorded as null, that   *)
(* of the boot identifier answers a fixed string, which the classifier     *)
(* compares like an identifier.                                            *)
(***************************************************************************)
EXTENDS Naturals, FiniteSets

CONSTANTS
  Proc,      \* pids, each on one host
  Host,      \* machines that share the .scratch directory
  HostOf,    \* the host of a pid
  Token,     \* owner tokens (secrets.token_hex)
  Stamp,     \* process start times
  BootId,    \* boot identifiers
  NoStart,   \* process_start_time recorded as null: psutil could not tell
  NoBootId,  \* what _current_boot_id answers when it cannot tell
  None

(***************************************************************************)
(* The record in the lock file.  `sealed` is false between the O_EXCL      *)
(* create of the file and the write of the record; the other fields of     *)
(* such a file are history, nobody can read them yet.  `start` and `boot`  *)
(* are what was recorded; `inc` and `era`, the start time of the process   *)
(* that created the file and the boot it ran in, are history for the       *)
(* properties.                                                             *)
(***************************************************************************)
Record == [tok : Token, owner : Proc, start : Stamp \cup {NoStart}, inc : Stamp,
           boot : BootId \cup {NoBootId}, era : BootId, sealed : BOOLEAN]

ASSUME HostOfAssumption == HostOf \in [Proc -> Host]
ASSUME NoneAssumption == None \notin Proc \cup Record
ASSUME NoStartAssumption == NoStart \notin Stamp
ASSUME NoBootIdAssumption == NoBootId \notin BootId

VARIABLES
  primary,   \* the primary lock file: None or the record of its creator
  recovery,  \* the recovery mutex file: None or the process that created it
  boot,      \* the current boot identifier of each host
  alive,     \* the processes that exist
  born,      \* the start time of each process
  pc,        \* where each process is in acquire_primary / try_recover
  obs,       \* the owner record a process read last
  expired,   \* the deadline of the process's current call has passed
  misread    \* history: a recovery took a failed lookup for a reboot

vars == <<primary, recovery, boot, alive, born, pc, obs, expired, misread>>

Recovering == {"validate1", "classify1", "validate2", "unlink", "cleanup", "abort"}
Owning == {"created", "written", "held"}
Acquiring == {"stepA", "stepB", "stepC", "classifyC", "stepD", "stepDwait"}
PC == {"idle"} \cup Acquiring \cup Owning \cup Recovering

\* Where a process still uses the owner record it read last.
Comparing == {"classifyC", "stepD", "validate1", "classify1", "validate2", "unlink"}

\* The types of the variables; only the living are inside a call, and a
\* process compares only records that were completely written.
TypeOK ==
  /\ primary \in Record \cup {None}
  /\ recovery \in Proc \cup {None}
  /\ boot \in [Host -> BootId]
  /\ alive \in [Proc -> BOOLEAN]
  /\ born \in [Proc -> Stamp]
  /\ pc \in [Proc -> PC]
  /\ obs \in [Proc -> Record \cup {None}]
  /\ expired \in [Proc -> BOOLEAN]
  /\ misread \in BOOLEAN
  /\ \A p \in Proc :
       /\ ~alive[p] => pc[p] = "idle"
       /\ obs[p] # None <=> pc[p] \in Comparing
       /\ obs[p] # None => obs[p].sealed

Init ==
  /\ primary = None
  /\ recovery = None
  /\ boot \in [Host -> BootId]
  /\ alive = [p \in Proc |-> TRUE]
  /\ born \in [Proc -> Stamp]
  /\ pc = [p \in Proc |-> "idle"]
  /\ obs = [p \in Proc |-> None]
  /\ expired = [p \in Proc |-> FALSE]
  /\ misread = FALSE

-----------------------------------------------------------------------------
(* Helpers.                                                                *)

\* Every record that still exists somewhere.
Remembered == ({primary} \cup {obs[q] : q \in Proc}) \ {None}

GoTo(p, there) == pc' = [pc EXCEPT ![p] = there]

\* p forgets the record it read: the local variable goes out of use.
Forget(p) == obs' = [obs EXCEPT ![p] = None]

\* p's call ends, by an error or because p dies.
Leave(p) ==
  /\ GoTo(p, "idle")
  /\ Forget(p)
  /\ expired' = [expired EXCEPT ![p] = FALSE]

\* The answers of _current_boot_id in process p.
BootIdRead(p) == {boot[HostOf[p]], NoBootId}

\* Mutant of Verdicts: a record without a start time counts as stale.
VerdictsNullIsStale(p, r, b) ==
  IF HostOf[r.owner] # HostOf[p] THEN {"foreign_host"}
  ELSE IF r.boot # b \/ ~alive[r.owner] \/ r.start # born[r.owner] THEN {"stale"}
  ELSE {"live"}

\* classify(): the verdicts that process p may reach about record r after it has
\* looked up boot identifier b.  The psutil lookup itself may fail, which makes
\* any same-boot verdict ambiguous.
Verdicts(p, r, b) ==
  LET owner == r.owner IN
  IF HostOf[owner] # HostOf[p] THEN {"foreign_host"}
  ELSE IF r.boot # b THEN {"stale"}
  ELSE {"ambiguous"} \cup
       (IF ~alive[owner] THEN {"stale"}
        ELSE IF r.start = NoStart THEN {}
        ELSE IF r.start # born[owner] THEN {"stale"}
        ELSE {"live"})

\* p sees another boot where there was none: the lookup has failed on one side
\* only, when the record was made or now.
Mistaken(p, r, b) == r.boot # b /\ r.era = boot[HostOf[p]]

-----------------------------------------------------------------------------
(* acquire_primary                                                         *)

\* A verb calls acquire_primary.
Begin(p) ==
  /\ alive[p] /\ pc[p] = "idle"
  /\ GoTo(p, "stepA")
  /\ UNCHANGED <<primary, recovery, boot, alive, born, obs, expired, misread>>

\* time.monotonic() passes the deadline, or STEP A has waited for the mutex
\* longer than its cap.
Tick(p) ==
  /\ pc[p] \in Acquiring \cup Recovering
  /\ ~expired[p]
  /\ expired' = [expired EXCEPT ![p] = TRUE]
  /\ UNCHANGED <<primary, recovery, boot, alive, born, pc, obs, misread>>

\* STEP A: go on only when there is no recovery mutex.
StepAPass(p) ==
  /\ pc[p] = "stepA"
  /\ recovery = None
  /\ GoTo(p, "stepB")
  /\ UNCHANGED <<primary, recovery, boot, alive, born, obs, expired, misread>>

\* STEP A: LockTimeoutError while a recovery mutex exists.
StepATimeout(p) ==
  /\ pc[p] = "stepA"
  /\ recovery # None
  /\ expired[p]
  /\ Leave(p)
  /\ UNCHANGED <<primary, recovery, boot, alive, born, misread>>

\* STEP B: the O_EXCL create of the primary succeeds; its content is not
\* written yet.
CreatePrimary(p) ==
  /\ pc[p] = "stepB"
  /\ primary = None
  /\ \E t \in Token \ {r.tok : r \in Remembered},
        s \in {born[p], NoStart}, b \in BootIdRead(p) :
       primary' = [tok |-> t, owner |-> p, start |-> s, inc |-> born[p],
                   boot |-> b, era |-> boot[HostOf[p]], sealed |-> FALSE]
  /\ GoTo(p, "created")
  /\ UNCHANGED <<recovery, boot, alive, born, obs, expired, misread>>

\* STEP B: FileExistsError, on to STEP C.
CreateRefused(p) ==
  /\ pc[p] = "stepB"
  /\ primary # None
  /\ GoTo(p, "stepC")
  /\ UNCHANGED <<primary, recovery, boot, alive, born, obs, expired, misread>>

\* _write_owner_record.
WriteRecord(p) ==
  /\ pc[p] = "created"
  /\ primary' = IF primary = None THEN None
                ELSE [primary EXCEPT !.sealed = TRUE]
  /\ GoTo(p, "written")
  /\ UNCHANGED <<recovery, boot, alive, born, obs, expired, misread>>

\* fsync of the record and of the directory: the LockHandle is returned.
SyncRecord(p) ==
  /\ pc[p] = "written"
  /\ GoTo(p, "held")
  /\ expired' = [expired EXCEPT ![p] = FALSE]
  /\ UNCHANGED <<primary, recovery, boot, alive, born, obs, misread>>

\* The write or an fsync raises OSError: the path is unlinked, whatever file
\* is there, and the error propagates.  The unlink may fail too, silently.
SealFails(p) ==
  /\ pc[p] \in {"created", "written"}
  /\ primary' \in {None, primary}
  /\ Leave(p)
  /\ UNCHANGED <<recovery, boot, alive, born, misread>>

\* STEP C: read the existing record.  A file that is gone sends p back to
\* STEP A without looking at the deadline; an empty file is a JSONDecodeError
\* that ends the call.
StepCRead(p) ==
  /\ pc[p] = "stepC"
  /\ \/ /\ primary = None
        /\ GoTo(p, "stepA")
        /\ UNCHANGED <<obs, expired>>
     \/ /\ primary # None /\ ~primary.sealed
        /\ Leave(p)
     \/ /\ primary # None /\ primary.sealed
        /\ obs' = [obs EXCEPT ![p] = primary]
        /\ GoTo(p, "classifyC")
        /\ UNCHANGED expired
  /\ UNCHANGED <<primary, recovery, boot, alive, born, misread>>

\* STEP C: classify the record that was read.  Ambiguous raises LockHeldError;
\* live and foreign wait, or raise LockTimeoutError past the deadline; stale
\* goes on to STEP D.
StepCClassify(p) ==
  /\ pc[p] = "classifyC"
  /\ \E b \in BootIdRead(p) :
       \/ /\ "ambiguous" \in Verdicts(p, obs[p], b)
          /\ Leave(p)
       \/ /\ Verdicts(p, obs[p], b) \cap {"live", "foreign_host"} # {}
          /\ IF expired[p]
               THEN Leave(p)
               ELSE /\ GoTo(p, "stepA")
                    /\ Forget(p)
                    /\ UNCHANGED expired
       \/ /\ "stale" \in Verdicts(p, obs[p], b)
          /\ GoTo(p, "stepD")
          /\ UNCHANGED <<obs, expired>>
  /\ UNCHANGED <<primary, recovery, boot, alive, born, misread>>

\* Mutant of StepDWait: no deadline check on the recovery path.
StepDWaitForever(p) ==
  /\ pc[p] = "stepDwait"
  /\ GoTo(p, "stepA")
  /\ UNCHANGED <<primary, recovery, boot, alive, born, obs, expired, misread>>

\* STEP D after try_recover returned: deadline check, then STEP A again.
StepDWait(p) ==
  /\ pc[p] = "stepDwait"
  /\ IF expired[p]
       THEN Leave(p)
       ELSE GoTo(p, "stepA") /\ UNCHANGED <<obs, expired>>
  /\ UNCHANGED <<primary, recovery, boot, alive, born, misread>>

-----------------------------------------------------------------------------
(* try_recover                                                             *)

\* Mutant of TakeRecoveryMutex: created without O_EXCL.
TakeRecoveryMutexShared(p) ==
  /\ pc[p] = "stepD"
  /\ recovery' = p
  /\ GoTo(p, "validate1")
  /\ UNCHANGED <<primary, boot, alive, born, obs, expired, misread>>

\* The O_EXCL create of the recovery mutex, or the early return when another
\* recoverer has it.
TakeRecoveryMutex(p) ==
  /\ pc[p] = "stepD"
  /\ \/ /\ recovery = None
        /\ recovery' = p
        /\ GoTo(p, "validate1")
        /\ UNCHANGED obs
     \/ /\ recovery # None
        /\ GoTo(p, "stepDwait")
        /\ Forget(p)
        /\ UNCHANGED recovery
  /\ UNCHANGED <<primary, boot, alive, born, expired, misread>>

\* Mutant of Revalidate: the token is not compared, the first reading is trusted.
RevalidateAnyToken(p, there) ==
  \/ primary # None /\ primary.sealed /\ GoTo(p, there) /\ UNCHANGED obs
  \/ primary = None /\ GoTo(p, "cleanup") /\ Forget(p)
  \/ primary # None /\ ~primary.sealed /\ GoTo(p, "abort") /\ Forget(p)

\* Mutant of Revalidate: the early return is outside the try block.
RevalidateLeaksMutex(p, there) ==
  \/ /\ primary # None /\ primary.sealed /\ primary.tok = obs[p].tok
     /\ GoTo(p, there)
     /\ UNCHANGED obs
  \/ /\ primary # None => (primary.sealed /\ primary.tok # obs[p].tok)
     /\ GoTo(p, "stepDwait")
     /\ Forget(p)
  \/ /\ primary # None /\ ~primary.sealed
     /\ GoTo(p, "abort")
     /\ Forget(p)

\* Reading the record back: go on to `there` while it carries the observed
\* token, give up when it is gone or another one, raise when it is unreadable.
Revalidate(p, there) ==
  \/ /\ primary # None /\ primary.sealed /\ primary.tok = obs[p].tok
     /\ GoTo(p, there)
     /\ UNCHANGED obs
  \/ /\ primary # None => (primary.sealed /\ primary.tok # obs[p].tok)
     /\ GoTo(p, "cleanup")
     /\ Forget(p)
  \/ /\ primary # None /\ ~primary.sealed
     /\ GoTo(p, "abort")
     /\ Forget(p)

\* Validation point (i), the read.
Validate1Read(p) ==
  /\ pc[p] = "validate1"
  /\ Revalidate(p, "classify1")
  /\ UNCHANGED <<primary, recovery, boot, alive, born, expired, misread>>

\* Validation point (i), the verdict on the record just read.
Validate1Classify(p) ==
  /\ pc[p] = "classify1"
  /\ \E b \in BootIdRead(p) :
       \/ /\ "stale" \in Verdicts(p, obs[p], b)
          /\ GoTo(p, "validate2")
          /\ misread' = (misread \/ Mistaken(p, obs[p], b))
          /\ UNCHANGED obs
       \/ /\ Verdicts(p, obs[p], b) \ {"stale"} # {}
          /\ GoTo(p, "cleanup")
          /\ Forget(p)
          /\ UNCHANGED misread
  /\ UNCHANGED <<primary, recovery, boot, alive, born, expired>>

\* Validation point (ii): the token is read again.
Validate2(p) ==
  /\ pc[p] = "validate2"
  /\ Revalidate(p, "unlink")
  /\ UNCHANGED <<primary, recovery, boot, alive, born, expired, misread>>

\* os.unlink(primary), whatever file is there, then the lock.recovered audit
\* row.  A missing file, a refused unlink and a failing audit append all raise
\* through the finally block.
UnlinkStale(p) ==
  /\ pc[p] = "unlink"
  /\ \/ primary' = None /\ (GoTo(p, "cleanup") \/ GoTo(p, "abort"))
     \/ GoTo(p, "abort") /\ UNCHANGED primary
  /\ Forget(p)
  /\ UNCHANGED <<recovery, boot, alive, born, expired, misread>>

\* The finally block unlinks the mutex; then try_recover returns or the
\* exception ends the call.
ReleaseRecoveryMutex(p) ==
  /\ recovery' = None
  /\ \/ pc[p] = "cleanup" /\ GoTo(p, "stepDwait") /\ UNCHANGED <<obs, expired>>
     \/ pc[p] = "abort" /\ Leave(p)
  /\ UNCHANGED <<primary, boot, alive, born, misread>>

\* The finally block catches a missing mutex file and a failing fsync only: any
\* other error of the unlink leaves the mutex there and ends the call.
MutexUnlinkFails(p) ==
  /\ pc[p] \in {"cleanup", "abort"}
  /\ Leave(p)
  /\ UNCHANGED <<primary, recovery, boot, alive, born, misread>>

-----------------------------------------------------------------------------
(* release_primary, and the world outside the module.                      *)

\* The path is unlinked without looking at whose file it is.  An error of the
\* unlink other than a missing file propagates, with the handle given up.
Release(p) ==
  /\ pc[p] = "held"
  /\ primary' \in {None, primary}
  /\ Leave(p)
  /\ UNCHANGED <<recovery, boot, alive, born, misread>>

\* p is killed; files stay.
Crash(p) ==
  /\ alive[p]
  /\ alive' = [alive EXCEPT ![p] = FALSE]
  /\ Leave(p)
  /\ UNCHANGED <<primary, recovery, boot, born, misread>>

\* A new process gets pid p, with a start time no record of p carries.
Start(p) ==
  /\ ~alive[p]
  /\ alive' = [alive EXCEPT ![p] = TRUE]
  /\ \E s \in Stamp \ {r.inc : r \in {x \in Remembered : x.owner = p}} :
       born' = [born EXCEPT ![p] = s]
  /\ UNCHANGED <<primary, recovery, boot, pc, obs, expired, misread>>

\* Host h reboots: its processes are gone and its boot identifier is new.
Reboot(h) ==
  /\ \E b \in BootId \ ({boot[h]} \cup
               {r.era : r \in {x \in Remembered : HostOf[x.owner] = h}}) :
       boot' = [boot EXCEPT ![h] = b]
  /\ alive' = [p \in Proc |-> HostOf[p] # h /\ alive[p]]
  /\ pc' = [p \in Proc |-> IF HostOf[p] = h THEN "idle" ELSE pc[p]]
  /\ obs' = [p \in Proc |-> IF HostOf[p] = h THEN None ELSE obs[p]]
  /\ expired' = [p \in Proc |-> HostOf[p] # h /\ expired[p]]
  /\ UNCHANGED <<primary, recovery, born, misread>>

\* The steps acquire_primary takes by itself once it has been called.
Step(p) ==
  \/ StepAPass(p) \/ StepATimeout(p)
  \/ CreatePrimary(p) \/ CreateRefused(p)
  \/ WriteRecord(p) \/ SyncRecord(p) \/ SealFails(p)
  \/ StepCRead(p) \/ StepCClassify(p) \/ StepDWait(p)
  \/ TakeRecoveryMutex(p) \/ Validate1Read(p) \/ Validate1Classify(p)
  \/ Validate2(p) \/ UnlinkStale(p) \/ ReleaseRecoveryMutex(p)
  \/ MutexUnlinkFails(p)

Next ==
  \/ \E p \in Proc : Begin(p) \/ Tick(p) \/ Step(p) \/ Release(p)
                     \/ Crash(p) \/ Start(p)
  \/ \E h \in Host : Reboot(h)

Spec == Init /\ [][Next]_vars

(***************************************************************************)
(* A live process is scheduled until its call ends, and time passes.       *)
(* Nothing forces a verb to be run, a holder to release, a process to die  *)
(* or a machine to reboot.                                                 *)
(***************************************************************************)
Fairness == \A p \in Proc : WF_vars(Step(p)) /\ WF_vars(Tick(p))

LiveSpec == Spec /\ Fairness

-----------------------------------------------------------------------------
(* Properties.                                                             *)

\* As long as no recovery has taken a failed lookup for a reboot, at most one
\* process is between a successful O_EXCL create of the primary and its release:
\* two approvals never run their read-modify-write together.
MutualExclusion ==
  misread \/ \A p, q \in Proc : pc[p] \in Owning /\ pc[q] \in Owning => p = q

\* The owners of the lock are those of a mutex: nobody comes to own it in a step
\* in which another process still does, not even when that one has just been
\* recovered from or has died.  This is promised until a recovery has taken a
\* failed lookup of the boot identifier for a reboot; nothing is from then on.
Promise == INSTANCE Mutex
  WITH inside <- {p \in Proc : pc[p] \in Owning /\ ~misread}
ImplementsMutex == Promise!Spec

\* While a process owns the lock, the file at the path is the one it created,
\* with its own identity in it: no recoverer, releaser or failing acquirer has
\* unlinked or replaced it (release_primary relies on this, it unlinks by path).
\* Failed lookups of start times do not endanger it, nor do those of the boot
\* identifier that fail everywhere; one that fails on one side only may.
HolderKeepsFile ==
  misread \/ \A p \in Proc : pc[p] \in Owning =>
    /\ primary # None
    /\ primary.owner = p
    /\ primary.inc = born[p]
    /\ primary.start \in {born[p], NoStart}
    /\ primary.era = boot[HostOf[p]]
    /\ primary.boot \in BootIdRead(p)
    /\ primary.sealed <=> (pc[p] # "created")

\* Two recoverers are never inside try_recover's critical section together,
\* and the mutex file is there, created by the one that is.
OneRecoverer ==
  \A p \in Proc : pc[p] \in Recovering => recovery = p

\* The owner recorded in r is gone: it can never again act on the lock.
OwnerGone(r) ==
  \/ ~alive[r.owner]
  \/ r.era # boot[HostOf[r.owner]]
  \/ r.inc # born[r.owner]

\* Between the second validation and the unlink the file cannot have become
\* somebody's live lock: what is about to be unlinked is the record that was
\* validated, and its owner is gone, unless a failed lookup was misread.
UnlinkOnlyAbandoned ==
  misread \/ \A p \in Proc : pc[p] = "unlink" =>
    primary # None /\ primary = obs[p] /\ OwnerGone(primary)

\* The lock file disappears only when the process that created it stops owning
\* it in that very step, or no longer owns it, or when that process no longer
\* exists; it is never overwritten by another record.  The exception is the
\* recovery that takes a failed lookup of the boot identifier for a reboot.
NoLiveEviction ==
  [][primary # None /\ primary' # primary =>
       \/ primary' = [primary EXCEPT !.sealed = TRUE]
       \/ /\ primary' = None
          /\ \/ pc[primary.owner] \in Owning /\ pc'[primary.owner] \notin Owning
             \/ OwnerGone(primary)
             \/ misread]_vars

\* i3: try_recover gives the recovery mutex back on every path that leaves it
\* alive, errors included, that of the very unlink of the mutex excepted.
MutexGivenBack ==
  [][\A p \in Proc : pc[p] \in Recovering /\ pc'[p] \notin Recovering /\ alive'[p]
                     => recovery' = None \/ MutexUnlinkFails(p)]_vars

\* A call of acquire_primary returns: with the lock, with an error or by the
\* death of the process; unless other processes create the primary over and
\* over, because the FileNotFoundError branch of STEP C has no deadline check.
AcquireReturnsUnlessChurn ==
  \A p \in Proc :
    \/ []<>(pc[p] \in {"idle", "held"})
    \/ []<><<\E q \in Proc \ {p} : CreatePrimary(q)>>_vars
=============================================================================
