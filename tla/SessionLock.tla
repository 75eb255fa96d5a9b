----------------------------- MODULE SessionLock -----------------------------
(***************************************************************************)
(* .harness/session.lock, the lock of `phase set` (session.py), and        *)
(* `harness session unlock` (phase_cli.py).  Whoever creates the file with *)
(* O_EXCL is in; everybody else is refused at once, with no wait.  The     *)
(* file is removed by name, in the `finally` of acquire_lock, again by the *)
(* atexit hook, and by the signal handlers.                                *)
(*                                                                         *)
(* A slot of Proc runs one process after another.  The flock on the fresh  *)
(* file is not modelled: nobody else opens the file, and it is given up    *)
(* with the descriptor before the critical section starts.                 *)
(***************************************************************************)
EXTENDS Naturals

CONSTANTS
  Proc,    \* slots in which harness processes run, all on one host
  NoLock,  \* the lock file does not exist
  UseForce \* whether people use `session unlock --force`

ASSUME UseForceAssumption == UseForce \in BOOLEAN

VARIABLES
  lock,    \* the lock file
  sess     \* where each process is in acquire_lock, or in session unlock

sessionVars == <<lock, sess>>

\* `full`: the payload is written; `alive`: the process it names still runs.
LockFile == [owner : Proc, full : BOOLEAN, alive : BOOLEAN]

ASSUME NoLockAssumption == NoLock \notin LockFile

SessionTypeOK ==
  /\ lock \in LockFile \cup {NoLock}
  /\ sess \in [Proc -> {"out", "created", "in", "left", "unlocking"}]

SessionInit == lock = NoLock /\ sess = [p \in Proc |-> "out"]

\* The file once process p is gone: the pid in it is dead.
Without(p) ==
  IF lock # NoLock /\ lock.owner = p THEN [lock EXCEPT !.alive = FALSE] ELSE lock

-----------------------------------------------------------------------------
\* os.open with O_EXCL succeeds.  (A refused process ends: it changes nothing.)
CreateLock(p) ==
  /\ sess[p] = "out"
  /\ lock = NoLock
  /\ lock' = [owner |-> p, full |-> FALSE, alive |-> TRUE]
  /\ sess' = [sess EXCEPT ![p] = "created"]

\* The payload is written through the descriptor, to p's own file if that is
\* still the one under the name; the hooks are registered and the body runs.
WriteLock(p) ==
  /\ sess[p] = "created"
  /\ lock' = IF lock # NoLock /\ lock.owner = p THEN [lock EXCEPT !.full = TRUE] ELSE lock
  /\ sess' = [sess EXCEPT ![p] = "in"]

\* Writing the payload fails: unlink and re-raise.
WriteLockFails(p) ==
  /\ sess[p] = "created"
  /\ lock' = NoLock
  /\ sess' = [sess EXCEPT ![p] = "out"]

\* The body is over: `finally: release_lock(lock_path)`.
LeaveLock(p) ==
  /\ sess[p] = "in"
  /\ lock' = NoLock
  /\ sess' = [sess EXCEPT ![p] = "left"]

\* The process ends: the atexit hook releases the path once more.
AtExit(p) ==
  /\ sess[p] = "left"
  /\ lock' = NoLock
  /\ sess' = [sess EXCEPT ![p] = "out"]

\* SIGINT or SIGTERM once the handlers are installed: release and die.
Interrupt(p) ==
  /\ sess[p] \in {"in", "left"}
  /\ lock' = NoLock
  /\ sess' = [sess EXCEPT ![p] = "out"]

\* The process is killed where nothing catches it: the file stays.
CrashSession(p) ==
  /\ sess[p] # "out"
  /\ lock' = Without(p)
  /\ sess' = [sess EXCEPT ![p] = "out"]

\* `session unlock` reads a payload that parses and decides to remove the
\* file: on --force, or because the recorded pid is dead.
UnlockDecides(p) ==
  /\ sess[p] = "out"
  /\ lock # NoLock
  /\ lock.full
  /\ UseForce \/ ~lock.alive
  /\ sess' = [sess EXCEPT ![p] = "unlocking"]
  /\ UNCHANGED lock

\* It has written its audit row and removes the file by name.
UnlockRemoves(p) ==
  /\ sess[p] = "unlocking"
  /\ lock' = NoLock
  /\ sess' = [sess EXCEPT ![p] = "out"]

\* A killed process left an empty file: session unlock, with --force too, only
\* says "inspect and remove manually", and somebody does.
RemoveByHand ==
  /\ lock # NoLock
  /\ ~lock.full /\ ~lock.alive
  /\ lock' = NoLock
  /\ UNCHANGED sess

SessionStep(p) ==
  \/ CreateLock(p)
  \/ WriteLock(p)
  \/ WriteLockFails(p)
  \/ LeaveLock(p)
  \/ AtExit(p)
  \/ Interrupt(p)
  \/ CrashSession(p)
  \/ UnlockDecides(p)
  \/ UnlockRemoves(p)

SessionNext == RemoveByHand \/ \E p \in Proc : SessionStep(p)

SessionSpec == SessionInit /\ [][SessionNext]_sessionVars

-----------------------------------------------------------------------------
\* "the O_EXCL guarantees we lose the race with any concurrent acquirer":
\* while a process is inside, nobody else gets in.
SessionExclusion ==
  \A p, q \in Proc : sess[p] = "in" /\ sess[q] = "in" => p = q
=============================================================================
