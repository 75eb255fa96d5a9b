----------------------------- MODULE PhaseVerbs ------------------------------
(***************************************************************************)
(* `phase set`, `phase approve` and `phase reopen` as processes that run   *)
(* at the same time over one project.  `set` reads, validates and writes   *)
(* the state under session.lock and appends its audit row afterwards;      *)
(* `approve` and `reopen` work under the primary lock and commit in the    *)
(* three steps of phase_txn.commit_transaction: write phase-state.json.tmp,*)
(* append the audit row, rename.  Neither family takes the other's lock.   *)
(*                                                                         *)
(* The primary lock is the mutex PhaseLock shows it to be, free again once *)
(* its owner is gone.  PhaseGate is the specification of the verbs when    *)
(* each runs alone; it is instantiated below.                              *)
(***************************************************************************)
EXTENDS PhaseState, SessionLock

CONSTANTS
  Free0,      \* the primary lock is free
  MaxTime     \* bound on the clock

ASSUME Free0Assumption == Free0 \notin Proc
ASSUME MaxTimeAssumption == MaxTime \in Nat

VARIABLES
  state,      \* phase-state.json
  now,        \* the wall clock
  tmp,        \* phase-state.json.tmp, NoState when there is none
  audit,      \* the rows of the audit log
  primary,    \* the owner of the primary lock, or Free0
  pc,         \* where each process is in its verb
  seen        \* before_state: the state each process has read

fileVars == <<state, tmp, audit>>
vars == <<state, now, tmp, audit, primary, pc, seen, lock, sess>>

Txn == {"decide", "append", "replace"}

\* The rows of `phase approve`, by their args.approved_at: a row does not name
\* the phase.  The rows of the other verbs are not told apart, and left out.
Row == [approvedAt : Time]

TypeOK ==
  /\ SessionTypeOK
  /\ state \in State /\ tmp \in State /\ now \in Time
  /\ audit \subseteq Row
  /\ primary \in Proc \cup {Free0}
  /\ pc \in [Proc -> {"idle", "loaded", "written"} \cup Txn]
  /\ seen \in [Proc -> State]

Init ==
  /\ SessionInit
  /\ state = NoState /\ tmp = NoState /\ now = 0
  /\ audit = {}
  /\ primary = Free0
  /\ pc = [p \in Proc |-> "idle"]
  /\ seen = [p \in Proc |-> NoState]

\* Process p forgets what it has read and is at label.
Done(p, label) ==
  /\ pc' = [pc EXCEPT ![p] = label]
  /\ seen' = [seen EXCEPT ![p] = NoState]

Load(p, label) ==
  /\ pc' = [pc EXCEPT ![p] = label]
  /\ seen' = [seen EXCEPT ![p] = state]

-----------------------------------------------------------------------------
(* phase set.                                                              *)

\* _do_phase_set reads the state file, inside the session lock.
SetLoad(p) ==
  /\ sess[p] = "in" /\ pc[p] = "idle"
  /\ Load(p, "loaded")
  /\ UNCHANGED <<fileVars, now, primary, sessionVars>>

\* Mutant of SetOutcome: entering plan or execute is not stamped.
SetOutcomeUnstamped(st, target, reset) ==
  IF ~reset /\ target = st.phase THEN st
  ELSE [SetTo(st, target, reset, now) EXCEPT !.planAt = st.planAt, !.execAt = st.execAt]

\* The state _do_phase_set writes for the state it has read: the restamp of
\* the current phase, or a valid move.
SetOutcome(st, target, reset) ==
  IF ~reset /\ target = st.phase THEN st ELSE SetTo(st, target, reset, now)

\* The validators accept and _write_state_atomic replaces the state file.
SetWrite(p, target, reset) ==
  /\ pc[p] = "loaded"
  /\ (~reset /\ target = seen[p].phase) \/ ValidMove(seen[p], target, reset)
  /\ state' = SetOutcome(seen[p], target, reset)
  /\ Done(p, "written")
  /\ UNCHANGED <<tmp, audit, now, primary, sessionVars>>

\* Its audit row; then the verb returns and the lock is left.
SetAppend(p) ==
  /\ pc[p] = "written"
  /\ Done(p, "idle")
  /\ LeaveLock(p)
  /\ UNCHANGED <<fileVars, now, primary>>

\* The move is refused, or `done` is set again in done: nothing is written.
SetRefused(p) ==
  /\ pc[p] = "loaded"
  /\ Done(p, "idle")
  /\ LeaveLock(p)
  /\ UNCHANGED <<fileVars, now, primary>>

-----------------------------------------------------------------------------
(* phase approve and phase reopen.                                         *)

\* Mutant of TxnBegin: the commit starts whether or not the lock is held.
TxnBeginUnlocked(p) ==
  /\ sess[p] = "out" /\ pc[p] = "idle"
  /\ primary' = p
  /\ state # NoState
  /\ Load(p, "decide")
  /\ UNCHANGED <<fileVars, now, sessionVars>>

\* acquire_primary, then the state is read: a missing one is refused.  From
\* here approve waits for the person at the prompt.
TxnBegin(p) ==
  /\ sess[p] = "out" /\ pc[p] = "idle"
  /\ primary = Free0
  /\ primary' = p
  /\ state # NoState
  /\ Load(p, "decide")
  /\ UNCHANGED <<fileVars, now, sessionVars>>

\* The after-states: approve of the state read, or reopen of it.
Outcomes(st) ==
  (IF Approvable(st) THEN {ApprovedAt(st, WholeSecond(now))} ELSE {})
  \cup {Reopened(st, target) :
          target \in {t \in Phases : \E reset \in BOOLEAN : Reopenable(st, t, reset)}}

\* Step 1: phase-state.json.tmp is created with O_EXCL.
TxnTmp(p) ==
  /\ pc[p] = "decide"
  /\ tmp = NoState
  /\ tmp' \in Outcomes(seen[p])
  /\ pc' = [pc EXCEPT ![p] = "append"]
  /\ UNCHANGED <<state, audit, now, primary, seen, sessionVars>>

\* The file is there already: FileExistsError leaves the verb.
TxnRefusedByTmp(p) ==
  /\ pc[p] = "decide"
  /\ tmp # NoState
  /\ Outcomes(seen[p]) # {}
  /\ primary' = Free0
  /\ Done(p, "idle")
  /\ UNCHANGED <<fileVars, now, sessionVars>>

\* What commit_transaction appends for the after-state it is to install.
RowsOf(st) == IF st.approved THEN {[approvedAt |-> st.approvedAt]} ELSE {}

\* Mutant of TxnAppend: the state is replaced before the row is appended.
TxnAppendLate(p) ==
  /\ pc[p] = "append"
  /\ state' = tmp
  /\ pc' = [pc EXCEPT ![p] = "replace"]
  /\ UNCHANGED <<tmp, audit, now, primary, seen, sessionVars>>

\* Step 2.
TxnAppend(p) ==
  /\ pc[p] = "append"
  /\ audit' = audit \cup RowsOf(tmp)
  /\ pc' = [pc EXCEPT ![p] = "replace"]
  /\ UNCHANGED <<state, tmp, now, primary, seen, sessionVars>>

\* Step 3, and release_primary.
TxnReplace(p) ==
  /\ pc[p] = "replace"
  /\ state' = tmp
  /\ tmp' = NoState
  /\ primary' = Free0
  /\ Done(p, "idle")
  /\ UNCHANGED <<audit, now, sessionVars>>

\* Refused, cancelled at the prompt, or an error or a crash in any step: the
\* lock is given back, or is recovered by the next one to want it.  Nothing
\* that was written is cleaned up.
TxnStops(p) ==
  /\ pc[p] \in Txn
  /\ primary' = Free0
  /\ Done(p, "idle")
  /\ UNCHANGED <<fileVars, now, sessionVars>>

-----------------------------------------------------------------------------
(* The lock of `set`, and the world around.                                *)

\* The steps of session.lock that are not part of a step above: a process
\* that is killed or interrupted inside leaves its verb where it is.
SessionOnly(p) ==
  /\ \/ pc[p] = "idle" /\ (CreateLock(p) \/ WriteLock(p) \/ WriteLockFails(p) \/ AtExit(p)
                           \/ UnlockDecides(p) \/ UnlockRemoves(p))
     \/ pc[p] \notin Txn /\ (Interrupt(p) \/ CrashSession(p))
  /\ Done(p, "idle")
  /\ UNCHANGED <<fileVars, now, primary>>

ByHand == RemoveByHand /\ UNCHANGED <<fileVars, now, primary, pc, seen>>

\* The clock, and the agent's edit of the plan, as in PhaseGate.  An approval is
\* stamped after the prompt and takes effect at the rename, so to the gate its
\* time may be any time.
Gate == INSTANCE PhaseGate WITH AtTimes <- 0 .. MaxTime
World == (Gate!Tick \/ Gate!FillPlan) /\ UNCHANGED <<tmp, audit, primary, pc, seen, sessionVars>>

Next ==
  \/ World
  \/ ByHand
  \/ \E p \in Proc :
       \/ SetLoad(p) \/ SetAppend(p) \/ SetRefused(p)
       \/ \E target \in Phases, reset \in BOOLEAN : SetWrite(p, target, reset)
       \/ TxnBegin(p) \/ TxnTmp(p) \/ TxnRefusedByTmp(p) \/ TxnAppend(p) \/ TxnReplace(p)
       \/ TxnStops(p)
       \/ SessionOnly(p)

Spec == Init /\ [][Next]_vars

-----------------------------------------------------------------------------
(* Properties.                                                             *)

\* Process p is about to put a state in place of phase-state.json.
Writes(p) == pc[p] \in {"loaded", "replace"} /\ state' # state

\* However verbs overlap, and whatever an overtaken verb writes back: nobody
\* executes without a plan contract.
NoWorkWithoutPlan == Gate!ContractInForce

\* However verbs overlap, an approval never shows up in a phase or in a shape
\* in which the validator could not judge it.
ApprovalIsWellPlaced == Gate!ApprovalBelongsToPhase

\* Nothing counts as approved unless the audit log has a row of an approval at
\* that time, also when the commit died half way or when a `set` that was
\* overtaken writes an old approval back.
ApprovalIsAudited == RowsOf(state) \subseteq audit

\* The two commits never meet: who is between step 1 and step 3 has the primary
\* lock and finds its own tmp file at step 3.
CommitIsAlone == \A p \in Proc : pc[p] \in {"append", "replace"} => primary = p /\ tmp # NoState

\* A verb that was not overtaken between its read and its write does what
\* PhaseGate says the verb does, all at once.
VerbsAreAtomic ==
  [][(\A p \in Proc : Writes(p) /\ pc'[p] # pc[p] => seen[p] = state) =>
       UNCHANGED Gate!vars \/ Gate!Next]_vars

\* "Acquire session.lock, ..., commit_transaction" for every mutating verb:
\* what a verb replaces is what it has read.
NoLostUpdate ==
  [][\A p \in Proc : Writes(p) /\ pc'[p] # pc[p] => seen[p] = state]_vars
=============================================================================
