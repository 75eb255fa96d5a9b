-------------------------- MODULE PhaseVerbsProofs ---------------------------
(***************************************************************************)
(* What survives when the verbs overlap, for every number of processes.    *)
(* Verbs overwrite each other, but every state that is written is computed *)
(* from one that was read: if all states that are around, in the file, in  *)
(* the tmp file and in the processes, are sound and have their approvals   *)
(* audited, then so is the next one.                                       *)
(***************************************************************************)
EXTENDS PhaseVerbs, TLAPS

-----------------------------------------------------------------------------
(* What the verbs make of one state, whoever else writes the file.         *)

\* A state the gate allows: work has a contract, and an approval is complete
\* and stands in a phase in which it can be spent.
Sound(st) ==
  /\ st \in State
  /\ st.phase \in {"execute", "done"} => st.contract
  /\ st.approved <=> st.approvedAt # None
  /\ st.approved => st.phase \in {"plan", "execute"}

\* The whole second of a time is a time.
LEMMA WholeSecondIsTime ==
  ASSUME NEW t \in Time
  PROVE  WholeSecond(t) \in Time
<1>1. TicksPerSecond \in Nat \ {0}
  BY TicksAssumption
<1>2. t % TicksPerSecond \in 0 .. TicksPerSecond - 1
  BY <1>1 DEF Time
<1>3. t = TicksPerSecond * (t \div TicksPerSecond) + (t % TicksPerSecond)
  BY <1>1 DEF Time
<1> QED
  BY <1>1, <1>2, <1>3 DEF Time, WholeSecond

\* There is nothing wrong with having no state file.
LEMMA NoStateIsSound == Sound(NoState)
  BY NoneAssumption DEF Sound, NoState, State, Phases

\* A valid move of `phase set` leads from a sound state to a sound state in the
\* target phase, and leaves no approval behind.
LEMMA SetToIsSound ==
  ASSUME NEW st, Sound(st), NEW target \in Phases, NEW reset \in BOOLEAN,
         ValidMove(st, target, reset), NEW t \in Time
  PROVE  /\ Sound(SetTo(st, target, reset, t))
         /\ SetTo(st, target, reset, t).phase = target
         /\ SetTo(st, target, reset, t).approved = FALSE
<1> DEFINE new == SetTo(st, target, reset, t)
<1> USE NoneAssumption DEF Sound, ValidMove, Gated, Backward, Free, Phases
<1>1. new \in State /\ new.phase = target /\ new.contract = st.contract
  BY DEF SetTo, Stamped, Unapproved, State
<1>2. new.approved = FALSE /\ new.approvedAt = None
  <2>1. CASE reset \/ (st.phase \in {"plan", "execute"} /\ target \in {"execute", "done"}
                        /\ st.approved)
    BY <2>1 DEF SetTo, Unapproved, Stamped, State
  <2>2. CASE ~reset /\ st.approved = FALSE
    BY <2>2 DEF SetTo, Unapproved, Stamped, State
  <2>3. CASE ~reset /\ st.approved
                    /\ ~(st.phase \in {"plan", "execute"} /\ target \in {"execute", "done"})
    BY <2>3
  <2>4. st.approved \in BOOLEAN
    BY DEF State
  <2> QED
    BY <2>1, <2>2, <2>3, <2>4
<1>3. target \in {"execute", "done"} => st.contract
  OBVIOUS
<1> QED
  BY <1>1, <1>2, <1>3

\* `phase approve` leads to a sound state with that approval.
LEMMA ApprovedIsSound ==
  ASSUME NEW st, Sound(st), Approvable(st), NEW at \in Time
  PROVE  Sound(ApprovedAt(st, at)) /\ ApprovedAt(st, at).phase = st.phase
<1> DEFINE new == ApprovedAt(st, at)
<1>1. /\ new \in State
      /\ new.phase = st.phase /\ new.contract = st.contract
      /\ new.approved = TRUE /\ new.approvedAt = at
  BY DEF Sound, ApprovedAt, State
<1>2. at # None
  BY NoneAssumption DEF Time
<1>3. st.phase \in {"plan", "execute"} /\ (st.phase = "execute" => st.contract)
  BY DEF Sound, Approvable
<1> HIDE DEF new
<1>4. Sound(new)
  BY <1>1, <1>2, <1>3 DEF Sound
<1> QED
  BY <1>1, <1>4 DEF new

\* `phase reopen` leads to a sound state without approval.
LEMMA ReopenedIsSound ==
  ASSUME NEW st, Sound(st), NEW target \in Phases, NEW reset \in BOOLEAN,
         Reopenable(st, target, reset)
  PROVE  /\ Sound(Reopened(st, target))
         /\ Reopened(st, target).phase = target
         /\ Reopened(st, target).approved = FALSE
  BY NoneAssumption DEF Sound, Reopenable, Reopened, Unapproved, State, Phases

-----------------------------------------------------------------------------
(* The inductive invariant.                                                *)

\* Every state that is around, in a file or in a process, is sound.
AllSound == Sound(state) /\ Sound(tmp) /\ \A p \in Proc : Sound(seen[p])

\* Who has written the tmp file holds the lock; its rows come before the rename.
AllAudited ==
  /\ RowsOf(state) \subseteq audit
  /\ \A p \in Proc : RowsOf(seen[p]) \subseteq audit
  /\ \A p \in Proc : pc[p] = "replace" => RowsOf(tmp) \subseteq audit

LockHeld ==
  /\ \A p \in Proc : pc[p] \in Txn => primary = p
  /\ \A p \in Proc : pc[p] \in {"append", "replace"} => tmp # NoState

VerbsInv == TypeOK /\ AllSound /\ AllAudited /\ LockHeld

-----------------------------------------------------------------------------
\* No state, no approval, no row.
LEMMA NoStateNoRows == RowsOf(NoState) = {}
  BY DEF RowsOf, NoState

\* The rows of a sound state are rows of the log.
LEMMA RowsAreRows ==
  ASSUME NEW st, Sound(st)
  PROVE  RowsOf(st) \subseteq Row
  BY NoneAssumption DEF RowsOf, Row, Sound, State, Phases, Time

\* The lock file and its users keep their shape.
LEMMA SessionType ==
  ASSUME SessionTypeOK,
         RemoveByHand \/ (\E p \in Proc : SessionStep(p)) \/ UNCHANGED sessionVars
  PROVE  SessionTypeOK'
<1>1. CASE RemoveByHand \/ UNCHANGED sessionVars
  BY <1>1 DEF RemoveByHand, sessionVars, SessionTypeOK
<1>2. CASE \E p \in Proc : SessionStep(p)
  <2>1. PICK p \in Proc : SessionStep(p)
    BY <1>2
  <2>2. lock' \in LockFile \cup {NoLock}
    <3>1. CASE CreateLock(p)
      BY <3>1 DEF CreateLock, LockFile
    <3>2. CASE WriteLock(p)
      BY <3>2 DEF WriteLock, LockFile, SessionTypeOK
    <3>3. CASE CrashSession(p)
      BY <3>3 DEF CrashSession, Without, LockFile, SessionTypeOK
    <3>4. CASE lock' = NoLock \/ lock' = lock
      BY <3>4 DEF SessionTypeOK
    <3> QED
      BY <2>1, <3>1, <3>2, <3>3, <3>4 DEF SessionStep, WriteLockFails, LeaveLock, AtExit,
         Interrupt, UnlockDecides, UnlockRemoves
  <2>3. sess' \in [Proc -> {"out", "created", "in", "left", "unlocking"}]
    BY <2>1 DEF SessionStep, CreateLock, WriteLock, WriteLockFails, LeaveLock, AtExit,
       Interrupt, CrashSession, UnlockDecides, UnlockRemoves, SessionTypeOK
  <2> QED
    BY <2>2, <2>3 DEF SessionTypeOK
<1> QED
  BY <1>1, <1>2

\* A process that forgets what it read, or reads the file, holds a sound and
\* audited state, and no other process is touched.
LEMMA ReaderStep ==
  ASSUME VerbsInv, NEW p \in Proc,
         \/ \E label \in {"idle", "written"} : Done(p, label)
         \/ \E label \in {"loaded", "decide"} : Load(p, label)
  PROVE  /\ pc' \in [Proc -> {"idle", "loaded", "written"} \cup Txn]
         /\ seen' \in [Proc -> State]
         /\ \A q \in Proc : Sound(seen'[q]) /\ RowsOf(seen'[q]) \subseteq audit
         /\ \A q \in Proc \ {p} : pc'[q] = pc[q]
         /\ pc'[p] \notin {"append", "replace"}
         /\ (\E label \in {"idle", "written"} : Done(p, label)) => pc'[p] \notin Txn
<1>1. CASE \E label \in {"idle", "written"} : Done(p, label)
  <2>1. PICK label \in {"idle", "written"} : Done(p, label)
    BY <1>1
  <2>2. \A q \in Proc : seen'[q] = IF q = p THEN NoState ELSE seen[q]
    BY <2>1 DEF Done, VerbsInv, TypeOK
  <2> QED
    BY <2>1, <2>2, NoStateIsSound, NoStateNoRows
    DEF Done, VerbsInv, TypeOK, Txn, AllSound, AllAudited, Sound
<1>2. CASE \E label \in {"loaded", "decide"} : Load(p, label)
  <2>1. PICK label \in {"loaded", "decide"} : Load(p, label)
    BY <1>2
  <2>2. \A q \in Proc : seen'[q] = IF q = p THEN state ELSE seen[q]
    BY <2>1 DEF Load, VerbsInv, TypeOK
  <2>3. pc'[p] = label
    BY <2>1 DEF Load, VerbsInv, TypeOK
  <2>4. ~(\E l \in {"idle", "written"} : Done(p, l))
    BY <2>3, <2>1 DEF Done, VerbsInv, TypeOK
  <2> QED
    BY <2>1, <2>2, <2>3, <2>4 DEF Load, VerbsInv, TypeOK, Txn, AllSound, AllAudited
<1> QED
  BY <1>1, <1>2

\* What `set` writes is sound, and approved only if what it read was.
LEMMA SetWrites ==
  ASSUME VerbsInv, NEW p \in Proc, NEW target \in Phases, NEW reset \in BOOLEAN,
         SetWrite(p, target, reset)
  PROVE  Sound(state') /\ RowsOf(state') \subseteq audit
<1>1. Sound(seen[p]) /\ RowsOf(seen[p]) \subseteq audit /\ now \in Time
  BY DEF VerbsInv, AllSound, AllAudited, TypeOK
<1>2. CASE ~reset /\ target = seen[p].phase
  BY <1>1, <1>2 DEF SetWrite, SetOutcome
<1>3. CASE ~(~reset /\ target = seen[p].phase)
  <2>1. ValidMove(seen[p], target, reset) /\ state' = SetTo(seen[p], target, reset, now)
    BY <1>3 DEF SetWrite, SetOutcome
  <2>2. PICK st : st = seen[p]
    OBVIOUS
  <2>3. Sound(SetTo(st, target, reset, now)) /\ SetTo(st, target, reset, now).approved = FALSE
    BY <1>1, <2>1, <2>2, SetToIsSound
  <2> QED
    BY <2>1, <2>2, <2>3 DEF RowsOf
<1> QED
  BY <1>2, <1>3

\* What a commit is to install is sound, and is a state.
LEMMA OutcomesAreSound ==
  ASSUME VerbsInv, NEW p \in Proc, NEW st \in Outcomes(seen[p])
  PROVE  Sound(st) /\ st # NoState
<1>1. Sound(seen[p]) /\ WholeSecond(now) \in Time
  BY WholeSecondIsTime DEF VerbsInv, AllSound, TypeOK
<1>2. NoState.phase \notin Phases
  BY NoneAssumption DEF NoState
<1>3. CASE Approvable(seen[p]) /\ st = ApprovedAt(seen[p], WholeSecond(now))
  <2>1. seen[p].phase \in Phases
    BY <1>3 DEF Approvable, Phases
  <2> QED
    BY <1>1, <1>2, <1>3, <2>1, ApprovedIsSound
<1>4. CASE \E target \in Phases : /\ \E reset \in BOOLEAN : Reopenable(seen[p], target, reset)
                                  /\ st = Reopened(seen[p], target)
  <2>1. PICK target \in Phases, reset \in BOOLEAN :
          Reopenable(seen[p], target, reset) /\ st = Reopened(seen[p], target)
    BY <1>4
  <2>2. Sound(st) /\ st.phase = target
    BY <1>1, <2>1, ReopenedIsSound
  <2> QED
    BY <1>2, <2>2
<1> QED
  BY <1>3, <1>4 DEF Outcomes

\* Initially there are no files and nobody has read anything.
LEMMA InitVerbsInv == Init => VerbsInv
  BY NoStateIsSound, NoStateNoRows
  DEF Init, SessionInit, VerbsInv, TypeOK, SessionTypeOK, AllSound, AllAudited, LockHeld,
      Sound, Time, Txn

\* Every step that ends or begins something in process p preserves the
\* invariant, if the lock goes from nobody to p or from p to nobody.
LEMMA ReadersStep ==
  ASSUME VerbsInv, NEW p \in Proc,
         \/ \E label \in {"idle", "written"} : Done(p, label)
         \/ \E label \in {"loaded", "decide"} : Load(p, label),
         SessionTypeOK', UNCHANGED <<tmp, audit, now>>,
         Sound(state'), RowsOf(state') \subseteq audit,
         \/ primary' = primary /\ pc'[p] \notin Txn
         \/ primary = Free0 /\ primary' = p
         \/ primary' = Free0 /\ pc[p] \in Txn /\ pc'[p] \notin Txn
  PROVE  VerbsInv'
<1>1. /\ pc' \in [Proc -> {"idle", "loaded", "written"} \cup Txn]
      /\ seen' \in [Proc -> State]
      /\ \A q \in Proc : Sound(seen'[q]) /\ RowsOf(seen'[q]) \subseteq audit
      /\ \A q \in Proc \ {p} : pc'[q] = pc[q]
      /\ pc'[p] \notin {"append", "replace"}
  BY ReaderStep
<1>2. TypeOK'
  BY <1>1 DEF VerbsInv, TypeOK, Sound
<1>3. AllSound' /\ AllAudited'
  BY <1>1 DEF VerbsInv, AllSound, AllAudited
<1>4. LockHeld'
  BY <1>1, Free0Assumption DEF VerbsInv, LockHeld
<1> QED
  BY <1>2, <1>3, <1>4 DEF VerbsInv

\* `phase set`, and the steps of its lock.
LEMMA SetSide ==
  ASSUME VerbsInv, NEW p \in Proc,
         \/ SetLoad(p) \/ SetAppend(p) \/ SetRefused(p) \/ SessionOnly(p)
         \/ \E target \in Phases, reset \in BOOLEAN : SetWrite(p, target, reset)
  PROVE  VerbsInv'
<1>1. SessionTypeOK'
  BY SessionType DEF VerbsInv, TypeOK, SetLoad, SetWrite, SetAppend, SetRefused, SessionOnly,
     SessionStep, sessionVars
<1>2. Sound(state) /\ RowsOf(state) \subseteq audit
  BY DEF VerbsInv, AllSound, AllAudited
<1>3. CASE SetLoad(p)
  <2>1. pc'[p] = "loaded"
    BY <1>3 DEF SetLoad, Load, VerbsInv, TypeOK
  <2> QED
    BY <1>1, <1>2, <1>3, <2>1, ReadersStep DEF SetLoad, fileVars, Txn
<1>4. CASE SetAppend(p) \/ SetRefused(p) \/ SessionOnly(p)
  <2>1. pc'[p] = "idle" /\ Done(p, "idle")
    BY <1>4 DEF SetAppend, SetRefused, SessionOnly, Done, VerbsInv, TypeOK
  <2> QED
    BY <1>1, <1>2, <1>4, <2>1, ReadersStep DEF SetAppend, SetRefused, SessionOnly, fileVars, Txn
<1>5. CASE \E target \in Phases, reset \in BOOLEAN : SetWrite(p, target, reset)
  <2>1. Sound(state') /\ RowsOf(state') \subseteq audit
    BY <1>5, SetWrites
  <2>2. pc'[p] = "written" /\ Done(p, "written") /\ UNCHANGED <<tmp, audit, now, primary>>
    BY <1>5 DEF SetWrite, Done, VerbsInv, TypeOK
  <2> QED
    BY <1>1, <2>1, <2>2, ReadersStep DEF Txn
<1> QED
  BY <1>3, <1>4, <1>5

\* `phase approve` and `phase reopen`.
LEMMA TxnSide ==
  ASSUME VerbsInv, NEW p \in Proc,
         TxnBegin(p) \/ TxnTmp(p) \/ TxnRefusedByTmp(p) \/ TxnAppend(p) \/ TxnReplace(p)
         \/ TxnStops(p)
  PROVE  VerbsInv'
<1>1. SessionTypeOK'
  BY SessionType DEF VerbsInv, TypeOK, TxnBegin, TxnTmp, TxnRefusedByTmp, TxnAppend,
     TxnReplace, TxnStops
<1>2. Sound(state) /\ RowsOf(state) \subseteq audit
  BY DEF VerbsInv, AllSound, AllAudited
<1>3. CASE TxnBegin(p)
  BY <1>1, <1>2, <1>3, ReadersStep DEF TxnBegin, fileVars
<1>4. CASE TxnRefusedByTmp(p) \/ TxnStops(p)
  <2>1. pc'[p] = "idle" /\ Done(p, "idle") /\ pc[p] \in Txn
    BY <1>4 DEF TxnRefusedByTmp, TxnStops, Done, VerbsInv, TypeOK, Txn
  <2> QED
    BY <1>1, <1>2, <1>4, <2>1, ReadersStep DEF TxnRefusedByTmp, TxnStops, fileVars, Txn
<1>5. CASE TxnTmp(p)
  <2>1. Sound(tmp') /\ tmp' # NoState
    BY <1>5, OutcomesAreSound DEF TxnTmp
  <2>2. pc' = [pc EXCEPT ![p] = "append"] /\ pc[p] = "decide"
        /\ UNCHANGED <<state, audit, now, primary, seen>>
    BY <1>5 DEF TxnTmp
  <2>3. \A q \in Proc \ {p} : pc[q] \notin Txn
    BY <2>2 DEF VerbsInv, LockHeld, Txn
  <2>4. TypeOK' /\ AllSound'
    BY <1>1, <2>1, <2>2 DEF VerbsInv, TypeOK, AllSound, Txn, Sound
  <2>5. AllAudited' /\ LockHeld'
    BY <2>1, <2>2, <2>3 DEF VerbsInv, TypeOK, AllAudited, LockHeld, Txn
  <2> QED
    BY <2>4, <2>5 DEF VerbsInv
<1>6. CASE TxnAppend(p)
  <2>1. /\ pc' = [pc EXCEPT ![p] = "replace"] /\ pc[p] = "append"
        /\ audit' = audit \cup RowsOf(tmp)
        /\ UNCHANGED <<state, tmp, now, primary, seen>>
    BY <1>6 DEF TxnAppend
  <2>2. RowsOf(tmp) \subseteq Row
    BY RowsAreRows DEF VerbsInv, AllSound
  <2>3. TypeOK' /\ AllSound' /\ LockHeld'
    BY <1>1, <2>1, <2>2 DEF VerbsInv, TypeOK, AllSound, LockHeld, Txn
  <2>4. AllAudited'
    BY <2>1 DEF VerbsInv, TypeOK, AllAudited
  <2> QED
    BY <2>3, <2>4 DEF VerbsInv
<1>7. CASE TxnReplace(p)
  <2>1. /\ pc[p] = "replace" /\ state' = tmp /\ tmp' = NoState /\ primary' = Free0
        /\ Done(p, "idle") /\ UNCHANGED <<audit, now>>
    BY <1>7 DEF TxnReplace
  <2>2. /\ pc' \in [Proc -> {"idle", "loaded", "written"} \cup Txn]
        /\ seen' \in [Proc -> State]
        /\ \A q \in Proc : Sound(seen'[q]) /\ RowsOf(seen'[q]) \subseteq audit
        /\ \A q \in Proc \ {p} : pc'[q] = pc[q]
        /\ pc'[p] \notin Txn
    BY <2>1, ReaderStep
  <2>3. \A q \in Proc : pc'[q] \notin Txn
    BY <2>1, <2>2 DEF VerbsInv, LockHeld, Txn
  <2>4. TypeOK' /\ AllSound'
    BY <1>1, <2>1, <2>2, NoStateIsSound DEF VerbsInv, TypeOK, AllSound, Sound
  <2>5. AllAudited' /\ LockHeld'
    BY <2>1, <2>2, <2>3 DEF VerbsInv, AllAudited, LockHeld, Txn
  <2> QED
    BY <2>4, <2>5 DEF VerbsInv
<1> QED
  BY <1>3, <1>4, <1>5, <1>6, <1>7

\* The clock, the agent's edit, and the hand that removes an empty lock file.
LEMMA WorldSide ==
  ASSUME VerbsInv, World \/ ByHand
  PROVE  VerbsInv'
<1>1. SessionTypeOK'
  BY SessionType DEF VerbsInv, TypeOK, World, ByHand
<1>2. UNCHANGED <<tmp, audit, primary, pc, seen>> /\ now' \in Time
  BY DEF World, ByHand, Gate!Tick, Gate!FillPlan, VerbsInv, TypeOK, Time, fileVars
<1>3. Sound(state') /\ RowsOf(state') \subseteq audit
  <2>1. CASE state' = state
    BY <2>1 DEF VerbsInv, AllSound, AllAudited
  <2>2. CASE World /\ Gate!FillPlan
    <3>1. /\ state' \in State /\ state'.contract = TRUE
          /\ state'.phase = state.phase /\ state'.approved = state.approved
          /\ state'.approvedAt = state.approvedAt
      BY <2>2 DEF Gate!FillPlan, VerbsInv, TypeOK, State
    <3> QED
      BY <3>1 DEF VerbsInv, AllSound, AllAudited, Sound, RowsOf
  <2> QED
    BY <2>1, <2>2 DEF World, ByHand, Gate!Tick, fileVars
<1> QED
  BY <1>1, <1>2, <1>3 DEF VerbsInv, TypeOK, AllSound, AllAudited, LockHeld, Sound

\* The invariant is inductive.
LEMMA NextVerbsInv == VerbsInv /\ [Next]_vars => VerbsInv'
<1> SUFFICES ASSUME VerbsInv, [Next]_vars PROVE VerbsInv'
  OBVIOUS
<1>1. CASE UNCHANGED vars
  BY <1>1 DEF vars, VerbsInv, TypeOK, SessionTypeOK, AllSound, AllAudited, LockHeld
<1>2. CASE World \/ ByHand
  BY <1>2, WorldSide
<1>3. CASE \E p \in Proc :
              \/ SetLoad(p) \/ SetAppend(p) \/ SetRefused(p) \/ SessionOnly(p)
              \/ \E target \in Phases, reset \in BOOLEAN : SetWrite(p, target, reset)
  BY <1>3, SetSide
<1>4. CASE \E p \in Proc : TxnBegin(p) \/ TxnTmp(p) \/ TxnRefusedByTmp(p) \/ TxnAppend(p)
                            \/ TxnReplace(p) \/ TxnStops(p)
  BY <1>4, TxnSide
<1> QED
  BY <1>1, <1>2, <1>3, <1>4 DEF Next

\* Every reachable state satisfies the inductive invariant.
THEOREM VerbsInvariant == Spec => []VerbsInv
  BY InitVerbsInv, NextVerbsInv, PTL DEF Spec

-----------------------------------------------------------------------------
\* Overlapping verbs write well-formed files.
THEOREM VerbsTypeCorrect == Spec => []TypeOK
<1>1. VerbsInv => TypeOK
  BY DEF VerbsInv
<1> QED
  BY <1>1, VerbsInvariant, PTL

\* However the verbs overlap, nobody executes without a plan contract.
THEOREM OverlapKeepsContract == Spec => []NoWorkWithoutPlan
<1>1. VerbsInv => NoWorkWithoutPlan
  BY DEF VerbsInv, AllSound, Sound, NoWorkWithoutPlan, Gate!ContractInForce
<1> QED
  BY <1>1, VerbsInvariant, PTL

\* However the verbs overlap, an approval stands only where it can be spent.
THEOREM OverlapKeepsApproval == Spec => []ApprovalIsWellPlaced
<1>1. VerbsInv => ApprovalIsWellPlaced
  BY DEF VerbsInv, AllSound, Sound, ApprovalIsWellPlaced, Gate!ApprovalBelongsToPhase
<1> QED
  BY <1>1, VerbsInvariant, PTL

\* However the verbs overlap and die, every approval is in the audit log.
THEOREM ApprovalsAreAudited == Spec => []ApprovalIsAudited
<1>1. VerbsInv => ApprovalIsAudited
  BY DEF VerbsInv, AllAudited, ApprovalIsAudited
<1> QED
  BY <1>1, VerbsInvariant, PTL

\* Two commits never meet.
THEOREM CommitsExclude == Spec => []CommitIsAlone
<1>1. VerbsInv => CommitIsAlone
  BY DEF VerbsInv, LockHeld, CommitIsAlone, Txn
<1> QED
  BY <1>1, VerbsInvariant, PTL

-----------------------------------------------------------------------------
(* The lock the verbs rely on is the one PhaseLock implements.             *)

Lock == INSTANCE Mutex WITH inside <- {p \in Proc : pc[p] \in Txn}

\* `approve` and `reopen` enter and leave their critical section as the owners
\* of a mutex do, which PhaseLock's acquire_primary and release_primary are
\* shown to be as well: this model of the lock and that one mean the same.
THEOREM VerbsUseMutex == Spec => Lock!Spec
<1> DEFINE Inside == {p \in Proc : pc[p] \in Txn}
<1>1. Init => Inside = {}
  BY DEF Init, Txn
<1>2. VerbsInv /\ [Next]_vars => [Lock!Next]_Inside
  <2> SUFFICES ASSUME VerbsInv, Next, Inside' # Inside
               PROVE  Lock!Next
    BY DEF vars
  <2>1. /\ pc \in [Proc -> {"idle", "loaded", "written"} \cup Txn]
        /\ \A p \in Proc : pc[p] \in Txn => primary = p
    BY DEF VerbsInv, TypeOK, LockHeld
  <2>2. ASSUME NEW p \in Proc, TxnBegin(p) PROVE Lock!Next
    <3>1. Inside = {} /\ Inside' = {p}
      BY <2>1, <2>2, Free0Assumption DEF TxnBegin, Load, Txn
    <3> QED
      BY <3>1 DEF Lock!Next, Lock!Enter
  <2>3. ASSUME NEW p \in Proc,
               \/ SetLoad(p) \/ SetAppend(p) \/ SetRefused(p)
               \/ \E target \in Phases, reset \in BOOLEAN : SetWrite(p, target, reset)
               \/ TxnTmp(p) \/ TxnAppend(p) \/ SessionOnly(p)
        PROVE  FALSE
    <3>1. Inside' = Inside
      BY <2>1, <2>3 DEF SetLoad, SetAppend, SetRefused, SetWrite, TxnTmp, TxnAppend,
         SessionOnly, Load, Done, Txn
    <3> QED
      BY <3>1
  <2>4. ASSUME NEW p \in Proc, TxnRefusedByTmp(p) \/ TxnReplace(p) \/ TxnStops(p)
        PROVE  Lock!Next
    <3>1. pc[p] \in Txn /\ pc' = [pc EXCEPT ![p] = "idle"]
      BY <2>4 DEF TxnRefusedByTmp, TxnReplace, TxnStops, Done, Txn
    <3>2. Inside' = {}
      BY <2>1, <3>1 DEF Txn
    <3> QED
      BY <3>2 DEF Lock!Next, Lock!Exit
  <2>5. ASSUME World \/ ByHand PROVE FALSE
    BY <2>5 DEF World, ByHand
  <2> QED
    BY <2>2, <2>3, <2>4, <2>5 DEF Next
<1> QED
  BY <1>1, <1>2, VerbsInvariant, PTL DEF Spec, Lock!Spec, Lock!Init

-----------------------------------------------------------------------------
(* Verbs that are not overtaken are the verbs of the gate.                 *)

\* What the file that is being committed holds, of the state its verb has read.
Prepared(p) ==
  \/ \E at \in 0 .. MaxTime : Approvable(seen[p]) /\ tmp = ApprovedAt(seen[p], at)
  \/ \E target \in Phases, reset \in BOOLEAN :
       Reopenable(seen[p], target, reset) /\ tmp = Reopened(seen[p], target)

CommitInv ==
  /\ VerbsInv
  /\ now <= MaxTime
  /\ \A p \in Proc : pc[p] \in {"append", "replace"} => Prepared(p)

\* The gate speaks of the same states, moves and outcomes as the verbs.
LEMMA GateOperators ==
  /\ Gate!Phases = Phases
  /\ \A st, target, reset : ValidMove(st, target, reset) => Gate!ValidMove(st, target, reset)
  /\ \A st, target, reset, t : Gate!SetTo(st, target, reset, t) = SetTo(st, target, reset, t)
  /\ \A st : Approvable(st) => Gate!Approvable(st)
  /\ \A st, at : Gate!ApprovedAt(st, at) = ApprovedAt(st, at)
  /\ \A st, target, reset : Reopenable(st, target, reset) => Gate!Reopenable(st, target, reset)
  /\ \A st, target : Gate!Reopened(st, target) = Reopened(st, target)
<1>1. Gate!Phases = Phases
  BY DEF Phases, Gate!Phases
<1>2. ASSUME NEW st, NEW target, NEW reset, ValidMove(st, target, reset)
      PROVE  Gate!ValidMove(st, target, reset)
  <2>1. Gate!Gated = Gated /\ Gate!Backward = Backward /\ Gate!Free = Free
    BY DEF Gate!Gated, Gated, Gate!Backward, Backward, Gate!Free, Free
  <2>2. Gate!Floor(st) = Floor(st)
    BY DEF Gate!Floor, Floor
  <2>3. Fresh(st) => Gate!Fresh(st)
    BY <2>2 DEF Gate!Fresh, Fresh
  <2> QED
    BY <1>2, <2>1, <2>3 DEF Gate!ValidMove, ValidMove
<1>3. ASSUME NEW st, NEW target, NEW reset, NEW t
      PROVE  Gate!SetTo(st, target, reset, t) = SetTo(st, target, reset, t)
  <2>1. \A x : Gate!Unapproved(x) = Unapproved(x)
    BY DEF Gate!Unapproved, Unapproved
  <2>2. \A x : Gate!Stamped(x, target, t) = Stamped(x, target, t)
    BY DEF Gate!Stamped, Stamped
  <2> QED
    BY <2>1, <2>2 DEF Gate!SetTo, SetTo
<1>4. \A st : Approvable(st) => Gate!Approvable(st)
  BY DEF Gate!Approvable, Approvable
<1>5. \A st, at : Gate!ApprovedAt(st, at) = ApprovedAt(st, at)
  BY DEF Gate!ApprovedAt, ApprovedAt
<1>6. \A st, target, reset : Reopenable(st, target, reset) => Gate!Reopenable(st, target, reset)
  BY DEF Gate!Reopenable, Reopenable
<1>7. \A st, target : Gate!Reopened(st, target) = Reopened(st, target)
  BY DEF Gate!Reopened, Reopened, Gate!Unapproved, Unapproved
<1> QED
  BY <1>1, <1>2, <1>3, <1>4, <1>5, <1>6, <1>7

\* The second of a time is not after it.
LEMMA WholeSecondInTime ==
  ASSUME now \in Nat, now <= MaxTime
  PROVE  WholeSecond(now) \in 0 .. MaxTime
<1>1. now % TicksPerSecond \in 0 .. TicksPerSecond - 1
  BY TicksAssumption
<1>2. WholeSecond(now) \in Nat
  BY WholeSecondIsTime DEF Time
<1> QED
  BY <1>1, <1>2, TicksAssumption, MaxTimeAssumption DEF WholeSecond

\* A step that leaves the tmp file alone leaves what is prepared alone.
LEMMA PreparedStays ==
  ASSUME CommitInv, tmp' = tmp, now' <= MaxTime, VerbsInv',
         \A p \in Proc : pc'[p] \in {"append", "replace"} =>
           pc[p] \in {"append", "replace"} /\ seen'[p] = seen[p]
  PROVE  CommitInv'
  BY DEF CommitInv, Prepared

\* Only who holds the primary lock prepares a file, and it is his own.
LEMMA NextCommitInv == CommitInv /\ [Next]_vars => CommitInv'
<1> SUFFICES ASSUME CommitInv, [Next]_vars PROVE CommitInv'
  OBVIOUS
<1>1. VerbsInv /\ VerbsInv' /\ now \in Nat /\ now <= MaxTime /\ MaxTime \in Nat
  BY NextVerbsInv, MaxTimeAssumption DEF CommitInv, VerbsInv, TypeOK, Time
<1>2. pc \in [Proc -> {"idle", "loaded", "written"} \cup Txn] /\ seen \in [Proc -> State]
  BY <1>1 DEF VerbsInv, TypeOK
<1>3. CASE World
  <2>1. UNCHANGED <<tmp, pc, seen>> /\ now' <= MaxTime
    BY <1>1, <1>3 DEF World, Gate!Tick, Gate!FillPlan
  <2> QED
    BY <1>1, <2>1, PreparedStays
<1>4. CASE ByHand \/ UNCHANGED vars
  BY <1>1, <1>4, PreparedStays DEF ByHand, vars, fileVars
<1>5. ASSUME NEW p \in Proc, UNCHANGED <<tmp, now>>,
             \E label \in {"idle", "written"} : Done(p, label)
      PROVE  CommitInv'
  <2>1. \A q \in Proc : pc'[q] \in {"append", "replace"} => q # p /\ pc'[q] = pc[q] /\ seen'[q] = seen[q]
    BY <1>2, <1>5 DEF Done
  <2> QED
    BY <1>1, <1>5, <2>1, PreparedStays
<1>6. ASSUME NEW p \in Proc, UNCHANGED <<tmp, now>>,
             \E label \in {"loaded", "decide"} : Load(p, label)
      PROVE  CommitInv'
  <2>1. \A q \in Proc : pc'[q] \in {"append", "replace"} => q # p /\ pc'[q] = pc[q] /\ seen'[q] = seen[q]
    BY <1>2, <1>6 DEF Load
  <2> QED
    BY <1>1, <1>6, <2>1, PreparedStays
<1>7. ASSUME NEW p \in Proc,
             \/ SetLoad(p) \/ SetAppend(p) \/ SetRefused(p) \/ SessionOnly(p) \/ TxnBegin(p)
             \/ TxnRefusedByTmp(p) \/ TxnStops(p)
             \/ \E target \in Phases, reset \in BOOLEAN : SetWrite(p, target, reset)
      PROVE  CommitInv'
  BY <1>5, <1>6, <1>7 DEF SetLoad, SetAppend, SetRefused, SessionOnly, TxnBegin, TxnRefusedByTmp,
     TxnStops, SetWrite, fileVars
<1>8. ASSUME NEW p \in Proc, TxnTmp(p)
      PROVE  CommitInv'
  <2>1. /\ tmp = NoState /\ tmp' \in Outcomes(seen[p]) /\ pc' = [pc EXCEPT ![p] = "append"]
        /\ UNCHANGED <<seen, now>>
    BY <1>8 DEF TxnTmp
  <2>2. \A q \in Proc \ {p} : pc'[q] \notin {"append", "replace"}
    BY <1>1, <1>2, <2>1 DEF VerbsInv, LockHeld
  <2>3. WholeSecond(now) \in 0 .. MaxTime
    BY <1>1, WholeSecondInTime
  <2>4. Prepared(p)'
    BY <2>1, <2>3 DEF Outcomes, Prepared
  <2> QED
    BY <1>1, <2>1, <2>2, <2>4 DEF CommitInv
<1>9. ASSUME NEW p \in Proc, TxnAppend(p)
      PROVE  CommitInv'
  <2>1. UNCHANGED <<tmp, seen, now>> /\ pc[p] = "append" /\ pc' = [pc EXCEPT ![p] = "replace"]
    BY <1>9 DEF TxnAppend
  <2>2. \A q \in Proc : pc'[q] \in {"append", "replace"} => pc[q] \in {"append", "replace"}
    BY <1>2, <2>1
  <2> QED
    BY <1>1, <2>1, <2>2, PreparedStays
<1>10. ASSUME NEW p \in Proc, TxnReplace(p)
       PROVE  CommitInv'
  <2>1. tmp' = NoState /\ now' = now
    BY <1>10 DEF TxnReplace
  <2>2. \A q \in Proc : pc'[q] \notin {"append", "replace"}
    BY <1>1, <2>1 DEF VerbsInv, LockHeld
  <2> QED
    BY <1>1, <2>1, <2>2 DEF CommitInv
<1> QED
  BY <1>3, <1>4, <1>7, <1>8, <1>9, <1>10 DEF Next

\* Every reachable state satisfies it.
THEOREM CommitInvariant == Spec => []CommitInv
<1>1. Init => CommitInv
  BY InitVerbsInv, MaxTimeAssumption DEF Init, CommitInv
<1> QED
  BY <1>1, NextCommitInv, PTL DEF Spec

\* A verb that was not overtaken between its read and its write is one step of
\* the gate, or none (_do_phase_set, commit_transaction).
THEOREM AtomicTheorem == Spec => VerbsAreAtomic
<1>1. ASSUME CommitInv, Next,
             \A p \in Proc : Writes(p) /\ pc'[p] # pc[p] => seen[p] = state
      PROVE  UNCHANGED Gate!vars \/ Gate!Next
  <2>1. pc \in [Proc -> {"idle", "loaded", "written"} \cup Txn]
    BY <1>1 DEF CommitInv, VerbsInv, TypeOK
  <2>2. CASE World
    BY <2>2 DEF World, Gate!Next
  <2>3. ASSUME NEW p \in Proc, NEW target \in Phases, NEW reset \in BOOLEAN,
               SetWrite(p, target, reset), state' # state
        PROVE  Gate!Next
    <3>1. seen[p] = state
      <4>1. pc[p] = "loaded" /\ pc'[p] = "written"
        BY <2>1, <2>3 DEF SetWrite, Done
      <4> QED
        BY <1>1, <2>3, <4>1 DEF Writes
    <3>2. ~(~reset /\ target = state.phase)
      BY <2>3, <3>1 DEF SetWrite, SetOutcome
    <3>3. /\ ValidMove(state, target, reset) /\ state' = SetTo(state, target, reset, now)
          /\ now' = now
      BY <2>3, <3>1, <3>2 DEF SetWrite, SetOutcome
    <3>4. Gate!Set(target, reset)
      BY <3>2, <3>3, GateOperators DEF Gate!Set
    <3> QED
      BY <3>4, GateOperators DEF Gate!Next
  <2>4. ASSUME NEW p \in Proc, TxnReplace(p), state' # state
        PROVE  Gate!Next
    <3>1. seen[p] = state
      <4>1. pc[p] = "replace" /\ pc'[p] = "idle"
        BY <2>1, <2>4 DEF TxnReplace, Done
      <4> QED
        BY <1>1, <2>4, <4>1 DEF Writes
    <3>2. Prepared(p) /\ state' = tmp /\ now' = now
      BY <1>1, <2>4 DEF TxnReplace, CommitInv
    <3>3. CASE \E at \in 0 .. MaxTime : Approvable(seen[p]) /\ tmp = ApprovedAt(seen[p], at)
      BY <3>1, <3>2, <3>3, GateOperators DEF Gate!Approve, Gate!Next
    <3>4. CASE \E target \in Phases, reset \in BOOLEAN :
                 Reopenable(seen[p], target, reset) /\ tmp = Reopened(seen[p], target)
      BY <3>1, <3>2, <3>4, GateOperators DEF Gate!Reopen, Gate!Next
    <3> QED
      BY <3>2, <3>3, <3>4 DEF Prepared
  <2>5. CASE ByHand \/ \E p \in Proc :
               \/ SetLoad(p) \/ SetAppend(p) \/ SetRefused(p) \/ TxnBegin(p) \/ TxnTmp(p)
               \/ TxnRefusedByTmp(p) \/ TxnAppend(p) \/ TxnStops(p) \/ SessionOnly(p)
    <3>1. UNCHANGED <<state, now>>
      BY <2>5 DEF ByHand, SetLoad, SetAppend, SetRefused, TxnBegin, TxnTmp, TxnRefusedByTmp,
         TxnAppend, TxnStops, SessionOnly, fileVars
    <3> QED
      BY <3>1 DEF Gate!vars
  <2>6. \A p \in Proc : TxnReplace(p) \/ (\E target \in Phases, reset \in BOOLEAN :
                                            SetWrite(p, target, reset)) => now' = now
    BY DEF TxnReplace, SetWrite
  <2> QED
    BY <1>1, <2>2, <2>3, <2>4, <2>5, <2>6 DEF Next, Gate!vars
<1>2. CommitInv /\ [Next]_vars =>
        [(\A p \in Proc : Writes(p) /\ pc'[p] # pc[p] => seen[p] = state) =>
           UNCHANGED Gate!vars \/ Gate!Next]_vars
  BY <1>1
<1> QED
  BY <1>2, CommitInvariant, PTL DEF Spec, VerbsAreAtomic
=============================================================================
