------------------------------ MODULE PhaseGate ------------------------------
(***************************************************************************)
(* The phase gate as the verbs see it when each of them runs alone: one    *)
(* action per verb, on the state file as a whole.  PhaseVerbs takes the    *)
(* verbs apart.                                                            *)
(*                                                                         *)
(* Verbs that are refused, or that write the same phase state again (`phase*)
(* set` of the current phase, `phase set done` in done, `phase approve`    *)
(* when already approved), leave the state as it is: they stutter here.    *)
(***************************************************************************)
EXTENDS PhaseState

CONSTANTS
  AtTimes,    \* what people pass as `phase approve --at`, besides nothing
  MaxTime     \* bound on the clock

ASSUME AtAssumption == AtTimes \subseteq Time
ASSUME MaxTimeAssumption == MaxTime \in Nat

VARIABLES
  state,   \* the contents of .scratch/phase-state.json
  now      \* the wall clock

vars == <<state, now>>

TypeOK == state \in State /\ now \in Time

Init == state = NoState /\ now = 0

\* The clock advances.
Tick == now < MaxTime /\ now' = now + 1 /\ UNCHANGED state

\* harness phase set <target> [--reset-approval].
Set(target, reset) ==
  /\ reset \/ target # state.phase
  /\ ValidMove(state, target, reset)
  /\ state' = SetTo(state, target, reset, now)
  /\ UNCHANGED now

\* harness phase approve [--at <time>], answered with y.
Approve(at) ==
  /\ Approvable(state)
  /\ state' = ApprovedAt(state, at)
  /\ UNCHANGED now

\* harness phase reopen --to <target> [--reset-approval].
Reopen(target, reset) ==
  /\ Reopenable(state, target, reset)
  /\ state' = Reopened(state, target)
  /\ UNCHANGED now

\* The agent writes the plan's verification commands and path globs into the
\* state file while planning.  No verb does: the validator's remediation asks
\* for the edit.
FillPlan ==
  /\ state.phase = "plan"
  /\ state' = [state EXCEPT !.contract = TRUE]
  /\ UNCHANGED now

Next ==
  \/ Tick
  \/ \E target \in Phases, reset \in BOOLEAN : Set(target, reset) \/ Reopen(target, reset)
  \/ \E at \in AtTimes \cup {WholeSecond(now)} : Approve(at)
  \/ FillPlan

Spec == Init /\ [][Next]_vars

-----------------------------------------------------------------------------
(* Properties.                                                             *)

\* The gate implements the promised workflow: execute and done are entered
\* over a gated edge only with an approval given in that very stay in the
\* phase, an approval opens one edge, and every other move revokes it.
Promise == INSTANCE Workflow WITH phase <- state.phase, granted <- state.approved
ImplementsWorkflow == Promise!Spec

\* Whoever executes has a plan contract: verification commands and allowed
\* paths are in force in execute and done, whatever loops of reopen, reset and
\* done -> execute led there.
ContractInForce ==
  state.phase \in {"execute", "done"} => state.contract

\* The validator never meets a missing floor: whatever verb entered plan or
\* execute, the stamp that an approval is compared with is there and is not
\* in the future.
FloorStamped ==
  state.phase \in {"plan", "execute"} => Floor(state) # None /\ Floor(state) <= now

\* An approval is stored only where it can be spent, and always with its time.
ApprovalBelongsToPhase ==
  /\ state.approved <=> state.approvedAt # None
  /\ state.approved => state.phase \in {"plan", "execute"}

\* Work starts and ends only on an approval that is not older than the plan or
\* the attempt it is for.
GatedMoveIsFresh ==
  [][(<<state.phase, state'.phase>> \in Gated) =>
       state.approvedAt # None /\ state.approvedAt >= Floor(state)]_vars
=============================================================================
