----------------------------- MODULE PhaseState ------------------------------
(***************************************************************************)
(* The phase state that `.scratch/phase-state.json` holds, the transition  *)
(* validator and what each verb does to the state: transition.py,          *)
(* phase_state.py and the state-changing part of `phase set`,              *)
(* `phase approve` and `phase reopen`.                                     *)
(*                                                                         *)
(* Times are ticks of the clock of `phase set` (nanoseconds, compared at   *)
(* microsecond precision); `phase approve` stamps whole seconds.           *)
(***************************************************************************)
EXTENDS Integers

CONSTANTS
  None,             \* JSON null, or a missing state file
  TicksPerSecond    \* ticks of the fine clock in one second

Phases == {"discuss", "plan", "execute", "done"}
Time == Nat

ASSUME NoneAssumption == None \notin Phases \cup Int
ASSUME TicksAssumption == TicksPerSecond \in Nat \ {0}

\* `contract`: the plan contract is filled in, that is, verification and
\* allowed_paths are both there and non-empty.
State == [phase : Phases \cup {None}, approved : BOOLEAN, approvedAt : Time \cup {None},
          planAt : Time \cup {None}, execAt : Time \cup {None}, contract : BOOLEAN]

\* No state file: _load_state answers ({}, None).
NoState == [phase |-> None, approved |-> FALSE, approvedAt |-> None, planAt |-> None,
            execAt |-> None, contract |-> FALSE]

-----------------------------------------------------------------------------
(* The validator.                                                          *)

\* TRANSITION_TABLE: the rows that require an approval, the rows that require
\* --reset-approval, and the rows that require neither.
Gated == {<<"plan", "execute">>, <<"execute", "done">>}
Backward == {<<"plan", "discuss">>, <<"execute", "plan">>, <<"execute", "discuss">>,
             <<"done", "discuss">>, <<"done", "plan">>, <<"done", "execute">>}
Free == {<<None, "discuss">>, <<"discuss", "plan">>, <<"done", "done">>}

\* The time an approval must not predate, per phase in which it can be spent.
Floor(st) == IF st.phase = "plan" THEN st.planAt
             ELSE IF st.phase = "execute" THEN st.execAt ELSE None

\* Both stamps are there and approved_at is not before the floor.
Fresh(st) == /\ st.approvedAt # None
             /\ Floor(st) # None
             /\ st.approvedAt >= Floor(st)

\* Mutant of ValidMove: only the table is consulted.
ValidMoveTableOnly(st, target, reset) ==
  LET edge == <<st.phase, target>> IN
  /\ edge \in Gated \cup Backward \cup Free
  /\ edge \in Gated => st.approved
  /\ edge \in Backward => reset

\* validate_transition and validate_transition_with_state accept the move.
ValidMove(st, target, reset) ==
  LET edge == <<st.phase, target>> IN
  /\ edge \in Gated \cup Backward \cup Free
  /\ edge \in Gated => st.approved /\ Fresh(st)
  /\ edge = <<"plan", "execute">> => st.contract
  /\ edge \in Backward => reset

-----------------------------------------------------------------------------
(* What the verbs write.                                                   *)

\* The approval triplet of a state without approval.
Unapproved(st) == [st EXCEPT !.approved = FALSE, !.approvedAt = None]

\* stamp_transition_timestamps.
Stamped(st, target, now) ==
  CASE target = "plan"    -> [st EXCEPT !.planAt = now]
    [] target = "execute" -> [st EXCEPT !.execAt = now]
    [] OTHER              -> st

\* Mutant of SetTo: the approval that opened execute is kept for done.
SetToKeepsApproval(st, target, reset, now) ==
  LET moved == Stamped([st EXCEPT !.phase = target], target, now)
  IN  IF reset THEN Unapproved(moved) ELSE moved

\* The state `phase set target` writes once the move is valid: the approval is
\* dropped on --reset-approval and when it has been spent on a gated edge.
SetTo(st, target, reset, now) ==
  LET moved == Stamped([st EXCEPT !.phase = target], target, now)
      spent == st.phase \in {"plan", "execute"} /\ target \in {"execute", "done"}
               /\ st.approved
  IN  IF reset \/ spent THEN Unapproved(moved) ELSE moved

\* now_iso_z: the current second.
WholeSecond(now) == now - (now % TicksPerSecond)

\* Mutant of Approvable: only a plan is approved.
ApprovablePlan(st) == st.phase = "plan" /\ ~st.approved

\* run_approve goes on to the prompt: there is a state, nothing is approved
\* yet, and the phase is one that carries approval.
Approvable(st) == st.phase \in {"plan", "execute"} /\ ~st.approved

\* The state `phase approve` writes; `at` is the --at option or now_iso_z().
ApprovedAt(st, at) == [st EXCEPT !.approved = TRUE, !.approvedAt = at]

\* run_reopen's guards: a state file, the source phase, and --reset-approval
\* when an approval would be revoked.
Reopenable(st, target, reset) ==
  /\ st.phase # None
  /\ target \in {"plan", "discuss"}
  /\ target = "plan" => st.phase \in {"execute", "done"}
  /\ st.approved => reset

\* The state `phase reopen` writes: approval and attempt clock are cleared and
\* the plan contract is moved to the drafts, where it is not in force.
\* plan_finalized_at stays.
Reopened(st, target) ==
  [Unapproved(st) EXCEPT !.phase = target, !.execAt = None, !.contract = FALSE]
=============================================================================
