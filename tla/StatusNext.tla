----------------------------- MODULE StatusNext ------------------------------
(***************************************************************************)
(* What `harness status`, `harness next` and `harness run` make of the     *)
(* phase state: status_next.py and status_next_cli.py.  status and next    *)
(* only read, so they are operators on the state of PhaseGate; they decide *)
(* anew, with comparisons of their own, what the validator decides when a  *)
(* verb runs.  run is a sequence of verbs.                                 *)
(***************************************************************************)
EXTENDS PhaseGate

\* The other fields of the state file that a reader asks for.  "pointers" are
\* state_path, plan_path, checkpoint_path, current_checkpoint and next_action,
\* which are asked for together; "verification" and "allowed_paths" are the two
\* halves of the plan contract.
Fields == {"plan_id", "pointers", "summary", "acceptance_criteria", "review",
           "verification", "allowed_paths"}

\* The fields that may be filled in.  No verb demands or clears any but the two of
\* the contract; `phase set --stdin-json`, in any phase, and edits of the file
\* fill and empty the others.
Fillings(st) ==
  {filled \in SUBSET Fields : {"verification", "allowed_paths"} \subseteq filled
                                <=> st.contract}

\* state.get("phase", "discuss"): no state file reads as discuss.
Shown(st) == IF st.phase = None THEN "discuss" ELSE st.phase

\* Mutant of ApprovedFresh: the plan's stamp is the baseline of both phases.
ApprovedFreshSincePlan(st) ==
  /\ st.approved
  /\ Shown(st) \in {"plan", "execute"} =>
       None \notin {st.approvedAt, st.planAt} /\ ~(st.approvedAt < st.planAt)

\* _approved_fresh for the phase shown.
ApprovedFresh(st) ==
  LET baseline == IF Shown(st) = "execute" THEN st.execAt ELSE st.planAt IN
  /\ st.approved
  /\ Shown(st) \in {"plan", "execute"} =>
       None \notin {st.approvedAt, baseline} /\ ~(st.approvedAt < baseline)

\* compute_next_action: the verb and the phase it names.
NextAction(st) ==
  CASE Shown(st) = "discuss"                      -> <<"set", "plan">>
    [] Shown(st) = "plan" /\ ApprovedFresh(st)    -> <<"set", "execute">>
    [] Shown(st) = "plan" /\ ~ApprovedFresh(st)   -> <<"approve", "plan">>
    [] Shown(st) = "execute" /\ ApprovedFresh(st) -> <<"set", "done">>
    [] Shown(st) = "execute" /\ ~ApprovedFresh(st) -> <<"reopen", "plan">>
    [] OTHER                                      -> <<"nothing", None>>

\* compute_next: an agent may run the command by itself.
AgentSafe(st) ==
  \/ Shown(st) = "discuss"
  \/ Shown(st) \in {"plan", "execute"} /\ ApprovedFresh(st)

\* _compute_projected_execute_gate_valid.
ProjectedGate(st) == Shown(st) = "execute" /\ ApprovedFresh(st)

\* The units in which a time may have been written: that of the last digit, in
\* ticks.  `phase approve` writes whole seconds and --at takes any text; 0 stands
\* for digits below a tick, which only the comparison of strings sees.
UnitsOf(at) == {u \in 0 .. TicksPerSecond : at = None \/ u = 0 \/ at % u = 0}

\* a >= b as strings, a written in the unit and b with all digits: of two texts
\* that agree the shorter one goes on with Z, which sorts after point and digits.
\* Below a tick, where a and b agree, this is the lesser of two possible answers;
\* the other is that for unit 1.
TextNotBefore(a, b, unit) ==
  IF unit = 0 THEN a > b ELSE a \div unit >= b \div unit

\* Mutant of MayEdit: an approval is enough.
MayEditApproved(st, unit) == Shown(st) = "execute" /\ st.approved

\* _may_edit of the machine interface.
MayEdit(st, unit) ==
  /\ Shown(st) = "execute"
  /\ st.approved
  /\ None \notin {st.approvedAt, st.execAt}
  /\ TextNotBefore(st.approvedAt, st.execAt, unit)

\* What planning_status warns of in the phase state by itself; `completed`: the
\* active checkpoint's file says that it is done.  (approved_by is written and
\* cleared together with approved_at.)
PlanningWarnings(st, filled, completed) ==
  {code \in {"stale_execute_approval", "completed_checkpoint_execute_approval",
             "missing_approval_metadata", "missing_plan_id", "empty_allowed_paths",
             "empty_acceptance_criteria", "empty_verification"} :
    IF code = "stale_execute_approval" THEN st.phase = "done" /\ st.approved
    ELSE /\ st.phase = "execute"
         /\ \/ code = "completed_checkpoint_execute_approval" /\ completed
            \/ code = "missing_approval_metadata" /\ st.approved /\ st.approvedAt = None
            \/ code = "missing_plan_id" /\ "plan_id" \notin filled
            \/ code = "empty_allowed_paths" /\ "allowed_paths" \notin filled
            \/ code = "empty_acceptance_criteria" /\ "acceptance_criteria" \notin filled
            \/ code = "empty_verification" /\ "verification" \notin filled}

\* _execute_gate of planning_status, the documents (PlanningDocs) being in
\* order: it does not compare times.
PlanningGate(st, filled, completed) ==
  /\ st.phase = "execute"
  /\ st.approved
  /\ "plan_id" \in filled
  /\ st.approvedAt # None
  /\ PlanningWarnings(st, filled, completed) = {}

\* check_phase_state_semantics accepts the state file.
CheckAccepts(st, filled) ==
  CASE st.phase = "discuss" -> ~st.approved
    [] st.phase = "plan"    -> /\ {"plan_id", "summary", "pointers", "acceptance_criteria",
                                   "verification"} \subseteq filled
                               /\ ~st.approved
    [] st.phase = "execute" -> /\ {"plan_id", "allowed_paths", "verification",
                                   "pointers"} \subseteq filled
                               /\ st.approved /\ st.approvedAt # None
    [] st.phase = "done"    -> /\ {"plan_id", "pointers"} \subseteq filled
                               /\ filled \cap {"verification", "review"} # {}
    [] OTHER                -> FALSE

-----------------------------------------------------------------------------
(* What a refused `phase set` tells people to do.                          *)

\* Why `phase set target` is refused, each reason with a remedy of its own in the
\* message; it reports the first that it meets.  `automated`: the environment sets
\* HARNESS_AUTOMATION to a mode, which no state carries any more; `divergent`: the
\* plan's id or the pointers are not filled in.  Setting the phase one is in is
\* else refused in done only, where they must be.
Refusals(st, target, reset, divergent, automated) ==
  LET edge == <<st.phase, target>> IN
  {why \in {"automation", "divergent_done", "undefined", "needs_approval", "needs_reset",
            "contract_missing", "floor_missing", "approval_predates"} :
    \/ why = "automation" /\ automated
    \/ /\ why = "divergent_done"
       /\ edge = <<"done", "done">> /\ ~reset /\ divergent
    \/ /\ target = st.phase => reset
       /\ \/ why = "undefined" /\ edge \notin Gated \cup Backward \cup Free
          \/ why = "needs_approval" /\ edge \in Gated /\ ~st.approved
          \/ why = "needs_reset" /\ edge \in Backward /\ ~reset
          \/ why = "contract_missing" /\ edge = <<"plan", "execute">> /\ ~st.contract
          \/ why = "floor_missing" /\ edge \in Gated /\ Floor(st) = None
          \/ why = "approval_predates" /\ edge \in Gated /\ st.approved /\ ~Fresh(st)}

\* The state once the remedy has been taken: `phase approve`, in the second at;
\* --reset-approval is an option of the next try; the plan contract is filled
\* in; `phase approve` "after the latest plan edit", which is refused nothing and
\* does nothing while there is an approval.  `phase autopilot start` is no verb
\* any more, and `state repair` does not write the phase state.
Remedied(st, why, at) ==
  CASE why \in {"needs_approval", "approval_predates"} ->
         IF Approvable(st) THEN ApprovedAt(st, at) ELSE st
    [] why = "contract_missing" -> [st EXCEPT !.contract = TRUE]
    [] OTHER -> st

-----------------------------------------------------------------------------
(* `harness next` and `harness run`.                                       *)

\* What `harness next` without options tells people to do: harness run when the
\* next step is agent-safe, otherwise the verb.
Told(st) ==
  IF AgentSafe(st) THEN "harness run" ELSE NextAction(st)[1]

\* requires_user_approval of the machine interface, which then names no command.
RequiresApproval(st, unit) ==
  Shown(st) \in {"plan", "execute"} /\ ~MayEdit(st, unit)

\* What the first command of harness run, `phase set discuss`, leaves: in discuss
\* it is refused nothing and changes nothing.
Prepared(st) == IF st.phase = None THEN SetTo(st, "discuss", FALSE, now) ELSE st

\* harness run: `phase set discuss`, then `phase set plan`, each a command of
\* its own, when the phase shown is discuss.  In every other phase it prints.
HarnessRun ==
  /\ Shown(state) = "discuss"
  /\ IF state.phase = None THEN Set("discuss", FALSE) ELSE Set("plan", FALSE)

StatusSpec == Init /\ [][Next \/ HarnessRun]_vars

-----------------------------------------------------------------------------
(* Properties.                                                             *)

\* What `harness next` calls safe for an agent is accepted by the validator,
\* which compares the times in code of its own; the plan contract, which only
\* the validator looks at, must be there for execute.  In a fresh repository
\* that holds of harness run, which goes to discuss first, and not of the verb.
SafeCommandAccepted ==
  LET target == NextAction(state)[2] IN
  AgentSafe(state) =>
    /\ state.phase = None => ValidMove(state, "discuss", FALSE)
    /\ (target = "execute" => state.contract) => ValidMove(Prepared(state), target, FALSE)

\* The three answers to "may the agent edit?" go from strict to lax: the gate
\* of `harness status`, may_edit of the machine interface, which compares
\* strings, and the planning projection, which does not compare times at all.
\* The first two differ only for an approval that is written to no more digits
\* than it shares with the stamp of execute, or to digits below those that are
\* compared; the third refuses more only for what no verb demands: the plan's id,
\* its acceptance criteria and a checkpoint that is not done yet.  What it lets
\* through, `harness check` does, when the pointers are there.
\* So do the two answers to "is it the user's turn?": where `harness next` sends
\* for the user the machine interface asks for an approval, and it asks for one
\* too many only in plan, where an approved plan is told to wait, but for the same
\* two ways to write a time.
ProjectionsAgree ==
  LET units == UnitsOf(state.approvedAt)
      CutShort(unit) ==
        /\ unit # 0 /\ None \notin {state.approvedAt, state.execAt}
        /\ state.approvedAt = state.execAt - (state.execAt % unit)
      TooFine(unit) == unit = 0 /\ state.approvedAt = state.execAt
  IN
  /\ \A unit \in units :
       /\ ProjectedGate(state) => MayEdit(state, unit) \/ TooFine(unit)
       /\ MayEdit(state, unit) => ProjectedGate(state) \/ CutShort(unit)
       /\ (Told(state) \in {"approve", "reopen"} /\ ~RequiresApproval(state, unit)) =>
            CutShort(unit)
       /\ (Told(state) = "harness run" /\ RequiresApproval(state, unit)) =>
            state.phase = "plan" \/ TooFine(unit)
  /\ \A filled \in Fillings(state), completed \in BOOLEAN :
       /\ (PlanningGate(state, filled, completed) /\ "pointers" \in filled) =>
            CheckAccepts(state, filled)
       /\ (/\ \E unit \in units : MayEdit(state, unit)
          /\ {"plan_id", "acceptance_criteria"} \subseteq filled /\ ~completed) =>
            PlanningGate(state, filled, completed)

\* `harness check`, which agents are told to start with, refuses no state that
\* the verbs lead to and in which the fields are filled that it asks for and no
\* verb does, but for a plan that is unfinished or already approved and for an
\* execute that waits for its approval.  It never misses the plan contract in
\* execute or done.
CheckRefusesOnlyPending ==
  \A filled \in Fillings(state) :
    (/\ state.phase # None /\ ~CheckAccepts(state, filled)
     /\ {"plan_id", "pointers", "summary", "acceptance_criteria"} \subseteq filled) =>
      \/ state.phase = "plan" /\ (state.approved \/ "verification" \notin filled)
      \/ state.phase = "execute" /\ ~state.approved

\* Taking the remedy that a refused `phase set` names removes the reason, once
\* the second in which the phase was entered is over, and brings up no other one:
\* whoever follows the messages gets through.  There are three exceptions.  An
\* approval that predates its phase: the message asks to approve again, approve
\* does nothing then, and only a way back out of the phase helps.  A done state
\* with fields missing: `state repair` leaves it so, and only `phase set done
\* --reset-approval` takes the values.  HARNESS_AUTOMATION: nothing is accepted
\* while it is set.
RemediesHelp ==
  LET at == WholeSecond(now) + TicksPerSecond
      helpless == {"undefined", "approval_predates", "divergent_done", "automation"}
  IN
  \A target \in Phases, reset \in BOOLEAN, divergent \in BOOLEAN, automated \in BOOLEAN :
    LET refusals == Refusals(state, target, reset, divergent, automated)
        Left(why) == Refusals(Remedied(state, why, at), target, reset \/ why = "needs_reset",
                              divergent, automated)
    IN
    /\ "floor_missing" \notin refusals
    /\ "undefined" \in refusals =>
         \E t \in Phases : Refusals(state, t, TRUE, divergent, FALSE) = {}
    /\ \A why \in refusals \ helpless : Left(why) \subseteq refusals \ {why}
    /\ "approval_predates" \in refusals =>
         /\ Remedied(state, "approval_predates", at) = state
         /\ Refusals(state, "discuss", TRUE, divergent, FALSE) = {}
    /\ "divergent_done" \in refusals =>
         /\ "divergent_done" \in Left("divergent_done")
         /\ Refusals(state, "done", TRUE, divergent, FALSE) = {}
=============================================================================
