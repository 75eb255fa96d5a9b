--------------------------- MODULE PhaseGateProofs ---------------------------
(***************************************************************************)
(* The gate keeps its promise for every clock, every precision of the      *)
(* approval stamp and every --at value, and what the readers of the phase  *)
(* state say of it holds: each of them decides by itself what the          *)
(* validator will decide, and the pre-commit hook, which decides for git,  *)
(* lets nothing pass that is out of scope.  The hook file itself keeps     *)
(* what the user has in it, whatever its lines are and however long it is. *)
(***************************************************************************)
EXTENDS StatusNext, CommitScope, SequenceTheorems, WellFoundedInduction, TLAPS

\* plan_finalized_at survives until the next plan: every phase after discuss
\* has it, which is what lets `phase reopen --to plan` leave it alone.
PlanStampKept ==
  state.phase \in {"plan", "execute", "done"} => state.planAt # None /\ state.planAt <= now

AttemptStamped == state.phase = "execute" => state.execAt # None /\ state.execAt <= now

GateInv ==
  /\ TypeOK
  /\ ContractInForce
  /\ ApprovalBelongsToPhase
  /\ PlanStampKept
  /\ AttemptStamped

-----------------------------------------------------------------------------
\* The whole second of a time is a time.
LEMMA WholeSecondIsTime ==
  ASSUME NEW t \in Time
  PROVE  WholeSecond(t) \in Time
<1>1. TicksPerSecond \in Nat \ {0}
  BY TicksAssumption
<1>2. t % TicksPerSecond \in 0 .. TicksPerSecond - 1
  BY <1>1 DEF Time
<1>3. t = TicksPerSecond * (t \div TicksPerSecond) + (t % TicksPerSecond)
  BY <1>1 DEF Time
<1> QED
  BY <1>1, <1>2, <1>3 DEF Time, WholeSecond

\* The initial state, with no state file, satisfies the invariant.
LEMMA InitGateInv == Init => GateInv
  BY NoneAssumption DEF Init, NoState, GateInv, TypeOK, State, Time, ContractInForce,
     ApprovalBelongsToPhase, PlanStampKept, AttemptStamped, Phases

\* `phase set` preserves the invariant.
LEMMA SetStep ==
  ASSUME GateInv, NEW target \in Phases, NEW reset \in BOOLEAN, Set(target, reset)
  PROVE  GateInv'
<1> USE NoneAssumption DEF GateInv, Set, ValidMove, Gated, Backward, Free, Phases
<1>1. state' \in State /\ now' = now
  BY DEF SetTo, Stamped, Unapproved, TypeOK, State
<1>2. state'.phase = target
  BY DEF SetTo, Stamped, Unapproved, TypeOK, State
<1>3. state'.contract = state.contract
  BY DEF SetTo, Stamped, Unapproved, TypeOK, State
<1>4. /\ state'.planAt = IF target = "plan" THEN now ELSE state.planAt
      /\ state'.execAt = IF target = "execute" THEN now ELSE state.execAt
  BY DEF SetTo, Stamped, Unapproved, TypeOK, State
<1>5. ~state'.approved /\ state'.approvedAt = None
  <2>1. CASE reset \/ (state.phase \in {"plan", "execute"} /\ target \in {"execute", "done"}
                        /\ state.approved)
    BY <2>1 DEF SetTo, Unapproved, Stamped, TypeOK, State
  <2>2. CASE ~reset /\ ~state.approved
    BY <2>2 DEF SetTo, Unapproved, Stamped, TypeOK, State, ApprovalBelongsToPhase
  <2>3. CASE ~reset /\ state.approved
                    /\ ~(state.phase \in {"plan", "execute"} /\ target \in {"execute", "done"})
    BY <2>3 DEF ApprovalBelongsToPhase
  <2> QED
    BY <2>1, <2>2, <2>3
<1>6. ContractInForce'
  BY <1>2, <1>3 DEF ContractInForce
<1>7. PlanStampKept' /\ AttemptStamped'
  BY <1>1, <1>2, <1>4 DEF PlanStampKept, AttemptStamped, TypeOK, Time
<1> QED
  BY <1>1, <1>5, <1>6, <1>7 DEF TypeOK, ApprovalBelongsToPhase

\* `phase approve` preserves the invariant.
LEMMA ApproveStep ==
  ASSUME GateInv, NEW at \in Time, Approve(at)
  PROVE  GateInv'
<1> USE NoneAssumption DEF GateInv, Approve, Approvable, ApprovedAt, Time
<1>1. TypeOK'
  BY DEF TypeOK, State
<1>2. ContractInForce' /\ PlanStampKept' /\ AttemptStamped'
  BY DEF TypeOK, State, ContractInForce, PlanStampKept, AttemptStamped
<1>3. ApprovalBelongsToPhase'
  BY DEF TypeOK, State, ApprovalBelongsToPhase
<1> QED
  BY <1>1, <1>2, <1>3

\* `phase reopen` preserves the invariant.
LEMMA ReopenStep ==
  ASSUME GateInv, NEW target \in Phases, NEW reset \in BOOLEAN, Reopen(target, reset)
  PROVE  GateInv'
<1> USE NoneAssumption DEF GateInv, Reopen, Reopenable, Phases
<1>1. state' \in State /\ now' = now
  BY DEF Reopened, Unapproved, TypeOK, State
<1>2. /\ state'.phase = target
      /\ ~state'.approved /\ state'.approvedAt = None
      /\ state'.planAt = state.planAt
  BY DEF Reopened, Unapproved, TypeOK, State
<1> QED
  BY <1>1, <1>2 DEF TypeOK, ContractInForce, ApprovalBelongsToPhase, PlanStampKept,
     AttemptStamped

\* The clock and the agent's plan edit preserve the invariant.
LEMMA WorldStep ==
  ASSUME GateInv, Tick \/ FillPlan
  PROVE  GateInv'
<1> USE NoneAssumption DEF GateInv
<1>1. CASE Tick
  BY <1>1 DEF Tick, TypeOK, State, Time, ContractInForce, ApprovalBelongsToPhase,
     PlanStampKept, AttemptStamped
<1>2. CASE FillPlan
  <2>2. state' \in State /\ now' = now
    BY <1>2 DEF FillPlan, TypeOK, State
  <2>3. /\ state'.phase = state.phase /\ state'.approved = state.approved
        /\ state'.approvedAt = state.approvedAt /\ state'.planAt = state.planAt
        /\ state'.execAt = state.execAt
    BY <1>2 DEF FillPlan, TypeOK, State
  <2> QED
    BY <1>2, <2>2, <2>3 DEF FillPlan, TypeOK, ContractInForce, ApprovalBelongsToPhase,
       PlanStampKept, AttemptStamped
<1> QED
  BY <1>1, <1>2

\* The invariant is inductive.
LEMMA NextGateInv == GateInv /\ [Next]_vars => GateInv'
<1> SUFFICES ASSUME GateInv, [Next]_vars PROVE GateInv'
  OBVIOUS
<1>1. CASE \E target \in Phases, reset \in BOOLEAN : Set(target, reset) \/ Reopen(target, reset)
  BY <1>1, SetStep, ReopenStep
<1>2. CASE \E at \in AtTimes \cup {WholeSecond(now)} : Approve(at)
  BY <1>2, ApproveStep, WholeSecondIsTime, AtAssumption DEF GateInv, TypeOK
<1>3. CASE Tick \/ FillPlan
  BY <1>3, WorldStep
<1>4. CASE UNCHANGED vars
  BY <1>4 DEF vars, GateInv, TypeOK, ContractInForce, ApprovalBelongsToPhase,
     PlanStampKept, AttemptStamped
<1> QED
  BY <1>1, <1>2, <1>3, <1>4 DEF Next

\* Every reachable state satisfies the inductive invariant.
THEOREM GateInvariant == Spec => []GateInv
  BY InitGateInv, NextGateInv, PTL DEF Spec

-----------------------------------------------------------------------------
\* The verbs write well-formed states.
THEOREM GateTypeCorrect == Spec => []TypeOK
<1>1. GateInv => TypeOK
  BY DEF GateInv
<1> QED
  BY <1>1, GateInvariant, PTL

\* No execute or done without a plan contract.
THEOREM ContractHolds == Spec => []ContractInForce
<1>1. GateInv => ContractInForce
  BY DEF GateInv
<1> QED
  BY <1>1, GateInvariant, PTL

\* The stamp an approval is compared with is never missing.
THEOREM FloorHolds == Spec => []FloorStamped
<1>1. GateInv => FloorStamped
  BY DEF GateInv, PlanStampKept, AttemptStamped, FloorStamped, Floor
<1> QED
  BY <1>1, GateInvariant, PTL

\* Approvals exist only where they can be spent.
THEOREM ApprovalHolds == Spec => []ApprovalBelongsToPhase
<1>1. GateInv => ApprovalBelongsToPhase
  BY DEF GateInv
<1> QED
  BY <1>1, GateInvariant, PTL

\* A gated edge is taken on a fresh approval only.
THEOREM GatedMovesHold == Spec => GatedMoveIsFresh
<1> DEFINE FreshMove == (<<state.phase, state'.phase>> \in Gated) =>
             state.approvedAt # None /\ state.approvedAt >= Floor(state)
<1>1. GateInv /\ [Next]_vars => [FreshMove]_vars
  <2> SUFFICES ASSUME GateInv, Next, <<state.phase, state'.phase>> \in Gated
               PROVE  state.approvedAt # None /\ state.approvedAt >= Floor(state)
    OBVIOUS
  <2>1. CASE \E target \in Phases, reset \in BOOLEAN : Set(target, reset)
    <3>1. PICK target \in Phases, reset \in BOOLEAN : Set(target, reset)
      BY <2>1
    <3>2. state'.phase = target
      BY <3>1 DEF Set, SetTo, Stamped, Unapproved, GateInv, TypeOK, State
    <3> QED
      BY <3>1, <3>2 DEF Set, ValidMove, Fresh
  <2>2. CASE \E target \in Phases, reset \in BOOLEAN : Reopen(target, reset)
    <3>1. state'.phase \in {"plan", "discuss"}
      BY <2>2 DEF Reopen, Reopenable, Reopened, Unapproved, GateInv, TypeOK, State
    <3> QED
      BY <3>1 DEF Gated
  <2>3. CASE Tick \/ FillPlan \/ (\E at \in AtTimes \cup {WholeSecond(now)} : Approve(at))
    <3>1. state'.phase = state.phase
      BY <2>3 DEF Tick, FillPlan, Approve, ApprovedAt, GateInv, TypeOK, State
    <3> QED
      BY <3>1 DEF Gated
  <2> QED
    BY <2>1, <2>2, <2>3 DEF Next
<1> QED
  BY <1>1, GateInvariant, PTL DEF Spec, GatedMoveIsFresh

-----------------------------------------------------------------------------
\* The gate implements the workflow: every verb is one of its moves.
THEOREM GateImplementsWorkflow == Spec => ImplementsWorkflow
<1>1. Init => Promise!Init
  BY DEF Init, NoState, Promise!Init
<1>2. GateInv /\ GateInv' /\ [Next]_vars => [Promise!Next]_Promise!vars
  <2> SUFFICES ASSUME GateInv, GateInv', [Next]_vars
               PROVE  [Promise!Next]_Promise!vars
    OBVIOUS
  <2>1. CASE \E target \in Phases, reset \in BOOLEAN : Set(target, reset)
    <3>1. PICK target \in Phases, reset \in BOOLEAN : Set(target, reset)
      BY <2>1
    <3>2. state'.phase = target
      BY <3>1 DEF Set, SetTo, Stamped, Unapproved, GateInv, TypeOK, State
    <3>3. <<state.phase, target>> \in Gated \cup Backward \cup Free
      BY <3>1 DEF Set, ValidMove
    <3>4. <<state.phase, target>> \in Gated => state.approved = TRUE
      BY <3>1 DEF Set, ValidMove, GateInv, TypeOK, State
    <3>5. state'.approved = FALSE
      BY <3>1, <3>2, <3>3 DEF Set, SetTo, Stamped, Unapproved, GateInv, TypeOK, State,
         ApprovalBelongsToPhase, Gated, Backward, Free, ValidMove
    <3>6. CASE <<state.phase, target>> \in Gated
      BY <3>2, <3>4, <3>5, <3>6 DEF Gated, Promise!Next, Promise!Advance
    <3>7. CASE <<state.phase, target>> \in Backward
      BY <3>2, <3>5, <3>7 DEF Backward, Promise!Next, Promise!GoBack
    <3>8. CASE <<state.phase, target>> \in {<<None, "discuss">>, <<"discuss", "plan">>}
      BY <3>2, <3>5, <3>8 DEF Promise!Next, Promise!Begin
    <3>9. CASE state.phase = "done" /\ target = "done"
      <4>1. state.approved = FALSE
        BY <3>9 DEF GateInv, ApprovalBelongsToPhase, TypeOK, State
      <4> QED
        BY <3>2, <3>5, <3>9, <4>1 DEF Promise!vars
    <3> QED
      BY <3>3, <3>6, <3>7, <3>8, <3>9 DEF Free
  <2>2. CASE \E target \in Phases, reset \in BOOLEAN : Reopen(target, reset)
    <3>1. PICK target \in {"plan", "discuss"} :
            /\ target = "plan" => state.phase \in {"execute", "done"}
            /\ state.phase # None
            /\ state' = Reopened(state, target)
      BY <2>2 DEF Reopen, Reopenable
    <3>2. state'.phase = target /\ state'.approved = FALSE
      BY <3>1 DEF Reopened, Unapproved, GateInv, TypeOK, State
    <3>3. state.phase \in Phases
      BY <3>1 DEF GateInv, TypeOK, State
    <3> QED
      BY <3>1, <3>2, <3>3 DEF Phases, Promise!Next, Promise!GoBack
  <2>3. CASE \E at \in AtTimes \cup {WholeSecond(now)} : Approve(at)
    <3>1. /\ state'.phase = state.phase /\ state'.approved = TRUE
          /\ state.phase \in {"plan", "execute"}
      BY <2>3 DEF Approve, Approvable, ApprovedAt, GateInv, TypeOK, State
    <3> QED
      BY <3>1 DEF Promise!Next, Promise!Approve
  <2>4. CASE Tick \/ FillPlan \/ UNCHANGED vars
    <3>1. state'.phase = state.phase /\ state'.approved = state.approved
      BY <2>4 DEF Tick, FillPlan, vars, GateInv, TypeOK, State
    <3> QED
      BY <3>1 DEF Promise!vars
  <2> QED
    BY <2>1, <2>2, <2>3, <2>4 DEF Next
<1> QED
  BY <1>1, <1>2, GateInvariant, PTL DEF Spec, ImplementsWorkflow, Promise!Spec

-----------------------------------------------------------------------------
(* status, next, run and check, which read the state the gate writes.      *)

\* harness run takes no step that phase set does not take.
LEMMA RunIsSet == [Next \/ HarnessRun]_vars => [Next]_vars
<1> SUFFICES ASSUME HarnessRun PROVE Next
  OBVIOUS
<1>1. {"discuss", "plan"} \subseteq Phases
  BY DEF Phases
<1>2. \E target \in Phases : Set(target, FALSE)
  BY <1>1 DEF HarnessRun
<1> QED
  BY <1>2 DEF Next

\* What holds of the gate holds with harness run among the verbs.
THEOREM StatusIsGate == StatusSpec => Spec
  BY RunIsSet, PTL DEF StatusSpec, Spec

\* The invariant of the gate also holds with harness run.
THEOREM StatusGateInvariant == StatusSpec => []GateInv
  BY StatusIsGate, GateInvariant, PTL

\* A state that the verbs lead to has its floor, and it is not in the future.
LEMMA FloorIsPast ==
  ASSUME GateInv, state.phase \in {"plan", "execute"}
  PROVE  Floor(state) \in Time /\ Floor(state) <= now
  BY DEF GateInv, TypeOK, State, PlanStampKept, AttemptStamped, Floor, Time

\* The freshness that status and next compute is the validator's.
LEMMA SameFreshness ==
  ASSUME GateInv, state.phase \in {"plan", "execute"}, ApprovedFresh(state)
  PROVE  state.approved /\ Fresh(state)
<1>1. Shown(state) = state.phase
  BY NoneAssumption DEF Shown, Phases
<1>2. state.approvedAt \in Time
  BY <1>1 DEF ApprovedFresh, GateInv, TypeOK, State
<1> QED
  BY <1>1, <1>2, FloorIsPast DEF ApprovedFresh, Fresh, Floor, Time

\* What `harness next` calls safe for an agent, the validator accepts.
THEOREM SafeCommandsHold == StatusSpec => []SafeCommandAccepted
<1>1. ASSUME GateInv PROVE SafeCommandAccepted
  <2> USE <1>1
  <2>1. CASE state.phase = None
    BY <2>1, NoneAssumption DEF SafeCommandAccepted, NextAction, Shown, Prepared, SetTo, Stamped,
       Unapproved, ValidMove, Free, Gated, Backward, GateInv, TypeOK, State, Phases
  <2>2. CASE state.phase = "discuss"
    BY <2>2, NoneAssumption DEF SafeCommandAccepted, NextAction, Shown, Prepared,
       ValidMove, Free, Gated, Backward, Phases
  <2>3. CASE state.phase = "plan"
    BY <2>3, NoneAssumption, SameFreshness DEF SafeCommandAccepted, AgentSafe, NextAction, Shown,
       Prepared, ValidMove, Free, Gated, Backward, Phases
  <2>4. CASE state.phase = "execute"
    BY <2>4, NoneAssumption, SameFreshness DEF SafeCommandAccepted, AgentSafe, NextAction, Shown,
       Prepared, ValidMove, Free, Gated, Backward, Phases
  <2>5. CASE state.phase = "done"
    BY <2>5, NoneAssumption DEF SafeCommandAccepted, AgentSafe, Shown, Phases
  <2> QED
    BY <2>1, <2>2, <2>3, <2>4, <2>5 DEF GateInv, TypeOK, State, Phases
<1> QED
  BY <1>1, StatusGateInvariant, PTL

\* harness check refuses of what the verbs lead to, once the other fields are
\* filled in, only what is pending.
THEOREM CheckHolds == StatusSpec => []CheckRefusesOnlyPending
<1>1. ASSUME GateInv PROVE CheckRefusesOnlyPending
  <2> SUFFICES ASSUME NEW filled \in Fillings(state),
                      state.phase # None, ~CheckAccepts(state, filled),
                      {"plan_id", "pointers", "summary", "acceptance_criteria"} \subseteq filled
               PROVE  \/ state.phase = "plan" /\ (state.approved \/ "verification" \notin filled)
                      \/ state.phase = "execute" /\ ~state.approved
    BY DEF CheckRefusesOnlyPending
  <2>1. {"verification", "allowed_paths"} \subseteq filled <=> state.contract
    BY DEF Fillings
  <2>2. state.phase \in {"execute", "done"} => {"verification", "allowed_paths"} \subseteq filled
    BY <1>1, <2>1 DEF GateInv, ContractInForce
  <2>3. state.phase \in Phases
    BY <1>1 DEF GateInv, TypeOK, State
  <2>4. /\ state.approved \in BOOLEAN
        /\ state.approved => state.approvedAt # None /\ state.phase \in {"plan", "execute"}
    BY <1>1 DEF GateInv, TypeOK, State, ApprovalBelongsToPhase
  <2>5. CASE state.phase = "discuss"
    BY <2>4, <2>5 DEF CheckAccepts
  <2>6. CASE state.phase = "plan"
    BY <2>6 DEF CheckAccepts
  <2>7. CASE state.phase = "execute"
    BY <2>2, <2>4, <2>7 DEF CheckAccepts
  <2>8. CASE state.phase = "done"
    BY <2>2, <2>8 DEF CheckAccepts
  <2> QED
    BY <2>3, <2>5, <2>6, <2>7, <2>8 DEF Phases
<1> QED
  BY <1>1, StatusGateInvariant, PTL

-----------------------------------------------------------------------------
\* The next second begins after now.
LEMMA NextSecond ==
  ASSUME NEW t \in Time
  PROVE  /\ WholeSecond(t) + TicksPerSecond \in Time
         /\ WholeSecond(t) + TicksPerSecond > t
<1>1. TicksPerSecond \in Nat \ {0}
  BY TicksAssumption
<1>2. t % TicksPerSecond \in 0 .. TicksPerSecond - 1
  BY <1>1 DEF Time
<1> QED
  BY <1>1, <1>2, WholeSecondIsTime DEF Time, WholeSecond

\* Everybody gets back to discuss.
LEMMA WayOut ==
  ASSUME GateInv, state.phase # "discuss", NEW divergent \in BOOLEAN
  PROVE  Refusals(state, "discuss", TRUE, divergent, FALSE) = {}
<1>1. <<state.phase, "discuss">> \notin Gated
  BY DEF Gated
<1>2. <<state.phase, "discuss">> \in Backward \cup Free
  BY DEF Backward, Free, GateInv, TypeOK, State, Phases
<1>3. <<state.phase, "discuss">> # <<"plan", "execute">>
  OBVIOUS
<1> QED
  BY <1>1, <1>2, <1>3 DEF Refusals

\* An approval of the next second is good for the phase it is given in.
LEMMA ApprovalHelps ==
  ASSUME GateInv, NEW at \in Time, at > now, NEW target \in Phases, NEW reset \in BOOLEAN,
         NEW divergent \in BOOLEAN, NEW automated \in BOOLEAN,
         "needs_approval" \in Refusals(state, target, reset, divergent, automated)
  PROVE  Refusals(Remedied(state, "needs_approval", at), target, reset, divergent, automated)
           \subseteq Refusals(state, target, reset, divergent, automated) \ {"needs_approval"}
<1> DEFINE next == ApprovedAt(state, at)
<1>1. state.phase \in {"plan", "execute"} /\ ~state.approved
  BY DEF Refusals, Gated
<1>2. Remedied(state, "needs_approval", at) = next
  BY <1>1 DEF Remedied, Approvable
<1>3. /\ next.phase = state.phase /\ next.approved /\ next.approvedAt = at
      /\ next.planAt = state.planAt /\ next.execAt = state.execAt
      /\ next.contract = state.contract
  BY DEF ApprovedAt, GateInv, TypeOK, State
<1>4. Floor(next) = Floor(state)
  BY <1>3 DEF Floor
<1>5. Fresh(next)
  BY <1>1, <1>3, <1>4, FloorIsPast, NoneAssumption DEF Fresh, Time, GateInv, TypeOK
<1> HIDE DEF next
<1>6. Refusals(next, target, reset, divergent, automated)
        \subseteq Refusals(state, target, reset, divergent, automated) \ {"needs_approval"}
  BY <1>3, <1>4, <1>5 DEF Refusals
<1> QED
  BY <1>2, <1>6

\* Filling in the plan contract changes nothing else.
LEMMA ContractHelps ==
  ASSUME GateInv, NEW at \in Time, NEW target \in Phases, NEW reset \in BOOLEAN,
         NEW divergent \in BOOLEAN, NEW automated \in BOOLEAN,
         "contract_missing" \in Refusals(state, target, reset, divergent, automated)
  PROVE  Refusals(Remedied(state, "contract_missing", at), target, reset, divergent, automated)
           \subseteq Refusals(state, target, reset, divergent, automated) \ {"contract_missing"}
<1> DEFINE next == [state EXCEPT !.contract = TRUE]
<1>1. Remedied(state, "contract_missing", at) = next
  BY DEF Remedied
<1>2. /\ next.phase = state.phase /\ next.approved = state.approved
      /\ next.approvedAt = state.approvedAt
      /\ next.planAt = state.planAt /\ next.execAt = state.execAt /\ next.contract
  BY DEF GateInv, TypeOK, State
<1>3. Floor(next) = Floor(state) /\ (Fresh(next) <=> Fresh(state))
  BY <1>2 DEF Floor, Fresh
<1> HIDE DEF next
<1>4. Refusals(next, target, reset, divergent, automated)
        \subseteq Refusals(state, target, reset, divergent, automated) \ {"contract_missing"}
  BY <1>2, <1>3 DEF Refusals
<1> QED
  BY <1>1, <1>4

\* The remedies of refusals help, but for those of an approval that predates its
\* phase, of a done state with fields missing, and of HARNESS_AUTOMATION.
THEOREM RemediesHold == StatusSpec => []RemediesHelp
<1> DEFINE at == WholeSecond(now) + TicksPerSecond
           helpless == {"undefined", "approval_predates", "divergent_done", "automation"}
<1>1. ASSUME GateInv, at \in Time, at > now,
             NEW target \in Phases, NEW reset \in BOOLEAN,
             NEW divergent \in BOOLEAN, NEW automated \in BOOLEAN
      PROVE  LET refusals == Refusals(state, target, reset, divergent, automated)
                 Left(why) == Refusals(Remedied(state, why, at), target,
                                       reset \/ why = "needs_reset", divergent, automated)
             IN
             /\ "floor_missing" \notin refusals
             /\ "undefined" \in refusals =>
                  \E t \in Phases : Refusals(state, t, TRUE, divergent, FALSE) = {}
             /\ \A why \in refusals \ helpless : Left(why) \subseteq refusals \ {why}
             /\ "approval_predates" \in refusals =>
                  /\ Remedied(state, "approval_predates", at) = state
                  /\ Refusals(state, "discuss", TRUE, divergent, FALSE) = {}
             /\ "divergent_done" \in refusals =>
                  /\ "divergent_done" \in Left("divergent_done")
                  /\ Refusals(state, "done", TRUE, divergent, FALSE) = {}
  <2> DEFINE refusals == Refusals(state, target, reset, divergent, automated)
             Left(why) == Refusals(Remedied(state, why, at), target,
                                   reset \/ why = "needs_reset", divergent, automated)
  <2> HIDE DEF at
  <2> USE <1>1
  <2>1. "floor_missing" \notin refusals
    <3>1. <<state.phase, target>> \in Gated => state.phase \in {"plan", "execute"}
      BY DEF Gated
    <3> QED
      BY <3>1, FloorIsPast, NoneAssumption DEF Refusals, Time
  <2>2. \E t \in Phases : Refusals(state, t, TRUE, divergent, FALSE) = {}
    <3>1. CASE state.phase = "discuss"
      <4>1. Refusals(state, "plan", TRUE, divergent, FALSE) = {}
        BY <3>1 DEF Refusals, Gated, Backward, Free
      <4> QED
        BY <4>1 DEF Phases
    <3>2. CASE state.phase # "discuss"
      <4>1. Refusals(state, "discuss", TRUE, divergent, FALSE) = {}
        BY <3>2, WayOut
      <4> QED
        BY <4>1 DEF Phases
    <3> QED
      BY <3>1, <3>2
  <2>3. ASSUME NEW why \in refusals \ helpless
        PROVE  Left(why) \subseteq refusals \ {why}
    <3>1. why \in {"needs_approval", "needs_reset", "contract_missing"}
      BY <2>1, <2>3 DEF Refusals
    <3>2. CASE why = "needs_approval"
      <4>1. Left(why) = Refusals(Remedied(state, "needs_approval", at), target, reset,
                                 divergent, automated)
        BY <3>2
      <4> QED
        BY <2>3, <3>2, <4>1, ApprovalHelps
    <3>3. CASE why = "needs_reset"
      <4>1. Remedied(state, why, at) = state /\ <<state.phase, target>> \in Backward
        BY <2>3, <3>3 DEF Remedied, Refusals
      <4>2. Left(why) = Refusals(state, target, TRUE, divergent, automated)
        BY <3>3, <4>1
      <4>3. "needs_reset" \notin Refusals(state, target, TRUE, divergent, automated)
        BY DEF Refusals
      <4>4. target # state.phase
        BY <4>1 DEF Backward
      <4>5. Refusals(state, target, TRUE, divergent, automated) \subseteq refusals
        BY <4>4 DEF Refusals
      <4> QED
        BY <3>3, <4>2, <4>3, <4>5
    <3>4. CASE why = "contract_missing"
      <4>1. Left(why) = Refusals(Remedied(state, "contract_missing", at), target, reset,
                                 divergent, automated)
        BY <3>4
      <4> QED
        BY <2>3, <3>4, <4>1, ContractHelps
    <3> QED
      BY <3>1, <3>2, <3>3, <3>4
  <2>4. "approval_predates" \in refusals => Remedied(state, "approval_predates", at) = state
    BY DEF Refusals, Remedied, Approvable
  <2>5. "approval_predates" \in refusals => Refusals(state, "discuss", TRUE, divergent, FALSE) = {}
    BY WayOut DEF Refusals, Gated
  <2>6. ASSUME "divergent_done" \in refusals
        PROVE  /\ "divergent_done" \in Left("divergent_done")
               /\ Refusals(state, "done", TRUE, divergent, FALSE) = {}
    <3>1. <<state.phase, target>> = <<"done", "done">> /\ ~reset /\ divergent
      BY <2>6 DEF Refusals
    <3>2. Remedied(state, "divergent_done", at) = state
      BY DEF Remedied
    <3>3. Left("divergent_done") = refusals
      BY <3>1, <3>2
    <3>4. Refusals(state, "done", TRUE, divergent, FALSE) = {}
      BY <3>1 DEF Refusals, Gated, Backward, Free
    <3> QED
      BY <2>6, <3>3, <3>4
  <2> QED
    BY <2>1, <2>2, <2>3, <2>4, <2>5, <2>6
<1>2. GateInv => RemediesHelp
  <2> SUFFICES ASSUME GateInv PROVE RemediesHelp
    OBVIOUS
  <2>1. at \in Time /\ at > now
    BY NextSecond DEF GateInv, TypeOK
  <2> QED
    BY <1>1, <2>1 DEF RemediesHelp
<1> QED
  BY <1>2, StatusGateInvariant, PTL

-----------------------------------------------------------------------------
\* Division, as what the provers need to know of it.
LEMMA Division ==
  ASSUME NEW t \in Time, NEW unit \in Nat \ {0}
  PROVE  /\ t \div unit \in Nat
         /\ t % unit \in 0 .. unit - 1
         /\ t = unit * (t \div unit) + (t % unit)
  BY DEF Time

\* A product grows with its factor.
LEMMA TimesGrows ==
  ASSUME NEW n \in Nat, NEW q \in Nat, NEW r \in Nat, q < r
  PROVE  n * q + n <= n * r
<1>1. PICK d \in Nat : r = q + 1 + d
  <2>1. r - q - 1 \in Nat /\ r = q + 1 + (r - q - 1)
    OBVIOUS
  <2> QED
    BY <2>1
<1>2. n * r = n * q + n + n * d
  BY <1>1
<1>3. n * d \in Nat /\ n * q \in Nat
  OBVIOUS
<1> QED
  BY <1>2, <1>3

\* Compared as strings, a time that was written to a unit and is not before another
\* one still is not; and one that only seems not to be is the start of the other's
\* unit.
LEMMA TextComparison ==
  ASSUME NEW a \in Time, NEW b \in Time, NEW unit \in Nat \ {0}, a % unit = 0
  PROVE  /\ a >= b => TextNotBefore(a, b, unit)
         /\ TextNotBefore(a, b, unit) => a >= b \/ a = b - (b % unit)
<1> DEFINE q == a \div unit
           r == b \div unit
           y == b % unit
<1>1. /\ q \in Nat /\ r \in Nat /\ y \in 0 .. unit - 1
      /\ a = unit * q /\ b = unit * r + y
  <2>1. a = unit * q + 0
    BY Division
  <2>2. unit * q \in Nat
    BY Division
  <2> QED
    BY <2>1, <2>2, Division
<1>2. TextNotBefore(a, b, unit) <=> q >= r
  BY DEF TextNotBefore
<1> HIDE DEF q, r, y
<1>3. unit * q \in Nat /\ unit * r \in Nat
  BY <1>1
<1>4. ASSUME q < r PROVE a < b
  <2>1. unit * q + unit <= unit * r
    BY <1>1, <1>4, TimesGrows
  <2> QED
    BY <1>1, <1>3, <2>1
<1>5. ASSUME r < q PROVE b < a
  <2>1. unit * r + unit <= unit * q
    BY <1>1, <1>5, TimesGrows
  <2> QED
    BY <1>1, <1>3, <2>1
<1>6. a >= b => q >= r
  BY <1>1, <1>3, <1>4
<1>7. ASSUME a < b, q >= r PROVE a = b - y
  <2>1. q = r
    BY <1>1, <1>3, <1>5, <1>7
  <2> QED
    BY <1>1, <1>3, <2>1
<1>8. q >= r => a >= b \/ a = b - y
  BY <1>1, <1>3, <1>7
<1> QED
  BY <1>2, <1>6, <1>8 DEF y

\* An approval of execute for which the state has all the fields passes the gate of
\* the planning projection, and what passes it passes check.
LEMMA PlanningIsLax ==
  ASSUME GateInv, NEW filled \in Fillings(state), NEW completed \in BOOLEAN
  PROVE  /\ (/\ state.phase = "execute" /\ state.approved /\ state.approvedAt # None
             /\ {"plan_id", "acceptance_criteria"} \subseteq filled /\ ~completed) =>
              PlanningGate(state, filled, completed)
         /\ (PlanningGate(state, filled, completed) /\ "pointers" \in filled) =>
              CheckAccepts(state, filled)
<1>1. state.phase = "execute" => {"verification", "allowed_paths"} \subseteq filled
  BY DEF GateInv, ContractInForce, Fillings
<1>2. state.phase = "execute" => state.phase # "done"
  OBVIOUS
<1>3. ASSUME state.phase = "execute", state.approved, state.approvedAt # None,
             {"plan_id", "acceptance_criteria"} \subseteq filled, ~completed
      PROVE  PlanningGate(state, filled, completed)
  <2>1. PlanningWarnings(state, filled, completed) = {}
    BY <1>1, <1>3 DEF PlanningWarnings
  <2> QED
    BY <1>3, <2>1 DEF PlanningGate
<1>4. ASSUME PlanningGate(state, filled, completed), "pointers" \in filled
      PROVE  CheckAccepts(state, filled)
  BY <1>1, <1>4 DEF PlanningGate, CheckAccepts
<1> QED
  BY <1>3, <1>4

\* The answers to "may the agent edit?" and "is it the user's turn?" differ for
\* times written to fewer digits than the stamp of execute, or to more than are
\* compared, and for what no verb demands; and nowhere else.
THEOREM ProjectionsHold == StatusSpec => []ProjectionsAgree
<1> DEFINE CutShort(unit) ==
             /\ unit # 0 /\ None \notin {state.approvedAt, state.execAt}
             /\ state.approvedAt = state.execAt - (state.execAt % unit)
           TooFine(unit) == unit = 0 /\ state.approvedAt = state.execAt
           Answers(unit) ==
             /\ ProjectedGate(state) => MayEdit(state, unit) \/ TooFine(unit)
             /\ MayEdit(state, unit) => ProjectedGate(state) \/ CutShort(unit)
             /\ (Told(state) \in {"approve", "reopen"} /\ ~RequiresApproval(state, unit)) =>
                  CutShort(unit)
             /\ (Told(state) = "harness run" /\ RequiresApproval(state, unit)) =>
                  state.phase = "plan" \/ TooFine(unit)
<1>1. ASSUME GateInv, NEW unit \in UnitsOf(state.approvedAt)
      PROVE  /\ MayEdit(state, unit) =>
                  state.phase = "execute" /\ state.approved /\ state.approvedAt # None
             /\ Answers(unit)
  <2> USE <1>1
  <2>1. CASE state.phase = "execute" /\ state.approved
    <3>1. /\ Shown(state) = "execute"
          /\ state.approvedAt \in Time /\ state.execAt \in Time
      BY <2>1, NoneAssumption DEF Shown, Phases, GateInv, TypeOK, State, AttemptStamped,
         ApprovalBelongsToPhase
    <3>2. None \notin {state.approvedAt, state.execAt}
      BY <3>1, NoneAssumption DEF Time
    <3>3. ApprovedFresh(state) <=> state.approvedAt >= state.execAt
      BY <2>1, <3>1, <3>2 DEF ApprovedFresh, Time
    <3>4. MayEdit(state, unit) <=> TextNotBefore(state.approvedAt, state.execAt, unit)
      BY <2>1, <3>1, <3>2 DEF MayEdit
    <3>5. ProjectedGate(state) <=> ApprovedFresh(state)
      BY <3>1 DEF ProjectedGate
    <3>6. RequiresApproval(state, unit) <=> ~MayEdit(state, unit)
      BY <3>1 DEF RequiresApproval
    <3>7. IF ApprovedFresh(state) THEN Told(state) = "harness run" ELSE Told(state) = "reopen"
      BY <3>1 DEF Told, AgentSafe, NextAction
    <3>8. /\ ApprovedFresh(state) => MayEdit(state, unit) \/ TooFine(unit)
          /\ MayEdit(state, unit) => ApprovedFresh(state) \/ CutShort(unit)
      <4>1. CASE unit = 0
        BY <3>1, <3>3, <3>4, <4>1 DEF TextNotBefore, Time
      <4>2. CASE unit # 0
        <5>1. unit \in Nat \ {0} /\ state.approvedAt % unit = 0
          BY <3>2, <4>2, TicksAssumption DEF UnitsOf
        <5>2. /\ state.approvedAt >= state.execAt =>
                   TextNotBefore(state.approvedAt, state.execAt, unit)
              /\ TextNotBefore(state.approvedAt, state.execAt, unit) =>
                   \/ state.approvedAt >= state.execAt
                   \/ state.approvedAt = state.execAt - (state.execAt % unit)
          BY <3>1, <5>1, TextComparison
        <5> QED
          BY <3>2, <3>3, <3>4, <4>2, <5>2
      <4> QED
        BY <4>1, <4>2
    <3> QED
      BY <2>1, <3>2, <3>5, <3>6, <3>7, <3>8
  <2>2. CASE ~(state.phase = "execute" /\ state.approved)
    <3>1. ~MayEdit(state, unit) /\ ~ProjectedGate(state)
      BY <2>2, NoneAssumption DEF MayEdit, ProjectedGate, ApprovedFresh, Shown, Phases
    <3>2. CASE state.phase = "execute"
      <4>1. Shown(state) = "execute" /\ ~ApprovedFresh(state)
        BY <2>2, <3>2, NoneAssumption DEF Shown, ApprovedFresh, Phases
      <4>2. RequiresApproval(state, unit) /\ Told(state) = "reopen"
        BY <3>1, <4>1 DEF RequiresApproval, Told, AgentSafe, NextAction
      <4> QED
        BY <3>1, <4>2
    <3>3. CASE state.phase = "plan"
      <4>1. Shown(state) = "plan"
        BY <3>3, NoneAssumption DEF Shown, Phases
      <4>2. RequiresApproval(state, unit)
        BY <3>1, <4>1 DEF RequiresApproval
      <4> QED
        BY <3>1, <3>3, <4>2
    <3>4. CASE state.phase \notin {"plan", "execute"}
      <4>1. Shown(state) \in {"discuss", "done"} /\ ~RequiresApproval(state, unit)
        BY <3>4 DEF Shown, RequiresApproval, GateInv, TypeOK, State, Phases
      <4>2. Told(state) \in {"harness run", "nothing"}
        BY <4>1 DEF Told, AgentSafe, NextAction
      <4> QED
        BY <3>1, <4>1, <4>2
    <3> QED
      BY <3>2, <3>3, <3>4
  <2> QED
    BY <2>1, <2>2
<1>2. ASSUME GateInv PROVE ProjectionsAgree
  <2>1. \A unit \in UnitsOf(state.approvedAt) : Answers(unit)
    BY <1>1, <1>2
  <2>2. ASSUME NEW filled \in Fillings(state), NEW completed \in BOOLEAN
        PROVE  /\ (PlanningGate(state, filled, completed) /\ "pointers" \in filled) =>
                    CheckAccepts(state, filled)
               /\ (/\ \E unit \in UnitsOf(state.approvedAt) : MayEdit(state, unit)
                  /\ {"plan_id", "acceptance_criteria"} \subseteq filled /\ ~completed) =>
                    PlanningGate(state, filled, completed)
    BY <1>1, <1>2, PlanningIsLax
  <2> QED
    BY <2>1, <2>2 DEF ProjectionsAgree
<1> QED
  BY <1>2, StatusGateInvariant, PTL

-----------------------------------------------------------------------------
(* The pre-commit hook, which checks a commit against the state.           *)

\* What happens around the hook is a move of the gate or of harness run, or none.
LEMMA ScopeIsStatus == [ScopeNext]_scopeVars => [Next \/ HarnessRun]_vars
<1> SUFFICES ASSUME [ScopeNext]_scopeVars
             PROVE  (Next \/ HarnessRun) \/ UNCHANGED vars
  OBVIOUS
<1>1. CASE Wait
  BY <1>1 DEF Wait, Next
<1>2. CASE Verb
  BY <1>2 DEF Verb, Next
<1>3. CASE WritePlan
  BY <1>3 DEF WritePlan, Next
<1>4. CASE EditScope \/ EditFile \/ Stage
  BY <1>4 DEF EditScope, EditFile, Stage, gate, vars
<1>5. CASE StartCommit \/ HookSkips \/ HookReadsState \/ HookLists
  BY <1>5 DEF StartCommit, HookSkips, HookReadsState, HookLists, gate, vars
<1>6. CASE HookPasses \/ CommitFails \/ Commit
  BY <1>6 DEF HookPasses, CommitFails, Commit, gate, vars
<1>7. CASE InstallHook \/ UninstallHook \/ KillHookVerb \/ EditHook
  BY <1>7 DEF InstallHook, UninstallHook, KillHookVerb, EditHook, gate, vars
<1>8. CASE UNCHANGED scopeVars
  BY <1>8 DEF scopeVars, vars
<1> QED
  BY <1>1, <1>2, <1>3, <1>4, <1>5, <1>6, <1>7, <1>8 DEF ScopeNext

\* Everything that holds of the gate, harness run and its readers holds while files
\* are edited, staged and committed.
THEOREM ScopeImplementsStatus == ScopeSpec => StatusSpec
<1>1. ScopeInit => Init
  BY DEF ScopeInit
<1> QED
  BY <1>1, ScopeIsStatus, PTL DEF ScopeSpec, StatusSpec

\* The invariant of the gate holds with them.
THEOREM ScopeGateInvariant == ScopeSpec => []GateInv
  BY ScopeImplementsStatus, StatusGateInvariant, PTL

\* What a commit in progress has read: the contract was in force when it passed the
\* first test, and of what the list of the index named it forgets nothing that was
\* out of scope.
JobInv ==
  /\ job = [at |-> job.at, allowed |-> job.allowed, blocked |-> job.blocked,
            contract |-> job.contract, denied |-> job.denied, index |-> job.index,
            checked |-> job.checked]
  /\ job.checked \in BOOLEAN /\ (job.checked => job.at = "passed" /\ job.denied = {})
  /\ (job.at \in {"unstaged", "staged", "untracked", "listed"} \/ job.checked) => job.contract
  /\ (job.at \in {"untracked", "listed"} \/ job.checked) =>
       \A p \in DiffNames(head, job.index) :
         PathAllowed(p, job.allowed, job.blocked) \/ p \in job.denied

\* It has read nothing before it starts.
LEMMA NoJobInv == ASSUME job' = NoJob PROVE JobInv'
  BY DEF NoJob, JobInv

\* While it goes on the last commit stays, so what it has listed stays listed.
LEMMA NextJobInv == GateInv /\ JobInv /\ [ScopeNext]_scopeVars => JobInv'
<1> SUFFICES ASSUME GateInv, JobInv, [ScopeNext]_scopeVars PROVE JobInv'
  OBVIOUS
<1>1. PICK at, open, closed, contract, denied, seen, checked :
        job = [at |-> at, allowed |-> open, blocked |-> closed, contract |-> contract,
               denied |-> denied, index |-> seen, checked |-> checked]
  BY DEF JobInv
<1>2. ASSUME UNCHANGED <<job, head>> PROVE JobInv'
  BY <1>2 DEF JobInv, DiffNames, PathAllowed
<1>3. CASE Wait \/ Verb \/ WritePlan \/ EditScope \/ EditFile \/ Stage \/ UNCHANGED scopeVars
  BY <1>2, <1>3 DEF Wait, Verb, WritePlan, EditScope, EditFile, Stage, files, scopeVars
<1>4. CASE InstallHook \/ UninstallHook \/ KillHookVerb \/ EditHook
  BY <1>2, <1>4 DEF InstallHook, UninstallHook, KillHookVerb, EditHook, files
<1>5. CASE StartCommit
  BY <1>5 DEF StartCommit, NoJob, JobInv
<1>6. CASE HookSkips
  <2>1. at = "hook" /\ ~checked
    BY <1>1, <1>6 DEF HookSkips, JobInv
  <2>2. job' = [at |-> "passed", allowed |-> open, blocked |-> closed, contract |-> contract,
                denied |-> denied, index |-> seen, checked |-> checked]
    BY <1>1, <1>6 DEF HookSkips
  <2> QED
    BY <1>1, <2>1, <2>2 DEF JobInv
<1>7. CASE HookReadsState
  <2>1. at = "hook" /\ ~checked
    BY <1>1, <1>7 DEF HookReadsState, JobInv
  <2>2. state.contract
    BY <1>7 DEF HookReadsState, GateAllows, GateInv, ContractInForce
  <2>3. job' = [at |-> "unstaged", allowed |-> allowed, blocked |-> blocked,
                contract |-> state.contract, denied |-> denied, index |-> seen,
                checked |-> checked]
    BY <1>1, <1>7 DEF HookReadsState
  <2>4. checked \in BOOLEAN
    BY <1>1 DEF JobInv
  <2> QED
    BY <2>1, <2>2, <2>3, <2>4 DEF JobInv
<1>8. CASE HookLists
  <2>1. /\ at \in {"unstaged", "staged", "untracked"}
        /\ checked \in BOOLEAN /\ ~checked /\ contract
    BY <1>1, <1>8 DEF HookLists, JobInv
  <2>2. UNCHANGED head
    BY <1>8 DEF HookLists, files
  <2>3. PICK more : more = {p \in Listing(at) : ~PathAllowed(p, open, closed)}
    OBVIOUS
  <2>4. job' = [at |-> Following(at), allowed |-> open, blocked |-> closed,
                contract |-> contract, denied |-> denied \cup more,
                index |-> IF at = "staged" THEN index ELSE seen, checked |-> checked]
    BY <1>1, <1>8, <2>3 DEF HookLists
  <2>5. CASE at = "unstaged"
    <3>1. job' = [at |-> "staged", allowed |-> open, blocked |-> closed,
                  contract |-> contract, denied |-> denied \cup more,
                  index |-> seen, checked |-> checked]
      BY <2>4, <2>5 DEF Following
    <3> QED
      BY <2>1, <3>1 DEF JobInv
  <2>6. CASE at = "staged"
    <3>1. /\ job'.at = "untracked" /\ job'.index = index /\ job'.denied = denied \cup more
          /\ job'.allowed = open /\ job'.blocked = closed
      BY <2>4, <2>6 DEF Following
    <3>2. Listing(at) = DiffNames(head, index)
      BY <2>6 DEF Listing
    <3>3. DiffNames(head, job.index)' = DiffNames(head, index)
      BY <2>2, <3>1 DEF DiffNames
    <3>4. \A p \in DiffNames(head, index) : PathAllowed(p, open, closed) \/ p \in denied \cup more
      BY <2>3, <3>2
    <3>5. \A p \in DiffNames(head, job.index)' :
            PathAllowed(p, job'.allowed, job'.blocked) \/ p \in job'.denied
      BY <3>1, <3>3, <3>4
    <3>6. job' = [at |-> "untracked", allowed |-> open, blocked |-> closed,
                  contract |-> contract, denied |-> denied \cup more,
                  index |-> index, checked |-> checked]
      BY <2>4, <2>6 DEF Following
    <3> QED
      BY <2>1, <3>5, <3>6 DEF JobInv, PathAllowed
  <2>7. CASE at = "untracked"
    <3>1. /\ job'.at = "listed" /\ job'.index = seen /\ job'.denied = denied \cup more
          /\ job'.allowed = open /\ job'.blocked = closed
      BY <2>4, <2>7 DEF Following
    <3>2. \A p \in DiffNames(head, seen) : PathAllowed(p, open, closed) \/ p \in denied
      BY <1>1, <2>7 DEF JobInv
    <3>3. DiffNames(head, job.index)' = DiffNames(head, seen)
      BY <2>2, <3>1 DEF DiffNames
    <3>4. \A p \in DiffNames(head, job.index)' :
            PathAllowed(p, job'.allowed, job'.blocked) \/ p \in job'.denied
      BY <3>1, <3>2, <3>3
    <3>5. job' = [at |-> "listed", allowed |-> open, blocked |-> closed,
                  contract |-> contract, denied |-> denied \cup more,
                  index |-> seen, checked |-> checked]
      BY <2>4, <2>7 DEF Following
    <3> QED
      BY <2>1, <3>4, <3>5 DEF JobInv, PathAllowed
  <2> QED
    BY <2>1, <2>5, <2>6, <2>7
<1>9. CASE HookPasses
  <2>1. at = "listed" /\ ~checked /\ contract /\ denied = {}
    BY <1>1, <1>9 DEF HookPasses, JobInv
  <2>2. UNCHANGED head
    BY <1>9 DEF HookPasses, files
  <2>3. job' = [at |-> "passed", allowed |-> open, blocked |-> closed, contract |-> contract,
                denied |-> denied, index |-> seen, checked |-> TRUE]
    BY <1>1, <1>9 DEF HookPasses
  <2>4. \A p \in DiffNames(head, seen) : PathAllowed(p, open, closed) \/ p \in denied
    BY <1>1, <2>1 DEF JobInv
  <2>5. DiffNames(head, job.index)' = DiffNames(head, seen)
    BY <2>2, <2>3 DEF DiffNames
  <2>6. \A p \in DiffNames(head, job.index)' :
          PathAllowed(p, job'.allowed, job'.blocked) \/ p \in job'.denied
    BY <2>3, <2>4, <2>5
  <2> QED
    BY <2>1, <2>3, <2>6 DEF JobInv, PathAllowed
<1>10. CASE CommitFails \/ Commit
  BY <1>10, NoJobInv DEF CommitFails, Commit
<1> QED
  BY <1>3, <1>4, <1>5, <1>6, <1>7, <1>8, <1>9, <1>10 DEF ScopeNext

\* What a commit in progress has read stays true of what it read.
THEOREM JobInvariant == ScopeSpec => []JobInv
<1>1. ScopeInit => JobInv
  BY DEF ScopeInit, NoJob, JobInv
<1> QED
  BY <1>1, NextJobInv, ScopeGateInvariant, PTL DEF ScopeSpec

\* A path in which one tree differs from another is listed, or it is the old name of
\* a file that was moved.
LEMMA ListedOrMoved ==
  ASSUME NEW from, NEW to, NEW p \in Paths, to[p] # from[p]
  PROVE  p \in DiffNames(from, to) \/ MovedAway(p, from, to)
  BY DEF DiffNames, MovedAway

\* What the hook has checked and lets through was planned and in the scope it read.
THEOREM ScopeTheorem == ScopeSpec => CommitStaysInScope
<1> DEFINE InScope ==
      (head' # head /\ job.checked) =>
        /\ job.contract
        /\ \A p \in Paths : head'[p] # head[p] =>
             \/ ~MatchesAny(p, job.blocked) /\ MatchesAny(p, job.allowed)
             \/ index[p] # job.index[p]
             \/ MovedAway(p, head, job.index)
        /\ (/\ GateAllows(state) /\ index = job.index
            /\ allowed = job.allowed /\ blocked = job.blocked) =>
             BaseCheckPasses(head, head')
<1>1. JobInv /\ [ScopeNext]_scopeVars => [InScope]_scopeVars
  <2> SUFFICES ASSUME JobInv, ScopeNext, head' # head, job.checked
               PROVE  InScope
    OBVIOUS
  <2>1. Commit
    <3>1. Wait \/ Verb \/ WritePlan \/ EditScope \/ EditFile \/ Stage => UNCHANGED head
      BY DEF Wait, Verb, WritePlan, EditScope, EditFile, Stage, files
    <3>2. InstallHook \/ UninstallHook \/ KillHookVerb \/ EditHook => UNCHANGED head
      BY DEF InstallHook, UninstallHook, KillHookVerb, EditHook, files
    <3>3. StartCommit \/ HookSkips \/ HookReadsState \/ HookLists \/ HookPasses \/ CommitFails
            => UNCHANGED head
      BY DEF StartCommit, HookSkips, HookReadsState, HookLists, HookPasses, CommitFails, files
    <3> QED
      BY <3>1, <3>2, <3>3 DEF ScopeNext
  <2>2. head' = index
    BY <2>1 DEF Commit
  <2>3. /\ job.contract
        /\ \A p \in DiffNames(head, job.index) : PathAllowed(p, job.allowed, job.blocked)
    BY DEF JobInv
  <2>4. ASSUME NEW p \in Paths, head'[p] # head[p], index[p] = job.index[p]
        PROVE  \/ ~MatchesAny(p, job.blocked) /\ MatchesAny(p, job.allowed)
               \/ MovedAway(p, head, job.index)
    <3>1. job.index[p] # head[p]
      BY <2>2, <2>4
    <3>2. p \in DiffNames(head, job.index) \/ MovedAway(p, head, job.index)
      BY <3>1, ListedOrMoved
    <3> QED
      BY <2>3, <3>2 DEF PathAllowed
  <2>5. ASSUME GateAllows(state), index = job.index, allowed = job.allowed, blocked = job.blocked
        PROVE  BaseCheckPasses(head, head')
    BY <2>2, <2>3, <2>5 DEF BaseCheckPasses
  <2> QED
    BY <2>3, <2>4, <2>5
<1> QED
  BY <1>1, JobInvariant, PTL DEF ScopeSpec, CommitStaysInScope

-----------------------------------------------------------------------------
(* The hook file.                                                          *)

\* The kinds of line: those of the block, an interpreter line, one that leaves
\* the script, and any other of the user's.
Line == {"sh", "other", "user", "exit"} \cup ToSet(Block)

\* The same, one by one.
LEMMA LineIs == Line = {"sh", "other", "user", "exit", "begin", "check", "end"}
  BY DEF Line, Block, ToSet

\* A set of numbers that is not empty has a least one.
LEMMA LeastNumber ==
  ASSUME NEW S \in SUBSET Nat, S # {}
  PROVE  Min(S) \in S /\ \A n \in S : Min(S) <= n
<1>1. PICK x \in S : \A y \in S : ~(<<y, x>> \in OpToRel(<, Nat))
  BY NatLessThanWellFounded, WFMin, Zenon
<1>2. \A y \in S : x <= y
  <2> SUFFICES ASSUME NEW y \in S, y < x PROVE FALSE
    OBVIOUS
  <2>1. <<y, x>> \in Nat \X Nat /\ <<y, x>>[1] < <<y, x>>[2]
    OBVIOUS
  <2> QED
    BY <1>1, <2>1 DEF OpToRel
<1> QED
  BY <1>2 DEF Min

\* The first line of a text that is the line, if there is one.
LEMMA FirstIs ==
  ASSUME NEW lines \in Seq(Line), NEW line
  PROVE  /\ First(lines, line) \in 0..Len(lines)
         /\ First(lines, line) = 0 <=> ~Has(lines, line)
         /\ First(lines, line) # 0 => lines[First(lines, line)] = line
         /\ \A i \in 1..Len(lines) : i < First(lines, line) => lines[i] # line
<1> DEFINE I == {i \in 1..Len(lines) : lines[i] = line}
<1>1. Len(lines) \in Nat /\ DOMAIN lines = 1..Len(lines)
  OBVIOUS
<1>2. Has(lines, line) <=> I # {}
  BY <1>1 DEF Has, ToSet
<1>3. I # {} => First(lines, line) = Min(I)
  BY DEF First, SelectInSeq
<1>4. I = {} => First(lines, line) = 0
  BY DEF First, SelectInSeq
<1>5. I # {} => Min(I) \in I /\ \A n \in I : Min(I) <= n
  <2>1. I \in SUBSET Nat
    BY <1>1
  <2> HIDE DEF I
  <2> QED
    BY <2>1, LeastNumber
<1>6. CASE I = {}
  BY <1>1, <1>2, <1>4, <1>6
<1>7. CASE I # {}
  <2>1. PICK n : n = First(lines, line)
    OBVIOUS
  <2>2. n \in I /\ \A m \in I : n <= m
    BY <1>3, <1>5, <1>7, <2>1
  <2>3. n \in 1..Len(lines) /\ lines[n] = line
    BY <2>2
  <2>4. \A i \in 1..Len(lines) : i < n => lines[i] # line
    BY <1>1, <2>2, <2>3
  <2>5. n # 0
    BY <1>1, <2>3
  <2> QED
    BY <1>1, <1>2, <1>7, <2>1, <2>3, <2>4, <2>5
<1> QED
  BY <1>6, <1>7

\* A line that none before it equals is the first.
LEMMA FirstAt ==
  ASSUME NEW lines \in Seq(Line), NEW line, NEW n \in 1..Len(lines),
         lines[n] = line, \A i \in 1..Len(lines) : i < n => lines[i] # line
  PROVE  First(lines, line) = n
<1>1. PICK m : m = First(lines, line)
  OBVIOUS
<1>2. Len(lines) \in Nat /\ DOMAIN lines = 1..Len(lines)
  OBVIOUS
<1>3. Has(lines, line)
  BY <1>2 DEF Has, ToSet
<1>4. /\ m \in 0..Len(lines) /\ m # 0 /\ lines[m] = line
      /\ \A i \in 1..Len(lines) : i < m => lines[i] # line
  BY <1>1, <1>3, FirstIs
<1>5. m = n
  BY <1>2, <1>4
<1> QED
  BY <1>1, <1>5

\* A text has a line or not.
LEMMA HasIs ==
  ASSUME NEW lines \in Seq(Line), NEW line
  PROVE  Has(lines, line) <=> \E i \in 1..Len(lines) : lines[i] = line
  BY DEF Has, ToSet

\* The part of a text from a line on.
LEMMA FromIs ==
  ASSUME NEW lines \in Seq(Line), NEW i \in 1..(Len(lines) + 1)
  PROVE  /\ From(lines, i) \in Seq(Line)
         /\ Len(From(lines, i)) = Len(lines) - i + 1
         /\ \A k \in 1..(Len(lines) - i + 1) : From(lines, i)[k] = lines[i + k - 1]
<1>1. Len(lines) \in Nat /\ \A k \in i..Len(lines) : lines[k] \in Line
  OBVIOUS
<1>2. /\ SubSeq(lines, i, Len(lines)) \in Seq(Line)
      /\ Len(SubSeq(lines, i, Len(lines))) = IF i <= Len(lines) THEN Len(lines) - i + 1 ELSE 0
      /\ \A k \in 1..(Len(lines) - i + 1) : SubSeq(lines, i, Len(lines))[k] = lines[i + k - 1]
  BY <1>1, SubSeqProperties
<1> QED
  BY <1>1, <1>2 DEF From

\* The part of a text up to a line.
LEMMA UpToIs ==
  ASSUME NEW lines \in Seq(Line), NEW n \in 0..Len(lines)
  PROVE  /\ SubSeq(lines, 1, n) \in Seq(Line)
         /\ Len(SubSeq(lines, 1, n)) = n
         /\ \A k \in 1..n : SubSeq(lines, 1, n)[k] = lines[k]
<1>1. Len(lines) \in Nat /\ n \in Nat /\ \A k \in 1..n : lines[k] \in Line
  OBVIOUS
<1>2. /\ SubSeq(lines, 1, n) \in Seq(Line)
      /\ Len(SubSeq(lines, 1, n)) = IF 1 <= n THEN n - 1 + 1 ELSE 0
      /\ \A k \in 1..(n - 1 + 1) : SubSeq(lines, 1, n)[k] = lines[1 + k - 1]
  BY <1>1, SubSeqProperties
<1> QED
  BY <1>1, <1>2

\* Two texts, one behind the other.
LEMMA JoinIs ==
  ASSUME NEW a \in Seq(Line), NEW b \in Seq(Line)
  PROVE  /\ a \o b \in Seq(Line)
         /\ Len(a \o b) = Len(a) + Len(b)
         /\ \A i \in 1..Len(a) : (a \o b)[i] = a[i]
         /\ \A i \in 1..Len(b) : (a \o b)[Len(a) + i] = b[i]
<1>1. a \o b \in Seq(Line) /\ Len(a \o b) = Len(a) + Len(b)
  OBVIOUS
<1>2. \A i \in 1..(Len(a) + Len(b)) : (a \o b)[i] = IF i <= Len(a) THEN a[i] ELSE b[i - Len(a)]
  BY ConcatProperties, Zenon
<1>3. Len(a) \in Nat /\ Len(b) \in Nat
  OBVIOUS
<1>4. \A i \in 1..Len(a) : (a \o b)[i] = a[i]
  BY <1>2, <1>3
<1>5. ASSUME NEW i \in 1..Len(b) PROVE (a \o b)[Len(a) + i] = b[i]
  <2>1. /\ Len(a) + i \in 1..(Len(a) + Len(b))
        /\ ~(Len(a) + i <= Len(a))
        /\ Len(a) + i - Len(a) = i
    BY <1>3
  <2> QED
    BY <1>2, <2>1
<1> QED
  BY <1>1, <1>4, <1>5

\* The managed block.
LEMMA BlockIs ==
  /\ Block \in Seq(Line) /\ Len(Block) = 3
  /\ Block[1] = "begin" /\ Block[2] = "check" /\ Block[3] = "end"
<1>1. {"begin", "check", "end"} \subseteq Line
  BY LineIs
<1>2. Block \in Seq({"begin", "check", "end"})
  BY DEF Block
<1>3. Block \in Seq(Line)
  BY <1>1, <1>2, SeqMonotonic
<1> QED
  BY <1>3 DEF Block

\* A text with the block in it.
LEMMA Spliced ==
  ASSUME NEW pre \in Seq(Line), NEW post \in Seq(Line)
  PROVE  LET lines == pre \o Block \o post IN
         /\ lines \in Seq(Line)
         /\ Len(lines) = Len(pre) + 3 + Len(post)
         /\ \A i \in 1..Len(pre) : lines[i] = pre[i]
         /\ lines[Len(pre) + 1] = "begin"
         /\ lines[Len(pre) + 2] = "check"
         /\ lines[Len(pre) + 3] = "end"
         /\ \A i \in 1..Len(post) : lines[Len(pre) + 3 + i] = post[i]
<1> DEFINE half == pre \o Block
           lines == half \o post
<1>1. /\ half \in Seq(Line)
      /\ Len(half) = Len(pre) + Len(Block)
      /\ \A i \in 1..Len(pre) : half[i] = pre[i]
      /\ \A i \in 1..Len(Block) : half[Len(pre) + i] = Block[i]
  BY BlockIs, JoinIs, Zenon
<1> HIDE DEF half
<1>2. /\ lines \in Seq(Line)
      /\ Len(lines) = Len(half) + Len(post)
      /\ \A i \in 1..Len(half) : lines[i] = half[i]
      /\ \A i \in 1..Len(post) : lines[Len(half) + i] = post[i]
  BY <1>1, JoinIs, Zenon
<1> HIDE DEF lines
<1>3. Len(pre) \in Nat /\ Len(post) \in Nat /\ Len(half) = Len(pre) + 3
  BY <1>1, BlockIs
<1>4. Len(lines) = Len(pre) + 3 + Len(post)
  BY <1>2, <1>3
<1>5. \A i \in 1..Len(pre) : lines[i] = pre[i]
  BY <1>1, <1>2, <1>3
<1>6. \A j \in 1..3 : Len(pre) + j \in 1..Len(half)
  BY <1>3
<1>7. \A j \in 1..3 : lines[Len(pre) + j] = Block[j]
  BY <1>1, <1>2, <1>6, BlockIs
<1>8. /\ lines[Len(pre) + 1] = "begin"
      /\ lines[Len(pre) + 2] = "check"
      /\ lines[Len(pre) + 3] = "end"
  <2>1. 1 \in 1..3 /\ 2 \in 1..3 /\ 3 \in 1..3
    OBVIOUS
  <2> QED
    BY <1>7, <2>1, BlockIs, Zenon
<1>9. \A i \in 1..Len(post) : lines[Len(pre) + 3 + i] = post[i]
  BY <1>2, <1>3
<1> QED
  BY <1>2, <1>4, <1>5, <1>8, <1>9 DEF lines, half

\* The block is found again where it was put.
LEMMA BlockFound ==
  ASSUME NEW pre \in Seq(Line), NEW post \in Seq(Line), ~Has(pre, "begin"),
         NEW lines, lines = pre \o Block \o post
  PROVE  Marked(lines) /\ Before(lines) = pre /\ After(lines) = post
<1>1. PICK n : n = Len(pre)
  OBVIOUS
<1>2. /\ lines \in Seq(Line)
      /\ Len(lines) = n + 3 + Len(post)
      /\ \A i \in 1..n : lines[i] = pre[i]
      /\ lines[n + 1] = "begin" /\ lines[n + 2] = "check" /\ lines[n + 3] = "end"
      /\ \A i \in 1..Len(post) : lines[n + 3 + i] = post[i]
  <2> DEFINE text == pre \o Block \o post
  <2>1. /\ text \in Seq(Line)
        /\ Len(text) = Len(pre) + 3 + Len(post)
        /\ \A i \in 1..Len(pre) : text[i] = pre[i]
        /\ text[Len(pre) + 1] = "begin"
        /\ text[Len(pre) + 2] = "check"
        /\ text[Len(pre) + 3] = "end"
        /\ \A i \in 1..Len(post) : text[Len(pre) + 3 + i] = post[i]
    BY Spliced, Zenon
  <2>2. lines = text
    OBVIOUS
  <2> HIDE DEF text
  <2> QED
    BY <1>1, <2>1, <2>2
<1>3. n \in Nat /\ Len(post) \in Nat /\ Len(lines) \in Nat
  BY <1>1, <1>2
<1>4. \A i \in 1..n : lines[i] # "begin"
  BY <1>1, <1>2, HasIs
<1>5. First(lines, "begin") = n + 1
  <2>1. n + 1 \in 1..Len(lines)
    BY <1>2, <1>3
  <2>2. \A i \in 1..Len(lines) : i < n + 1 => lines[i] # "begin"
    BY <1>3, <1>4
  <2> QED
    BY <1>2, <2>1, <2>2, FirstAt
<1>6. Marked(lines)
  <2>1. n + 1 \in 1..Len(lines) /\ n + 3 \in 1..Len(lines)
    BY <1>2, <1>3
  <2> QED
    BY <1>2, <2>1, HasIs DEF Marked
<1>7. Before(lines) = pre
  <2>1. PICK b : b = Before(lines)
    OBVIOUS
  <2>2. b = SubSeq(lines, 1, n)
    <3>1. First(lines, "begin") - 1 = n
      BY <1>3, <1>5
    <3> QED
      BY <2>1, <3>1 DEF Before
  <2>3. n \in 0..Len(lines)
    BY <1>2, <1>3
  <2>4. b \in Seq(Line) /\ Len(b) = n /\ \A i \in 1..n : b[i] = lines[i]
    BY <1>2, <2>2, <2>3, UpToIs
  <2>5. b = pre
    BY <1>1, <1>2, <2>4, SeqEqual
  <2> QED
    BY <2>1, <2>5
<1>8. After(lines) = post
  <2>1. PICK rest : rest = From(lines, n + 2)
    OBVIOUS
  <2>2. n + 2 \in 1..(Len(lines) + 1)
    BY <1>2, <1>3
  <2>3. /\ rest \in Seq(Line) /\ Len(rest) = Len(lines) - (n + 2) + 1
        /\ \A k \in 1..(Len(lines) - (n + 2) + 1) : rest[k] = lines[n + 2 + k - 1]
    BY <1>2, <2>1, <2>2, FromIs
  <2>4. /\ Len(rest) = Len(post) + 2
        /\ rest[1] = "check" /\ rest[2] = "end"
        /\ \A i \in 1..Len(post) : rest[2 + i] = post[i]
    <3>1. Len(rest) = Len(post) + 2
      BY <1>2, <1>3, <2>3
    <3>2. \A k \in 1..(Len(post) + 2) : rest[k] = lines[n + 1 + k]
      <4>1. Len(lines) - (n + 2) + 1 = Len(post) + 2
        BY <1>2, <1>3
      <4>2. \A k \in 1..(Len(post) + 2) : n + 2 + k - 1 = n + 1 + k
        BY <1>3
      <4> QED
        BY <2>3, <4>1, <4>2
    <3>3. rest[1] = lines[n + 2] /\ rest[2] = lines[n + 3]
      <4>1. /\ 1 \in 1..(Len(post) + 2) /\ 2 \in 1..(Len(post) + 2)
            /\ n + 1 + 1 = n + 2 /\ n + 1 + 2 = n + 3
        BY <1>3
      <4>2. rest[1] = lines[n + 1 + 1] /\ rest[2] = lines[n + 1 + 2]
        BY <3>2, <4>1, Zenon
      <4> QED
        BY <4>1, <4>2, Zenon
    <3>4. ASSUME NEW i \in 1..Len(post) PROVE rest[2 + i] = post[i]
      <4>1. 2 + i \in 1..(Len(post) + 2) /\ n + 1 + (2 + i) = n + 3 + i
        BY <1>3
      <4>2. rest[2 + i] = lines[n + 1 + (2 + i)]
        BY <3>2, <4>1, Zenon
      <4>3. lines[n + 3 + i] = post[i]
        BY <1>2
      <4> QED
        BY <4>1, <4>2, <4>3, Zenon
    <3> QED
      BY <1>2, <3>1, <3>3, <3>4
  <2>5. First(rest, "end") = 2
    <3>1. 2 \in 1..Len(rest)
      BY <1>3, <2>4
    <3>2. \A i \in 1..Len(rest) : i < 2 => rest[i] # "end"
      BY <2>4
    <3> QED
      BY <2>3, <2>4, <3>1, <3>2, FirstAt
  <2>6. PICK tail : tail = From(rest, 3)
    OBVIOUS
  <2>7. After(lines) = tail
    <3>1. First(lines, "begin") + 1 = n + 2
      BY <1>3, <1>5
    <3> QED
      BY <2>1, <2>5, <2>6, <3>1 DEF After
  <2>8. 3 \in 1..(Len(rest) + 1)
    BY <1>3, <2>4
  <2>9. /\ tail \in Seq(Line) /\ Len(tail) = Len(rest) - 3 + 1
        /\ \A k \in 1..(Len(rest) - 3 + 1) : tail[k] = rest[3 + k - 1]
    BY <2>3, <2>6, <2>8, FromIs
  <2>10. Len(tail) = Len(post) /\ \A i \in 1..Len(post) : tail[i] = post[i]
    BY <1>3, <2>4, <2>9
  <2>11. tail = post
    BY <2>9, <2>10, SeqEqual
  <2> QED
    BY <2>7, <2>11
<1> QED
  BY <1>6, <1>7, <1>8

\* The lines of two texts, one behind the other.
LEMMA JoinSet ==
  ASSUME NEW a \in Seq(Line), NEW b \in Seq(Line)
  PROVE  ToSet(a \o b) = ToSet(a) \cup ToSet(b)
<1> DEFINE c == a \o b
<1>1. /\ c \in Seq(Line)
      /\ Len(c) = Len(a) + Len(b)
      /\ \A i \in 1..Len(a) : c[i] = a[i]
      /\ \A i \in 1..Len(b) : c[Len(a) + i] = b[i]
  BY JoinIs, Zenon
<1> HIDE DEF c
<1>2. Len(a) \in Nat /\ Len(b) \in Nat
  OBVIOUS
<1>3. ASSUME NEW x \in ToSet(c) PROVE x \in ToSet(a) \cup ToSet(b)
  <2>1. PICK i \in 1..(Len(a) + Len(b)) : c[i] = x
    BY <1>1 DEF ToSet
  <2>2. CASE i <= Len(a)
    BY <1>1, <1>2, <2>1, <2>2 DEF ToSet
  <2>3. CASE ~(i <= Len(a))
    <3>1. i - Len(a) \in 1..Len(b) /\ Len(a) + (i - Len(a)) = i
      BY <1>2, <2>3
    <3>2. b[i - Len(a)] = x
      BY <1>1, <2>1, <3>1
    <3> QED
      BY <3>1, <3>2 DEF ToSet
  <2> QED
    BY <2>2, <2>3
<1>4. ASSUME NEW x \in ToSet(a) PROVE x \in ToSet(c)
  <2>1. PICK i \in 1..Len(a) : a[i] = x
    BY DEF ToSet
  <2>2. i \in 1..Len(c) /\ c[i] = x
    BY <1>1, <1>2, <2>1
  <2> QED
    BY <1>1, <2>2 DEF ToSet
<1>5. ASSUME NEW x \in ToSet(b) PROVE x \in ToSet(c)
  <2>1. PICK i \in 1..Len(b) : b[i] = x
    BY DEF ToSet
  <2>2. Len(a) + i \in 1..Len(c) /\ c[Len(a) + i] = x
    BY <1>1, <1>2, <2>1
  <2> QED
    BY <1>1, <2>2 DEF ToSet
<1> QED
  BY <1>3, <1>4, <1>5 DEF c

\* A part of a text has lines of the text only.
LEMMA PartSet ==
  ASSUME NEW lines \in Seq(Line)
  PROVE  /\ \A i \in 1..(Len(lines) + 1) : ToSet(From(lines, i)) \subseteq ToSet(lines)
         /\ \A n \in 0..Len(lines) : ToSet(SubSeq(lines, 1, n)) \subseteq ToSet(lines)
<1>1. Len(lines) \in Nat /\ DOMAIN lines = 1..Len(lines)
  OBVIOUS
<1>2. ASSUME NEW i \in 1..(Len(lines) + 1), NEW x \in ToSet(From(lines, i))
      PROVE  x \in ToSet(lines)
  <2> DEFINE part == From(lines, i)
  <2>1. /\ part \in Seq(Line)
        /\ Len(part) = Len(lines) - i + 1
        /\ \A k \in 1..(Len(lines) - i + 1) : part[k] = lines[i + k - 1]
    BY FromIs, Zenon
  <2> HIDE DEF part
  <2>2. x \in ToSet(part)
    BY <1>2 DEF part
  <2>3. PICK k \in 1..Len(part) : part[k] = x
    BY <2>1, <2>2 DEF ToSet
  <2>4. i + k - 1 \in 1..Len(lines) /\ lines[i + k - 1] = x
    BY <1>1, <2>1, <2>3
  <2> QED
    BY <1>1, <2>4 DEF ToSet
<1>3. ASSUME NEW n \in 0..Len(lines), NEW x \in ToSet(SubSeq(lines, 1, n))
      PROVE  x \in ToSet(lines)
  <2> DEFINE part == SubSeq(lines, 1, n)
  <2>1. /\ part \in Seq(Line)
        /\ Len(part) = n
        /\ \A k \in 1..n : part[k] = lines[k]
    BY UpToIs, Zenon
  <2> HIDE DEF part
  <2>2. x \in ToSet(part)
    BY <1>3 DEF part
  <2>3. PICK k \in 1..n : part[k] = x
    BY <2>1, <2>2 DEF ToSet
  <2>4. k \in 1..Len(lines) /\ lines[k] = x
    BY <1>1, <2>1, <2>3
  <2> QED
    BY <1>1, <2>4 DEF ToSet
<1> QED
  BY <1>2, <1>3

\* The text around the block.
LEMMA Around ==
  ASSUME NEW lines \in Seq(Line), Has(lines, "begin")
  PROVE  /\ Before(lines) \in Seq(Line) /\ ToSet(Before(lines)) \subseteq ToSet(lines)
         /\ ~Has(Before(lines), "begin")
         /\ After(lines) \in Seq(Line) /\ ToSet(After(lines)) \subseteq ToSet(lines)
         /\ ToSet(After(lines)) \subseteq ToSet(From(lines, First(lines, "begin") + 1))
<1>1. PICK n : n = First(lines, "begin")
  OBVIOUS
<1>2. n \in 1..Len(lines) /\ lines[n] = "begin" /\ \A i \in 1..Len(lines) : i < n => lines[i] # "begin"
  <2>1. First(lines, "begin") \in 0..Len(lines) /\ First(lines, "begin") # 0
    BY FirstIs
  <2>2. lines[First(lines, "begin")] = "begin"
    BY <2>1, FirstIs
  <2>3. \A i \in 1..Len(lines) : i < First(lines, "begin") => lines[i] # "begin"
    BY FirstIs
  <2> QED
    BY <1>1, <2>1, <2>2, <2>3
<1>3. Len(lines) \in Nat
  OBVIOUS
<1>4. PICK b : b = Before(lines)
  OBVIOUS
<1>5. b = SubSeq(lines, 1, n - 1) /\ n - 1 \in 0..Len(lines)
  BY <1>1, <1>2, <1>3, <1>4 DEF Before
<1>6. b \in Seq(Line) /\ Len(b) = n - 1 /\ \A k \in 1..(n - 1) : b[k] = lines[k]
  BY <1>5, UpToIs
<1>7. ToSet(b) \subseteq ToSet(lines)
  BY <1>5, PartSet
<1>8. ~Has(b, "begin")
  <2> SUFFICES ASSUME Has(b, "begin") PROVE FALSE
    OBVIOUS
  <2>1. PICK k \in 1..Len(b) : b[k] = "begin"
    BY <1>6, HasIs
  <2> QED
    BY <1>2, <1>3, <1>6, <2>1
<1>9. PICK rest : rest = From(lines, n + 1)
  OBVIOUS
<1>10. n + 1 \in 1..(Len(lines) + 1)
  BY <1>2, <1>3
<1>11. rest \in Seq(Line) /\ ToSet(rest) \subseteq ToSet(lines)
  BY <1>9, <1>10, FromIs, PartSet
<1>12. PICK e : e = First(rest, "end")
  OBVIOUS
<1>13. e \in 0..Len(rest)
  BY <1>11, <1>12, FirstIs
<1>14. PICK a : a = After(lines)
  OBVIOUS
<1>15. a = IF e = 0 THEN <<>> ELSE From(rest, e + 1)
  BY <1>1, <1>9, <1>12, <1>14 DEF After
<1>16. CASE e = 0
  <2>1. a = <<>>
    BY <1>15, <1>16
  <2>2. a \in Seq(Line) /\ ToSet(a) \subseteq ToSet(lines) /\ ToSet(a) \subseteq ToSet(rest)
    BY <2>1 DEF ToSet
  <2> QED
    BY <1>1, <1>4, <1>6, <1>7, <1>8, <1>9, <1>14, <2>2
<1>17. CASE e # 0
  <2>1. Len(rest) \in Nat
    BY <1>11
  <2>2. e + 1 \in 1..(Len(rest) + 1)
    BY <1>13, <2>1
  <2>3. a = From(rest, e + 1)
    BY <1>15, <1>17
  <2>4. a \in Seq(Line)
    BY <1>11, <2>2, <2>3, FromIs
  <2>5. ToSet(a) \subseteq ToSet(rest)
    BY <1>11, <2>2, <2>3, PartSet
  <2> QED
    BY <1>1, <1>4, <1>6, <1>7, <1>8, <1>9, <1>11, <1>14, <2>4, <2>5
<1> QED
  BY <1>16, <1>17

\* A text with the block between two others.
WithBlock(pre, post) == pre \o Block \o post

\* What the hook can be.
HookFile == [exists : BOOLEAN, exec : BOOLEAN, lines : Seq(Line)]

\* An interpreter line that is not a shell's is the first, and keeps the block
\* out of the file.
OtherStandsAlone(lines) ==
  \A i \in 1..Len(lines) : lines[i] = "other" => i = 1 /\ ToSet(lines) \cap ToSet(Block) = {}

\* The inductive invariant of the hook file.
HookInv ==
  /\ hook \in HookFile
  /\ ~hook.exists => hook.lines = <<>>
  /\ OtherStandsAlone(hook.lines)

\* A text that is well marked has a block or no marker.
LEMMA WellMarkedIs ==
  ASSUME NEW lines \in Seq(Line), WellMarked(lines)
  PROVE  Marked(lines) \/ (~Has(lines, "begin") /\ ~Has(lines, "end"))
<1> DEFINE marks == {i \in 1..Len(lines) : lines[i] \in {"begin", "end"}}
<1>1. CASE marks = {}
  BY <1>1, HasIs
<1>2. CASE \E b, e \in marks : lines[b] = "begin" /\ lines[e] = "end"
  <2>1. PICK b \in 1..Len(lines), e \in 1..Len(lines) : lines[b] = "begin" /\ lines[e] = "end"
    BY <1>2
  <2> QED
    BY <2>1, HasIs DEF Marked
<1> QED
  BY <1>1, <1>2 DEF WellMarked

\* What an installed hook consists of: the block, and around it nothing but
\* lines of the file and the interpreter line.
LEMMA InstalledParts ==
  ASSUME NEW h \in HookFile
  PROVE  \E pre, post \in Seq(Line) :
           /\ Installed(h) = [exists |-> TRUE, exec |-> TRUE, lines |-> WithBlock(pre, post)]
           /\ ToSet(pre) \subseteq ToSet(h.lines) \cup {"sh"}
           /\ ToSet(post) \subseteq ToSet(h.lines)
           /\ ~h.exists \/ Marked(h.lines) \/ ~Has(h.lines, "begin") => ~Has(pre, "begin")
           /\ h.exists => UserLines(h.lines) = pre \o post
<1>0. h.lines \in Seq(Line)
  BY DEF HookFile
<1>1. /\ <<>> \in Seq(Line) /\ ToSet(<<>>) = {} /\ Block \in Seq(Line)
      /\ \A s \in Seq(Line) : s \o <<>> = s
  BY BlockIs DEF ToSet
<1>2. CASE ~h.exists
  <2>1. PICK pre : pre = <<"sh">>
    OBVIOUS
  <2>2. pre \in Seq(Line) /\ ToSet(pre) = {"sh"} /\ ~Has(pre, "begin")
    <3>1. "sh" \in Line
      BY LineIs
    <3>2. Len(pre) = 1 /\ pre[1] = "sh" /\ pre \in Seq({"sh"})
      BY <2>1
    <3>3. pre \in Seq(Line)
      BY <3>1, <3>2, SeqMonotonic
    <3>4. ToSet(pre) = {"sh"}
      BY <2>1 DEF ToSet
    <3> QED
      BY <3>3, <3>4 DEF Has
  <2>3. (pre \o Block) \o <<>> = pre \o Block
    BY <1>1, <2>2
  <2>4. Skeleton = WithBlock(pre, <<>>)
    BY <2>1, <2>3 DEF Skeleton, WithBlock
  <2>5. Installed(h) = [exists |-> TRUE, exec |-> TRUE, lines |-> WithBlock(pre, <<>>)]
    BY <1>2, <2>4 DEF Installed
  <2> QED
    BY <1>1, <1>2, <2>2, <2>5
<1>3. CASE h.exists /\ Marked(h.lines)
  <2>1. PICK pre, post : pre = Before(h.lines) /\ post = After(h.lines)
    OBVIOUS
  <2>2. /\ pre \in Seq(Line) /\ ToSet(pre) \subseteq ToSet(h.lines)
        /\ ~Has(pre, "begin")
        /\ post \in Seq(Line) /\ ToSet(post) \subseteq ToSet(h.lines)
    <3>1. Has(h.lines, "begin")
      BY <1>3 DEF Marked
    <3> QED
      BY <1>0, <2>1, <3>1, Around
  <2>3. Installed(h) = [exists |-> TRUE, exec |-> TRUE, lines |-> WithBlock(pre, post)]
    BY <1>3, <2>1 DEF Installed, WithBlock
  <2>4. UserLines(h.lines) = pre \o post
    BY <1>3, <2>1 DEF UserLines
  <2> QED
    BY <2>2, <2>3, <2>4
<1>4. CASE h.exists /\ ~Marked(h.lines)
  <2>1. PICK pre : pre = h.lines
    OBVIOUS
  <2>2. pre \in Seq(Line)
    BY <1>0, <2>1
  <2>3. (pre \o Block) \o <<>> = pre \o Block
    BY <1>1, <2>2
  <2>4. Installed(h) = [exists |-> TRUE, exec |-> TRUE, lines |-> WithBlock(pre, <<>>)]
    BY <1>4, <2>1, <2>3 DEF Installed, WithBlock
  <2>5. UserLines(h.lines) = pre \o <<>>
    BY <1>1, <1>4, <2>1, <2>2 DEF UserLines
  <2> QED
    BY <1>1, <1>4, <2>1, <2>2, <2>4, <2>5
<1> QED
  BY <1>2, <1>3, <1>4

\* A hook whose first marker is that of the block is left as it is.
LEMMA Settled ==
  ASSUME NEW pre \in Seq(Line), NEW post \in Seq(Line), ~Has(pre, "begin"),
         NEW h, h = [exists |-> TRUE, exec |-> TRUE, lines |-> WithBlock(pre, post)]
  PROVE  Installed(h) = h
<1>1. PICK lines : lines = WithBlock(pre, post)
  OBVIOUS
<1>2. Marked(lines) /\ Before(lines) = pre /\ After(lines) = post
  BY <1>1, BlockFound DEF WithBlock
<1>3. h.exists /\ h.lines = lines
  BY <1>1
<1>4. Installed(h) = [exists |-> TRUE, exec |-> TRUE, lines |-> Before(lines) \o Block \o After(lines)]
  BY <1>2, <1>3 DEF Installed
<1> QED
  BY <1>1, <1>2, <1>4 DEF WithBlock

\* An installed hook is marked, and the block is the last thing git reaches
\* that could stop it.
LEMMA SplicedGuards ==
  ASSUME NEW pre \in Seq(Line), NEW post \in Seq(Line),
         NEW h, h = [exists |-> TRUE, exec |-> TRUE, lines |-> WithBlock(pre, post)]
  PROVE  /\ Marked(h.lines) /\ h.lines \in Seq(Line)
         /\ ToSet(pre) \cap {"exit", "other"} = {} => Guards(h)
<1>1. PICK lines, n : lines = WithBlock(pre, post) /\ n = Len(pre)
  OBVIOUS
<1>2. /\ lines \in Seq(Line)
      /\ Len(lines) = n + 3 + Len(post)
      /\ \A i \in 1..n : lines[i] = pre[i]
      /\ lines[n + 1] = "begin" /\ lines[n + 2] = "check" /\ lines[n + 3] = "end"
  <2> DEFINE text == pre \o Block \o post
  <2>1. /\ text \in Seq(Line)
        /\ Len(text) = Len(pre) + 3 + Len(post)
        /\ \A i \in 1..Len(pre) : text[i] = pre[i]
        /\ text[Len(pre) + 1] = "begin"
        /\ text[Len(pre) + 2] = "check"
        /\ text[Len(pre) + 3] = "end"
    BY Spliced, Zenon
  <2>2. lines = text
    BY <1>1 DEF WithBlock
  <2> HIDE DEF text
  <2> QED
    BY <1>1, <2>1, <2>2
<1>3. n \in Nat /\ Len(post) \in Nat
  BY <1>1
<1>4. n + 1 \in 1..Len(lines) /\ n + 2 \in 1..Len(lines) /\ n + 3 \in 1..Len(lines)
  BY <1>2, <1>3
<1>5. Has(lines, "begin") /\ Has(lines, "check") /\ Has(lines, "end")
  BY <1>2, <1>4, HasIs
<1>6. h.exists /\ h.exec /\ h.lines = lines
  BY <1>1
<1>7. ASSUME ToSet(pre) \cap {"exit", "other"} = {} PROVE Guards(h)
  <2>1. PICK c : c = First(lines, "check")
    OBVIOUS
  <2>2. c \in 0..Len(lines) /\ c <= n + 2
    <3>1. c \in 0..Len(lines)
      BY <1>2, <2>1, FirstIs
    <3>2. \A i \in 1..Len(lines) : i < c => lines[i] # "check"
      BY <1>2, <2>1, FirstIs
    <3> QED
      BY <1>2, <1>3, <1>4, <3>1, <3>2
  <2>3. ASSUME NEW i \in 1..c, lines[i] \in {"exit", "other"} PROVE FALSE
    <3>1. i # n + 1 /\ i # n + 2
      BY <1>2, <2>3
    <3>2. i \in 1..n
      BY <1>3, <2>2, <3>1
    <3>3. pre[i] \in ToSet(pre)
      BY <1>1, <3>2 DEF ToSet
    <3> QED
      BY <1>2, <1>7, <2>3, <3>2, <3>3
  <2> QED
    BY <1>5, <1>6, <2>1, <2>3 DEF Guards
<1> QED
  BY <1>2, <1>5, <1>6, <1>7 DEF Marked

\* A hook that may be installed has no interpreter line but a shell's.
LEMMA NotRefused ==
  ASSUME HookInv, ~InstallRefused(hook)
  PROVE  ~Has(hook.lines, "other")
<1> SUFFICES ASSUME Has(hook.lines, "other") PROVE FALSE
  OBVIOUS
<1>1. hook.lines \in Seq(Line) /\ Len(hook.lines) \in Nat
  BY DEF HookInv, HookFile
<1>2. PICK i \in 1..Len(hook.lines) : hook.lines[i] = "other"
  BY <1>1, HasIs
<1>3. i = 1 /\ ToSet(hook.lines) \cap ToSet(Block) = {}
  BY <1>2 DEF HookInv, OtherStandsAlone
<1>4. hook.lines # <<>> /\ Head(hook.lines) = "other"
  BY <1>1, <1>2, <1>3
<1>5. "begin" \in ToSet(Block)
  BY BlockIs DEF ToSet
<1>6. ~Marked(hook.lines)
  BY <1>3, <1>5 DEF Marked, Has
<1> QED
  BY <1>4, <1>6 DEF InstallRefused, HookInv

\* The invariant implies that installing settles.
LEMMA HookSettles ==
  ASSUME HookInv
  PROVE  InstallSettles
<1> SUFFICES ASSUME ~InstallRefused(hook)
             PROVE  LET once == Installed(hook)
                        twice == Installed(once)
                    IN /\ WellMarked(hook.lines) => twice = once
                       /\ Installed(twice) = twice
                       /\ ~Has(hook.lines, "exit") => Guards(once)
  BY DEF InstallSettles
<1>1. PICK once, twice : once = Installed(hook) /\ twice = Installed(once)
  OBVIOUS
<1>2. hook \in HookFile /\ hook.lines \in Seq(Line)
  BY DEF HookInv, HookFile
<1>3. PICK pre \in Seq(Line), post \in Seq(Line) :
        /\ once = [exists |-> TRUE, exec |-> TRUE, lines |-> WithBlock(pre, post)]
        /\ ToSet(pre) \subseteq ToSet(hook.lines) \cup {"sh"}
        /\ ~hook.exists \/ Marked(hook.lines) \/ ~Has(hook.lines, "begin") => ~Has(pre, "begin")
  BY <1>1, <1>2, InstalledParts
<1>4. WellMarked(hook.lines) => twice = once
  <2>1. WellMarked(hook.lines) => ~Has(pre, "begin")
    BY <1>2, <1>3, WellMarkedIs
  <2> QED
    BY <1>1, <1>3, <2>1, Settled
<1>5. Installed(twice) = twice
  <2>1. once \in HookFile /\ Marked(once.lines)
    BY <1>3, SplicedGuards DEF HookFile
  <2>2. PICK pre2 \in Seq(Line), post2 \in Seq(Line) :
          /\ twice = [exists |-> TRUE, exec |-> TRUE, lines |-> WithBlock(pre2, post2)]
          /\ ~Has(pre2, "begin")
    BY <1>1, <2>1, InstalledParts
  <2> QED
    BY <2>2, Settled
<1>6. ~Has(hook.lines, "exit") => Guards(once)
  <2>1. ~Has(hook.lines, "other")
    BY NotRefused
  <2>2. ~Has(hook.lines, "exit") => ToSet(pre) \cap {"exit", "other"} = {}
    BY <1>3, <2>1 DEF Has
  <2> QED
    BY <1>3, <2>2, SplicedGuards
<1> QED
  BY <1>1, <1>4, <1>5, <1>6

\* No interpreter line but a shell's, no condition on where it stands.
LEMMA NoOther ==
  ASSUME NEW lines \in Seq(Line), "other" \notin ToSet(lines)
  PROVE  OtherStandsAlone(lines)
  BY HasIs DEF Has, OtherStandsAlone

\* The hook stays what it is when nothing but lines of the user's is added, and
\* the interpreter line stays in front.
LEMMA OtherStays ==
  ASSUME NEW lines \in Seq(Line), OtherStandsAlone(lines), NEW new \in Seq(Line),
         ToSet(new) \subseteq ToSet(lines) \cup {"user", "exit"},
         \A k \in 1..Len(new) : new[k] = "other" => k = 1
  PROVE  OtherStandsAlone(new)
<1> SUFFICES ASSUME NEW k \in 1..Len(new), new[k] = "other"
             PROVE  k = 1 /\ ToSet(new) \cap ToSet(Block) = {}
  BY DEF OtherStandsAlone
<1>1. "other" \in ToSet(new)
  BY DEF ToSet
<1>2. "other" \in ToSet(lines)
  BY <1>1
<1>3. ToSet(lines) \cap ToSet(Block) = {}
  BY <1>2, HasIs DEF Has, OtherStandsAlone
<1>4. "user" \notin ToSet(Block) /\ "exit" \notin ToSet(Block)
  BY DEF ToSet, Block
<1> QED
  BY <1>3, <1>4

\* A block in the hook means that no other interpreter's line is in it.
LEMMA MarkedNoOther ==
  ASSUME NEW lines \in Seq(Line), OtherStandsAlone(lines), Marked(lines)
  PROVE  "other" \notin ToSet(lines)
<1>1. "begin" \in ToSet(lines) /\ "begin" \in ToSet(Block)
  BY BlockIs DEF Marked, Has, ToSet
<1> QED
  BY <1>1, HasIs DEF Has, OtherStandsAlone

\* What is installed is a hook file, in which the only new lines are the block's
\* and the interpreter's.
LEMMA InstalledIs ==
  ASSUME NEW h \in HookFile
  PROVE  /\ Installed(h) \in HookFile
         /\ Installed(h).exists
         /\ "other" \notin ToSet(h.lines) => "other" \notin ToSet(Installed(h).lines)
<1>1. PICK pre \in Seq(Line), post \in Seq(Line) :
        /\ Installed(h) = [exists |-> TRUE, exec |-> TRUE, lines |-> WithBlock(pre, post)]
        /\ ToSet(pre) \subseteq ToSet(h.lines) \cup {"sh"}
        /\ ToSet(post) \subseteq ToSet(h.lines)
  BY InstalledParts
<1>2. PICK new : new = Installed(h)
  OBVIOUS
<1>3. new.exists /\ new.exec /\ new.lines = WithBlock(pre, post)
  BY <1>1, <1>2
<1>4. new.lines \in Seq(Line) /\ new \in HookFile
  <2>1. WithBlock(pre, post) \in Seq(Line)
    <3>1. pre \o Block \in Seq(Line)
      BY BlockIs, JoinIs
    <3> QED
      BY <3>1, JoinIs DEF WithBlock
  <2> QED
    BY <1>1, <1>2, <1>3, <2>1 DEF HookFile
<1>5. ToSet(WithBlock(pre, post)) = (ToSet(pre) \cup ToSet(Block)) \cup ToSet(post)
  <2> DEFINE half == pre \o Block
  <2>1. half \in Seq(Line) /\ ToSet(half) = ToSet(pre) \cup ToSet(Block)
    BY BlockIs, JoinIs, JoinSet
  <2>2. WithBlock(pre, post) = half \o post
    BY DEF WithBlock
  <2> HIDE DEF half
  <2> QED
    BY <2>1, <2>2, JoinSet
<1>6. "other" \notin ToSet(Block)
  BY DEF ToSet, Block
<1> QED
  BY <1>1, <1>2, <1>3, <1>4, <1>5, <1>6

\* What is left when the block is taken out is a hook file with lines of the old
\* one, or none.
LEMMA UninstalledIs ==
  ASSUME NEW h \in HookFile, Uninstalled(h) # h
  PROVE  /\ h.exists /\ Marked(h.lines)
         /\ Uninstalled(h) \in HookFile
         /\ ~Uninstalled(h).exists => Uninstalled(h).lines = <<>>
         /\ ToSet(Uninstalled(h).lines) \subseteq ToSet(h.lines)
<1>1. h.exists /\ Marked(h.lines)
  BY DEF Uninstalled
<1>2. h.lines \in Seq(Line)
  BY DEF HookFile
<1>3. PICK pre, post : pre = Before(h.lines) /\ post = After(h.lines)
  OBVIOUS
<1>4. /\ pre \in Seq(Line) /\ post \in Seq(Line)
      /\ ToSet(pre) \subseteq ToSet(h.lines) /\ ToSet(post) \subseteq ToSet(h.lines)
  <2>1. Has(h.lines, "begin")
    BY <1>1 DEF Marked
  <2> QED
    BY <1>2, <1>3, <2>1, Around
<1>5. Uninstalled(h) \in {NoHook, [exists |-> TRUE, exec |-> TRUE, lines |-> pre \o post]}
  BY <1>1, <1>3 DEF Uninstalled
<1>6. CASE Uninstalled(h) = NoHook
  <2>1. <<>> \in Seq(Line) /\ ToSet(<<>>) = {}
    BY DEF ToSet
  <2> QED
    BY <1>1, <1>6, <2>1 DEF NoHook, HookFile
<1>7. CASE Uninstalled(h) = [exists |-> TRUE, exec |-> TRUE, lines |-> pre \o post]
  <2>1. pre \o post \in Seq(Line) /\ ToSet(pre \o post) = ToSet(pre) \cup ToSet(post)
    BY <1>4, JoinIs, JoinSet
  <2>2. Uninstalled(h).exists /\ Uninstalled(h).lines = pre \o post
    BY <1>7
  <2>3. Uninstalled(h) \in HookFile
    BY <1>7, <2>1 DEF HookFile
  <2> QED
    BY <1>1, <1>4, <2>1, <2>2, <2>3
<1> QED
  BY <1>5, <1>6, <1>7

-----------------------------------------------------------------------------
\* The first lines of a text, another line, and the rest.
LEMMA InsertIs ==
  ASSUME NEW lines \in Seq(Line), NEW i \in 0..Len(lines), NEW line \in Line
  PROVE  /\ InsertAt(lines, i + 1, line) \in Seq(Line)
         /\ Len(InsertAt(lines, i + 1, line)) = Len(lines) + 1
         /\ ToSet(InsertAt(lines, i + 1, line)) \subseteq ToSet(lines) \cup {line}
         /\ \A k \in 1..Len(InsertAt(lines, i + 1, line)) :
              \/ k <= i /\ InsertAt(lines, i + 1, line)[k] = lines[k]
              \/ k = i + 1 /\ InsertAt(lines, i + 1, line)[k] = line
              \/ k > i + 1 /\ InsertAt(lines, i + 1, line)[k] = lines[k - 1]
<1>1. Len(lines) \in Nat /\ i \in Nat /\ i + 1 \in 1..(Len(lines) + 1)
  OBVIOUS
<1>2. PICK a, one, b : a = SubSeq(lines, 1, i) /\ one = <<line>> /\ b = From(lines, i + 1)
  OBVIOUS
<1>3. a \in Seq(Line) /\ Len(a) = i /\ \A k \in 1..i : a[k] = lines[k]
  BY <1>2, UpToIs
<1>4. /\ b \in Seq(Line) /\ Len(b) = Len(lines) - (i + 1) + 1
      /\ \A k \in 1..(Len(lines) - (i + 1) + 1) : b[k] = lines[i + 1 + k - 1]
  BY <1>1, <1>2, FromIs
<1>5. one \in Seq(Line) /\ Len(one) = 1 /\ one[1] = line /\ ToSet(one) = {line}
  BY <1>2 DEF ToSet
<1>6. ToSet(a) \subseteq ToSet(lines) /\ ToSet(b) \subseteq ToSet(lines)
  BY <1>1, <1>2, PartSet
<1>7. PICK half : half = a \o one
  OBVIOUS
<1>8. /\ half \in Seq(Line) /\ Len(half) = i + 1
      /\ \A k \in 1..i : half[k] = lines[k]
      /\ half[i + 1] = line
      /\ ToSet(half) \subseteq ToSet(lines) \cup {line}
  <2>1. /\ half \in Seq(Line) /\ Len(half) = Len(a) + Len(one)
        /\ \A k \in 1..Len(a) : half[k] = a[k]
        /\ \A k \in 1..Len(one) : half[Len(a) + k] = one[k]
    BY <1>3, <1>5, <1>7, JoinIs
  <2>2. ToSet(half) = ToSet(a) \cup ToSet(one)
    BY <1>3, <1>5, <1>7, JoinSet
  <2>3. half[i + 1] = line
    <3>1. 1 \in 1..Len(one)
      BY <1>5
    <3> QED
      BY <1>3, <1>5, <2>1, <3>1
  <2> QED
    BY <1>3, <1>5, <1>6, <2>1, <2>2, <2>3
<1>9. PICK new : new = half \o b
  OBVIOUS
<1>10. new = InsertAt(lines, i + 1, line)
  <2>1. (i + 1) - 1 = i
    BY <1>1
  <2>2. InsertAt(lines, i + 1, line)
          = SubSeq(lines, 1, (i + 1) - 1) \o <<line>> \o SubSeq(lines, i + 1, Len(lines))
    BY DEF InsertAt
  <2>3. SubSeq(lines, 1, (i + 1) - 1) = a
    BY <1>2, <2>1, Zenon
  <2>4. b = SubSeq(lines, i + 1, Len(lines))
    BY <1>2 DEF From
  <2>5. InsertAt(lines, i + 1, line) = a \o one \o b
    BY <1>2, <2>2, <2>3, <2>4, Zenon
  <2> QED
    BY <1>7, <1>9, <2>5
<1>11. /\ new \in Seq(Line) /\ Len(new) = Len(half) + Len(b)
       /\ \A k \in 1..Len(half) : new[k] = half[k]
       /\ \A k \in 1..Len(b) : new[Len(half) + k] = b[k]
  BY <1>4, <1>8, <1>9, JoinIs
<1>12. ToSet(new) \subseteq ToSet(lines) \cup {line}
  <2>1. ToSet(new) = ToSet(half) \cup ToSet(b)
    BY <1>4, <1>8, <1>9, JoinSet
  <2> QED
    BY <1>6, <1>8, <2>1
<1>13. ASSUME NEW k \in 1..Len(new)
       PROVE  \/ k <= i /\ new[k] = lines[k]
              \/ k = i + 1 /\ new[k] = line
              \/ k > i + 1 /\ new[k] = lines[k - 1]
  <2>1. CASE k <= i
    BY <1>1, <1>8, <1>11, <2>1
  <2>2. CASE k = i + 1
    BY <1>1, <1>8, <1>11, <2>2
  <2>3. CASE k > i + 1
    <3>1. PICK j : j = k - (i + 1)
      OBVIOUS
    <3>2. j \in 1..Len(b) /\ Len(half) + j = k /\ i + 1 + j - 1 = k - 1
      BY <1>1, <1>4, <1>8, <1>11, <2>3, <3>1
    <3>3. new[Len(half) + j] = b[j]
      BY <1>11, <3>2
    <3>4. b[j] = lines[i + 1 + j - 1]
      BY <1>4, <3>2
    <3> QED
      BY <2>3, <3>2, <3>3, <3>4
  <2> QED
    BY <1>1, <2>1, <2>2, <2>3
<1>14. Len(new) = Len(lines) + 1
  BY <1>1, <1>4, <1>8, <1>11
<1> QED
  BY <1>10, <1>11, <1>12, <1>13, <1>14

\* A text without one of its lines.
LEMMA RemoveIs ==
  ASSUME NEW lines \in Seq(Line), NEW i \in 1..Len(lines)
  PROVE  /\ RemoveAt(lines, i) \in Seq(Line)
         /\ ToSet(RemoveAt(lines, i)) \subseteq ToSet(lines)
         /\ \A k \in 1..Len(RemoveAt(lines, i)) :
              \/ k < i /\ RemoveAt(lines, i)[k] = lines[k]
              \/ k >= i /\ k + 1 \in 1..Len(lines) /\ RemoveAt(lines, i)[k] = lines[k + 1]
<1>1. Len(lines) \in Nat /\ i \in Nat /\ i + 1 \in 1..(Len(lines) + 1) /\ i - 1 \in 0..Len(lines)
  OBVIOUS
<1>2. PICK a, b : a = SubSeq(lines, 1, i - 1) /\ b = From(lines, i + 1)
  OBVIOUS
<1>3. a \in Seq(Line) /\ Len(a) = i - 1 /\ \A k \in 1..(i - 1) : a[k] = lines[k]
  BY <1>1, <1>2, UpToIs
<1>4. /\ b \in Seq(Line) /\ Len(b) = Len(lines) - (i + 1) + 1
      /\ \A k \in 1..(Len(lines) - (i + 1) + 1) : b[k] = lines[i + 1 + k - 1]
  BY <1>1, <1>2, FromIs
<1>5. ToSet(a) \subseteq ToSet(lines) /\ ToSet(b) \subseteq ToSet(lines)
  BY <1>1, <1>2, PartSet
<1>6. PICK new : new = a \o b
  OBVIOUS
<1>7. new = RemoveAt(lines, i)
  BY <1>2, <1>6 DEF RemoveAt, From
<1>8. /\ new \in Seq(Line) /\ Len(new) = Len(a) + Len(b)
      /\ \A k \in 1..Len(a) : new[k] = a[k]
      /\ \A k \in 1..Len(b) : new[Len(a) + k] = b[k]
  BY <1>3, <1>4, <1>6, JoinIs
<1>9. ToSet(new) \subseteq ToSet(lines)
  <2>1. ToSet(new) = ToSet(a) \cup ToSet(b)
    BY <1>3, <1>4, <1>6, JoinSet
  <2> QED
    BY <1>5, <2>1
<1>10. ASSUME NEW k \in 1..Len(new)
       PROVE  \/ k < i /\ new[k] = lines[k]
              \/ k >= i /\ k + 1 \in 1..Len(lines) /\ new[k] = lines[k + 1]
  <2>1. CASE k < i
    BY <1>1, <1>3, <1>8, <2>1
  <2>2. CASE k >= i
    <3>1. PICK j : j = k - (i - 1)
      OBVIOUS
    <3>2. j \in 1..Len(b) /\ Len(a) + j = k /\ i + 1 + j - 1 = k + 1 /\ k + 1 \in 1..Len(lines)
      BY <1>1, <1>3, <1>4, <1>8, <2>2, <3>1
    <3>3. new[Len(a) + j] = b[j]
      BY <1>8, <3>2
    <3>4. b[j] = lines[i + 1 + j - 1]
      BY <1>4, <3>2
    <3> QED
      BY <2>2, <3>2, <3>3, <3>4
  <2> QED
    BY <1>1, <2>1, <2>2
<1> QED
  BY <1>7, <1>8, <1>9, <1>10

\* A fresh clone has no hook, or one of the user's.
LEMMA InitHookInv == ScopeInit => HookInv
<1> SUFFICES ASSUME ScopeInit PROVE HookInv
  OBVIOUS
<1>1. \/ hook = NoHook
      \/ hook.exists = TRUE /\ hook.exec = TRUE /\ hook \in [exists : {TRUE}, exec : {TRUE},
           lines : {<<"sh", "user">>, <<"other", "user">>}]
  BY DEF ScopeInit
<1>2. CASE hook = NoHook
  BY <1>2 DEF NoHook, HookInv, HookFile, OtherStandsAlone
<1>3. CASE hook \in [exists : {TRUE}, exec : {TRUE}, lines : {<<"sh", "user">>, <<"other", "user">>}]
  <2>1. hook.exists /\ hook.lines \in {<<"sh", "user">>, <<"other", "user">>}
    BY <1>3
  <2>2. {"sh", "other", "user"} \subseteq Line
    BY LineIs
  <2>3. hook.lines \in Seq({"sh", "other", "user"})
    <3>1. <<"sh", "user">> \in Seq({"sh", "other", "user"})
      OBVIOUS
    <3>2. <<"other", "user">> \in Seq({"sh", "other", "user"})
      OBVIOUS
    <3> QED
      BY <2>1, <3>1, <3>2, Zenon
  <2>4. hook.lines \in Seq(Line)
    BY <2>2, <2>3, SeqMonotonic
  <2>5. hook \in HookFile
    BY <1>3, <2>4 DEF HookFile
  <2>6. Len(hook.lines) = 2 /\ hook.lines[2] = "user"
    BY <2>1
  <2>7. ToSet(hook.lines) \cap ToSet(Block) = {}
    BY <2>1 DEF ToSet, Block
  <2>8. \A i \in 1..Len(hook.lines) : hook.lines[i] = "other" => i = 1
    BY <2>6
  <2> QED
    BY <2>1, <2>5, <2>7, <2>8 DEF HookInv, OtherStandsAlone
<1> QED
  BY <1>1, <1>2, <1>3

\* A hook of which a killed verb wrote the first lines.
LEMMA CutHook ==
  ASSUME NEW new \in HookFile, "other" \notin ToSet(new.lines), NEW n \in 0..Len(new.lines),
         HookInv, hook' = [exists |-> TRUE, exec |-> hook.exec, lines |-> SubSeq(new.lines, 1, n)]
  PROVE  HookInv'
<1>1. new.lines \in Seq(Line) /\ hook.exec \in BOOLEAN
  BY DEF HookFile, HookInv
<1>2. PICK lines : lines = SubSeq(new.lines, 1, n)
  OBVIOUS
<1>3. lines \in Seq(Line) /\ "other" \notin ToSet(lines)
  BY <1>1, <1>2, UpToIs, PartSet
<1>4. hook'.exists /\ hook'.lines = lines /\ hook' \in HookFile
  BY <1>1, <1>2, <1>3 DEF HookFile
<1>5. OtherStandsAlone(lines)
  BY <1>3, NoOther
<1> QED
  BY <1>4, <1>5 DEF HookInv

\* A line goes in or comes out.
LEMMA EditedHook ==
  ASSUME HookInv, EditHook
  PROVE  HookInv'
<1>1. PICK lines : lines = hook.lines
  OBVIOUS
<1>2. /\ lines \in Seq(Line) /\ Len(lines) \in Nat /\ OtherStandsAlone(lines)
      /\ hook \in HookFile /\ hook.exists
  BY <1>1 DEF HookInv, HookFile, EditHook
<1>3. ASSUME NEW new \in Seq(Line), hook' = [hook EXCEPT !.lines = new],
             ToSet(new) \subseteq ToSet(lines) \cup {"user", "exit"},
             \A k \in 1..Len(new) : new[k] = "other" => k = 1
      PROVE  HookInv'
  <2>1. OtherStandsAlone(new)
    BY <1>2, <1>3, OtherStays
  <2>2. hook' \in HookFile /\ hook'.lines = new /\ hook'.exists
    BY <1>2, <1>3 DEF HookFile
  <2> QED
    BY <2>1, <2>2 DEF HookInv
<1>4. CASE \E i \in 0..Len(hook.lines), line \in {"user", "exit"} :
             /\ ~(i = 0 /\ Interpreted(hook.lines))
             /\ hook' = [hook EXCEPT !.lines = InsertAt(@, i + 1, line)]
  <2>1. PICK i \in 0..Len(lines), line \in {"user", "exit"} :
          /\ ~(i = 0 /\ Interpreted(lines))
          /\ hook' = [hook EXCEPT !.lines = InsertAt(lines, i + 1, line)]
    BY <1>1, <1>4
  <2>2. PICK new : new = InsertAt(lines, i + 1, line)
    OBVIOUS
  <2>3. line \in Line
    BY LineIs
  <2>4. /\ new \in Seq(Line)
        /\ ToSet(new) \subseteq ToSet(lines) \cup {line}
        /\ \A k \in 1..Len(new) : \/ k <= i /\ new[k] = lines[k]
                                  \/ k = i + 1 /\ new[k] = line
                                  \/ k > i + 1 /\ new[k] = lines[k - 1]
    BY <1>2, <2>2, <2>3, InsertIs
  <2>5. Len(new) = Len(lines) + 1
    BY <1>2, <2>2, <2>3, InsertIs
  <2>6. ASSUME NEW k \in 1..Len(new), new[k] = "other" PROVE k = 1
    <3>1. CASE k <= i /\ new[k] = lines[k]
      <4>1. k \in 1..Len(lines)
        BY <1>2, <3>1
      <4> QED
        BY <1>2, <2>6, <3>1, <4>1 DEF OtherStandsAlone
    <3>2. CASE k = i + 1 /\ new[k] = line
      BY <2>6, <3>2
    <3>3. CASE k > i + 1 /\ new[k] = lines[k - 1]
      <4>1. k - 1 \in 1..Len(lines)
        BY <1>2, <2>4, <2>5, <3>3
      <4>2. k - 1 = 1
        BY <1>2, <2>6, <3>3, <4>1 DEF OtherStandsAlone
      <4>3. i = 0 /\ lines # <<>> /\ Head(lines) = "other"
        BY <1>2, <2>6, <3>3, <4>1, <4>2
      <4> QED
        BY <2>1, <4>3 DEF Interpreted
    <3> QED
      BY <2>4, <3>1, <3>2, <3>3
  <2>7. hook' = [hook EXCEPT !.lines = new]
    BY <2>1, <2>2
  <2> QED
    BY <1>3, <2>4, <2>6, <2>7
<1>5. CASE \E i \in 1..Len(hook.lines) : hook' = [hook EXCEPT !.lines = RemoveAt(@, i)]
  <2>1. PICK i \in 1..Len(lines) : hook' = [hook EXCEPT !.lines = RemoveAt(lines, i)]
    BY <1>1, <1>5
  <2>2. PICK new : new = RemoveAt(lines, i)
    OBVIOUS
  <2>3. /\ new \in Seq(Line)
        /\ ToSet(new) \subseteq ToSet(lines)
        /\ \A k \in 1..Len(new) : \/ k < i /\ new[k] = lines[k]
                                  \/ k >= i /\ k + 1 \in 1..Len(lines) /\ new[k] = lines[k + 1]
    BY <1>2, <2>2, RemoveIs
  <2>4. ASSUME NEW k \in 1..Len(new), new[k] = "other" PROVE k = 1
    <3>1. CASE k < i /\ new[k] = lines[k]
      <4>1. k \in 1..Len(lines)
        BY <1>2, <3>1
      <4> QED
        BY <1>2, <2>4, <3>1, <4>1 DEF OtherStandsAlone
    <3>2. CASE k >= i /\ k + 1 \in 1..Len(lines) /\ new[k] = lines[k + 1]
      <4>1. k + 1 = 1
        BY <1>2, <2>4, <3>2 DEF OtherStandsAlone
      <4> QED
        BY <4>1
    <3> QED
      BY <2>3, <3>1, <3>2
  <2>5. hook' = [hook EXCEPT !.lines = new]
    BY <2>1, <2>2
  <2> QED
    BY <1>3, <2>3, <2>4, <2>5
<1> QED
  BY <1>4, <1>5 DEF EditHook

\* No verb, edit or kill breaks it.
LEMMA NextHookInv == HookInv /\ [ScopeNext]_scopeVars => HookInv'
<1> SUFFICES ASSUME HookInv, [ScopeNext]_scopeVars PROVE HookInv'
  OBVIOUS
<1>1. hook \in HookFile /\ hook.lines \in Seq(Line) /\ OtherStandsAlone(hook.lines)
  BY DEF HookInv, HookFile
<1>2. ASSUME NEW new \in HookFile, hook' = new, "other" \notin ToSet(new.lines),
             ~new.exists => new.lines = <<>>
      PROVE  HookInv'
  <2>1. new.lines \in Seq(Line)
    BY DEF HookFile
  <2>2. OtherStandsAlone(new.lines)
    BY <1>2, <2>1, NoOther
  <2> QED
    BY <1>2, <2>2 DEF HookInv
<1>3. ~InstallRefused(hook) => /\ "other" \notin ToSet(Installed(hook).lines)
                               /\ Installed(hook) \in HookFile /\ Installed(hook).exists
  BY <1>1, NotRefused, InstalledIs DEF Has
<1>4. Uninstalled(hook) # hook => /\ "other" \notin ToSet(Uninstalled(hook).lines)
                                  /\ Uninstalled(hook) \in HookFile
                                  /\ ~Uninstalled(hook).exists => Uninstalled(hook).lines = <<>>
  BY <1>1, MarkedNoOther, UninstalledIs
<1>5. CASE InstallHook
  <2>1. hook' = Installed(hook) /\ ~InstallRefused(hook)
    BY <1>5 DEF InstallHook
  <2> QED
    BY <1>2, <1>3, <2>1
<1>6. CASE UninstallHook
  <2>1. hook' = Uninstalled(hook) /\ Uninstalled(hook) # hook
    BY <1>6 DEF UninstallHook
  <2> QED
    BY <1>2, <1>4, <2>1
<1>7. CASE KillHookVerb
  <2>1. PICK new \in {Installed(hook), Uninstalled(hook)} :
          /\ new = Installed(hook) => ~InstallRefused(hook)
          /\ new.exists /\ new.lines # hook.lines
          /\ \E n \in 0..Len(new.lines) :
               hook' = [exists |-> TRUE, exec |-> hook.exec, lines |-> SubSeq(new.lines, 1, n)]
    BY <1>7 DEF KillHookVerb
  <2>2. new # hook
    BY <2>1
  <2>3. new \in HookFile /\ "other" \notin ToSet(new.lines)
    BY <1>3, <1>4, <2>1, <2>2
  <2> QED
    BY <2>1, <2>3, CutHook
<1>8. CASE EditHook
  BY <1>8, EditedHook
<1>9. CASE UNCHANGED hook
  BY <1>9 DEF HookInv
<1>10. Wait \/ Verb \/ WritePlan \/ EditScope \/ EditFile \/ Stage \/ UNCHANGED scopeVars
         => UNCHANGED hook
  BY DEF Wait, Verb, WritePlan, EditScope, EditFile, Stage, scopeVars
<1>11. StartCommit \/ HookSkips \/ HookReadsState \/ HookLists \/ HookPasses \/ CommitFails
         \/ Commit => UNCHANGED hook
  BY DEF StartCommit, HookSkips, HookReadsState, HookLists, HookPasses, CommitFails, Commit
<1> QED
  BY <1>5, <1>6, <1>7, <1>8, <1>9, <1>10, <1>11 DEF ScopeNext

\* A foreign interpreter keeps the block out, whatever people and killed verbs
\* do to the file.
THEOREM HookInvariant == ScopeSpec => []HookInv
  BY InitHookInv, NextHookInv, PTL DEF ScopeSpec

\* The second install is the last that changes the hook, and the hook guards.
THEOREM HookTheorem == ScopeSpec => []InstallSettles
<1>1. HookInv => InstallSettles
  BY HookSettles
<1> QED
  BY <1>1, HookInvariant, PTL

-----------------------------------------------------------------------------
\* Taking the block out of a well marked file leaves no begin marker.
LEMMA NoMarkLeft ==
  ASSUME NEW lines \in Seq(Line), WellMarked(lines), Marked(lines)
  PROVE  ~Has(Before(lines) \o After(lines), "begin")
<1> DEFINE marks == {i \in 1..Len(lines) : lines[i] \in {"begin", "end"}}
<1>1. Len(lines) \in Nat
  OBVIOUS
<1>2. \E i \in 1..Len(lines) : lines[i] = "begin"
  BY HasIs DEF Marked
<1>3. marks # {}
  BY <1>2
<1>4. PICK b \in marks, e \in marks : lines[b] = "begin" /\ lines[e] = "end" /\ marks = {b, e}
  BY <1>3 DEF WellMarked
<1>5. \A i \in 1..Len(lines) : lines[i] = "begin" => i = b
  BY <1>4
<1>6. b \in 1..Len(lines)
  OBVIOUS
<1> HIDE DEF marks
<1>7. First(lines, "begin") = b
  <2>1. \A i \in 1..Len(lines) : i < b => lines[i] # "begin"
    BY <1>1, <1>5, <1>6
  <2> QED
    BY <1>4, <1>6, <2>1, FirstAt
<1>8. PICK rest : rest = From(lines, b + 1)
  OBVIOUS
<1>9. /\ rest \in Seq(Line) /\ Len(rest) = Len(lines) - (b + 1) + 1
      /\ \A k \in 1..(Len(lines) - (b + 1) + 1) : rest[k] = lines[b + 1 + k - 1]
  <2>1. b + 1 \in 1..(Len(lines) + 1)
    BY <1>1, <1>6
  <2> QED
    BY <1>8, <2>1, FromIs
<1>10. "begin" \notin ToSet(rest)
  <2> SUFFICES ASSUME "begin" \in ToSet(rest) PROVE FALSE
    OBVIOUS
  <2>1. PICK k \in 1..Len(rest) : rest[k] = "begin"
    BY <1>9, HasIs DEF Has
  <2>2. b + 1 + k - 1 \in 1..Len(lines) /\ b + 1 + k - 1 # b /\ rest[k] = lines[b + 1 + k - 1]
    BY <1>1, <1>6, <1>9
  <2> QED
    BY <1>5, <2>1, <2>2
<1>11. PICK pre, post : pre = Before(lines) /\ post = After(lines)
  OBVIOUS
<1>12. /\ pre \in Seq(Line) /\ ~Has(pre, "begin")
       /\ post \in Seq(Line) /\ ToSet(post) \subseteq ToSet(rest)
  <2>1. Has(lines, "begin")
    BY DEF Marked
  <2>2. /\ Before(lines) \in Seq(Line) /\ ~Has(Before(lines), "begin")
        /\ After(lines) \in Seq(Line)
        /\ ToSet(After(lines)) \subseteq ToSet(From(lines, First(lines, "begin") + 1))
    BY <2>1, Around
  <2> QED
    BY <1>7, <1>8, <1>11, <2>2
<1>13. "begin" \notin ToSet(pre \o post)
  BY <1>10, <1>12, JoinSet DEF Has
<1> QED
  BY <1>11, <1>13 DEF Has

\* Installing keeps the lines around the block.
LEMMA InstallKeeps ==
  ASSUME NEW h \in HookFile, h.exists, WellMarked(h.lines)
  PROVE  UserLines(Installed(h).lines) = UserLines(h.lines)
<1>1. PICK pre \in Seq(Line), post \in Seq(Line) :
        /\ Installed(h) = [exists |-> TRUE, exec |-> TRUE, lines |-> WithBlock(pre, post)]
        /\ Marked(h.lines) \/ ~Has(h.lines, "begin") => ~Has(pre, "begin")
        /\ UserLines(h.lines) = pre \o post
  BY InstalledParts
<1>2. ~Has(pre, "begin")
  BY <1>1, WellMarkedIs DEF HookFile
<1>3. PICK lines : lines = WithBlock(pre, post)
  OBVIOUS
<1>4. Marked(lines) /\ Before(lines) = pre /\ After(lines) = post
  BY <1>2, <1>3, BlockFound DEF WithBlock
<1>5. Installed(h).lines = lines
  BY <1>1, <1>3
<1> QED
  BY <1>1, <1>4, <1>5 DEF UserLines

\* So does taking the block out.
LEMMA UninstallKeeps ==
  ASSUME NEW h \in HookFile, Uninstalled(h) # h, WellMarked(h.lines)
  PROVE  \/ UserLines(Uninstalled(h).lines) = UserLines(h.lines)
         \/ ~Uninstalled(h).exists /\ UserLines(h.lines) \in {<<>>, <<"sh">>}
<1>1. h.exists /\ Marked(h.lines) /\ h.lines \in Seq(Line)
  BY DEF Uninstalled, HookFile
<1>2. PICK pre, post : pre = Before(h.lines) /\ post = After(h.lines)
  OBVIOUS
<1>3. UserLines(h.lines) = pre \o post
  BY <1>1, <1>2 DEF UserLines
<1>4. CASE post = <<>> /\ pre \in {<<>>, <<"sh">>}
  <2>1. Uninstalled(h) = NoHook
    BY <1>1, <1>2, <1>4 DEF Uninstalled
  <2>2. pre \o post = pre
    <3>1. <<>> \in Seq({"sh"}) /\ <<"sh">> \in Seq({"sh"})
      OBVIOUS
    <3>2. pre \in Seq({"sh"})
      BY <1>4, <3>1, Zenon
    <3>3. pre \o <<>> = pre
      BY <3>2, ConcatEmptySeq
    <3> QED
      BY <1>4, <3>3
  <2> QED
    BY <1>3, <1>4, <2>1, <2>2 DEF NoHook
<1>5. CASE ~(post = <<>> /\ pre \in {<<>>, <<"sh">>})
  <2>1. Uninstalled(h).lines = pre \o post
    BY <1>1, <1>2, <1>5 DEF Uninstalled
  <2>2. ~Marked(pre \o post)
    BY <1>1, <1>2, NoMarkLeft DEF Marked
  <2> QED
    BY <1>3, <2>1, <2>2 DEF UserLines
<1> QED
  BY <1>4, <1>5

\* The user's lines survive both verbs.
THEOREM LinesTheorem == ScopeSpec => UserLinesSurvive
<1> DEFINE Survive ==
      (hook' # hook /\ hook.exists /\ WellMarked(hook.lines)
          /\ (InstallHook \/ UninstallHook)) =>
        \/ UserLines(hook'.lines) = UserLines(hook.lines)
        \/ ~hook'.exists /\ UserLines(hook.lines) \in {<<>>, <<"sh">>}
<1>1. HookInv => Survive
  <2> SUFFICES ASSUME HookInv, hook.exists, WellMarked(hook.lines), InstallHook \/ UninstallHook
               PROVE  \/ UserLines(hook'.lines) = UserLines(hook.lines)
                      \/ ~hook'.exists /\ UserLines(hook.lines) \in {<<>>, <<"sh">>}
    OBVIOUS
  <2>1. hook \in HookFile
    BY DEF HookInv
  <2>2. CASE InstallHook
    <3>1. hook' = Installed(hook)
      BY <2>2 DEF InstallHook
    <3> QED
      BY <2>1, <3>1, InstallKeeps
  <2>3. CASE UninstallHook
    <3>1. hook' = Uninstalled(hook) /\ Uninstalled(hook) # hook
      BY <2>3 DEF UninstallHook
    <3> QED
      BY <2>1, <3>1, UninstallKeeps
  <2> QED
    BY <2>2, <2>3
<1>2. ScopeSpec => [][Survive]_scopeVars
  <2>1. HookInv /\ [ScopeNext]_scopeVars => [Survive]_scopeVars
    BY <1>1
  <2> QED
    BY <2>1, HookInvariant, PTL DEF ScopeSpec
<1> QED
  BY <1>2 DEF UserLinesSurvive
=============================================================================
