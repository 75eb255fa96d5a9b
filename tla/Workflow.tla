------------------------------ MODULE Workflow -------------------------------
(***************************************************************************)
(* What the phase gate promises, without timestamps, files or locks:       *)
(* discuss, plan, execute and done follow each other; execute and done are *)
(* entered from plan and execute only with an approval that a person gave  *)
(* since the phase was entered, and which opens one edge only; every other *)
(* way back drops the approval.                                            *)
(***************************************************************************)
CONSTANT None

VARIABLES
  phase,    \* the current phase, None before the first one
  granted   \* a person has approved since this phase was entered

vars == <<phase, granted>>

Init == phase = None /\ granted = FALSE

\* A person approves the current phase.
Approve ==
  /\ phase \in {"plan", "execute"}
  /\ granted' = TRUE
  /\ UNCHANGED phase

\* The gated edges spend the approval.
Advance ==
  /\ granted
  /\ \/ phase = "plan" /\ phase' = "execute"
     \/ phase = "execute" /\ phase' = "done"
  /\ granted' = FALSE

\* The edges that need no approval.
Begin ==
  /\ \/ phase = None /\ phase' = "discuss"
     \/ phase = "discuss" /\ phase' = "plan"
  /\ granted' = FALSE

\* Going back, or leaving done for another cycle, revokes the approval.
GoBack ==
  /\ \/ phase \in {"discuss", "plan", "execute", "done"} /\ phase' = "discuss"
     \/ phase \in {"execute", "done"} /\ phase' = "plan"
     \/ phase = "done" /\ phase' = "execute"
  /\ granted' = FALSE

Next == Approve \/ Advance \/ Begin \/ GoBack

Spec == Init /\ [][Next]_vars
=============================================================================
