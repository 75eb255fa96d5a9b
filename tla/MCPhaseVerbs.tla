---------------------------- MODULE MCPhaseVerbs -----------------------------
(* Small instances of PhaseVerbs for TLC.                                   *)
EXTENDS PhaseVerbs, TLC

\* Processes may be swapped.
Symmetry == Permutations(Proc)
=============================================================================
