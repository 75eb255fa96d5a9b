----------------------------- MODULE MCAuditLog ------------------------------
(* Small instances of AuditLog for TLC.                                     *)
EXTENDS AuditLog, TLC

\* Processes may be swapped.
Symmetry == Permutations(Proc)
=============================================================================
