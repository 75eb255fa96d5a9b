------------------------------ MODULE MCInstall ------------------------------
(* Small instances of Install for TLC.                                      *)
EXTENDS Install, TLC

\* Two releases, which differ in .roomodes.
Trees == {[f \in Files |-> 1], [f \in Files |-> IF f = 1 THEN 2 ELSE 1]}
=============================================================================
