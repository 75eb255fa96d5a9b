---------------------------- MODULE MCTargetFiles ----------------------------
(* Small instances of TargetFiles for TLC.                                  *)
EXTENDS TargetFiles, TLC

\* 1 is .roomodes, 2 AGENTS.md, 3 a command that the second release drops and
\* puts in its graveyard, 4 a project document, 5 a second file with a block,
\* which the second release drops.
Policies1 == 1 :> "owned" @@ 2 :> "append" @@ 3 :> "owned" @@ 4 :> "project" @@ 5 :> "append"
ThePolicy ==
  [v \in Releases |-> [f \in Files |-> IF v = 2 /\ f \in {3, 5} THEN "none" ELSE Policies1[f]]]
TheSource == [v \in Releases |-> [f \in Files |-> v]]
TheGraveyard == [v \in Releases |-> IF v = 2 THEN {3} \cap Files ELSE {}]
TheScope == [f \in Files |-> CASE f = 1 -> "roo" [] f = 2 -> "core" [] f = 3 -> "runtime" [] f = 4 -> "docs" [] f = 5 -> "core"]
=============================================================================
