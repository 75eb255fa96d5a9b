--------------------------- MODULE MCPlanningDocs ----------------------------
(* Two milestones and one that was put in after them, two checkpoints.         *)
EXTENDS PlanningDocs

SomeIds == {[num |-> 1, letter |-> FALSE], [num |-> 2, letter |-> TRUE],
            [num |-> 2, letter |-> FALSE]}
=============================================================================
