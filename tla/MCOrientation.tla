--------------------------- MODULE MCOrientation ---------------------------
(* A TLC instance of Orientation: one document of each kind.               *)
EXTENDS Orientation

MCOrder == <<"STACK", "STRUCTURE", "TESTING", "INTEGRATIONS", "SUMMARY">>
MCMarkers == {"pyproject", "compose"}
=============================================================================
