----------------------------- MODULE MCPhaseLock -----------------------------
(* Small instances of PhaseLock for TLC: every value that the lock only      *)
(* compares for equality is a model value, and interchangeable.              *)
EXTENDS PhaseLock, TLC

CONSTANTS p1, p2, p3, h1, h2, t1, t2, t3, s1, s2, b1, b2

OneHost == [p \in Proc |-> h1]
TwoHosts == [p \in Proc |-> IF p = p3 THEN h2 ELSE h1]

\* Processes of one host may be swapped, and so may tokens, start times and
\* boot identifiers.
Symmetry == Permutations({p1, p2, p3}) \cup Permutations({t1, t2, t3})
            \cup Permutations({s1, s2}) \cup Permutations({b1, b2})
=============================================================================
