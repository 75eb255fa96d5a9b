-------------------------------- MODULE Mutex --------------------------------
(***************************************************************************)
(* What acquire_primary and release_primary promise to the verbs, without  *)
(* files, records, processes that die or hosts that reboot: the lock goes  *)
(* from nobody to one process, and from that one to nobody.                *)
(***************************************************************************)
CONSTANT Proc

VARIABLE inside   \* the processes that own the lock

Init == inside = {}

\* acquire_primary returns a handle.
Enter(p) == inside = {} /\ inside' = {p}

\* The owner gives the lock back, fails while it takes it, or dies.
Exit == inside' = {}

Next == (\E p \in Proc : Enter(p)) \/ Exit

Spec == Init /\ [][Next]_inside
=============================================================================
