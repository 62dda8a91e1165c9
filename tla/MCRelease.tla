----------------------------- MODULE MCRelease -----------------------------
(* Small instances of ReleaseCoordinator. *)
EXTENDS ReleaseCoordinator, TLC

\* Providers are not interchangeable: they are asked in the node set's order.
Symmetry == Permutations(Callers) \cup Permutations(Operations) \cup Permutations(Versions)
=============================================================================
