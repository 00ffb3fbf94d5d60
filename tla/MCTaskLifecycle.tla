-------------------------- MODULE MCTaskLifecycle ---------------------------
(***************************************************************************)
(* TaskLifecycle on small instances.                                       *)
(***************************************************************************)
EXTENDS TaskLifecycle, TLC

Symmetry == Permutations(LeaseIds) \cup Permutations(Procs)
=============================================================================
