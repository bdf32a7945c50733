-------------------------- MODULE MCReconciliation --------------------------
(* Reconciliation for TLC: workers and locations are interchangeable.       *)
EXTENDS Reconciliation, TLC

MCSymmetry == Permutations(Workers) \cup Permutations(Locations)
=============================================================================
