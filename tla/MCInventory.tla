---------------------------- MODULE MCInventory ----------------------------
(* Inventory for TLC: workers and locations are interchangeable.            *)
EXTENDS Inventory, TLC

MCSymmetry == Permutations(Workers) \cup Permutations(Locations)
=============================================================================
