--------------------------- MODULE MCReservations ---------------------------
(* Instances of Reservations for TLC.                                       *)
EXTENDS Reservations, TLC

CONSTANTS s1, s2, o1, o2

MCSymmetry == Permutations(ApiWorkers) \cup Permutations(Locations)

(* o1 wants one unit of s1; o2 wants two, which needs both locations, and   *)
(* one unit of s2, so its second line can fail after its first has held.    *)
MixedLines == [o \in {o1, o2} |->
                 IF o = o1 THEN <<[sku |-> s1, qty |-> 1]>>
                 ELSE <<[sku |-> s1, qty |-> 2], [sku |-> s2, qty |-> 1]>>]
UnitEach == [o \in {o1, o2} |-> <<[sku |-> s1, qty |-> 1]>>]
SamePriority == [l \in Locations |-> 1]
UnitAtEach == [r \in Rows |-> 1]
TwoUnits == [r \in Rows |-> 2]
=============================================================================
