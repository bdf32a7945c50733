------------------------------ MODULE MCReturns ------------------------------
(* Returns for TLC: one line of two units and one of a single unit, each of *)
(* its own SKU, all at the same price so that amounts coincide.  Requests   *)
(* for all of it, for parts, for lines that are partly damaged, for more    *)
(* than was ordered in two lines that each pass, and two that are refused.  *)
EXTENDS Returns, TLC

CONSTANTS a, b

TwoAndOne == [l \in Lines |-> IF l = a THEN 2 ELSE 1]
SamePrice == [l \in Lines |-> 1]
OwnSku == [l \in Lines |-> l]
MCSymmetry == Permutations(Workers)

Good(l, n) == [line |-> l, quantity |-> n, restock |-> TRUE]
Damaged(l, n) == [line |-> l, quantity |-> n, restock |-> FALSE]
SomeRequests ==
  { <<Good(a, 2), Good(b, 1)>>, <<Damaged(a, 2), Damaged(b, 1)>>,
    <<Good(a, 1), Damaged(a, 1), Good(b, 1)>>,
    <<Good(a, 1)>>, <<Damaged(a, 1)>>, <<Good(a, 2)>>,
    <<Good(b, 1)>>, <<Good(a, 1), Damaged(b, 1)>>, <<Good(a, 1), Damaged(a, 1)>>,
    <<Good(a, 2), Good(a, 2)>>,
    <<Good(a, 3)>>, <<Good(b, 1), Damaged(a, 0)>> }
=============================================================================
