---------------------------- MODULE MCSourcing ----------------------------
(* Sourcing for TLC.  Alone: one order of three units over every network of *)
(* three nodes with up to three units each, and over columns that tie,      *)
(* differ and are missing.  Race: two orders of two lines that name the     *)
(* SKUs in opposite order, one of them holding units, and nodes with a cap. *)
(* Twice: two requests to source one order that holds two units, on a row   *)
(* where the other order holds as many and where it holds none.             *)
EXTENDS Sourcing

CONSTANTS o1, o2, c1, c2, a, b, n1, n2, n3

Columns(x, y, z) == [n \in Nodes |-> IF n = n1 THEN x ELSE IF n = n2 THEN y ELSE z]
L(s, q) == [sku |-> s, quantity |-> q]
Each == [c \in Calls |-> IF c = c1 THEN o1 ELSE o2]
NoHolds == [o \in Orders |-> [r \in Rows |-> 0]]

Alone ==
  { [valid |-> {o1}, free |-> [r \in Rows |-> IF r[1] = a THEN f[r[2]] ELSE 0],
     priority |-> p, distance |-> d, capacity |-> Columns(Null, Null, Null),
     lines |-> [o \in Orders |-> <<L(a, 3)>>],
     held |-> NoHolds, backorder |-> [o \in Orders |-> TRUE],
     order |-> Each] :
    f \in [Nodes -> 0 .. 3],
    p \in { Columns(1, 1, 1), Columns(1, 2, 1), Columns(3, 2, 1) },
    d \in { Columns(Null, 1, 2), Columns(1, Null, Null), Columns(5, 5, 1) } }

Race ==
  { [valid |-> Orders, free |-> [r \in Rows |-> IF r[2] = n3 THEN 0 ELSE f], priority |-> p,
     distance |-> Columns(1, 2, 3), capacity |-> c,
     lines |-> [o \in Orders |-> IF o = o1 THEN <<L(a, 1), L(b, 1)>>
                                           ELSE <<L(b, 1), L(a, 2)>>],
     held |-> [NoHolds EXCEPT ![o2][<<a, n1>>] = 1],
     backorder |-> [o \in Orders |-> bo], order |-> Each] :
    f \in {1}, p \in {Columns(1, 1, 1), Columns(2, 1, 1)}, bo \in BOOLEAN,
    c \in {Columns(1, Null, Null), Columns(2, Null, Null)} }

Twice ==
  { [valid |-> {o2}, free |-> [r \in Rows |-> IF r = <<a, n1>> THEN f ELSE 1],
     priority |-> Columns(1, 1, 2), distance |-> Columns(1, 2, 3),
     capacity |-> Columns(Null, Null, Null),
     lines |-> [o \in Orders |-> <<L(a, 2)>>],
     held |-> [NoHolds EXCEPT ![o2][<<a, n1>>] = 2, ![o1][<<a, n1>>] = other],
     backorder |-> [o \in Orders |-> bo], order |-> [c \in Calls |-> o2]] :
    f \in {0, 1}, other \in {0, 2}, bo \in BOOLEAN }

MCWorlds == Alone \cup Race \cup Twice

R(s, ch, p, on) ==
  [strategy |-> s, channel |-> ch, region |-> Null, priority |-> p, active |-> on]
MCRuleSets ==
  { {}, {R("NEAREST", "WEB", 1, TRUE)},
    {R("PRIORITY", Null, 1, TRUE), R("FEWEST_SPLITS", Null, 2, TRUE)},
    {R("PRIORITY", Null, 1, FALSE), R("FEWEST_SPLITS", Null, 2, TRUE)} }
=============================================================================
