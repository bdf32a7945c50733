------------------------------ MODULE Planner ------------------------------
(***************************************************************************)
(* The loop the two planners share (planLine of reservations.service.ts    *)
(* and of sourcing.service.ts): the candidates of a line, sorted, each     *)
(* give what is still needed until nothing is.                             *)
(***************************************************************************)
EXTENDS Sequences, Sums

(* What the first n candidates of s have, together. *)
Given(s, avail, n) == Sum([i \in 1 .. n |-> avail[s[i]]], 1 .. n)

(* `remaining` when the loop comes to candidate i, and the candidates it    *)
(* comes to before it breaks.                                               *)
LeftAt(s, avail, quantity, i) == quantity - Given(s, avail, i - 1)
Visited(s, avail, quantity) ==
  { i \in DOMAIN s : LeftAt(s, avail, quantity, i) > 0 }

(* Math.min(remaining, c.available) *)
Take(s, avail, quantity, i) ==
  LET left == LeftAt(s, avail, quantity, i)
  IN  IF left < avail[s[i]] THEN left ELSE avail[s[i]]

Leg(n, q) == [node |-> n, quantity |-> q]

(* Mutant of Greedy: the last candidate gives all it has. *)
GreedyWholePools(s, avail, quantity) ==
  [i \in 1 .. Cardinality(Visited(s, avail, quantity)) |-> Leg(s[i], avail[s[i]])]

(* The legs of the plan, in the order of the candidates. *)
Greedy(s, avail, quantity) ==
  [i \in 1 .. Cardinality(Visited(s, avail, quantity)) |->
     Leg(s[i], Take(s, avail, quantity, i))]

(* What a plan covers. *)
Planned(plan) == Sum([i \in DOMAIN plan |-> plan[i].quantity], DOMAIN plan)
=============================================================================
