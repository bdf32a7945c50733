--------------------------- MODULE SourcingProofs ---------------------------
(***************************************************************************)
(* Proofs about the sourcing engine, for any orders, nodes, stock, rules   *)
(* and any interleaving of their sourcings.                                *)
(*                                                                         *)
(* The planner: the loop is Greedy, of which SumTheorems proves that it    *)
(* gives out as much as there is and empties every pool before it turns to *)
(* the next (GreedyLegs), and that pools taken largest first are as few as *)
(* can cover the line (LargestFirst).  Each strategy's order then yields   *)
(* what the strategy promises (Covers, Honours, Fewest).                   *)
(*                                                                         *)
(* The transactions: a plan is made on stock read without locks and        *)
(* applied leg by leg.  The invariant Inv says of an open transaction that *)
(* its plan keeps those promises of what it read (PlanKept), and that its  *)
(* private changes are the hold it gave back less the legs it has applied, *)
(* on rows it has locked and never below zero (Books); so units are        *)
(* conserved at each commit.  The node cap is read without a lock and two  *)
(* sourcings may both see the last place: CapKept speaks of behaviours in  *)
(* which none overlapped.                                                  *)
(***************************************************************************)
EXTENDS Sourcing, SumTheorems, SequenceTheorems

PlanLeg == [node : Nodes, quantity : Nat \ {0}]
Supply == UNION { [S -> Nat \ {0}] : S \in SUBSET Nodes }
Alloc == [call : Calls, line : Nat \ {0}, row : Rows, quantity : Nat \ {0}]
Tx == [at : {"idle", "begin", "release", "plan", "apply"},
       strategy : Strategies \cup {""}, attempt : 1 .. MaxAttempts,
       line : Nat \ {0}, holds : [Rows -> Nat], seen : Supply,
       plan : Seq(PlanLeg), leg : Nat \ {0}, delta : [Rows -> Int],
       released : SUBSET Rows, mine : SUBSET Alloc]

Types ==
  /\ world \in Worlds /\ rules \in RuleSets
  /\ status \in [Orders -> {"CREATED", "VALIDATED", "ALLOCATED"}]
  /\ free \in [Rows -> Nat] /\ reserved \in [Rows -> Nat] /\ twice \in SUBSET Rows
  /\ held \in [Orders -> [Rows -> Nat]]
  /\ allocs \in SUBSET Alloc /\ IsFiniteSet(allocs)
  /\ lock \in [Rows -> Calls \cup {Null}]
  /\ tx \in [Calls -> Tx] /\ overlap \in BOOLEAN

(* What planLine promises of its plan: it covers the line or takes all      *)
(* there is, asks no node for more than it has and none twice, ...          *)
Covers(plan, avail, quantity) ==
  /\ plan \in Seq(PlanLeg)
  /\ Planned(plan) = Min({quantity, Sum(avail, DOMAIN avail)})
  /\ \A i \in DOMAIN plan : /\ plan[i].node \in DOMAIN avail
                            /\ plan[i].quantity \in 1 .. avail[plan[i].node]
  /\ \A i, j \in DOMAIN plan : plan[i].node = plan[j].node => i = j

(* ... leaves no unit at a node the strategy prefers to one it uses, ...    *)
Honours(plan, avail, strategy) ==
  \A i \in DOMAIN plan, n \in DOMAIN avail :
    Preferred(strategy, n, plan[i].node) =>
      \E j \in DOMAIN plan : plan[j] = Leg(n, avail[n])

(* ... and, under FEWEST_SPLITS, uses as few nodes as can cover as much.    *)
Fewest(plan, avail) ==
  \A S \in SUBSET DOMAIN avail :
    Sum(avail, S) >= Planned(plan) => Cardinality(S) >= Len(plan)

(* The plan an open transaction works on keeps these promises. *)
PlanKept(c) ==
  At(c, "apply") =>
    /\ tx[c].line <= Len(world.lines[OrderOf(c)]) /\ tx[c].leg <= Len(tx[c].plan) + 1
    /\ Covers(tx[c].plan, tx[c].seen, Line_(c).quantity)
    /\ Honours(tx[c].plan, tx[c].seen, tx[c].strategy)
    /\ tx[c].strategy = "FEWEST_SPLITS" => Fewest(tx[c].plan, tx[c].seen)

(* What the transaction of c has taken so far: the allocations of earlier   *)
(* lines, and those the applied legs of this line will become.              *)
AllocOf(c, i) ==
  [call |-> c, line |-> tx[c].line, row |-> <<Line_(c).sku, tx[c].plan[i].node>>,
   quantity |-> tx[c].plan[i].quantity]
Applied(c) ==
  IF At(c, "apply") THEN { AllocOf(c, i) : i \in 1 .. tx[c].leg - 1 } ELSE {}
Taken(c) == tx[c].mine \cup Applied(c)

(* Its own changes of a row are the hold it gave back less what it took;    *)
(* it changes only rows it has locked, takes no more than there is and      *)
(* gives back no more than is reserved.                                     *)
Back(c, r) == IF r \in tx[c].released THEN tx[c].holds[r] ELSE 0
Books(c) ==
  \A r \in Rows :
    /\ tx[c].delta[r] = Back(c, r) - AllocatedOn(Taken(c), r)
    /\ lock[r] = c => ~ At(c, "idle") /\ free[r] + tx[c].delta[r] >= 0
    /\ lock[r] # c => tx[c].delta[r] = 0
    /\ r \in tx[c].released => lock[r] = c /\ tx[c].holds[r] <= reserved[r]

(* The holds it has read still stand, or another sourcing of its order has  *)
(* consumed them.                                                           *)
Stage(c) ==
  /\ At(c, "idle") => tx[c] = NoTx
  /\ ~ At(c, "idle") => tx[c].strategy \in Strategies
  /\ At(c, "begin") => tx[c].released = {}
  /\ tx[c].at \in {"release", "plan", "apply"} =>
       \A r \in Rows : held[OrderOf(c)][r] \in {0, tx[c].holds[r]}
  /\ tx[c].at \in {"plan", "apply"} =>
       \A r \in Rows \ tx[c].released : tx[c].holds[r] = 0
  /\ IsFiniteSet(tx[c].mine)
  /\ \A a \in tx[c].mine : a.call = c /\ a.line < tx[c].line

(* Only an allocated order has allocations, and the sourcing that made them *)
(* is over.                                                                 *)
Owned ==
  \A a \in allocs : status[OrderOf(a.call)] = "ALLOCATED" /\ At(a.call, "idle")

(* While no two sourcings have overlapped, the one that is open counts      *)
(* every allocation, and a node it still plans to use is below its cap.     *)
CountAt(A, n) == Cardinality({ a \in A : a.row[2] = n })
CapKept ==
  ~ overlap =>
    /\ \A c, p \in Calls : c # p => At(c, "idle") \/ At(p, "idle")
    /\ \A c \in Calls, n \in Nodes : world.capacity[n] # Null =>
         /\ CountAt(allocs \cup Taken(c), n) <= world.capacity[n]
         /\ \A i \in tx[c].leg .. Len(tx[c].plan) :
              At(c, "apply") /\ tx[c].plan[i].node = n
                => CountAt(allocs \cup Taken(c), n) < world.capacity[n]

Inv ==
  /\ Types /\ Owned /\ UnitsConserved /\ CapKept
  /\ \A c \in Calls : Stage(c) /\ Books(c) /\ PlanKept(c)

-----------------------------------------------------------------------------
(* The planner *)

(* What the assumptions say of the world at hand. *)
LEMMA WorldFacts ==
  ASSUME world \in Worlds
  PROVE  /\ world.priority \in [Nodes -> Nat]
         /\ \A n \in Nodes : Distance(n) \in Nat
         /\ \A n \in Nodes : world.distance[n] # Null =>
              Distance(n) = world.distance[n] /\ Distance(n) < Infinity
         /\ \A n \in Nodes : world.distance[n] = Null => Distance(n) = Infinity
         /\ world.free \in [Rows -> Nat]
         /\ world.capacity \in [Nodes -> Nat \cup {Null}]
         /\ world.lines \in [Orders -> Seq(Line)]
         /\ world.held \in [Orders -> [Rows -> Nat]]
         /\ world.backorder \in [Orders -> BOOLEAN]
         /\ \A c \in Calls : OrderOf(c) \in Orders
<1>1. world \in World
  BY SourcingAssumption
<1>2. \A n \in Nodes : world.distance[n] \in Nat \cup {Null}
  BY <1>1 DEF World
<1>3. \A n \in Nodes : world.distance[n] = Null \/ world.distance[n] < Infinity
  BY SourcingAssumption
<1>4. \A n \in Nodes : world.distance[n] # Null =>
        Distance(n) = world.distance[n] /\ Distance(n) < Infinity
  BY <1>3 DEF Distance
<1>5. \A n \in Nodes : world.distance[n] = Null => Distance(n) = Infinity
  BY DEF Distance
<1>6. \A n \in Nodes : Distance(n) \in Nat
  BY <1>2, <1>4, <1>5 DEF Infinity
<1>7. \A c \in Calls : OrderOf(c) \in Orders
  BY <1>1 DEF World, OrderOf
<1> QED BY <1>1, <1>4, <1>5, <1>6, <1>7 DEF World

(* The first keys of two triples in order. *)
LEMMA LexFirst ==
  ASSUME NEW x1 \in Int, NEW x2 \in Int, NEW x3 \in Int,
         NEW y1 \in Int, NEW y2 \in Int, NEW y3 \in Int,
         LexLeq(<<x1, x2, x3>>, <<y1, y2, y3>>)
  PROVE  x1 <= y1 /\ (x1 = y1 => x2 <= y2)
<1> DEFINE x == <<x1, x2, x3>>
           y == <<y1, y2, y3>>
<1>1. CASE x = y
  BY <1>1
<1>2. CASE x # y
  <2>1. PICK i \in 1 .. 3 : x[i] < y[i] /\ \A j \in 1 .. i - 1 : x[j] = y[j]
    BY <1>2 DEF LexLeq
  <2>2. CASE i = 1
    BY <2>1, <2>2
  <2>3. CASE i = 2
    <3>1. 1 \in 1 .. i - 1
      BY <2>3
    <3>2. x[1] = y[1] /\ x[2] < y[2]
      BY <2>1, <2>3, <3>1
    <3> QED BY <3>2
  <2>4. CASE i = 3
    <3>1. 1 \in 1 .. i - 1 /\ 2 \in 1 .. i - 1
      BY <2>4
    <3>2. x[1] = y[1] /\ x[2] = y[2]
      BY <2>1, <3>1
    <3> QED BY <3>2
  <2> QED BY <2>1, <2>2, <2>3, <2>4
<1> QED BY <1>1, <1>2

(* What the candidates' order means under each strategy. *)
LEMMA SortedOrder ==
  ASSUME world \in Worlds, NEW strategy \in Strategies,
         NEW C \in SUBSET Nodes, NEW avail \in [C -> Nat \ {0}],
         NEW a \in C, NEW b \in C,
         LexLeq(SortKey(strategy, a, avail), SortKey(strategy, b, avail))
  PROVE  /\ ~ Preferred(strategy, b, a)
         /\ strategy = "FEWEST_SPLITS" => avail[b] <= avail[a]
<1>1. /\ Distance(a) \in Int /\ Distance(b) \in Int
      /\ world.priority[a] \in Int /\ world.priority[b] \in Int
      /\ avail[a] \in Int /\ avail[b] \in Int /\ -avail[a] \in Int /\ -avail[b] \in Int
  BY WorldFacts
<1>2. Nearer(b, a) => Distance(b) < Distance(a)
  BY WorldFacts DEF Nearer
<1>3. CASE strategy = "NEAREST"
  <2>1. LexLeq(<<Distance(a), world.priority[a], -avail[a]>>,
               <<Distance(b), world.priority[b], -avail[b]>>)
    BY <1>3 DEF SortKey
  <2>2. Distance(a) <= Distance(b)
    BY <1>1, <2>1, LexFirst
  <2> QED BY <1>1, <1>2, <1>3, <2>2 DEF Preferred
<1>4. CASE strategy = "PRIORITY"
  <2>1. LexLeq(<<world.priority[a], -avail[a], 0>>, <<world.priority[b], -avail[b], 0>>)
    BY <1>4 DEF SortKey
  <2>2. world.priority[a] <= world.priority[b]
    BY <1>1, <2>1, LexFirst
  <2> QED BY <1>1, <1>4, <2>2 DEF Preferred, Before
<1>5. CASE strategy = "FEWEST_SPLITS"
  <2>1. LexLeq(<<-avail[a], world.priority[a], 0>>, <<-avail[b], world.priority[b], 0>>)
    BY <1>5 DEF SortKey
  <2>2. -avail[a] <= -avail[b]
    BY <1>1, <2>1, LexFirst
  <2>3. ~ Preferred(strategy, b, a)
    BY <1>5 DEF Preferred
  <2> QED BY <1>1, <2>2, <2>3
<1>6. CASE strategy = "BALANCED"
  <2>1. LexLeq(<<world.priority[a], Distance(a), -avail[a]>>,
               <<world.priority[b], Distance(b), -avail[b]>>)
    BY <1>6 DEF SortKey
  <2>2. /\ world.priority[a] <= world.priority[b]
        /\ world.priority[a] = world.priority[b] => Distance(a) <= Distance(b)
    BY <1>1, <2>1, LexFirst
  <2> QED BY <1>1, <1>2, <1>6, <2>2 DEF Preferred, Before
<1> QED BY <1>3, <1>4, <1>5, <1>6 DEF Strategies

(* The lesser of two numbers. *)
LEMMA MinOfTwo ==
  ASSUME NEW x \in Int, NEW y \in Int
  PROVE  Min({x, y}) = IF x < y THEN x ELSE y
<1> DEFINE m == IF x < y THEN x ELSE y
<1>1. m \in {x, y} /\ \A z \in {x, y} : m <= z
  OBVIOUS
<1>2. \A n \in {x, y} : (\A z \in {x, y} : n <= z) => n = m
  OBVIOUS
<1>3. PICK k : k = Min({x, y})
  OBVIOUS
<1>4. k \in {x, y} /\ \A z \in {x, y} : k <= z
  BY <1>1, <1>3 DEF Min
<1> QED BY <1>2, <1>3, <1>4

(* A single node that covers the line. *)
LEMMA SinglePlan ==
  ASSUME NEW C \in SUBSET Nodes, NEW avail \in [C -> Nat \ {0}],
         NEW q \in Nat \ {0}, NEW n \in C, avail[n] >= q,
         NEW plan, plan = <<Leg(n, q)>>
  PROVE  Covers(plan, avail, q) /\ Fewest(plan, avail)
<1>1. IsFiniteSet(C) /\ DOMAIN avail = C
  BY SourcingAssumption, FS_Subset
<1>2. Leg(n, q) \in PlanLeg /\ plan \in Seq(PlanLeg) /\ DOMAIN plan = {1} /\ Len(plan) = 1
      /\ plan[1] = Leg(n, q) /\ plan[1].node = n /\ plan[1].quantity = q
  BY DEF Leg, PlanLeg
<1>3. Planned(plan) = q
  <2> DEFINE F == [i \in DOMAIN plan |-> plan[i].quantity]
  <2>1. F[1] = q /\ F[1] \in Int
    BY <1>2
  <2>2. Sum(F, {}) = 0 /\ IsFiniteSet({}) /\ 1 \notin {}
    BY SumEmpty, FS_EmptySet
  <2>3. Sum(F, {} \cup {1}) = Sum(F, {}) + F[1]
    <3> HIDE DEF F
    <3>1. \A x \in {} \cup {1} : F[x] \in Int
      BY <2>1
    <3> QED BY <2>2, <3>1, SumInsert
  <2>4. {} \cup {1} = DOMAIN plan
    BY <1>2
  <2> QED BY <2>1, <2>2, <2>3, <2>4 DEF Planned
<1>4. Sum(avail, C) >= q /\ Sum(avail, C) \in Int
  <2>1. \A x \in C : avail[x] \in Int
    OBVIOUS
  <2>2. PICK R : R = C \ {n}
    OBVIOUS
  <2>3. IsFiniteSet(R) /\ n \notin R /\ R \cup {n} = C
    BY <1>1, <2>2, FS_Subset
  <2>4. Sum(avail, R \cup {n}) = Sum(avail, R) + avail[n]
    BY <2>1, <2>3, SumInsert
  <2>5. Sum(avail, R) \in Nat
    <3>1. \A x \in R : avail[x] \in Nat
      BY <2>3
    <3> QED BY <2>3, <3>1, SumNat
  <2> QED BY <2>3, <2>4, <2>5
<1>5. Planned(plan) = Min({q, Sum(avail, DOMAIN avail)})
  BY <1>1, <1>3, <1>4, MinOfTwo
<1>6. Covers(plan, avail, q)
  BY <1>1, <1>2, <1>5 DEF Covers
<1>7. ASSUME NEW S \in SUBSET DOMAIN avail, Sum(avail, S) >= Planned(plan)
      PROVE  Cardinality(S) >= Len(plan)
  <2>1. S # {}
    BY <1>3, <1>7, SumEmpty
  <2>2. IsFiniteSet(S) /\ Cardinality(S) \in Nat
    BY <1>1, FS_Subset, FS_CardinalityType
  <2>3. Cardinality(S) # 0
    BY <2>1, <2>2, FS_EmptySet
  <2> QED BY <1>2, <2>2, <2>3
<1> QED BY <1>6, <1>7 DEF Fewest

(* The candidates one after the other. *)
LEMMA GreedyPlan ==
  ASSUME world \in Worlds, NEW strategy \in Strategies,
         NEW C \in SUBSET Nodes, NEW avail \in [C -> Nat \ {0}],
         NEW q \in Nat \ {0}, NEW s \in Sorted(strategy, avail),
         NEW plan, plan = Greedy(s, avail, q)
  PROVE  /\ Covers(plan, avail, q) /\ Honours(plan, avail, strategy)
         /\ strategy = "FEWEST_SPLITS" => Fewest(plan, avail)
<1>1. IsFiniteSet(C) /\ DOMAIN avail = C /\ Cardinality(C) \in Nat
  BY SourcingAssumption, FS_Subset, FS_CardinalityType
<1>2. PICK n \in Nat : n = Cardinality(C)
  BY <1>1
<1>3. /\ s \in [1 .. n -> C] /\ DOMAIN s = 1 .. n
      /\ \A i, j \in 1 .. n : i # j => s[i] # s[j]
      /\ \A i, j \in 1 .. n : i < j =>
           LexLeq(SortKey(strategy, s[i], avail), SortKey(strategy, s[j], avail))
  BY <1>1, <1>2 DEF Sorted, SetToSeqs
<1>4. Lists(s, C, n) /\ Stocked(avail, C)
  <2>1. \A i \in 1 .. n : s[i] \in C
    BY <1>3
  <2>2. \A i, j \in 1 .. n : s[i] = s[j] => i = j
    BY <1>3
  <2>3. Stocked(avail, C)
    BY DEF Stocked
  <2> QED BY <1>1, <1>2, <1>3, <2>1, <2>2, <2>3 DEF Lists
<1>5. Offers(s, avail, n) /\ Firsts(s, n) = C /\ Given(s, avail, n) = Sum(avail, C)
  BY <1>4, GivenAll
<1>6. PICK k : k = Cardinality(Visited(s, avail, q))
  OBVIOUS
<1>7. /\ k \in 0 .. n /\ DOMAIN plan = 1 .. k
      /\ \A i \in 1 .. k :
           /\ plan[i] = Leg(s[i], plan[i].quantity) /\ plan[i].node = s[i]
           /\ plan[i].quantity \in 1 .. avail[s[i]]
           /\ i < k => plan[i].quantity = avail[s[i]]
      /\ Planned(plan) = IF q < Given(s, avail, n) THEN q ELSE Given(s, avail, n)
      /\ k > 0 => Given(s, avail, k - 1) < Planned(plan)
  <2>1. TakesInTurn(plan, s, avail, q, n, k)
    BY <1>5, <1>6, GreedyLegs
  <2> QED BY <2>1 DEF TakesInTurn
<1>8. plan \in Seq(PlanLeg) /\ Len(plan) = k
  <2>1. ASSUME NEW i \in 1 .. k PROVE plan[i] \in PlanLeg
    <3>1. i \in 1 .. n /\ s[i] \in Nodes /\ avail[s[i]] \in Nat
      BY <1>3, <1>7
    <3>2. plan[i].quantity \in Nat \ {0} /\ plan[i] = Leg(s[i], plan[i].quantity)
      BY <1>7, <3>1
    <3> QED BY <3>1, <3>2 DEF Leg, PlanLeg
  <2>2. plan \in [1 .. k -> PlanLeg]
    <3>1. plan = [i \in 1 .. k |-> plan[i]]
      BY <1>6 DEF Greedy
    <3> QED BY <2>1, <3>1
  <2>3. k \in Nat
    BY <1>7
  <2>4. plan \in Seq(PlanLeg)
    BY <2>2, <2>3, SeqDef
  <2> QED BY <2>2, <2>3, <2>4, LenProperties
<1>9. Planned(plan) = Min({q, Sum(avail, DOMAIN avail)})
  <2>1. Sum(avail, C) \in Int
    BY <1>1, SumType
  <2> QED BY <1>1, <1>5, <1>7, <2>1, MinOfTwo
<1>10. \A i \in 1 .. k : i \in 1 .. n /\ s[i] \in C
  BY <1>3, <1>7
<1>11. Covers(plan, avail, q)
  <2>1. \A i \in DOMAIN plan : /\ plan[i].node \in DOMAIN avail
                               /\ plan[i].quantity \in 1 .. avail[plan[i].node]
    BY <1>1, <1>7, <1>10
  <2>2. \A i, j \in DOMAIN plan : plan[i].node = plan[j].node => i = j
    BY <1>3, <1>7, <1>10
  <2> QED BY <1>8, <1>9, <2>1, <2>2 DEF Covers
<1>12. Honours(plan, avail, strategy)
  <2>1. ASSUME NEW i \in DOMAIN plan, NEW c \in DOMAIN avail,
               Preferred(strategy, c, plan[i].node)
        PROVE  \E j \in DOMAIN plan : plan[j] = Leg(c, avail[c])
    <3>1. PICK j \in 1 .. n : s[j] = c
      BY <1>1, <1>5 DEF Firsts
    <3>2. i \in 1 .. k /\ i \in 1 .. n /\ s[i] \in C /\ plan[i].node = s[i] /\ s[j] \in C
      BY <1>3, <1>7, <1>10
    <3>3. ~ (i < j)
      <4>1. i < j => LexLeq(SortKey(strategy, s[i], avail), SortKey(strategy, s[j], avail))
        BY <1>3, <3>2
      <4> QED BY <2>1, <3>1, <3>2, <4>1, SortedOrder
    <3>4. i # j
      <4>1. ~ Preferred(strategy, c, c)
        <5>1. LexLeq(SortKey(strategy, c, avail), SortKey(strategy, c, avail))
          BY DEF LexLeq
        <5> QED BY <1>1, <5>1, SortedOrder
      <4> QED BY <2>1, <3>1, <3>2, <4>1
    <3>5. j \in 1 .. k /\ j < k
      BY <1>7, <3>2, <3>3, <3>4
    <3> QED BY <1>7, <3>1, <3>5
  <2> QED BY <2>1 DEF Honours
<1>13. ASSUME strategy = "FEWEST_SPLITS" PROVE Fewest(plan, avail)
  <2>1. \A i, j \in 1 .. n : i < j => avail[s[j]] <= avail[s[i]]
    <3> SUFFICES ASSUME NEW i \in 1 .. n, NEW j \in 1 .. n, i < j
                 PROVE  avail[s[j]] <= avail[s[i]]
      OBVIOUS
    <3>1. s[i] \in C /\ s[j] \in C
          /\ LexLeq(SortKey(strategy, s[i], avail), SortKey(strategy, s[j], avail))
      BY <1>3
    <3> QED BY <1>13, <3>1, SortedOrder
  <2>2. ASSUME NEW S \in SUBSET C, ~ (Cardinality(S) >= k)
        PROVE  ~ (Sum(avail, S) >= Planned(plan))
    <3>1. IsFiniteSet(S) /\ Cardinality(S) \in Nat
      BY <1>1, FS_Subset, FS_CardinalityType
    <3>2. k > 0 /\ k - 1 \in 0 .. n /\ Cardinality(S) <= k - 1
      BY <1>7, <2>2, <3>1
    <3>3. Sum(avail, S) <= Given(s, avail, k - 1)
      BY <1>4, <2>1, <3>2, LargestFirst
    <3>4. Given(s, avail, k - 1) \in Nat /\ Given(s, avail, n) \in Nat
      <4>1. \A i \in 0 .. n : Given(s, avail, i) \in Nat
        BY <1>5, GivenStep
      <4> QED BY <3>2, <4>1
    <3>5. Sum(avail, S) \in Int
      <4>1. \A x \in S : avail[x] \in Int
        OBVIOUS
      <4> QED BY <3>1, <4>1, SumType
    <3>6. Given(s, avail, k - 1) < Planned(plan) /\ Planned(plan) \in Int
      BY <1>7, <3>2, <3>4
    <3> QED BY <3>3, <3>4, <3>5, <3>6
  <2> QED BY <1>1, <1>8, <2>2 DEF Fewest
<1> QED BY <1>11, <1>12, <1>13

(* Every plan planLine may make. *)
LEMMA PlanPromises ==
  ASSUME world \in Worlds, NEW strategy \in Strategies,
         NEW avail \in Supply, NEW q \in Nat \ {0},
         NEW plan \in Plans(strategy, avail, q)
  PROVE  /\ Covers(plan, avail, q) /\ Honours(plan, avail, strategy)
         /\ strategy = "FEWEST_SPLITS" => Fewest(plan, avail)
<1>1. PICK C \in SUBSET Nodes : avail \in [C -> Nat \ {0}]
  BY DEF Supply
<1>2. CASE \E n \in C : avail[n] >= q /\ plan = <<Leg(n, q)>> /\ strategy = "FEWEST_SPLITS"
  <2>1. PICK n \in C : avail[n] >= q /\ plan = <<Leg(n, q)>>
    BY <1>2
  <2>2. Covers(plan, avail, q) /\ Fewest(plan, avail)
    BY <1>1, <2>1, SinglePlan
  <2>3. Honours(plan, avail, strategy)
    BY <1>2 DEF Honours, Preferred
  <2> QED BY <2>2, <2>3
<1>3. CASE \E s \in Sorted(strategy, avail) : plan = Greedy(s, avail, q)
  BY <1>1, <1>3, GreedyPlan
<1>4. \/ \E n \in C : avail[n] >= q /\ plan = <<Leg(n, q)>> /\ strategy = "FEWEST_SPLITS"
      \/ \E s \in Sorted(strategy, avail) : plan = Greedy(s, avail, q)
  BY <1>1 DEF Plans
<1> QED BY <1>2, <1>3, <1>4

-----------------------------------------------------------------------------
(* Allocations, holds and counts *)

(* No allocations take nothing. *)
LEMMA AllocatedNone ==
  ASSUME NEW r
  PROVE  AllocatedOn({}, r) = 0
<1>1. { a \in {} : a.row = r } = {}
  OBVIOUS
<1> QED BY <1>1, SumEmpty DEF AllocatedOn

(* What allocations take is a natural number of units. *)
LEMMA AllocatedNat ==
  ASSUME NEW A \in SUBSET Alloc, IsFiniteSet(A), NEW r
  PROVE  AllocatedOn(A, r) \in Nat
<1> DEFINE S == { a \in A : a.row = r }
           F == [a \in S |-> a.quantity]
<1>1. IsFiniteSet(S) /\ \A a \in S : F[a] \in Nat
  BY FS_Subset DEF Alloc
<1>2. Sum(F, S) \in Nat
  <2> HIDE DEF S, F
  <2> QED BY <1>1, SumNat
<1> QED BY <1>2 DEF AllocatedOn

(* Disjoint sets of allocations take what each takes. *)
LEMMA AllocatedUnion ==
  ASSUME NEW A \in SUBSET Alloc, IsFiniteSet(A), NEW B \in SUBSET Alloc, IsFiniteSet(B),
         A \cap B = {}, NEW r
  PROVE  AllocatedOn(A \cup B, r) = AllocatedOn(A, r) + AllocatedOn(B, r)
<1> DEFINE S == { a \in A : a.row = r }
           T == { a \in B : a.row = r }
           U == { a \in A \cup B : a.row = r }
           F == [a \in S |-> a.quantity]
           G == [a \in T |-> a.quantity]
           H == [a \in U |-> a.quantity]
<1>1. /\ IsFiniteSet(S) /\ IsFiniteSet(T) /\ S \cap T = {} /\ U = S \cup T
      /\ \A a \in S \cup T : H[a] \in Int
      /\ \A a \in S : F[a] = H[a]
      /\ \A a \in T : G[a] = H[a]
  BY FS_Subset DEF Alloc
<1>2. /\ AllocatedOn(A, r) = Sum(F, S) /\ AllocatedOn(B, r) = Sum(G, T)
      /\ AllocatedOn(A \cup B, r) = Sum(H, U)
  BY DEF AllocatedOn
<1> HIDE DEF S, T, U, F, G, H
<1>3. Sum(H, S \cup T) = Sum(H, S) + Sum(H, T)
  BY <1>1, SumUnion
<1>4. Sum(F, S) = Sum(H, S)
  <2>1. \A a \in S : F[a] = H[a] /\ F[a] \in Int
    BY <1>1
  <2> QED BY <1>1, <2>1, SumSame
<1>5. Sum(G, T) = Sum(H, T)
  <2>1. \A a \in T : G[a] = H[a] /\ G[a] \in Int
    BY <1>1
  <2> QED BY <1>1, <2>1, SumSame
<1> QED BY <1>1, <1>2, <1>3, <1>4, <1>5

(* One allocation more. *)
LEMMA AllocatedAdd ==
  ASSUME NEW A \in SUBSET Alloc, IsFiniteSet(A), NEW a \in Alloc, a \notin A, NEW r
  PROVE  AllocatedOn(A \cup {a}, r)
           = AllocatedOn(A, r) + IF a.row = r THEN a.quantity ELSE 0
<1>1. IsFiniteSet({a}) /\ {a} \in SUBSET Alloc /\ A \cap {a} = {}
  BY FS_Singleton
<1>2. AllocatedOn(A \cup {a}, r) = AllocatedOn(A, r) + AllocatedOn({a}, r)
  BY <1>1, AllocatedUnion
<1>3. AllocatedOn({a}, r) = IF a.row = r THEN a.quantity ELSE 0
  <2>1. CASE a.row # r
    <3>1. { x \in {a} : x.row = r } = {}
      BY <2>1
    <3> QED BY <2>1, <3>1, SumEmpty DEF AllocatedOn
  <2>2. CASE a.row = r
    <3> DEFINE F == [x \in {a} |-> x.quantity]
    <3>1. { x \in {a} : x.row = r } = {a}
      BY <2>2
    <3>2. F[a] = a.quantity /\ F[a] \in Int
      BY DEF Alloc
    <3>3. Sum(F, {} \cup {a}) = Sum(F, {}) + F[a] /\ Sum(F, {}) = 0
      <4> HIDE DEF F
      <4>1. \A x \in {} \cup {a} : F[x] \in Int
        BY <3>2
      <4> QED BY <4>1, SumInsert, SumEmpty, FS_EmptySet
    <3>4. {} \cup {a} = {a}
      OBVIOUS
    <3>5. Sum(F, {a}) = a.quantity
      BY <3>2, <3>3, <3>4
    <3> QED BY <2>2, <3>1, <3>5 DEF AllocatedOn
  <2> QED BY <2>1, <2>2
<1> QED BY <1>2, <1>3

(* What the orders hold of a row, and what is left of it when one order's   *)
(* holds are gone.                                                          *)
LEMMA HeldNat ==
  ASSUME NEW h \in [Orders -> [Rows -> Nat]], NEW r \in Rows
  PROVE  HeldOn(h, r) \in Nat
<1> DEFINE F == [o \in Orders |-> h[o][r]]
<1>1. IsFiniteSet(Orders) /\ \A o \in Orders : F[o] \in Nat
  BY SourcingAssumption
<1>2. Sum(F, Orders) \in Nat
  <2> HIDE DEF F
  <2> QED BY <1>1, SumNat
<1> QED BY <1>2 DEF HeldOn

(* A row loses the units an order held on it. *)
LEMMA HeldGone ==
  ASSUME NEW h \in [Orders -> [Rows -> Nat]], NEW o \in Orders, NEW r \in Rows
  PROVE  HeldOn([h EXCEPT ![o] = NoDelta], r) = HeldOn(h, r) - h[o][r]
<1> DEFINE F == [x \in Orders |-> h[x][r]]
           G == [x \in Orders |-> [h EXCEPT ![o] = NoDelta][x][r]]
<1>1. /\ IsFiniteSet(Orders) /\ F[o] = h[o][r] /\ G[o] = 0
      /\ \A x \in Orders : F[x] \in Int
      /\ \A x \in Orders \ {o} : G[x] = F[x]
      /\ G[o] \in Int
  BY SourcingAssumption DEF NoDelta
<1>2. HeldOn(h, r) = Sum(F, Orders) /\ HeldOn([h EXCEPT ![o] = NoDelta], r) = Sum(G, Orders)
  BY DEF HeldOn
<1> HIDE DEF F, G
<1>3. Sum(G, Orders) = Sum(F, Orders) - F[o] + G[o] /\ Sum(F, Orders) \in Int
  BY <1>1, SumChange, SumType
<1> QED BY <1>1, <1>2, <1>3

(* Counting the allocations at a node. *)
LEMMA CountMonotone ==
  ASSUME NEW A, IsFiniteSet(A), NEW B \in SUBSET A, NEW n
  PROVE  CountAt(B, n) <= CountAt(A, n) /\ CountAt(A, n) \in Nat /\ CountAt(B, n) \in Nat
<1> DEFINE S == { a \in A : a.row[2] = n }
           T == { a \in B : a.row[2] = n }
<1>1. IsFiniteSet(S) /\ T \in SUBSET S
  BY FS_Subset
<1>2. Cardinality(T) <= Cardinality(S) /\ IsFiniteSet(T)
  BY <1>1, FS_Subset
<1>3. Cardinality(S) \in Nat /\ Cardinality(T) \in Nat
  BY <1>1, <1>2, FS_CardinalityType
<1> QED BY <1>2, <1>3 DEF CountAt

(* One more allocation raises the count of its node only. *)
LEMMA CountAdd ==
  ASSUME NEW A, IsFiniteSet(A), NEW a, NEW n
  PROVE  /\ CountAt(A \cup {a}, n) <= CountAt(A, n) + 1
         /\ a.row[2] # n => CountAt(A \cup {a}, n) = CountAt(A, n)
<1> DEFINE S == { x \in A : x.row[2] = n }
           T == { x \in A \cup {a} : x.row[2] = n }
<1>1. IsFiniteSet(S) /\ Cardinality(S) \in Nat
  BY FS_Subset, FS_CardinalityType
<1>2. CASE a.row[2] # n
  <2>1. T = S
    BY <1>2
  <2>2. CountAt(A \cup {a}, n) = CountAt(A, n)
    BY <2>1 DEF CountAt
  <2>3. CountAt(A, n) \in Nat
    BY <1>1 DEF CountAt
  <2> QED BY <1>2, <2>2, <2>3
<1>3. CASE a.row[2] = n
  <2>1. T = S \cup {a}
    BY <1>3
  <2>2. Cardinality(S \cup {a}) <= Cardinality(S) + 1
    <3> HIDE DEF S
    <3>1. CASE a \in S
      <4>1. S \cup {a} = S
        BY <3>1
      <4>2. Cardinality(S \cup {a}) = Cardinality(S)
        BY <4>1
      <4> QED BY <1>1, <4>2
    <3>2. CASE a \notin S
      <4>1. Cardinality(S \cup {a}) = Cardinality(S) + 1
        BY <1>1, <3>2, FS_AddElement
      <4> QED BY <1>1, <4>1
    <3> QED BY <3>1, <3>2
  <2> QED BY <1>3, <2>1, <2>2 DEF CountAt
<1> QED BY <1>2, <1>3

-----------------------------------------------------------------------------
(* Steps *)

CallInv(c) == Stage(c) /\ Books(c) /\ PlanKept(c)

(* A transaction that has not begun, or has only just begun. *)
Blank(t) ==
  /\ t \in Tx /\ t.at \in {"idle", "begin"}
  /\ t.at = "idle" => t = NoTx
  /\ t.at = "begin" => t.strategy \in Strategies
  /\ t.mine = {} /\ t.released = {} /\ t.delta = NoDelta

(* The columns of a transaction. *)
LEMMA Fields ==
  ASSUME NEW t \in Tx
  PROVE  /\ t.delta \in [Rows -> Int] /\ t.released \in SUBSET Rows
         /\ t.holds \in [Rows -> Nat] /\ t.mine \in SUBSET Alloc /\ t.line \in Nat \ {0} /\ t.leg \in Nat \ {0}
         /\ t.plan \in Seq(PlanLeg) /\ t.seen \in Supply /\ t.attempt \in 1 .. MaxAttempts
         /\ Len(t.plan) \in Nat
<1>1. t.plan \in Seq(PlanLeg)
  BY DEF Tx
<1>2. Len(t.plan) \in Nat
  BY <1>1, LenProperties
<1>3. /\ t.delta \in [Rows -> Int] /\ t.released \in SUBSET Rows /\ t.mine \in SUBSET Alloc
      /\ t.holds \in [Rows -> Nat]
  BY DEF Tx
<1>4. t.line \in Nat \ {0} /\ t.leg \in Nat \ {0} /\ t.seen \in Supply
      /\ t.attempt \in 1 .. MaxAttempts
  BY DEF Tx
<1> QED BY <1>1, <1>2, <1>3, <1>4

(* The empty plan and the empty supply are such. *)
LEMMA EmptyPlan == << >> \in Supply /\ << >> \in Seq(PlanLeg)
<1>1. << >> \in [{} -> Nat \ {0}]
  OBVIOUS
<1>2. PICK e, N : e = << >> /\ N = Nat \ {0}
  OBVIOUS
<1>3. e \in [{} -> N] /\ {} \in SUBSET Nodes
  BY <1>1, <1>2
<1>4. e \in UNION { [S -> N] : S \in SUBSET Nodes }
  BY <1>3
<1>5. << >> \in Seq(PlanLeg)
  OBVIOUS
<1> QED BY <1>2, <1>4, <1>5 DEF Supply

(* No transaction has changed nothing. *)
LEMMA NoTxBlank == Blank(NoTx) /\ NoTx \in Tx
<1>1. NoDelta \in [Rows -> Int] /\ NoDelta \in [Rows -> Nat]
  BY DEF NoDelta
<1>2. 1 \in 1 .. MaxAttempts
  BY SourcingAssumption
<1>3. NoTx \in Tx
  BY <1>1, <1>2, EmptyPlan DEF NoTx, Tx
<1> QED BY <1>3 DEF Blank, NoTx

(* A transaction that starts has changed nothing. *)
LEMMA FreshBlank ==
  ASSUME NEW s \in Strategies, NEW n \in 1 .. MaxAttempts
  PROVE  Blank([NoTx EXCEPT !.at = "begin", !.strategy = s, !.attempt = n])
<1>1. NoDelta \in [Rows -> Int] /\ NoDelta \in [Rows -> Nat]
  BY DEF NoDelta
<1>2. PICK t : t = [NoTx EXCEPT !.at = "begin", !.strategy = s, !.attempt = n]
  OBVIOUS
<1>3. t = [at |-> "begin", strategy |-> s, attempt |-> n, line |-> 1,
           holds |-> NoDelta, seen |-> << >>, plan |-> << >>, leg |-> 1, delta |-> NoDelta,
           released |-> {}, mine |-> {}]
  BY <1>2 DEF NoTx
<1>4. t \in Tx
  <2>1. PICK N \in Tx : N = NoTx
    BY NoTxBlank
  <2>2. t = [[[N EXCEPT !.at = "begin"] EXCEPT !.strategy = s] EXCEPT !.attempt = n]
    BY <1>2, <2>1
  <2>3. s \in Strategies \cup {""}
    OBVIOUS
  <2> QED BY <2>2, <2>3 DEF Tx
<1>5. t.at = "begin" /\ t.strategy = s /\ t.mine = {} /\ t.released = {}
      /\ t.delta = NoDelta
  BY <1>3
<1>6. Blank(t)
  BY <1>4, <1>5 DEF Blank
<1> QED BY <1>2, <1>6

(* A line planned, a leg applied. *)
LEMMA TxPlanned ==
  ASSUME NEW u \in Tx, NEW a \in Supply, NEW P \in Seq(PlanLeg),
         NEW t, t = [u EXCEPT !.at = "apply", !.seen = a, !.plan = P, !.leg = 1]
  PROVE  /\ t \in Tx /\ t.at = "apply" /\ t.seen = a /\ t.plan = P /\ t.leg = 1
         /\ t.strategy = u.strategy /\ t.line = u.line /\ t.delta = u.delta
         /\ t.released = u.released /\ t.holds = u.holds /\ t.mine = u.mine
<1>0. PICK h : h = [u EXCEPT !.at = "apply"]
  OBVIOUS
<1>1. PICK n \in Nat \ {0} : n = 1
  OBVIOUS
<1>1a. PICK b : b = [h EXCEPT !.leg = n]
  OBVIOUS
<1>2. /\ h \in Tx /\ h.at = "apply" /\ h.strategy = u.strategy /\ h.line = u.line
      /\ h.delta = u.delta /\ h.released = u.released /\ h.holds = u.holds /\ h.mine = u.mine
  BY <1>0 DEF Tx
<1>2a. /\ b \in Tx /\ b.at = "apply" /\ b.leg = 1 /\ b.strategy = u.strategy
      /\ b.line = u.line /\ b.delta = u.delta /\ b.released = u.released /\ b.holds = u.holds /\ b.mine = u.mine
  BY <1>1, <1>1a, <1>2 DEF Tx
<1>3. PICK c : c = [b EXCEPT !.seen = a]
  OBVIOUS
<1>4. /\ c \in Tx /\ c.at = "apply" /\ c.leg = 1 /\ c.strategy = u.strategy /\ c.seen = a
      /\ c.line = u.line /\ c.delta = u.delta /\ c.released = u.released /\ c.holds = u.holds /\ c.mine = u.mine
  BY <1>2a, <1>3 DEF Tx
<1>5. t = [c EXCEPT !.plan = P]
  BY <1>0, <1>1, <1>1a, <1>3 DEF Tx
<1> QED BY <1>4, <1>5 DEF Tx

(* The next leg of a plan. *)
LEMMA TxLeg ==
  ASSUME NEW u \in Tx, NEW d \in [Rows -> Int], NEW n \in Nat \ {0},
         NEW t, t = [u EXCEPT !.delta = d, !.leg = n]
  PROVE  /\ t \in Tx /\ t.delta = d /\ t.leg = n /\ t.at = u.at /\ t.seen = u.seen
         /\ t.plan = u.plan /\ t.strategy = u.strategy /\ t.line = u.line
         /\ t.released = u.released /\ t.holds = u.holds /\ t.mine = u.mine
<1>1. t \in Tx
  BY DEF Tx
<1> QED BY <1>1 DEF Tx

(* What a plan promises does not depend on the state of the transaction.    *)
LEMMA PromisesStay ==
  ASSUME UNCHANGED world, NEW c \in Calls, NEW P, NEW A, NEW s, NEW q,
         tx'[c].plan = P, tx'[c].seen = A, tx'[c].strategy = s, Line_(c)'.quantity = q,
         Covers(P, A, q), Honours(P, A, s), s = "FEWEST_SPLITS" => Fewest(P, A),
         tx'[c].line <= Len(world.lines[OrderOf(c)]), tx'[c].leg <= Len(P) + 1
  PROVE  PlanKept(c)'
<1>1. \A a, b : Preferred(tx[c].strategy, a, b)' <=> Preferred(s, a, b)
  BY DEF Preferred, Nearer, Before
<1>2. Honours(tx[c].plan, tx[c].seen, tx[c].strategy)'
  BY <1>1 DEF Honours, Leg
<1>3. Covers(tx[c].plan, tx[c].seen, Line_(c).quantity)'
  BY DEF Covers
<1>4. tx'[c].strategy = "FEWEST_SPLITS" => Fewest(tx[c].plan, tx[c].seen)'
  BY DEF Fewest
<1> QED BY <1>2, <1>3, <1>4 DEF PlanKept, OrderOf

(* The line at hand. *)
LEMMA LineType ==
  ASSUME Types, NEW c \in Calls, tx[c].line <= Len(world.lines[OrderOf(c)])
  PROVE  /\ Line_(c).sku \in Skus /\ Line_(c).quantity \in Nat \ {0}
         /\ \A n \in Nodes : <<Line_(c).sku, n>> \in Rows
<1>1. world.lines[OrderOf(c)] \in Seq(Line) /\ tx[c].line \in Nat \ {0}
  BY WorldFacts DEF Types, Tx
<1>2. Line_(c) \in Line
  BY <1>1 DEF Line_
<1> QED BY <1>2 DEF Line, Rows

(* The legs of the plan at hand. *)
LEMMA LegType ==
  ASSUME Types, NEW c \in Calls, PlanKept(c), At(c, "apply"),
         NEW i \in 1 .. Len(tx[c].plan)
  PROVE  /\ tx[c].plan[i] \in PlanLeg /\ tx[c].plan[i].node \in Nodes
         /\ tx[c].plan[i].quantity \in Nat \ {0}
         /\ AllocOf(c, i) \in Alloc
         /\ DOMAIN tx[c].plan = 1 .. Len(tx[c].plan) /\ Len(tx[c].plan) \in Nat
<1>1. tx[c].plan \in Seq(PlanLeg) /\ tx[c].line \in Nat \ {0}
  BY DEF Types, Tx
<1>2. tx[c].plan[i] \in PlanLeg /\ DOMAIN tx[c].plan = 1 .. Len(tx[c].plan)
      /\ Len(tx[c].plan) \in Nat
  BY <1>1
<1>3. tx[c].plan[i].node \in Nodes /\ tx[c].plan[i].quantity \in Nat \ {0}
  BY <1>2 DEF PlanLeg
<1>4. <<Line_(c).sku, tx[c].plan[i].node>> \in Rows
  BY <1>3, LineType DEF PlanKept
<1> QED BY <1>1, <1>2, <1>3, <1>4 DEF AllocOf, Alloc

(* What a transaction has taken is a finite set of allocations. *)
LEMMA TakenFacts ==
  ASSUME Types, NEW c \in Calls, Stage(c), PlanKept(c)
  PROVE  /\ Applied(c) \in SUBSET Alloc /\ IsFiniteSet(Applied(c))
         /\ Taken(c) \in SUBSET Alloc /\ IsFiniteSet(Taken(c))
         /\ \A a \in Taken(c) : a.call = c
<1>0. tx[c].mine \in SUBSET Alloc /\ IsFiniteSet(tx[c].mine)
      /\ \A a \in tx[c].mine : a.call = c
  BY DEF Types, Tx, Stage
<1>1. /\ Applied(c) \in SUBSET Alloc /\ IsFiniteSet(Applied(c))
      /\ \A a \in Applied(c) : a.call = c
  <2>1. CASE At(c, "apply")
    <3>1. tx[c].leg \in Nat \ {0} /\ Len(tx[c].plan) \in Nat /\ tx[c].leg <= Len(tx[c].plan) + 1
      <4>1. tx[c].leg \in Nat \ {0} /\ tx[c].plan \in Seq(PlanLeg)
        BY DEF Types, Tx
      <4> QED BY <2>1, <4>1 DEF PlanKept
    <3>2. PICK D : D = 1 .. tx[c].leg - 1
      OBVIOUS
    <3>3. IsFiniteSet(D) /\ D \subseteq 1 .. Len(tx[c].plan)
      <4>1. tx[c].leg - 1 \in Int
        BY <3>1
      <4>2. IsFiniteSet(1 .. tx[c].leg - 1)
        BY <4>1, FS_Interval
      <4> QED BY <3>1, <3>2, <4>2
    <3>4. Applied(c) = { AllocOf(c, i) : i \in D }
      BY <2>1, <3>2 DEF Applied
    <3>5. \A i \in D : AllocOf(c, i) \in Alloc /\ AllocOf(c, i).call = c
      <4>1. \A i \in D : AllocOf(c, i) \in Alloc
        BY <2>1, <3>3, LegType
      <4> QED BY <4>1 DEF AllocOf
    <3>6. IsFiniteSet(Applied(c))
      <4> DEFINE g == [i \in D |-> AllocOf(c, i)]
      <4>1. g \in Surjection(D, Applied(c))
        BY <3>4 DEF Surjection
      <4> QED BY <3>3, <4>1, FS_Surjection
    <3> QED BY <3>4, <3>5, <3>6
  <2>2. CASE ~ At(c, "apply")
    BY <2>2, FS_EmptySet DEF Applied
  <2> QED BY <2>1, <2>2
<1> QED BY <1>0, <1>1, FS_Union DEF Taken

(* A step of another call leaves the transaction of p as it was, even when  *)
(* it consumes the holds of the same order.                                 *)
LEMMA Untouched ==
  ASSUME Types, NEW p \in Calls, CallInv(p), UNCHANGED world,
         tx'[p] = tx[p],
         \A r \in Rows : held'[OrderOf(p)][r] \in {0, held[OrderOf(p)][r]},
         \A r \in Rows : lock'[r] = p <=> lock[r] = p,
         \A r \in Rows : lock[r] = p => free'[r] = free[r] /\ reserved'[r] = reserved[r]
  PROVE  CallInv(p)' /\ Taken(p)' = Taken(p)
<1>1. Taken(p)' = Taken(p)
  BY DEF Taken, Applied, AllocOf, At, Line_, OrderOf
<1>2. Stage(p)'
  <2>1. OrderOf(p)' = OrderOf(p)
    BY DEF OrderOf
  <2>2. tx[p].at \in {"release", "plan", "apply"} =>
          \A r \in Rows : held'[OrderOf(p)][r] \in {0, tx[p].holds[r]}
    BY DEF CallInv, Stage
  <2> QED BY <2>1, <2>2 DEF CallInv, Stage, At
<1>3. Books(p)'
  <2>1. \A r \in Rows : Back(p, r)' = Back(p, r)
    BY DEF Back
  <2>2. \A r \in Rows : AllocatedOn(Taken(p), r)' = AllocatedOn(Taken(p), r)
    BY <1>1 DEF AllocatedOn
  <2> QED BY <2>1, <2>2 DEF CallInv, Books, At
<1>4. PlanKept(p)'
  <2>1. At(p, "apply")' = At(p, "apply") /\ Line_(p)' = Line_(p)
    BY DEF At, Line_, OrderOf
  <2>2. Honours(tx[p].plan, tx[p].seen, tx[p].strategy)'
          <=> Honours(tx[p].plan, tx[p].seen, tx[p].strategy)
    BY DEF Honours, Preferred, Nearer, Before
  <2> QED BY <2>1, <2>2 DEF CallInv, PlanKept, Covers, Fewest, OrderOf
<1> QED BY <1>1, <1>2, <1>3, <1>4 DEF CallInv

(* The calls other than c while c takes a step of its own. *)
LEMMA OthersKept ==
  ASSUME Inv, NEW c \in Calls, NEW t \in Tx, tx' = [tx EXCEPT ![c] = t],
         UNCHANGED <<world, tables>>,
         t.at # "idle" => \A a \in allocs : a.call # c,
         \A r \in Rows, p \in Calls \ {c} : lock'[r] = p <=> lock[r] = p
  PROVE  /\ \A p \in Calls \ {c} : CallInv(p)' /\ Taken(p)' = Taken(p)
         /\ tx'[c] = t /\ tx' \in [Calls -> Tx]
         /\ UnitsConserved' /\ Owned'
<1>1. \A p \in Calls \ {c} : tx'[p] = tx[p]
  BY DEF Inv, Types
<1>2. ASSUME NEW p \in Calls \ {c} PROVE CallInv(p)' /\ Taken(p)' = Taken(p)
  <2>1. /\ Types /\ CallInv(p) /\ tx'[p] = tx[p] /\ UNCHANGED world
        /\ \A r \in Rows : held'[OrderOf(p)][r] = held[OrderOf(p)][r]
    BY <1>1 DEF Inv, CallInv, tables
  <2>2. \A r \in Rows : lock'[r] = p <=> lock[r] = p
    OBVIOUS
  <2>3. \A r \in Rows : lock[r] = p => free'[r] = free[r] /\ reserved'[r] = reserved[r]
    BY DEF tables
  <2> QED BY <2>1, <2>2, <2>3, Untouched
<1>3. tx'[c] = t /\ tx' \in [Calls -> Tx]
  BY DEF Inv, Types
<1>4. UnitsConserved'
  BY DEF Inv, UnitsConserved, HeldOn, AllocatedOn, tables
<1>5. Owned'
  <2> SUFFICES ASSUME NEW a \in allocs
               PROVE  status[OrderOf(a.call)] = "ALLOCATED" /\ At(a.call, "idle")'
    BY DEF Owned, OrderOf, tables
  <2>1. a.call \in Calls /\ status[OrderOf(a.call)] = "ALLOCATED" /\ At(a.call, "idle")
    BY DEF Inv, Owned, Types, Alloc
  <2> QED BY <1>1, <1>3, <2>1 DEF At
<1> QED BY <1>2, <1>3, <1>4, <1>5

(* The rows that are locked when c lets go of its own. *)
LEMMA UnlockedRows ==
  ASSUME Types, NEW c \in Calls, lock' = Unlocked(c)
  PROVE  /\ lock' \in [Rows -> Calls \cup {Null}]
         /\ \A r \in Rows : lock'[r] # c
         /\ \A r \in Rows, p \in Calls \ {c} : lock'[r] = p <=> lock[r] = p
<1>1. Null \notin Calls
  BY SourcingAssumption
<1> QED BY <1>1 DEF Unlocked, Types

(* While nothing has overlapped, an open transaction is the only one. *)
LEMMA OnlyOpen ==
  ASSUME Inv, NEW c \in Calls, ~ At(c, "idle"), ~ overlap
  PROVE  \A p \in Calls \ {c} : At(p, "idle")
BY DEF Inv, CapKept

(* An idle order has taken nothing. *)
LEMMA IdleTaken ==
  ASSUME NEW c \in Calls, Stage(c), At(c, "idle")
  PROVE  Taken(c) = {}
<1>1. tx[c].mine = {}
  <2>1. tx[c] = NoTx
    BY DEF Stage
  <2>2. NoTx.mine = {}
    BY DEF NoTx
  <2> QED BY <2>1, <2>2
<1>2. Applied(c) = {}
  BY DEF Applied, At
<1> QED BY <1>1, <1>2 DEF Taken

(* A transaction begins, begins again, or ends having done nothing. *)
LEMMA BlankStep ==
  ASSUME Inv, NEW c \in Calls, NEW t, Blank(t), tx' = [tx EXCEPT ![c] = t],
         lock' = Unlocked(c), UNCHANGED <<world, rules, tables>>,
         t.at # "idle" => \A a \in allocs : a.call # c,
         overlap' \in BOOLEAN,
         ~ overlap' => ~ overlap /\ \A p \in Calls \ {c} : At(p, "idle")
  PROVE  Inv'
<1>0. Types /\ CallInv(c) /\ t \in Tx
  BY DEF Inv, CallInv, Blank
<1>1. /\ lock' \in [Rows -> Calls \cup {Null}]
      /\ \A r \in Rows : lock'[r] # c
      /\ \A r \in Rows, p \in Calls \ {c} : lock'[r] = p <=> lock[r] = p
  BY <1>0, UnlockedRows
<1>2. /\ \A p \in Calls \ {c} : CallInv(p)' /\ Taken(p)' = Taken(p)
      /\ tx'[c] = t /\ tx' \in [Calls -> Tx]
      /\ UnitsConserved' /\ Owned'
  BY <1>0, <1>1, OthersKept
<1>3. Types'
  BY <1>0, <1>1, <1>2 DEF Types, tables
<1>4. t.at # "apply" /\ t.mine = {} /\ t.released = {} /\ t.delta = NoDelta
  BY DEF Blank
<1>5. Taken(c)' = {}
  BY <1>2, <1>4 DEF Taken, Applied, At
<1>6. CallInv(c)'
  <2>1. Stage(c)'
    <3>1. IsFiniteSet(t.mine) /\ \A a \in t.mine : a.call = c /\ a.line < t.line
      BY <1>4, FS_EmptySet
    <3>2. t.at = "idle" => t = NoTx
      BY DEF Blank
    <3>3. t.at # "idle" => t.strategy \in Strategies
      BY DEF Blank
    <3>4. t.at \notin {"release", "plan", "apply"}
      BY DEF Blank
    <3> QED BY <1>2, <1>4, <3>1, <3>2, <3>3, <3>4 DEF Stage, At
  <2>2. Books(c)'
    <3>1. ASSUME NEW r \in Rows
          PROVE  t.delta[r] = 0 /\ Back(c, r)' = 0 /\ AllocatedOn(Taken(c), r)' = 0
      <4>1. AllocatedOn(Taken(c), r)' = AllocatedOn({}, r)
        BY <1>5 DEF AllocatedOn
      <4> QED BY <1>2, <1>4, <4>1, AllocatedNone DEF NoDelta, Back
    <3> QED BY <1>1, <1>2, <1>4, <3>1 DEF Books
  <2>3. PlanKept(c)'
    BY <1>2, <1>4 DEF PlanKept, At
  <2> QED BY <2>1, <2>2, <2>3 DEF CallInv
<1>7. CapKept'
  <2> SUFFICES ASSUME ~ overlap' PROVE CapKept'
    BY DEF CapKept
  <2>1. ~ overlap /\ \A p \in Calls \ {c} : At(p, "idle")
    OBVIOUS
  <2>2. \A p \in Calls \ {c} : At(p, "idle")' /\ Taken(p)' = {}
    <3> SUFFICES ASSUME NEW p \in Calls \ {c} PROVE At(p, "idle")' /\ Taken(p)' = {}
      OBVIOUS
    <3>1. tx'[p] = tx[p]
      BY <1>0 DEF Types
    <3>2. At(p, "idle")'
      BY <2>1, <3>1 DEF At
    <3>3. Stage(p)
      BY DEF Inv
    <3> QED BY <1>2, <2>1, <3>2, <3>3, IdleTaken
  <2>3. \A x, y \in Calls : x # y => At(x, "idle")' \/ At(y, "idle")'
    BY <2>2
  <2>4. ASSUME NEW x \in Calls, NEW n \in Nodes, world.capacity[n] # Null
        PROVE  CountAt(allocs \cup Taken(x), n)' <= world.capacity[n]
    <3>1. Taken(x)' = {}
      BY <1>5, <2>2
    <3>2. CountAt(allocs \cup Taken(x), n)' = CountAt(allocs, n)
      <4>1. allocs' \cup Taken(x)' = allocs
        BY <3>1 DEF tables
      <4> QED BY <4>1 DEF CountAt
    <3>3. CountAt(allocs \cup Taken(c), n) <= world.capacity[n]
      BY <2>1, <2>4 DEF Inv, CapKept
    <3>4. IsFiniteSet(allocs \cup Taken(c)) /\ allocs \in SUBSET (allocs \cup Taken(c))
      BY <1>0, TakenFacts, FS_Union DEF Types, CallInv
    <3>5. /\ CountAt(allocs, n) <= CountAt(allocs \cup Taken(c), n)
          /\ CountAt(allocs \cup Taken(c), n) \in Nat /\ CountAt(allocs, n) \in Nat
      BY <3>4, CountMonotone
    <3>6. world.capacity[n] \in Nat
      BY <1>0, <2>4, WorldFacts DEF Types
    <3> QED BY <3>2, <3>3, <3>5, <3>6
  <2>5. \A x \in Calls : ~ At(x, "apply")'
    BY <1>2, <1>4, <2>2 DEF At
  <2> QED BY <2>3, <2>4, <2>5 DEF CapKept
<1> QED BY <1>2, <1>3, <1>6, <1>7 DEF Inv, CallInv

(* The cap as the transaction of c sees it. *)
CapOf(c) ==
  \A n \in Nodes : world.capacity[n] # Null =>
    /\ CountAt(allocs \cup Taken(c), n) <= world.capacity[n]
    /\ \A i \in tx[c].leg .. Len(tx[c].plan) :
         At(c, "apply") /\ tx[c].plan[i].node = n
           => CountAt(allocs \cup Taken(c), n) < world.capacity[n]

(* A transaction takes one of its own steps. *)
LEMMA OwnStep ==
  ASSUME Inv, NEW c \in Calls, ~ At(c, "idle"), NEW t \in Tx,
         tx' = [tx EXCEPT ![c] = t], UNCHANGED <<world, rules, tables, overlap>>,
         lock' \in [Rows -> Calls \cup {Null}],
         \A r \in Rows, p \in Calls \ {c} : lock'[r] = p <=> lock[r] = p,
         CallInv(c)', ~ overlap => CapOf(c)'
  PROVE  Inv'
<1>0. Types /\ CallInv(c)
  BY DEF Inv, CallInv
<1>1. \A a \in allocs : a.call # c
  BY DEF Inv, Owned
<1>2. /\ \A p \in Calls \ {c} : CallInv(p)' /\ Taken(p)' = Taken(p)
      /\ tx'[c] = t /\ tx' \in [Calls -> Tx]
      /\ UnitsConserved' /\ Owned'
  BY <1>0, <1>1, OthersKept
<1>3. Types'
  BY <1>0, <1>2 DEF Types, tables
<1>4. CapKept'
  <2> SUFFICES ASSUME ~ overlap PROVE CapKept'
    BY DEF CapKept
  <2>1. \A p \in Calls \ {c} : At(p, "idle")
    BY OnlyOpen
  <2>2. \A p \in Calls \ {c} : At(p, "idle")' /\ Taken(p)' = {}
    <3> SUFFICES ASSUME NEW p \in Calls \ {c} PROVE At(p, "idle")' /\ Taken(p)' = {}
      OBVIOUS
    <3>1. tx'[p] = tx[p]
      BY <1>0 DEF Types
    <3>2. At(p, "idle")'
      BY <2>1, <3>1 DEF At
    <3>3. Stage(p)
      BY DEF Inv
    <3> QED BY <1>2, <2>1, <3>2, <3>3, IdleTaken
  <2>3. \A x, y \in Calls : x # y => At(x, "idle")' \/ At(y, "idle")'
    BY <2>2
  <2>4. ASSUME NEW x \in Calls \ {c}, NEW n \in Nodes, world.capacity[n] # Null
        PROVE  CountAt(allocs \cup Taken(x), n)' <= world.capacity[n]
    <3>2. CountAt(allocs \cup Taken(x), n)' = CountAt(allocs, n)
      <4>1. allocs' \cup Taken(x)' = allocs
        BY <2>2 DEF tables
      <4> QED BY <4>1 DEF CountAt
    <3>3. CountAt(allocs \cup Taken(c), n) <= world.capacity[n]
      BY <2>4 DEF Inv, CapKept
    <3>4. IsFiniteSet(allocs \cup Taken(c)) /\ allocs \in SUBSET (allocs \cup Taken(c))
      BY <1>0, TakenFacts, FS_Union DEF Types, CallInv
    <3>5. /\ CountAt(allocs, n) <= CountAt(allocs \cup Taken(c), n)
          /\ CountAt(allocs \cup Taken(c), n) \in Nat /\ CountAt(allocs, n) \in Nat
      BY <3>4, CountMonotone
    <3>6. world.capacity[n] \in Nat
      BY <1>0, <2>4, WorldFacts DEF Types
    <3> QED BY <3>2, <3>3, <3>5, <3>6
  <2>5. \A x \in Calls \ {c} : ~ At(x, "apply")'
    BY <2>2 DEF At
  <2>6. CapOf(c)' /\ UNCHANGED world
    OBVIOUS
  <2> QED BY <2>3, <2>4, <2>5, <2>6 DEF CapKept, CapOf
<1> QED BY <1>2, <1>3, <1>4 DEF Inv, CallInv

(* A step that takes nothing, up to a line that is being applied. *)
LEMMA TakesNothing ==
  ASSUME Inv, NEW c \in Calls, ~ At(c, "idle"), UNCHANGED <<world, tables>>,
         Taken(c)' = Taken(c), ~ At(c, "apply")'
  PROVE  ~ overlap => CapOf(c)'
<1> SUFFICES ASSUME ~ overlap PROVE CapOf(c)'
  OBVIOUS
<1>1. \A n \in Nodes : CountAt(allocs \cup Taken(c), n)' = CountAt(allocs \cup Taken(c), n)
  BY DEF CountAt, tables
<1>2. \A n \in Nodes : world.capacity[n] # Null =>
        CountAt(allocs \cup Taken(c), n) <= world.capacity[n]
  BY DEF Inv, CapKept
<1> QED BY <1>1, <1>2 DEF CapOf

(* releaseOwnReservations: the order's holds are read. *)
LEMMA HoldsRead ==
  ASSUME Inv, NEW c \in Calls, ReadHolds(c)
  PROVE  Inv'
<1>0. /\ Types /\ CallInv(c) /\ tx[c] \in Tx /\ ~ At(c, "idle") /\ At(c, "begin")
      /\ UNCHANGED <<world, rules, tables, overlap, lock>>
  BY DEF Inv, CallInv, Types, At, ReadHolds
<1>a. PICK h \in [Rows -> Nat] : h = held[OrderOf(c)]
  BY <1>0, WorldFacts DEF Types
<1>b. PICK u \in Tx : u = tx[c]
  BY <1>0
<1>t. PICK t : t = [u EXCEPT !.at = "release", !.holds = h]
  OBVIOUS
<1>1. tx' = [tx EXCEPT ![c] = t]
  <2>1. tx' = [tx EXCEPT ![c].at = "release", ![c].holds = h]
    BY <1>a DEF ReadHolds
  <2> QED BY <1>0, <1>b, <1>t, <2>1 DEF Types
<1>2. /\ t \in Tx /\ t.at = "release" /\ t.holds = h /\ t.strategy = u.strategy
      /\ t.line = u.line /\ t.delta = u.delta /\ t.released = u.released
      /\ t.mine = u.mine
  <2>1. t \in Tx
    BY <1>t DEF Tx
  <2> QED BY <1>t, <2>1 DEF Tx
<1>3. tx'[c] = t
  BY <1>0, <1>1 DEF Types
<1>4. Taken(c)' = Taken(c)
  BY <1>0, <1>2, <1>3, <1>b DEF Taken, Applied, At
<1>5. CallInv(c)'
  <2>1. Stage(c)'
    <3>1. \A r \in Rows : held'[OrderOf(c)'][r] \in {0, h[r]}
      BY <1>0, <1>a DEF tables, OrderOf
    <3>2. /\ u.strategy \in Strategies /\ IsFiniteSet(u.mine)
          /\ \A a \in u.mine : a.call = c /\ a.line < u.line
      BY <1>0, <1>b DEF CallInv, Stage
    <3> QED BY <1>2, <1>3, <3>1, <3>2 DEF Stage, At
  <2>2. Books(c)'
    <3>1. u.released = {}
      BY <1>0, <1>b DEF CallInv, Stage
    <3>2. \A r \in Rows : AllocatedOn(Taken(c), r)' = AllocatedOn(Taken(c), r)
      BY <1>4 DEF AllocatedOn
    <3>3. \A r \in Rows : Back(c, r)' = Back(c, r)
      BY <1>2, <1>3, <1>b, <3>1 DEF Back
    <3> QED BY <1>0, <1>2, <1>3, <1>b, <3>1, <3>2, <3>3 DEF CallInv, Books, At, tables
  <2>3. PlanKept(c)'
    BY <1>2, <1>3 DEF PlanKept, At
  <2> QED BY <2>1, <2>2, <2>3 DEF CallInv
<1>6. ~ overlap => CapOf(c)'
  BY <1>0, <1>2, <1>3, <1>4, TakesNothing DEF At
<1>7. lock' \in [Rows -> Calls \cup {Null}]
  BY <1>0 DEF Types
<1> QED BY <1>0, <1>1, <1>2, <1>5, <1>6, <1>7, OwnStep

(* releaseOwnReservations: no hold is left. *)
LEMMA ReleaseDone ==
  ASSUME Inv, NEW c \in Calls, At(c, "release"), ToRelease(c) = {}, Go(c, "plan"),
         UNCHANGED <<world, rules, tables, overlap, lock>>
  PROVE  Inv'
<1> DEFINE t == [tx[c] EXCEPT !.at = "plan"]
<1>0. Types /\ CallInv(c) /\ tx[c] \in Tx /\ ~ At(c, "idle")
  BY DEF Inv, CallInv, Types, At
<1>1. t \in Tx /\ tx' = [tx EXCEPT ![c] = t]
  BY <1>0 DEF Go, Tx, Types
<1>2. /\ tx'[c].at = "plan" /\ tx'[c].strategy = tx[c].strategy /\ tx'[c].line = tx[c].line
      /\ tx'[c].delta = tx[c].delta /\ tx'[c].released = tx[c].released /\ tx'[c].holds = tx[c].holds
      /\ tx'[c].mine = tx[c].mine
  BY <1>0 DEF Go, Types, Tx
<1>3. Taken(c)' = Taken(c) /\ Taken(c) = tx[c].mine
  BY <1>2 DEF Taken, Applied, At
<1>4. CallInv(c)'
  <2>1. \A r \in Rows \ tx[c].released : tx[c].holds[r] = 0
    <3>1. \A r \in Rows : tx[c].holds[r] \in Nat
      BY <1>0, Fields
    <3> QED BY <3>1 DEF ToRelease
  <2>2. Stage(c)'
    BY <1>0, <1>2, <2>1 DEF CallInv, Stage, At, tables, OrderOf
  <2>3. Books(c)'
    <3>1. \A r \in Rows : AllocatedOn(Taken(c), r)' = AllocatedOn(Taken(c), r)
      BY <1>3 DEF AllocatedOn
    <3>2. \A r \in Rows : Back(c, r)' = Back(c, r)
      BY <1>2 DEF Back, tables
    <3> QED BY <1>0, <1>2, <3>1, <3>2 DEF CallInv, Books, At, tables
  <2>4. PlanKept(c)'
    BY <1>2 DEF PlanKept, At
  <2> QED BY <2>2, <2>3, <2>4 DEF CallInv
<1>5. ~ overlap => CapOf(c)'
  BY <1>0, <1>2, <1>3, TakesNothing DEF At
<1>6. lock' \in [Rows -> Calls \cup {Null}]
  BY <1>0 DEF Types
<1> HIDE DEF t
<1> QED BY <1>0, <1>1, <1>4, <1>5, <1>6, OwnStep

(* releaseOwnReservations: one hold. *)
LEMMA ReleaseOne ==
  ASSUME Inv, NEW c \in Calls, At(c, "release"), NEW r \in ToRelease(c), Locked(c, r),
         tx[c].holds[r] <= reserved[r], lock' = [lock EXCEPT ![r] = c],
         tx' = [tx EXCEPT ![c].delta[r] = @ + tx[c].holds[r], ![c].released = @ \cup {r}],
         UNCHANGED <<world, rules, tables, overlap>>
  PROVE  Inv'
<1> DEFINE t == [tx[c] EXCEPT !.delta[r] = @ + tx[c].holds[r], !.released = @ \cup {r}]
<1>0. Types /\ CallInv(c) /\ tx[c] \in Tx /\ ~ At(c, "idle")
  BY DEF Inv, CallInv, Types, At
<1>a. r \in Rows /\ r \notin tx[c].released /\ tx[c].holds[r] \in Nat /\ free[r] \in Nat
      /\ tx[c].delta \in [Rows -> Int]
  <2>1. r \in Rows /\ r \notin tx[c].released
    BY DEF ToRelease
  <2>2. tx[c].holds[r] \in Nat /\ free[r] \in Nat
    BY <1>0, <2>1, Fields DEF Types
  <2> QED BY <1>0, <2>1, <2>2, Fields
<1>1. t \in Tx /\ tx' = [tx EXCEPT ![c] = t]
  <2>1. t \in Tx
    <3>1. PICK d \in [Rows -> Int] : d = [tx[c].delta EXCEPT ![r] = @ + tx[c].holds[r]]
      <4>1. \A d \in [Rows -> Int], n \in Nat : [d EXCEPT ![r] = d[r] + n] \in [Rows -> Int]
        BY <1>a
      <4>2. [tx[c].delta EXCEPT ![r] = tx[c].delta[r] + tx[c].holds[r]] \in [Rows -> Int]
        BY <1>a, <4>1
      <4> QED BY <4>2
    <3>2. PICK R \in SUBSET Rows : R = tx[c].released \cup {r}
      BY <1>0, <1>a, Fields
    <3>3. t = [tx[c] EXCEPT !.delta = d, !.released = R]
      BY <1>0, <3>1, <3>2 DEF Tx
    <3> QED BY <1>0, <3>3 DEF Tx
  <2>2. tx' = [tx EXCEPT ![c] = t]
    BY <1>0 DEF Types
  <2> QED BY <2>1, <2>2
<1>2. /\ tx'[c].at = "release" /\ tx'[c].strategy = tx[c].strategy /\ tx'[c].line = tx[c].line
      /\ tx'[c].delta = [tx[c].delta EXCEPT ![r] = @ + tx[c].holds[r]]
      /\ tx'[c].released = tx[c].released \cup {r} /\ tx'[c].holds = tx[c].holds
      /\ tx'[c].mine = tx[c].mine
  BY <1>0 DEF Types, Tx, At
<1>3. Taken(c)' = Taken(c) /\ Taken(c) = tx[c].mine
  BY <1>2 DEF Taken, Applied, At
<1>4. CallInv(c)'
  <2>2. Stage(c)'
    BY <1>0, <1>2 DEF CallInv, Stage, At, tables, OrderOf
  <2>3. Books(c)'
    <3>1. \A x \in Rows : AllocatedOn(Taken(c), x)' = AllocatedOn(Taken(c), x)
      BY <1>3 DEF AllocatedOn
    <3>a. \A x \in Rows : AllocatedOn(Taken(c), x) \in Nat
      BY <1>0, TakenFacts, AllocatedNat DEF CallInv
    <3>2. /\ Back(c, r)' = tx[c].holds[r] /\ Back(c, r) = 0
          /\ \A x \in Rows \ {r} : Back(c, x)' = Back(c, x)
      <4>1. /\ r \in tx'[c].released /\ r \notin tx[c].released
            /\ \A x \in Rows \ {r} : x \in tx'[c].released <=> x \in tx[c].released
            /\ tx'[c].holds = tx[c].holds
        BY <1>2, <1>a
      <4>2. Back(c, r)' = tx[c].holds[r]
        <5>1. Back(c, r)' = tx'[c].holds[r]
          BY <4>1 DEF Back
        <5> QED BY <4>1, <5>1
      <4>3. Back(c, r) = 0
        BY <4>1 DEF Back
      <4>4. ASSUME NEW x \in Rows \ {r} PROVE Back(c, x)' = Back(c, x)
        <5>1. /\ (x \in tx'[c].released) <=> (x \in tx[c].released)
              /\ tx'[c].holds[x] = tx[c].holds[x]
          BY <4>1
        <5>2. CASE x \in tx[c].released
          BY <5>1, <5>2 DEF Back
        <5>3. CASE x \notin tx[c].released
          BY <5>1, <5>3 DEF Back
        <5> QED BY <5>2, <5>3
      <4> QED BY <4>2, <4>3, <4>4
    <3>3. /\ tx'[c].delta[r] = tx[c].delta[r] + tx[c].holds[r]
          /\ \A x \in Rows \ {r} : tx'[c].delta[x] = tx[c].delta[x]
      <4>1. PICK d \in [Rows -> Int], n \in Int : d = tx[c].delta /\ n = tx[c].holds[r]
        BY <1>a
      <4>2. tx'[c].delta = [d EXCEPT ![r] = d[r] + n]
        BY <1>2, <4>1
      <4>3. tx'[c].delta[r] = d[r] + n /\ \A x \in Rows \ {r} : tx'[c].delta[x] = d[x]
        BY <1>a, <4>2
      <4> QED BY <4>1, <4>3
    <3>4. /\ lock'[r] = c /\ \A x \in Rows \ {r} : lock'[x] = lock[x]
      BY <1>0, <1>a DEF Types
    <3>5. free[r] + tx[c].delta[r] >= 0 /\ tx[c].delta[r] \in Int
      <4>1. lock[r] # c => tx[c].delta[r] = 0
        BY <1>0, <1>a DEF CallInv, Books
      <4>2. lock[r] = c => free[r] + tx[c].delta[r] >= 0
        BY <1>0, <1>a DEF CallInv, Books
      <4> QED BY <1>a, <4>1, <4>2
    <3>6. ASSUME NEW x \in Rows
          PROVE  /\ tx'[c].delta[x] = Back(c, x)' - AllocatedOn(Taken(c), x)'
                 /\ lock'[x] = c => tx'[c].at # "idle" /\ free'[x] + tx'[c].delta[x] >= 0
                 /\ lock'[x] # c => tx'[c].delta[x] = 0
                 /\ x \in tx'[c].released =>
                      lock'[x] = c /\ tx'[c].holds[x] <= reserved'[x]
      <4>1. CASE x = r
        <5>1. tx[c].delta[r] = 0 - AllocatedOn(Taken(c), r)
          BY <1>0, <1>a, <3>2 DEF CallInv, Books
        <5>2. free'[r] = free[r] /\ reserved'[r] = reserved[r]
          BY DEF tables
        <5> QED BY <1>2, <1>a, <3>1, <3>a, <3>2, <3>3, <3>4, <3>5, <4>1, <5>1, <5>2
      <4>2. CASE x # r
        <5>1. /\ tx[c].delta[x] = Back(c, x) - AllocatedOn(Taken(c), x)
              /\ lock[x] = c => free[x] + tx[c].delta[x] >= 0
              /\ lock[x] # c => tx[c].delta[x] = 0
              /\ x \in tx[c].released => lock[x] = c /\ tx[c].holds[x] <= reserved[x]
          BY <1>0 DEF CallInv, Books
        <5> QED BY <1>2, <3>1, <3>2, <3>3, <3>4, <4>2, <5>1 DEF tables
      <4> QED BY <4>1, <4>2
    <3> QED BY <3>6 DEF Books, At
  <2>4. PlanKept(c)'
    BY <1>2 DEF PlanKept, At
  <2> QED BY <2>2, <2>3, <2>4 DEF CallInv
<1>5. ~ overlap => CapOf(c)'
  BY <1>0, <1>2, <1>3, TakesNothing DEF At
<1>6. lock' \in [Rows -> Calls \cup {Null}]
      /\ \A x \in Rows, p \in Calls \ {c} : lock'[x] = p <=> lock[x] = p
  <2>1. lock[r] \notin Calls \ {c}
    BY SourcingAssumption DEF Locked
  <2> QED BY <1>0, <1>a, <2>1 DEF Types
<1> HIDE DEF t
<1> QED BY <1>0, <1>1, <1>4, <1>5, <1>6, OwnStep

(* candidatesForLine: the free units of every candidate. *)
Reads(c, avail) == avail = [n \in Candidates(c) |-> Free(c, <<Line_(c).sku, n>>)]

(* What a transaction sees free is a number. *)
LEMMA FreeInt ==
  ASSUME Types, NEW c \in Calls, NEW r \in Rows
  PROVE  Free(c, r) \in Int
<1>1. PICK d \in [Rows -> Int], f \in [Rows -> Nat] : d = tx[c].delta /\ f = free
  <2>1. tx[c].delta \in [Rows -> Int]
    BY Fields DEF Types
  <2> QED BY <2>1 DEF Types
<1>2. f[r] \in Nat /\ d[r] \in Int
  OBVIOUS
<1> QED BY <1>1, <1>2 DEF Free

(* What planLine reads is units at candidate nodes. *)
LEMMA SupplyRead ==
  ASSUME Types, NEW c \in Calls, tx[c].line <= Len(world.lines[OrderOf(c)]),
         NEW avail, Reads(c, avail)
  PROVE  avail \in Supply /\ DOMAIN avail = Candidates(c) /\ Candidates(c) \in SUBSET Nodes
<1> DEFINE F(n) == Free(c, <<Line_(c).sku, n>>)
<1>1. \A n \in Nodes : <<Line_(c).sku, n>> \in Rows
  BY LineType
<1>2. \A n \in Nodes : F(n) \in Int
  BY <1>1, FreeInt
<1>3. Candidates(c) \in SUBSET Nodes /\ \A n \in Candidates(c) : F(n) > 0
  BY DEF Candidates
<1>4. PICK C, N : C = Candidates(c) /\ N = Nat \ {0}
  OBVIOUS
<1>5. avail = [n \in C |-> F(n)]
  BY <1>4 DEF Reads
<1> HIDE DEF F
<1>6. \A n \in C : F(n) \in N
  BY <1>2, <1>3, <1>4
<1>7. avail \in [C -> N]
  BY <1>5, <1>6
<1>8. avail \in UNION { [S -> N] : S \in SUBSET Nodes }
  BY <1>3, <1>4, <1>7
<1> QED BY <1>3, <1>4, <1>7, <1>8 DEF Supply

(* planLine: the line is planned from the candidates as they are now. *)
LEMMA PlanMade ==
  ASSUME Inv, NEW c \in Calls, At(c, "plan"), tx[c].line <= Len(world.lines[OrderOf(c)]),
         NEW avail, Reads(c, avail),
         NEW plan \in Plans(tx[c].strategy, avail, Line_(c).quantity),
         tx' = [tx EXCEPT ![c].at = "apply", ![c].seen = avail,
                          ![c].plan = plan, ![c].leg = 1],
         UNCHANGED <<world, rules, tables, overlap, lock>>
  PROVE  Inv'
<1> DEFINE t == [tx[c] EXCEPT !.at = "apply", !.seen = avail, !.plan = plan, !.leg = 1]
           q == Line_(c).quantity
<1>0. Types /\ CallInv(c) /\ tx[c] \in Tx /\ ~ At(c, "idle") /\ world \in Worlds
  BY DEF Inv, CallInv, Types, At
<1>a. tx[c].strategy \in Strategies /\ q \in Nat \ {0}
      /\ \A n \in Nodes : <<Line_(c).sku, n>> \in Rows
  BY <1>0, LineType DEF CallInv, Stage
<1>b. avail \in Supply /\ DOMAIN avail = Candidates(c) /\ Candidates(c) \in SUBSET Nodes
  BY <1>0, SupplyRead
<1>c. /\ Covers(plan, avail, q) /\ Honours(plan, avail, tx[c].strategy)
      /\ tx[c].strategy = "FEWEST_SPLITS" => Fewest(plan, avail)
  BY <1>0, <1>a, <1>b, PlanPromises
<1>d. plan \in Seq(PlanLeg) /\ Len(plan) \in Nat /\ DOMAIN plan = 1 .. Len(plan)
  BY <1>c, LenProperties DEF Covers
<1>1. t \in Tx /\ tx' = [tx EXCEPT ![c] = t]
  <2>1. t \in Tx
    BY <1>0, <1>b, <1>d, TxPlanned
  <2>2. tx' = [tx EXCEPT ![c] = t]
    BY <1>0 DEF Types
  <2> QED BY <2>1, <2>2
<1>2. /\ tx'[c].at = "apply" /\ tx'[c].strategy = tx[c].strategy /\ tx'[c].line = tx[c].line
      /\ tx'[c].delta = tx[c].delta /\ tx'[c].released = tx[c].released /\ tx'[c].holds = tx[c].holds
      /\ tx'[c].mine = tx[c].mine /\ tx'[c].leg = 1 /\ tx'[c].plan = plan /\ tx'[c].seen = avail
  <2>1. tx'[c] = t
    BY <1>0, <1>1 DEF Types
  <2>2. PICK u \in Tx : u = tx[c]
    BY <1>0
  <2>3. t = [u EXCEPT !.at = "apply", !.seen = avail, !.plan = plan, !.leg = 1]
    BY <2>2
  <2>4. /\ t.at = "apply" /\ t.seen = avail /\ t.plan = plan /\ t.leg = 1
        /\ t.strategy = u.strategy /\ t.line = u.line /\ t.delta = u.delta
        /\ t.released = u.released /\ t.holds = u.holds /\ t.mine = u.mine
    BY <2>3 DEF Tx
  <2> HIDE DEF t
  <2> QED BY <2>1, <2>2, <2>4
<1> HIDE DEF t
<1>3. Taken(c)' = Taken(c) /\ Taken(c) = tx[c].mine
  <2>1. Taken(c) = tx[c].mine
    BY DEF Taken, Applied, At
  <2>2. 1 .. 1 - 1 = {}
    OBVIOUS
  <2>3. Applied(c)' = {}
    BY <1>2, <2>2 DEF Applied, At
  <2> QED BY <1>2, <2>1, <2>3 DEF Taken
<1>4. CallInv(c)'
  <2>1. Stage(c)'
    BY <1>0, <1>2 DEF CallInv, Stage, At, tables, OrderOf
  <2>2. Books(c)'
    <3>1. \A r \in Rows : AllocatedOn(Taken(c), r)' = AllocatedOn(Taken(c), r)
      BY <1>3 DEF AllocatedOn
    <3>2. \A r \in Rows : Back(c, r)' = Back(c, r)
      BY <1>2 DEF Back, tables
    <3> QED BY <1>0, <1>2, <3>1, <3>2 DEF CallInv, Books, At, tables
  <2>3. PlanKept(c)'
    <3>1. Line_(c)' = Line_(c)
      BY <1>2 DEF Line_, OrderOf
    <3>2. 1 <= Len(plan) + 1
      BY <1>d
    <3> QED BY <1>2, <1>c, <3>1, <3>2, PromisesStay
  <2> QED BY <2>1, <2>2, <2>3 DEF CallInv
<1>5. ASSUME ~ overlap PROVE CapOf(c)'
  <2>1. \A n \in Nodes : CountAt(allocs \cup Taken(c), n)' = CountAt(allocs \cup Taken(c), n)
    BY <1>3 DEF CountAt, tables
  <2>2. \A n \in Nodes : world.capacity[n] # Null =>
          CountAt(allocs \cup Taken(c), n) <= world.capacity[n]
    BY <1>5 DEF Inv, CapKept
  <2>3. \A n \in Candidates(c) : world.capacity[n] # Null =>
          CountAt(allocs \cup Taken(c), n) < world.capacity[n]
    BY <1>3 DEF Candidates, OpenAt, CountAt
  <2>4. \A i \in 1 .. Len(plan) : plan[i].node \in Candidates(c)
    BY <1>b, <1>c, <1>d DEF Covers
  <2> QED BY <1>2, <2>1, <2>2, <2>3, <2>4 DEF CapOf
<1>6. lock' \in [Rows -> Calls \cup {Null}]
  BY <1>0 DEF Types
<1> QED BY <1>0, <1>1, <1>4, <1>5, <1>6, OwnStep

(* The leg at hand asks for a number, of a number of free units. *)
LEMMA LegFree ==
  ASSUME Inv, NEW c \in Calls, At(c, "apply"), tx[c].leg <= Len(tx[c].plan)
  PROVE  ~ Free(c, NextRow(c)) < NextLeg(c).quantity
           => Free(c, NextRow(c)) >= NextLeg(c).quantity
<1>0. Types /\ PlanKept(c) /\ tx[c] \in Tx
  BY DEF Inv, Types
<1>1. PICK i : i = tx[c].leg
  OBVIOUS
<1>2. i \in 1 .. Len(tx[c].plan)
  BY <1>0, <1>1, Fields, LenProperties
<1>3. AllocOf(c, i) \in Alloc /\ tx[c].plan[i].quantity \in Nat
  BY <1>0, <1>2, LegType
<1>4. NextRow(c) \in Rows /\ NextLeg(c).quantity \in Nat
  BY <1>1, <1>3 DEF AllocOf, Alloc, NextRow, NextLeg
<1>5. Free(c, NextRow(c)) \in Int
  BY <1>0, <1>4, FreeInt
<1> QED BY <1>4, <1>5

(* ALLOCATE: a leg takes its units from a row that has them. *)
LEMMA LegApplied ==
  ASSUME Inv, NEW c \in Calls, At(c, "apply"), tx[c].leg <= Len(tx[c].plan),
         Locked(c, NextRow(c)), Free(c, NextRow(c)) >= NextLeg(c).quantity,
         lock' = [lock EXCEPT ![NextRow(c)] = c],
         tx' = [tx EXCEPT ![c].delta[NextRow(c)] = @ - NextLeg(c).quantity, ![c].leg = @ + 1],
         UNCHANGED <<world, rules, tables, overlap>>
  PROVE  Inv'
<1>0. Types /\ CallInv(c) /\ tx[c] \in Tx /\ ~ At(c, "idle") /\ Stage(c) /\ Books(c)
      /\ PlanKept(c)
  BY DEF Inv, CallInv, Types, At
<1>a. PICK i : i = tx[c].leg
  OBVIOUS
<1>b. i \in Nat \ {0} /\ i \in 1 .. Len(tx[c].plan) /\ Len(tx[c].plan) \in Nat
      /\ DOMAIN tx[c].plan = 1 .. Len(tx[c].plan)
  BY <1>0, <1>a, Fields, LenProperties
<1>c. PICK a : a = AllocOf(c, i)
  OBVIOUS
<1>d. PICK r, q : r = NextRow(c) /\ q = NextLeg(c).quantity
  OBVIOUS
<1>e. /\ a \in Alloc /\ a.row = r /\ a.quantity = q /\ a.line = tx[c].line /\ a.call = c
      /\ a.row[2] = tx[c].plan[i].node /\ r \in Rows /\ q \in Nat
  <2>1. AllocOf(c, i) \in Alloc
    BY <1>0, <1>b, LegType
  <2>2. a.row = r /\ a.quantity = q /\ a.line = tx[c].line /\ a.call = c
        /\ a.row[2] = tx[c].plan[i].node
    BY <1>a, <1>c, <1>d DEF AllocOf, NextRow, NextLeg
  <2> QED BY <1>c, <2>1, <2>2 DEF Alloc
<1>f. tx[c].delta \in [Rows -> Int] /\ free[r] \in Nat
  BY <1>0, <1>e, Fields DEF Types
<1> DEFINE d == [tx[c].delta EXCEPT ![r] = @ - q]
           t == [tx[c] EXCEPT !.delta = d, !.leg = i + 1]
<1>g. /\ d \in [Rows -> Int] /\ d[r] = tx[c].delta[r] - q /\ tx[c].delta[r] \in Int
      /\ \A x \in Rows \ {r} : d[x] = tx[c].delta[x]
  <2>1. PICK e \in [Rows -> Int] : e = tx[c].delta
    BY <1>f
  <2>2. d = [e EXCEPT ![r] = e[r] - q]
    BY <2>1
  <2>3. PICK z \in Int : z = e[r] - q /\ e[r] \in Int
    BY <1>e
  <2>4. d = [e EXCEPT ![r] = z]
    BY <2>2, <2>3
  <2>5. d \in [Rows -> Int] /\ d[r] = z /\ \A x \in Rows \ {r} : d[x] = e[x]
    BY <1>e, <2>4
  <2> QED BY <2>1, <2>3, <2>5
<1>1. t \in Tx /\ tx' = [tx EXCEPT ![c] = t]
  <2>1. t \in Tx
    <3> HIDE DEF d
    <3>1. i + 1 \in Nat \ {0}
      BY <1>b
    <3> QED BY <1>0, <1>g, <3>1, TxLeg
  <2>2. tx' = [tx EXCEPT ![c] = t]
    BY <1>0, <1>a, <1>d DEF Types
  <2> QED BY <2>1, <2>2
<1> HIDE DEF d
<1>2. /\ tx'[c].at = "apply" /\ tx'[c].strategy = tx[c].strategy /\ tx'[c].line = tx[c].line
      /\ tx'[c].delta = d /\ tx'[c].released = tx[c].released /\ tx'[c].holds = tx[c].holds
      /\ tx'[c].mine = tx[c].mine /\ tx'[c].leg = i + 1 /\ tx'[c].plan = tx[c].plan
      /\ tx'[c].seen = tx[c].seen
  <2>1. tx'[c] = t
    BY <1>0, <1>1 DEF Types
  <2>2. PICK u \in Tx, n \in Nat \ {0} : u = tx[c] /\ n = i + 1
    BY <1>0, <1>b
  <2>3. t = [u EXCEPT !.delta = d, !.leg = n]
    BY <2>2
  <2>4. /\ t.delta = d /\ t.leg = n /\ t.at = u.at /\ t.seen = u.seen /\ t.plan = u.plan
        /\ t.strategy = u.strategy /\ t.line = u.line /\ t.released = u.released /\ t.holds = u.holds
        /\ t.mine = u.mine
    BY <2>3 DEF Tx
  <2> HIDE DEF t
  <2> QED BY <2>1, <2>2, <2>4 DEF At
<1> HIDE DEF t
<1>3. Taken(c)' = Taken(c) \cup {a}
  <2>1. \A j \in 1 .. i : AllocOf(c, j)' = AllocOf(c, j)
    BY <1>2 DEF AllocOf, Line_, OrderOf
  <2>2. 1 .. (i + 1) - 1 = (1 .. i - 1) \cup {i} /\ (i + 1) - 1 = i
    BY <1>b
  <2>3. Applied(c)' = { AllocOf(c, j) : j \in 1 .. i }
    BY <1>2, <2>1, <2>2 DEF Applied, At
  <2>4. Applied(c) = { AllocOf(c, j) : j \in 1 .. i - 1 }
    BY <1>a DEF Applied
  <2>5. 1 .. i = (1 .. i - 1) \cup {i}
    BY <2>2
  <2>6. Applied(c)' = Applied(c) \cup {a}
    BY <1>c, <2>3, <2>4, <2>5
  <2> QED BY <1>2, <2>6 DEF Taken
<1>4. a \notin Taken(c)
  <2>1. a \notin tx[c].mine
    <3>1. a.line \in Nat
      BY <1>e DEF Alloc
    <3> QED BY <1>0, <1>e, <3>1 DEF Stage
  <2>2. a \notin Applied(c)
    <3> SUFFICES ASSUME NEW j \in 1 .. i - 1, a = AllocOf(c, j) PROVE FALSE
      BY <1>a DEF Applied
    <3>1. tx[c].plan[j].node = tx[c].plan[i].node
      BY <1>e DEF AllocOf
    <3>2. j \in DOMAIN tx[c].plan /\ i \in DOMAIN tx[c].plan /\ j # i
      BY <1>b
    <3> QED BY <1>0, <3>1, <3>2 DEF PlanKept, Covers
  <2> QED BY <2>1, <2>2 DEF Taken
<1>5. Taken(c) \in SUBSET Alloc /\ IsFiniteSet(Taken(c))
  BY <1>0, TakenFacts
<1>6. CallInv(c)'
  <2>1. Stage(c)'
    BY <1>0, <1>2 DEF Stage, At, tables, OrderOf
  <2>2. Books(c)'
    <3>1. ASSUME NEW x \in Rows
          PROVE  /\ AllocatedOn(Taken(c), x)'
                      = AllocatedOn(Taken(c), x) + IF x = r THEN q ELSE 0
                 /\ AllocatedOn(Taken(c), x) \in Nat
      <4>1. AllocatedOn(Taken(c), x)' = AllocatedOn(Taken(c) \cup {a}, x)
        BY <1>3 DEF AllocatedOn
      <4>2. AllocatedOn(Taken(c) \cup {a}, x)
              = AllocatedOn(Taken(c), x) + IF a.row = x THEN a.quantity ELSE 0
        BY <1>4, <1>5, <1>e, AllocatedAdd
      <4> QED BY <1>5, <1>e, <4>1, <4>2, AllocatedNat
    <3>2. \A x \in Rows : Back(c, x)' = Back(c, x) /\ Back(c, x) \in Int
      BY <1>0, <1>2, Fields DEF Back
    <3>3. lock'[r] = c /\ \A x \in Rows \ {r} : lock'[x] = lock[x]
      BY <1>0, <1>d, <1>e DEF Types
    <3>4. free[r] + tx[c].delta[r] >= q
      BY <1>d DEF Free
    <3>5. ASSUME NEW x \in Rows
          PROVE  /\ tx'[c].delta[x] = Back(c, x)' - AllocatedOn(Taken(c), x)'
                 /\ lock'[x] = c => tx'[c].at # "idle" /\ free'[x] + tx'[c].delta[x] >= 0
                 /\ lock'[x] # c => tx'[c].delta[x] = 0
                 /\ x \in tx'[c].released =>
                      lock'[x] = c /\ tx'[c].holds[x] <= reserved'[x]
      <4>0. /\ tx[c].delta[x] = Back(c, x) - AllocatedOn(Taken(c), x)
            /\ lock[x] = c => free[x] + tx[c].delta[x] >= 0
            /\ lock[x] # c => tx[c].delta[x] = 0
            /\ x \in tx[c].released => lock[x] = c /\ tx[c].holds[x] <= reserved[x]
        BY <1>0 DEF Books
      <4>1. CASE x = r
        <5>1. free'[r] = free[r] /\ reserved'[r] = reserved[r]
          BY DEF tables
        <5>2. tx'[c].delta[r] = tx[c].delta[r] - q
          BY <1>2, <1>g
        <5>3. free[r] + (tx[c].delta[r] - q) >= 0
          BY <1>e, <1>f, <1>g, <3>4
        <5>4. tx[c].delta[r] - q = Back(c, r) - (AllocatedOn(Taken(c), r) + q)
          BY <1>e, <3>1, <3>2, <4>0, <4>1
        <5> QED BY <1>2, <1>e, <3>1, <3>2, <3>3, <4>0, <4>1, <5>1, <5>2, <5>3, <5>4
      <4>2. CASE x # r
        BY <1>2, <1>g, <3>1, <3>2, <3>3, <4>0, <4>2 DEF tables
      <4> QED BY <4>1, <4>2
    <3> QED BY <3>5 DEF Books, At
  <2>3. PlanKept(c)'
    <3>1. Line_(c)' = Line_(c)
      BY <1>2 DEF Line_, OrderOf
    <3>2. /\ Covers(tx[c].plan, tx[c].seen, Line_(c).quantity)
          /\ Honours(tx[c].plan, tx[c].seen, tx[c].strategy)
          /\ tx[c].strategy = "FEWEST_SPLITS" => Fewest(tx[c].plan, tx[c].seen)
          /\ tx[c].line <= Len(world.lines[OrderOf(c)])
      BY <1>0 DEF PlanKept
    <3>3. i + 1 <= Len(tx[c].plan) + 1
      BY <1>b
    <3> QED BY <1>2, <3>1, <3>2, <3>3, PromisesStay
  <2> QED BY <2>1, <2>2, <2>3 DEF CallInv
<1>7. ASSUME ~ overlap PROVE CapOf(c)'
  <2> DEFINE A == allocs \cup Taken(c)
  <2>1. IsFiniteSet(A)
    BY <1>0, <1>5, FS_Union DEF Types
  <2>2. \A n \in Nodes : CountAt(allocs \cup Taken(c), n)' = CountAt(A \cup {a}, n)
    <3>1. allocs' \cup Taken(c)' = A \cup {a}
      BY <1>3 DEF tables
    <3> QED BY <3>1 DEF CountAt
  <2> HIDE DEF A
  <2>3. ASSUME NEW n \in Nodes, world.capacity[n] # Null
        PROVE  /\ CountAt(A \cup {a}, n) <= world.capacity[n]
               /\ \A j \in i + 1 .. Len(tx[c].plan) : tx[c].plan[j].node = n =>
                    CountAt(A \cup {a}, n) < world.capacity[n]
    <3>1. /\ CountAt(A, n) <= world.capacity[n]
          /\ \A j \in i .. Len(tx[c].plan) : tx[c].plan[j].node = n =>
               CountAt(A, n) < world.capacity[n]
      BY <1>7, <1>a, <2>3 DEF Inv, CapKept, A
    <3>2. /\ CountAt(A \cup {a}, n) <= CountAt(A, n) + 1
          /\ a.row[2] # n => CountAt(A \cup {a}, n) = CountAt(A, n)
      BY <2>1, CountAdd
    <3>3. CountAt(A, n) \in Nat /\ CountAt(A \cup {a}, n) \in Nat /\ world.capacity[n] \in Nat
      <4>1. IsFiniteSet(A \cup {a}) /\ A \in SUBSET (A \cup {a})
        BY <2>1, FS_AddElement
      <4>2. CountAt(A, n) \in Nat /\ CountAt(A \cup {a}, n) \in Nat
        BY <4>1, CountMonotone
      <4> QED BY <1>0, <2>3, <4>2, WorldFacts DEF Types
    <3>4. CASE a.row[2] = n
      <4>1. CountAt(A, n) < world.capacity[n]
        <5>1. i \in i .. Len(tx[c].plan) /\ tx[c].plan[i].node = n
          BY <1>b, <1>e, <3>4
        <5> QED BY <3>1, <5>1
      <4>2. \A j \in i + 1 .. Len(tx[c].plan) : tx[c].plan[j].node # n
        <5> SUFFICES ASSUME NEW j \in i + 1 .. Len(tx[c].plan), tx[c].plan[j].node = n
                     PROVE  FALSE
          OBVIOUS
        <5>1. j \in DOMAIN tx[c].plan /\ i \in DOMAIN tx[c].plan /\ j # i
          BY <1>b
        <5> QED BY <1>0, <1>e, <3>4, <5>1 DEF PlanKept, Covers
      <4> QED BY <3>2, <3>3, <4>1, <4>2
    <3>5. CASE a.row[2] # n
      <4>1. \A j \in i + 1 .. Len(tx[c].plan) : j \in i .. Len(tx[c].plan)
        BY <1>b
      <4> QED BY <3>1, <3>2, <3>5, <4>1
    <3> QED BY <3>4, <3>5
  <2> QED BY <1>2, <2>2, <2>3 DEF CapOf
<1>8. lock' \in [Rows -> Calls \cup {Null}]
      /\ \A x \in Rows, p \in Calls \ {c} : lock'[x] = p <=> lock[x] = p
  <2>1. lock[r] \notin Calls \ {c}
    BY <1>d, SourcingAssumption DEF Locked
  <2> QED BY <1>0, <1>d, <1>e, <2>1 DEF Types
<1> QED BY <1>0, <1>1, <1>6, <1>7, <1>8, OwnStep

(* The Allocation rows of a line are what its applied legs took. *)
LEMMA LinePersisted ==
  ASSUME Inv, NEW c \in Calls, PersistLine(c)
  PROVE  Inv'
<1>0. /\ Types /\ CallInv(c) /\ tx[c] \in Tx /\ ~ At(c, "idle") /\ Stage(c) /\ Books(c)
      /\ PlanKept(c) /\ At(c, "apply") /\ UNCHANGED <<world, rules, tables, overlap, lock>>
  BY DEF Inv, CallInv, Types, At, PersistLine
<1>a. PICK u \in Tx : u = tx[c]
  BY <1>0
<1>b. u.leg \in Nat /\ Len(u.plan) \in Nat /\ u.leg - 1 = Len(u.plan)
      /\ DOMAIN u.plan = 1 .. Len(u.plan)
  <2>1. u.leg \in Nat /\ u.plan \in Seq(PlanLeg)
    BY Fields
  <2>2. u.leg > Len(u.plan) /\ u.leg <= Len(u.plan) + 1
    BY <1>0, <1>a DEF PersistLine, PlanKept
  <2>3. Len(u.plan) \in Nat /\ DOMAIN u.plan = 1 .. Len(u.plan)
    BY <2>1, LenProperties
  <2> QED BY <2>1, <2>2, <2>3
<1> DEFINE M == { [call |-> c, line |-> tx[c].line, row |-> <<Line_(c).sku, leg.node>>,
                   quantity |-> leg.quantity] : leg \in ToSet(tx[c].plan) }
<1>c. M = Applied(c)
  <2>1. Applied(c) = { AllocOf(c, i) : i \in DOMAIN tx[c].plan }
    BY <1>0, <1>a, <1>b DEF Applied
  <2>2. ToSet(tx[c].plan) = { tx[c].plan[i] : i \in DOMAIN tx[c].plan }
    BY DEF ToSet
  <2> QED BY <2>1, <2>2 DEF AllocOf
<1>d. Taken(c) = u.mine \cup M /\ Taken(c) \in SUBSET Alloc /\ IsFiniteSet(Taken(c))
      /\ \A a \in Taken(c) : a.call = c
  BY <1>0, <1>a, <1>c, TakenFacts DEF Taken
<1>e. tx' = [tx EXCEPT ![c].at = "plan", ![c].line = @ + 1, ![c].mine = @ \cup M]
  BY DEF PersistLine
<1> HIDE DEF M
<1>f. u.line \in Nat \ {0} /\ u.line + 1 \in Nat \ {0}
  <2>1. u.line \in Nat \ {0}
    BY Fields
  <2> QED BY <2>1
<1>g. PICK n \in Nat \ {0}, T \in SUBSET Alloc : n = u.line + 1 /\ T = Taken(c)
  BY <1>d, <1>f
<1> DEFINE t == [u EXCEPT !.at = "plan", !.line = n, !.mine = T]
<1>1. t \in Tx /\ tx' = [tx EXCEPT ![c] = t]
  <2>1. t \in Tx
    BY DEF Tx
  <2>2. tx' = [tx EXCEPT ![c] = t]
    BY <1>0, <1>a, <1>d, <1>e, <1>g DEF Types
  <2> QED BY <2>1, <2>2
<1>2. /\ tx'[c].at = "plan" /\ tx'[c].strategy = tx[c].strategy /\ tx'[c].line = n
      /\ tx'[c].delta = tx[c].delta /\ tx'[c].released = tx[c].released /\ tx'[c].holds = tx[c].holds
      /\ tx'[c].mine = T
  <2>1. tx'[c] = t
    BY <1>0, <1>1 DEF Types
  <2>2. /\ t.at = "plan" /\ t.strategy = u.strategy /\ t.line = n /\ t.delta = u.delta
        /\ t.released = u.released /\ t.holds = u.holds /\ t.mine = T
    BY DEF Tx
  <2> HIDE DEF t
  <2> QED BY <1>a, <2>1, <2>2
<1> HIDE DEF t
<1>3. Taken(c)' = Taken(c)
  BY <1>2, <1>g DEF Taken, Applied, At
<1>4. CallInv(c)'
  <2>1. Stage(c)'
    <3>1. ASSUME NEW a \in T PROVE a.call = c /\ a.line < n
      <4>1. a \in u.mine => a.line < u.line
        BY <1>0, <1>a DEF Stage
      <4>2. a \in M => a.line = u.line
        BY <1>a, <1>c DEF M
      <4>3. a.line \in Nat /\ a \in Taken(c)
        BY <1>g DEF Alloc
      <4> QED BY <1>d, <1>f, <1>g, <4>1, <4>2, <4>3
    <3>2. IsFiniteSet(T)
      BY <1>d, <1>g
    <3> QED BY <1>0, <1>2, <3>1, <3>2 DEF Stage, At, tables, OrderOf
  <2>2. Books(c)'
    <3>1. \A r \in Rows : AllocatedOn(Taken(c), r)' = AllocatedOn(Taken(c), r)
      BY <1>3 DEF AllocatedOn
    <3>2. \A r \in Rows : Back(c, r)' = Back(c, r)
      BY <1>0, <1>2 DEF Back, tables
    <3> QED BY <1>0, <1>2, <3>1, <3>2 DEF Books, At, tables
  <2>3. PlanKept(c)'
    BY <1>2 DEF PlanKept, At
  <2> QED BY <2>1, <2>2, <2>3 DEF CallInv
<1>5. ~ overlap => CapOf(c)'
  BY <1>0, <1>2, <1>3, TakesNothing DEF At
<1>6. lock' \in [Rows -> Calls \cup {Null}]
  BY <1>0 DEF Types
<1> QED BY <1>0, <1>1, <1>4, <1>5, <1>6, OwnStep

(* A transaction rolls back, for good or to run again. *)
LEMMA RolledBack ==
  ASSUME Inv, NEW c \in Calls, ~ At(c, "idle"), NEW t, Blank(t),
         tx' = [tx EXCEPT ![c] = t], lock' = Unlocked(c),
         UNCHANGED <<world, rules, tables, overlap>>
  PROVE  Inv'
<1>1. (\A a \in allocs : a.call # c) /\ overlap' \in BOOLEAN
  BY DEF Inv, Owned, Types
<1>2. ~ overlap' => ~ overlap /\ \A p \in Calls \ {c} : At(p, "idle")
  BY OnlyOpen
<1> QED BY <1>1, <1>2, BlankStep

(* A conflict gives everything back and starts over. *)
LEMMA ConflictKeeps ==
  ASSUME Inv, NEW c \in Calls, ~ At(c, "idle"), Conflict(c),
         UNCHANGED <<world, rules, tables, overlap>>
  PROVE  Inv'
<1>1. /\ tx[c].strategy \in Strategies /\ tx[c].attempt \in 1 .. MaxAttempts
      /\ lock' = Unlocked(c)
  BY Fields DEF Inv, Stage, Types, Conflict
<1>2. CASE tx[c].attempt = MaxAttempts
  <2>1. tx' = [tx EXCEPT ![c] = NoTx]
    BY <1>2 DEF Conflict
  <2> QED BY <1>1, <2>1, NoTxBlank, RolledBack
<1>3. CASE tx[c].attempt # MaxAttempts
  <2>1. tx[c].attempt + 1 \in 1 .. MaxAttempts
    BY <1>1, <1>3, SourcingAssumption
  <2>2. PICK s \in Strategies, n \in 1 .. MaxAttempts :
          s = tx[c].strategy /\ n = tx[c].attempt + 1
    BY <1>1, <2>1
  <2>3. PICK t : t = [NoTx EXCEPT !.at = "begin", !.strategy = s, !.attempt = n]
    OBVIOUS
  <2>4. Blank(t)
    BY <2>3, FreshBlank
  <2>5. tx' = [tx EXCEPT ![c] = t]
    BY <1>3, <2>2, <2>3 DEF Conflict
  <2> QED BY <1>1, <2>4, <2>5, RolledBack
<1> QED BY <1>2, <1>3

(* sourceOrder: an idle order holds no lock, so none is let go. *)
LEMMA Started ==
  ASSUME Inv, NEW c \in Calls, Start(c)
  PROVE  Inv'
<1>1. PICK s \in Resolved :
        tx' = [tx EXCEPT ![c] = [NoTx EXCEPT !.at = "begin", !.strategy = s]]
  BY DEF Start
<1>2. s \in Strategies /\ 1 \in 1 .. MaxAttempts
  <2>1. rules \subseteq Rule
    BY SourcingAssumption DEF Inv, Types
  <2>2. \A x \in rules : x.strategy \in Strategies
    BY <2>1 DEF Rule
  <2>3. s \in Strategies
    BY <2>2 DEF Resolved, Strategies
  <2> QED BY <2>3, SourcingAssumption
<1>3. PICK n \in 1 .. MaxAttempts : n = 1
  BY <1>2
<1>4. PICK t : t = [NoTx EXCEPT !.at = "begin", !.strategy = s, !.attempt = n]
  OBVIOUS
<1>5. Blank(t)
  BY <1>2, <1>4, FreshBlank
<1>6. tx' = [tx EXCEPT ![c] = t]
  <2> DEFINE fresh == [at |-> "begin", strategy |-> s, attempt |-> 1, line |-> 1,
                       holds |-> NoDelta, seen |-> << >>, plan |-> << >>, leg |-> 1, delta |-> NoDelta,
                       released |-> {}, mine |-> {}]
  <2>1. t = fresh
    BY <1>3, <1>4 DEF NoTx
  <2>2. PICK v : v = [NoTx EXCEPT !.at = "begin", !.strategy = s]
    OBVIOUS
  <2>3. v = fresh
    BY <2>2 DEF NoTx
  <2> HIDE DEF fresh
  <2> QED BY <1>1, <2>1, <2>2, <2>3
<1>7. lock' = Unlocked(c)
  <2>1. \A r \in Rows : lock[r] # c
    BY DEF Inv, Books, Start
  <2>2. lock' = lock /\ lock \in [Rows -> Calls \cup {Null}]
    BY DEF Start, Inv, Types
  <2> QED BY <2>1, <2>2 DEF Unlocked
<1>8. /\ overlap' \in BOOLEAN
      /\ ~ overlap' => ~ overlap /\ \A p \in Calls \ {c} : At(p, "idle")
      /\ (\A a \in allocs : a.call # c) /\ UNCHANGED <<world, rules, tables>>
  BY DEF Start, Inv, Types, Owned
<1> QED BY <1>5, <1>6, <1>7, <1>8, BlankStep

(* COMMIT: what was released is given back, what was taken is allocated. *)
LEMMA Committed ==
  ASSUME Inv, NEW c \in Calls, CommitOrder(c)
  PROVE  Inv'
<1>0. /\ Types /\ CallInv(c) /\ tx[c] \in Tx /\ ~ At(c, "idle") /\ Stage(c) /\ Books(c)
      /\ At(c, "plan") /\ UNCHANGED <<world, rules, overlap>>
  BY DEF Inv, CallInv, Types, At, CommitOrder, Stage
<1>a. PICK T : T = Taken(c)
  OBVIOUS
<1>b. /\ T = tx[c].mine /\ T \in SUBSET Alloc /\ IsFiniteSet(T)
      /\ \A a \in T : a.call = c
  <2>1. Taken(c) = tx[c].mine
    BY <1>0 DEF Taken, Applied, At
  <2> QED BY <1>0, <1>a, <2>1, TakenFacts DEF CallInv
<1>o. PICK o \in Orders : o = OrderOf(c)
  BY <1>0, WorldFacts DEF Types
<1>c. /\ tx' = [tx EXCEPT ![c] = NoTx] /\ lock' = Unlocked(c)
      /\ allocs' = allocs \cup T /\ status' = [status EXCEPT ![o] = "ALLOCATED"]
      /\ held' = [held EXCEPT ![o] = NoDelta]
      /\ free' = [r \in Rows |-> free[r] + tx[c].delta[r]]
      /\ reserved' = [r \in Rows |-> IF r \in tx[c].released
                                     THEN reserved[r] - tx[c].holds[r] ELSE reserved[r]]
      /\ twice' = twice \cup { r \in tx[c].released : held[o][r] = 0 }
  BY <1>b, <1>o DEF CommitOrder
<1>d. /\ NoTx \in Tx /\ NoTx.at = "idle" /\ NoTx.mine = {} /\ NoTx.released = {}
      /\ NoTx.delta = NoDelta
  BY NoTxBlank DEF Blank, NoTx
<1>e. T \cap allocs = {}
  <2>1. \A a \in allocs : At(a.call, "idle")
    BY DEF Inv, Owned
  <2> QED BY <1>0, <1>b, <2>1
<1>f. PICK d \in [Rows -> Int], f \in [Rows -> Nat], h \in [Orders -> [Rows -> Nat]],
          k \in [Rows -> Nat], v \in [Rows -> Nat], R \in SUBSET Rows :
        /\ d = tx[c].delta /\ f = free /\ h = held /\ k = tx[c].holds /\ v = reserved
        /\ R = tx[c].released
  <2>1. /\ tx[c].delta \in [Rows -> Int] /\ tx[c].holds \in [Rows -> Nat]
        /\ tx[c].released \in SUBSET Rows
    BY <1>0, Fields
  <2> QED BY <1>0, <2>1 DEF Types
<1>1. /\ lock' \in [Rows -> Calls \cup {Null}]
      /\ \A r \in Rows : lock'[r] # c
      /\ \A r \in Rows, p \in Calls \ {c} : lock'[r] = p <=> lock[r] = p
  BY <1>0, <1>c, UnlockedRows
<1>2. ASSUME NEW r \in Rows
      PROVE  /\ free'[r] = f[r] + d[r] /\ f[r] + d[r] \in Nat
             /\ r \notin twice' => d[r] = h[o][r] - AllocatedOn(T, r)
             /\ lock[r] # c => free'[r] = free[r] /\ reserved'[r] = reserved[r]
             /\ r \in R => k[r] <= v[r]
  <2>1. free'[r] = f[r] + d[r] /\ f[r] \in Nat /\ d[r] \in Int
    BY <1>c, <1>f
  <2>2. /\ d[r] = Back(c, r) - AllocatedOn(T, r)
        /\ (lock[r] = c => f[r] + d[r] >= 0) /\ (lock[r] # c => d[r] = 0)
        /\ r \in R => lock[r] = c /\ k[r] <= v[r]
    BY <1>0, <1>a, <1>f DEF Books
  <2>3. ASSUME r \notin twice' PROVE Back(c, r) = h[o][r]
    <3>1. h[o][r] \in {0, k[r]} /\ (r \notin R => k[r] = 0)
      BY <1>0, <1>f, <1>o DEF Stage, At
    <3>2. r \in R => h[o][r] # 0
      BY <1>c, <1>f, <2>3
    <3>3. Back(c, r) = IF r \in R THEN k[r] ELSE 0
      BY <1>f DEF Back
    <3> QED BY <3>1, <3>2, <3>3
  <2>4. r \notin R => reserved'[r] = reserved[r]
    BY <1>c, <1>f
  <2> QED BY <1>f, <2>1, <2>2, <2>3, <2>4
<1>3. Types'
  <2>1. free' \in [Rows -> Nat]
    <3>1. free' = [r \in Rows |-> f[r] + d[r]]
      BY <1>c, <1>f
    <3> QED BY <1>2, <3>1
  <2>2. held' \in [Orders -> [Rows -> Nat]]
    <3>1. NoDelta \in [Rows -> Nat]
      BY DEF NoDelta
    <3> QED BY <1>c, <1>f, <3>1
  <2>3. allocs' \in SUBSET Alloc /\ IsFiniteSet(allocs')
    BY <1>0, <1>b, <1>c, FS_Union DEF Types
  <2>4. status' \in [Orders -> {"CREATED", "VALIDATED", "ALLOCATED"}]
    BY <1>0, <1>c DEF Types
  <2>5. tx' \in [Calls -> Tx]
    BY <1>0, <1>c, <1>d DEF Types
  <2>6. reserved' \in [Rows -> Nat] /\ twice' \in SUBSET Rows
    <3>1. reserved' = [r \in Rows |-> IF r \in R THEN v[r] - k[r] ELSE v[r]]
      BY <1>c, <1>f
    <3>2. \A r \in Rows : (IF r \in R THEN v[r] - k[r] ELSE v[r]) \in Nat
      BY <1>2
    <3>3. twice' \in SUBSET Rows
      BY <1>0, <1>c, <1>f DEF Types
    <3> QED BY <3>1, <3>2, <3>3
  <2> QED BY <1>0, <1>1, <2>1, <2>2, <2>3, <2>4, <2>5, <2>6 DEF Types
<1>4. Owned'
  <2> SUFFICES ASSUME NEW a \in allocs'
               PROVE  status'[OrderOf(a.call)] = "ALLOCATED" /\ At(a.call, "idle")'
    BY <1>0 DEF Owned, OrderOf
  <2>1. status'[o] = "ALLOCATED" /\ \A x \in Orders \ {o} : status'[x] = status[x]
    BY <1>0, <1>c DEF Types
  <2>2. tx'[c].at = "idle" /\ \A p \in Calls \ {c} : tx'[p] = tx[p]
    BY <1>0, <1>c, <1>d DEF Types
  <2>3. CASE a \in T
    BY <1>b, <1>o, <2>1, <2>2, <2>3 DEF At
  <2>4. CASE a \in allocs
    <3>1. status[OrderOf(a.call)] = "ALLOCATED" /\ At(a.call, "idle")
      BY <2>4 DEF Inv, Owned
    <3>2. a.call \in Calls \ {c}
      BY <1>0, <2>4, <3>1 DEF Types, Alloc
    <3>3. OrderOf(a.call) \in Orders
      BY <1>0, <3>2, WorldFacts DEF Types
    <3> QED BY <2>1, <2>2, <3>1, <3>2, <3>3 DEF At
  <2> QED BY <1>c, <2>3, <2>4
<1>5. UnitsConserved'
  <2> SUFFICES ASSUME NEW r \in Rows
               PROVE  /\ free'[r] >= 0
                      /\ r \notin twice' =>
                           free'[r] + HeldOn(held', r) + AllocatedOn(allocs', r)
                             = world.free[r] + HeldOn(world.held, r)
    BY <1>0 DEF UnitsConserved, HeldOn, AllocatedOn
  <2>0. free'[r] >= 0
    BY <1>2
  <2>1. HeldOn(held', r) = HeldOn(h, r) - h[o][r] /\ HeldOn(h, r) \in Nat /\ h[o][r] \in Nat
    BY <1>c, <1>f, HeldGone, HeldNat
  <2>2. allocs \in SUBSET Alloc /\ IsFiniteSet(allocs) /\ allocs \cap T = {}
    BY <1>0, <1>e DEF Types
  <2>3. AllocatedOn(allocs', r) = AllocatedOn(allocs, r) + AllocatedOn(T, r)
    <3>1. AllocatedOn(allocs \cup T, r) = AllocatedOn(allocs, r) + AllocatedOn(T, r)
      BY <1>b, <2>2, AllocatedUnion
    <3> QED BY <1>c, <3>1
  <2>4. AllocatedOn(allocs, r) \in Nat /\ AllocatedOn(T, r) \in Nat
    BY <1>b, <2>2, AllocatedNat
  <2>5. r \notin twice' =>
          f[r] + HeldOn(h, r) + AllocatedOn(allocs, r) = world.free[r] + HeldOn(world.held, r)
    <3>1. r \notin twice' => r \notin twice
      BY <1>c
    <3> QED BY <1>f, <3>1 DEF Inv, UnitsConserved
  <2>6. f[r] \in Nat /\ d[r] \in Int
    BY <1>f
  <2> QED BY <1>2, <2>0, <2>1, <2>3, <2>4, <2>5, <2>6
<1>6. ASSUME NEW p \in Calls \ {c} PROVE CallInv(p)' /\ Taken(p)' = Taken(p)
  <2>1. Types /\ CallInv(p) /\ UNCHANGED world
    BY <1>0 DEF Inv, CallInv
  <2>2. tx'[p] = tx[p]
    BY <1>0, <1>c DEF Types
  <2>3. \A r \in Rows : held'[OrderOf(p)][r] \in {0, held[OrderOf(p)][r]}
    <3>1. OrderOf(p) \in Orders
      BY <1>0, WorldFacts DEF Types
    <3>2. CASE OrderOf(p) = o
      BY <1>0, <1>c, <3>2 DEF Types, NoDelta
    <3>3. CASE OrderOf(p) # o
      BY <1>0, <1>c, <3>1, <3>3 DEF Types
    <3> QED BY <3>2, <3>3
  <2>4. \A r \in Rows : lock'[r] = p <=> lock[r] = p
    BY <1>1
  <2>5. \A r \in Rows : lock[r] = p => free'[r] = free[r] /\ reserved'[r] = reserved[r]
    BY <1>2
  <2> QED BY <2>1, <2>2, <2>3, <2>4, <2>5, Untouched
<1>7. tx'[c] = NoTx /\ Taken(c)' = {}
  <2>1. tx'[c] = NoTx
    BY <1>0, <1>c DEF Types
  <2> QED BY <1>d, <2>1 DEF Taken, Applied, At
<1>8. CallInv(c)'
  <2>1. Stage(c)'
    BY <1>7, <1>d, FS_EmptySet DEF Stage, At
  <2>2. Books(c)'
    <3>1. ASSUME NEW r \in Rows
          PROVE  NoDelta[r] = 0 /\ Back(c, r)' = 0 /\ AllocatedOn(Taken(c), r)' = 0
      <4>1. AllocatedOn(Taken(c), r)' = AllocatedOn({}, r)
        BY <1>7 DEF AllocatedOn
      <4> QED BY <1>7, <1>d, <4>1, AllocatedNone DEF NoDelta, Back
    <3> QED BY <1>1, <1>7, <1>d, <3>1 DEF Books
  <2>3. PlanKept(c)'
    BY <1>7, <1>d DEF PlanKept, At
  <2> QED BY <2>1, <2>2, <2>3 DEF CallInv
<1>9. CapKept'
  <2> SUFFICES ASSUME ~ overlap PROVE CapKept'
    BY <1>0 DEF CapKept
  <2>1. \A p \in Calls : At(p, "idle")' /\ Taken(p)' = {}
    <3> SUFFICES ASSUME NEW p \in Calls \ {c} PROVE At(p, "idle")' /\ Taken(p)' = {}
      BY <1>7, <1>d DEF At
    <3>1. At(p, "idle") /\ tx'[p] = tx[p] /\ Stage(p)
      BY <1>0, <1>c, OnlyOpen DEF Types, Inv
    <3> QED BY <1>6, <3>1, IdleTaken DEF At
  <2>2. ASSUME NEW p \in Calls, NEW n \in Nodes, world.capacity[n] # Null
        PROVE  CountAt(allocs \cup Taken(p), n)' <= world.capacity[n]
    <3>1. allocs' \cup Taken(p)' = allocs \cup Taken(c)
      BY <1>a, <1>c, <2>1
    <3>2. CountAt(allocs \cup Taken(p), n)' = CountAt(allocs \cup Taken(c), n)
      BY <3>1 DEF CountAt
    <3>3. CountAt(allocs \cup Taken(c), n) <= world.capacity[n]
      BY <2>2 DEF Inv, CapKept
    <3> QED BY <3>2, <3>3
  <2> QED BY <1>0, <2>1, <2>2 DEF CapKept, At
<1> QED BY <1>3, <1>4, <1>5, <1>6, <1>8, <1>9 DEF Inv, CallInv

-----------------------------------------------------------------------------
(* The invariant *)

(* Before the first order the invariant holds. *)
LEMMA InvInit == Init => Inv
<1> SUFFICES ASSUME Init PROVE Inv
  OBVIOUS
<1>0. /\ world \in Worlds /\ rules \in RuleSets /\ allocs = {} /\ overlap = FALSE
      /\ free = world.free /\ held = world.held /\ twice = {}
      /\ reserved = [r \in Rows |-> HeldOn(held, r)]
      /\ \A c \in Calls : tx[c] = NoTx
      /\ \A r \in Rows : lock[r] = Null
  BY DEF Init
<1>1. /\ NoTx \in Tx /\ NoTx.at = "idle" /\ NoTx.mine = {} /\ NoTx.released = {}
      /\ NoTx.delta = NoDelta
  BY NoTxBlank DEF Blank, NoTx
<1>2. \A c \in Calls : At(c, "idle") /\ Taken(c) = {}
  BY <1>0, <1>1 DEF At, Taken, Applied
<1>3. Types
  <2>1. tx \in [Calls -> Tx]
    BY <1>1 DEF Init
  <2>2. lock \in [Rows -> Calls \cup {Null}]
    BY DEF Init
  <2>3. status \in [Orders -> {"CREATED", "VALIDATED", "ALLOCATED"}]
    BY DEF Init
  <2>4. reserved \in [Rows -> Nat]
    <3>1. \A r \in Rows : HeldOn(held, r) \in Nat
      BY <1>0, WorldFacts, HeldNat
    <3> QED BY <1>0, <3>1
  <2> QED BY <1>0, <2>1, <2>2, <2>3, <2>4, WorldFacts, FS_EmptySet DEF Types
<1>4. UnitsConserved
  <2> SUFFICES ASSUME NEW r \in Rows
               PROVE  /\ free[r] >= 0
                      /\ free[r] + HeldOn(held, r) + AllocatedOn(allocs, r)
                           = world.free[r] + HeldOn(world.held, r)
    BY DEF UnitsConserved
  <2>1. AllocatedOn(allocs, r) = 0 /\ HeldOn(world.held, r) \in Nat /\ free[r] \in Nat
    BY <1>0, <1>3, AllocatedNone, HeldNat, WorldFacts DEF Types
  <2> QED BY <1>0, <2>1
<1>5. CapKept
  <2>1. ASSUME NEW c \in Calls, NEW n \in Nodes, world.capacity[n] # Null
        PROVE  CountAt(allocs \cup Taken(c), n) <= world.capacity[n]
    <3>1. { a \in allocs \cup Taken(c) : a.row[2] = n } = {}
      BY <1>0, <1>2
    <3>2. CountAt(allocs \cup Taken(c), n) = 0
      BY <3>1, FS_EmptySet DEF CountAt
    <3> QED BY <1>0, <2>1, <3>2, WorldFacts
  <2> QED BY <1>2, <2>1 DEF CapKept, At
<1>6. ASSUME NEW c \in Calls PROVE Stage(c) /\ Books(c) /\ PlanKept(c)
  <2>1. Stage(c)
    BY <1>0, <1>1, FS_EmptySet DEF Stage, At
  <2>2. Books(c)
    <3>1. Null # c
      BY SourcingAssumption
    <3> QED BY <1>0, <1>1, <1>2, <3>1, AllocatedNone DEF Books, Back, NoDelta
  <2>3. PlanKept(c)
    BY <1>0, <1>1 DEF PlanKept, At
  <2> QED BY <2>1, <2>2, <2>3
<1>7. Owned
  BY <1>0 DEF Owned
<1> QED BY <1>3, <1>4, <1>5, <1>6, <1>7 DEF Inv

(* A step that touches no transaction and none of the tables. *)
LEMMA NothingTouched ==
  ASSUME Inv, UNCHANGED <<world, tables, lock, tx, overlap>>, rules' \in RuleSets
  PROVE  Inv'
<1>1. Types' /\ UnitsConserved'
  BY DEF Inv, Types, UnitsConserved, HeldOn, AllocatedOn, tables
<1>1a. Owned'
  BY DEF Inv, Owned, OrderOf, At, tables
<1>2. \A c \in Calls : CallInv(c)' /\ Taken(c)' = Taken(c)
  BY Untouched DEF Inv, CallInv, tables
<1>3. CapKept'
  BY <1>2 DEF Inv, CapKept, CountAt, At, tables
<1> QED BY <1>1, <1>1a, <1>2, <1>3 DEF Inv, CallInv

(* Every step keeps the invariant. *)
LEMMA InvStep == Inv /\ [Next]_vars => Inv'
<1> SUFFICES ASSUME Inv, [Next]_vars PROVE Inv'
  OBVIOUS
<1>1. CASE \E R \in RuleSets : EditRules(R)
  BY <1>1, NothingTouched DEF EditRules
<1>2. ASSUME NEW c \in Calls, Start(c) PROVE Inv'
  BY <1>2, Started
<1>2a. ASSUME NEW c \in Calls, ReadHolds(c) PROVE Inv'
  BY <1>2a, HoldsRead
<1>3. ASSUME NEW c \in Calls, ReleaseHold(c) PROVE Inv'
  <2>1. CASE ToRelease(c) = {}
    BY <1>3, <2>1, ReleaseDone DEF ReleaseHold
  <2>2. CASE ToRelease(c) # {}
    <3>1. PICK r \in ToRelease(c) :
            /\ Locked(c, r)
            /\ IF reserved[r] < tx[c].holds[r] THEN Conflict(c)
               ELSE /\ lock' = [lock EXCEPT ![r] = c]
                    /\ tx' = [tx EXCEPT ![c].delta[r] = @ + tx[c].holds[r],
                                        ![c].released = @ \cup {r}]
      BY <1>3, <2>2 DEF ReleaseHold
    <3>2. At(c, "release") /\ ~ At(c, "idle") /\ UNCHANGED <<world, rules, tables, overlap>>
      BY <1>3 DEF ReleaseHold, At
    <3>3. CASE reserved[r] < tx[c].holds[r]
      BY <3>1, <3>2, <3>3, ConflictKeeps
    <3>4. CASE ~ reserved[r] < tx[c].holds[r]
      <4>1. r \in Rows /\ reserved[r] \in Nat /\ tx[c].holds[r] \in Nat
        <5>1. r \in Rows
          BY DEF ToRelease
        <5> QED BY <5>1, Fields DEF Inv, Types
      <4>2. tx[c].holds[r] <= reserved[r]
        BY <3>4, <4>1
      <4> QED BY <3>1, <3>2, <3>4, <4>2, ReleaseOne
    <3> QED BY <3>3, <3>4
  <2> QED BY <2>1, <2>2
<1>4. ASSUME NEW c \in Calls, PlanLine(c) PROVE Inv'
  <2>0. At(c, "plan") /\ ~ At(c, "idle") /\ tx[c].line <= Len(world.lines[OrderOf(c)])
        /\ UNCHANGED <<world, rules, tables, overlap>>
    BY <1>4 DEF PlanLine, At
  <2>1. PICK avail : Reads(c, avail)
    BY DEF Reads
  <2>2. PICK plan \in Plans(tx[c].strategy, avail, Line_(c).quantity) :
          \/ tx' = [tx EXCEPT ![c] = NoTx] /\ lock' = Unlocked(c)
          \/ /\ tx' = [tx EXCEPT ![c].at = "apply", ![c].seen = avail,
                                 ![c].plan = plan, ![c].leg = 1]
             /\ UNCHANGED lock
    BY <1>4, <2>1 DEF PlanLine, Reads
  <2>3. CASE tx' = [tx EXCEPT ![c] = NoTx] /\ lock' = Unlocked(c)
    BY <2>0, <2>3, NoTxBlank, RolledBack
  <2>4. CASE /\ tx' = [tx EXCEPT ![c].at = "apply", ![c].seen = avail,
                                 ![c].plan = plan, ![c].leg = 1]
             /\ UNCHANGED lock
    BY <2>0, <2>1, <2>4, PlanMade
  <2> QED BY <2>2, <2>3, <2>4
<1>5. ASSUME NEW c \in Calls, ApplyLeg(c) PROVE Inv'
  <2>0. /\ At(c, "apply") /\ ~ At(c, "idle") /\ tx[c].leg <= Len(tx[c].plan)
        /\ Locked(c, NextRow(c)) /\ UNCHANGED <<world, rules, tables, overlap>>
    BY <1>5 DEF ApplyLeg, At
  <2>1. CASE Free(c, NextRow(c)) < NextLeg(c).quantity
    BY <1>5, <2>0, <2>1, ConflictKeeps DEF ApplyLeg
  <2>2. CASE ~ Free(c, NextRow(c)) < NextLeg(c).quantity
    <3>1. Free(c, NextRow(c)) >= NextLeg(c).quantity
      BY <2>0, <2>2, LegFree
    <3>2. /\ lock' = [lock EXCEPT ![NextRow(c)] = c]
          /\ tx' = [tx EXCEPT ![c].delta[NextRow(c)] = @ - NextLeg(c).quantity,
                              ![c].leg = @ + 1]
      BY <1>5, <2>2 DEF ApplyLeg
    <3> QED BY <2>0, <3>1, <3>2, LegApplied
  <2> QED BY <2>1, <2>2
<1>6. ASSUME NEW c \in Calls, PersistLine(c) PROVE Inv'
  BY <1>6, LinePersisted
<1>7. ASSUME NEW c \in Calls, CommitOrder(c) PROVE Inv'
  BY <1>7, Committed
<1>8. ASSUME NEW c \in Calls, DeadlockVictim(c) PROVE Inv'
  <2>1. ~ At(c, "idle")
    BY <1>8 DEF DeadlockVictim, WaitsFor, At
  <2> QED BY <1>8, <2>1, ConflictKeeps DEF DeadlockVictim
<1>9. CASE UNCHANGED vars
  <2>1. UNCHANGED <<world, tables, lock, tx, overlap>> /\ rules' \in RuleSets
    BY <1>9 DEF vars, tables, Inv, Types
  <2> QED BY <2>1, NothingTouched
<1> QED BY <1>1, <1>2, <1>2a, <1>3, <1>4, <1>5, <1>6, <1>7, <1>8, <1>9 DEF Next, Step

(* The strengthening all theorems below rest on. *)
THEOREM SpecInv == Spec => []Inv
<1> QED BY InvInit, InvStep, PTL DEF Spec

(* Every table has its type, and an open transaction a strategy and an      *)
(* attempt within retryOnConflict's limit (retry.util.ts).                  *)
THEOREM SpecTypeOK == Spec => []TypeOK
<1>1. Inv => TypeOK
  <2> SUFFICES ASSUME Inv, NEW c \in Calls, tx[c].at # "idle"
               PROVE  tx[c].strategy \in Strategies /\ tx[c].attempt \in 1 .. MaxAttempts
    BY DEF Inv, Types, TypeOK
  <2> QED BY Fields DEF Inv, Types, Stage, At
<1> QED BY <1>1, SpecInv, PTL

(* sourceOrder: on every row the free, held and allocated units add up to   *)
(* what there was and none is given away twice, whatever stale plans,       *)
(* conflicts, deadlocks, retries and refusals the orders run into; but where *)
(* two sourcings of one order both released its hold.                       *)
THEOREM SpecUnitsConserved == Spec => []UnitsConserved
<1>1. Inv => UnitsConserved
  BY DEF Inv
<1> QED BY <1>1, SpecInv, PTL

(* planLine: a line is short by exactly what its candidates cannot give     *)
(* together; no node is asked for more than it has, and none twice.         *)
THEOREM SpecPlanCovers == Spec => []PlanCovers
<1>1. Inv => PlanCovers
  BY DEF Inv, PlanKept, Covers, PlanCovers, Fresh
<1> QED BY <1>1, SpecInv, PTL

(* comparator: no unit comes from a node while one the strategy prefers     *)
(* still has units to give.                                                 *)
THEOREM SpecStrategyHonoured == Spec => []StrategyHonoured
<1>1. Inv => StrategyHonoured
  <2> SUFFICES ASSUME Inv, NEW c \in Calls, Fresh(c),
                      NEW i \in DOMAIN tx[c].plan, NEW n \in DOMAIN tx[c].seen,
                      Preferred(tx[c].strategy, n, tx[c].plan[i].node)
               PROVE  \E j \in DOMAIN tx[c].plan : Leg(n, tx[c].seen[n]) = tx[c].plan[j]
    BY DEF StrategyHonoured
  <2> QED BY DEF Inv, PlanKept, Honours, Fresh
<1> QED BY <1>1, SpecInv, PTL

(* planLine under FEWEST_SPLITS: no smaller set of candidates covers what   *)
(* the plan covers.                                                         *)
THEOREM SpecFewestLegs == Spec => []FewestLegs
<1>1. Inv => FewestLegs
  BY DEF Inv, PlanKept, Fewest, FewestLegs, Fresh
<1> QED BY <1>1, SpecInv, PTL

(* candidatesForLine: as long as no two sourcings were open at once, no     *)
(* node has more open allocations than its cap.                             *)
THEOREM SpecCapacityHeld == Spec => []CapacityHeld
<1>1. Inv => CapacityHeld
  <2> SUFFICES ASSUME Inv, ~ overlap, NEW n \in Nodes, world.capacity[n] # Null
               PROVE  CountAt(allocs, n) <= world.capacity[n]
    BY DEF CapacityHeld, CountAt
  <2>1. CASE Calls = {}
    <3>1. allocs = {}
      BY <2>1 DEF Inv, Types, Alloc
    <3>2. { a \in allocs : a.row[2] = n } = {}
      BY <3>1
    <3>3. CountAt(allocs, n) = 0
      BY <3>2, FS_EmptySet DEF CountAt
    <3> QED BY <3>3, WorldFacts DEF Inv, Types
  <2>2. ASSUME NEW c \in Calls PROVE CountAt(allocs, n) <= world.capacity[n]
    <3>1. CountAt(allocs \cup Taken(c), n) <= world.capacity[n]
      BY DEF Inv, CapKept
    <3>2. IsFiniteSet(allocs \cup Taken(c)) /\ allocs \in SUBSET (allocs \cup Taken(c))
      BY TakenFacts, FS_Union DEF Inv, Types
    <3>3. /\ CountAt(allocs, n) <= CountAt(allocs \cup Taken(c), n)
          /\ CountAt(allocs \cup Taken(c), n) \in Nat /\ CountAt(allocs, n) \in Nat
      BY <3>2, CountMonotone
    <3>4. world.capacity[n] \in Nat
      BY WorldFacts DEF Inv, Types
    <3> QED BY <3>1, <3>3, <3>4
  <2> QED BY <2>1, <2>2
<1> QED BY <1>1, SpecInv, PTL
=============================================================================
