------------------------------ MODULE Sourcing ------------------------------
(***************************************************************************)
(* The sourcing engine (sourcing.service.ts): the rule that names the      *)
(* strategy, the candidates of each line, the plan, and the transaction    *)
(* that turns the order's soft holds into hard allocations at the planned  *)
(* nodes, retried when it loses a race (retry.util.ts).                    *)
(*                                                                         *)
(* Orders are sourced concurrently under READ COMMITTED: a plan is made    *)
(* from what is committed plus the transaction's own writes, nothing is    *)
(* locked before a leg is applied, and a leg re-checks availability under  *)
(* the row lock.  Nothing keeps two requests from sourcing one order: its  *)
(* status is checked before the transaction.  A row holds the units that   *)
(* may still be promised: on hand less reserved, allocated and safety      *)
(* stock (module Movements).                                               *)
(***************************************************************************)
EXTENDS Integers, SequencesExt, Planner

CONSTANTS
  Orders, Skus, Nodes,
  Calls,        \* requests to source an order
  Null,         \* a NULL column: no location, capacity, channel or region
  Worlds,       \* what there is at the start, see World
  RuleSets,     \* the states the SourcingRule table may be edited into
  MaxAttempts   \* retryOnConflict's attempts

Rows == Skus \X Nodes
Strategies == {"NEAREST", "PRIORITY", "FEWEST_SPLITS", "BALANCED"}
Rule == [strategy : Strategies, channel : {"WEB", Null}, region : {"EU", Null},
         priority : Nat, active : BOOLEAN]
Line == [sku : Skus, quantity : Nat \ {0}]

(* The free units of every row, the nodes' columns, the orders that are     *)
(* VALIDATED, each order's lines, active reservations and flag, and the     *)
(* order that each call is about.                                           *)
World ==
  [valid : SUBSET Orders, free : [Rows -> Nat], priority : [Nodes -> Nat],
   distance : [Nodes -> Nat \cup {Null}], capacity : [Nodes -> Nat \cup {Null}],
   lines : [Orders -> Seq(Line)], held : [Orders -> [Rows -> Nat]],
   backorder : [Orders -> BOOLEAN], order : [Calls -> Orders]]

Infinity == 1000000

(* Distances are kilometres on the globe: none comes near Infinity. *)
ASSUME SourcingAssumption ==
  /\ MaxAttempts \in Nat \ {0}
  /\ IsFiniteSet(Orders) /\ IsFiniteSet(Nodes) /\ Null \notin Calls
  /\ \A R \in RuleSets : R \subseteq Rule
  /\ Worlds \subseteq World
  /\ \A x \in Worlds, n \in Nodes :
       x.distance[n] = Null \/ x.distance[n] < Infinity

VARIABLES
  world,     \* the initial world
  rules,     \* the SourcingRule table
  status,    \* Order.status
  free,      \* committed availability of each row
  reserved,  \* the reserved units of each row
  held,      \* ACTIVE reservations of each order
  allocs,    \* committed allocations: [call, line, row, quantity]
  lock,      \* row locks
  tx,        \* the transaction of each call
  overlap,   \* history: have two sourcings ever been open at once?
  twice      \* history: rows on which two sourcings released one hold

vars == <<world, rules, status, free, reserved, held, allocs, lock, tx, overlap, twice>>
tables == <<status, free, reserved, held, allocs, twice>>

NoDelta == [r \in Rows |-> 0]

(* A transaction: its strategy, attempt and line; the holds it has read;    *)
(* the free units of each candidate when the line was planned; the legs     *)
(* still to apply; its own changes of availability, its released holds and  *)
(* its allocations.                                                         *)
NoTx == [at |-> "idle", strategy |-> "", attempt |-> 1, line |-> 1,
         holds |-> NoDelta, seen |-> << >>, plan |-> << >>, leg |-> 1,
         delta |-> NoDelta, released |-> {}, mine |-> {}]

At(c, label) == tx[c].at = label
Go(c, label) == tx' = [tx EXCEPT ![c].at = label]
OrderOf(c) == world.order[c]

(* The units of row r that orders hold. *)
HeldOn(h, r) == Sum([o \in Orders |-> h[o][r]], Orders)

Init ==
  /\ world \in Worlds
  /\ rules \in RuleSets
  /\ status = [o \in Orders |-> IF o \in world.valid THEN "VALIDATED" ELSE "CREATED"]
  /\ free = world.free /\ held = world.held
  /\ reserved = [r \in Rows |-> HeldOn(held, r)]
  /\ allocs = {}
  /\ lock = [r \in Rows |-> Null]
  /\ tx = [c \in Calls |-> NoTx]
  /\ overlap = FALSE /\ twice = {}

-----------------------------------------------------------------------------
(* SourcingRuleService.create and update *)
EditRules(R) ==
  /\ rules' = R /\ R # rules
  /\ UNCHANGED <<world, tables, lock, tx, overlap>>

Applies(r) ==
  r.active /\ r.channel \in {"WEB", Null} /\ r.region \in {"EU", Null}

(* resolveStrategy: an applicable rule of the least priority (any of them   *)
(* when there are several), else BALANCED.                                  *)
Resolved ==
  LET applicable == { r \in rules : Applies(r) } IN
  IF applicable = {} THEN {"BALANCED"}
  ELSE { r.strategy : r \in { x \in applicable :
           \A y \in applicable : x.priority <= y.priority } }

(* sourceOrder: only a VALIDATED order, which is not looked at again; the   *)
(* strategy is resolved once, before the transaction and its retries.       *)
Start(c) ==
  /\ At(c, "idle") /\ status[OrderOf(c)] = "VALIDATED"
  /\ \E s \in Resolved :
       tx' = [tx EXCEPT ![c] = [NoTx EXCEPT !.at = "begin", !.strategy = s]]
  /\ overlap' = (overlap \/ \E p \in Calls \ {c} : ~ At(p, "idle"))
  /\ UNCHANGED <<world, rules, tables, lock>>

Locked(c, r) == lock[r] \in {Null, c}
Free(c, r) == free[r] + tx[c].delta[r]
Unlocked(c) == [r \in Rows |-> IF lock[r] = c THEN Null ELSE lock[r]]

(* Mutant of Conflict: an attempt that failed is not counted. *)
ConflictUncounted(c) ==
  /\ lock' = Unlocked(c)
  /\ tx' = [tx EXCEPT ![c] = [NoTx EXCEPT
              !.at = "begin", !.strategy = tx[c].strategy]]

(* A ConflictException or a deadlock: roll back, and run again from the     *)
(* release of the holds while attempts are left.                            *)
Conflict(c) ==
  /\ lock' = Unlocked(c)
  /\ tx' = [tx EXCEPT ![c] =
              IF tx[c].attempt = MaxAttempts THEN NoTx
              ELSE [NoTx EXCEPT !.at = "begin", !.strategy = tx[c].strategy,
                                !.attempt = tx[c].attempt + 1]]

(* releaseOwnReservations: the order's ACTIVE reservations are read, ...    *)
ReadHolds(c) ==
  /\ At(c, "begin")
  /\ tx' = [tx EXCEPT ![c].at = "release", ![c].holds = held[OrderOf(c)]]
  /\ UNCHANGED <<world, rules, tables, lock, overlap>>

ToRelease(c) == { r \in Rows : tx[c].holds[r] > 0 /\ r \notin tx[c].released }

(* ... and released one at a time, whether or not they still stand; a row   *)
(* is never left with fewer than no units reserved.                         *)
ReleaseHold(c) ==
  /\ At(c, "release")
  /\ IF ToRelease(c) = {} THEN Go(c, "plan") /\ UNCHANGED lock
     ELSE \E r \in ToRelease(c) :
            /\ Locked(c, r)
            /\ IF reserved[r] < tx[c].holds[r] THEN Conflict(c)
               ELSE /\ lock' = [lock EXCEPT ![r] = c]
                    /\ tx' = [tx EXCEPT ![c].delta[r] = @ + tx[c].holds[r],
                                        ![c].released = @ \cup {r}]
  /\ UNCHANGED <<world, rules, tables, overlap>>

-----------------------------------------------------------------------------
(* The planner *)

Line_(c) == world.lines[OrderOf(c)][tx[c].line]

(* Mutant of OpenAt: allocations of this transaction are not counted. *)
OpenAtCommitted(c, n) == Cardinality({ a \in allocs : a.row[2] = n })

(* Open allocations of a node, as the transaction of call c counts them. *)
OpenAt(c, n) == Cardinality({ a \in allocs \cup tx[c].mine : a.row[2] = n })

(* candidatesForLine: nodes with something available and below their cap. *)
Candidates(c) ==
  { n \in Nodes :
      /\ Free(c, <<Line_(c).sku, n>>) > 0
      /\ world.capacity[n] # Null => OpenAt(c, n) < world.capacity[n] }

(* Mutant of Distance: a node without coordinates counts as near. *)
DistanceOrZero(n) == IF world.distance[n] = Null THEN 0 ELSE world.distance[n]

(* haversineKm, or Infinity where a coordinate is missing. *)
Distance(n) == IF world.distance[n] = Null THEN Infinity ELSE world.distance[n]

(* Mutant of SortKey: the smallest pools come first. *)
SortKeyAscending(strategy, n, avail) ==
  CASE strategy = "NEAREST"       -> <<Distance(n), world.priority[n], -avail[n]>>
    [] strategy = "PRIORITY"      -> <<world.priority[n], -avail[n], 0>>
    [] strategy = "FEWEST_SPLITS" -> <<avail[n], world.priority[n], 0>>
    [] strategy = "BALANCED"      -> <<world.priority[n], Distance(n), -avail[n]>>

(* comparator: nodes are compared by these keys, lexicographically. *)
SortKey(strategy, n, avail) ==
  CASE strategy = "NEAREST"       -> <<Distance(n), world.priority[n], -avail[n]>>
    [] strategy = "PRIORITY"      -> <<world.priority[n], -avail[n], 0>>
    [] strategy = "FEWEST_SPLITS" -> <<-avail[n], world.priority[n], 0>>
    [] strategy = "BALANCED"      -> <<world.priority[n], Distance(n), -avail[n]>>

LexLeq(a, b) ==
  a = b \/ \E i \in 1 .. 3 : a[i] < b[i] /\ \A j \in 1 .. i - 1 : a[j] = b[j]

(* Every order the sort may leave the candidates in: rows come from the     *)
(* database in no order and ties stay as they came.                         *)
Sorted(strategy, avail) ==
  { s \in SetToSeqs(DOMAIN avail) :
      \A i, j \in DOMAIN s : i < j =>
        LexLeq(SortKey(strategy, s[i], avail), SortKey(strategy, s[j], avail)) }

(* planLine: FEWEST_SPLITS first looks for one node that covers the line,   *)
(* the preferred one by priority and then by size.                          *)
Plans(strategy, avail, quantity) ==
  LET single == { n \in DOMAIN avail : avail[n] >= quantity }
      key(n) == <<world.priority[n], -avail[n], 0>>
  IN  IF strategy = "FEWEST_SPLITS" /\ single # {}
      THEN { <<Leg(n, quantity)>> : n \in { x \in single :
               \A y \in single : LexLeq(key(x), key(y)) } }
      ELSE { Greedy(s, avail, quantity) : s \in Sorted(strategy, avail) }

(* Read the candidates of the line and plan it; a shortage without          *)
(* backorder is no conflict: the transaction rolls back for good.           *)
PlanLine(c) ==
  /\ At(c, "plan") /\ tx[c].line <= Len(world.lines[OrderOf(c)])
  /\ LET avail == [n \in Candidates(c) |-> Free(c, <<Line_(c).sku, n>>)] IN
     \E plan \in Plans(tx[c].strategy, avail, Line_(c).quantity) :
       IF Planned(plan) < Line_(c).quantity /\ ~ world.backorder[OrderOf(c)]
       THEN tx' = [tx EXCEPT ![c] = NoTx] /\ lock' = Unlocked(c)
       ELSE /\ tx' = [tx EXCEPT ![c].at = "apply", ![c].seen = avail,
                                ![c].plan = plan, ![c].leg = 1]
            /\ UNCHANGED lock
  /\ UNCHANGED <<world, rules, tables, overlap>>

-----------------------------------------------------------------------------
(* The transaction *)

(* The leg at hand. *)
NextLeg(c) == tx[c].plan[tx[c].leg]
NextRow(c) == <<Line_(c).sku, NextLeg(c).node>>

(* Mutant of ApplyLeg: the plan is trusted. *)
ApplyLegUnchecked(c) ==
  /\ At(c, "apply") /\ tx[c].leg <= Len(tx[c].plan)
  /\ Locked(c, NextRow(c))
  /\ lock' = [lock EXCEPT ![NextRow(c)] = c]
  /\ tx' = [tx EXCEPT ![c].delta[NextRow(c)] = @ - NextLeg(c).quantity,
                      ![c].leg = @ + 1]
  /\ UNCHANGED <<world, rules, tables, overlap>>

(* ALLOCATE with requireAvailable, under the row lock. *)
ApplyLeg(c) ==
  /\ At(c, "apply") /\ tx[c].leg <= Len(tx[c].plan)
  /\ Locked(c, NextRow(c))
  /\ IF Free(c, NextRow(c)) < NextLeg(c).quantity THEN Conflict(c)
     ELSE /\ lock' = [lock EXCEPT ![NextRow(c)] = c]
          /\ tx' = [tx EXCEPT ![c].delta[NextRow(c)] = @ - NextLeg(c).quantity,
                              ![c].leg = @ + 1]
  /\ UNCHANGED <<world, rules, tables, overlap>>

(* The Allocation rows of a line whose legs are all applied. *)
PersistLine(c) ==
  /\ At(c, "apply") /\ tx[c].leg > Len(tx[c].plan)
  /\ tx' = [tx EXCEPT
       ![c].at = "plan", ![c].line = @ + 1,
       ![c].mine = @ \cup { [call |-> c, line |-> tx[c].line,
                             row |-> <<Line_(c).sku, leg.node>>,
                             quantity |-> leg.quantity] : leg \in ToSet(tx[c].plan) }]
  /\ UNCHANGED <<world, rules, tables, lock, overlap>>

(* Shipments, status and COMMIT; the holds are CONSUMED.  The allocations   *)
(* of a node form its shipment (OrderLifecycle has the shipments).          *)
CommitOrder(c) ==
  LET o == OrderOf(c) IN
  /\ At(c, "plan") /\ tx[c].line > Len(world.lines[o])
  /\ free' = [r \in Rows |-> free[r] + tx[c].delta[r]]
  /\ reserved' = [r \in Rows |-> IF r \in tx[c].released
                                 THEN reserved[r] - tx[c].holds[r] ELSE reserved[r]]
  /\ twice' = twice \cup { r \in tx[c].released : held[o][r] = 0 }
  /\ held' = [held EXCEPT ![o] = NoDelta]
  /\ allocs' = allocs \cup tx[c].mine
  /\ status' = [status EXCEPT ![o] = "ALLOCATED"]
  /\ tx' = [tx EXCEPT ![c] = NoTx]
  /\ lock' = Unlocked(c)
  /\ UNCHANGED <<world, rules, overlap>>

(* Rows a transaction would lock next, and whom it waits for. *)
WaitsFor(c, p) ==
  \/ At(c, "release") /\ \E r \in ToRelease(c) : lock[r] = p
  \/ At(c, "apply") /\ tx[c].leg <= Len(tx[c].plan) /\ lock[NextRow(c)] = p

(* Postgres aborts a transaction of a waits-for cycle (40P01: retried). *)
DeadlockVictim(c) ==
  /\ \E p \in Calls \ {c} : WaitsFor(c, p) /\ WaitsFor(p, c)
  /\ Conflict(c)
  /\ UNCHANGED <<world, rules, tables, overlap>>

Step(c) ==
  \/ ReadHolds(c) \/ ReleaseHold(c) \/ PlanLine(c) \/ ApplyLeg(c) \/ PersistLine(c)
  \/ CommitOrder(c) \/ DeadlockVictim(c)

Next ==
  \/ \E R \in RuleSets : EditRules(R)
  \/ \E c \in Calls : Start(c) \/ Step(c)

Spec == Init /\ [][Next]_vars

(* A statement that can run does run; row locks are granted in turn. *)
FairSpec == Spec /\ \A c \in Calls : SF_vars(Step(c))

-----------------------------------------------------------------------------
TypeOK ==
  /\ rules \in RuleSets
  /\ status \in [Orders -> {"CREATED", "VALIDATED", "ALLOCATED"}]
  /\ free \in [Rows -> Nat] /\ reserved \in [Rows -> Nat]
  /\ held \in [Orders -> [Rows -> Nat]]
  /\ lock \in [Rows -> Calls \cup {Null}]
  /\ \A c \in Calls : tx[c].at # "idle" =>
       tx[c].strategy \in Strategies /\ tx[c].attempt \in 1 .. MaxAttempts

(* The units of row r that allocations A took. *)
AllocatedOn(A, r) ==
  LET S == { a \in A : a.row = r } IN Sum([a \in S |-> a.quantity], S)

(* sourcing.service.ts:78-80: a hold becomes an allocation, or stays one.   *)
(* On every row the free, held and allocated units add up to what there     *)
(* was, and none is given away twice, through stale plans, conflicts,       *)
(* deadlocks, retries and refusals: but where two sourcings of one order    *)
(* have both released its hold on that row.                                 *)
UnitsConserved ==
  \A r \in Rows :
    /\ free[r] >= 0
    /\ \/ free[r] + HeldOn(held, r) + AllocatedOn(allocs, r)
            = world.free[r] + HeldOn(world.held, r)
       \/ r \in twice

(* A plan just made, with the candidates it was made from. *)
Fresh(c) == At(c, "apply") /\ tx[c].leg = 1

(* sourcing.service.ts:94-104: a line is backordered by exactly what the    *)
(* candidates together cannot give; no node is asked for more than it has,  *)
(* and none twice.                                                          *)
PlanCovers ==
  \A c \in Calls : Fresh(c) =>
    LET plan == tx[c].plan
        seen == tx[c].seen
    IN  /\ Planned(plan) = Min({Line_(c).quantity, Sum(seen, DOMAIN seen)})
        /\ \A i \in DOMAIN plan : plan[i].quantity \in 1 .. seen[plan[i].node]
        /\ \A i, j \in DOMAIN plan : plan[i].node = plan[j].node => i = j

(* What each strategy prefers, by its name (schema.prisma:408-413). *)
Nearer(a, b) ==
  /\ world.distance[a] # Null
  /\ world.distance[b] = Null \/ world.distance[a] < world.distance[b]
Before(a, b) == world.priority[a] < world.priority[b]
Preferred(strategy, a, b) ==
  \/ strategy = "NEAREST" /\ Nearer(a, b)
  \/ strategy = "PRIORITY" /\ Before(a, b)
  \/ /\ strategy = "BALANCED"
     /\ Before(a, b) \/ (world.priority[a] = world.priority[b] /\ Nearer(a, b))

(* schema.prisma:408-413: no unit comes from a node while one the strategy  *)
(* prefers still has units to give; a node without coordinates is the       *)
(* farthest of all.                                                         *)
StrategyHonoured ==
  \A c \in Calls : Fresh(c) =>
    LET used == { tx[c].plan[i] : i \in DOMAIN tx[c].plan } IN
    \A leg \in used, n \in DOMAIN tx[c].seen :
      Preferred(tx[c].strategy, n, leg.node) => Leg(n, tx[c].seen[n]) \in used

(* sourcing.service.ts:300,333, "to minimise leg count": under              *)
(* FEWEST_SPLITS no smaller set of candidates could cover what the plan     *)
(* covers.                                                                  *)
FewestLegs ==
  \A c \in Calls : (Fresh(c) /\ tx[c].strategy = "FEWEST_SPLITS") =>
    \A S \in SUBSET DOMAIN tx[c].seen :
      Sum(tx[c].seen, S) >= Planned(tx[c].plan)
        => Cardinality(S) >= Len(tx[c].plan)

(* sourcing.service.ts:256, a node takes no allocation once it is at its    *)
(* cap; the count is read without a lock, so only sourcings that were open  *)
(* at the same time can carry a node past it.                               *)
CapacityHeld ==
  \A n \in Nodes : world.capacity[n] # Null =>
    \/ Cardinality({ a \in allocs : a.row[2] = n }) <= world.capacity[n]
    \/ overlap

(* retry.util.ts:21-26: a sourcing ends, allocated or refused, although     *)
(* competing orders may take its units or deadlock with it time and again.  *)
SourcingEnds == \A c \in Calls : tx[c].at # "idle" ~> tx[c].at = "idle"
=============================================================================
