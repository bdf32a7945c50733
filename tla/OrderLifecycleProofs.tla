------------------------ MODULE OrderLifecycleProofs ------------------------
(***************************************************************************)
(* Proofs about the life of an order (orders.service.ts,                   *)
(* sourcing.service.ts, fulfillment.service.ts), for any number of nodes,  *)
(* units, shipments, validations, sourcings and crashes.                   *)
(*                                                                         *)
(* No handler locks the rows it has read, and nothing here assumes that    *)
(* handlers do not overlap: where one may act on an outdated read, the     *)
(* invariants say what it has then written (the history `stale`).          *)
(***************************************************************************)
EXTENDS OrderLifecycle, FiniteSetTheorems, TLAPS

OrderStatus == {"CREATED", "VALIDATED", "ALLOCATED", "RELEASED", "PICKED",
                "SHIPPED", "DELIVERED", "CANCELLED", "RETURNED"}
Stages == {"PICKED", "SHIPPED", "DELIVERED"}
ShipmentStatus == {"PENDING", "PICKED", "READY_FOR_PICKUP", "SHIPPED",
                   "PICKED_UP", "DELIVERED", "CANCELLED"}
Shipment == [node : Nodes, status : ShipmentStatus,
             alloc : AllocationStatus, job : BOOLEAN]
Charge == {"authorized", "captured", "refunded", "voided"}

ShipLabels == {"di_update", "p_order", "p_update", "sh_allocs", "sh_update",
               "pu_allocs", "pu_update", "r_update", "d_update"}
Labels == ShipLabels \cup
  {"idle", "t_read", "t_write", "v_update", "s_commit", "c_start", "c_allocs",
   "c_dealloc", "reverse", "rev_update", "roll", "roll_order", "capture",
   "cap_call", "cap_update"}
Task == [at : Labels, ship : Nat, list : SUBSET Nat,
         to : OrderStatus \cup {""}, last : Stages \cup {""},
         pay : PaymentStatus \cup {""}, ref : Nat,
         then : {"", "end", "reject", "reverse", "rollup"}]

-----------------------------------------------------------------------------
(* Types *)

Types ==
  /\ status \in OrderStatus /\ payStatus \in PaymentStatus
  /\ payRef \in 0 .. Len(gateway)
  /\ ships \in Seq(Shipment) /\ gateway \in Seq(Charge)
  /\ onHand \in [Nodes -> Nat] /\ allocated \in [Nodes -> Nat]
  /\ task \in [Workers -> Task]

(* A transition under way: where it goes, and what follows it.  A rollup   *)
(* climbs the chain up to the stage it read.                               *)
Climbs(t) == /\ t.last \in Stages /\ t.to \in Stages \cup {"RELEASED"}
             /\ ChainIndex(t.to) <= ChainIndex(t.last)
TransitionOf(t) ==
  \/ t.then = "end" /\ t.to \in {"VALIDATED", "RELEASED"}
  \/ t.then = "reverse" /\ t.to = "CANCELLED"
  \/ t.then = "rollup" /\ Climbs(t)

(* What a task refers to exists. *)
Refers(t) ==
  /\ t.ref \in 0 .. Len(gateway)
  /\ t.list \subseteq DOMAIN ships
  /\ t.at \in ShipLabels => t.ship \in DOMAIN ships /\ t.list \subseteq {t.ship}
  /\ t.at = "v_update" => t.pay \in {"DECLINED", "AUTHORIZED"}
  /\ t.at \in {"t_read", "t_write"} => TransitionOf(t)
  /\ t.at = "roll_order" => t.last \in Stages
TypeInv == Types /\ \A w \in Workers : Refers(task[w])

-----------------------------------------------------------------------------
(* The tables of the state machine *)

(* Every status has its entry in the tables of transitions and ranks. *)
LEMMA Tables ==
  /\ DOMAIN TRANSITIONS = OrderStatus
  /\ DOMAIN SHIPMENT_RANK = ShipmentStatus
  /\ \A st \in ShipmentStatus : SHIPMENT_RANK[st] \in Int
<1>1. DOMAIN TRANSITIONS = OrderStatus
  BY DEF TRANSITIONS, OrderStatus
<1>2. DOMAIN SHIPMENT_RANK = ShipmentStatus
  BY DEF SHIPMENT_RANK, ShipmentStatus
<1>3. \A st \in ShipmentStatus : SHIPMENT_RANK[st] \in Int
  BY DEF SHIPMENT_RANK, ShipmentStatus
<1> QED BY <1>1, <1>2, <1>3

(* The place of each status in the chain of the rollup (0: not in it). *)
LEMMA Chain ==
  /\ ChainIndex("ALLOCATED") = 1 /\ ChainIndex("RELEASED") = 2
  /\ ChainIndex("PICKED") = 3 /\ ChainIndex("SHIPPED") = 4
  /\ ChainIndex("DELIVERED") = 5
  /\ \A st \in {"CREATED", "VALIDATED", "CANCELLED", "RETURNED"} :
       ChainIndex(st) = 0
<1>1. /\ ORDER_CHAIN[1] = "ALLOCATED" /\ ORDER_CHAIN[2] = "RELEASED"
      /\ ORDER_CHAIN[3] = "PICKED" /\ ORDER_CHAIN[4] = "SHIPPED"
      /\ ORDER_CHAIN[5] = "DELIVERED"
  BY DEF ORDER_CHAIN
<1>2. \A i \in 1 .. 5 : i = 1 \/ i = 2 \/ i = 3 \/ i = 4 \/ i = 5
  OBVIOUS
<1>3. ChainIndex("ALLOCATED") = 1
  BY <1>1, <1>2 DEF ChainIndex
<1>4. ChainIndex("RELEASED") = 2
  BY <1>1, <1>2 DEF ChainIndex
<1>5. ChainIndex("PICKED") = 3
  BY <1>1, <1>2 DEF ChainIndex
<1>6. ChainIndex("SHIPPED") = 4
  BY <1>1, <1>2 DEF ChainIndex
<1>7. ChainIndex("DELIVERED") = 5
  BY <1>1, <1>2 DEF ChainIndex
<1>8. \A st \in {"CREATED", "VALIDATED", "CANCELLED", "RETURNED"} :
        ChainIndex(st) = 0
  BY <1>1, <1>2 DEF ChainIndex
<1> QED BY <1>3, <1>4, <1>5, <1>6, <1>7, <1>8

(* The status that follows one on the chain. *)
LEMMA Following ==
  /\ NextInChain("ALLOCATED") = "RELEASED"
  /\ NextInChain("RELEASED") = "PICKED"
  /\ NextInChain("PICKED") = "SHIPPED"
  /\ NextInChain("SHIPPED") = "DELIVERED"
<1>1. /\ ChainIndex("ALLOCATED") = 1 /\ ChainIndex("RELEASED") = 2
      /\ ChainIndex("PICKED") = 3 /\ ChainIndex("SHIPPED") = 4
  BY Chain
<1>2. /\ ChainIndex("ALLOCATED") + 1 = 2 /\ ChainIndex("RELEASED") + 1 = 3
      /\ ChainIndex("PICKED") + 1 = 4 /\ ChainIndex("SHIPPED") + 1 = 5
  BY <1>1
<1> QED BY <1>2 DEF NextInChain, ORDER_CHAIN

(* What the table of transitions allows. *)
LEMMA Allowed ==
  ASSUME NEW from \in OrderStatus, NEW to \in OrderStatus,
         canTransition(from, to)
  PROVE  /\ to = "VALIDATED" => from = "CREATED"
         /\ to = "RELEASED" => from = "ALLOCATED"
         /\ to # "CREATED" /\ from # "CANCELLED"
         /\ from = "SHIPPED" => to = "DELIVERED"
         /\ from = "DELIVERED" => to = "RETURNED"
         /\ from # "RETURNED"
BY DEF canTransition, TRANSITIONS, OrderStatus

-----------------------------------------------------------------------------
(* The tables but for the tasks. *)
World ==
  /\ status \in OrderStatus /\ payStatus \in PaymentStatus
  /\ payRef \in 0 .. Len(gateway)
  /\ ships \in Seq(Shipment) /\ gateway \in Seq(Charge)
  /\ onHand \in [Nodes -> Nat] /\ allocated \in [Nodes -> Nat]

(* Shipments and charges are only ever added. *)
Grows == Len(gateway) <= Len(gateway') /\ DOMAIN ships \subseteq DOMAIN ships'

(* A task keeps referring to what exists. *)
LEMMA RefersKept ==
  ASSUME World, World', Grows, NEW t \in Task, Refers(t)
  PROVE  Refers(t)'
<1>1. t.ref \in 0 .. Len(gateway)'
  BY DEF Refers, Grows, World
<1> QED BY <1>1 DEF Refers, Grows

(* A step of w that goes on with a well-typed task t keeps the types. *)
LEMMA StepTyped ==
  ASSUME TypeInv, NEW w \in Workers, NEW t \in Task, Become(w, t),
         World', Grows, Refers(t)'
  PROVE  TypeInv'
<1>1. task' \in [Workers -> Task]
  BY DEF TypeInv, Types, Become
<1>2. Types'
  BY <1>1 DEF World, Types
<1>3. ASSUME NEW v \in Workers PROVE Refers(task[v])'
  <2>1. CASE v = w
    <3>1. task'[v] = t
      BY <2>1 DEF Become, TypeInv, Types
    <3> QED BY <3>1
  <2>2. CASE v # w
    <3>1. PICK u : u = task[v]
      OBVIOUS
    <3>2. task'[v] = u
      BY <2>2, <3>1 DEF Become, TypeInv, Types
    <3>3. u \in Task /\ Refers(u) /\ World
      BY <3>1 DEF TypeInv, Types, World
    <3>4. Refers(u)'
      BY <3>3, RefersKept
    <3> QED BY <3>2, <3>4
  <2> QED BY <2>1, <2>2
<1> QED BY <1>2, <1>3 DEF TypeInv

(* The same for a step that changes nothing but the task. *)
LEMMA QuietTyped ==
  ASSUME TypeInv, NEW w \in Workers, NEW t \in Task, Become(w, t),
         UNCHANGED <<status, ships, stock, payment>>, Refers(t)
  PROVE  TypeInv'
<1>1. World' /\ Grows
  BY DEF TypeInv, Types, World, Grows, stock, payment
<1>2. Refers(t)'
  BY DEF Refers, payment
<1> QED BY <1>1, <1>2, StepTyped

(* Idle is a task that refers to nothing. *)
LEMMA IdleTyped ==
  ASSUME TypeInv
  PROVE  Idle \in Task /\ Refers(Idle) /\ Idle.list = {} /\ Idle.at = "idle"
<1>1. Idle \in Task
  BY DEF Idle, Task, Labels
<1>2. Len(gateway) \in Nat
  BY DEF TypeInv, Types
<1>3. Refers(Idle)
  BY <1>2 DEF Idle, Refers, ShipLabels
<1> QED BY <1>1, <1>3 DEF Idle

(* A task that goes on at a label. *)
LEMMA MovedTyped ==
  ASSUME TypeInv, NEW w \in Workers, NEW l \in Labels
  PROVE  LET t == [task[w] EXCEPT !.at = l] IN
         /\ t \in Task /\ t.at = l /\ t.ship = task[w].ship
         /\ t.list = task[w].list /\ t.to = task[w].to /\ t.last = task[w].last
         /\ t.pay = task[w].pay /\ t.ref = task[w].ref /\ t.then = task[w].then
BY DEF TypeInv, Types, Task

-----------------------------------------------------------------------------
(* Sourcing creates one pending shipment for each node of S. *)

NewShipment(n) == [node |-> n, status |-> "PENDING", alloc |-> "ALLOCATED",
                   job |-> FALSE]

(* There is a list that names every node of a finite set as often as it has *)
(* room for, so the sourcing's choice is one, and it names each node once.  *)
LEMMA OneShipmentEach ==
  ASSUME NEW S, IsFiniteSet(S)
  PROVE  LET q == NewShipments(S) IN
         /\ Cardinality(S) \in Nat /\ DOMAIN q = 1 .. Cardinality(S)
         /\ q \in [1 .. Cardinality(S) -> { NewShipment(n) : n \in S }]
         /\ \A n \in S : \E i \in DOMAIN q :
              q[i].node = n /\ \A j \in DOMAIN q : q[j].node = n => j = i
<1> DEFINE K == 1 .. Cardinality(S)
           Q == [K -> { NewShipment(n) : n \in S }]
           q == NewShipments(S)
<1>1. Cardinality(S) \in Nat /\ ExistsBijection(K, S)
  BY FS_CardinalityType
<1>2. PICK f \in Bijection(K, S) : TRUE
  BY <1>1 DEF ExistsBijection
<1>3. f \in [K -> S] /\ \A n \in S : \E i \in K : f[i] = n
  BY <1>2 DEF Bijection, Injection, Surjection
<1>4. \E p \in Q : \A n \in S : \E i \in DOMAIN p : p[i].node = n
  <2> DEFINE p == [i \in K |-> NewShipment(f[i])]
  <2>1. p \in Q
    BY <1>3
  <2>2. \A i \in K : p[i].node = f[i]
    BY DEF NewShipment
  <2>3. \A n \in S : \E i \in DOMAIN p : p[i].node = n
    BY <1>3, <2>2
  <2> QED BY <2>1, <2>3
<1>5. q \in Q /\ \A n \in S : \E i \in DOMAIN q : q[i].node = n
  BY <1>4 DEF NewShipments, NewShipment
<1>6. PICK g : g = [i \in K |-> q[i].node]
  OBVIOUS
<1>7. \A i \in K : q[i].node \in S
  BY <1>5 DEF NewShipment
<1>8. g \in Surjection(K, S)
  <2>1. g \in [K -> S]
    BY <1>6, <1>7
  <2>2. \A n \in S : \E i \in K : g[i] = n
    BY <1>5, <1>6
  <2> QED BY <2>1, <2>2 DEF Surjection
<1>9. IsFiniteSet(K) /\ Cardinality(K) = Cardinality(S)
  <2>1. 1 \in Int /\ Cardinality(S) \in Int
    BY <1>1
  <2>2. IsFiniteSet(K) /\ Cardinality(K) = IF 1 > Cardinality(S) THEN 0
                                           ELSE Cardinality(S) - 1 + 1
    BY <2>1, FS_Interval
  <2> QED BY <1>1, <2>2
<1>10. g \in Injection(K, S)
  BY <1>8, <1>9, FS_SurjSameCardinalityImpliesInj
<1>11. \A i, j \in K : q[i].node = q[j].node => i = j
  BY <1>6, <1>10 DEF Injection, IsInjective
<1>12. DOMAIN q = K
  BY <1>5
<1> HIDE DEF K, q
<1>13. \A n \in S : \E i \in DOMAIN q :
         q[i].node = n /\ \A j \in DOMAIN q : q[j].node = n => j = i
  BY <1>5, <1>11, <1>12
<1> QED BY <1>1, <1>5, <1>12, <1>13 DEF K, q

-----------------------------------------------------------------------------
(* Every step keeps the types. *)

(* A handler that ends. *)
LEMMA EndTyped ==
  ASSUME TypeInv, NEW w \in Workers, End(w), World', Grows
  PROVE  TypeInv'
<1>1. PICK t : t = Idle
  OBVIOUS
<1>2. t \in Task /\ Refers(t) /\ Become(w, t) /\ World
  BY <1>1, IdleTyped DEF End, TypeInv, Types, World
<1>3. Refers(t)'
  BY <1>2, RefersKept
<1> QED BY <1>2, <1>3, StepTyped

(* The labels that presuppose nothing more. *)
PlainLabels == Labels \ (ShipLabels \cup {"v_update", "t_read", "t_write", "roll_order"})

(* A handler that goes on at such a label. *)
LEMMA GoTyped ==
  ASSUME TypeInv, NEW w \in Workers, NEW l \in PlainLabels, Go(w, l),
         World', Grows
  PROVE  TypeInv'
<1>1. PICK t : t = [task[w] EXCEPT !.at = l]
  OBVIOUS
<1>2. t \in Task /\ t.at = l /\ t.list = task[w].list /\ t.ref = task[w].ref
  BY <1>1, MovedTyped DEF PlainLabels
<1>3. Refers(task[w]) /\ World
  BY DEF TypeInv, Types, World
<1>4. Refers(t)
  BY <1>2, <1>3 DEF Refers, PlainLabels
<1>5. Refers(t)'
  BY <1>2, <1>3, <1>4, RefersKept
<1>6. Become(w, t)
  BY <1>1 DEF Go
<1> QED BY <1>2, <1>5, <1>6, StepTyped

(* A handler that calls transition. *)
LEMMA CallTyped ==
  ASSUME TypeInv, NEW w \in Workers, NEW to \in OrderStatus,
         NEW then \in {"end", "reverse", "rollup"},
         CallTransition(w, to, then), World', Grows,
         \/ then = "end" /\ to \in {"VALIDATED", "RELEASED"}
         \/ then = "reverse" /\ to = "CANCELLED"
         \/ /\ then = "rollup" /\ task[w].last \in Stages
            /\ to \in Stages \cup {"RELEASED"}
            /\ ChainIndex(to) <= ChainIndex(task[w].last)
  PROVE  TypeInv'
<1>1. PICK t : t = [task[w] EXCEPT !.at = "t_read", !.to = to, !.then = then]
  OBVIOUS
<1>2. task[w] \in Task /\ Refers(task[w]) /\ World
  BY DEF TypeInv, Types, World
<1>3. /\ t \in Task /\ t.at = "t_read" /\ t.to = to /\ t.then = then
      /\ t.list = task[w].list /\ t.ref = task[w].ref /\ t.last = task[w].last
  BY <1>1, <1>2 DEF Task, Labels
<1>4. TransitionOf(t)
  BY <1>3 DEF TransitionOf, Climbs
<1>5. Refers(t)
  BY <1>2, <1>3, <1>4 DEF Refers, ShipLabels
<1>6. Refers(t)'
  BY <1>2, <1>3, <1>5, RefersKept
<1>7. Become(w, t)
  BY <1>1 DEF CallTransition
<1> QED BY <1>3, <1>6, <1>7, StepTyped

(* Nothing but tasks changed: the tables keep their types. *)
LEMMA SameWorld ==
  ASSUME TypeInv, UNCHANGED <<status, ships, stock, payment>>
  PROVE  World' /\ Grows
BY DEF TypeInv, Types, World, Grows, stock, payment

(* transition's check of the status. *)
LEMMA ReadStatusTyped ==
  ASSUME TypeInv, NEW w \in Workers, ReadStatus(w)
  PROVE  TypeInv'
<1>1. World' /\ Grows
  BY SameWorld DEF ReadStatus
<1>2. CASE End(w)
  BY <1>1, <1>2, EndTyped
<1>3. CASE Go(w, "t_write")
  <2>1. PICK t : t = [task[w] EXCEPT !.at = "t_write"]
    OBVIOUS
  <2>2. "t_write" \in Labels
    BY DEF Labels
  <2>3. /\ t \in Task /\ t.at = "t_write" /\ t.to = task[w].to
        /\ t.then = task[w].then /\ t.list = task[w].list
        /\ t.ref = task[w].ref /\ t.last = task[w].last
    BY <2>1, <2>2, MovedTyped
  <2>4. TransitionOf(task[w]) /\ Refers(task[w])
    BY DEF TypeInv, Refers, ReadStatus, At
  <2>5. Refers(t)
    BY <2>3, <2>4 DEF Refers, TransitionOf, Climbs, ShipLabels
  <2> QED BY <1>3, <2>1, <2>3, <2>5, QuietTyped DEF Go, ReadStatus
<1> QED BY <1>2, <1>3 DEF ReadStatus

(* transition's write, and where its caller goes on: the next status of a *)
(* rollup is on the chain and not past the stage read.                    *)
LEMMA WriteStatusTyped ==
  ASSUME TypeInv, NEW w \in Workers, WriteStatus(w)
  PROVE  TypeInv'
<1>1. TransitionOf(task[w]) /\ task[w] \in Task
  BY DEF TypeInv, Types, Refers, WriteStatus, At
<1>2. status' \in OrderStatus
  BY <1>1 DEF WriteStatus, SetStatus, TransitionOf, Climbs, Stages, OrderStatus
<1>3. World' /\ Grows
  BY <1>2 DEF WriteStatus, TypeInv, Types, World, Grows, stock, payment
<1>4. CASE End(w)
  BY <1>3, <1>4, EndTyped
<1>5. CASE Go(w, "reverse") \/ Go(w, "capture")
  <2>1. "reverse" \in PlainLabels /\ "capture" \in PlainLabels
    BY DEF PlainLabels, Labels, ShipLabels
  <2> QED BY <1>3, <1>5, <2>1, GoTyped
<1>6. CASE /\ task[w].then = "rollup" /\ task[w].to # task[w].last
           /\ CallTransition(w, NextInChain(task[w].to), "rollup")
  <2>1. PICK to, last : to = task[w].to /\ last = task[w].last
    OBVIOUS
  <2>2. /\ to \in Stages \cup {"RELEASED"} /\ last \in Stages
        /\ ChainIndex(to) <= ChainIndex(last) /\ to # last
    BY <1>1, <1>6, <2>1 DEF TransitionOf, Climbs
  <2>3. PICK n : n = NextInChain(to)
    OBVIOUS
  <2>4. /\ n \in Stages /\ ChainIndex(n) <= ChainIndex(last)
    BY <2>2, <2>3, Chain, Following DEF Stages
  <2>5. CallTransition(w, n, "rollup") /\ n \in OrderStatus
    BY <1>6, <2>1, <2>3, <2>4 DEF Stages, OrderStatus
  <2> QED BY <1>3, <2>1, <2>2, <2>4, <2>5, CallTyped
<1> QED BY <1>1, <1>4, <1>5, <1>6 DEF WriteStatus, TransitionOf

(* validate's call of the gateway: the reference kept is that of a charge. *)
LEMMA AuthorizeTyped ==
  ASSUME TypeInv, NEW w \in Workers, Authorize(w)
  PROVE  TypeInv'
<1>0. PICK auth \in {"new", "replay", "free", "declined", "lost"}, fraud \in BOOLEAN :
        /\ gateway' = IF auth \in {"new", "lost"}
                      THEN Append(gateway, "authorized") ELSE gateway
        /\ Become(w, [Idle EXCEPT
             !.at = "v_update",
             !.pay = IF auth \in {"declined", "lost"} THEN "DECLINED" ELSE "AUTHORIZED",
             !.ref = CASE auth = "new" -> Len(gateway) + 1
                       [] auth = "replay" -> payRef
                       [] auth \in {"free", "declined", "lost"} -> 0,
             !.then = IF fraud \/ auth \in {"declined", "lost"} THEN "reject" ELSE "end"])
  BY DEF Authorize
<1>1. PICK pay, ref, then, t :
        /\ gateway' = IF auth \in {"new", "lost"}
                      THEN Append(gateway, "authorized") ELSE gateway
        /\ pay = IF auth \in {"declined", "lost"} THEN "DECLINED" ELSE "AUTHORIZED"
        /\ ref = CASE auth = "new" -> Len(gateway) + 1
                   [] auth = "replay" -> payRef
                   [] auth \in {"free", "declined", "lost"} -> 0
        /\ then = IF fraud \/ auth \in {"declined", "lost"} THEN "reject" ELSE "end"
        /\ t = [Idle EXCEPT !.at = "v_update", !.pay = pay, !.ref = ref,
                            !.then = then]
        /\ Become(w, t)
  BY <1>0
<1>2. World /\ Len(gateway) \in Nat
  BY DEF TypeInv, Types, World
<1>3. gateway' \in Seq(Charge) /\ Len(gateway') \in Nat
      /\ Len(gateway') = IF auth \in {"new", "lost"} THEN Len(gateway) + 1
                         ELSE Len(gateway)
  BY <1>1, <1>2 DEF World, Charge
<1>4. World' /\ Grows
  BY <1>2, <1>3 DEF Authorize, World, Grows, stock
<1>5. ref \in 0 .. Len(gateway')
  BY <1>1, <1>2, <1>3 DEF World
<1>6. pay \in {"DECLINED", "AUTHORIZED"} /\ then \in {"reject", "end"}
  BY <1>1
<1>7. /\ t \in Task /\ t.at = "v_update" /\ t.pay = pay /\ t.ref = ref
      /\ t.list = {}
  <2>1. /\ ref \in Nat /\ pay \in PaymentStatus \cup {""}
        /\ then \in {"", "end", "reject", "reverse", "rollup"}
        /\ "v_update" \in Labels
    <3>1. ref \in Nat
      BY <1>5
    <3>2. /\ pay \in PaymentStatus \cup {""} /\ "v_update" \in Labels
          /\ then \in {"", "end", "reject", "reverse", "rollup"}
      BY <1>6 DEF PaymentStatus, Labels
    <3> QED BY <3>1, <3>2
  <2>2. PICK i : i = Idle /\ i \in Task /\ i.list = {}
    BY IdleTyped
  <2>3. t = [i EXCEPT !.at = "v_update", !.pay = pay, !.ref = ref, !.then = then]
    BY <1>1, <2>2
  <2> QED BY <2>1, <2>2, <2>3 DEF Task
<1>8. Refers(t)'
  BY <1>5, <1>6, <1>7 DEF Refers, ShipLabels
<1> QED BY <1>1, <1>4, <1>7, <1>8, StepTyped

(* validate's update of the order's payment. *)
LEMMA UpdateValidatedTyped ==
  ASSUME TypeInv, NEW w \in Workers, UpdateValidated(w)
  PROVE  TypeInv'
<1>1. task[w] \in Task /\ task[w].ref \in 0 .. Len(gateway)
      /\ task[w].pay \in {"DECLINED", "AUTHORIZED"}
  BY DEF TypeInv, Types, Refers, UpdateValidated, At
<1>2. World' /\ Grows
  BY <1>1 DEF UpdateValidated, TypeInv, Types, World, Grows, stock, PaymentStatus
<1>3. CASE Go(w, "c_start")
  <2>1. "c_start" \in PlainLabels
    BY DEF PlainLabels, Labels, ShipLabels
  <2> QED BY <1>2, <1>3, <2>1, GoTyped
<1>4. CASE CallTransition(w, "VALIDATED", "end")
  <2>1. "VALIDATED" \in OrderStatus
    BY DEF OrderStatus
  <2> QED BY <1>2, <1>4, <2>1, CallTyped
<1> QED BY <1>3, <1>4 DEF UpdateValidated

(* Sourcing: the check, the transaction and its refusal. *)
LEMMA SourcingTyped ==
  ASSUME TypeInv, NEW w \in Workers,
         CheckSourceable(w) \/ CommitSourcing(w) \/ RefuseSourcing(w)
  PROVE  TypeInv'
<1>1. CASE CheckSourceable(w)
  <2>1. "s_commit" \in PlainLabels
    BY DEF PlainLabels, Labels, ShipLabels
  <2> QED BY <1>1, <2>1, GoTyped, SameWorld DEF CheckSourceable
<1>2. CASE RefuseSourcing(w)
  BY <1>2, EndTyped, SameWorld DEF RefuseSourcing
<1>3. CASE CommitSourcing(w)
  <2>1. PICK S \in SUBSET FreeNodes :
          /\ allocated' = [n \in Nodes |-> IF n \in S THEN allocated[n] + 1
                                                      ELSE allocated[n]]
          /\ ships' = ships \o NewShipments(S)
    BY <1>3 DEF CommitSourcing
  <2>2. S \subseteq Nodes /\ IsFiniteSet(S)
    <3>1. S \in SUBSET Nodes
      BY DEF FreeNodes
    <3> QED BY <3>1, FS_Subset, LifecycleAssumption
  <2>3. PICK q : q = NewShipments(S)
    OBVIOUS
  <2>4. /\ Cardinality(S) \in Nat /\ DOMAIN q = 1 .. Cardinality(S)
        /\ q \in [1 .. Cardinality(S) -> { NewShipment(n) : n \in S }]
    BY <2>2, <2>3, OneShipmentEach
  <2>5. \A n \in S : NewShipment(n) \in Shipment
    BY <2>2 DEF NewShipment, Shipment, ShipmentStatus, AllocationStatus
  <2>6. q \in Seq(Shipment)
    BY <2>4, <2>5
  <2>7. ships' \in Seq(Shipment) /\ DOMAIN ships \subseteq DOMAIN ships'
    <3>1. ships \in Seq(Shipment) /\ ships' = ships \o q
      BY <2>1, <2>3 DEF TypeInv, Types
    <3>2. ships' \in Seq(Shipment) /\ Len(ships') = Len(ships) + Len(q)
      BY <3>1, <2>6
    <3> QED BY <3>1, <3>2, <2>6
  <2>8. allocated' \in [Nodes -> Nat] /\ status' \in OrderStatus
    BY <1>3, <2>1 DEF TypeInv, Types, CommitSourcing, OrderStatus
  <2>9. World' /\ Grows
    BY <1>3, <2>7, <2>8 DEF CommitSourcing, TypeInv, Types, World, Grows, payment
  <2> QED BY <1>3, <2>9, EndTyped DEF CommitSourcing
<1> QED BY <1>1, <1>2, <1>3

(* The requests and reads of cancel, and the release of an order. *)
LEMMA ReadsTyped ==
  ASSUME TypeInv, NEW w \in Workers,
         Release(w) \/ ReadForCancel(w) \/ ReadAllocations(w)
  PROVE  TypeInv'
<1>1. CASE Release(w)
  <2>1. "RELEASED" \in OrderStatus
    BY DEF OrderStatus
  <2> QED BY <1>1, <2>1, CallTyped, SameWorld DEF Release
<1>2. CASE ReadForCancel(w)
  <2>1. PICK t, pay, ref : /\ pay = payStatus /\ ref = payRef
             /\ t = [Idle EXCEPT !.at = "c_allocs", !.pay = pay, !.ref = ref]
    OBVIOUS
  <2>2. ref \in 0 .. Len(gateway) /\ Len(gateway) \in Nat /\ pay \in PaymentStatus
    BY <2>1 DEF TypeInv, Types
  <2>3. t \in Task /\ t.at = "c_allocs" /\ t.ref = ref /\ t.list = {}
    <3>1. ref \in Nat /\ "c_allocs" \in Labels
      BY <2>2 DEF Labels
    <3>2. PICK i : i = Idle /\ i \in Task /\ i.list = {}
      BY IdleTyped
    <3>3. t = [i EXCEPT !.at = "c_allocs", !.pay = pay, !.ref = ref]
      BY <2>1, <3>2
    <3> QED BY <2>2, <3>1, <3>2, <3>3 DEF Task
  <2>4. Refers(t)
    BY <2>2, <2>3 DEF Refers, ShipLabels
  <2> QED BY <1>2, <2>1, <2>3, <2>4, QuietTyped DEF ReadForCancel
<1>3. CASE ReadAllocations(w)
  <2>1. PICK t, list :
          /\ list = { i \in DOMAIN ships : ships[i].alloc \in {"ALLOCATED", "PICKED"} }
          /\ t = [task[w] EXCEPT !.at = "c_dealloc", !.list = list]
    OBVIOUS
  <2>2. /\ task[w] \in Task /\ task[w].ref \in 0 .. Len(gateway)
        /\ list \subseteq DOMAIN ships /\ DOMAIN ships \subseteq Nat
    BY <2>1 DEF TypeInv, Types, Refers
  <2>3. t \in Task /\ t.at = "c_dealloc" /\ t.ref = task[w].ref /\ t.list = list
    BY <2>1, <2>2 DEF Task, Labels
  <2>4. Refers(t)
    BY <2>2, <2>3 DEF Refers, ShipLabels
  <2> QED BY <1>3, <2>1, <2>3, <2>4, QuietTyped DEF ReadAllocations
<1> QED BY <1>1, <1>2, <1>3

(* A change of one shipment's status, allocation and job. *)
LEMMA ShipmentsTyped ==
  ASSUME TypeInv, NEW i \in DOMAIN ships, NEW x \in Shipment,
         ships' = [ships EXCEPT ![i] = x]
  PROVE  /\ ships' \in Seq(Shipment) /\ DOMAIN ships' = DOMAIN ships
         /\ Len(ships') = Len(ships) /\ ships'[i] = x
         /\ \A j \in DOMAIN ships : j # i => ships'[j] = ships[j]
BY DEF TypeInv, Types

(* A shipment of the order is well typed. *)
LEMMA ShipmentAt ==
  ASSUME TypeInv, NEW i \in DOMAIN ships
  PROVE  /\ ships[i] \in Shipment /\ ships[i].node \in Nodes
         /\ ships[i].status \in ShipmentStatus
         /\ ships[i].alloc \in AllocationStatus /\ ships[i].job \in BOOLEAN
<1>1. ships[i] \in Shipment
  BY DEF TypeInv, Types
<1> QED BY <1>1 DEF Shipment

(* A shipment moved on is a shipment of the same node. *)
LEMMA MovedShipment ==
  ASSUME TypeInv, NEW i \in DOMAIN ships, NEW to \in ShipmentStatus,
         NEW from, NEW next \in AllocationStatus
  PROVE  LET x == Moved(ships[i], to, from, next) IN
         /\ x \in Shipment /\ x.node = ships[i].node /\ x.status = to
         /\ x.alloc = IF ships[i].alloc = from THEN next ELSE ships[i].alloc
<1>1. PICK s, a : s = ships[i] /\ a = IF s.alloc = from THEN next ELSE s.alloc
  OBVIOUS
<1>2. s \in Shipment /\ a \in AllocationStatus
  BY <1>1, ShipmentAt DEF Shipment
<1>3. PICK x : x = [s EXCEPT !.status = to, !.alloc = a]
  OBVIOUS
<1>4. x \in Shipment /\ x.node = s.node /\ x.status = to /\ x.alloc = a
  BY <1>2, <1>3 DEF Shipment
<1> QED BY <1>1, <1>3, <1>4 DEF Moved

(* One transaction of cancel: a balance never goes below zero. *)
LEMMA DeallocateTyped ==
  ASSUME TypeInv, NEW w \in Workers, NEW i \in DOMAIN ships, Deallocate(w, i)
  PROVE  TypeInv'
<1>1. PICK n : n = ships[i].node /\ n \in Nodes
  BY ShipmentAt
<1>2. CASE allocated[n] > 0
  <2>1. PICK x : x = [ships[i] EXCEPT !.alloc = "CANCELLED"]
    OBVIOUS
  <2>2. x \in Shipment
    BY <2>1, ShipmentAt DEF Shipment, AllocationStatus
  <2>3. /\ allocated' = [allocated EXCEPT ![n] = @ - 1]
        /\ ships' = [ships EXCEPT ![i] = x]
        /\ Become(w, [task[w] EXCEPT !.list = @ \ {i}])
    BY <1>1, <1>2, <2>1 DEF Deallocate
  <2>4. allocated' \in [Nodes -> Nat]
    BY <1>1, <1>2, <2>3 DEF TypeInv, Types
  <2>5. World' /\ Grows
    BY <2>2, <2>3, <2>4, ShipmentsTyped
    DEF Deallocate, TypeInv, Types, World, Grows, payment
  <2>6. PICK t : t = [task[w] EXCEPT !.list = @ \ {i}]
    OBVIOUS
  <2>7. task[w] \in Task /\ Refers(task[w]) /\ World /\ task[w].at = "c_dealloc"
    BY DEF TypeInv, Types, World, Deallocate, At
  <2>8. /\ t \in Task /\ t.at = "c_dealloc" /\ t.ref = task[w].ref
        /\ t.list = task[w].list \ {i}
    BY <2>6, <2>7 DEF Task
  <2>9. Refers(t)
    BY <2>7, <2>8 DEF Refers, ShipLabels
  <2>10. Refers(t)'
    BY <2>5, <2>7, <2>8, <2>9, RefersKept
  <2> QED BY <2>3, <2>5, <2>6, <2>8, <2>10, StepTyped
<1>3. CASE ~ (allocated[n] > 0)
  BY <1>1, <1>3, EndTyped, SameWorld DEF Deallocate, stock
<1> QED BY <1>2, <1>3

(* cancel's update of the open shipments. *)
LEMMA CancelShipmentsTyped ==
  ASSUME TypeInv, NEW w \in Workers, CancelShipments(w)
  PROVE  TypeInv'
<1>1. \A i \in DOMAIN ships : [ships[i] EXCEPT !.status = "CANCELLED"] \in Shipment
  BY ShipmentAt DEF Shipment, ShipmentStatus
<1>2. \A i \in DOMAIN ships : ships[i] \in Shipment
  BY ShipmentAt
<1>3. \A i \in DOMAIN ships :
        (IF ships[i].status \in {"PENDING", "PICKED"}
         THEN [ships[i] EXCEPT !.status = "CANCELLED"] ELSE ships[i]) \in Shipment
  BY <1>1, <1>2
<1>4. ships' \in Seq(Shipment) /\ DOMAIN ships' = DOMAIN ships
  <2>1. DOMAIN ships = 1 .. Len(ships) /\ Len(ships) \in Nat
    BY DEF TypeInv, Types
  <2>2. ships' \in [1 .. Len(ships) -> Shipment]
    BY <1>3, <2>1 DEF CancelShipments
  <2> QED BY <2>1, <2>2
<1>5. World' /\ Grows
  BY <1>4 DEF CancelShipments, TypeInv, Types, World, Grows, stock, payment
<1>6. "CANCELLED" \in OrderStatus
  BY DEF OrderStatus
<1> QED BY <1>5, <1>6, CallTyped DEF CancelShipments

(* A call of the gateway about one of the charges. *)
LEMMA GatewayCallTyped ==
  ASSUME TypeInv, NEW w \in Workers, NEW k \in 0 .. Len(gateway),
         NEW from, NEW to \in Charge, NEW next \in PlainLabels,
         GatewayCall(w, k, from, to, next),
         UNCHANGED <<status, payStatus, payRef, ships, stock>>
  PROVE  TypeInv'
<1>1. gateway \in Seq(Charge)
  BY DEF TypeInv, Types
<1>2. gateway' \in Seq(Charge) /\ Len(gateway') = Len(gateway)
  BY <1>1 DEF GatewayCall
<1>3. World' /\ Grows
  BY <1>2 DEF TypeInv, Types, World, Grows, stock
<1>4. CASE End(w)
  BY <1>3, <1>4, EndTyped
<1>5. CASE ~ End(w)
  <2>1. PICK t : t = [task[w] EXCEPT !.at = next, !.ref = k]
    OBVIOUS
  <2>2. Become(w, t)
    BY <1>5, <2>1 DEF GatewayCall
  <2>3. task[w] \in Task /\ Refers(task[w]) /\ Len(gateway) \in Nat
    BY DEF TypeInv, Types
  <2>4. t \in Task /\ t.at = next /\ t.ref = k /\ t.list = task[w].list
    <3>1. next \in Labels /\ k \in Nat
      BY <2>3 DEF PlainLabels
    <3> QED BY <2>1, <2>3, <3>1 DEF Task
  <2>5. Refers(t)'
    BY <1>2, <1>3, <2>3, <2>4 DEF Refers, PlainLabels, Grows
  <2> QED BY <1>3, <2>2, <2>4, <2>5, StepTyped
<1> QED BY <1>4, <1>5

(* The steps of a payment: its reversal and its capture. *)
LEMMA PaymentTyped ==
  ASSUME TypeInv, NEW w \in Workers,
         \/ ReversePayment(w) \/ UpdateReversed(w)
         \/ ReadForCapture(w) \/ CallCapture(w) \/ UpdateCaptured(w)
  PROVE  TypeInv'
<1> DEFINE PL == PlainLabels
<1>1. /\ "rev_update" \in PL /\ "cap_call" \in PL /\ "cap_update" \in PL
      /\ "captured" \in Charge /\ "refunded" \in Charge /\ "voided" \in Charge
  BY DEF PlainLabels, Labels, ShipLabels, Charge
<1>2. /\ payRef \in 0 .. Len(gateway) /\ task[w].ref \in 0 .. Len(gateway)
      /\ task[w] \in Task /\ Refers(task[w]) /\ Len(gateway) \in Nat
  BY DEF TypeInv, Types, Refers
<1>3. PICK pr, tr : pr = payRef /\ tr = task[w].ref
  OBVIOUS
<1>4. CASE ReversePayment(w)
  <2>1. \/ GatewayCall(w, pr, "captured", "refunded", "rev_update")
        \/ GatewayCall(w, tr, "authorized", "voided", "rev_update")
        \/ End(w) /\ UNCHANGED gateway
    BY <1>3, <1>4 DEF ReversePayment
  <2>2. UNCHANGED <<status, payStatus, payRef, ships, stock>>
    BY <1>4 DEF ReversePayment
  <2>3. CASE End(w) /\ UNCHANGED gateway
    BY <2>2, <2>3, EndTyped, SameWorld DEF payment
  <2>4. CASE GatewayCall(w, pr, "captured", "refunded", "rev_update")
    BY <1>1, <1>2, <1>3, <2>2, <2>4, GatewayCallTyped
  <2>5. CASE GatewayCall(w, tr, "authorized", "voided", "rev_update")
    BY <1>1, <1>2, <1>3, <2>2, <2>5, GatewayCallTyped
  <2> QED BY <2>1, <2>3, <2>4, <2>5
<1>5. CASE UpdateReversed(w)
  <2>1. payStatus' \in PaymentStatus
    BY <1>5 DEF UpdateReversed, PaymentStatus
  <2>2. World' /\ Grows
    BY <1>5, <2>1 DEF UpdateReversed, TypeInv, Types, World, Grows, stock
  <2> QED BY <1>5, <2>2, EndTyped DEF UpdateReversed
<1>6. CASE ReadForCapture(w)
  <2>1. CASE End(w)
    BY <1>6, <2>1, EndTyped, SameWorld DEF ReadForCapture
  <2>2. CASE ~ End(w)
    <3>1. PICK t : t = [task[w] EXCEPT !.at = "cap_call", !.ref = pr]
      OBVIOUS
    <3>2. t \in Task /\ t.at = "cap_call" /\ t.ref = pr /\ t.list = task[w].list
      <4>1. pr \in Nat /\ "cap_call" \in Labels
        BY <1>2, <1>3 DEF Labels
      <4>2. task[w] \in Task
        BY <1>2
      <4> QED BY <4>1, <4>2, <3>1 DEF Task
    <3>3. Refers(t)
      BY <1>2, <1>3, <3>2 DEF Refers, ShipLabels
    <3>4. Become(w, t)
      BY <1>3, <1>6, <2>2, <3>1 DEF ReadForCapture
    <3> QED BY <1>6, <3>2, <3>3, <3>4, QuietTyped DEF ReadForCapture
  <2> QED BY <2>1, <2>2
<1>7. CASE CallCapture(w)
  <2>1. GatewayCall(w, tr, "authorized", "captured", "cap_update")
    BY <1>3, <1>7 DEF CallCapture
  <2> QED BY <1>1, <1>2, <1>3, <1>7, <2>1, GatewayCallTyped DEF CallCapture
<1>8. CASE UpdateCaptured(w)
  <2>1. World' /\ Grows
    BY <1>8 DEF UpdateCaptured, TypeInv, Types, World, Grows, stock, PaymentStatus
  <2> QED BY <1>8, <2>1, EndTyped DEF UpdateCaptured
<1> QED BY <1>4, <1>5, <1>6, <1>7, <1>8

(* The handler of a shipment begins at a label of its own, in a status it   *)
(* accepts.                                                                 *)
LEMMA HandlerTable ==
  ASSUME NEW h \in DOMAIN Handlers
  PROVE  \/ Handlers[h].next = "di_update"
         \/ Handlers[h].next = "p_order" /\ Handlers[h].from = {"PENDING"}
         \/ /\ Handlers[h].next \in {"sh_allocs", "r_update"}
            /\ Handlers[h].from = {"PICKED"}
         \/ /\ Handlers[h].next = "pu_allocs"
            /\ Handlers[h].from = {"READY_FOR_PICKUP"}
         \/ Handlers[h].next = "d_update" /\ Handlers[h].from = {"SHIPPED"}
BY DEF Handlers

(* A handler of fulfillment begins. *)
LEMMA RequireShipmentTyped ==
  ASSUME TypeInv, NEW w \in Workers, NEW h \in DOMAIN Handlers,
         NEW i \in DOMAIN ships, RequireShipment(w, h, i)
  PROVE  TypeInv'
<1>1. PICK l : l = Handlers[h].next
  OBVIOUS
<1>2. l \in ShipLabels /\ l \in Labels
  BY <1>1, HandlerTable DEF ShipLabels, Labels
<1>3. i \in Nat /\ Len(gateway) \in Nat
  BY DEF TypeInv, Types
<1>4. PICK idle : idle = Idle /\ idle \in Task /\ idle.list = {} /\ Refers(idle)
  BY IdleTyped
<1>5. PICK t : t = [idle EXCEPT !.at = l, !.ship = i]
  OBVIOUS
<1>6. t \in Task /\ t.at = l /\ t.ship = i /\ t.list = {} /\ t.ref = idle.ref
  BY <1>2, <1>3, <1>4, <1>5 DEF Task
<1>7. Refers(t)
  BY <1>2, <1>4, <1>6 DEF Refers, ShipLabels
<1>8. Become(w, t)
  BY <1>1, <1>4, <1>5 DEF RequireShipment
<1> QED BY <1>6, <1>7, <1>8, QuietTyped DEF RequireShipment

(* One shipment changes and the handler goes on. *)
LEMMA ShipmentStepTyped ==
  ASSUME TypeInv, NEW i \in DOMAIN ships, NEW x \in Shipment,
         ships' = [ships EXCEPT ![i] = x],
         onHand' \in [Nodes -> Nat], allocated' \in [Nodes -> Nat],
         UNCHANGED <<status, payment>>
  PROVE  World' /\ Grows
BY ShipmentsTyped DEF TypeInv, Types, World, Grows, payment

(* The steps of fulfillment that change a shipment. *)
LEMMA FulfillTyped ==
  ASSUME TypeInv, NEW w \in Workers,
         \/ Dispatch(w) \/ PickCheckOrder(w) \/ PickUpdate(w)
         \/ MarkReadyForPickup(w) \/ Deliver(w)
  PROVE  TypeInv'
<1>1. Refers(task[w]) /\ task[w] \in Task
  BY DEF TypeInv, Types
<1>2. PICK i : i = task[w].ship
  OBVIOUS
<1>3. "roll" \in PlainLabels
  BY DEF PlainLabels, Labels, ShipLabels
<1>4. CASE Dispatch(w)
  <2>1. i \in DOMAIN ships
    BY <1>1, <1>2, <1>4 DEF Dispatch, At, Refers, ShipLabels
  <2>2. PICK x : x = [ships[i] EXCEPT !.job = TRUE]
    OBVIOUS
  <2>3. x \in Shipment
    BY <2>1, <2>2, ShipmentAt DEF Shipment
  <2>4. CASE ships' = ships
    BY <1>4, <2>4, EndTyped, SameWorld DEF Dispatch
  <2>5. CASE ships' = [ships EXCEPT ![i] = x]
    <3>1. onHand' \in [Nodes -> Nat] /\ allocated' \in [Nodes -> Nat]
      BY <1>4 DEF Dispatch, stock, TypeInv, Types
    <3>2. World' /\ Grows
      BY <1>4, <2>1, <2>3, <2>5, <3>1, ShipmentStepTyped DEF Dispatch
    <3> QED BY <1>4, <3>2, EndTyped DEF Dispatch
  <2>6. ships' = ships \/ ships' = [ships EXCEPT ![i] = x]
    BY <1>2, <1>4, <2>2 DEF Dispatch
  <2> QED BY <2>4, <2>5, <2>6
<1>5. CASE PickCheckOrder(w)
  <2>1. CASE End(w)
    BY <1>5, <2>1, EndTyped, SameWorld DEF PickCheckOrder
  <2>2. CASE Go(w, "p_update")
    <3>1. PICK t : t = [task[w] EXCEPT !.at = "p_update"]
      OBVIOUS
    <3>2. "p_update" \in Labels
      BY DEF Labels, ShipLabels
    <3>3. /\ t \in Task /\ t.at = "p_update" /\ t.ship = task[w].ship
          /\ t.list = task[w].list /\ t.ref = task[w].ref
      BY <3>1, <3>2, MovedTyped
    <3>4. Refers(t)
      BY <1>1, <1>5, <3>3 DEF Refers, ShipLabels, PickCheckOrder, At
    <3> QED BY <1>5, <2>2, <3>1, <3>3, <3>4, QuietTyped DEF PickCheckOrder, Go
  <2> QED BY <1>5, <2>1, <2>2 DEF PickCheckOrder
<1>6. CASE PickUpdate(w)
  <2>1. i \in DOMAIN ships
    BY <1>1, <1>2, <1>6 DEF PickUpdate, At, Refers, ShipLabels
  <2>2. PICK x : x = Moved(ships[i], "PICKED", "ALLOCATED", "PICKED")
    OBVIOUS
  <2>3. x \in Shipment
    <3>1. "PICKED" \in AllocationStatus /\ "PICKED" \in ShipmentStatus
      BY DEF AllocationStatus, ShipmentStatus
    <3> QED BY <2>1, <2>2, <3>1, MovedShipment
  <2>4. ships' = [ships EXCEPT ![i] = x]
    BY <1>2, <1>6, <2>2 DEF PickUpdate
  <2>5. onHand' \in [Nodes -> Nat] /\ allocated' \in [Nodes -> Nat]
    BY <1>6 DEF PickUpdate, stock, TypeInv, Types
  <2>6. World' /\ Grows
    BY <1>6, <2>1, <2>3, <2>4, <2>5, ShipmentStepTyped DEF PickUpdate
  <2> QED BY <1>3, <1>6, <2>6, GoTyped DEF PickUpdate
<1>7. ASSUME NEW from, NEW to \in ShipmentStatus, Advance(w, from, to),
             task[w].at \in ShipLabels
      PROVE  TypeInv'
  <2>1. i \in DOMAIN ships
    BY <1>1, <1>2, <1>7 DEF Refers
  <2>2. PICK x : x = [ships[i] EXCEPT !.status = to]
    OBVIOUS
  <2>3. x \in Shipment
    BY <2>1, <2>2, ShipmentAt DEF Shipment
  <2>4. ships' = [ships EXCEPT ![i] = x]
    BY <1>2, <1>7, <2>2 DEF Advance
  <2>5. onHand' \in [Nodes -> Nat] /\ allocated' \in [Nodes -> Nat]
    BY <1>7 DEF Advance, stock, TypeInv, Types
  <2>6. World' /\ Grows
    BY <1>7, <2>1, <2>3, <2>4, <2>5, ShipmentStepTyped DEF Advance
  <2> QED BY <1>3, <1>7, <2>6, GoTyped DEF Advance
<1>8. CASE MarkReadyForPickup(w)
  <2>1. "READY_FOR_PICKUP" \in ShipmentStatus /\ task[w].at \in ShipLabels
    BY <1>8 DEF ShipmentStatus, ShipLabels, MarkReadyForPickup, At
  <2> QED BY <1>7, <1>8, <2>1 DEF MarkReadyForPickup
<1>9. CASE Deliver(w)
  <2>1. "DELIVERED" \in ShipmentStatus /\ task[w].at \in ShipLabels
    BY <1>9 DEF ShipmentStatus, ShipLabels, Deliver, At
  <2> QED BY <1>7, <1>9, <2>1 DEF Deliver
<1> QED BY <1>4, <1>5, <1>6, <1>8, <1>9

(* ship and pickUp: the read of the allocation, and the movement. *)
LEMMA ReadPickedTyped ==
  ASSUME TypeInv, NEW w \in Workers, NEW l \in ShipLabels,
         task[w].at \in ShipLabels, ReadPicked(w, l)
  PROVE  TypeInv'
<1>1. Refers(task[w]) /\ task[w] \in Task
  BY DEF TypeInv, Types
<1>2. PICK list, t :
        /\ list = IF ships[task[w].ship].alloc = "PICKED" THEN {task[w].ship} ELSE {}
        /\ t = [task[w] EXCEPT !.at = l, !.list = list]
  OBVIOUS
<1>3. task[w].ship \in DOMAIN ships /\ task[w].ship \in Nat
  BY <1>1 DEF Refers, Task
<1>4. list \subseteq DOMAIN ships /\ list \in SUBSET Nat /\ l \in Labels
      /\ list \subseteq {task[w].ship}
  BY <1>2, <1>3 DEF Labels
<1>5. /\ t \in Task /\ t.at = l /\ t.ship = task[w].ship /\ t.list = list
      /\ t.ref = task[w].ref
  BY <1>1, <1>2, <1>4 DEF Task
<1>6. Refers(t)
  BY <1>1, <1>3, <1>4, <1>5 DEF Refers, ShipLabels
<1> QED BY <1>2, <1>5, <1>6, QuietTyped DEF ReadPicked

(* The movement: it takes no more than there is. *)
LEMMA ShipOutTyped ==
  ASSUME TypeInv, NEW w \in Workers, NEW from, NEW to \in ShipmentStatus,
         task[w].at \in ShipLabels, ShipOut(w, from, to)
  PROVE  TypeInv'
<1>1. Refers(task[w]) /\ task[w] \in Task
  BY DEF TypeInv, Types
<1>2. PICK i, n, q : i = task[w].ship /\ n = ships[i].node
                     /\ q = Cardinality(task[w].list)
  OBVIOUS
<1>3. i \in DOMAIN ships
  BY <1>1, <1>2 DEF Refers
<1>4. n \in Nodes
  BY <1>2, <1>3, ShipmentAt
<1>5. CASE ~ (allocated[n] >= q /\ onHand[n] >= q)
  <2>1. End(w) /\ UNCHANGED <<stock, ships>>
    BY <1>2, <1>5 DEF ShipOut
  <2> QED BY <2>1, EndTyped, SameWorld DEF ShipOut
<1>6. CASE allocated[n] >= q /\ onHand[n] >= q
  <2>1. q \in Nat
    <3>1. task[w].list \in SUBSET DOMAIN ships /\ IsFiniteSet(DOMAIN ships)
      <4>1. DOMAIN ships = 1 .. Len(ships) /\ Len(ships) \in Int
        BY DEF TypeInv, Types
      <4>2. IsFiniteSet(1 .. Len(ships))
        BY <4>1, FS_Interval
      <4> QED BY <1>1, <4>1, <4>2 DEF Refers
    <3>2. IsFiniteSet(task[w].list)
      BY <3>1, FS_Subset
    <3> QED BY <1>2, <3>2, FS_CardinalityType
  <2>2. PICK x : x = Moved(ships[i], to, "PICKED", "SHIPPED")
    OBVIOUS
  <2>3. x \in Shipment
    <3>1. "SHIPPED" \in AllocationStatus
      BY DEF AllocationStatus
    <3> QED BY <1>3, <2>2, <3>1, MovedShipment
  <2>4. /\ onHand' = [onHand EXCEPT ![n] = @ - q]
        /\ allocated' = [allocated EXCEPT ![n] = @ - q]
        /\ Become(w, [task[w] EXCEPT !.at = "roll", !.list = {}])
    BY <1>2, <1>6 DEF ShipOut
  <2>5. ships' = [ships EXCEPT ![i] = x]
    BY <1>2, <1>6, <2>2 DEF ShipOut
  <2>6. onHand' \in [Nodes -> Nat] /\ allocated' \in [Nodes -> Nat]
    BY <1>4, <1>6, <2>1, <2>4 DEF TypeInv, Types
  <2>7. World' /\ Grows /\ World
    BY <1>3, <2>3, <2>5, <2>6, ShipmentStepTyped
    DEF ShipOut, TypeInv, Types, World
  <2>8. PICK t : t = [task[w] EXCEPT !.at = "roll", !.list = {}]
    OBVIOUS
  <2>9. t \in Task /\ t.at = "roll" /\ t.list = {} /\ t.ref = task[w].ref
    BY <1>1, <2>8 DEF Task, Labels
  <2>10. Refers(t)
    BY <1>1, <2>9 DEF Refers, ShipLabels
  <2>11. Refers(t)'
    BY <2>7, <2>9, <2>10, RefersKept
  <2> QED BY <2>4, <2>7, <2>8, <2>9, <2>11, StepTyped
<1> QED BY <1>5, <1>6

(* The stage the shipments have reached. *)
LEMMA TargetStage ==
  ASSUME TypeInv
  PROVE  /\ Target \in Stages \cup {"none"}
         /\ Target # "none" => Reached(ChainIndex(Target) - 2)
<1>1. /\ Target = "DELIVERED" => Reached(3)
      /\ Target = "SHIPPED" => Reached(2)
      /\ Target = "PICKED" => Reached(1)
      /\ Target \in Stages \cup {"none"}
  <2> DEFINE r(n) == Reached(n)
  <2>1. Active = {} \/ (Active # {} /\ r(3)) \/ (Active # {} /\ r(2) /\ ~ r(3))
        \/ (Active # {} /\ r(1) /\ ~ r(2)) \/ (Active # {} /\ ~ r(1))
    OBVIOUS
  <2> HIDE DEF r
  <2>2. Target = CASE Active = {} -> "none"
                   [] Active # {} /\ r(3) -> "DELIVERED"
                   [] Active # {} /\ r(2) /\ ~ r(3) -> "SHIPPED"
                   [] Active # {} /\ r(1) /\ ~ r(2) -> "PICKED"
                   [] Active # {} /\ ~ r(1) -> "none"
    BY DEF Target, r
  <2>3. \A i \in Active : SHIPMENT_RANK[ships[i].status] \in Int
    BY Tables, ShipmentAt DEF Active
  <2>4. (r(3) => r(2)) /\ (r(2) => r(1))
    BY <2>3 DEF r, Reached
  <2>5. CASE Active = {}
    BY <2>2, <2>5 DEF Stages
  <2>6. CASE Active # {} /\ r(3)
    BY <2>2, <2>4, <2>6 DEF Stages, r
  <2>7. CASE Active # {} /\ r(2) /\ ~ r(3)
    BY <2>2, <2>4, <2>7 DEF Stages, r
  <2>8. CASE Active # {} /\ r(1) /\ ~ r(2)
    BY <2>2, <2>4, <2>8 DEF Stages, r
  <2>9. CASE Active # {} /\ ~ r(1)
    BY <2>2, <2>4, <2>9 DEF Stages, r
  <2> QED BY <2>1, <2>5, <2>6, <2>7, <2>8, <2>9
<1>2. ASSUME Target \in Stages PROVE Reached(ChainIndex(Target) - 2)
  <2>1. CASE Target = "DELIVERED"
    <3>1. ChainIndex(Target) - 2 = 3
      BY <2>1, Chain
    <3> QED BY <1>1, <2>1, <3>1
  <2>2. CASE Target = "SHIPPED"
    <3>1. ChainIndex(Target) - 2 = 2
      BY <2>2, Chain
    <3> QED BY <1>1, <2>2, <3>1
  <2>3. CASE Target = "PICKED"
    <3>1. ChainIndex(Target) - 2 = 1
      BY <2>3, Chain
    <3> QED BY <1>1, <2>3, <3>1
  <2> QED BY <1>2, <2>1, <2>2, <2>3 DEF Stages
<1> QED BY <1>1, <1>2

(* rollupOrder: the stage it reads and the first status on the way there. *)
LEMMA RollTyped ==
  ASSUME TypeInv, NEW w \in Workers, RollReadShipments(w) \/ RollReadOrder(w)
  PROVE  TypeInv'
<1>1. Refers(task[w]) /\ task[w] \in Task /\ status \in OrderStatus
  BY DEF TypeInv, Types
<1>2. World' /\ Grows
  BY SameWorld DEF RollReadShipments, RollReadOrder
<1>3. CASE End(w)
  BY <1>2, <1>3, EndTyped
<1>4. CASE RollReadShipments(w) /\ ~ End(w)
  <2>1. PICK last, t : /\ last = Target
                       /\ t = [task[w] EXCEPT !.at = "roll_order", !.last = last]
    OBVIOUS
  <2>2. Become(w, t) /\ last # "none"
    BY <1>4, <2>1 DEF RollReadShipments
  <2>3. last \in Stages
    BY <2>1, <2>2, TargetStage
  <2>4. /\ t \in Task /\ t.at = "roll_order" /\ t.last = last
        /\ t.list = task[w].list /\ t.ref = task[w].ref
    BY <1>1, <2>1, <2>3 DEF Task, Labels
  <2>5. Refers(t)
    BY <1>1, <2>3, <2>4 DEF Refers, ShipLabels
  <2> QED BY <1>4, <2>2, <2>4, <2>5, QuietTyped DEF RollReadShipments
<1>5. CASE RollReadOrder(w) /\ ~ End(w)
  <2>1. PICK st, last, n : st = status /\ last = task[w].last /\ n = NextInChain(st)
    OBVIOUS
  <2>2. /\ last \in Stages /\ st \in OrderStatus
        /\ ~ (ChainIndex(st) = 0 \/ ChainIndex(last) <= ChainIndex(st))
        /\ CallTransition(w, n, "rollup")
    BY <1>1, <1>5, <2>1 DEF RollReadOrder, Refers, At
  <2>3. /\ n \in Stages \cup {"RELEASED"} /\ ChainIndex(n) <= ChainIndex(last)
    BY <2>1, <2>2, Chain, Following DEF Stages, OrderStatus
  <2>4. n \in OrderStatus
    BY <2>3 DEF Stages, OrderStatus
  <2> QED BY <1>2, <2>1, <2>2, <2>3, <2>4, CallTyped
<1> QED BY <1>3, <1>4, <1>5

(* A server that dies forgets its task. *)
LEMMA CrashTyped ==
  ASSUME TypeInv, NEW w \in Workers, Crash(w)
  PROVE  TypeInv'
BY EndTyped, SameWorld DEF Crash

(* The types are inductive, for any number of concurrent handlers. *)
LEMMA NextTyped ==
  ASSUME TypeInv, [Next]_vars
  PROVE  TypeInv'
<1>1. CASE UNCHANGED vars
  BY <1>1 DEF vars, stock, payment, TypeInv, Types, Refers
<1>2. ASSUME NEW w \in Workers, Call(w) PROVE TypeInv'
  <2>1. ASSUME NEW h \in DOMAIN Handlers, NEW i \in DOMAIN ships,
               RequireShipment(w, h, i)
        PROVE  TypeInv'
    BY <2>1, RequireShipmentTyped
  <2> QED BY <1>2, <2>1, AuthorizeTyped, SourcingTyped, ReadsTyped DEF Call
<1>3. ASSUME NEW w \in Workers, Ship(w) \/ PickUp(w) PROVE TypeInv'
  <2>1. /\ "sh_update" \in ShipLabels /\ "pu_update" \in ShipLabels
        /\ "SHIPPED" \in ShipmentStatus /\ "PICKED_UP" \in ShipmentStatus
        /\ task[w].at \in ShipLabels
    BY <1>3 DEF ShipLabels, ShipmentStatus, Ship, PickUp, At
  <2> QED BY <1>3, <2>1, ReadPickedTyped, ShipOutTyped DEF Ship, PickUp
<1>4. ASSUME NEW w \in Workers, Continue(w) PROVE TypeInv'
  <2>1. ASSUME NEW i \in DOMAIN ships, Deallocate(w, i) PROVE TypeInv'
    BY <2>1, DeallocateTyped
  <2> QED BY <1>3, <1>4, <2>1, ReadStatusTyped, WriteStatusTyped,
             UpdateValidatedTyped, SourcingTyped, ReadsTyped,
             CancelShipmentsTyped, PaymentTyped, FulfillTyped, RollTyped
          DEF Continue
<1> QED BY <1>1, <1>2, <1>4, CrashTyped DEF Next

(* They hold at the start. *)
LEMMA InitTyped == Init => TypeInv
<1> SUFFICES ASSUME Init PROVE TypeInv
  OBVIOUS
<1>1. Idle \in Task
  BY DEF Idle, Task, Labels
<1>2. Types
  <2>1. gateway \in Seq(Charge) /\ Len(gateway) = 0 /\ ships \in Seq(Shipment)
    BY DEF Init
  <2>2. onHand \in [Nodes -> Nat] /\ allocated \in [Nodes -> Nat]
    BY LifecycleAssumption DEF Init, Scenario
  <2> QED BY <1>1, <2>1, <2>2 DEF Init, Types, OrderStatus, PaymentStatus
<1>3. ASSUME NEW w \in Workers PROVE Refers(task[w])
  <2>1. task[w] = Idle /\ Len(gateway) = 0
    BY DEF Init
  <2>2. Idle.at = "idle" /\ Idle.ref = 0 /\ Idle.list = {}
    BY DEF Idle
  <2> QED BY <2>1, <2>2 DEF Refers, ShipLabels
<1> QED BY <1>2, <1>3 DEF TypeInv

(* The types of the order, its shipments, stock and payment hold however    *)
(* its handlers interleave, and whichever of them die.                      *)
THEOREM OrderTyped == Spec => []TypeOK
<1>1. TypeInv => TypeOK
  BY Tables, ShipmentAt DEF TypeInv, Types, TypeOK
<1> QED BY <1>1, InitTyped, NextTyped, PTL DEF Spec

-----------------------------------------------------------------------------
(* Counting allocations, and the stages of shipments *)

(* The allocations of a node that have one of the statuses A. *)
Counted(n, A) == { i \in DOMAIN ships : ships[i].node = n /\ ships[i].alloc \in A }

(* An order has finitely many allocations. *)
LEMMA CountedFinite ==
  ASSUME TypeInv, NEW n, NEW A
  PROVE  /\ IsFiniteSet(Counted(n, A)) /\ CountAllocs(n, A) \in Nat
         /\ CountAllocs(n, A) = Cardinality(Counted(n, A))
<1>1. DOMAIN ships = 1 .. Len(ships) /\ Len(ships) \in Int
  BY DEF TypeInv, Types
<1>2. IsFiniteSet(DOMAIN ships)
  BY <1>1, FS_Interval
<1>3. Counted(n, A) \in SUBSET DOMAIN ships
  BY DEF Counted
<1>4. IsFiniteSet(Counted(n, A))
  BY <1>2, <1>3, FS_Subset
<1>5. CountAllocs(n, A) = Cardinality(Counted(n, A))
  BY DEF CountAllocs, Counted
<1> QED BY <1>4, <1>5, FS_CardinalityType

(* One shipment replaced by another of its node, ... *)
Replaced(i, x) == /\ i \in DOMAIN ships /\ x \in Shipment
                  /\ x.node = ships[i].node /\ ships' = [ships EXCEPT ![i] = x]

(* ... and what that does to the counts. *)
LEMMA CountChange ==
  ASSUME TypeInv, TypeInv', NEW i, NEW x, Replaced(i, x), NEW n, NEW A
  PROVE  /\ n # x.node \/ (x.alloc \in A <=> ships[i].alloc \in A) =>
              CountAllocs(n, A)' = CountAllocs(n, A)
         /\ n = x.node /\ x.alloc \in A /\ ships[i].alloc \notin A =>
              CountAllocs(n, A)' = CountAllocs(n, A) + 1
         /\ n = x.node /\ x.alloc \notin A /\ ships[i].alloc \in A =>
              CountAllocs(n, A)' = CountAllocs(n, A) - 1
<1>1. /\ DOMAIN ships' = DOMAIN ships /\ ships'[i] = x
      /\ \A j \in DOMAIN ships : j # i => ships'[j] = ships[j]
      /\ i \in DOMAIN ships /\ x.node = ships[i].node
  BY ShipmentsTyped DEF Replaced
<1>2. PICK C, D : C = Counted(n, A) /\ D = Counted(n, A)'
  OBVIOUS
<1>3. /\ IsFiniteSet(C) /\ CountAllocs(n, A) = Cardinality(C)
      /\ CountAllocs(n, A)' = Cardinality(D) /\ Cardinality(C) \in Nat
  <2>1. IsFiniteSet(C) /\ CountAllocs(n, A) = Cardinality(C)
        /\ CountAllocs(n, A) \in Nat
    BY <1>2, CountedFinite
  <2>2. CountAllocs(n, A)' = Cardinality(D)
    BY <1>2 DEF CountAllocs, Counted
  <2> QED BY <2>1, <2>2
<1>4. CASE n # x.node \/ (x.alloc \in A <=> ships[i].alloc \in A)
  <2>1. D = C
    BY <1>1, <1>2, <1>4 DEF Counted
  <2> QED BY <1>3, <1>4, <2>1
<1>5. CASE n = x.node /\ x.alloc \in A /\ ships[i].alloc \notin A
  <2>1. D = C \cup {i} /\ i \notin C
    BY <1>1, <1>2, <1>5 DEF Counted
  <2>2. Cardinality(D) = Cardinality(C) + 1
    BY <1>3, <2>1, FS_AddElement
  <2> QED BY <1>3, <1>5, <2>2
<1>6. CASE n = x.node /\ x.alloc \notin A /\ ships[i].alloc \in A
  <2>1. D = C \ {i} /\ i \in C
    BY <1>1, <1>2, <1>6 DEF Counted
  <2>2. Cardinality(D) = Cardinality(C) - 1
    BY <1>3, <2>1, FS_RemoveElement
  <2> QED BY <1>3, <1>6, <2>2
<1> QED BY <1>4, <1>5, <1>6

(* If every shipment keeps its node and allocation, so do the counts. *)
LEMMA CountSame ==
  ASSUME DOMAIN ships' = DOMAIN ships,
         \A i \in DOMAIN ships : /\ ships'[i].node = ships[i].node
                                 /\ ships'[i].alloc = ships[i].alloc,
         NEW n, NEW A
  PROVE  CountAllocs(n, A)' = CountAllocs(n, A)
<1>1. Counted(n, A)' = Counted(n, A)
  BY DEF Counted
<1> QED BY <1>1 DEF CountAllocs, Counted

(* Shipments that have all reached a stage have reached the ones before. *)
LEMMA ReachedBefore ==
  ASSUME TypeInv, NEW a \in Int, NEW b \in Int, a <= b, Reached(b)
  PROVE  Reached(a)
<1>1. \A i \in Active : SHIPMENT_RANK[ships[i].status] \in Int
  BY Tables, ShipmentAt DEF Active
<1> QED BY <1>1 DEF Reached

-----------------------------------------------------------------------------
(* What a step may do to shipments, whatever runs beside it *)

Open == {"ALLOCATED", "PICKED"}

(* But for a sourcing, no step adds a shipment or opens an allocation; it    *)
(* makes a shipment one to pick or hand over, or takes a stage back from it, *)
(* only by writing over what another has done.                               *)
Advances(i) ==
  /\ ships'[i].node = ships[i].node
  /\ ships'[i].alloc \in Open => ships[i].alloc \in Open
  /\ ships'[i].status \in {"PENDING", "PICKED"} =>
       ships[i].status \in {"PENDING", "PICKED"} \/ Stale("shipment", i)'
  /\ \/ Stale("shipment", i)' \/ ships'[i].status \in {ships[i].status, "CANCELLED"}
     \/ /\ ships[i].status # "CANCELLED"
        /\ SHIPMENT_RANK[ships'[i].status] >= SHIPMENT_RANK[ships[i].status]
ShipmentsAdvance ==
  /\ DOMAIN ships' = DOMAIN ships /\ scenario' = scenario
  /\ stale \subseteq stale'
  /\ \A i \in DOMAIN ships : Advances(i)

(* The steps that change neither shipments nor stock. *)
Elsewhere(w) ==
  \/ ReadStatus(w) \/ WriteStatus(w) \/ Authorize(w) \/ UpdateValidated(w)
  \/ CheckSourceable(w) \/ RefuseSourcing(w) \/ Release(w)
  \/ ReadForCancel(w) \/ ReadAllocations(w)
  \/ ReversePayment(w) \/ UpdateReversed(w)
  \/ \E h \in DOMAIN Handlers, i \in DOMAIN ships : RequireShipment(w, h, i)
  \/ PickCheckOrder(w)
  \/ (At(w, "sh_allocs") /\ ReadPicked(w, "sh_update"))
  \/ (At(w, "pu_allocs") /\ ReadPicked(w, "pu_update"))
  \/ RollReadShipments(w) \/ RollReadOrder(w)
  \/ ReadForCapture(w) \/ CallCapture(w) \/ UpdateCaptured(w) \/ Crash(w)

(* The steps that change one shipment, and what becomes of it. *)
DeallocateStep(w) == \E i \in DOMAIN ships : Deallocate(w, i)
ShipStep(w) ==
  \/ At(w, "sh_update") /\ ShipOut(w, "PICKED", "SHIPPED")
  \/ At(w, "pu_update") /\ ShipOut(w, "READY_FOR_PICKUP", "PICKED_UP")
AdvanceStep(w) == MarkReadyForPickup(w) \/ Deliver(w)

(* Every step is one of these. *)
LEMMA Steps ==
  ASSUME [Next]_vars
  PROVE  \/ UNCHANGED vars
         \/ \E w \in Workers :
              \/ Elsewhere(w) \/ CommitSourcing(w) \/ DeallocateStep(w)
              \/ CancelShipments(w) \/ Dispatch(w) \/ PickUpdate(w)
              \/ ShipStep(w) \/ AdvanceStep(w)
<1>1. ASSUME NEW w \in Workers, Call(w) PROVE Elsewhere(w)
  BY <1>1 DEF Call, Elsewhere
<1>2. ASSUME NEW w \in Workers, Crash(w) PROVE Elsewhere(w)
  BY <1>2 DEF Elsewhere
<1>3. ASSUME NEW w \in Workers, Continue(w)
      PROVE  \/ Elsewhere(w) \/ CommitSourcing(w) \/ DeallocateStep(w)
             \/ CancelShipments(w) \/ Dispatch(w) \/ PickUpdate(w)
             \/ ShipStep(w) \/ AdvanceStep(w)
  <2>1. Ship(w) \/ PickUp(w) => Elsewhere(w) \/ ShipStep(w)
    BY DEF Ship, PickUp, Elsewhere, ShipStep
  <2> QED BY <1>3, <2>1 DEF Continue, Elsewhere, DeallocateStep, AdvanceStep
<1> QED BY <1>1, <1>2, <1>3 DEF Next

(* A step changes the task of one worker. *)
LEMMA TaskStep ==
  ASSUME TypeInv, NEW w \in Workers, NEW t, Become(w, t)
  PROVE  task'[w] = t /\ \A v \in Workers : v # w => task'[v] = task[v]
BY DEF TypeInv, Types, Become

(* What was done on an outdated read stays on record. *)
LEMMA Noted ==
  ASSUME NEW what, NEW i, NEW outdated \in BOOLEAN, Note(what, i, outdated)
  PROVE  stale \subseteq stale' /\ (outdated => <<what, i>> \in stale')
BY DEF Note

(* These steps leave shipments, stock and the scenario alone. *)
LEMMA ElsewhereKeeps ==
  ASSUME NEW w \in Workers, Elsewhere(w)
  PROVE  UNCHANGED <<ships, stock, scenario>> /\ stale \subseteq stale'
<1>1. CASE ReadStatus(w)
  BY <1>1 DEF ReadStatus, Note
<1>2. CASE WriteStatus(w)
  BY <1>2 DEF WriteStatus, SetStatus, Note
<1>3. CASE Authorize(w) \/ UpdateValidated(w)
  BY <1>3 DEF Authorize, UpdateValidated, history
<1>4. CASE CheckSourceable(w) \/ RefuseSourcing(w) \/ Release(w)
  BY <1>4 DEF CheckSourceable, RefuseSourcing, Release, history
<1>5. CASE ReadForCancel(w) \/ ReadAllocations(w) \/ ReversePayment(w)
  BY <1>5 DEF ReadForCancel, ReadAllocations, ReversePayment, history
<1>6. CASE UpdateReversed(w) \/ UpdateCaptured(w)
  BY <1>6 DEF UpdateReversed, UpdateCaptured, Note
<1>7. ASSUME NEW h \in DOMAIN Handlers, NEW i \in DOMAIN ships, RequireShipment(w, h, i)
      PROVE  UNCHANGED <<ships, stock, scenario>> /\ stale \subseteq stale'
  BY <1>7 DEF RequireShipment, history
<1>8. CASE PickCheckOrder(w) \/ ReadPicked(w, "sh_update") \/ ReadPicked(w, "pu_update")
  BY <1>8 DEF PickCheckOrder, ReadPicked, history
<1>9. CASE RollReadShipments(w) \/ RollReadOrder(w)
  BY <1>9 DEF RollReadShipments, RollReadOrder, history
<1>10. CASE ReadForCapture(w) \/ CallCapture(w) \/ Crash(w)
  BY <1>10 DEF ReadForCapture, CallCapture, Crash, history
<1> QED BY <1>1, <1>2, <1>3, <1>4, <1>5, <1>6, <1>7, <1>8, <1>9, <1>10 DEF Elsewhere

(* One shipment replaced by another that has moved on. *)
LEMMA ReplacedAdvances ==
  ASSUME TypeInv, NEW i, NEW x, Replaced(i, x), scenario' = scenario,
         stale \subseteq stale',
         x.alloc \in Open => ships[i].alloc \in Open,
         x.status \in {"PENDING", "PICKED"} =>
           ships[i].status \in {"PENDING", "PICKED"} \/ Stale("shipment", i)',
         \/ Stale("shipment", i)' \/ x.status \in {ships[i].status, "CANCELLED"}
         \/ /\ ships[i].status # "CANCELLED"
            /\ SHIPMENT_RANK[x.status] >= SHIPMENT_RANK[ships[i].status]
  PROVE  ShipmentsAdvance
<1>1. /\ DOMAIN ships' = DOMAIN ships /\ ships'[i] = x
      /\ \A j \in DOMAIN ships : j # i => ships'[j] = ships[j]
      /\ x.node = ships[i].node
  BY ShipmentsTyped DEF Replaced
<1>2. Advances(i)
  BY <1>1 DEF Advances
<1>3. ASSUME NEW j \in DOMAIN ships, j # i PROVE Advances(j)
  BY <1>1, <1>3 DEF Advances
<1> QED BY <1>1, <1>2, <1>3 DEF ShipmentsAdvance

(* A DEALLOCATE cancels one allocation, or is refused. *)
LEMMA DeallocateEffect ==
  ASSUME TypeInv, NEW w \in Workers, NEW i \in DOMAIN ships, Deallocate(w, i)
  PROVE  LET x == [ships[i] EXCEPT !.alloc = "CANCELLED"] IN
         /\ UNCHANGED <<status, onHand, payment, crashes, scenario>>
         /\ stale \subseteq stale' /\ i \in task[w].list
         /\ x \in Shipment /\ x.node = ships[i].node /\ x.alloc = "CANCELLED"
         /\ x.status = ships[i].status
         /\ \/ /\ allocated[x.node] > 0 /\ Replaced(i, x)
               /\ allocated' = [allocated EXCEPT ![x.node] = @ - 1]
               /\ ships[i].alloc \in Open \/ Stale("allocation", i)'
               /\ Become(w, [task[w] EXCEPT !.list = @ \ {i}])
            \/ End(w) /\ UNCHANGED <<ships, stock>>
<1>1. PICK x : x = [ships[i] EXCEPT !.alloc = "CANCELLED"]
  OBVIOUS
<1>2. /\ x \in Shipment /\ x.node = ships[i].node /\ x.alloc = "CANCELLED"
      /\ x.status = ships[i].status
  BY <1>1, ShipmentAt DEF Shipment, AllocationStatus
<1>3. PICK n : n = x.node
  OBVIOUS
<1>4. UNCHANGED <<status, onHand, payment, crashes, scenario>> /\ i \in task[w].list
  BY DEF Deallocate
<1>5. CASE allocated[n] > 0
  <2>1. /\ allocated' = [allocated EXCEPT ![n] = @ - 1]
        /\ ships' = [ships EXCEPT ![i] = x]
        /\ Note("allocation", i, ships[i].alloc \notin Open)
        /\ Become(w, [task[w] EXCEPT !.list = @ \ {i}])
    BY <1>1, <1>2, <1>3, <1>5 DEF Deallocate, Open
  <2>2. stale \subseteq stale' /\ (ships[i].alloc \in Open \/ Stale("allocation", i)')
    BY <2>1 DEF Note, Stale
  <2>3. Replaced(i, x)
    BY <1>2, <2>1 DEF Replaced
  <2> QED BY <1>1, <1>2, <1>3, <1>4, <1>5, <2>1, <2>2, <2>3
<1>6. CASE ~ (allocated[n] > 0)
  <2>1. End(w) /\ UNCHANGED <<allocated, ships, stale>>
    BY <1>2, <1>3, <1>6 DEF Deallocate
  <2> QED BY <1>1, <1>2, <1>4, <2>1 DEF stock
<1> QED BY <1>5, <1>6

(* The shipment a handler ships is one of the order. *)
LEMMA ShipRefers ==
  ASSUME TypeInv, NEW w \in Workers, ShipStep(w)
  PROVE  /\ task[w].ship \in DOMAIN ships /\ ships[task[w].ship].node \in Nodes
         /\ task[w].list \subseteq {task[w].ship}
<1>1. Refers(task[w]) /\ task[w].at \in ShipLabels
  BY DEF TypeInv, ShipStep, At, ShipLabels
<1> QED BY <1>1, ShipmentAt DEF Refers

(* Shipment i takes q units of node n out of stock and has left. *)
TakenOut(w, i, n, q) ==
  /\ onHand' = [onHand EXCEPT ![n] = @ - q]
  /\ allocated' = [allocated EXCEPT ![n] = @ - q]
  /\ \E x \in Shipment :
       /\ Replaced(i, x) /\ x.status \in {"SHIPPED", "PICKED_UP"}
       /\ x.alloc = IF ships[i].alloc = "PICKED" THEN "SHIPPED" ELSE ships[i].alloc
       /\ ships[i].status \in {"PICKED", "READY_FOR_PICKUP"} \/ Stale("shipment", i)'
       /\ (ships[i].alloc = "PICKED" <=> i \in task[w].list) \/ Stale("allocation", i)'
  /\ Become(w, [task[w] EXCEPT !.at = "roll", !.list = {}])

(* A shipment that ships or is collected takes with it the units read, one  *)
(* if its allocation was PICKED then and none otherwise, or is refused.     *)
LEMMA ShipEffect ==
  ASSUME TypeInv, NEW w \in Workers, ShipStep(w),
         NEW i, i = task[w].ship, NEW n \in Nodes, n = ships[i].node,
         NEW q \in Int, q = IF i \in task[w].list THEN 1 ELSE 0
  PROVE  /\ UNCHANGED <<status, payment, crashes, scenario>>
         /\ stale \subseteq stale' /\ i \in DOMAIN ships
         /\ \/ TakenOut(w, i, n, q)
            \/ End(w) /\ UNCHANGED <<stock, ships>>
<1>1. PICK from \in {"PICKED", "READY_FOR_PICKUP"}, to \in {"SHIPPED", "PICKED_UP"} :
        ShipOut(w, from, to) /\ task[w].at \in ShipLabels
  BY DEF ShipStep, At, ShipLabels
<1>3. i \in DOMAIN ships /\ task[w].list \subseteq {i}
  BY <1>1 DEF TypeInv, Refers
<1>4. q = Cardinality(task[w].list)
  <2>1. CASE i \in task[w].list
    <3>1. task[w].list = {i}
      BY <1>3, <2>1
    <3> QED BY <2>1, <3>1, FS_Singleton
  <2>2. CASE i \notin task[w].list
    <3>1. task[w].list = {}
      BY <1>3, <2>2
    <3> QED BY <2>2, <3>1, FS_EmptySet
  <2> QED BY <2>1, <2>2
<1>5. UNCHANGED <<status, payment, crashes, scenario>>
  BY <1>1 DEF ShipOut
<1>6. CASE allocated[n] >= q /\ onHand[n] >= q
  <2>1. PICK x : x = Moved(ships[i], to, "PICKED", "SHIPPED")
    OBVIOUS
  <2>2. /\ onHand' = [onHand EXCEPT ![n] = @ - q]
        /\ allocated' = [allocated EXCEPT ![n] = @ - q]
        /\ ships' = [ships EXCEPT ![i] = x]
        /\ Become(w, [task[w] EXCEPT !.at = "roll", !.list = {}])
    BY <1>1, <1>4, <1>6, <2>1 DEF ShipOut
  <2>3. stale' = stale
          \cup (IF ships[i].status = from THEN {} ELSE {<<"shipment", i>>})
          \cup (IF ships[i].alloc = "PICKED" <=> i \in task[w].list
                THEN {} ELSE {<<"allocation", i>>})
    BY <1>1, <1>4, <1>6 DEF ShipOut
  <2>4. /\ stale \subseteq stale'
        /\ ships[i].status = from \/ Stale("shipment", i)'
        /\ (ships[i].alloc = "PICKED" <=> i \in task[w].list) \/ Stale("allocation", i)'
    BY <2>3 DEF Stale
  <2>5. to \in ShipmentStatus /\ "SHIPPED" \in AllocationStatus
    BY DEF ShipmentStatus, AllocationStatus
  <2>6. /\ x \in Shipment /\ x.node = ships[i].node /\ x.status = to
        /\ x.alloc = IF ships[i].alloc = "PICKED" THEN "SHIPPED" ELSE ships[i].alloc
    BY <1>3, <2>1, <2>5, MovedShipment
  <2>7. Replaced(i, x)
    BY <1>3, <2>2, <2>6 DEF Replaced
  <2>8. TakenOut(w, i, n, q)
    BY <2>2, <2>4, <2>6, <2>7 DEF TakenOut
  <2> QED BY <1>3, <1>5, <2>4, <2>8
<1>7. CASE ~ (allocated[n] >= q /\ onHand[n] >= q)
  <2>1. End(w) /\ UNCHANGED <<stock, ships, stale>>
    BY <1>1, <1>4, <1>7 DEF ShipOut
  <2> QED BY <1>3, <1>5, <2>1
<1> QED BY <1>6, <1>7

(* The other steps on one shipment: a job, a pick, a change of status. *)
LEMMA ShipmentEffect ==
  ASSUME TypeInv, NEW w \in Workers, Dispatch(w) \/ PickUpdate(w) \/ AdvanceStep(w),
         NEW i, i = task[w].ship
  PROVE  /\ UNCHANGED <<status, stock, payment, crashes, scenario>>
         /\ stale \subseteq stale' /\ (End(w) \/ Go(w, "roll"))
         /\ \/ UNCHANGED ships
            \/ \E x \in Shipment :
                 /\ Replaced(i, x)
                 /\ \/ x.alloc = ships[i].alloc
                    \/ x.alloc = "PICKED" /\ ships[i].alloc = "ALLOCATED"
                 /\ \/ x.status = ships[i].status
                    \/ /\ x.status = "PICKED"
                       /\ ships[i].status = "PENDING" \/ Stale("shipment", i)'
                    \/ /\ x.status = "READY_FOR_PICKUP"
                       /\ ships[i].status = "PICKED" \/ Stale("shipment", i)'
                    \/ /\ x.status = "DELIVERED"
                       /\ ships[i].status = "SHIPPED" \/ Stale("shipment", i)'
<1>1. i = task[w].ship
  OBVIOUS
<1>2. i \in DOMAIN ships
  BY <1>1 DEF TypeInv, Refers, ShipLabels, Dispatch, PickUpdate, AdvanceStep,
              MarkReadyForPickup, Deliver, At
<1>3. CASE Dispatch(w)
  <2>1. PICK x : x = [ships[i] EXCEPT !.job = TRUE]
    OBVIOUS
  <2>2. x \in Shipment /\ x.node = ships[i].node /\ x.alloc = ships[i].alloc
        /\ x.status = ships[i].status
    BY <1>2, <2>1, ShipmentAt DEF Shipment
  <2>3. ships' = ships \/ ships' = [ships EXCEPT ![i] = x]
    BY <1>1, <1>3, <2>1 DEF Dispatch
  <2>4. ships' = ships \/ Replaced(i, x)
    BY <1>2, <2>2, <2>3 DEF Replaced
  <2>5. /\ UNCHANGED <<status, stock, payment, crashes, scenario>>
        /\ stale \subseteq stale' /\ End(w)
    BY <1>3 DEF Dispatch, history
  <2> QED BY <1>1, <2>2, <2>4, <2>5
<1>4. CASE PickUpdate(w)
  <2>1. PICK x : x = Moved(ships[i], "PICKED", "ALLOCATED", "PICKED")
    OBVIOUS
  <2>2. "PICKED" \in ShipmentStatus /\ "PICKED" \in AllocationStatus
    BY DEF ShipmentStatus, AllocationStatus
  <2>3. /\ x \in Shipment /\ x.node = ships[i].node /\ x.status = "PICKED"
        /\ x.alloc = IF ships[i].alloc = "ALLOCATED" THEN "PICKED" ELSE ships[i].alloc
    BY <1>2, <2>1, <2>2, MovedShipment
  <2>4. /\ ships' = [ships EXCEPT ![i] = x]
        /\ Note("shipment", i, ships[i].status # "PENDING")
        /\ UNCHANGED <<status, stock, payment, crashes, scenario>> /\ Go(w, "roll")
    BY <1>1, <1>4, <2>1 DEF PickUpdate
  <2>5. Replaced(i, x)
    BY <1>2, <2>3, <2>4 DEF Replaced
  <2>6. stale \subseteq stale' /\ (ships[i].status = "PENDING" \/ Stale("shipment", i)')
    BY <2>4 DEF Note, Stale
  <2> QED BY <1>1, <2>3, <2>4, <2>5, <2>6
<1>5. ASSUME NEW from, NEW to \in {"READY_FOR_PICKUP", "DELIVERED"},
             Advance(w, from, to)
      PROVE  /\ UNCHANGED <<status, stock, payment, crashes, scenario>>
             /\ stale \subseteq stale' /\ Go(w, "roll")
             /\ \E x \in Shipment :
                  /\ Replaced(i, x) /\ x.alloc = ships[i].alloc /\ x.status = to
                  /\ ships[i].status = from \/ Stale("shipment", i)'
  <2>1. PICK x : x = [ships[i] EXCEPT !.status = to]
    OBVIOUS
  <2>2. x \in Shipment /\ x.node = ships[i].node /\ x.alloc = ships[i].alloc
        /\ x.status = to
    BY <1>2, <2>1, ShipmentAt DEF Shipment, ShipmentStatus
  <2>3. /\ ships' = [ships EXCEPT ![i] = x]
        /\ Note("shipment", i, ships[i].status # from)
        /\ UNCHANGED <<status, stock, payment, crashes, scenario>> /\ Go(w, "roll")
    BY <1>1, <1>5, <2>1 DEF Advance
  <2>4. Replaced(i, x)
    BY <1>2, <2>2, <2>3 DEF Replaced
  <2>5. stale \subseteq stale' /\ (ships[i].status = from \/ Stale("shipment", i)')
    BY <2>3 DEF Note, Stale
  <2> QED BY <2>2, <2>3, <2>4, <2>5
<1>6. CASE AdvanceStep(w)
  <2>1. Advance(w, "PICKED", "READY_FOR_PICKUP") \/ Advance(w, "SHIPPED", "DELIVERED")
    BY <1>6 DEF AdvanceStep, MarkReadyForPickup, Deliver
  <2>2. CASE Advance(w, "PICKED", "READY_FOR_PICKUP")
    BY <1>1, <1>5, <2>2
  <2>3. CASE Advance(w, "SHIPPED", "DELIVERED")
    BY <1>1, <1>5, <2>3
  <2> QED BY <2>1, <2>2, <2>3
<1> QED BY <1>3, <1>4, <1>6

(* cancel's update of the shipments that are still open. *)
LEMMA CancelShipmentsEffect ==
  ASSUME TypeInv, NEW w \in Workers, CancelShipments(w)
  PROVE  /\ UNCHANGED <<status, stock, payment, history>>
         /\ DOMAIN ships' = DOMAIN ships
         /\ \A i \in DOMAIN ships :
              /\ ships'[i].node = ships[i].node /\ ships'[i].alloc = ships[i].alloc
              /\ ships'[i].status = IF ships[i].status \in {"PENDING", "PICKED"}
                                    THEN "CANCELLED" ELSE ships[i].status
<1>1. ASSUME NEW i \in DOMAIN ships
      PROVE  LET x == [ships[i] EXCEPT !.status = "CANCELLED"] IN
             /\ x.node = ships[i].node /\ x.alloc = ships[i].alloc
             /\ x.status = "CANCELLED"
  BY ShipmentAt DEF Shipment
<1>2. /\ UNCHANGED <<status, stock, payment, history>>
      /\ ships' = [i \in DOMAIN ships |->
                     IF ships[i].status \in {"PENDING", "PICKED"}
                     THEN [ships[i] EXCEPT !.status = "CANCELLED"] ELSE ships[i]]
  BY DEF CancelShipments
<1>3. DOMAIN ships' = DOMAIN ships
  BY <1>2
<1>4. ASSUME NEW i \in DOMAIN ships
      PROVE  /\ ships'[i].node = ships[i].node /\ ships'[i].alloc = ships[i].alloc
             /\ ships'[i].status = IF ships[i].status \in {"PENDING", "PICKED"}
                                   THEN "CANCELLED" ELSE ships[i].status
  BY <1>1, <1>2
<1> QED BY <1>2, <1>3, <1>4

(* Steps that leave the shipments alone advance them trivially. *)
LEMMA SameAdvances ==
  ASSUME UNCHANGED <<ships, scenario>>, stale \subseteq stale'
  PROVE  ShipmentsAdvance
BY DEF ShipmentsAdvance, Advances

(* So every step but a sourcing advances the shipments. *)
LEMMA StepAdvances ==
  ASSUME TypeInv, NEW w \in Workers,
         \/ Elsewhere(w) \/ DeallocateStep(w) \/ CancelShipments(w)
         \/ Dispatch(w) \/ PickUpdate(w) \/ ShipStep(w) \/ AdvanceStep(w)
  PROVE  ShipmentsAdvance
<1> DEFINE rank(st) == SHIPMENT_RANK[st]
<1>1. /\ rank("PENDING") = 0 /\ rank("PICKED") = 1 /\ rank("READY_FOR_PICKUP") = 2
      /\ rank("SHIPPED") = 2 /\ rank("PICKED_UP") = 3 /\ rank("DELIVERED") = 3
  BY DEF SHIPMENT_RANK
<1> HIDE DEF rank
<1>2. CASE Elsewhere(w)
  BY <1>2, ElsewhereKeeps, SameAdvances
<1>3. CASE DeallocateStep(w)
  <2>1. PICK i \in DOMAIN ships : Deallocate(w, i)
    BY <1>3 DEF DeallocateStep
  <2>2. PICK x : x = [ships[i] EXCEPT !.alloc = "CANCELLED"]
    OBVIOUS
  <2>3. /\ scenario' = scenario /\ stale \subseteq stale' /\ x.alloc = "CANCELLED"
        /\ x.status = ships[i].status /\ (Replaced(i, x) \/ UNCHANGED ships)
    BY <2>1, <2>2, DeallocateEffect
  <2>4. CASE Replaced(i, x)
    BY <2>3, <2>4, ReplacedAdvances DEF Open
  <2> QED BY <2>3, <2>4, SameAdvances
<1>4. CASE CancelShipments(w)
  <2>1. ASSUME NEW i \in DOMAIN ships PROVE Advances(i)
    BY <1>4, CancelShipmentsEffect DEF Advances
  <2>2. DOMAIN ships' = DOMAIN ships /\ scenario' = scenario /\ stale \subseteq stale'
    BY <1>4, CancelShipmentsEffect DEF history
  <2> QED BY <2>1, <2>2 DEF ShipmentsAdvance
<1>5. CASE ShipStep(w)
  <2>1. PICK i \in DOMAIN ships : i = task[w].ship /\ ships[i].node \in Nodes
    BY <1>5, ShipRefers
  <2>0. PICK n \in Nodes, q \in Int :
          n = ships[i].node /\ q = IF i \in task[w].list THEN 1 ELSE 0
    BY <2>1
  <2>2. scenario' = scenario /\ stale \subseteq stale' /\ i \in DOMAIN ships
    BY <1>5, <2>0, <2>1, ShipEffect
  <2>3. CASE UNCHANGED ships
    BY <2>2, <2>3, SameAdvances
  <2>4. CASE ~ UNCHANGED ships
    <3>1. PICK x \in Shipment :
            /\ Replaced(i, x) /\ x.status \in {"SHIPPED", "PICKED_UP"}
            /\ x.alloc = IF ships[i].alloc = "PICKED" THEN "SHIPPED"
                         ELSE ships[i].alloc
            /\ \/ ships[i].status \in {"PICKED", "READY_FOR_PICKUP"}
               \/ Stale("shipment", i)'
      BY <1>5, <2>0, <2>1, <2>4, ShipEffect DEF TakenOut
    <3>2. \/ Stale("shipment", i)'
          \/ /\ ships[i].status # "CANCELLED"
             /\ SHIPMENT_RANK[x.status] >= SHIPMENT_RANK[ships[i].status]
      BY <1>1, <3>1 DEF rank
    <3> QED BY <2>2, <3>1, <3>2, ReplacedAdvances DEF Open
  <2> QED BY <2>3, <2>4
<1>6. CASE Dispatch(w) \/ PickUpdate(w) \/ AdvanceStep(w)
  <2>1. PICK i : i = task[w].ship
    OBVIOUS
  <2>2. scenario' = scenario /\ stale \subseteq stale'
    BY <1>6, <2>1, ShipmentEffect
  <2>3. CASE UNCHANGED ships
    BY <2>2, <2>3, SameAdvances
  <2>4. CASE ~ UNCHANGED ships
    <3>1. PICK x \in Shipment :
            /\ Replaced(i, x)
            /\ \/ x.alloc = ships[i].alloc
               \/ x.alloc = "PICKED" /\ ships[i].alloc = "ALLOCATED"
            /\ \/ x.status = ships[i].status
               \/ /\ x.status = "PICKED"
                  /\ ships[i].status = "PENDING" \/ Stale("shipment", i)'
               \/ /\ x.status = "READY_FOR_PICKUP"
                  /\ ships[i].status = "PICKED" \/ Stale("shipment", i)'
               \/ /\ x.status = "DELIVERED"
                  /\ ships[i].status = "SHIPPED" \/ Stale("shipment", i)'
      BY <1>6, <2>1, <2>4, ShipmentEffect
    <3>2. \/ Stale("shipment", i)' \/ x.status = ships[i].status
          \/ /\ ships[i].status # "CANCELLED"
             /\ SHIPMENT_RANK[x.status] >= SHIPMENT_RANK[ships[i].status]
      BY <1>1, <3>1 DEF rank
    <3>3. x.status \in {"PENDING", "PICKED"} =>
            ships[i].status \in {"PENDING", "PICKED"} \/ Stale("shipment", i)'
      BY <3>1
    <3> QED BY <2>2, <3>1, <3>2, <3>3, ReplacedAdvances DEF Open
  <2> QED BY <2>3, <2>4
<1> QED BY <1>2, <1>3, <1>4, <1>5, <1>6

(* A sourcing adds one pending shipment on each node it took a unit of. *)
LEMMA SourcingEffect ==
  ASSUME TypeInv, NEW w \in Workers, CommitSourcing(w)
  PROVE  /\ status' = "ALLOCATED" /\ End(w)
         /\ UNCHANGED <<onHand, payment, crashes, scenario>>
         /\ stale \subseteq stale'
         /\ status = "VALIDATED" \/ Stale("status", 0)'
         /\ ~ CancelUnderWay \/ Stale("cancel", 0)'
         /\ \A i \in DOMAIN ships : i \in DOMAIN ships' /\ ships'[i] = ships[i]
         /\ \E S \in SUBSET Nodes : \E q \in Seq(Shipment) :
              /\ allocated' = [n \in Nodes |-> IF n \in S THEN allocated[n] + 1
                                               ELSE allocated[n]]
              /\ ships' = ships \o q /\ S = { q[i].node : i \in DOMAIN q }
              /\ \A i \in DOMAIN q : q[i].alloc = "ALLOCATED"
              /\ \A i, j \in DOMAIN q : q[i].node = q[j].node => i = j
<1>1. /\ status' = "ALLOCATED" /\ End(w)
      /\ UNCHANGED <<onHand, payment, crashes, scenario>>
      /\ stale' = stale \cup (IF status = "VALIDATED" THEN {} ELSE {<<"status", 0>>})
                        \cup (IF CancelUnderWay THEN {<<"cancel", 0>>} ELSE {})
  BY DEF CommitSourcing
<1>2. /\ stale \subseteq stale' /\ (status = "VALIDATED" \/ Stale("status", 0)')
      /\ (~ CancelUnderWay \/ Stale("cancel", 0)')
  BY <1>1 DEF Stale
<1>3. PICK S \in SUBSET FreeNodes :
        /\ allocated' = [n \in Nodes |-> IF n \in S THEN allocated[n] + 1
                                                    ELSE allocated[n]]
        /\ ships' = ships \o NewShipments(S)
  BY DEF CommitSourcing
<1>4. S \in SUBSET Nodes /\ IsFiniteSet(S)
  <2>1. S \in SUBSET Nodes
    BY DEF FreeNodes
  <2> QED BY <2>1, FS_Subset, LifecycleAssumption
<1>5. PICK q : q = NewShipments(S)
  OBVIOUS
<1>6. /\ Cardinality(S) \in Nat /\ DOMAIN q = 1 .. Cardinality(S)
      /\ q \in [1 .. Cardinality(S) -> { NewShipment(n) : n \in S }]
      /\ \A n \in S : \E i \in DOMAIN q :
           q[i].node = n /\ \A j \in DOMAIN q : q[j].node = n => j = i
  BY <1>4, <1>5, OneShipmentEach
<1>7. \A n \in S : /\ NewShipment(n) \in Shipment /\ NewShipment(n).node = n
                   /\ NewShipment(n).alloc = "ALLOCATED"
  BY <1>4 DEF NewShipment, Shipment, ShipmentStatus, AllocationStatus
<1>8. q \in Seq(Shipment) /\ \A i \in DOMAIN q : q[i].alloc = "ALLOCATED" /\ q[i].node \in S
  BY <1>6, <1>7
<1>9. S = { q[i].node : i \in DOMAIN q }
  BY <1>6, <1>8
<1>10. \A i, j \in DOMAIN q : q[i].node = q[j].node => i = j
  BY <1>6, <1>8
<1>11. \A i \in DOMAIN ships : i \in DOMAIN ships' /\ ships'[i] = ships[i]
  <2>1. ships \in Seq(Shipment) /\ ships' = ships \o q
    BY <1>3, <1>5 DEF TypeInv, Types
  <2> QED BY <1>8, <2>1
<1> QED BY <1>1, <1>2, <1>3, <1>4, <1>5, <1>8, <1>9, <1>10, <1>11

(* The steps that change neither shipments nor status, and whose handler    *)
(* goes on neither with a transition nor with what it has read of shipments *)
(* or allocations.                                                          *)
Guarded == {"roll_order", "t_read", "t_write", "c_dealloc"}
Quiet(w) ==
  \/ Authorize(w) \/ CheckSourceable(w) \/ RefuseSourcing(w) \/ ReadForCancel(w)
  \/ ReversePayment(w) \/ UpdateReversed(w)
  \/ \E h \in DOMAIN Handlers, i \in DOMAIN ships : RequireShipment(w, h, i)
  \/ PickCheckOrder(w)
  \/ (At(w, "sh_allocs") /\ ReadPicked(w, "sh_update"))
  \/ (At(w, "pu_allocs") /\ ReadPicked(w, "pu_update"))
  \/ ReadForCapture(w) \/ CallCapture(w) \/ UpdateCaptured(w) \/ Crash(w)

(* A handler that begins. *)
LEMMA BeginTask ==
  ASSUME TypeInv, NEW w \in Workers,
         \/ Authorize(w) \/ ReadForCancel(w)
         \/ \E h \in DOMAIN Handlers, i \in DOMAIN ships : RequireShipment(w, h, i)
  PROVE  status' = status /\ \E t : Become(w, t) /\ t.at \notin Guarded
<1>1. status' = status
  BY DEF Authorize, ReadForCancel, RequireShipment
<1>2. PICK i : i = Idle /\ i \in Task
  BY IdleTyped
<1>3. CASE Authorize(w)
  <2>1. PICK pay, ref, then : Become(w, [i EXCEPT !.at = "v_update", !.pay = pay,
                                                  !.ref = ref, !.then = then])
    BY <1>2, <1>3 DEF Authorize
  <2>2. PICK t : t = [i EXCEPT !.at = "v_update", !.pay = pay, !.ref = ref, !.then = then]
    OBVIOUS
  <2>3. t.at = "v_update" /\ Become(w, t)
    BY <1>2, <2>1, <2>2 DEF Task
  <2> QED BY <1>1, <2>3 DEF Guarded
<1>4. CASE ReadForCancel(w)
  <2>1. PICK t : t = [i EXCEPT !.at = "c_allocs", !.pay = payStatus, !.ref = payRef]
    OBVIOUS
  <2>2. t.at = "c_allocs" /\ Become(w, t)
    BY <1>2, <1>4, <2>1 DEF ReadForCancel, Task
  <2> QED BY <1>1, <2>2 DEF Guarded
<1>5. ASSUME NEW h \in DOMAIN Handlers, NEW j \in DOMAIN ships, RequireShipment(w, h, j)
      PROVE  \E t : Become(w, t) /\ t.at \notin Guarded
  <2>1. PICK t, l : t = [i EXCEPT !.at = l, !.ship = j] /\ l = Handlers[h].next
    OBVIOUS
  <2>2. t.at = l /\ Become(w, t)
    BY <1>2, <1>5, <2>1 DEF RequireShipment, Task
  <2>3. l \notin Guarded
    BY <2>1, HandlerTable DEF Guarded
  <2> QED BY <2>2, <2>3
<1> QED BY <1>1, <1>3, <1>4, <1>5

(* Where such a step's handler goes on. *)
LEMMA QuietTask ==
  ASSUME TypeInv, NEW w \in Workers, Quiet(w)
  PROVE  status' = status /\ \E t : Become(w, t) /\ t.at \notin Guarded
<1>1. ASSUME End(w) PROVE \E t : Become(w, t) /\ t.at \notin Guarded
  <2>1. PICK t : t = Idle /\ t.at = "idle"
    BY IdleTyped
  <2> QED BY <1>1, <2>1 DEF End, Guarded
<1>2. ASSUME NEW l, l \notin Guarded, Go(w, l)
      PROVE  \E t : Become(w, t) /\ t.at \notin Guarded
  <2>1. PICK t : t = [task[w] EXCEPT !.at = l]
    OBVIOUS
  <2>2. t.at = l /\ Become(w, t)
    BY <1>2, <2>1 DEF Go, TypeInv, Types, Task
  <2> QED BY <1>2, <2>2
<1>3. CASE Authorize(w) \/ ReadForCancel(w) \/ \E h \in DOMAIN Handlers, i \in DOMAIN ships : RequireShipment(w, h, i)
  BY <1>3, BeginTask
<1>4. CASE CheckSourceable(w) \/ PickCheckOrder(w)
  <2>1. status' = status /\ (Go(w, "s_commit") \/ Go(w, "p_update") \/ End(w))
    BY <1>4 DEF CheckSourceable, PickCheckOrder
  <2>2. "s_commit" \notin Guarded /\ "p_update" \notin Guarded
    BY DEF Guarded
  <2> QED BY <1>1, <1>2, <2>1, <2>2
<1>5. CASE RefuseSourcing(w) \/ Crash(w) \/ UpdateReversed(w) \/ UpdateCaptured(w)
  <2>1. status' = status /\ End(w)
    BY <1>5 DEF RefuseSourcing, Crash, UpdateReversed, UpdateCaptured
  <2> QED BY <1>1, <2>1
<1>6. ASSUME NEW next \in {"sh_update", "pu_update"}, ReadPicked(w, next)
      PROVE  status' = status /\ \E t : Become(w, t) /\ t.at \notin Guarded
  <2>1. PICK list, t :
          /\ list = IF ships[task[w].ship].alloc = "PICKED" THEN {task[w].ship} ELSE {}
          /\ t = [task[w] EXCEPT !.at = next, !.list = list]
    OBVIOUS
  <2>2. status' = status /\ Become(w, t)
    BY <1>6, <2>1 DEF ReadPicked
  <2>3. t.at = next
    BY <2>1 DEF TypeInv, Types, Task
  <2> QED BY <1>6, <2>2, <2>3 DEF Guarded
<1>7. CASE ReversePayment(w) \/ CallCapture(w) \/ ReadForCapture(w)
  <2>1. status' = status
    BY <1>7 DEF ReversePayment, CallCapture, ReadForCapture
  <2>2. ASSUME NEW l \in {"rev_update", "cap_update", "cap_call"}, NEW k,
               Become(w, [task[w] EXCEPT !.at = l, !.ref = k])
        PROVE  \E t : Become(w, t) /\ t.at \notin Guarded
    <3>1. PICK t : t = [task[w] EXCEPT !.at = l, !.ref = k]
      OBVIOUS
    <3>2. t.at = l /\ Become(w, t)
      BY <2>2, <3>1 DEF TypeInv, Types, Task
    <3> QED BY <2>2, <3>2 DEF Guarded
  <2>3. ASSUME NEW k, NEW from, NEW to, NEW next \in {"rev_update", "cap_update"},
               GatewayCall(w, k, from, to, next)
        PROVE  \E t : Become(w, t) /\ t.at \notin Guarded
    BY <1>1, <2>2, <2>3 DEF GatewayCall
  <2>4. PICK l, pr, tr : l = "cap_call" /\ pr = payRef /\ tr = task[w].ref
    OBVIOUS
  <2>5. \/ End(w)
        \/ Become(w, [task[w] EXCEPT !.at = l, !.ref = pr])
        \/ GatewayCall(w, pr, "captured", "refunded", "rev_update")
        \/ GatewayCall(w, tr, "authorized", "voided", "rev_update")
        \/ GatewayCall(w, tr, "authorized", "captured", "cap_update")
    BY <1>7, <2>4 DEF ReversePayment, CallCapture, ReadForCapture
  <2>6. CASE Become(w, [task[w] EXCEPT !.at = l, !.ref = pr])
    BY <2>1, <2>2, <2>4, <2>6
  <2> QED BY <1>1, <2>1, <2>3, <2>5, <2>6
<1> QED BY <1>3, <1>4, <1>5, <1>6, <1>7 DEF Quiet

-----------------------------------------------------------------------------
(* Every unit of the order is accounted for. *)

Accounted(n) ==
  /\ allocated[n] = scenario.others[n] + CountAllocs(n, Open)
  /\ onHand[n] = scenario.stock[n] - CountAllocs(n, {"SHIPPED"})
Mistaken(n) == \E i \in DOMAIN ships : ships[i].node = n /\ Stale("allocation", i)

(* What is said of the units of one node. *)
LEMMA AccountedDef ==
  AllocationsAccounted <=> \A n \in Nodes : Accounted(n) \/ Mistaken(n)
BY DEF AllocationsAccounted, Accounted, Mistaken, Open

(* The scenario is one of those given, and what is counted are integers. *)
ScenarioInv == scenario \in Scenarios
(* The numbers a scenario gives are natural. *)
LEMMA ScenarioNumbers ==
  ASSUME ScenarioInv, NEW n \in Nodes
  PROVE  scenario.others[n] \in Nat /\ scenario.stock[n] \in Nat
BY LifecycleAssumption DEF ScenarioInv, Scenario

(* A mistake stays on record, on the node it was made. *)
LEMMA MistakenKept ==
  ASSUME ShipmentsAdvance, NEW n, Mistaken(n)
  PROVE  Mistaken(n)'
BY DEF ShipmentsAdvance, Advances, Mistaken, Stale

(* Steps that change neither counts nor balances. *)
LEMMA AccountedKept ==
  ASSUME TypeInv, UNCHANGED <<stock, scenario>>, DOMAIN ships' = DOMAIN ships,
         \A i \in DOMAIN ships : /\ ships'[i].node = ships[i].node
                                 /\ ships'[i].alloc = ships[i].alloc,
         NEW n, Accounted(n)
  PROVE  Accounted(n)'
<1>1. CountAllocs(n, Open)' = CountAllocs(n, Open)
  BY CountSame
<1>2. CountAllocs(n, {"SHIPPED"})' = CountAllocs(n, {"SHIPPED"})
  BY CountSame
<1> QED BY <1>1, <1>2 DEF Accounted, stock

(* A DEALLOCATE takes back one unit of an open allocation. *)
LEMMA DeallocateAccounted ==
  ASSUME TypeInv, TypeInv', ScenarioInv, NEW w \in Workers,
         NEW i \in DOMAIN ships, Deallocate(w, i),
         NEW n \in Nodes, Accounted(n) \/ Mistaken(n)
  PROVE  Accounted(n)' \/ Mistaken(n)'
<1>1. PICK x : x = [ships[i] EXCEPT !.alloc = "CANCELLED"]
  OBVIOUS
<1>2. /\ UNCHANGED <<onHand, scenario>> /\ stale \subseteq stale'
      /\ x \in Shipment /\ x.node = ships[i].node /\ x.alloc = "CANCELLED"
      /\ \/ /\ allocated[x.node] > 0 /\ Replaced(i, x)
            /\ allocated' = [allocated EXCEPT ![x.node] = @ - 1]
            /\ ships[i].alloc \in Open \/ Stale("allocation", i)'
         \/ UNCHANGED <<ships, stock>>
  BY <1>1, DeallocateEffect
<1>3. ShipmentsAdvance
  BY StepAdvances DEF DeallocateStep
<1>4. CASE Mistaken(n)
  BY <1>3, <1>4, MistakenKept
<1>5. CASE Accounted(n) /\ UNCHANGED <<ships, stock>>
  BY <1>2, <1>5, AccountedKept
<1>6. CASE /\ Accounted(n) /\ Replaced(i, x)
           /\ allocated' = [allocated EXCEPT ![x.node] = @ - 1]
           /\ ships[i].alloc \in Open \/ Stale("allocation", i)'
  <2>1. CASE n # x.node
    <3>1. CountAllocs(n, Open)' = CountAllocs(n, Open)
      BY <1>6, <2>1, CountChange
    <3>2. CountAllocs(n, {"SHIPPED"})' = CountAllocs(n, {"SHIPPED"})
      BY <1>6, <2>1, CountChange
    <3>3. allocated'[n] = allocated[n]
      BY <1>6, <2>1 DEF TypeInv, Types
    <3> QED BY <1>2, <1>6, <3>1, <3>2, <3>3 DEF Accounted
  <2>2. CASE n = x.node /\ ships[i].alloc \in Open
    <3>1. CountAllocs(n, Open)' = CountAllocs(n, Open) - 1
      BY <1>2, <1>6, <2>2, CountChange DEF Open
    <3>2. CountAllocs(n, {"SHIPPED"})' = CountAllocs(n, {"SHIPPED"})
      BY <1>2, <1>6, <2>2, CountChange DEF Open
    <3>3. allocated'[n] = allocated[n] - 1 /\ allocated[n] \in Nat
      BY <1>6, <2>2 DEF TypeInv, Types
    <3>4. CountAllocs(n, Open) \in Nat
      BY CountedFinite
    <3>5. scenario.others[n] \in Nat
      BY ScenarioNumbers
    <3> QED BY <1>2, <1>6, <3>1, <3>2, <3>3, <3>4, <3>5 DEF Accounted
  <2>3. CASE n = x.node /\ Stale("allocation", i)'
    <3>1. i \in DOMAIN ships' /\ ships'[i].node = n
      BY <1>2, <1>3, <2>3 DEF ShipmentsAdvance, Advances
    <3> QED BY <2>3, <3>1 DEF Mistaken
  <2> QED BY <1>6, <2>1, <2>2, <2>3
<1> QED BY <1>2, <1>4, <1>5, <1>6

(* A SHIP takes the unit of a picked allocation away, and one that had none *)
(* takes nothing.                                                           *)
LEMMA ShipAccounted ==
  ASSUME TypeInv, TypeInv', ScenarioInv, NEW w \in Workers, ShipStep(w),
         NEW n \in Nodes, Accounted(n) \/ Mistaken(n)
  PROVE  Accounted(n)' \/ Mistaken(n)'
<1>0. PICK i \in DOMAIN ships : i = task[w].ship /\ ships[i].node \in Nodes
  BY ShipRefers
<1>1. PICK m \in Nodes, q \in Int :
        m = ships[i].node /\ q = IF i \in task[w].list THEN 1 ELSE 0
  BY <1>0
<1>2. UNCHANGED scenario /\ stale \subseteq stale' /\ i \in DOMAIN ships
  BY <1>0, <1>1, ShipEffect
<1>3. ShipmentsAdvance
  BY StepAdvances
<1>4. CASE Mistaken(n)
  BY <1>3, <1>4, MistakenKept
<1>5. CASE Accounted(n) /\ ships' = ships /\ stock' = stock
  BY <1>2, <1>5, AccountedKept
<1>6. CASE Accounted(n) /\ ~ (ships' = ships /\ stock' = stock)
  <2>0. TakenOut(w, i, m, q)
    BY <1>0, <1>1, <1>6, ShipEffect
  <2>1. /\ onHand' = [onHand EXCEPT ![m] = @ - q]
        /\ allocated' = [allocated EXCEPT ![m] = @ - q]
        /\ \E x \in Shipment :
             /\ Replaced(i, x)
             /\ x.alloc = IF ships[i].alloc = "PICKED" THEN "SHIPPED" ELSE ships[i].alloc
             /\ \/ ships[i].alloc = "PICKED" <=> i \in task[w].list
                \/ Stale("allocation", i)'
    BY <2>0 DEF TakenOut
  <2>2. PICK x \in Shipment :
          /\ Replaced(i, x)
          /\ x.alloc = IF ships[i].alloc = "PICKED" THEN "SHIPPED" ELSE ships[i].alloc
          /\ \/ ships[i].alloc = "PICKED" <=> i \in task[w].list
             \/ Stale("allocation", i)'
    BY <2>1
  <2>3. /\ CountAllocs(n, Open) \in Nat /\ CountAllocs(n, {"SHIPPED"}) \in Nat
        /\ scenario.others[n] \in Nat /\ scenario.stock[n] \in Nat
        /\ allocated[n] \in Nat /\ onHand[n] \in Nat
    BY CountedFinite, ScenarioNumbers DEF TypeInv, Types
  <2>4. x.node = m
    BY <1>1, <2>2 DEF Replaced
  <2>5. CASE n # m
    <3>1. CountAllocs(n, Open)' = CountAllocs(n, Open)
      BY <2>2, <2>4, <2>5, CountChange
    <3>2. CountAllocs(n, {"SHIPPED"})' = CountAllocs(n, {"SHIPPED"})
      BY <2>2, <2>4, <2>5, CountChange
    <3>3. allocated'[n] = allocated[n] /\ onHand'[n] = onHand[n]
      BY <2>1, <2>5 DEF TypeInv, Types
    <3> QED BY <1>2, <1>6, <3>1, <3>2, <3>3 DEF Accounted
  <2>6. CASE n = m /\ ships[i].alloc = "PICKED" /\ q = 1
    <3>1. CountAllocs(n, Open)' = CountAllocs(n, Open) - 1
      BY <2>2, <2>4, <2>6, CountChange DEF Open
    <3>2. CountAllocs(n, {"SHIPPED"})' = CountAllocs(n, {"SHIPPED"}) + 1
      BY <2>2, <2>4, <2>6, CountChange DEF Open
    <3>3. allocated'[n] = allocated[n] - 1 /\ onHand'[n] = onHand[n] - 1
      BY <2>1, <2>6 DEF TypeInv, Types
    <3> QED BY <1>2, <1>6, <2>3, <3>1, <3>2, <3>3 DEF Accounted
  <2>7. CASE n = m /\ ships[i].alloc # "PICKED" /\ q = 0
    <3>1. CountAllocs(n, Open)' = CountAllocs(n, Open)
      BY <2>2, <2>4, <2>7, CountChange
    <3>2. CountAllocs(n, {"SHIPPED"})' = CountAllocs(n, {"SHIPPED"})
      BY <2>2, <2>4, <2>7, CountChange
    <3>3. allocated'[n] = allocated[n] /\ onHand'[n] = onHand[n]
      BY <2>1, <2>3, <2>7 DEF TypeInv, Types
    <3> QED BY <1>2, <1>6, <3>1, <3>2, <3>3 DEF Accounted
  <2>8. CASE n = m /\ Stale("allocation", i)'
    <3>1. i \in DOMAIN ships' /\ ships'[i].node = n
      BY <1>1, <1>2, <1>3, <2>8 DEF ShipmentsAdvance, Advances
    <3> QED BY <2>8, <3>1 DEF Mistaken
  <2> QED BY <1>1, <2>2, <2>5, <2>6, <2>7, <2>8
<1> QED BY <1>4, <1>5, <1>6

(* A pick, a job or a change of status leaves open what was open. *)
LEMMA ShipmentAccounted ==
  ASSUME TypeInv, TypeInv', NEW w \in Workers,
         Dispatch(w) \/ PickUpdate(w) \/ AdvanceStep(w),
         NEW n \in Nodes, Accounted(n) \/ Mistaken(n)
  PROVE  Accounted(n)' \/ Mistaken(n)'
<1>1. PICK i : i = task[w].ship
  OBVIOUS
<1>2. UNCHANGED <<stock, scenario>>
  BY <1>1, ShipmentEffect DEF stock
<1>3. CASE Mistaken(n)
  BY <1>3, MistakenKept, StepAdvances
<1>4. CASE Accounted(n) /\ UNCHANGED ships
  BY <1>2, <1>4, AccountedKept
<1>5. CASE Accounted(n) /\ ~ UNCHANGED ships
  <2>1. PICK x \in Shipment :
          /\ Replaced(i, x)
          /\ \/ x.alloc = ships[i].alloc
             \/ x.alloc = "PICKED" /\ ships[i].alloc = "ALLOCATED"
    BY <1>1, <1>5, ShipmentEffect
  <2>2. CountAllocs(n, Open)' = CountAllocs(n, Open)
    BY <2>1, CountChange DEF Open
  <2>3. CountAllocs(n, {"SHIPPED"})' = CountAllocs(n, {"SHIPPED"})
    <3>1. x.alloc \in {"SHIPPED"} <=> ships[i].alloc \in {"SHIPPED"}
      BY <2>1
    <3> QED BY <2>1, <3>1, CountChange
  <2> QED BY <1>2, <1>5, <2>2, <2>3 DEF Accounted, stock
<1> QED BY <1>3, <1>4, <1>5

(* A sourcing takes one unit of each node it adds an allocation on. *)
LEMMA SourcingAccounted ==
  ASSUME TypeInv, TypeInv', ScenarioInv, NEW w \in Workers, CommitSourcing(w),
         NEW n \in Nodes, Accounted(n) \/ Mistaken(n)
  PROVE  Accounted(n)' \/ Mistaken(n)'
<1>1. /\ UNCHANGED <<onHand, scenario>> /\ stale \subseteq stale'
      /\ \A i \in DOMAIN ships : i \in DOMAIN ships' /\ ships'[i] = ships[i]
  BY SourcingEffect
<1>2. PICK S \in SUBSET Nodes, q \in Seq(Shipment) :
        /\ allocated' = [m \in Nodes |-> IF m \in S THEN allocated[m] + 1
                                         ELSE allocated[m]]
        /\ ships' = ships \o q /\ S = { q[i].node : i \in DOMAIN q }
        /\ \A i \in DOMAIN q : q[i].alloc = "ALLOCATED"
        /\ \A i, j \in DOMAIN q : q[i].node = q[j].node => i = j
  BY SourcingEffect
<1>3. CASE Mistaken(n)
  BY <1>1, <1>3 DEF Mistaken, Stale
<1>4. CASE Accounted(n)
  <2>1. /\ ships \in Seq(Shipment) /\ Len(ships) \in Nat /\ Len(q) \in Nat
        /\ DOMAIN ships = 1 .. Len(ships) /\ DOMAIN q = 1 .. Len(q)
        /\ DOMAIN ships' = 1 .. (Len(ships) + Len(q))
        /\ \A j \in 1 .. Len(q) : ships'[Len(ships) + j] = q[j]
    BY <1>2 DEF TypeInv, Types
  <2>2. \A j \in DOMAIN ships' \ DOMAIN ships :
          /\ j - Len(ships) \in DOMAIN q /\ ships'[j] = q[j - Len(ships)]
    <3> SUFFICES ASSUME NEW j \in DOMAIN ships', j \notin DOMAIN ships
                 PROVE  j - Len(ships) \in DOMAIN q /\ ships'[j] = q[j - Len(ships)]
      OBVIOUS
    <3>1. j \in Int /\ j > Len(ships) /\ j <= Len(ships) + Len(q)
      BY <2>1
    <3>2. PICK k : k = j - Len(ships)
      OBVIOUS
    <3>3. k \in 1 .. Len(q) /\ j = Len(ships) + k
      BY <2>1, <3>1, <3>2
    <3> QED BY <2>1, <3>2, <3>3
  <2>3. CountAllocs(n, {"SHIPPED"})' = CountAllocs(n, {"SHIPPED"})
    <3>1. Counted(n, {"SHIPPED"})' = Counted(n, {"SHIPPED"})
      BY <1>1, <1>2, <2>2 DEF Counted
    <3> QED BY <3>1 DEF CountAllocs, Counted
  <2>4. CASE n \notin S
    <3>1. Counted(n, Open)' = Counted(n, Open)
      BY <1>1, <1>2, <2>2, <2>4 DEF Counted
    <3>2. CountAllocs(n, Open)' = CountAllocs(n, Open)
      BY <3>1 DEF CountAllocs, Counted
    <3>3. allocated'[n] = allocated[n]
      BY <1>2, <2>4
    <3> QED BY <1>1, <1>4, <2>3, <3>2, <3>3 DEF Accounted
  <2>5. CASE n \in S
    <3>1. PICK k \in DOMAIN q : q[k].node = n /\ \A j \in DOMAIN q : q[j].node = n => j = k
      BY <1>2, <2>5
    <3>2. PICK i : i = Len(ships) + k
      OBVIOUS
    <3>3. i \in DOMAIN ships' /\ i \notin DOMAIN ships /\ ships'[i] = q[k]
      BY <2>1, <3>1, <3>2
    <3>4. \A j \in DOMAIN ships' \ DOMAIN ships : ships'[j].node = n => j = i
      BY <2>1, <2>2, <3>1, <3>2
    <3>5. PICK C : C = Counted(n, Open)
      OBVIOUS
    <3>6. Counted(n, Open)' = C \cup {i} /\ i \notin C
      BY <1>1, <1>2, <3>1, <3>3, <3>4, <3>5 DEF Counted, Open
    <3>7. IsFiniteSet(C) /\ CountAllocs(n, Open) = Cardinality(C)
          /\ CountAllocs(n, Open) \in Nat
      BY <3>5, CountedFinite
    <3>8. Cardinality(C \cup {i}) = Cardinality(C) + 1
      BY <3>6, <3>7, FS_AddElement
    <3>9. CountAllocs(n, Open)' = CountAllocs(n, Open) + 1
      BY <3>6, <3>7, <3>8 DEF CountAllocs, Counted
    <3>10. allocated'[n] = allocated[n] + 1
      BY <1>2, <2>5
    <3>11. scenario.others[n] \in Nat
      BY ScenarioNumbers
    <3> QED BY <1>1, <1>4, <2>3, <3>7, <3>9, <3>10, <3>11 DEF Accounted
  <2> QED BY <2>4, <2>5
<1> QED BY <1>3, <1>4

(* Every step accounts for the units it moves. *)
LEMMA NextAccounted ==
  ASSUME TypeInv, TypeInv', ScenarioInv, AllocationsAccounted, [Next]_vars
  PROVE  AllocationsAccounted' /\ ScenarioInv'
<1> DEFINE Kept == ScenarioInv' /\ \A n \in Nodes : Accounted(n)' \/ Mistaken(n)'
<1>1. \A n \in Nodes : Accounted(n) \/ Mistaken(n)
  BY AccountedDef
<1>2. ASSUME UNCHANGED vars PROVE Kept
  <2>1. UNCHANGED <<ships, onHand, allocated, scenario, stale>>
    BY <1>2 DEF vars
  <2>2. stock' = stock /\ stale \subseteq stale'
    BY <2>1 DEF stock
  <2> QED BY <1>1, <2>1, <2>2, AccountedKept, MistakenKept, SameAdvances
      DEF ScenarioInv
<1>3. ASSUME NEW w \in Workers, Elsewhere(w) PROVE Kept
  <2>1. UNCHANGED <<ships, stock, scenario>> /\ stale \subseteq stale'
    BY <1>3, ElsewhereKeeps
  <2> QED BY <1>1, <2>1, AccountedKept, MistakenKept, SameAdvances DEF ScenarioInv
<1>4. ASSUME NEW w \in Workers, CommitSourcing(w) PROVE Kept
  BY <1>1, <1>4, SourcingAccounted, SourcingEffect DEF ScenarioInv
<1>5. ASSUME NEW w \in Workers, DeallocateStep(w) PROVE Kept
  <2>1. PICK i \in DOMAIN ships : Deallocate(w, i)
    BY <1>5 DEF DeallocateStep
  <2>2. UNCHANGED scenario
    BY <2>1 DEF Deallocate
  <2> QED BY <1>1, <2>1, <2>2, DeallocateAccounted DEF ScenarioInv
<1>6. ASSUME NEW w \in Workers, CancelShipments(w) PROVE Kept
  <2>1. ShipmentsAdvance
    BY <1>6, StepAdvances
  <2>2. UNCHANGED <<stock, scenario>> /\ DOMAIN ships' = DOMAIN ships
    BY <1>6, CancelShipmentsEffect DEF history
  <2>3. \A i \in DOMAIN ships : /\ ships'[i].node = ships[i].node
                                /\ ships'[i].alloc = ships[i].alloc
    BY <1>6, CancelShipmentsEffect
  <2> QED BY <1>1, <2>1, <2>2, <2>3, AccountedKept, MistakenKept DEF ScenarioInv
<1>7. ASSUME NEW w \in Workers, Dispatch(w) \/ PickUpdate(w) \/ AdvanceStep(w)
      PROVE  Kept
  <2>1. UNCHANGED scenario
    BY <1>7, ShipmentEffect
  <2> QED BY <1>1, <1>7, <2>1, ShipmentAccounted DEF ScenarioInv
<1>8. ASSUME NEW w \in Workers, ShipStep(w) PROVE Kept
  <2>1. UNCHANGED scenario
    BY <1>8 DEF ShipStep, ShipOut
  <2> QED BY <1>1, <1>8, <2>1, ShipAccounted DEF ScenarioInv
<1> HIDE DEF Kept
<1>9. Kept
  BY <1>2, <1>3, <1>4, <1>5, <1>6, <1>7, <1>8, Steps
<1>10. AllocationsAccounted' <=> \A n \in Nodes : Accounted(n)' \/ Mistaken(n)'
  BY DEF AllocationsAccounted, Accounted, Mistaken, Open
<1> QED BY <1>9, <1>10 DEF Kept

(* They are at the start. *)
LEMMA InitAccounted == Init => AllocationsAccounted /\ ScenarioInv
<1> SUFFICES ASSUME Init PROVE AllocationsAccounted /\ ScenarioInv
  OBVIOUS
<1>1. ScenarioInv
  BY DEF Init, ScenarioInv
<1>2. \A n, A : CountAllocs(n, A) = 0
  <2>1. \A n, A : { i \in DOMAIN ships : ships[i].node = n /\ ships[i].alloc \in A } = {}
    BY DEF Init
  <2> QED BY <2>1, FS_EmptySet DEF CountAllocs
<1>3. ASSUME NEW n \in Nodes PROVE Accounted(n)
  <2>1. scenario.others[n] \in Nat /\ scenario.stock[n] \in Nat
    BY <1>1, ScenarioNumbers
  <2>2. CountAllocs(n, Open) = 0 /\ CountAllocs(n, {"SHIPPED"}) = 0
    BY <1>2
  <2> QED BY <2>1, <2>2 DEF Init, Accounted
<1> QED BY <1>1, <1>3, AccountedDef

(* AllocationsAccounted: however handlers overlap and whichever of them die, *)
(* a node's allocated units are those of other orders and this order's open  *)
(* allocations and its on-hand units fall by what was shipped, unless        *)
(* another handler had moved one of its allocations behind the back of the   *)
(* one that moved it again.                                                  *)
THEOREM UnitsAccounted == Spec => []AllocationsAccounted
<1> QED BY InitTyped, NextTyped, InitAccounted, NextAccounted, PTL DEF Spec

-----------------------------------------------------------------------------
(* The order never runs ahead of its slowest shipment. *)

(* A status was overwritten on an outdated read. *)
Drifted == Stale("status", 0) \/ \E i \in DOMAIN ships : Stale("shipment", i)

(* The stage a rollup has read is one the shipments have reached, and there *)
(* are some: an order that has shipments is not sourced again.              *)
Rolling(t) == t.at = "roll_order" \/ (t.at \in {"t_read", "t_write"} /\ t.then = "rollup")
RollStands(t) == Rolling(t) => ships # << >> /\ Reached(ChainIndex(t.last) - 2)
StatusReached == \A st \in Stages : status = st => Reached(ChainIndex(st) - 2)
RollInv ==
  Drifted \/ /\ StatusReached
             /\ status \in {"CREATED", "VALIDATED"} => ships = << >>
             /\ \A w \in Workers : RollStands(task[w])

(* A drift on record stays on record. *)
LEMMA DriftedKept ==
  ASSUME stale \subseteq stale', DOMAIN ships \subseteq DOMAIN ships', Drifted
  PROVE  Drifted'
BY DEF Drifted, Stale

(* An order without shipments has none that is active. *)
LEMMA NoShipments ==
  ASSUME NEW s \in Seq(Shipment)
  PROVE  s = << >> <=> DOMAIN s = {}
<1>1. Len(s) \in Nat /\ DOMAIN s = 1 .. Len(s)
  OBVIOUS
<1>2. CASE Len(s) = 0
  BY <1>1, <1>2
<1>3. CASE Len(s) > 0
  <2>1. 1 \in DOMAIN s
    BY <1>1, <1>3
  <2> QED BY <2>1
<1> QED BY <1>1, <1>2, <1>3

(* Shipments that advance take back no stage, unless one was overwritten. *)
LEMMA ReachedKept ==
  ASSUME TypeInv, TypeInv', ShipmentsAdvance, ~ Drifted', NEW r \in Int, Reached(r)
  PROVE  Reached(r)'
<1> SUFFICES ASSUME NEW i \in Active' PROVE SHIPMENT_RANK[ships'[i].status] >= r
  BY DEF Reached
<1>1. /\ i \in DOMAIN ships' /\ i \in DOMAIN ships
      /\ ships'[i].status # "CANCELLED" /\ Advances(i)
  BY DEF Active, ShipmentsAdvance
<1>2. ~ Stale("shipment", i)'
  BY <1>1 DEF Drifted
<1>3. \/ ships'[i].status = ships[i].status
      \/ /\ ships[i].status # "CANCELLED"
         /\ SHIPMENT_RANK[ships'[i].status] >= SHIPMENT_RANK[ships[i].status]
  BY <1>1, <1>2 DEF Advances
<1>4. i \in Active
  BY <1>1, <1>3 DEF Active
<1>5. SHIPMENT_RANK[ships[i].status] \in Int /\ SHIPMENT_RANK[ships'[i].status] \in Int
  <2>1. ships[i].status \in ShipmentStatus
    BY <1>1, ShipmentAt
  <2>2. ships'[i].status \in ShipmentStatus
    <3>1. ships'[i] \in Shipment
      BY <1>1 DEF TypeInv, Types
    <3> QED BY <3>1 DEF Shipment
  <2> QED BY <2>1, <2>2, Tables
<1>6. SHIPMENT_RANK[ships[i].status] >= r
  BY <1>4 DEF Reached
<1> QED BY <1>3, <1>5, <1>6

(* The rank a stage asks of the shipments is a number. *)
LEMMA StageNumber ==
  ASSUME NEW st \in Stages
  PROVE  ChainIndex(st) - 2 \in Int /\ st \in OrderStatus
BY Chain DEF Stages, OrderStatus

(* What a task has read of the shipments still stands. *)
LEMMA RollKept ==
  ASSUME TypeInv, TypeInv', ShipmentsAdvance, ~ Drifted', NEW t, Refers(t), RollStands(t)
  PROVE  RollStands(t)'
<1> SUFFICES ASSUME Rolling(t) PROVE (ships # << >> /\ Reached(ChainIndex(t.last) - 2))'
  BY DEF RollStands, Rolling
<1>1. ships # << >> /\ Reached(ChainIndex(t.last) - 2)
  BY DEF RollStands
<1>2. t.last \in Stages
  BY DEF Rolling, Refers, TransitionOf, Climbs
<1>3. Reached(ChainIndex(t.last) - 2)'
  BY <1>1, <1>2, StageNumber, ReachedKept
<1>4. ships' # << >>
  <2>1. DOMAIN ships # {} /\ DOMAIN ships' = DOMAIN ships
    BY <1>1, NoShipments DEF TypeInv, Types, ShipmentsAdvance
  <2> QED BY <2>1
<1> QED BY <1>3, <1>4

(* A step that leaves the status alone and makes no rollup go on. *)
LEMMA RollStep ==
  ASSUME TypeInv, TypeInv', ShipmentsAdvance, RollInv, ~ Drifted',
         NEW w \in Workers, NEW t, Become(w, t), RollStands(t)',
         StatusReached',
         status' \in {"CREATED", "VALIDATED"} => ships = << >>
  PROVE  RollInv'
<1>1. ~ Drifted
  BY DriftedKept DEF ShipmentsAdvance
<1>2. \A v \in Workers : RollStands(task[v]) /\ Refers(task[v])
  BY <1>1 DEF RollInv, TypeInv
<1>3. ASSUME NEW v \in Workers PROVE RollStands(task[v])'
  <2>1. CASE v = w
    BY <2>1, TaskStep
  <2>2. CASE v # w
    <3>1. PICK u : u = task[v]
      OBVIOUS
    <3>2. task'[v] = u /\ RollStands(u) /\ Refers(u)
      BY <1>2, <2>2, <3>1, TaskStep
    <3>3. RollStands(u)'
      BY <3>2, RollKept
    <3> QED BY <3>2, <3>3
  <2> QED BY <2>1, <2>2
<1>4. status' \in {"CREATED", "VALIDATED"} => ships' = << >>
  <2>1. ASSUME ships = << >> PROVE ships' = << >>
    <3>1. DOMAIN ships' = {} /\ ships' \in Seq(Shipment)
      BY <2>1 DEF ShipmentsAdvance, TypeInv, Types
    <3> QED BY <3>1
  <2> QED BY <2>1
<1> QED BY <1>3, <1>4 DEF RollInv

(* The same when the status stays and the task does not roll up. *)
LEMMA RollQuiet ==
  ASSUME TypeInv, TypeInv', ShipmentsAdvance, RollInv, ~ Drifted', status' = status,
         NEW w \in Workers, NEW t, Become(w, t),
         ~ Rolling(t) \/ RollStands(t)
  PROVE  RollInv'
<1>1. ~ Drifted
  BY DriftedKept DEF ShipmentsAdvance
<1>2. StatusReached'
  BY <1>1, StageNumber, ReachedKept DEF RollInv, StatusReached
<1>3. status' \in {"CREATED", "VALIDATED"} => ships = << >>
  BY <1>1 DEF RollInv
<1>4. RollStands(t)'
  <2>1. CASE ~ Rolling(t)
    BY <2>1 DEF RollStands, Rolling
  <2>2. CASE Rolling(t) /\ RollStands(t)
    <3>1. ships # << >> /\ Reached(ChainIndex(t.last) - 2)
      BY <2>2 DEF RollStands
    <3>2. Refers(t)'
      BY TaskStep DEF TypeInv
    <3>3. t.last \in Stages
      BY <2>2, <3>2 DEF Rolling, Refers, TransitionOf, Climbs
    <3>4. Reached(ChainIndex(t.last) - 2)'
      BY <3>1, <3>3, StageNumber, ReachedKept
    <3>5. DOMAIN ships # {} /\ DOMAIN ships' = DOMAIN ships
      BY <3>1, NoShipments DEF TypeInv, Types, ShipmentsAdvance
    <3>6. ships' # << >>
      BY <3>5
    <3> QED BY <3>4, <3>6 DEF RollStands
  <2> QED BY <2>1, <2>2
<1> QED BY <1>2, <1>3, <1>4, RollStep

(* Tasks that end, or go on at a label of no rollup. *)
LEMMA NotRolling ==
  ASSUME TypeInv, NEW w \in Workers
  PROVE  /\ ~ Rolling(Idle)
         /\ \A l : l \notin {"roll_order", "t_read", "t_write"} =>
              ~ Rolling([task[w] EXCEPT !.at = l])
<1>1. ~ Rolling(Idle)
  BY DEF Rolling, Idle
<1>2. \A l : [task[w] EXCEPT !.at = l].at = l
  BY DEF TypeInv, Types, Task
<1> QED BY <1>1, <1>2 DEF Rolling

(* A handler that ends keeps the rollup's invariant. *)
LEMMA RollEnds ==
  ASSUME TypeInv, TypeInv', ShipmentsAdvance, RollInv, ~ Drifted', status' = status,
         NEW w \in Workers, End(w)
  PROVE  RollInv'
BY NotRolling, RollQuiet DEF End

(* So does one that goes on where nothing is said of a rollup. *)
LEMMA RollGoes ==
  ASSUME TypeInv, TypeInv', ShipmentsAdvance, RollInv, ~ Drifted', status' = status,
         NEW w \in Workers, NEW l, l \notin {"roll_order", "t_read", "t_write"}, Go(w, l)
  PROVE  RollInv'
BY NotRolling, RollQuiet DEF Go

(* A call of transition by another handler than the rollup. *)
LEMMA RollCalls ==
  ASSUME TypeInv, TypeInv', ShipmentsAdvance, RollInv, ~ Drifted', status' = status,
         NEW w \in Workers, NEW to, NEW then, then # "rollup", CallTransition(w, to, then)
  PROVE  RollInv'
<1>1. PICK t : t = [task[w] EXCEPT !.at = "t_read", !.to = to, !.then = then]
  OBVIOUS
<1>2. t.at = "t_read" /\ t.then = then /\ Become(w, t)
  BY <1>1 DEF CallTransition, TypeInv, Types, Task
<1>3. ~ Rolling(t)
  BY <1>2 DEF Rolling
<1> QED BY <1>2, <1>3, RollQuiet

(* transition's write: the next stage of a rollup, or a status that says    *)
(* nothing of the shipments.                                                *)
LEMMA WriteStatusRolls ==
  ASSUME TypeInv, TypeInv', RollInv, ~ Drifted', NEW w \in Workers, WriteStatus(w)
  PROVE  RollInv'
<1>1. ShipmentsAdvance /\ ships' = ships
  BY StepAdvances, ElsewhereKeeps DEF Elsewhere
<1>2. ~ Drifted
  BY <1>1, DriftedKept DEF ShipmentsAdvance
<1>3. /\ StatusReached /\ RollStands(task[w])
      /\ status \in {"CREATED", "VALIDATED"} => ships = << >>
  BY <1>2 DEF RollInv
<1>4. PICK to, last, then : to = task[w].to /\ last = task[w].last /\ then = task[w].then
  OBVIOUS
<1>5. /\ status' = to /\ TransitionOf(task[w]) /\ task[w].at = "t_write"
      /\ status \in OrderStatus
  BY <1>4 DEF WriteStatus, SetStatus, At, TypeInv, Types, Refers
<1>6. to = status \/ canTransition(status, to)
  <2>1. Note("status", 0, to # status /\ ~ canTransition(status, to))
    BY <1>4 DEF WriteStatus, SetStatus
  <2>2. <<"status", 0>> \notin stale'
    BY DEF Drifted, Stale
  <2> QED BY <2>1, <2>2 DEF Note
<1>7. CASE then # "rollup"
  <2>1. to \in {"VALIDATED", "RELEASED", "CANCELLED"}
    BY <1>4, <1>5, <1>7 DEF TransitionOf
  <2>2. StatusReached'
    BY <1>5, <2>1 DEF StatusReached, Stages
  <2>3. to = "VALIDATED" => ships = << >>
    BY <1>3, <1>5, <1>6, Allowed DEF OrderStatus
  <2>4. status' \in {"CREATED", "VALIDATED"} => ships = << >>
    BY <1>5, <2>1, <2>3
  <2>5. End(w) \/ Go(w, "reverse")
    BY <1>4, <1>5, <1>7 DEF WriteStatus, TransitionOf
  <2>6. PICK t : Become(w, t) /\ ~ Rolling(t)
    BY <2>5, NotRolling DEF End, Go
  <2>7. RollStands(t)'
    BY <2>6 DEF RollStands, Rolling
  <2> QED BY <1>1, <2>2, <2>4, <2>6, <2>7, RollStep
<1>8. CASE then = "rollup"
  <2>1. /\ last \in Stages /\ to \in Stages \cup {"RELEASED"}
        /\ ChainIndex(to) <= ChainIndex(last)
    BY <1>4, <1>5, <1>8 DEF TransitionOf, Climbs
  <2>2. ships # << >> /\ Reached(ChainIndex(last) - 2)
    BY <1>3, <1>4, <1>5, <1>8 DEF RollStands, Rolling
  <2>3. ASSUME to \in Stages PROVE Reached(ChainIndex(to) - 2)
    <3>1. /\ ChainIndex(to) - 2 \in Int /\ ChainIndex(last) - 2 \in Int
          /\ ChainIndex(to) - 2 <= ChainIndex(last) - 2
      BY <2>1, <2>3, Chain DEF Stages
    <3> QED BY <2>2, <3>1, ReachedBefore
  <2>4. \A r : Reached(r)' <=> Reached(r)
    BY <1>1 DEF Reached, Active
  <2>5. StatusReached'
    BY <1>5, <2>3, <2>4 DEF StatusReached
  <2>6. status' \notin {"CREATED", "VALIDATED"}
    BY <1>5, <2>1 DEF Stages
  <2>7. \/ End(w) \/ Go(w, "capture")
        \/ CallTransition(w, NextInChain(task[w].to), "rollup")
    BY <1>4, <1>5, <1>8, <2>1 DEF WriteStatus
  <2>8. CASE End(w) \/ Go(w, "capture")
    <3>1. PICK t : Become(w, t) /\ ~ Rolling(t)
      BY <2>8, NotRolling DEF End, Go
    <3>2. RollStands(t)'
      BY <3>1 DEF RollStands, Rolling
    <3> QED BY <1>1, <2>5, <2>6, <3>1, <3>2, RollStep
  <2>9. CASE CallTransition(w, NextInChain(task[w].to), "rollup")
    <3>1. PICK n, t : t = [task[w] EXCEPT !.at = "t_read", !.to = n, !.then = "rollup"]
                      /\ n = NextInChain(task[w].to)
      OBVIOUS
    <3>2. Become(w, t) /\ t.last = last
      BY <1>4, <2>9, <3>1 DEF CallTransition, TypeInv, Types, Task
    <3>3. RollStands(t)'
      BY <1>1, <2>2, <2>4, <3>2 DEF RollStands
    <3> QED BY <1>1, <2>5, <2>6, <3>2, <3>3, RollStep
  <2> QED BY <2>7, <2>8, <2>9
<1> QED BY <1>7, <1>8

(* The two reads of rollupOrder. *)
LEMMA RollReads ==
  ASSUME TypeInv, TypeInv', RollInv, ~ Drifted', NEW w \in Workers,
         RollReadShipments(w) \/ RollReadOrder(w)
  PROVE  RollInv'
<1>1. ShipmentsAdvance /\ ships' = ships /\ status' = status
  BY StepAdvances, ElsewhereKeeps DEF Elsewhere, RollReadShipments, RollReadOrder
<1>2. CASE End(w)
  BY <1>1, <1>2, RollEnds
<1>3. CASE RollReadShipments(w) /\ ~ End(w)
  <2>1. PICK last, t : last = Target /\ t = [task[w] EXCEPT !.at = "roll_order", !.last = last]
    OBVIOUS
  <2>2. Become(w, t) /\ last # "none"
    BY <1>3, <2>1 DEF RollReadShipments
  <2>3. t.last = last /\ Reached(ChainIndex(last) - 2)
    BY <2>1, <2>2, TargetStage DEF TypeInv, Types, Task
  <2>4. ships # << >>
    <3>1. Active # {}
      BY <2>1, <2>2 DEF Target
    <3>2. DOMAIN ships # {}
      BY <3>1 DEF Active
    <3> QED BY <3>2
  <2>5. RollStands(t)
    BY <2>3, <2>4 DEF RollStands
  <2> QED BY <1>1, <2>2, <2>5, RollQuiet
<1>4. CASE RollReadOrder(w) /\ ~ End(w)
  <2>1. PICK n, t : t = [task[w] EXCEPT !.at = "t_read", !.to = n, !.then = "rollup"]
                    /\ n = NextInChain(status)
    OBVIOUS
  <2>2. Become(w, t) /\ t.last = task[w].last /\ task[w].at = "roll_order"
    BY <1>4, <2>1 DEF RollReadOrder, CallTransition, At, TypeInv, Types, Task
  <2>3. ~ Drifted
    BY <1>1, DriftedKept DEF ShipmentsAdvance
  <2>4. RollStands(task[w])
    BY <2>3 DEF RollInv
  <2>5. RollStands(t)
    BY <2>2, <2>4 DEF RollStands, Rolling
  <2> QED BY <1>1, <2>2, <2>5, RollQuiet
<1> QED BY <1>2, <1>3, <1>4

(* A sourcing finds an order without shipments, so no rollup is under way. *)
LEMMA SourcingRolls ==
  ASSUME TypeInv, TypeInv', RollInv, ~ Drifted', NEW w \in Workers, CommitSourcing(w)
  PROVE  RollInv'
<1>1. /\ status' = "ALLOCATED" /\ End(w) /\ status = "VALIDATED"
      /\ stale \subseteq stale' /\ DOMAIN ships \subseteq DOMAIN ships'
  BY SourcingEffect DEF Drifted
<1>2. ~ Drifted
  BY <1>1, DriftedKept
<1>3. ships = << >> /\ \A v \in Workers : RollStands(task[v])
  BY <1>1, <1>2 DEF RollInv
<1>4. \A v \in Workers : ~ Rolling(task[v])
  BY <1>3 DEF RollStands
<1>5. ASSUME NEW v \in Workers PROVE ~ Rolling(task'[v])
  BY <1>1, <1>4, NotRolling, TaskStep DEF End
<1>6. StatusReached' /\ status' \notin {"CREATED", "VALIDATED"}
  BY <1>1 DEF StatusReached, Stages
<1>7. \A v \in Workers : RollStands(task[v])'
  BY <1>5 DEF RollStands, Rolling
<1> QED BY <1>6, <1>7 DEF RollInv

(* Every other step that changes neither shipments nor status. *)
LEMMA ElsewhereRolls ==
  ASSUME TypeInv, TypeInv', RollInv, ~ Drifted', NEW w \in Workers, Elsewhere(w)
  PROVE  RollInv'
<1>1. ShipmentsAdvance /\ ships' = ships
  BY StepAdvances, ElsewhereKeeps
<1>2. ~ Drifted
  BY <1>1, DriftedKept DEF ShipmentsAdvance
<1>3. CASE ReadStatus(w)
  <2>1. status' = status
    BY <1>3 DEF ReadStatus
  <2>2. CASE End(w)
    BY <1>1, <2>1, <2>2, RollEnds
  <2>3. CASE Go(w, "t_write")
    <3>1. PICK t : t = [task[w] EXCEPT !.at = "t_write"]
      OBVIOUS
    <3>2. /\ Become(w, t) /\ t.at = "t_write" /\ t.then = task[w].then
          /\ t.last = task[w].last /\ task[w].at = "t_read"
      BY <1>3, <2>3, <3>1 DEF Go, ReadStatus, At, TypeInv, Types, Task
    <3>3. RollStands(task[w])
      BY <1>2 DEF RollInv
    <3>4. RollStands(t)
      BY <3>2, <3>3 DEF RollStands, Rolling
    <3> QED BY <1>1, <2>1, <3>2, <3>4, RollQuiet
  <2> QED BY <1>3, <2>2, <2>3 DEF ReadStatus
<1>4. CASE UpdateValidated(w) \/ Release(w)
  <2>1. /\ status' = status
        /\ \/ Go(w, "c_start") \/ CallTransition(w, "VALIDATED", "end")
           \/ CallTransition(w, "RELEASED", "end")
    BY <1>4 DEF UpdateValidated, Release
  <2> QED BY <1>1, <2>1, RollGoes, RollCalls
<1>5. CASE ReadAllocations(w)
  <2>1. PICK t, list :
          /\ list = { i \in DOMAIN ships : ships[i].alloc \in {"ALLOCATED", "PICKED"} }
          /\ t = [task[w] EXCEPT !.at = "c_dealloc", !.list = list]
    OBVIOUS
  <2>2. status' = status /\ Become(w, t)
    BY <1>5, <2>1 DEF ReadAllocations
  <2>3. t.at = "c_dealloc"
    BY <2>1 DEF TypeInv, Types, Task
  <2> QED BY <1>1, <2>2, <2>3, RollQuiet DEF Rolling
<1>6. CASE Quiet(w)
  <2>1. PICK t : status' = status /\ Become(w, t) /\ t.at \notin Guarded
    BY <1>6, QuietTask
  <2>2. ~ Rolling(t)
    BY <2>1 DEF Rolling, Guarded
  <2> QED BY <1>1, <2>1, <2>2, RollQuiet
<1>7. CASE WriteStatus(w)
  BY <1>7, WriteStatusRolls
<1>8. CASE RollReadShipments(w) \/ RollReadOrder(w)
  BY <1>8, RollReads
<1> QED BY <1>3, <1>4, <1>5, <1>6, <1>7, <1>8 DEF Elsewhere, Quiet

(* Every step keeps the order behind its shipments. *)
LEMMA NextRolls ==
  ASSUME TypeInv, TypeInv', RollInv, [Next]_vars
  PROVE  RollInv'
<1> SUFFICES ASSUME ~ Drifted' PROVE RollInv'
  BY DEF RollInv
<1>1. CASE UNCHANGED vars
  BY <1>1 DEF vars, RollInv, Drifted, Stale, StatusReached, Reached, Active, RollStands, Rolling
<1>2. ASSUME NEW w \in Workers, CommitSourcing(w) PROVE RollInv'
  BY <1>2, SourcingRolls
<1>3. ASSUME NEW w \in Workers, Elsewhere(w) PROVE RollInv'
  BY <1>3, ElsewhereRolls
<1>4. ASSUME NEW w \in Workers, DeallocateStep(w) PROVE RollInv'
  <2>1. PICK i \in DOMAIN ships : Deallocate(w, i)
    BY <1>4 DEF DeallocateStep
  <2>2. status' = status /\ ShipmentsAdvance
    BY <1>4, <2>1, StepAdvances DEF Deallocate
  <2>3. End(w) \/ Become(w, [task[w] EXCEPT !.list = @ \ {i}])
    BY <2>1 DEF Deallocate
  <2>4. PICK t : t = [task[w] EXCEPT !.list = @ \ {i}]
    OBVIOUS
  <2>5. t.at = "c_dealloc"
    BY <2>1, <2>4 DEF Deallocate, At, TypeInv, Types, Task
  <2> QED BY <2>2, <2>3, <2>4, <2>5, RollEnds, RollQuiet DEF Rolling
<1>5. ASSUME NEW w \in Workers, CancelShipments(w) PROVE RollInv'
  <2>1. status' = status /\ CallTransition(w, "CANCELLED", "reverse") /\ ShipmentsAdvance
    BY <1>5, StepAdvances DEF CancelShipments
  <2> QED BY <2>1, RollCalls
<1>6. ASSUME NEW w \in Workers, Dispatch(w) \/ PickUpdate(w) \/ AdvanceStep(w)
      PROVE  RollInv'
  <2>1. status' = status /\ (End(w) \/ Go(w, "roll")) /\ ShipmentsAdvance
    BY <1>6, ShipmentEffect, StepAdvances
  <2> QED BY <2>1, RollEnds, RollGoes
<1>7. ASSUME NEW w \in Workers, ShipStep(w) PROVE RollInv'
  <2>1. status' = status /\ ShipmentsAdvance
    BY <1>7, StepAdvances DEF ShipStep, ShipOut
  <2>2. End(w) \/ Become(w, [task[w] EXCEPT !.at = "roll", !.list = {}])
    BY <1>7 DEF ShipStep, ShipOut
  <2>3. PICK t : t = [task[w] EXCEPT !.at = "roll", !.list = {}]
    OBVIOUS
  <2>4. t.at = "roll"
    BY <2>3 DEF TypeInv, Types, Task
  <2> QED BY <2>1, <2>2, <2>3, <2>4, RollEnds, RollQuiet DEF Rolling
<1> QED BY <1>1, <1>2, <1>3, <1>4, <1>5, <1>6, <1>7, Steps

(* At first there is nothing to roll up. *)
LEMMA InitRolls == Init => RollInv
<1> SUFFICES ASSUME Init PROVE RollInv
  OBVIOUS
<1>1. \A w \in Workers : task[w].at = "idle"
  BY DEF Init, Idle
<1> QED BY <1>1 DEF Init, RollInv, StatusReached, Stages, RollStands, Rolling

(* RollupSound: however handlers overlap, the order stands at PICKED,        *)
(* SHIPPED or DELIVERED only when every shipment has got that far, unless a  *)
(* status was written over one that did not lead to it.                      *)
THEOREM RollupNeverAhead == Spec => []RollupSound
<1>1. RollInv => RollupSound
  BY DEF RollInv, RollupSound, StatusReached, Stages, Drifted
<1> QED BY <1>1, InitTyped, NextTyped, InitRolls, NextRolls, PTL DEF Spec

-----------------------------------------------------------------------------
(* A cancelled order holds nothing. *)

(* No allocation is open, and no shipment waits to be picked or handed over *)
(* but one that was made to behind the back of another handler.             *)
Freed ==
  \A i \in DOMAIN ships :
    /\ ships[i].alloc \notin Open
    /\ ships[i].status \in {"PENDING", "PICKED"} => Stale("shipment", i)

(* A cancel under way has the open allocations left to free; none is left   *)
(* when it comes to CANCELLED.                                              *)
Cancelling(t) == t.at \in {"t_read", "t_write"} /\ t.then = "reverse"
CancelStands(t) ==
  /\ t.at = "c_dealloc" => \A i \in DOMAIN ships : ships[i].alloc \in Open => i \in t.list
  /\ Cancelling(t) => Freed
CancelInv ==
  Stale("cancel", 0) \/ /\ status = "CANCELLED" => Freed
                        /\ \A w \in Workers : CancelStands(task[w])

(* What is freed stays freed but for a sourcing. *)
LEMMA FreedKept ==
  ASSUME ShipmentsAdvance, Freed
  PROVE  Freed'
BY DEF ShipmentsAdvance, Advances, Freed, Stale

(* So does what a cancel relies on. *)
LEMMA CancelKept ==
  ASSUME ShipmentsAdvance, NEW t, CancelStands(t)
  PROVE  CancelStands(t)'
<1>1. t.at = "c_dealloc" => \A i \in DOMAIN ships' : ships'[i].alloc \in Open => i \in t.list
  BY DEF CancelStands, ShipmentsAdvance, Advances
<1>2. Cancelling(t) => Freed'
  BY FreedKept DEF CancelStands
<1> QED BY <1>1, <1>2 DEF CancelStands, Cancelling

(* A step that goes on with what stands, and cancels only what is freed. *)
LEMMA CancelStep ==
  ASSUME TypeInv, ShipmentsAdvance, CancelInv, ~ Stale("cancel", 0)',
         NEW w \in Workers, NEW t, Become(w, t), CancelStands(t)',
         status' = "CANCELLED" => Freed \/ status = "CANCELLED"
  PROVE  CancelInv'
<1>1. ~ Stale("cancel", 0)
  BY DEF ShipmentsAdvance, Stale
<1>2. ASSUME NEW v \in Workers PROVE CancelStands(task[v])'
  <2>1. CASE v = w
    BY <2>1, TaskStep
  <2>2. CASE v # w
    <3>1. PICK u : u = task[v]
      OBVIOUS
    <3>2. task'[v] = u /\ CancelStands(u)
      BY <1>1, <2>2, <3>1, TaskStep DEF CancelInv
    <3>3. CancelStands(u)'
      BY <3>2, CancelKept
    <3> QED BY <3>2, <3>3
  <2> QED BY <2>1, <2>2
<1>3. status' = "CANCELLED" => Freed'
  BY <1>1, FreedKept DEF CancelInv
<1> QED BY <1>2, <1>3 DEF CancelInv

(* A task at a label that is none of a cancel's. *)
LEMMA PlainCancel ==
  ASSUME NEW t, t.at \notin {"c_dealloc", "t_read", "t_write"} \/
                (t.at \in {"t_read", "t_write"} /\ t.then # "reverse")
  PROVE  CancelStands(t)'
BY DEF CancelStands, Cancelling

(* A handler that ends, or goes on at a label that is none of a cancel's. *)
LEMMA CancelEnds ==
  ASSUME TypeInv, ShipmentsAdvance, CancelInv, ~ Stale("cancel", 0)',
         NEW w \in Workers, NEW l, l \notin {"c_dealloc", "t_read", "t_write"},
         End(w) \/ Go(w, l),
         status' = "CANCELLED" => Freed \/ status = "CANCELLED"
  PROVE  CancelInv'
<1>1. PICK i : i = Idle /\ i.at = "idle"
  BY IdleTyped
<1>2. PICK t : t = [task[w] EXCEPT !.at = l]
  OBVIOUS
<1>3. t.at = l
  BY <1>2 DEF TypeInv, Types, Task
<1>4. Become(w, i) \/ Become(w, t)
  BY <1>1, <1>2 DEF End, Go
<1>5. CASE Become(w, i)
  BY <1>1, <1>5, PlainCancel, CancelStep
<1>6. CASE Become(w, t)
  BY <1>3, <1>6, PlainCancel, CancelStep
<1> QED BY <1>4, <1>5, <1>6

(* A call of transition: a cancel makes one when everything is freed. *)
LEMMA CancelCalls ==
  ASSUME TypeInv, ShipmentsAdvance, CancelInv, ~ Stale("cancel", 0)',
         NEW w \in Workers, NEW to, NEW then, CallTransition(w, to, then),
         then # "reverse" \/ Freed',
         status' = "CANCELLED" => Freed \/ status = "CANCELLED"
  PROVE  CancelInv'
<1>1. PICK t : t = [task[w] EXCEPT !.at = "t_read", !.to = to, !.then = then]
  OBVIOUS
<1>2. t.at = "t_read" /\ t.then = then /\ Become(w, t)
  BY <1>1 DEF CallTransition, TypeInv, Types, Task
<1>3. CancelStands(t)'
  BY <1>2 DEF CancelStands, Cancelling
<1> QED BY <1>2, <1>3, CancelStep

(* A sourcing: no cancel is freeing what the order held before. *)
LEMMA SourcingCancel ==
  ASSUME TypeInv, CancelInv, ~ Stale("cancel", 0)', NEW w \in Workers, CommitSourcing(w)
  PROVE  CancelInv'
<1>1. status' = "ALLOCATED" /\ End(w) /\ ~ CancelUnderWay
  BY SourcingEffect
<1>2. ASSUME NEW v \in Workers
      PROVE  task[v].at # "c_dealloc" /\ ~ Cancelling(task[v])
  <2>1. task[v].at # "c_dealloc"
    BY <1>1 DEF CancelUnderWay, At
  <2>2. ASSUME Cancelling(task[v]) PROVE FALSE
    <3>1. task[v].to = "CANCELLED"
      BY <2>2 DEF Cancelling, TypeInv, Refers, TransitionOf
    <3> QED BY <1>1, <2>2, <3>1 DEF CancelUnderWay, Cancelling
  <2> QED BY <2>1, <2>2
<1>3. ASSUME NEW v \in Workers PROVE CancelStands(task[v])'
  <2>1. PICK i : i = Idle /\ i.at = "idle" /\ Become(w, i)
    BY <1>1, IdleTyped DEF End
  <2>2. task'[v] = task[v] \/ task'[v] = i
    BY <2>1, TaskStep
  <2>3. task'[v].at # "c_dealloc" /\ ~ Cancelling(task'[v])
    BY <1>2, <2>1, <2>2 DEF Cancelling
  <2> QED BY <2>3 DEF CancelStands, Cancelling
<1> QED BY <1>1, <1>3 DEF CancelInv

(* The steps that change neither shipments nor stock. *)
LEMMA ElsewhereCancel ==
  ASSUME TypeInv, CancelInv, ~ Stale("cancel", 0)', NEW w \in Workers, Elsewhere(w)
  PROVE  CancelInv'
<1>1. ShipmentsAdvance /\ ships' = ships
  BY StepAdvances, ElsewhereKeeps
<1>2. ~ Stale("cancel", 0)
  BY <1>1 DEF ShipmentsAdvance, Stale
<1>3. CancelStands(task[w]) /\ Refers(task[w])
  BY <1>2 DEF CancelInv, TypeInv
<1>4. CASE ReadStatus(w)
  <2>1. status' = status
    BY <1>4 DEF ReadStatus
  <2>2. CASE End(w)
    BY <1>1, <2>1, <2>2, CancelEnds
  <2>3. CASE Go(w, "t_write")
    <3>1. PICK t : t = [task[w] EXCEPT !.at = "t_write"]
      OBVIOUS
    <3>2. /\ Become(w, t) /\ t.at = "t_write" /\ t.then = task[w].then
          /\ task[w].at = "t_read"
      BY <1>4, <2>3, <3>1 DEF Go, ReadStatus, At, TypeInv, Types, Task
    <3>3. CancelStands(t)
      BY <1>3, <3>2 DEF CancelStands, Cancelling
    <3>4. CancelStands(t)'
      BY <1>1, <3>3, CancelKept
    <3> QED BY <1>1, <2>1, <3>2, <3>4, CancelStep
  <2> QED BY <1>4, <2>2, <2>3 DEF ReadStatus
<1>5. CASE WriteStatus(w)
  <2>1. status' = task[w].to /\ TransitionOf(task[w]) /\ task[w].at = "t_write"
    BY <1>3, <1>5 DEF WriteStatus, SetStatus, At, Refers
  <2>2. status' = "CANCELLED" => Freed
    BY <1>3, <2>1 DEF TransitionOf, Climbs, Stages, CancelStands, Cancelling
  <2>3. \/ End(w) \/ Go(w, "reverse") \/ Go(w, "capture")
        \/ CallTransition(w, NextInChain(task[w].to), "rollup")
    BY <1>5, <2>1 DEF WriteStatus, TransitionOf
  <2>4. CASE End(w) \/ Go(w, "reverse") \/ Go(w, "capture")
    BY <1>1, <2>2, <2>4, CancelEnds
  <2>5. CASE CallTransition(w, NextInChain(task[w].to), "rollup")
    <3>1. PICK n : CallTransition(w, n, "rollup")
      BY <2>5
    <3> QED BY <1>1, <2>2, <3>1, CancelCalls
  <2> QED BY <2>3, <2>4, <2>5
<1>6. CASE UpdateValidated(w) \/ Release(w)
  <2>1. status' = status
    BY <1>6 DEF UpdateValidated, Release
  <2>2. CASE Go(w, "c_start")
    BY <1>1, <2>1, <2>2, CancelEnds
  <2>3. CASE CallTransition(w, "VALIDATED", "end") \/ CallTransition(w, "RELEASED", "end")
    BY <1>1, <2>1, <2>3, CancelCalls
  <2> QED BY <1>6, <2>2, <2>3 DEF UpdateValidated, Release
<1>7. CASE ReadAllocations(w)
  <2>1. PICK t, list :
          /\ list = { i \in DOMAIN ships : ships[i].alloc \in {"ALLOCATED", "PICKED"} }
          /\ t = [task[w] EXCEPT !.at = "c_dealloc", !.list = list]
    OBVIOUS
  <2>2. status' = status /\ Become(w, t)
    BY <1>7, <2>1 DEF ReadAllocations
  <2>3. t.at = "c_dealloc" /\ t.list = list
    BY <2>1 DEF TypeInv, Types, Task
  <2>4. CancelStands(t)
    BY <2>1, <2>3 DEF CancelStands, Cancelling, Open
  <2>5. CancelStands(t)'
    BY <1>1, <2>4, CancelKept
  <2> QED BY <1>1, <2>2, <2>5, CancelStep
<1>8. CASE Quiet(w)
  <2>1. PICK t : status' = status /\ Become(w, t) /\ t.at \notin Guarded
    BY <1>8, QuietTask
  <2>2. CancelStands(t)'
    BY <2>1, PlainCancel DEF Guarded
  <2> QED BY <1>1, <2>1, <2>2, CancelStep
<1>9. CASE RollReadShipments(w)
  <2>1. status' = status
    BY <1>9 DEF RollReadShipments
  <2>2. CASE End(w)
    BY <1>1, <2>1, <2>2, CancelEnds
  <2>3. CASE ~ End(w)
    <3>1. PICK t : t = [task[w] EXCEPT !.at = "roll_order", !.last = Target]
      OBVIOUS
    <3>2. Become(w, t) /\ t.at = "roll_order"
      BY <1>9, <2>3, <3>1 DEF RollReadShipments, TypeInv, Types, Task
    <3> QED BY <1>1, <2>1, <3>2, PlainCancel, CancelStep
  <2> QED BY <2>2, <2>3
<1>10. CASE RollReadOrder(w)
  <2>1. status' = status
    BY <1>10 DEF RollReadOrder
  <2>2. CASE End(w)
    BY <1>1, <2>1, <2>2, CancelEnds
  <2>3. CASE ~ End(w)
    <3>1. PICK n : CallTransition(w, n, "rollup")
      BY <1>10, <2>3 DEF RollReadOrder
    <3> QED BY <1>1, <2>1, <3>1, CancelCalls
  <2> QED BY <2>2, <2>3
<1> QED BY <1>4, <1>5, <1>6, <1>7, <1>8, <1>9, <1>10 DEF Elsewhere, Quiet

(* One DEALLOCATE: what it freed is left to do no more. *)
LEMMA DeallocateCancel ==
  ASSUME TypeInv, CancelInv, ~ Stale("cancel", 0)', NEW w \in Workers,
         NEW i \in DOMAIN ships, Deallocate(w, i)
  PROVE  CancelInv'
<1>1. ShipmentsAdvance
  BY StepAdvances DEF DeallocateStep
<1>2. ~ Stale("cancel", 0)
  BY <1>1 DEF ShipmentsAdvance, Stale
<1>3. CancelStands(task[w]) /\ status' = status /\ task[w].at = "c_dealloc"
  BY <1>2 DEF CancelInv, Deallocate, At
<1>4. PICK x : x = [ships[i] EXCEPT !.alloc = "CANCELLED"]
  OBVIOUS
<1>5. /\ x.alloc = "CANCELLED"
      /\ \/ Replaced(i, x) /\ Become(w, [task[w] EXCEPT !.list = @ \ {i}])
         \/ End(w)
  BY <1>4, DeallocateEffect
<1>6. CASE End(w)
  BY <1>1, <1>3, <1>6, CancelEnds
<1>7. CASE Replaced(i, x) /\ Become(w, [task[w] EXCEPT !.list = @ \ {i}])
  <2>1. PICK t : t = [task[w] EXCEPT !.list = @ \ {i}]
    OBVIOUS
  <2>2. Become(w, t) /\ t.at = "c_dealloc" /\ t.list = task[w].list \ {i}
    BY <1>3, <1>7, <2>1 DEF TypeInv, Types, Task
  <2>3. ships'[i].alloc = "CANCELLED" /\ DOMAIN ships' = DOMAIN ships
    BY <1>5, <1>7, ShipmentsTyped DEF Replaced
  <2>4. \A j \in DOMAIN ships : ships'[j].alloc \in Open => ships[j].alloc \in Open
    BY <1>1 DEF ShipmentsAdvance, Advances
  <2>5. CancelStands(t)'
    BY <1>3, <2>2, <2>3, <2>4 DEF CancelStands, Cancelling, Open
  <2> QED BY <1>1, <1>3, <2>2, <2>5, CancelStep
<1> QED BY <1>5, <1>6, <1>7

(* Every step keeps a cancelled order free. *)
LEMMA NextCancel ==
  ASSUME TypeInv, CancelInv, [Next]_vars
  PROVE  CancelInv'
<1> SUFFICES ASSUME ~ Stale("cancel", 0)' PROVE CancelInv'
  BY DEF CancelInv
<1>1. CASE UNCHANGED vars
  BY <1>1 DEF vars, CancelInv, Stale, Freed, CancelStands, Cancelling
<1>2. ASSUME NEW w \in Workers, CommitSourcing(w) PROVE CancelInv'
  BY <1>2, SourcingCancel
<1>3. ASSUME NEW w \in Workers, Elsewhere(w) PROVE CancelInv'
  BY <1>3, ElsewhereCancel
<1>4. ASSUME NEW w \in Workers, DeallocateStep(w) PROVE CancelInv'
  BY <1>4, DeallocateCancel DEF DeallocateStep
<1>5. ASSUME NEW w \in Workers, CancelShipments(w) PROVE CancelInv'
  <2>1. /\ status' = status /\ CallTransition(w, "CANCELLED", "reverse")
        /\ task[w].at = "c_dealloc" /\ task[w].list = {}
    BY <1>5 DEF CancelShipments, At
  <2>2. ShipmentsAdvance
    BY <1>5, StepAdvances
  <2>3. CancelStands(task[w])
    BY <2>2 DEF ShipmentsAdvance, Stale, CancelInv
  <2>4. \A i \in DOMAIN ships : ships[i].alloc \notin Open
    BY <2>1, <2>3 DEF CancelStands
  <2>5. Freed'
    BY <1>5, <2>4, CancelShipmentsEffect DEF Freed
  <2> QED BY <2>1, <2>2, <2>5, CancelCalls
<1>6. ASSUME NEW w \in Workers, Dispatch(w) \/ PickUpdate(w) \/ AdvanceStep(w)
      PROVE  CancelInv'
  <2>1. status' = status /\ (End(w) \/ Go(w, "roll")) /\ ShipmentsAdvance
    BY <1>6, ShipmentEffect, StepAdvances
  <2> QED BY <2>1, CancelEnds
<1>7. ASSUME NEW w \in Workers, ShipStep(w) PROVE CancelInv'
  <2>1. status' = status /\ ShipmentsAdvance
    BY <1>7, StepAdvances DEF ShipStep, ShipOut
  <2>2. End(w) \/ Become(w, [task[w] EXCEPT !.at = "roll", !.list = {}])
    BY <1>7 DEF ShipStep, ShipOut
  <2>3. PICK t : t = [task[w] EXCEPT !.at = "roll", !.list = {}]
    OBVIOUS
  <2>4. t.at = "roll"
    BY <2>3 DEF TypeInv, Types, Task
  <2>5. CASE End(w)
    BY <2>1, <2>5, CancelEnds
  <2> QED BY <2>1, <2>2, <2>3, <2>4, <2>5, PlainCancel, CancelStep
<1> QED BY <1>1, <1>2, <1>3, <1>4, <1>5, <1>6, <1>7, Steps

(* At first nothing is cancelled. *)
LEMMA InitCancel == Init => CancelInv
<1> SUFFICES ASSUME Init PROVE CancelInv
  OBVIOUS
<1>1. \A w \in Workers : task[w].at = "idle"
  BY DEF Init, Idle
<1> QED BY <1>1 DEF Init, CancelInv, CancelStands, Cancelling

(* CancelFreesStock: however handlers overlap and whichever of them die, a   *)
(* CANCELLED order holds no allocation and has no shipment to pick or hand   *)
(* over, unless it was sourced behind the cancel's back or that shipment was *)
(* written over on an outdated read.                                         *)
THEOREM CancelledHoldsNothing == Spec => []CancelFreesStock
<1>1. CancelInv => CancelFreesStock
  BY DEF CancelInv, CancelFreesStock, Freed, Open
<1> QED BY <1>1, InitTyped, NextTyped, InitCancel, NextCancel, PTL DEF Spec

-----------------------------------------------------------------------------
(* The payment record is true. *)

Handed == {"SHIPPED", "DELIVERED", "RETURNED"}

(* The order has been handed over, and stays so while no status is           *)
(* overwritten by one it did not lead to.                                    *)
Late == status \in Handed \/ Stale("status", 0)

(* A charge that was captured, and one that was given back. *)
Took(k) == k # 0 /\ (gateway[k] = "captured" \/ (gateway[k] = "refunded" /\ Stale("status", 0)))
GaveBack(k, pay) ==
  k # 0 /\ gateway[k] = IF pay = "AUTHORIZED" THEN "voided" ELSE "refunded"

PayRecord ==
  /\ payStatus = "CAPTURED" => Took(payRef) /\ Late
  /\ payStatus = "REFUNDED" => GaveBack(payRef, "CAPTURED")
  /\ payStatus = "VOIDED" => GaveBack(payRef, "AUTHORIZED")

(* Money is taken only for an order handed over, so a cancel that reads it   *)
(* as taken reaches the gateway only where the order's status was moved back *)
(* from there.                                                               *)
BeforeCancelled(t) == t.at \in {"c_allocs", "c_dealloc"} \/ Cancelling(t)
PayStands(t) ==
  /\ t.at = "cap_update" => Took(t.ref)
  /\ t.at = "rev_update" => GaveBack(t.ref, t.pay)
  /\ t.at \in {"capture", "cap_call", "cap_update"} => Late
  /\ BeforeCancelled(t) /\ t.pay = "CAPTURED" => Late
  /\ t.at = "reverse" /\ t.pay = "CAPTURED" => Stale("status", 0)
PayInv ==
  Stale("payment", 0) \/ (PayRecord /\ \A w \in Workers : PayStands(task[w]))

(* The labels of which PayStands says something. *)
PayLabels == {"c_allocs", "c_dealloc", "t_read", "t_write", "reverse", "rev_update",
              "capture", "cap_call", "cap_update"}

(* A charge moves only forward, and a captured one only where a status has   *)
(* been overwritten.                                                         *)
ChargeAdvances(k) ==
  \/ gateway'[k] = gateway[k] \/ gateway[k] = "authorized"
  \/ gateway[k] = "captured" /\ gateway'[k] = "refunded" /\ Stale("status", 0)'
PayAdvances ==
  /\ stale \subseteq stale' /\ (Late => Late')
  /\ \A k \in 1 .. Len(gateway) : ChargeAdvances(k)

(* What the gateway has done stays done. *)
LEMMA ChargeKept ==
  ASSUME TypeInv, PayAdvances, NEW k \in 0 .. Len(gateway)
  PROVE  /\ Took(k) => Took(k)'
         /\ \A pay : GaveBack(k, pay) => GaveBack(k, pay)'
<1>1. CASE k = 0
  BY <1>1 DEF Took, GaveBack
<1>2. CASE k # 0
  <2>1. k \in 1 .. Len(gateway)
    BY <1>2 DEF TypeInv, Types
  <2>2. ChargeAdvances(k) /\ stale \subseteq stale'
    BY <2>1 DEF PayAdvances
  <2> QED BY <2>2 DEF ChargeAdvances, Took, GaveBack, Stale
<1> QED BY <1>1, <1>2

(* What a handler relies on of the payment stays so. *)
LEMMA PayKept ==
  ASSUME TypeInv, PayAdvances, NEW t, t.ref \in 0 .. Len(gateway), PayStands(t)
  PROVE  PayStands(t)'
<1>1. PICK k, pay : k = t.ref /\ pay = t.pay
  OBVIOUS
<1>2. (Took(k) => Took(k)') /\ (GaveBack(k, pay) => GaveBack(k, pay)')
  BY <1>1, ChargeKept
<1>3. t.at = "cap_update" => Took(t.ref)'
  BY <1>1, <1>2 DEF PayStands
<1>4. t.at = "rev_update" => GaveBack(t.ref, t.pay)'
  BY <1>1, <1>2 DEF PayStands
<1>5. (Late => Late') /\ (Stale("status", 0) => Stale("status", 0)')
  BY DEF PayAdvances, Stale
<1> QED BY <1>3, <1>4, <1>5 DEF PayStands, BeforeCancelled, Cancelling

(* So does the order's record while no one writes it. *)
LEMMA RecordKept ==
  ASSUME TypeInv, PayAdvances, PayRecord, UNCHANGED <<payStatus, payRef>>
  PROVE  PayRecord'
<1>1. PICK k \in 0 .. Len(gateway) : k = payRef /\ k = payRef'
  BY DEF TypeInv, Types
<1>2. /\ Took(k) => Took(k)'
      /\ GaveBack(k, "CAPTURED") => GaveBack(k, "CAPTURED")'
      /\ GaveBack(k, "AUTHORIZED") => GaveBack(k, "AUTHORIZED")'
  BY ChargeKept
<1>3. Late => Late'
  BY DEF PayAdvances
<1>4. /\ payStatus = "CAPTURED" => Took(k) /\ Late
      /\ payStatus = "REFUNDED" => GaveBack(k, "CAPTURED")
      /\ payStatus = "VOIDED" => GaveBack(k, "AUTHORIZED")
  BY <1>1 DEF PayRecord
<1>5. payStatus' = payStatus
  OBVIOUS
<1>6. payStatus' = "CAPTURED" => Took(payRef)' /\ Late'
  BY <1>1, <1>2, <1>3, <1>4, <1>5 DEF Took
<1>7. payStatus' = "REFUNDED" => GaveBack(payRef, "CAPTURED")'
  BY <1>1, <1>2, <1>4, <1>5 DEF GaveBack
<1>8. payStatus' = "VOIDED" => GaveBack(payRef, "AUTHORIZED")'
  BY <1>1, <1>2, <1>4, <1>5 DEF GaveBack
<1> QED BY <1>6, <1>7, <1>8 DEF PayRecord

(* A step that goes on with what stands. *)
LEMMA PayStep ==
  ASSUME TypeInv, PayInv, ~ Stale("payment", 0)', PayAdvances, PayRecord',
         NEW w \in Workers, NEW t, Become(w, t), PayStands(t)'
  PROVE  PayInv'
<1>1. ~ Stale("payment", 0)
  BY DEF PayAdvances, Stale
<1>2. ASSUME NEW v \in Workers PROVE PayStands(task[v])'
  <2>1. CASE v = w
    BY <2>1, TaskStep
  <2>2. CASE v # w
    <3>1. PICK u : u = task[v]
      OBVIOUS
    <3>2. task'[v] = u /\ PayStands(u) /\ u.ref \in 0 .. Len(gateway)
      BY <1>1, <2>2, <3>1, TaskStep DEF PayInv, TypeInv, Refers
    <3>3. PayStands(u)'
      BY <3>2, PayKept
    <3> QED BY <3>2, <3>3
  <2> QED BY <2>1, <2>2
<1> QED BY <1>2 DEF PayInv

(* A task of which it says nothing. *)
LEMMA PlainPay ==
  ASSUME NEW t, t.at \notin PayLabels \/ (t.at \in {"t_read", "t_write"} /\ t.then # "reverse")
  PROVE  PayStands(t)'
BY DEF PayStands, PayLabels, BeforeCancelled, Cancelling

(* The record and the present task hold while nothing is left on a payment  *)
(* that another has replaced.                                               *)
LEMMA PayHolds ==
  ASSUME PayInv, stale \subseteq stale', ~ Stale("payment", 0)'
  PROVE  PayRecord /\ \A w \in Workers : PayStands(task[w])
BY DEF PayInv, Stale

(* A handler that ends or goes on where nothing is said of the payment. *)
LEMMA PayEnds ==
  ASSUME TypeInv, PayInv, ~ Stale("payment", 0)', PayAdvances,
         UNCHANGED <<payStatus, payRef>>,
         NEW w \in Workers, NEW l, l \notin PayLabels, End(w) \/ Go(w, l)
  PROVE  PayInv'
<1>1. PICK i : i = Idle /\ i.at = "idle"
  BY IdleTyped
<1>2. PICK t : t = [task[w] EXCEPT !.at = l]
  OBVIOUS
<1>3. t.at = l
  BY <1>2 DEF TypeInv, Types, Task
<1>4. PayRecord'
  BY RecordKept, PayHolds DEF PayAdvances
<1>5. Become(w, i) \/ Become(w, t)
  BY <1>1, <1>2 DEF End, Go
<1>6. "idle" \notin PayLabels
  BY DEF PayLabels
<1>7. CASE Become(w, i)
  BY <1>1, <1>4, <1>6, <1>7, PlainPay, PayStep
<1>8. CASE Become(w, t)
  BY <1>3, <1>4, <1>8, PlainPay, PayStep
<1> QED BY <1>5, <1>7, <1>8

(* A call of transition by another handler than a cancel. *)
LEMMA PayCalls ==
  ASSUME TypeInv, PayInv, ~ Stale("payment", 0)', PayAdvances, PayRecord',
         NEW w \in Workers, NEW to, NEW then, CallTransition(w, to, then),
         then # "reverse"
  PROVE  PayInv'
<1>1. PICK t : t = [task[w] EXCEPT !.at = "t_read", !.to = to, !.then = then]
  OBVIOUS
<1>2. t.at = "t_read" /\ t.then = then /\ Become(w, t)
  BY <1>1 DEF CallTransition, TypeInv, Types, Task
<1> QED BY <1>2, PlainPay, PayStep

-----------------------------------------------------------------------------
(* The steps that leave the charges alone. *)

(* An order handed over is not sourced or moved back unnoticed. *)
LEMMA LateKept ==
  ASSUME TypeInv, stale \subseteq stale', NEW to \in OrderStatus, SetStatus(to)
  PROVE  Late => Late'
<1>1. status \in OrderStatus
  BY DEF TypeInv, Types
<1>2. to = status \/ canTransition(status, to) \/ Stale("status", 0)'
  BY DEF SetStatus, Note, Stale
<1>3. CASE canTransition(status, to) /\ status \in Handed
  BY <1>1, <1>3, Allowed DEF SetStatus, Handed, Late
<1> QED BY <1>2, <1>3 DEF Late, SetStatus, Stale

(* Nothing but the tasks and the history changes. *)
LEMMA SamePay ==
  ASSUME stale \subseteq stale', UNCHANGED <<status, gateway>>
  PROVE  PayAdvances
BY DEF PayAdvances, Late, Stale, ChargeAdvances

(* transition's write. *)
LEMMA WriteStatusPay ==
  ASSUME TypeInv, PayInv, ~ Stale("payment", 0)', NEW w \in Workers, WriteStatus(w)
  PROVE  PayInv'
<1>1. /\ SetStatus(task[w].to) /\ UNCHANGED payment /\ task[w].at = "t_write"
      /\ stale \subseteq stale' /\ TransitionOf(task[w])
  BY DEF WriteStatus, At, SetStatus, Note, TypeInv, Refers
<1>2. task[w].to \in OrderStatus
  BY <1>1 DEF TransitionOf, Climbs, Stages, OrderStatus
<1>3. PICK to \in OrderStatus : to = task[w].to
  BY <1>2
<1>4. PayAdvances
  <2>1. Late => Late'
    BY <1>1, <1>3, LateKept
  <2> QED BY <1>1, <2>1 DEF PayAdvances, ChargeAdvances, payment
<1>5. PayRecord' /\ PayStands(task[w]) /\ UNCHANGED <<payStatus, payRef>>
  BY <1>1, <1>4, PayHolds, RecordKept DEF payment
<1>6. \/ End(w) \/ (Go(w, "reverse") /\ task[w].then = "reverse")
      \/ (Go(w, "capture") /\ task[w].to \in {"SHIPPED", "DELIVERED"})
      \/ CallTransition(w, NextInChain(task[w].to), "rollup")
  BY <1>1 DEF WriteStatus, TransitionOf
<1>7. CASE End(w)
  <2>1. "idle" \notin PayLabels
    BY DEF PayLabels
  <2> QED BY <1>4, <1>5, <1>7, <2>1, PayEnds
<1>8. CASE Go(w, "reverse") /\ task[w].then = "reverse"
  <2>1. PICK t : t = [task[w] EXCEPT !.at = "reverse"]
    OBVIOUS
  <2>2. t.at = "reverse" /\ t.pay = task[w].pay /\ Become(w, t)
    BY <1>8, <2>1 DEF Go, TypeInv, Types, Task
  <2>3. to = "CANCELLED"
    BY <1>1, <1>3, <1>8 DEF TransitionOf
  <2>4. ASSUME t.pay = "CAPTURED" PROVE Stale("status", 0)'
    <3>1. Late
      BY <1>1, <1>5, <1>8, <2>2, <2>4 DEF PayStands, BeforeCancelled, Cancelling
    <3>2. status \in Handed => ~ canTransition(status, "CANCELLED") /\ status # "CANCELLED"
      BY Allowed DEF Handed, OrderStatus
    <3> QED BY <1>1, <1>3, <2>3, <3>1, <3>2 DEF Late, SetStatus, Note, Stale
  <2>5. PayStands(t)'
    BY <2>2, <2>4 DEF PayStands, BeforeCancelled, Cancelling
  <2> QED BY <1>4, <1>5, <2>2, <2>5, PayStep
<1>9. CASE Go(w, "capture") /\ task[w].to \in {"SHIPPED", "DELIVERED"}
  <2>1. PICK t : t = [task[w] EXCEPT !.at = "capture"]
    OBVIOUS
  <2>2. t.at = "capture" /\ Become(w, t)
    BY <1>9, <2>1 DEF Go, TypeInv, Types, Task
  <2>3. Late'
    BY <1>1, <1>9 DEF Late, SetStatus, Handed
  <2>4. PayStands(t)'
    BY <2>2, <2>3 DEF PayStands, BeforeCancelled, Cancelling
  <2> QED BY <1>4, <1>5, <2>2, <2>4, PayStep
<1>10. CASE CallTransition(w, NextInChain(task[w].to), "rollup")
  <2>1. PICK n : CallTransition(w, n, "rollup")
    BY <1>10
  <2> QED BY <1>4, <1>5, <2>1, PayCalls
<1> QED BY <1>6, <1>7, <1>8, <1>9, <1>10

-----------------------------------------------------------------------------
(* The steps of the payment. *)

(* A call of the gateway: what it was asked for is done when the handler    *)
(* goes on.                                                                 *)
LEMMA GatewayPay ==
  ASSUME TypeInv, PayInv, ~ Stale("payment", 0)', NEW w \in Workers,
         NEW k \in 0 .. Len(gateway), NEW from, NEW to, NEW next,
         GatewayCall(w, k, from, to, next),
         UNCHANGED <<status, payStatus, payRef, history>>,
         \/ from = "authorized" /\ to = "captured" /\ next = "cap_update" /\ Late
         \/ /\ from = "authorized" /\ to = "voided" /\ next = "rev_update"
            /\ task[w].pay = "AUTHORIZED"
         \/ /\ from = "captured" /\ to = "refunded" /\ next = "rev_update"
            /\ task[w].pay = "CAPTURED" /\ Stale("status", 0)
  PROVE  PayInv'
<1>1. /\ \/ gateway' = gateway
         \/ k # 0 /\ gateway[k] = from /\ gateway' = [gateway EXCEPT ![k] = to]
      /\ stale' = stale /\ status' = status
  BY DEF GatewayCall, history
<1>2. PayAdvances
  <2>1. \A j \in 1 .. Len(gateway) : ChargeAdvances(j)
    BY <1>1 DEF ChargeAdvances, Stale, TypeInv, Types
  <2> QED BY <1>1, <2>1 DEF PayAdvances, Late, Stale
<1>3. CASE End(w)
  <2>1. "idle" \notin PayLabels
    BY DEF PayLabels
  <2> QED BY <1>2, <1>3, <2>1, PayEnds
<1>4. CASE ~ End(w)
  <2>1. PICK t : t = [task[w] EXCEPT !.at = next, !.ref = k]
    OBVIOUS
  <2>2. t.at = next /\ t.ref = k /\ t.pay = task[w].pay /\ Become(w, t)
    BY <1>4, <2>1 DEF GatewayCall, TypeInv, Types, Task
  <2>3. k \in 1 .. Len(gateway) /\ gateway' = [gateway EXCEPT ![k] = to]
    BY <1>4 DEF GatewayCall, TypeInv, Types
  <2>4. gateway'[k] = to /\ k # 0
    BY <2>3 DEF TypeInv, Types
  <2>5. PayStands(t)'
    BY <1>1, <2>2, <2>4 DEF PayStands, BeforeCancelled, Cancelling, Took, GaveBack, Late, Stale
  <2>6. PayRecord'
    BY <1>1, <1>2, PayHolds, RecordKept
  <2> QED BY <1>2, <2>2, <2>5, <2>6, PayStep
<1> QED BY <1>3, <1>4

(* The reversal and the capture of a payment, and their records. *)
LEMMA PaymentPay ==
  ASSUME TypeInv, PayInv, ~ Stale("payment", 0)', NEW w \in Workers,
         \/ ReversePayment(w) \/ UpdateReversed(w)
         \/ ReadForCapture(w) \/ CallCapture(w) \/ UpdateCaptured(w)
  PROVE  PayInv'
<1>1. stale \subseteq stale' /\ status' = status
  BY DEF ReversePayment, UpdateReversed, ReadForCapture, CallCapture, UpdateCaptured,
         history, Note
<1>2. PayStands(task[w]) /\ PayRecord
  BY <1>1, PayHolds
<1>3. PICK pr, tr : /\ pr = payRef /\ tr = task[w].ref
                    /\ pr \in 0 .. Len(gateway) /\ tr \in 0 .. Len(gateway)
  BY DEF TypeInv, Types, Refers
<1>4. "idle" \notin PayLabels
  BY DEF PayLabels
<1>5. CASE ReversePayment(w)
  <2>1. /\ UNCHANGED <<status, payStatus, payRef, history>>
        /\ task[w].at = "reverse"
        /\ \/ /\ GatewayCall(w, pr, "captured", "refunded", "rev_update")
              /\ task[w].pay = "CAPTURED"
           \/ /\ GatewayCall(w, tr, "authorized", "voided", "rev_update")
              /\ task[w].pay = "AUTHORIZED"
           \/ End(w) /\ UNCHANGED gateway
    BY <1>3, <1>5 DEF ReversePayment, At
  <2>2. CASE End(w) /\ UNCHANGED gateway
    BY <1>1, <1>4, <2>1, <2>2, SamePay, PayEnds
  <2>3. CASE /\ GatewayCall(w, pr, "captured", "refunded", "rev_update")
             /\ task[w].pay = "CAPTURED"
    <3>1. Stale("status", 0)
      BY <1>2, <2>1, <2>3 DEF PayStands
    <3> QED BY <1>3, <2>1, <2>3, <3>1, GatewayPay
  <2>4. CASE /\ GatewayCall(w, tr, "authorized", "voided", "rev_update")
             /\ task[w].pay = "AUTHORIZED"
    BY <1>3, <2>1, <2>4, GatewayPay
  <2> QED BY <2>1, <2>2, <2>3, <2>4
<1>6. CASE ReadForCapture(w)
  <2>1. /\ UNCHANGED <<status, payStatus, payRef, gateway>> /\ PayAdvances
        /\ task[w].at = "capture"
    BY <1>1, <1>6, SamePay DEF ReadForCapture, payment, At
  <2>2. CASE End(w)
    BY <1>4, <2>1, <2>2, PayEnds
  <2>3. CASE ~ End(w)
    <3>1. PICK t : t = [task[w] EXCEPT !.at = "cap_call", !.ref = pr]
      OBVIOUS
    <3>2. t.at = "cap_call" /\ Become(w, t)
      BY <1>3, <1>6, <2>3, <3>1 DEF ReadForCapture, TypeInv, Types, Task
    <3>3. Late'
      BY <1>2, <2>1 DEF PayStands, PayAdvances
    <3>4. PayStands(t)'
      BY <3>2, <3>3 DEF PayStands, BeforeCancelled, Cancelling
    <3>5. PayRecord'
      BY <1>2, <2>1, RecordKept
    <3> QED BY <2>1, <3>2, <3>4, <3>5, PayStep
  <2> QED BY <2>2, <2>3
<1>7. CASE CallCapture(w)
  <2>1. /\ GatewayCall(w, tr, "authorized", "captured", "cap_update")
        /\ UNCHANGED <<status, payStatus, payRef, history>> /\ task[w].at = "cap_call"
    BY <1>3, <1>7 DEF CallCapture, At
  <2>2. Late
    BY <1>2, <2>1 DEF PayStands
  <2> QED BY <1>3, <2>1, <2>2, GatewayPay
<1>8. CASE UpdateReversed(w) \/ UpdateCaptured(w)
  <2>1. /\ UNCHANGED <<status, payRef, gateway>> /\ PayAdvances /\ End(w)
        /\ payRef = task[w].ref
    BY <1>1, <1>8, SamePay DEF UpdateReversed, UpdateCaptured, Note, Stale
  <2>2. PICK k, pay : k = payRef /\ k = payRef' /\ k = task[w].ref /\ pay = task[w].pay
    BY <2>1
  <2>3. \/ payStatus' = "CAPTURED" /\ Took(k) /\ Late
        \/ /\ payStatus' = IF pay = "AUTHORIZED" THEN "VOIDED" ELSE "REFUNDED"
           /\ GaveBack(k, pay)
    BY <1>2, <1>8, <2>2 DEF UpdateReversed, UpdateCaptured, PayStands, At
  <2>4. (Took(k) => Took(k)') /\ (GaveBack(k, pay) => GaveBack(k, pay)') /\ (Late => Late')
    <3>1. k \in 0 .. Len(gateway)
      BY <1>3, <2>1, <2>2
    <3> QED BY <2>1, <3>1, ChargeKept DEF PayAdvances
  <2>5. PayRecord'
    <3>1. CASE payStatus' = "CAPTURED" /\ Took(k) /\ Late
      BY <2>2, <2>4, <3>1 DEF PayRecord, Took
    <3>2. CASE /\ payStatus' = IF pay = "AUTHORIZED" THEN "VOIDED" ELSE "REFUNDED"
               /\ GaveBack(k, pay)
      BY <2>2, <2>4, <3>2 DEF PayRecord, GaveBack
    <3> QED BY <2>3, <3>1, <3>2
  <2>6. PICK i : i = Idle /\ i.at = "idle" /\ Become(w, i)
    BY <2>1, IdleTyped DEF End
  <2> QED BY <1>4, <2>1, <2>5, <2>6, PlainPay, PayStep
<1> QED BY <1>5, <1>6, <1>7, <1>8

(* validate: a new charge, or the present one again, and the order's record *)
(* of it, which says nothing yet of money taken or given back.              *)
LEMMA ValidatePay ==
  ASSUME TypeInv, PayInv, ~ Stale("payment", 0)', NEW w \in Workers,
         Authorize(w) \/ UpdateValidated(w)
  PROVE  PayInv'
<1>1. CASE Authorize(w)
  <2>1. /\ UNCHANGED <<status, payStatus, payRef>> /\ stale' = stale
        /\ gateway' = gateway \/ gateway' = Append(gateway, "authorized")
    BY <1>1 DEF Authorize, history
  <2>2. PayAdvances
    <3>1. gateway \in Seq(Charge) /\ "authorized" \in Charge
      BY DEF TypeInv, Types, Charge
    <3>2. \A k \in 1 .. Len(gateway) : gateway'[k] = gateway[k]
      BY <2>1, <3>1
    <3> QED BY <2>1, <3>2 DEF ChargeAdvances, PayAdvances, Late, Stale
  <2>3. PayRecord'
    BY <2>1, <2>2, PayHolds, RecordKept
  <2>4. PICK i : i = Idle /\ i \in Task
    BY IdleTyped
  <2>5. PICK pay, ref, then : Become(w, [i EXCEPT !.at = "v_update", !.pay = pay,
                                                  !.ref = ref, !.then = then])
    BY <1>1, <2>4 DEF Authorize
  <2>6. PICK t : t = [i EXCEPT !.at = "v_update", !.pay = pay, !.ref = ref, !.then = then]
    OBVIOUS
  <2>7. t.at = "v_update" /\ Become(w, t)
    BY <2>4, <2>5, <2>6 DEF Task
  <2>8. "v_update" \notin PayLabels
    BY DEF PayLabels
  <2> QED BY <2>2, <2>3, <2>7, <2>8, PlainPay, PayStep
<1>2. CASE UpdateValidated(w)
  <2>1. /\ UNCHANGED <<status, gateway>> /\ stale' = stale
        /\ payStatus' \in {"DECLINED", "AUTHORIZED"}
    BY <1>2 DEF UpdateValidated, history, TypeInv, Refers, At
  <2>2. PayAdvances /\ PayRecord'
    BY <2>1, SamePay DEF PayRecord
  <2>3. CASE Go(w, "c_start")
    <3>1. PICK t : t = [task[w] EXCEPT !.at = "c_start"]
      OBVIOUS
    <3>2. t.at = "c_start" /\ Become(w, t)
      BY <2>3, <3>1 DEF Go, TypeInv, Types, Task
    <3>3. "c_start" \notin PayLabels
      BY DEF PayLabels
    <3> QED BY <2>2, <3>2, <3>3, PlainPay, PayStep
  <2>4. CASE CallTransition(w, "VALIDATED", "end")
    BY <2>2, <2>4, PayCalls
  <2> QED BY <1>2, <2>3, <2>4 DEF UpdateValidated
<1> QED BY <1>1, <1>2

-----------------------------------------------------------------------------
(* The other steps. *)

(* The handler's own steps that touch neither the order nor its payment. *)
LEMMA ReadsPay ==
  ASSUME TypeInv, PayInv, ~ Stale("payment", 0)', NEW w \in Workers,
         \/ ReadStatus(w) \/ CheckSourceable(w) \/ RefuseSourcing(w) \/ Release(w)
         \/ ReadForCancel(w) \/ ReadAllocations(w)
         \/ \E h \in DOMAIN Handlers, i \in DOMAIN ships : RequireShipment(w, h, i)
         \/ PickCheckOrder(w)
         \/ ReadPicked(w, "sh_update") \/ ReadPicked(w, "pu_update")
         \/ RollReadShipments(w) \/ RollReadOrder(w) \/ Crash(w)
  PROVE  PayInv'
<1>1. UNCHANGED <<status, payment>> /\ stale \subseteq stale'
  <2>1. CASE ReadStatus(w) \/ CheckSourceable(w) \/ RefuseSourcing(w) \/ Release(w)
    BY <2>1 DEF ReadStatus, CheckSourceable, RefuseSourcing, Release, history, Note
  <2>2. CASE ReadForCancel(w) \/ ReadAllocations(w) \/ PickCheckOrder(w) \/ Crash(w)
    BY <2>2 DEF ReadForCancel, ReadAllocations, PickCheckOrder, Crash, history
  <2>3. ASSUME NEW h \in DOMAIN Handlers, NEW i \in DOMAIN ships, RequireShipment(w, h, i)
        PROVE  UNCHANGED <<status, payment>> /\ stale \subseteq stale'
    BY <2>3 DEF RequireShipment, history
  <2>4. CASE \/ ReadPicked(w, "sh_update") \/ ReadPicked(w, "pu_update")
             \/ RollReadShipments(w) \/ RollReadOrder(w)
    BY <2>4 DEF ReadPicked, RollReadShipments, RollReadOrder, history
  <2> QED BY <2>1, <2>2, <2>3, <2>4
<1>2. PayAdvances /\ UNCHANGED <<status, payStatus, payRef>>
  BY <1>1, SamePay DEF payment
<1>3. PayRecord' /\ PayRecord /\ PayStands(task[w])
  BY <1>1, <1>2, PayHolds, RecordKept
<1>4. /\ {"idle", "s_commit", "p_update", "roll_order", "sh_update", "pu_update"}
           \cap PayLabels = {}
      /\ \A h \in DOMAIN Handlers : Handlers[h].next \notin PayLabels
  BY HandlerTable DEF PayLabels
<1>5. ASSUME NEW t, Become(w, t), t.at \notin PayLabels PROVE PayInv'
  BY <1>2, <1>3, <1>5, PlainPay, PayStep
<1>6. ASSUME End(w) PROVE PayInv'
  <2>1. PICK i : i = Idle /\ i.at = "idle"
    BY IdleTyped
  <2> QED BY <1>4, <1>5, <1>6, <2>1 DEF End
<1>7. CASE ReadStatus(w)
  <2>1. CASE Go(w, "t_write")
    <3>1. PICK t : t = [task[w] EXCEPT !.at = "t_write"]
      OBVIOUS
    <3>2. /\ Become(w, t) /\ t.at = "t_write" /\ t.then = task[w].then
          /\ t.pay = task[w].pay /\ task[w].at = "t_read"
      BY <1>7, <2>1, <3>1 DEF Go, ReadStatus, At, TypeInv, Types, Task
    <3>3. t.pay = "CAPTURED" /\ Cancelling(t) => Late'
      BY <1>2, <1>3, <3>2 DEF PayStands, BeforeCancelled, Cancelling, PayAdvances
    <3>4. PayStands(t)'
      BY <3>2, <3>3 DEF PayStands, BeforeCancelled, Cancelling
    <3> QED BY <1>2, <1>3, <3>2, <3>4, PayStep
  <2> QED BY <1>6, <1>7, <2>1 DEF ReadStatus
<1>8. CASE CheckSourceable(w) \/ PickCheckOrder(w)
  <2>1. CheckSourceable(w) => Go(w, "s_commit")
    BY DEF CheckSourceable
  <2>2. PickCheckOrder(w) => Go(w, "p_update") \/ End(w)
    BY DEF PickCheckOrder
  <2>3. "s_commit" \notin PayLabels /\ "p_update" \notin PayLabels
    BY DEF PayLabels
  <2> QED BY <1>2, <1>8, <2>1, <2>2, <2>3, PayEnds
<1>9. CASE RefuseSourcing(w) \/ Crash(w)
  BY <1>6, <1>9 DEF RefuseSourcing, Crash
<1>10. CASE Release(w)
  BY <1>2, <1>3, <1>10, PayCalls DEF Release
<1>11. CASE ReadForCancel(w)
  <2>1. PICK i : i = Idle /\ i \in Task
    BY IdleTyped
  <2>2. PICK p, r, t : p = payStatus /\ r = payRef
                       /\ t = [i EXCEPT !.at = "c_allocs", !.pay = p, !.ref = r]
    OBVIOUS
  <2>3. t.at = "c_allocs" /\ t.pay = p /\ Become(w, t)
    BY <1>11, <2>1, <2>2 DEF ReadForCancel, Task
  <2>4. p = "CAPTURED" => Late'
    BY <1>2, <1>3, <2>2 DEF PayRecord, PayAdvances
  <2>5. PayStands(t)'
    BY <2>3, <2>4 DEF PayStands, BeforeCancelled, Cancelling
  <2> QED BY <1>2, <1>3, <2>3, <2>5, PayStep
<1>12. CASE ReadAllocations(w)
  <2>1. PICK t, list :
          /\ list = { i \in DOMAIN ships : ships[i].alloc \in {"ALLOCATED", "PICKED"} }
          /\ t = [task[w] EXCEPT !.at = "c_dealloc", !.list = list]
    OBVIOUS
  <2>2. Become(w, t) /\ task[w].at = "c_allocs"
    BY <1>12, <2>1 DEF ReadAllocations, At
  <2>3. t.at = "c_dealloc" /\ t.pay = task[w].pay
    BY <2>1 DEF TypeInv, Types, Task
  <2>4. t.pay = "CAPTURED" => Late'
    BY <1>2, <1>3, <2>2, <2>3 DEF PayStands, BeforeCancelled, PayAdvances
  <2>5. PayStands(t)'
    BY <2>3, <2>4 DEF PayStands, BeforeCancelled, Cancelling
  <2> QED BY <1>2, <1>3, <2>2, <2>5, PayStep
<1>13. ASSUME NEW h \in DOMAIN Handlers, NEW j \in DOMAIN ships, RequireShipment(w, h, j)
       PROVE  PayInv'
  <2>1. PICK i : i = Idle /\ i \in Task
    BY IdleTyped
  <2>2. PICK t, l : t = [i EXCEPT !.at = l, !.ship = j] /\ l = Handlers[h].next
    OBVIOUS
  <2>3. t.at = l /\ Become(w, t)
    BY <1>13, <2>1, <2>2 DEF RequireShipment, Task
  <2> QED BY <1>4, <1>5, <2>2, <2>3
<1>14. ASSUME NEW next \in {"sh_update", "pu_update"}, ReadPicked(w, next) PROVE PayInv'
  <2>1. PICK list, t :
          /\ list = IF ships[task[w].ship].alloc = "PICKED" THEN {task[w].ship} ELSE {}
          /\ t = [task[w] EXCEPT !.at = next, !.list = list]
    OBVIOUS
  <2>2. Become(w, t)
    BY <1>14, <2>1 DEF ReadPicked
  <2>3. t.at = next
    BY <2>1 DEF TypeInv, Types, Task
  <2> QED BY <1>4, <1>5, <2>2, <2>3
<1>15. CASE RollReadShipments(w)
  <2>1. CASE ~ End(w)
    <3>1. PICK t : t = [task[w] EXCEPT !.at = "roll_order", !.last = Target]
      OBVIOUS
    <3>2. Become(w, t) /\ t.at = "roll_order"
      BY <1>15, <2>1, <3>1 DEF RollReadShipments, TypeInv, Types, Task
    <3> QED BY <1>4, <1>5, <3>2
  <2> QED BY <1>6, <2>1
<1>16. CASE RollReadOrder(w)
  <2>1. CASE ~ End(w)
    <3>1. PICK n : CallTransition(w, n, "rollup")
      BY <1>16, <2>1 DEF RollReadOrder
    <3> QED BY <1>2, <1>3, <3>1, PayCalls
  <2> QED BY <1>6, <2>1
<1> QED BY <1>7, <1>8, <1>9, <1>10, <1>11, <1>12, <1>13, <1>14, <1>15, <1>16

(* A sourcing is of an order not handed over, or overwrites its status. *)
LEMMA SourcingPay ==
  ASSUME TypeInv, PayInv, ~ Stale("payment", 0)', NEW w \in Workers, CommitSourcing(w)
  PROVE  PayInv'
<1>1. /\ status' = "ALLOCATED" /\ End(w) /\ UNCHANGED payment
      /\ stale \subseteq stale' /\ (status = "VALIDATED" \/ Stale("status", 0)')
  BY SourcingEffect
<1>2. PayAdvances /\ UNCHANGED <<payStatus, payRef>>
  BY <1>1 DEF PayAdvances, ChargeAdvances, Late, Handed, Stale, payment
<1>3. "idle" \notin PayLabels
  BY DEF PayLabels
<1> QED BY <1>1, <1>2, <1>3, PayEnds

(* cancel's steps before its transition. *)
LEMMA CancelPay ==
  ASSUME TypeInv, PayInv, ~ Stale("payment", 0)', NEW w \in Workers,
         DeallocateStep(w) \/ CancelShipments(w)
  PROVE  PayInv'
<1>1. /\ UNCHANGED <<status, payment>> /\ stale \subseteq stale'
      /\ task[w].at = "c_dealloc"
  BY DEF DeallocateStep, Deallocate, CancelShipments, history, Note, At
<1>2. PayAdvances /\ UNCHANGED <<payStatus, payRef>>
  BY <1>1, SamePay DEF payment
<1>3. PayRecord' /\ PayStands(task[w])
  BY <1>1, <1>2, PayHolds, RecordKept
<1>4. task[w].pay = "CAPTURED" => Late'
  BY <1>1, <1>2, <1>3 DEF PayStands, BeforeCancelled, PayAdvances
<1>5. ASSUME NEW i \in DOMAIN ships, Deallocate(w, i) PROVE PayInv'
  <2>1. End(w) \/ Become(w, [task[w] EXCEPT !.list = @ \ {i}])
    BY <1>5, DeallocateEffect
  <2>2. CASE End(w)
    <3>1. "idle" \notin PayLabels
      BY DEF PayLabels
    <3> QED BY <1>2, <2>2, <3>1, PayEnds
  <2>3. CASE Become(w, [task[w] EXCEPT !.list = @ \ {i}])
    <3>1. PICK t : t = [task[w] EXCEPT !.list = @ \ {i}]
      OBVIOUS
    <3>2. Become(w, t) /\ t.at = "c_dealloc" /\ t.pay = task[w].pay
      BY <1>1, <2>3, <3>1 DEF TypeInv, Types, Task
    <3>3. PayStands(t)'
      BY <1>4, <3>2 DEF PayStands, BeforeCancelled, Cancelling
    <3> QED BY <1>2, <1>3, <3>2, <3>3, PayStep
  <2> QED BY <2>1, <2>2, <2>3
<1>6. CASE CancelShipments(w)
  <2>1. PICK t : t = [task[w] EXCEPT !.at = "t_read", !.to = "CANCELLED", !.then = "reverse"]
    OBVIOUS
  <2>2. t.at = "t_read" /\ t.pay = task[w].pay /\ Become(w, t)
    BY <1>6, <2>1 DEF CancelShipments, CallTransition, TypeInv, Types, Task
  <2>3. PayStands(t)'
    BY <1>4, <2>2 DEF PayStands, BeforeCancelled, Cancelling
  <2> QED BY <1>2, <1>3, <2>2, <2>3, PayStep
<1> QED BY <1>5, <1>6 DEF DeallocateStep

(* The steps of a shipment leave the payment alone and go on to the rollup. *)
LEMMA ShippingPay ==
  ASSUME TypeInv, PayInv, ~ Stale("payment", 0)', NEW w \in Workers,
         Dispatch(w) \/ PickUpdate(w) \/ AdvanceStep(w) \/ ShipStep(w)
  PROVE  PayInv'
<1>1. "roll" \notin PayLabels
  BY DEF PayLabels
<1>2. CASE Dispatch(w) \/ PickUpdate(w) \/ AdvanceStep(w)
  <2>1. UNCHANGED <<status, payment>> /\ stale \subseteq stale' /\ (End(w) \/ Go(w, "roll"))
    BY <1>2, ShipmentEffect
  <2>2. PayAdvances /\ UNCHANGED <<payStatus, payRef>>
    BY <2>1, SamePay DEF payment
  <2> QED BY <1>1, <2>1, <2>2, PayEnds
<1>3. CASE ShipStep(w)
  <2>1. UNCHANGED <<status, payment>> /\ stale \subseteq stale'
    BY <1>3 DEF ShipStep, ShipOut
  <2>2. End(w) \/ Become(w, [task[w] EXCEPT !.at = "roll", !.list = {}])
    BY <1>3 DEF ShipStep, ShipOut
  <2>3. PICK t : t = [task[w] EXCEPT !.at = "roll", !.list = {}]
    OBVIOUS
  <2>4. t.at = "roll"
    BY <2>3 DEF TypeInv, Types, Task
  <2>5. PayAdvances /\ UNCHANGED <<payStatus, payRef>>
    BY <2>1, SamePay DEF payment
  <2>6. PayRecord'
    BY <2>1, <2>5, PayHolds, RecordKept
  <2>7. CASE End(w)
    BY <1>1, <2>5, <2>7, PayEnds
  <2> QED BY <1>1, <2>2, <2>3, <2>4, <2>5, <2>6, <2>7, PlainPay, PayStep
<1> QED BY <1>2, <1>3

(* Every step keeps the record true. *)
LEMMA NextPay ==
  ASSUME TypeInv, PayInv, [Next]_vars
  PROVE  PayInv'
<1> SUFFICES ASSUME ~ Stale("payment", 0)' PROVE PayInv'
  BY DEF PayInv
<1>1. CASE UNCHANGED vars
  BY <1>1 DEF vars, PayInv, Stale, PayRecord, PayStands, Took, GaveBack, Late,
              BeforeCancelled, Cancelling
<1>2. ASSUME NEW w \in Workers, Elsewhere(w) PROVE PayInv'
  BY <1>2, WriteStatusPay, ValidatePay, PaymentPay, ReadsPay DEF Elsewhere
<1>3. ASSUME NEW w \in Workers, CommitSourcing(w) PROVE PayInv'
  BY <1>3, SourcingPay
<1>4. ASSUME NEW w \in Workers, DeallocateStep(w) \/ CancelShipments(w) PROVE PayInv'
  BY <1>4, CancelPay
<1>5. ASSUME NEW w \in Workers,
             Dispatch(w) \/ PickUpdate(w) \/ AdvanceStep(w) \/ ShipStep(w)
      PROVE  PayInv'
  BY <1>5, ShippingPay
<1> QED BY <1>1, <1>2, <1>3, <1>4, <1>5, Steps

(* At first there is no charge. *)
LEMMA InitPay == Init => PayInv
<1> SUFFICES ASSUME Init PROVE PayInv
  OBVIOUS
<1>1. \A w \in Workers : task[w].at = "idle"
  BY DEF Init, Idle
<1> QED BY <1>1 DEF Init, PayInv, PayRecord, PayStands, BeforeCancelled, Cancelling

(* PaymentRecordTrue: however handlers overlap, whatever answers of the      *)
(* gateway are lost and whichever handlers die, a charge the order records   *)
(* as captured, refunded or voided is so at the gateway, unless a validate   *)
(* replaced the charge between a handler's call and its record.              *)
THEOREM PaymentRecordedTruly == Spec => []PaymentRecordTrue
<1>1. PayInv => PaymentRecordTrue
  BY DEF PayInv, PayRecord, PaymentRecordTrue, Took, GaveBack
<1> QED BY <1>1, InitTyped, NextTyped, InitPay, NextPay, PTL DEF Spec
=============================================================================
