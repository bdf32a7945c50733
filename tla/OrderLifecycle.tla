--------------------------- MODULE OrderLifecycle ---------------------------
(***************************************************************************)
(* One order from capture to delivery or cancellation: the state machine   *)
(* (order-state-machine.ts), the handlers of orders.service.ts,            *)
(* sourcing.service.ts and fulfillment.service.ts that drive it, and its   *)
(* payment.  Handlers run on workers; each database statement or           *)
(* transaction and each gateway call is one step, so a handler acts on     *)
(* what it read some steps ago.  No handler locks the order, shipment or   *)
(* allocation rows it has read: the history `stale` records each write by  *)
(* a handler that acted on something another had changed in the meantime.  *)
(*                                                                         *)
(* Abstractions: every shipment carries one allocation of one unit;        *)
(* sourcing may choose any nodes with a free unit (its planner is modelled *)
(* apart); a movement is one atomic step (module Inventory shows why); the *)
(* order's soft holds are those of module Reservations.                    *)
(***************************************************************************)
EXTENDS Integers, Sequences, FiniteSets

CONSTANTS
  Workers,   \* concurrent HTTP requests
  Nodes,     \* locations that can fulfil
  Scenarios  \* what is there and what may be asked, see Scenario

(* A scenario: the handlers each worker may be asked to run, the on-hand    *)
(* units of each node and those allocated to other orders, whether the      *)
(* order accepts what stock there is, and bounds on the charges, the        *)
(* sourcings and the crashes.                                               *)
Scenario ==
  [calls : [Workers -> SUBSET {"validate", "source", "release", "cancel", "dispatch",
                               "pick", "ship", "markReadyForPickup", "pickUp", "deliver"}],
   stock : [Nodes -> Nat], others : [Nodes -> Nat], backorder : BOOLEAN,
   validations : Nat, sourcings : Nat, crashes : Nat]

ASSUME LifecycleAssumption ==
  /\ IsFiniteSet(Nodes) /\ Scenarios \subseteq Scenario
  /\ \A sc \in Scenarios : \A n \in Nodes : sc.others[n] <= sc.stock[n]

VARIABLES
  status,     \* Order.status
  payStatus,  \* Order.paymentStatus
  payRef,     \* Order.paymentReference: 0, or the number of an authorization
  ships,      \* the order's shipments: [node, status, alloc, job]
  onHand, allocated,  \* the order's SKU at each node
  gateway,    \* authorization -> what the payment gateway knows of it
  task,       \* what each worker is doing
  crashes,
  scenario,   \* chosen once
  stale       \* history: <<what, shipment>>, what was overwritten or lost by a
              \* handler that acted on an outdated read (no shipment: 0)

vars == <<status, payStatus, payRef, ships, onHand, allocated, gateway, task,
          crashes, scenario, stale>>
stock == <<onHand, allocated>>
payment == <<payStatus, payRef, gateway>>
history == <<crashes, scenario, stale>>

TRANSITIONS == [
  CREATED   |-> {"VALIDATED", "CANCELLED"},
  VALIDATED |-> {"ALLOCATED", "CANCELLED"},
  ALLOCATED |-> {"RELEASED", "CANCELLED"},
  RELEASED  |-> {"PICKED", "CANCELLED"},
  PICKED    |-> {"SHIPPED", "CANCELLED"},
  SHIPPED   |-> {"DELIVERED"},
  DELIVERED |-> {"RETURNED"},
  CANCELLED |-> {},
  RETURNED  |-> {} ]

canTransition(from, to) == to \in TRANSITIONS[from]

ORDER_CHAIN == <<"ALLOCATED", "RELEASED", "PICKED", "SHIPPED", "DELIVERED">>
ChainIndex(st) ==
  IF \E i \in 1 .. 5 : ORDER_CHAIN[i] = st
  THEN CHOOSE i \in 1 .. 5 : ORDER_CHAIN[i] = st ELSE 0

SHIPMENT_RANK == [
  PENDING |-> 0, PICKED |-> 1, READY_FOR_PICKUP |-> 2, SHIPPED |-> 2,
  PICKED_UP |-> 3, DELIVERED |-> 3, CANCELLED |-> -1 ]

(* A task: the label of its next step, the shipment it is about, the        *)
(* allocations it has read, the transition it is making and the last one it *)
(* wants, and the payment it read when it began.                            *)
Idle == [at |-> "idle", ship |-> 0, list |-> {}, to |-> "", last |-> "",
         pay |-> "", ref |-> 0, then |-> ""]

At(w, label) == task[w].at = label
Asked(w, handler) == At(w, "idle") /\ handler \in scenario.calls[w]
Become(w, t) == task' = [task EXCEPT ![w] = t]
Go(w, label) == Become(w, [task[w] EXCEPT !.at = label])
End(w) == Become(w, Idle)

(* Record that `what` of shipment i was changed on an outdated read. *)
Note(what, i, outdated) ==
  stale' = IF outdated THEN stale \cup {<<what, i>>} ELSE stale

(* Call transition(to), going on at label `then` once it has succeeded. *)
CallTransition(w, to, then) ==
  Become(w, [task[w] EXCEPT !.at = "t_read", !.to = to, !.then = then])

Init ==
  /\ status = "CREATED" /\ payStatus = "PENDING" /\ payRef = 0
  /\ ships = << >>
  /\ scenario \in Scenarios
  /\ onHand = scenario.stock /\ allocated = scenario.others
  /\ gateway = << >>
  /\ task = [w \in Workers |-> Idle]
  /\ crashes = 0 /\ stale = {}

-----------------------------------------------------------------------------
(* transition: the status is read, checked, and overwritten by a later      *)
(* statement of the same READ COMMITTED transaction.                        *)

(* A refused transition throws: a rollup ends where another has overtaken it. *)
ReadStatus(w) ==
  /\ At(w, "t_read")
  /\ \/ canTransition(status, task[w].to) /\ Go(w, "t_write") /\ UNCHANGED stale
     \/ /\ ~ canTransition(status, task[w].to)
        /\ Note("rollup", 0, task[w].then = "rollup")
        /\ End(w)
  /\ UNCHANGED <<status, ships, stock, payment, crashes, scenario>>

NextInChain(st) == ORDER_CHAIN[ChainIndex(st) + 1]

(* The order's status is overwritten, by one the present does not lead to   *)
(* when a handler has moved the order since it was checked.                 *)
SetStatus(to) ==
  /\ status' = to
  /\ Note("status", 0, to # status /\ ~ canTransition(status, to))

WriteStatus(w) ==
  /\ At(w, "t_write")
  /\ SetStatus(task[w].to)
  /\ CASE task[w].then = "end" -> End(w)
       [] task[w].then = "reverse" -> Go(w, "reverse")
       [] task[w].then = "rollup" /\ task[w].to # task[w].last ->
            CallTransition(w, NextInChain(task[w].to), "rollup")
       [] task[w].then = "rollup" /\ task[w].to = task[w].last ->
            IF task[w].last \in {"SHIPPED", "DELIVERED"}
            THEN Go(w, "capture") ELSE End(w)
  /\ UNCHANGED <<ships, stock, payment, crashes, scenario>>

-----------------------------------------------------------------------------
(* The gateway takes charge k from one state to another and the handler     *)
(* goes on; or it refuses; or its answer is lost and counts as a refusal.   *)
GatewayCall(w, k, from, to, next) ==
  \/ /\ k # 0 /\ gateway[k] = from
     /\ gateway' = [gateway EXCEPT ![k] = to]
     /\ Become(w, [task[w] EXCEPT !.at = next, !.ref = k]) \/ End(w)
  \/ End(w) /\ UNCHANGED gateway

(* validate: the gateway is asked first, the order's payment overwritten    *)
(* next, and only then is the status looked at.                             *)

(* A new authorization, a replay of the present one under its idempotency   *)
(* key, no authorization because there is nothing to charge, a refusal, or  *)
(* an authorization whose answer is lost and counts as a refusal; a fraud   *)
(* screen may reject an authorized order too.                               *)
Authorize(w) ==
  /\ Asked(w, "validate") /\ Len(gateway) < scenario.validations
  /\ \E auth \in {"new", "replay", "free", "declined", "lost"}, fraud \in BOOLEAN :
       LET declined == auth \in {"declined", "lost"} IN
       /\ auth = "replay" => payRef # 0
       /\ gateway' = IF auth \in {"new", "lost"}
                     THEN Append(gateway, "authorized") ELSE gateway
       /\ Become(w, [Idle EXCEPT
            !.at = "v_update",
            !.pay = IF declined THEN "DECLINED" ELSE "AUTHORIZED",
            !.ref = CASE auth = "new" -> Len(gateway) + 1
                      [] auth = "replay" -> payRef
                      [] auth \in {"free", "declined", "lost"} -> 0,
            !.then = IF fraud \/ declined THEN "reject" ELSE "end"])
  /\ UNCHANGED <<status, payStatus, payRef, ships, stock, history>>

UpdateValidated(w) ==
  /\ At(w, "v_update")
  /\ payStatus' = task[w].pay
  /\ payRef' = task[w].ref
  /\ IF task[w].then = "reject" THEN Go(w, "c_start")
     ELSE CallTransition(w, "VALIDATED", "end")
  /\ UNCHANGED <<status, ships, stock, gateway, history>>

-----------------------------------------------------------------------------
(* sourceOrder: VALIDATED is checked before the transaction that allocates, *)
(* creates a shipment per node and sets ALLOCATED.                          *)

CheckSourceable(w) ==
  /\ Asked(w, "source") /\ status = "VALIDATED"
  /\ Len(ships) < scenario.sourcings * Cardinality(Nodes)
  /\ Go(w, "s_commit")
  /\ UNCHANGED <<status, ships, stock, payment, history>>

FreeNodes == { n \in Nodes : onHand[n] - allocated[n] > 0 }

(* One pending shipment, with its allocation, for each chosen node. *)
NewShipments(S) ==
  CHOOSE q \in [1 .. Cardinality(S) ->
                  { [node |-> n, status |-> "PENDING", alloc |-> "ALLOCATED",
                     job |-> FALSE] : n \in S }] :
    \A n \in S : \E i \in DOMAIN q : q[i].node = n

(* A cancel has read the allocations it will free, and goes on to CANCELLED. *)
CancelUnderWay ==
  \E w \in Workers : At(w, "c_dealloc")
    \/ (task[w].at \in {"t_read", "t_write"} /\ task[w].to = "CANCELLED")

CommitSourcing(w) ==
  /\ At(w, "s_commit")
  /\ \E S \in SUBSET FreeNodes :
       /\ S = {} => scenario.backorder
       /\ allocated' = [n \in Nodes |-> IF n \in S THEN allocated[n] + 1
                                                  ELSE allocated[n]]
       /\ ships' = ships \o NewShipments(S)
  /\ status' = "ALLOCATED"
  /\ stale' = stale \cup (IF status = "VALIDATED" THEN {} ELSE {<<"status", 0>>})
                    \cup (IF CancelUnderWay THEN {<<"cancel", 0>>} ELSE {})
  /\ End(w)
  /\ UNCHANGED <<onHand, payment, crashes, scenario>>

(* Not enough stock, or the conflicts outlasted the retries: rolled back. *)
RefuseSourcing(w) ==
  /\ At(w, "s_commit")
  /\ End(w)
  /\ UNCHANGED <<status, ships, stock, payment, history>>

(* POST /orders/:id/release *)
Release(w) ==
  /\ Asked(w, "release")
  /\ CallTransition(w, "RELEASED", "end")
  /\ UNCHANGED <<status, ships, stock, payment, history>>

-----------------------------------------------------------------------------
(* cancel *)

(* The payment is read here and trusted when the money is reversed. *)
ReadForCancel(w) ==
  /\ task[w].at \in {"idle", "c_start"}
  /\ Become(w, [Idle EXCEPT !.at = "c_allocs", !.pay = payStatus,
                            !.ref = payRef])
  /\ UNCHANGED <<status, ships, stock, payment, history>>

(* Mutant of ReadAllocations: a filter that forgets picked units. *)
ReadUnpickedAllocations(w) ==
  /\ At(w, "c_allocs")
  /\ Become(w, [task[w] EXCEPT !.at = "c_dealloc",
       !.list = { i \in DOMAIN ships : ships[i].alloc = "ALLOCATED" }])
  /\ UNCHANGED <<status, ships, stock, payment, history>>

ReadAllocations(w) ==
  /\ At(w, "c_allocs")
  /\ Become(w, [task[w] EXCEPT !.at = "c_dealloc",
       !.list = { i \in DOMAIN ships :
                    ships[i].alloc \in {"ALLOCATED", "PICKED"} }])
  /\ UNCHANGED <<status, ships, stock, payment, history>>

(* One transaction per allocation read: DEALLOCATE, then CANCELLED, with no *)
(* second look at its status.  A negative balance makes cancel throw.       *)
Deallocate(w, i) ==
  /\ At(w, "c_dealloc") /\ i \in task[w].list
  /\ LET n == ships[i].node IN
       IF allocated[n] > 0
       THEN /\ allocated' = [allocated EXCEPT ![n] = @ - 1]
            /\ ships' = [ships EXCEPT ![i].alloc = "CANCELLED"]
            /\ Note("allocation", i, ships[i].alloc \notin {"ALLOCATED", "PICKED"})
            /\ Become(w, [task[w] EXCEPT !.list = @ \ {i}])
       ELSE End(w) /\ UNCHANGED <<allocated, ships, stale>>
  /\ UNCHANGED <<status, onHand, payment, crashes, scenario>>

CancelShipments(w) ==
  /\ At(w, "c_dealloc") /\ task[w].list = {}
  /\ ships' = [i \in DOMAIN ships |->
                 IF ships[i].status \in {"PENDING", "PICKED"}
                 THEN [ships[i] EXCEPT !.status = "CANCELLED"] ELSE ships[i]]
  /\ CallTransition(w, "CANCELLED", "reverse")
  /\ UNCHANGED <<status, stock, payment, history>>

(* reversePayment: refund what cancel read as captured, void what it read   *)
(* as authorized; a gateway refusal is not recorded.  A refund re-reads the *)
(* order and so its present reference.                                      *)
ReversePayment(w) ==
  /\ At(w, "reverse")
  /\ CASE task[w].ref # 0 /\ task[w].pay = "CAPTURED" ->
            GatewayCall(w, payRef, "captured", "refunded", "rev_update")
       [] task[w].ref # 0 /\ task[w].pay = "AUTHORIZED" ->
            GatewayCall(w, task[w].ref, "authorized", "voided", "rev_update")
       [] task[w].ref = 0 \/ task[w].pay \notin {"CAPTURED", "AUTHORIZED"} ->
            End(w) /\ UNCHANGED gateway
  /\ UNCHANGED <<status, payStatus, payRef, ships, stock, history>>

UpdateReversed(w) ==
  /\ At(w, "rev_update")
  /\ payStatus' = IF task[w].pay = "AUTHORIZED" THEN "VOIDED" ELSE "REFUNDED"
  /\ Note("payment", 0, payRef # task[w].ref)
  /\ End(w)
  /\ UNCHANGED <<status, payRef, ships, stock, gateway, crashes, scenario>>

-----------------------------------------------------------------------------
(* fulfillment.service.ts: each handler checks the shipment's status, and   *)
(* writes the next one in a later statement.                                *)

(* The statuses each handler accepts and the label it goes on at. *)
Handlers ==
  [dispatch |-> [from |-> {"PENDING", "PICKED"}, next |-> "di_update"],
   pick |-> [from |-> {"PENDING"}, next |-> "p_order"],
   ship |-> [from |-> {"PICKED"}, next |-> "sh_allocs"],
   markReadyForPickup |-> [from |-> {"PICKED"}, next |-> "r_update"],
   pickUp |-> [from |-> {"READY_FOR_PICKUP"}, next |-> "pu_allocs"],
   deliver |-> [from |-> {"SHIPPED"}, next |-> "d_update"]]

RequireShipment(w, h, i) ==
  /\ Asked(w, h) /\ ships[i].status \in Handlers[h].from
  /\ Become(w, [Idle EXCEPT !.at = Handlers[h].next, !.ship = i])
  /\ UNCHANGED <<status, ships, stock, payment, history>>

(* dispatch: the WMS has opened a job, or has failed; the job is recorded   *)
(* on the shipment, whatever became of its status, and nothing withdraws it *)
(* when the shipment is cancelled.                                          *)
Dispatch(w) ==
  /\ At(w, "di_update")
  /\ ships' \in {ships, [ships EXCEPT ![task[w].ship].job = TRUE]}
  /\ End(w)
  /\ UNCHANGED <<status, stock, payment, history>>

(* pick goes on only if the order is RELEASED or PICKED. *)
PickCheckOrder(w) ==
  /\ At(w, "p_order")
  /\ IF status \in {"RELEASED", "PICKED"} THEN Go(w, "p_update") ELSE End(w)
  /\ UNCHANGED <<status, ships, stock, payment, history>>

(* Mutant of Moved: the allocation moves on whatever its status. *)
MovedAny(s, to, from, next) == [s EXCEPT !.status = to, !.alloc = next]

(* A shipment in its new status, its allocation moved on with it from the   *)
(* status it should have.                                                   *)
Moved(s, to, from, next) ==
  [s EXCEPT !.status = to, !.alloc = IF s.alloc = from THEN next ELSE s.alloc]

PickUpdate(w) ==
  /\ At(w, "p_update")
  /\ LET i == task[w].ship IN
     /\ ships' = [ships EXCEPT
                    ![i] = Moved(ships[i], "PICKED", "ALLOCATED", "PICKED")]
     /\ Note("shipment", i, ships[i].status # "PENDING")
  /\ Go(w, "roll")
  /\ UNCHANGED <<status, stock, payment, crashes, scenario>>

(* ship and pickUp read the picked allocations before their transaction. *)
ReadPicked(w, next) ==
  /\ Become(w, [task[w] EXCEPT !.at = next,
       !.list = IF ships[task[w].ship].alloc = "PICKED"
                THEN {task[w].ship} ELSE {}])
  /\ UNCHANGED <<status, ships, stock, payment, history>>

(* SHIP for every allocation read, then allocations and shipment advance;   *)
(* a negative balance rolls it all back.                                    *)
ShipOut(w, from, to) ==
  LET i == task[w].ship
      n == ships[i].node
      q == Cardinality(task[w].list)
  IN  /\ IF allocated[n] >= q /\ onHand[n] >= q
         THEN /\ onHand' = [onHand EXCEPT ![n] = @ - q]
              /\ allocated' = [allocated EXCEPT ![n] = @ - q]
              /\ ships' = [ships EXCEPT
                             ![i] = Moved(ships[i], to, "PICKED", "SHIPPED")]
              /\ stale' = stale
                   \cup (IF ships[i].status = from THEN {} ELSE {<<"shipment", i>>})
                   \cup (IF ships[i].alloc = "PICKED" <=> i \in task[w].list
                         THEN {} ELSE {<<"allocation", i>>})
              /\ Become(w, [task[w] EXCEPT !.at = "roll", !.list = {}])
         ELSE End(w) /\ UNCHANGED <<stock, ships, stale>>
      /\ UNCHANGED <<status, payment, crashes, scenario>>

Ship(w) ==
  \/ At(w, "sh_allocs") /\ ReadPicked(w, "sh_update")
  \/ At(w, "sh_update") /\ ShipOut(w, "PICKED", "SHIPPED")

PickUp(w) ==
  \/ At(w, "pu_allocs") /\ ReadPicked(w, "pu_update")
  \/ At(w, "pu_update") /\ ShipOut(w, "READY_FOR_PICKUP", "PICKED_UP")

(* A shipment's status is overwritten, then its order is rolled up. *)
Advance(w, from, to) ==
  /\ ships' = [ships EXCEPT ![task[w].ship].status = to]
  /\ Note("shipment", task[w].ship, ships[task[w].ship].status # from)
  /\ Go(w, "roll")
  /\ UNCHANGED <<status, stock, payment, crashes, scenario>>

MarkReadyForPickup(w) == At(w, "r_update") /\ Advance(w, "PICKED", "READY_FOR_PICKUP")

(* Mutant of Deliver: the order is not rolled up afterwards. *)
DeliverOnly(w) ==
  /\ At(w, "d_update")
  /\ ships' = [ships EXCEPT ![task[w].ship].status = "DELIVERED"]
  /\ Note("shipment", task[w].ship, ships[task[w].ship].status # "SHIPPED")
  /\ End(w)
  /\ UNCHANGED <<status, stock, payment, crashes, scenario>>

Deliver(w) == At(w, "d_update") /\ Advance(w, "SHIPPED", "DELIVERED")

-----------------------------------------------------------------------------
(* rollupOrder: the stage every active shipment has reached *)

Active == { i \in DOMAIN ships : ships[i].status # "CANCELLED" }
Reached(rank) == \A i \in Active : SHIPMENT_RANK[ships[i].status] >= rank
(* Mutant of Target: the stage the furthest shipment has reached. *)
TargetOfFurthest ==
  LET some(rank) == \E i \in Active : SHIPMENT_RANK[ships[i].status] >= rank
  IN  CASE some(3) -> "DELIVERED"
        [] some(2) /\ ~ some(3) -> "SHIPPED"
        [] some(1) /\ ~ some(2) -> "PICKED"
        [] ~ some(1) -> "none"
Target ==
  CASE Active = {} -> "none"
    [] Active # {} /\ Reached(3) -> "DELIVERED"
    [] Active # {} /\ Reached(2) /\ ~ Reached(3) -> "SHIPPED"
    [] Active # {} /\ Reached(1) /\ ~ Reached(2) -> "PICKED"
    [] Active # {} /\ ~ Reached(1) -> "none"

RollReadShipments(w) ==
  /\ At(w, "roll")
  /\ IF Target = "none" THEN End(w)
     ELSE Become(w, [task[w] EXCEPT !.at = "roll_order", !.last = Target])
  /\ UNCHANGED <<status, ships, stock, payment, history>>

RollReadOrder(w) ==
  LET from == ChainIndex(status)
  IN  /\ At(w, "roll_order")
      /\ IF from = 0 \/ ChainIndex(task[w].last) <= from THEN End(w)
         ELSE CallTransition(w, NextInChain(status), "rollup")
      /\ UNCHANGED <<status, ships, stock, payment, history>>

(* captureOrderPayment: a read, a gateway call, an update. *)
ReadForCapture(w) ==
  /\ At(w, "capture")
  /\ IF payRef # 0 /\ payStatus = "AUTHORIZED"
     THEN Become(w, [task[w] EXCEPT !.at = "cap_call", !.ref = payRef])
     ELSE End(w)
  /\ UNCHANGED <<status, ships, stock, payment, history>>

(* Mutant of CallCapture: a failed capture goes on as if it had succeeded. *)
CallCaptureUnchecked(w) ==
  /\ At(w, "cap_call")
  /\ gateway' \in
       { gateway, [gateway EXCEPT ![task[w].ref] =
                     IF @ = "authorized" THEN "captured" ELSE @] }
  /\ Go(w, "cap_update")
  /\ UNCHANGED <<status, payStatus, payRef, ships, stock, history>>

CallCapture(w) ==
  /\ At(w, "cap_call")
  /\ GatewayCall(w, task[w].ref, "authorized", "captured", "cap_update")
  /\ UNCHANGED <<status, payStatus, payRef, ships, stock, history>>

UpdateCaptured(w) ==
  /\ At(w, "cap_update")
  /\ payStatus' = "CAPTURED"
  /\ Note("payment", 0, payRef # task[w].ref)
  /\ End(w)
  /\ UNCHANGED <<status, payRef, ships, stock, gateway, crashes, scenario>>

-----------------------------------------------------------------------------
(* The server process dies in the middle of a handler. *)
Crash(w) ==
  /\ ~ At(w, "idle") /\ crashes < scenario.crashes
  /\ crashes' = crashes + 1
  /\ End(w)
  /\ UNCHANGED <<status, ships, stock, payment, scenario, stale>>

(* The steps a started handler takes by itself. *)
Continue(w) ==
  \/ ReadStatus(w) \/ WriteStatus(w) \/ UpdateValidated(w)
  \/ CommitSourcing(w) \/ RefuseSourcing(w)
  \/ (At(w, "c_start") /\ ReadForCancel(w)) \/ ReadAllocations(w)
  \/ \E i \in DOMAIN ships : Deallocate(w, i)
  \/ CancelShipments(w) \/ ReversePayment(w) \/ UpdateReversed(w)
  \/ Dispatch(w) \/ PickCheckOrder(w) \/ PickUpdate(w) \/ Ship(w) \/ PickUp(w)
  \/ MarkReadyForPickup(w) \/ Deliver(w) \/ RollReadShipments(w) \/ RollReadOrder(w)
  \/ ReadForCapture(w) \/ CallCapture(w) \/ UpdateCaptured(w)

(* A request arrives. *)
Call(w) ==
  \/ Authorize(w) \/ CheckSourceable(w) \/ Release(w)
  \/ (Asked(w, "cancel") /\ ReadForCancel(w))
  \/ \E h \in DOMAIN Handlers, i \in DOMAIN ships : RequireShipment(w, h, i)

Next == \E w \in Workers : Call(w) \/ Continue(w) \/ Crash(w)

Spec == Init /\ [][Next]_vars

(* A handler that has started runs to its end unless its server crashes. *)
FairSpec == Spec /\ \A w \in Workers : WF_vars(Continue(w))

-----------------------------------------------------------------------------
PaymentStatus ==
  {"PENDING", "AUTHORIZED", "CAPTURED", "DECLINED", "REFUNDED", "VOIDED"}
AllocationStatus == {"ALLOCATED", "PICKED", "SHIPPED", "CANCELLED"}

TypeOK ==
  /\ status \in DOMAIN TRANSITIONS
  /\ payStatus \in PaymentStatus /\ payRef \in 0 .. Len(gateway)
  /\ \A i \in DOMAIN ships :
       /\ ships[i].node \in Nodes
       /\ ships[i].status \in DOMAIN SHIPMENT_RANK
       /\ ships[i].alloc \in AllocationStatus /\ ships[i].job \in BOOLEAN
  /\ onHand \in [Nodes -> Nat] /\ allocated \in [Nodes -> Nat]

Stale(what, i) == <<what, i>> \in stale
CountAllocs(n, A) ==
  Cardinality({ i \in DOMAIN ships : ships[i].node = n /\ ships[i].alloc \in A })

(* The units a node has allocated are those of other orders plus this       *)
(* order's open allocations, and its on-hand units fall only by what it     *)
(* shipped, whatever overlaps: unless a cancel, a shipping or a collection  *)
(* acted on an allocation of that node which another had meanwhile moved    *)
(* (orders.service.ts:183-206, fulfillment.service.ts:108-133, 222-255).    *)
AllocationsAccounted ==
  \A n \in Nodes :
    \/ /\ allocated[n] = scenario.others[n] + CountAllocs(n, {"ALLOCATED", "PICKED"})
       /\ onHand[n] = scenario.stock[n] - CountAllocs(n, {"SHIPPED"})
    \/ \E i \in DOMAIN ships : ships[i].node = n /\ Stale("allocation", i)

(* fulfillment.service.ts:41-42: an order stands at PICKED, SHIPPED or      *)
(* DELIVERED only when every shipment not cancelled has got that far, also  *)
(* when rollups overlap: unless the order's status was overwritten by one   *)
(* it did not lead to, or a shipment's status by one that had been passed.  *)
RollupSound ==
  \A st \in {"PICKED", "SHIPPED", "DELIVERED"} :
    status = st =>
      \/ Reached(ChainIndex(st) - 2) \/ Stale("status", 0)
      \/ \E i \in DOMAIN ships : Stale("shipment", i)

(* orders.service.ts:174-177: a CANCELLED order holds no allocation (so a   *)
(* shipment that was ready for pickup and stays so depletes nothing when it *)
(* is collected) and has no shipment to pick, whatever ran beside the       *)
(* cancel: unless the order was sourced behind its back, or a handler wrote *)
(* over that shipment on an outdated read.                                  *)
CancelFreesStock ==
  status = "CANCELLED" =>
    \/ Stale("cancel", 0)
    \/ \A i \in DOMAIN ships :
         /\ ships[i].alloc \notin {"ALLOCATED", "PICKED"}
         /\ ships[i].status \in {"PENDING", "PICKED"} => Stale("shipment", i)

(* What the order records of its payment is what the gateway did: a charge  *)
(* recorded as captured, refunded or voided is so at the gateway, unless a  *)
(* validate replaced the charge between a handler's call and its record.    *)
(* Only an order moved back from SHIPPED by an overwritten status can have  *)
(* a refund under way that its record does not show yet.                    *)
PaymentRecordTrue ==
  \/ Stale("payment", 0)
  \/ /\ payStatus = "CAPTURED" => payRef # 0 /\
          (gateway[payRef] = "captured" \/ (gateway[payRef] = "refunded" /\ Stale("status", 0)))
     /\ payStatus = "REFUNDED" => payRef # 0 /\ gateway[payRef] = "refunded"
     /\ payStatus = "VOIDED" => payRef # 0 /\ gateway[payRef] = "voided"

(* fulfillment.service.ts:41-42, the rollup moves the order forward "once   *)
(* *all* its shipments reach a stage": when all are delivered or collected, *)
(* the order becomes DELIVERED or is cancelled, unless a rollup was cut     *)
(* short (nothing repeats it): by a crash, or by another rollup that had    *)
(* moved the order first; or unless a status was overwritten.               *)
DeliveryRollsUp ==
  (Target = "DELIVERED" /\ ChainIndex(status) # 0)
    ~> \/ status \in {"DELIVERED", "CANCELLED"} \/ crashes > 0
       \/ Stale("rollup", 0) \/ Stale("status", 0)
       \/ \E i \in DOMAIN ships : Stale("shipment", i)
=============================================================================
