------------------------------- MODULE Returns -------------------------------
(***************************************************************************)
(* Returns of one delivered order (returns.service.ts): an RMA is created, *)
(* its goods are received and restocked in one transaction, the order is   *)
(* marked RETURNED once everything is back, and the value is refunded at   *)
(* the payment gateway.  Between the transaction and the refund lie four   *)
(* statements and a gateway call; nothing resumes a handler that dies      *)
(* there, and receive checks the RMA's status before its transaction, so   *)
(* that two receipts of one RMA may both pass the check.                   *)
(*                                                                         *)
(* The mock gateway pays every refund.  Stripe pays no more than was       *)
(* charged and answers a repeated idempotency key, made of the order and   *)
(* the amount, with the refund it already made.                            *)
(***************************************************************************)
EXTENDS Sequences, FiniteSets, Sums

CONSTANTS
  Lines,      \* the order's lines
  Ordered,    \* line -> units ordered
  Price,      \* line -> unit price
  SkuOf,      \* line -> its SKU
  Requests,   \* what create may be asked for: dto.lines, each a sequence of
              \* [line, quantity, restock]
  Gateways,   \* the payment providers an instance may be configured with
  Workers,
  MaxReturns, MaxCrashes    \* bounds

Asked == [line : Lines, quantity : Nat, restock : BOOLEAN]

(* An order has a line (order.dto.ts:48, webhook.service.ts:116). *)
ASSUME ReturnsAssumption ==
  /\ Lines # {}
  /\ Ordered \in [Lines -> Nat \ {0}] /\ Price \in [Lines -> Nat]
  /\ Requests \subseteq Seq(Asked) \ {<< >>}
  /\ Gateways \subseteq {"mock", "stripe"}
  /\ MaxReturns \in Nat /\ MaxCrashes \in Nat
  /\ IsFiniteSet(Lines) /\ IsFiniteSet(Workers)

VARIABLES
  status,     \* Order.status
  payStatus,  \* Order.paymentStatus
  rmas,       \* the Return table: [lines, status], and the receipts
              \* (committed transactions) each has had
  overlapped, \* history: the RMAs read as REQUESTED while another handler
              \* had read them so and not yet committed
  onHand,     \* SKU -> units restocked
  gateway,    \* the configured provider
  refunded,   \* money the gateway has paid back
  keys,       \* the amounts Stripe has an idempotency key for
  task, crashes

vars == <<status, payStatus, rmas, overlapped, onHand, gateway, refunded, keys, task, crashes>>
order == <<status, payStatus>>
money == <<gateway, refunded, keys>>

Skus == { SkuOf[l] : l \in Lines }

(* The units of SKU s in the lines of an RMA, what they cost, and what of   *)
(* them goes back on the shelf: each line says whether it does.             *)
OfSku(lines, s) ==
  Sum([j \in DOMAIN lines |-> IF SkuOf[lines[j].line] = s THEN lines[j].quantity ELSE 0],
      DOMAIN lines)
Value(lines) ==
  Sum([j \in DOMAIN lines |-> Price[lines[j].line] * lines[j].quantity], DOMAIN lines)
Restocked(r, s) ==
  Sum([j \in DOMAIN r.lines |-> IF SkuOf[r.lines[j].line] = s /\ r.lines[j].restock
                                THEN r.lines[j].quantity ELSE 0], DOMAIN r.lines)

(* The units of SKU s the order has, and what it cost. *)
OrderedOf(s) == Sum([l \in Lines |-> IF SkuOf[l] = s THEN Ordered[l] ELSE 0], Lines)
Charged == Sum([l \in Lines |-> Price[l] * Ordered[l]], Lines)

Idle == [at |-> "idle", rma |-> 0, amount |-> 0, whole |-> FALSE]
At(w, label) == task[w].at = label
Go(w, label) == task' = [task EXCEPT ![w].at = label]
End(w) == task' = [task EXCEPT ![w] = Idle]
Rma(w) == rmas[task[w].rma]

(* A delivered order; its payment was captured at shipment, or that failed. *)
Init ==
  /\ status = "DELIVERED" /\ payStatus \in {"CAPTURED", "AUTHORIZED"}
  /\ rmas = << >> /\ overlapped = {}
  /\ onHand = [s \in Skus |-> 0]
  /\ gateway \in Gateways /\ refunded = 0 /\ keys = {}
  /\ task = [w \in Workers |-> Idle]
  /\ crashes = 0

-----------------------------------------------------------------------------
(* create: each line of the request is within what was ordered; neither     *)
(* earlier returns nor the request's other lines of the same order line are *)
(* looked at.                                                               *)
Create(w, dto) ==
  /\ At(w, "idle") /\ Len(rmas) < MaxReturns
  /\ status = "DELIVERED"
  /\ \A j \in DOMAIN dto : dto[j].quantity \in 1 .. Ordered[dto[j].line]
  /\ rmas' = Append(rmas, [lines |-> dto, status |-> "REQUESTED", receipts |-> 0])
  /\ UNCHANGED <<order, overlapped, onHand, money, task, crashes>>

Receiving(i) == \E v \in Workers : At(v, "restock") /\ task[v].rma = i
Starts(w, i) == task' = [task EXCEPT ![w].at = "restock", ![w].rma = i]

(* Mutant of ReadRma: the RMA's status is not looked at. *)
ReadAnyRma(w, i) ==
  /\ At(w, "idle") /\ Starts(w, i)
  /\ overlapped' = IF Receiving(i) THEN overlapped \cup {i} ELSE overlapped
  /\ UNCHANGED <<order, rmas, onHand, money, crashes>>

(* receive: the RMA must be REQUESTED when it is read. *)
ReadRma(w, i) ==
  /\ At(w, "idle") /\ rmas[i].status = "REQUESTED"
  /\ Starts(w, i)
  /\ overlapped' = IF Receiving(i) THEN overlapped \cup {i} ELSE overlapped
  /\ UNCHANGED <<order, rmas, onHand, money, crashes>>

(* The transaction: a RETURN movement per restocked line, then COMPLETED,   *)
(* whatever the status has become.                                          *)
Restock(w) ==
  /\ At(w, "restock")
  /\ onHand' = [s \in Skus |-> onHand[s] + Restocked(Rma(w), s)]
  /\ rmas' = [rmas EXCEPT ![task[w].rma].status = "COMPLETED",
                          ![task[w].rma].receipts = @ + 1]
  /\ Go(w, "mark")
  /\ UNCHANGED <<order, overlapped, money, crashes>>

-----------------------------------------------------------------------------
(* maybeMarkOrderReturned *)

Completed == { i \in DOMAIN rmas : rmas[i].status = "COMPLETED" }
UnitsBack(s) == Sum([i \in Completed |-> OfSku(rmas[i].lines, s)], Completed)

FullyReturned == \A s \in Skus : UnitsBack(s) >= OrderedOf(s)

(* Mutant of MarkRead: only the return at hand is held against the order. *)
MarkReadOwnLines(w) ==
  /\ At(w, "mark")
  /\ Go(w, IF status = "DELIVERED" /\ \A s \in Skus : OfSku(Rma(w).lines, s) >= OrderedOf(s)
           THEN "t_read" ELSE "refund")
  /\ UNCHANGED <<order, rmas, overlapped, onHand, money, crashes>>

MarkRead(w) ==
  /\ At(w, "mark")
  /\ Go(w, IF status = "DELIVERED" /\ FullyReturned THEN "t_read" ELSE "refund")
  /\ UNCHANGED <<order, rmas, overlapped, onHand, money, crashes>>

(* transition to RETURNED: a status that is not DELIVERED any more throws   *)
(* and receive ends there, before its refund.                               *)
TransitionRead(w) ==
  /\ At(w, "t_read")
  /\ IF status = "DELIVERED" THEN Go(w, "t_write") ELSE End(w)
  /\ UNCHANGED <<order, rmas, overlapped, onHand, money, crashes>>

TransitionWrite(w) ==
  /\ At(w, "t_write")
  /\ status' = "RETURNED"
  /\ Go(w, "refund")
  /\ UNCHANGED <<payStatus, rmas, overlapped, onHand, money, crashes>>

-----------------------------------------------------------------------------
(* refundReturn *)

ReadForRefund(w) ==
  /\ At(w, "refund")
  /\ IF payStatus = "CAPTURED" /\ Value(Rma(w).lines) > 0
     THEN task' = [task EXCEPT ![w].at = "call", ![w].amount = Value(Rma(w).lines),
                               ![w].whole = status = "RETURNED"]
     ELSE End(w)
  /\ UNCHANGED <<order, rmas, overlapped, onHand, money, crashes>>

Pays(amount) ==
  /\ refunded' = refunded + amount
  /\ keys' = IF gateway = "stripe" THEN keys \cup {amount} ELSE keys

(* Mutant of CallRefund: a refund Stripe refuses or replays is asked for    *)
(* again under a fresh key until it is paid.                                *)
CallRefundFreshKey(w) ==
  /\ At(w, "call")
  /\ Pays(task[w].amount)
  /\ Go(w, "settle") \/ Go(w, "call")
  /\ UNCHANGED <<order, rmas, overlapped, onHand, gateway, crashes>>

(* The gateway pays; Stripe replays a key it knows and refuses what exceeds *)
(* the charge; an answer may be lost after the payment.                     *)
CallRefund(w) ==
  /\ At(w, "call")
  /\ LET n == task[w].amount
         replayed == gateway = "stripe" /\ n \in keys
         refused == gateway = "stripe" /\ refunded + n > Charged
     IN  \/ ~ replayed /\ ~ refused /\ Pays(n) /\ (Go(w, "settle") \/ End(w))
         \/ replayed /\ Go(w, "settle") /\ UNCHANGED <<refunded, keys>>
         \/ ~ replayed /\ refused /\ End(w) /\ UNCHANGED <<refunded, keys>>
  /\ UNCHANGED <<order, rmas, overlapped, onHand, gateway, crashes>>

(* The payment is settled if the order was seen RETURNED. *)
Settle(w) ==
  /\ At(w, "settle")
  /\ payStatus' = IF task[w].whole THEN "REFUNDED" ELSE payStatus
  /\ End(w)
  /\ UNCHANGED <<status, rmas, overlapped, onHand, money, crashes>>

Crash(w) ==
  /\ ~ At(w, "idle") /\ crashes < MaxCrashes
  /\ crashes' = crashes + 1
  /\ End(w)
  /\ UNCHANGED <<order, rmas, overlapped, onHand, money>>

Continue(w) ==
  \/ Restock(w) \/ MarkRead(w) \/ TransitionRead(w) \/ TransitionWrite(w)
  \/ ReadForRefund(w) \/ CallRefund(w) \/ Settle(w)

Next ==
  \E w \in Workers :
    \/ \E dto \in Requests : Create(w, dto)
    \/ \E i \in DOMAIN rmas : ReadRma(w, i)
    \/ Continue(w) \/ Crash(w)

Spec == Init /\ [][Next]_vars

-----------------------------------------------------------------------------
TypeOK ==
  /\ status \in {"DELIVERED", "RETURNED"}
  /\ payStatus \in {"CAPTURED", "AUTHORIZED", "REFUNDED"}
  /\ \A i \in DOMAIN rmas :
       /\ rmas[i].status \in {"REQUESTED", "COMPLETED"}
       /\ rmas[i].receipts > 0 <=> rmas[i].status = "COMPLETED"
  /\ onHand \in [Skus -> Nat] /\ refunded \in Nat

(* returns.service.ts:105: the shelf has the restockable lines of every     *)
(* COMPLETED RMA, and has them once: no crash loses a unit, none is counted *)
(* again, damaged lines stay off it.  More than once is possible only for a *)
(* SKU of an RMA that two handlers read as REQUESTED before either had      *)
(* committed; the check stands outside the transaction.                     *)
RestockAccounted ==
  \A s \in Skus :
    LET once == Sum([i \in Completed |-> Restocked(rmas[i], s)], Completed)
    IN  /\ onHand[s] >= once
        /\ onHand[s] > once => \E i \in overlapped : Restocked(rmas[i], s) > 0

(* returns.service.ts:159: the order is RETURNED only when every SKU of it  *)
(* is back in full, over all of its RMAs; and once the handlers are done    *)
(* and none of them died, an order that is fully back is RETURNED, although *)
(* two receipts may each complete half of it at the same time.              *)
ReturnedIffAllBack ==
  LET allBack == \A s \in Skus : UnitsBack(s) >= OrderedOf(s)
  IN  /\ status = "RETURNED" => allBack
      /\ (allBack /\ (\A w \in Workers : At(w, "idle")) /\ crashes = 0)
           => status = "RETURNED"

(* returns.service.ts:173: money goes back only for goods that came back:   *)
(* the gateway has paid no more than the value of the committed receipts,   *)
(* whatever was lost, replayed or run at the same time; and no more than    *)
(* the value of the COMPLETED RMAs, unless two handlers received the same   *)
(* RMA.                                                                     *)
RefundsEarned ==
  /\ refunded <= Sum([i \in DOMAIN rmas |-> rmas[i].receipts * Value(rmas[i].lines)],
                     DOMAIN rmas)
  /\ refunded > Sum([i \in Completed |-> Value(rmas[i].lines)], Completed)
       => overlapped # {}
=============================================================================
