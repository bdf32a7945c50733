---------------------------- MODULE ReturnsProofs ----------------------------
(***************************************************************************)
(* Proofs about the returns of an order (returns.service.ts), for any      *)
(* lines, prices, number of RMAs, workers and crashes: stock, the order's  *)
(* status and the refunds stay accounted for.                              *)
(*                                                                         *)
(* The refund is made long after the transaction that earned it.  The      *)
(* invariant therefore counts, beside what was paid, what the handlers     *)
(* between their transaction and their gateway call may still pay.         *)
(***************************************************************************)
EXTENDS Returns, SumTheorems

Labels == {"idle", "restock", "mark", "t_read", "t_write", "refund", "call", "settle"}
RmaRow == [lines : Seq(Asked), status : {"REQUESTED", "COMPLETED"}, receipts : Nat]
Task == [at : Labels, rma : Nat, amount : Nat, whole : BOOLEAN]

Types ==
  /\ status \in {"DELIVERED", "RETURNED"}
  /\ payStatus \in {"CAPTURED", "AUTHORIZED", "REFUNDED"}
  /\ rmas \in Seq(RmaRow)
  /\ onHand \in [Skus -> Nat]
  /\ refunded \in Nat /\ crashes \in Nat
  /\ task \in [Workers -> Task]

(* An RMA has receipts exactly if it is COMPLETED. *)
ReceiptsInv ==
  \A i \in DOMAIN rmas : rmas[i].receipts > 0 <=> rmas[i].status = "COMPLETED"

(* A handler works on an RMA; the amount it asks for is that RMA's value. *)
TaskAt(w) ==
  /\ task[w].at # "idle" => task[w].rma \in DOMAIN rmas
  /\ task[w].at = "call" => task[w].amount = Value(Rma(w).lines)
TaskInv == \A w \in Workers : TaskAt(w)

(* Worker w has had its receipt committed and not yet asked for its money. *)
Unpaid(w) == task[w].at \in {"mark", "t_read", "t_write", "refund", "call"}
Owed(w) == IF Unpaid(w) THEN Value(Rma(w).lines) ELSE 0
OwedSum == Sum([w \in Workers |-> Owed(w)], Workers)

Earned == Sum([i \in DOMAIN rmas |-> rmas[i].receipts * Value(rmas[i].lines)],
              DOMAIN rmas)
RefundInv == refunded + OwedSum <= Earned

(* Whoever is about to mark the order has seen it all back; while it is    *)
(* all back and not marked, somebody is about to look or to mark it.       *)
MarkInv ==
  /\ status = "RETURNED" => FullyReturned
  /\ \A w \in Workers : task[w].at \in {"t_read", "t_write"} => FullyReturned
  /\ FullyReturned /\ status = "DELIVERED" /\ crashes = 0 =>
       \E w \in Workers : task[w].at \in {"mark", "t_read", "t_write"}

(* The stock is that of every committed receipt.                           *)
StockInv ==
  \A s \in Skus :
    onHand[s] = Sum([i \in DOMAIN rmas |-> rmas[i].receipts * Restocked(rmas[i], s)],
                    DOMAIN rmas)

(* An RMA that no two handlers read as REQUESTED together is received once: *)
(* whoever is about to do it is alone, and finds it REQUESTED.             *)
Alone(w) ==
  task[w].at = "restock" /\ task[w].rma \notin overlapped =>
    /\ Rma(w).status = "REQUESTED"
    /\ \A v \in Workers \ {w} : task[v].at = "restock" => task[v].rma # task[w].rma
OverlapInv ==
  /\ \A i \in DOMAIN rmas : i \notin overlapped => rmas[i].receipts <= 1
  /\ \A w \in Workers : Alone(w)

Inv ==
  /\ Types /\ ReceiptsInv /\ TaskInv
  /\ RefundInv /\ MarkInv /\ StockInv /\ OverlapInv

-----------------------------------------------------------------------------
(* Quantities, values and the sums over RMAs *)

(* The product of two natural numbers is one, and distributes. *)
LEMMA Products ==
  ASSUME NEW a \in Nat, NEW b \in Nat
  PROVE  a * b \in Nat /\ (a + 1) * b = a * b + b
OBVIOUS

(* Once or more is at least once.                                          *)
LEMMA Repeated ==
  ASSUME NEW a \in Nat, NEW b \in Nat
  PROVE  /\ a >= 1 => b <= a * b
         /\ a = 1 => a * b = b
         /\ a = 0 \/ b = 0 => a * b = 0
<1>1. ASSUME a >= 1 PROVE b <= a * b
  <2>1. a - 1 \in Nat
    BY <1>1
  <2>2. (a - 1) * b \in Nat /\ ((a - 1) + 1) * b = (a - 1) * b + b
    BY <2>1, Products
  <2>3. (a - 1) + 1 = a
    OBVIOUS
  <2> QED BY <2>2, <2>3
<1>2. (a = 1 => a * b = b) /\ (a = 0 \/ b = 0 => a * b = 0)
  OBVIOUS
<1> QED BY <1>1, <1>2

(* Values and units are natural numbers. *)
LEMMA ValueType ==
  ASSUME NEW q \in Seq(Asked), NEW s
  PROVE  Value(q) \in Nat /\ OfSku(q, s) \in Nat
<1>1. Price \in [Lines -> Nat]
  BY ReturnsAssumption
<1>2. /\ IsFiniteSet(DOMAIN q)
      /\ \A j \in DOMAIN q : q[j].line \in Lines /\ q[j].quantity \in Nat
  <2>1. DOMAIN q = 1 .. Len(q) /\ Len(q) \in Int /\ 1 \in Int
    OBVIOUS
  <2>2. \A j \in DOMAIN q : q[j] \in Asked
    OBVIOUS
  <2> QED BY <2>1, <2>2, FS_Interval DEF Asked
<1>3. PICK F : F = [j \in DOMAIN q |-> Price[q[j].line] * q[j].quantity]
  OBVIOUS
<1>4. \A j \in DOMAIN q : F[j] \in Nat
  BY <1>1, <1>2, <1>3, Products
<1>5. PICK G : G = [j \in DOMAIN q |-> IF SkuOf[q[j].line] = s THEN q[j].quantity ELSE 0]
  OBVIOUS
<1>6. \A j \in DOMAIN q : G[j] \in Nat
  BY <1>2, <1>5
<1>7. Sum(F, DOMAIN q) \in Nat /\ Sum(G, DOMAIN q) \in Nat
  BY <1>2, <1>4, <1>6, SumNat
<1> QED BY <1>3, <1>5, <1>7 DEF Value, OfSku

(* So are the units that go back on the shelf. *)
LEMMA ShelfType ==
  ASSUME NEW r, r.lines \in Seq(Asked), NEW s
  PROVE  Restocked(r, s) \in Nat
<1>1. PICK q \in Seq(Asked) : q = r.lines
  OBVIOUS
<1>2. IsFiniteSet(DOMAIN q) /\ \A j \in DOMAIN q : q[j].quantity \in Nat
  <2>1. DOMAIN q = 1 .. Len(q) /\ Len(q) \in Int /\ 1 \in Int
    OBVIOUS
  <2>2. \A j \in DOMAIN q : q[j] \in Asked
    OBVIOUS
  <2> QED BY <2>1, <2>2, FS_Interval DEF Asked
<1>3. PICK G : G = [j \in DOMAIN q |-> IF SkuOf[q[j].line] = s /\ q[j].restock
                                       THEN q[j].quantity ELSE 0]
  OBVIOUS
<1>4. \A j \in DOMAIN q : G[j] \in Nat
  BY <1>2, <1>3
<1>5. Sum(G, DOMAIN q) \in Nat
  BY <1>2, <1>4, SumNat
<1> QED BY <1>1, <1>3, <1>5 DEF Restocked

(* And those the order has. *)
LEMMA OrderedType ==
  ASSUME NEW s
  PROVE  OrderedOf(s) \in Nat
<1>1. PICK F : F = [l \in Lines |-> IF SkuOf[l] = s THEN Ordered[l] ELSE 0]
  OBVIOUS
<1>2. IsFiniteSet(Lines) /\ \A l \in Lines : F[l] \in Nat
  BY <1>1, ReturnsAssumption
<1>3. Sum(F, Lines) \in Nat
  BY <1>2, SumNat
<1> QED BY <1>1, <1>3 DEF OrderedOf

(* The rows of the Return table. *)
LEMMA RmaType ==
  ASSUME rmas \in Seq(RmaRow), NEW i \in DOMAIN rmas
  PROVE  /\ rmas[i] \in RmaRow /\ rmas[i].lines \in Seq(Asked)
         /\ rmas[i].receipts \in Nat /\ Value(rmas[i].lines) \in Nat
         /\ rmas[i].receipts * Value(rmas[i].lines) \in Nat
         /\ \A s : OfSku(rmas[i].lines, s) \in Nat /\ Restocked(rmas[i], s) \in Nat
                   /\ rmas[i].receipts * Restocked(rmas[i], s) \in Nat
<1>1. rmas[i] \in RmaRow
  OBVIOUS
<1>2. rmas[i].lines \in Seq(Asked) /\ rmas[i].receipts \in Nat
  BY <1>1 DEF RmaRow
<1>3. Value(rmas[i].lines) \in Nat /\ \A s : OfSku(rmas[i].lines, s) \in Nat
  BY <1>2, ValueType
<1>4. \A s : Restocked(rmas[i], s) \in Nat
  BY <1>2, ShelfType
<1> QED BY <1>1, <1>2, <1>3, <1>4, Products

(* There are finitely many of them. *)
LEMMA RmasFinite ==
  ASSUME rmas \in Seq(RmaRow)
  PROVE  /\ IsFiniteSet(DOMAIN rmas) /\ IsFiniteSet(Completed)
         /\ Completed \subseteq DOMAIN rmas
<1>1. Len(rmas) \in Nat /\ DOMAIN rmas = 1 .. Len(rmas)
  OBVIOUS
<1>2. 1 \in Int /\ Len(rmas) \in Int
  BY <1>1
<1>3. IsFiniteSet(1 .. Len(rmas))
  BY <1>2, FS_Interval
<1>4. Completed \subseteq DOMAIN rmas
  BY DEF Completed
<1> QED BY <1>1, <1>3, <1>4, FS_Subset

(* What the workers may still pay is a sum of natural numbers. *)
LEMMA OwedType ==
  ASSUME Types, TaskInv
  PROVE  (\A w \in Workers : Owed(w) \in Nat) /\ OwedSum \in Nat
<1>1. ASSUME NEW w \in Workers PROVE Owed(w) \in Nat
  <2>1. CASE Unpaid(w)
    <3>1. task[w].rma \in DOMAIN rmas
      BY <2>1 DEF TaskInv, TaskAt, Unpaid
    <3> QED BY <3>1, RmaType DEF Types, Owed, Rma
  <2>2. CASE ~ Unpaid(w)
    BY <2>2 DEF Owed
  <2> QED BY <2>1, <2>2
<1>2. PICK F : F = [w \in Workers |-> Owed(w)]
  OBVIOUS
<1>3. \A w \in Workers : F[w] \in Nat
  BY <1>1, <1>2
<1>4. Sum(F, Workers) \in Nat
  BY <1>3, ReturnsAssumption, SumNat
<1> QED BY <1>1, <1>2, <1>4 DEF OwedSum

(* The same holds after a step. *)
LEMMA OwedTypeNext ==
  Types' /\ TaskInv' => (\A w \in Workers : Owed(w)' \in Nat) /\ OwedSum' \in Nat
<1>1. Types /\ TaskInv => (\A w \in Workers : Owed(w) \in Nat) /\ OwedSum \in Nat
  BY OwedType
<1>2. (Types /\ TaskInv => (\A w \in Workers : Owed(w) \in Nat) /\ OwedSum \in Nat)'
  BY <1>1, PTL
<1> QED BY <1>2

(* Only what the stepping worker owes changes. *)
LEMMA OwedChange ==
  ASSUME Types, TaskInv, Types', TaskInv', NEW w \in Workers,
         \A v \in Workers \ {w} : task'[v] = task[v],
         \A i \in DOMAIN rmas : i \in DOMAIN rmas' /\ rmas'[i].lines = rmas[i].lines
  PROVE  OwedSum' = OwedSum + Owed(w)' - Owed(w)
<1>1. (\A v \in Workers : Owed(v) \in Int /\ Owed(v)' \in Int)
  <2>1. \A v \in Workers : Owed(v) \in Nat
    BY OwedType
  <2>2. \A v \in Workers : Owed(v)' \in Nat
    BY OwedTypeNext
  <2> QED BY <2>1, <2>2
<1>2. ASSUME NEW v \in Workers \ {w} PROVE Owed(v)' = Owed(v)
  <2>1. CASE Unpaid(v)
    <3>1. task[v].rma \in DOMAIN rmas
      BY <2>1 DEF TaskInv, TaskAt, Unpaid
    <3> QED BY <2>1, <3>1 DEF Owed, Unpaid, Rma
  <2>2. CASE ~ Unpaid(v)
    BY <2>2 DEF Owed, Unpaid
  <2> QED BY <2>1, <2>2
<1>3. PICK F : F = [v \in Workers |-> Owed(v)]
  OBVIOUS
<1>4. PICK G : G = [v \in Workers |-> Owed(v)']
  OBVIOUS
<1>5. /\ \A v \in Workers : F[v] \in Int /\ G[v] \in Int
      /\ \A v \in Workers \ {w} : F[v] = G[v]
      /\ F[w] = Owed(w) /\ G[w] = Owed(w)'
  BY <1>1, <1>2, <1>3, <1>4
<1>6. Sum(G, Workers) = Sum(F, Workers) + G[w] - F[w]
  BY <1>5, ReturnsAssumption, SumChange
<1>7. OwedSum = Sum(F, Workers) /\ OwedSum' = Sum(G, Workers)
  BY <1>3, <1>4 DEF OwedSum
<1> QED BY <1>5, <1>6, <1>7

-----------------------------------------------------------------------------
(* Steps *)

(* A step that leaves a handler and the quantities of the RMAs alone keeps *)
(* what the handler is doing.                                              *)
LEMMA TaskKept ==
  ASSUME TaskInv, NEW v \in Workers, task'[v] = task[v],
         \A i \in DOMAIN rmas : i \in DOMAIN rmas' /\ rmas'[i].lines = rmas[i].lines
  PROVE  TaskAt(v)'
<1>1. TaskAt(v)
  BY DEF TaskInv
<1>2. CASE task[v].at = "idle"
  BY <1>2 DEF TaskAt
<1>3. CASE task[v].at # "idle"
  BY <1>1, <1>3 DEF TaskAt, Rma
<1> QED BY <1>2, <1>3

(* A step of one handler that touches neither the RMAs nor the stock, and  *)
(* pays at most what the handler owed.                                     *)
LEMMA HandlerStep ==
  ASSUME Inv, NEW w \in Workers, rmas' = rmas, onHand' = onHand, Types', OverlapInv',
         \A v \in Workers \ {w} : task'[v] = task[v],
         TaskAt(w)', MarkInv', refunded' + Owed(w)' <= refunded + Owed(w)
  PROVE  Inv'
<1>1. ReceiptsInv' /\ StockInv'
  BY DEF Inv, ReceiptsInv, StockInv, Restocked
<1>2. TaskInv'
  <2>1. ASSUME NEW v \in Workers \ {w} PROVE TaskAt(v)'
    BY TaskKept DEF Inv
  <2> QED BY <2>1 DEF TaskInv
<1>3. RefundInv'
  <2>1. OwedSum' = OwedSum + Owed(w)' - Owed(w)
    BY <1>2, OwedChange DEF Inv
  <2>2. Earned' = Earned
    BY DEF Earned
  <2>3. /\ OwedSum \in Nat /\ Owed(w) \in Nat /\ Owed(w)' \in Nat
        /\ refunded \in Nat /\ refunded' \in Nat
    BY <1>2, OwedType, OwedTypeNext DEF Inv, Types
  <2>4. Earned \in Int
    <3>1. PICK F : F = [i \in DOMAIN rmas |-> rmas[i].receipts * Value(rmas[i].lines)]
      OBVIOUS
    <3>2. \A i \in DOMAIN rmas : F[i] \in Int
      BY <3>1, RmaType DEF Inv, Types
    <3>3. Sum(F, DOMAIN rmas) \in Int
      BY <3>2, RmasFinite, SumType DEF Inv, Types
    <3> QED BY <3>1, <3>3 DEF Earned
  <2> QED BY <2>1, <2>2, <2>3, <2>4 DEF Inv, RefundInv
<1> QED BY <1>1, <1>2, <1>3 DEF Inv

(* The receipts under way are those of before if no handler starts one.    *)
LEMMA OverlapKept ==
  ASSUME Inv, NEW w \in Workers, rmas' = rmas, overlapped' = overlapped,
         task'[w].at # "restock", \A v \in Workers \ {w} : task'[v] = task[v]
  PROVE  OverlapInv'
<1>1. OverlapInv
  BY DEF Inv
<1>2. \A i \in DOMAIN rmas' : i \notin overlapped' => rmas'[i].receipts <= 1
  BY <1>1 DEF OverlapInv
<1>3. ASSUME NEW u \in Workers PROVE Alone(u)'
  <2>1. CASE u = w
    BY <2>1 DEF Alone
  <2>2. CASE u # w
    <3>1. task'[u] = task[u] /\ Alone(u)
      BY <1>1, <2>2 DEF OverlapInv
    <3>2. \A v \in Workers \ {u} : task'[v].at = "restock" => task'[v] = task[v]
      OBVIOUS
    <3> QED BY <3>1, <3>2 DEF Alone, Rma
  <2> QED BY <2>1, <2>2
<1> QED BY <1>2, <1>3 DEF OverlapInv

(* Both together.                                                          *)
LEMMA QuietStep ==
  ASSUME Inv, NEW w \in Workers, rmas' = rmas, onHand' = onHand, Types',
         overlapped' = overlapped, task'[w].at # "restock",
         \A v \in Workers \ {w} : task'[v] = task[v],
         TaskAt(w)', MarkInv', refunded' + Owed(w)' <= refunded + Owed(w)
  PROVE  Inv'
BY OverlapKept, HandlerStep

(* What a change of a handler's label does to its task. *)
LEMMA GoTask ==
  ASSUME Types, NEW w \in Workers, NEW label \in Labels, Go(w, label)
  PROVE  /\ task' \in [Workers -> Task]
         /\ task'[w].at = label /\ task'[w].rma = task[w].rma
         /\ task'[w].amount = task[w].amount
         /\ \A v \in Workers \ {w} : task'[v] = task[v]
<1>1. PICK t : t = [task[w] EXCEPT !.at = label]
  OBVIOUS
<1>2. task[w] \in Task /\ task \in [Workers -> Task]
  BY DEF Types
<1>3. t \in Task /\ t.at = label /\ t.rma = task[w].rma /\ t.amount = task[w].amount
  BY <1>1, <1>2 DEF Task
<1>4. task' = [task EXCEPT ![w] = t]
  BY <1>1 DEF Go
<1> QED BY <1>2, <1>3, <1>4

(* And its end. *)
LEMMA EndTask ==
  ASSUME Types, NEW w \in Workers, End(w)
  PROVE  /\ task' \in [Workers -> Task] /\ task'[w].at = "idle"
         /\ \A v \in Workers \ {w} : task'[v] = task[v]
<1>1. Idle \in Task /\ Idle.at = "idle"
  BY DEF Idle, Task, Labels
<1> QED BY <1>1 DEF Types, End

(* The order is all back after a step that leaves the RMAs alone if it was *)
(* before it.                                                              *)
LEMMA BackKept ==
  ASSUME rmas' = rmas
  PROVE  FullyReturned' = FullyReturned
BY DEF FullyReturned, UnitsBack, Completed

(* receive reads an RMA. *)
LEMMA ReadRmaInv ==
  ASSUME Inv, NEW w \in Workers, NEW i \in DOMAIN rmas, ReadRma(w, i)
  PROVE  Inv'
<1>1. /\ Types /\ MarkInv /\ TaskInv
  BY DEF Inv
<1>2. /\ task[w].at = "idle" /\ rmas' = rmas /\ onHand' = onHand
      /\ status' = status /\ payStatus' = payStatus /\ refunded' = refunded
      /\ crashes' = crashes
  BY DEF ReadRma, order, money, At
<1>3. PICK t : t = [task[w] EXCEPT !.at = "restock", !.rma = i]
  OBVIOUS
<1>4. task[w] \in Task /\ task \in [Workers -> Task] /\ i \in Nat
  BY <1>1 DEF Types
<1>5. t \in Task /\ t.at = "restock" /\ t.rma = i
  BY <1>3, <1>4 DEF Task, Labels
<1>6. task' = [task EXCEPT ![w] = t]
  BY <1>3 DEF ReadRma, Starts
<1>7. /\ task' \in [Workers -> Task] /\ task'[w].at = "restock" /\ task'[w].rma = i
      /\ \A v \in Workers \ {w} : task'[v] = task[v]
  BY <1>4, <1>5, <1>6
<1>8. Types' /\ TaskAt(w)'
  BY <1>1, <1>2, <1>7 DEF Types, TaskAt
<1>9. MarkInv'
  BY <1>1, <1>2, <1>7, BackKept DEF MarkInv
<1>10. Owed(w)' = 0 /\ Owed(w) = 0
  BY <1>2, <1>7 DEF Owed, Unpaid
<1>11. refunded' + Owed(w)' <= refunded + Owed(w)
  BY <1>1, <1>2, <1>10 DEF Types
<1>12. OverlapInv'
  <2>1. /\ OverlapInv /\ rmas[i].status = "REQUESTED" /\ ReceiptsInv
        /\ overlapped' = IF Receiving(i) THEN overlapped \cup {i} ELSE overlapped
    BY DEF Inv, ReadRma
  <2>2. overlapped \subseteq overlapped' /\ (i \notin overlapped' => ~ Receiving(i))
    BY <2>1
  <2>3. \A j \in DOMAIN rmas' : j \notin overlapped' => rmas'[j].receipts <= 1
    BY <1>2, <2>1, <2>2 DEF OverlapInv
  <2>4. ASSUME NEW u \in Workers PROVE Alone(u)'
    <3> SUFFICES ASSUME task'[u].at = "restock", task'[u].rma \notin overlapped'
                 PROVE  /\ Rma(u)'.status = "REQUESTED"
                        /\ \A v \in Workers \ {u} : task'[v].at = "restock"
                             => task'[v].rma # task'[u].rma
      BY DEF Alone
    <3>1. CASE u = w
      <4>1. ~ Receiving(i) /\ Rma(u)'.status = "REQUESTED" /\ task'[u].rma = i
        BY <1>2, <1>7, <2>1, <2>2, <3>1 DEF Rma
      <4>2. \A v \in Workers : task[v].at = "restock" => task[v].rma # i
        BY <4>1 DEF Receiving, At
      <4> QED BY <1>7, <3>1, <4>1, <4>2
    <3>2. CASE u # w
      <4>1. task'[u] = task[u] /\ task[u].rma \notin overlapped /\ Alone(u)
        BY <1>7, <2>1, <2>2, <3>2 DEF OverlapInv
      <4>2. /\ Rma(u).status = "REQUESTED"
            /\ \A v \in Workers \ {u} : task[v].at = "restock" => task[v].rma # task[u].rma
        BY <4>1 DEF Alone
      <4>3. task[u].rma # i
        <5>1. CASE task[u].rma = i
          <6>1. Receiving(i)
            BY <4>1, <5>1 DEF Receiving, At
          <6> QED BY <2>2, <4>1, <5>1, <6>1
        <5> QED BY <5>1
      <4> QED BY <1>2, <1>7, <4>1, <4>2, <4>3 DEF Rma
    <3> QED BY <3>1, <3>2
  <2> QED BY <2>3, <2>4 DEF OverlapInv
<1> QED BY <1>2, <1>7, <1>8, <1>9, <1>11, <1>12, HandlerStep

(* maybeMarkOrderReturned and the two statements of its transition. *)
LEMMA MarkStepsInv ==
  ASSUME Inv, NEW w \in Workers, MarkRead(w) \/ TransitionRead(w) \/ TransitionWrite(w)
  PROVE  Inv'
<1>1. /\ Types /\ MarkInv /\ TaskInv /\ TaskAt(w)
  BY DEF Inv, TaskInv
<1>2. /\ rmas' = rmas /\ onHand' = onHand
      /\ payStatus' = payStatus /\ refunded' = refunded
      /\ crashes' = crashes /\ overlapped' = overlapped
  BY DEF MarkRead, TransitionRead, TransitionWrite, order, money
<1>3. FullyReturned' = FullyReturned
  BY <1>2, BackKept
<1>4. /\ task[w].at \in {"mark", "t_read", "t_write"} /\ Unpaid(w)
      /\ task[w].rma \in DOMAIN rmas /\ Owed(w) = Value(rmas[task[w].rma].lines)
      /\ Owed(w) \in Nat /\ refunded \in Nat
  <2>1. task[w].at \in {"mark", "t_read", "t_write"} /\ Unpaid(w)
    BY DEF MarkRead, TransitionRead, TransitionWrite, At, Unpaid
  <2> QED BY <1>1, <2>1, OwedType DEF TaskAt, Owed, Rma, Types
<1>5. ASSUME NEW label \in {"t_read", "t_write", "refund"}, Go(w, label),
             status' \in {"DELIVERED", "RETURNED"}, MarkInv'
      PROVE  Inv'
  <2>1. /\ task' \in [Workers -> Task]
        /\ task'[w].at = label /\ task'[w].rma = task[w].rma
        /\ task'[w].amount = task[w].amount
        /\ \A v \in Workers \ {w} : task'[v] = task[v]
    BY <1>1, <1>5, GoTask DEF Labels
  <2>2. Types' /\ TaskAt(w)'
    BY <1>1, <1>2, <1>4, <1>5, <2>1 DEF Types, TaskAt
  <2>3. Owed(w)' = Owed(w)
    BY <1>2, <1>4, <2>1 DEF Owed, Unpaid, Rma
  <2>4. refunded' + Owed(w)' <= refunded + Owed(w)
    BY <1>2, <1>4, <2>3
  <2> QED BY <1>2, <1>5, <2>1, <2>2, <2>4, QuietStep
<1>6. CASE MarkRead(w)
  <2>1. status' = status /\ task[w].at = "mark"
    BY <1>6 DEF MarkRead, order, At
  <2>2. CASE status = "DELIVERED" /\ FullyReturned
    <3>1. Go(w, "t_read")
      BY <1>6, <2>2 DEF MarkRead
    <3>2. task'[w].at = "t_read" /\ \A v \in Workers \ {w} : task'[v] = task[v]
      BY <1>1, <3>1, GoTask DEF Labels
    <3>3. MarkInv'
      BY <1>1, <1>2, <1>3, <2>1, <2>2, <3>2 DEF MarkInv
    <3> QED BY <1>1, <1>5, <2>1, <3>1, <3>3 DEF Types
  <2>3. CASE ~ (status = "DELIVERED" /\ FullyReturned)
    <3>1. Go(w, "refund")
      BY <1>6, <2>3 DEF MarkRead
    <3>2. task'[w].at = "refund" /\ \A v \in Workers \ {w} : task'[v] = task[v]
      BY <1>1, <3>1, GoTask DEF Labels
    <3>3. MarkInv'
      BY <1>1, <1>2, <1>3, <2>1, <2>3, <3>2 DEF MarkInv
    <3> QED BY <1>1, <1>5, <2>1, <3>1, <3>3 DEF Types
  <2> QED BY <2>2, <2>3
<1>7. CASE TransitionRead(w)
  <2>1. status' = status /\ task[w].at = "t_read"
    BY <1>7 DEF TransitionRead, order, At
  <2>2. CASE status = "DELIVERED"
    <3>1. Go(w, "t_write")
      BY <1>7, <2>2 DEF TransitionRead
    <3>2. task'[w].at = "t_write" /\ \A v \in Workers \ {w} : task'[v] = task[v]
      BY <1>1, <3>1, GoTask DEF Labels
    <3>3. MarkInv'
      BY <1>1, <1>2, <1>3, <2>1, <2>2, <3>2 DEF MarkInv
    <3> QED BY <1>1, <1>5, <2>1, <3>1, <3>3 DEF Types
  <2>3. CASE status # "DELIVERED"
    <3>1. End(w)
      BY <1>7, <2>3 DEF TransitionRead
    <3>2. /\ task' \in [Workers -> Task] /\ task'[w].at = "idle"
          /\ \A v \in Workers \ {w} : task'[v] = task[v]
      BY <1>1, <3>1, EndTask
    <3>3. MarkInv'
      BY <1>1, <1>2, <1>3, <2>1, <2>3, <3>2 DEF MarkInv
    <3>4. Types' /\ TaskAt(w)'
      BY <1>1, <1>2, <2>1, <3>2 DEF Types, TaskAt
    <3>5. Owed(w)' = 0
      BY <3>2 DEF Owed, Unpaid
    <3>6. refunded' + Owed(w)' <= refunded + Owed(w)
      BY <1>2, <1>4, <3>5
    <3> QED BY <1>2, <3>2, <3>3, <3>4, <3>6, QuietStep
  <2> QED BY <2>2, <2>3
<1>8. CASE TransitionWrite(w)
  <2>1. status' = "RETURNED" /\ task[w].at = "t_write" /\ Go(w, "refund")
    BY <1>8 DEF TransitionWrite, At
  <2>2. task'[w].at = "refund" /\ \A v \in Workers \ {w} : task'[v] = task[v]
    BY <1>1, <2>1, GoTask DEF Labels
  <2>3. FullyReturned
    BY <1>1, <2>1 DEF MarkInv
  <2>4. MarkInv'
    BY <1>1, <1>2, <1>3, <2>1, <2>2, <2>3 DEF MarkInv
  <2> QED BY <1>5, <2>1, <2>4
<1> QED BY <1>6, <1>7, <1>8

(* MarkInv does not depend on a handler that is past marking the order. *)
LEMMA MarkKept ==
  ASSUME MarkInv, NEW w \in Workers, rmas' = rmas, status' = status,
         crashes' = crashes,
         task[w].at \notin {"mark", "t_read", "t_write"},
         task'[w].at \notin {"mark", "t_read", "t_write"},
         \A v \in Workers \ {w} : task'[v] = task[v]
  PROVE  MarkInv'
BY BackKept DEF MarkInv

(* refundReturn up to the gateway, the gateway's answer, and the end. *)
LEMMA RefundStepsInv ==
  ASSUME Inv, NEW w \in Workers, ReadForRefund(w) \/ CallRefund(w) \/ Settle(w)
  PROVE  Inv'
<1>1. /\ Types /\ MarkInv /\ TaskInv /\ TaskAt(w)
      /\ task[w].at \in {"refund", "call", "settle"}
  BY DEF Inv, TaskInv, ReadForRefund, CallRefund, Settle, At
<1>2. /\ rmas' = rmas /\ onHand' = onHand /\ status' = status /\ crashes' = crashes
      /\ overlapped' = overlapped
  BY DEF ReadForRefund, CallRefund, Settle, order, money
<1>3. /\ task[w].rma \in DOMAIN rmas /\ Owed(w) \in Nat /\ refunded \in Nat
      /\ Unpaid(w) => Owed(w) = Value(Rma(w).lines)
  BY <1>1, OwedType DEF TaskAt, Owed, Types
<1>4. ASSUME End(w), refunded' \in Nat, refunded' <= refunded + Owed(w),
             payStatus' \in {"CAPTURED", "AUTHORIZED", "REFUNDED"}
      PROVE  Inv'
  <2>1. /\ task' \in [Workers -> Task] /\ task'[w].at = "idle"
        /\ \A v \in Workers \ {w} : task'[v] = task[v]
    BY <1>1, <1>4, EndTask
  <2>2. Types' /\ TaskAt(w)'
    BY <1>1, <1>2, <1>4, <2>1 DEF Types, TaskAt
  <2>3. MarkInv'
    BY <1>1, <1>2, <2>1, MarkKept
  <2>4. Owed(w)' = 0
    BY <2>1 DEF Owed, Unpaid
  <2>5. refunded' + Owed(w)' <= refunded + Owed(w)
    BY <1>4, <2>4
  <2> QED BY <1>2, <2>1, <2>2, <2>3, <2>5, QuietStep
<1>5. ASSUME Go(w, "settle"), refunded' \in Nat, refunded' <= refunded + Owed(w),
             payStatus' = payStatus
      PROVE  Inv'
  <2>1. /\ task' \in [Workers -> Task] /\ task'[w].at = "settle"
        /\ task'[w].rma = task[w].rma
        /\ \A v \in Workers \ {w} : task'[v] = task[v]
    BY <1>1, <1>5, GoTask DEF Labels
  <2>2. Types' /\ TaskAt(w)'
    BY <1>1, <1>2, <1>3, <1>5, <2>1 DEF Types, TaskAt
  <2>3. MarkInv'
    BY <1>1, <1>2, <2>1, MarkKept
  <2>4. Owed(w)' = 0
    BY <2>1 DEF Owed, Unpaid
  <2>5. refunded' + Owed(w)' <= refunded + Owed(w)
    BY <1>5, <2>4
  <2> QED BY <1>2, <2>1, <2>2, <2>3, <2>5, QuietStep
<1>6. CASE ReadForRefund(w)
  <2>1. task[w].at = "refund" /\ payStatus' = payStatus /\ refunded' = refunded
    BY <1>6 DEF ReadForRefund, At, order, money
  <2>2. CASE End(w)
    BY <1>1, <1>3, <1>4, <2>1, <2>2 DEF Types
  <2>3. CASE task' = [task EXCEPT ![w].at = "call", ![w].amount = Value(Rma(w).lines),
                                  ![w].whole = status = "RETURNED"]
    <3>1. PICK n : n = Value(Rma(w).lines)
      OBVIOUS
    <3>2. PICK b \in BOOLEAN : b = (status = "RETURNED")
      OBVIOUS
    <3>3. PICK t : t = [task[w] EXCEPT !.at = "call", !.amount = n, !.whole = b]
      OBVIOUS
    <3>4. n \in Nat
      BY <1>1, <1>3, <3>1, RmaType DEF Types, Rma
    <3>5. task[w] \in Task /\ task \in [Workers -> Task]
      BY <1>1 DEF Types
    <3>6. t \in Task /\ t.at = "call" /\ t.amount = n /\ t.rma = task[w].rma
      BY <3>3, <3>4, <3>5 DEF Task, Labels
    <3>7. task' = [task EXCEPT ![w] = t]
      BY <2>3, <3>1, <3>2, <3>3
    <3>8. /\ task' \in [Workers -> Task] /\ task'[w].at = "call"
          /\ task'[w].amount = n /\ task'[w].rma = task[w].rma
          /\ \A v \in Workers \ {w} : task'[v] = task[v]
      BY <3>5, <3>6, <3>7
    <3>9. Types' /\ TaskAt(w)'
      BY <1>1, <1>2, <1>3, <2>1, <3>1, <3>8 DEF Types, TaskAt, Rma
    <3>10. MarkInv'
      BY <1>1, <1>2, <3>8, MarkKept
    <3>11. Owed(w)' = Owed(w)
      BY <1>2, <2>1, <3>8 DEF Owed, Unpaid, Rma
    <3>12. refunded' + Owed(w)' <= refunded + Owed(w)
      BY <1>3, <2>1, <3>11
    <3> QED BY <1>2, <3>8, <3>9, <3>10, <3>12, QuietStep
  <2> QED BY <1>6, <2>2, <2>3 DEF ReadForRefund
<1>7. CASE CallRefund(w)
  <2>1. /\ task[w].at = "call" /\ payStatus' = payStatus
        /\ Owed(w) = task[w].amount
    BY <1>1, <1>3, <1>7 DEF CallRefund, At, order, TaskAt, Unpaid
  <2>2. refunded' \in {refunded, refunded + task[w].amount} /\ (Go(w, "settle") \/ End(w))
    BY <1>7 DEF CallRefund, Pays
  <2>3. refunded' \in Nat /\ refunded' <= refunded + Owed(w)
    BY <1>3, <2>1, <2>2
  <2> QED BY <1>1, <1>4, <1>5, <2>1, <2>2, <2>3 DEF Types
<1>8. CASE Settle(w)
  <2>1. /\ End(w) /\ refunded' = refunded
        /\ payStatus' \in {payStatus, "REFUNDED"}
    BY <1>8 DEF Settle, money
  <2> QED BY <1>1, <1>3, <1>4, <2>1 DEF Types
<1> QED BY <1>6, <1>7, <1>8

(* A handler that dies pays nothing any more. *)
LEMMA CrashInv ==
  ASSUME Inv, NEW w \in Workers, Crash(w)
  PROVE  Inv'
<1>1. /\ Types /\ MarkInv /\ TaskInv
  BY DEF Inv
<1>2. /\ rmas' = rmas /\ onHand' = onHand /\ status' = status
      /\ payStatus' = payStatus /\ refunded' = refunded
      /\ crashes' = crashes + 1 /\ End(w) /\ overlapped' = overlapped
  BY DEF Crash, order, money
<1>3. /\ task' \in [Workers -> Task] /\ task'[w].at = "idle"
      /\ \A v \in Workers \ {w} : task'[v] = task[v]
  BY <1>1, <1>2, EndTask
<1>4. Types' /\ TaskAt(w)' /\ crashes' # 0
  BY <1>1, <1>2, <1>3 DEF Types, TaskAt
<1>5. MarkInv'
  BY <1>1, <1>2, <1>3, <1>4, BackKept DEF MarkInv
<1>6. Owed(w)' = 0 /\ Owed(w) \in Nat /\ refunded \in Nat
  BY <1>1, <1>3, OwedType DEF Owed, Unpaid, Types
<1>7. refunded' + Owed(w)' <= refunded + Owed(w)
  BY <1>2, <1>6
<1> QED BY <1>2, <1>3, <1>4, <1>5, <1>7, QuietStep

(* One more RMA counts for nothing before it is received. *)
LEMMA CreateInv ==
  ASSUME Inv, NEW w \in Workers, NEW dto \in Requests, Create(w, dto)
  PROVE  Inv'
<1>1. /\ Types /\ MarkInv /\ TaskInv /\ ReceiptsInv /\ RefundInv /\ StockInv
      /\ rmas \in Seq(RmaRow)
  BY DEF Inv, Types
<1>2. /\ status' = status /\ payStatus' = payStatus /\ onHand' = onHand
      /\ refunded' = refunded /\ crashes' = crashes /\ task' = task
      /\ overlapped' = overlapped
  BY DEF Create, order, money
<1>3. PICK d : d = [lines |-> dto, status |-> "REQUESTED", receipts |-> 0]
  OBVIOUS
<1>4. d \in RmaRow /\ d.receipts = 0 /\ d.status = "REQUESTED"
  <2>1. dto \in Seq(Asked)
    BY ReturnsAssumption
  <2> QED BY <1>3, <2>1 DEF RmaRow
<1>5. PICK k : k = Len(rmas) + 1
  OBVIOUS
<1>6. rmas' = Append(rmas, d)
  BY <1>3 DEF Create
<1>7. /\ rmas' \in Seq(RmaRow) /\ DOMAIN rmas' = DOMAIN rmas \cup {k}
      /\ k \notin DOMAIN rmas /\ rmas'[k] = d
      /\ \A i \in DOMAIN rmas : rmas'[i] = rmas[i]
  BY <1>1, <1>4, <1>5, <1>6
<1>8. Types' /\ ReceiptsInv'
  BY <1>1, <1>2, <1>4, <1>7 DEF Types, ReceiptsInv
<1>9. TaskInv'
  <2>1. ASSUME NEW v \in Workers PROVE TaskAt(v)'
    BY <1>1, <1>2, <1>7, TaskKept
  <2> QED BY <2>1 DEF TaskInv
<1>10. IsFiniteSet(DOMAIN rmas) /\ Completed \subseteq DOMAIN rmas
  BY <1>1, RmasFinite
<1>11. MarkInv'
  <2>1. Completed' = Completed
    BY <1>4, <1>7 DEF Completed
  <2>2. \A s : UnitsBack(s)' = UnitsBack(s)
    BY <1>7, <1>10, <2>1 DEF UnitsBack
  <2>3. FullyReturned' = FullyReturned
    BY <2>2 DEF FullyReturned
  <2> QED BY <1>1, <1>2, <2>3 DEF MarkInv
<1>12. RefundInv'
  <2>1. OwedSum' = OwedSum + Owed(w)' - Owed(w)
    BY <1>1, <1>2, <1>7, <1>8, <1>9, OwedChange
  <2>2. Owed(w)' = Owed(w) /\ Owed(w) \in Nat /\ OwedSum \in Nat
    <3>1. task[w].at = "idle"
      BY DEF Create, At
    <3> QED BY <1>1, <1>2, <3>1, OwedType DEF Owed, Unpaid
  <2>3. PICK F : F = [i \in DOMAIN rmas |-> rmas[i].receipts * Value(rmas[i].lines)]
    OBVIOUS
  <2>4. PICK G : G = [i \in DOMAIN rmas' |-> rmas'[i].receipts * Value(rmas'[i].lines)]
    OBVIOUS
  <2>5. \A i \in DOMAIN rmas : F[i] \in Int
    BY <1>1, <2>3, RmaType
  <2>6. \A i \in DOMAIN rmas : G[i] = F[i]
    BY <1>7, <2>3, <2>4
  <2>7. G[k] = 0
    <3>1. Value(d.lines) \in Nat
      BY <1>4, ValueType DEF RmaRow
    <3> QED BY <1>4, <1>7, <2>4, <3>1
  <2>8. G[k] \in Int
    BY <2>7
  <2>9. Sum(G, DOMAIN rmas \cup {k}) = Sum(F, DOMAIN rmas) + G[k]
    <3>1. IsFiniteSet(DOMAIN rmas) /\ k \notin DOMAIN rmas
      BY <1>7, <1>10
    <3> QED BY <2>5, <2>6, <2>8, <3>1, SumGrows
  <2>10. Sum(F, DOMAIN rmas) \in Int
    BY <1>10, <2>5, SumType
  <2>11. Earned' = Earned
    BY <1>7, <2>3, <2>4, <2>7, <2>9, <2>10 DEF Earned
  <2> QED BY <1>1, <1>2, <2>1, <2>2, <2>11 DEF RefundInv
<1>13. StockInv'
  <2> SUFFICES ASSUME NEW s \in Skus
               PROVE  onHand[s] = Sum([i \in DOMAIN rmas' |->
                        rmas'[i].receipts * Restocked(rmas'[i], s)], DOMAIN rmas')
    BY <1>2 DEF StockInv, Restocked
  <2>1. PICK F : F = [i \in DOMAIN rmas |-> rmas[i].receipts * Restocked(rmas[i], s)]
    OBVIOUS
  <2>2. PICK G : G = [i \in DOMAIN rmas' |-> rmas'[i].receipts * Restocked(rmas'[i], s)]
    OBVIOUS
  <2>3. \A i \in DOMAIN rmas : F[i] \in Int
    BY <1>1, <2>1, RmaType
  <2>4. \A i \in DOMAIN rmas : G[i] = F[i]
    BY <1>7, <2>1, <2>2
  <2>5. G[k] = 0
    <3>1. Restocked(d, s) \in Nat
      <4>1. d.lines \in Seq(Asked)
        BY <1>4 DEF RmaRow
      <4> QED BY <4>1, ShelfType
    <3> QED BY <1>4, <1>7, <2>2, <3>1
  <2>6. G[k] \in Int
    BY <2>5
  <2>7. Sum(G, DOMAIN rmas \cup {k}) = Sum(F, DOMAIN rmas) + G[k]
    <3>1. IsFiniteSet(DOMAIN rmas) /\ k \notin DOMAIN rmas
      BY <1>7, <1>10
    <3> QED BY <2>3, <2>4, <2>6, <3>1, SumGrows
  <2>8. Sum(F, DOMAIN rmas) \in Int
    BY <1>10, <2>3, SumType
  <2>9. onHand[s] = Sum(F, DOMAIN rmas)
    BY <1>1, <2>1 DEF StockInv
  <2> QED BY <1>7, <2>2, <2>5, <2>7, <2>8, <2>9
<1>14. OverlapInv'
  <2>1. OverlapInv
    BY DEF Inv
  <2>2. \A i \in DOMAIN rmas' : i \notin overlapped' => rmas'[i].receipts <= 1
    BY <1>2, <1>4, <1>7, <2>1 DEF OverlapInv
  <2>3. ASSUME NEW u \in Workers PROVE Alone(u)'
    <3>1. Alone(u) /\ (task[u].at = "restock" => task[u].rma \in DOMAIN rmas)
      BY <1>1, <2>1 DEF OverlapInv, TaskInv, TaskAt
    <3> QED BY <1>2, <1>7, <3>1 DEF Alone, Rma
  <2> QED BY <2>2, <2>3 DEF OverlapInv
<1> QED BY <1>8, <1>9, <1>11, <1>12, <1>13, <1>14 DEF Inv

(* The transaction of a receipt earns what the handler may refund. *)
LEMMA RestockInv ==
  ASSUME Inv, NEW w \in Workers, Restock(w)
  PROVE  Inv'
<1>1. /\ Types /\ MarkInv /\ TaskInv /\ ReceiptsInv /\ RefundInv /\ StockInv
      /\ rmas \in Seq(RmaRow) /\ TaskAt(w)
  BY DEF Inv, Types, TaskInv
<1>2. /\ status' = status /\ payStatus' = payStatus
      /\ refunded' = refunded /\ crashes' = crashes /\ overlapped' = overlapped
      /\ task[w].at = "restock" /\ Go(w, "mark")
      /\ onHand' = [s \in Skus |-> onHand[s] + Restocked(Rma(w), s)]
  BY DEF Restock, order, money, At
<1>3. PICK k : k = task[w].rma
  OBVIOUS
<1>4. /\ k \in DOMAIN rmas /\ rmas[k] \in RmaRow /\ rmas[k].receipts \in Nat
  BY <1>1, <1>2, <1>3, RmaType DEF TaskAt
<1>5. PICK d : d = [rmas[k] EXCEPT !.status = "COMPLETED", !.receipts = rmas[k].receipts + 1]
  OBVIOUS
<1>6. /\ d \in RmaRow /\ d.status = "COMPLETED" /\ d.receipts = rmas[k].receipts + 1
      /\ d.lines = rmas[k].lines
  <2>1. PICK n \in Nat : n = rmas[k].receipts + 1
    BY <1>4
  <2>2. d = [rmas[k] EXCEPT !.status = "COMPLETED", !.receipts = n]
    BY <1>5, <2>1
  <2>3. /\ d \in RmaRow /\ d.status = "COMPLETED" /\ d.receipts = n
        /\ d.lines = rmas[k].lines
    BY <1>4, <2>2 DEF RmaRow
  <2> QED BY <2>1, <2>3
<1>7. rmas' = [rmas EXCEPT ![k] = d]
  BY <1>1, <1>3, <1>4, <1>5 DEF Restock
<1>8. /\ rmas' \in Seq(RmaRow) /\ DOMAIN rmas' = DOMAIN rmas /\ rmas'[k] = d
      /\ \A i \in DOMAIN rmas \ {k} : rmas'[i] = rmas[i]
  BY <1>1, <1>4, <1>6, <1>7
<1>9. \A i \in DOMAIN rmas : rmas'[i].lines = rmas[i].lines
  BY <1>6, <1>8
<1>10. /\ task' \in [Workers -> Task]
       /\ task'[w].at = "mark" /\ task'[w].rma = k
       /\ \A v \in Workers \ {w} : task'[v] = task[v]
  BY <1>1, <1>2, <1>3, GoTask DEF Labels
<1>11. \A s \in Skus : Restocked(rmas[k], s) \in Nat /\ onHand[s] \in Nat
  BY <1>1, <1>4, RmaType DEF Types
<1>12. Types' /\ ReceiptsInv'
  <2>1. onHand' \in [Skus -> Nat]
    BY <1>2, <1>3, <1>11 DEF Rma
  <2>2. ReceiptsInv'
    BY <1>1, <1>4, <1>6, <1>8 DEF ReceiptsInv
  <2> QED BY <1>1, <1>2, <1>8, <1>10, <2>1, <2>2 DEF Types
<1>13. TaskInv'
  <2>1. ASSUME NEW v \in Workers \ {w} PROVE TaskAt(v)'
    BY <1>1, <1>8, <1>9, <1>10, TaskKept
  <2>2. TaskAt(w)'
    BY <1>4, <1>8, <1>10 DEF TaskAt
  <2> QED BY <2>1, <2>2 DEF TaskInv
<1>14. /\ IsFiniteSet(DOMAIN rmas) /\ IsFiniteSet(Completed)
       /\ Completed \subseteq DOMAIN rmas
  BY <1>1, RmasFinite
<1>15. MarkInv'
  <2>1. Completed' = Completed \cup {k}
    BY <1>4, <1>6, <1>8 DEF Completed
  <2>2. ASSUME NEW s \in Skus
        PROVE  /\ UnitsBack(s)' >= UnitsBack(s)
               /\ UnitsBack(s) \in Int /\ UnitsBack(s)' \in Int
    <3>1. PICK F : F = [i \in Completed |-> OfSku(rmas[i].lines, s)]
      OBVIOUS
    <3>2. PICK G : G = [i \in Completed' |-> OfSku(rmas'[i].lines, s)]
      OBVIOUS
    <3>3. \A i \in Completed : F[i] \in Int
      <4>1. \A i \in DOMAIN rmas : OfSku(rmas[i].lines, s) \in Nat
        BY <1>1, RmaType
      <4> QED BY <1>14, <3>1, <4>1
    <3>4. \A i \in Completed : G[i] = F[i]
      BY <1>9, <1>14, <2>1, <3>1, <3>2
    <3>5. UnitsBack(s) = Sum(F, Completed) /\ UnitsBack(s)' = Sum(G, Completed')
      BY <3>1, <3>2 DEF UnitsBack, OfSku
    <3>6. Sum(F, Completed) \in Int
      BY <1>14, <3>3, SumType
    <3>7. CASE k \in Completed
      <4>1. Completed' = Completed
        BY <2>1, <3>7
      <4>2. Sum(F, Completed) = Sum(G, Completed)
        BY <1>14, <3>3, <3>4, SumSame
      <4> QED BY <3>5, <3>6, <4>1, <4>2
    <3>8. CASE k \notin Completed
      <4>1. G[k] \in Nat
        BY <1>1, <1>4, <1>9, <2>1, <3>2, RmaType
      <4>2. G[k] \in Int
        BY <4>1
      <4>3. Sum(G, Completed \cup {k}) = Sum(F, Completed) + G[k]
        BY <1>14, <3>3, <3>4, <3>8, <4>2, SumGrows
      <4> QED BY <2>1, <3>5, <3>6, <4>1, <4>3
    <3> QED BY <3>7, <3>8
  <2>3. FullyReturned => FullyReturned'
    <3>1. \A s \in Skus : OrderedOf(s) \in Nat
      BY OrderedType
    <3>2. ASSUME NEW s \in Skus, UnitsBack(s) >= OrderedOf(s)
          PROVE  UnitsBack(s)' >= OrderedOf(s)
      BY <2>2, <3>1, <3>2
    <3> QED BY <3>2 DEF FullyReturned
  <2> QED BY <1>1, <1>2, <1>10, <2>3 DEF MarkInv
<1>16. RefundInv'
  <2>1. OwedSum' = OwedSum + Owed(w)' - Owed(w)
    BY <1>1, <1>8, <1>9, <1>10, <1>12, <1>13, OwedChange
  <2>2. /\ Owed(w) = 0 /\ Owed(w)' = Value(rmas[k].lines) /\ OwedSum \in Nat
    BY <1>1, <1>2, <1>4, <1>9, <1>10, OwedType DEF Owed, Unpaid, Rma
  <2>3. PICK v \in Nat : v = Value(rmas[k].lines)
    BY <1>1, <1>4, RmaType
  <2>4. PICK F : F = [i \in DOMAIN rmas |-> rmas[i].receipts * Value(rmas[i].lines)]
    OBVIOUS
  <2>5. PICK G : G = [i \in DOMAIN rmas' |-> rmas'[i].receipts * Value(rmas'[i].lines)]
    OBVIOUS
  <2>6. \A i \in DOMAIN rmas : F[i] \in Int
    BY <1>1, <2>4, RmaType
  <2>7. \A i \in DOMAIN rmas \ {k} : F[i] = G[i]
    BY <1>8, <2>4, <2>5
  <2>8. G[k] = F[k] + v /\ F[k] \in Int
    <3>1. F[k] = rmas[k].receipts * v /\ G[k] = (rmas[k].receipts + 1) * v
      BY <1>4, <1>6, <1>8, <2>3, <2>4, <2>5
    <3>2. (rmas[k].receipts + 1) * v = rmas[k].receipts * v + v
      BY <1>4, <2>3, Products
    <3>3. F[k] \in Int
      BY <1>4, <2>6
    <3> QED BY <3>1, <3>2, <3>3
  <2>9. \A i \in DOMAIN rmas : G[i] \in Int
    BY <2>3, <2>6, <2>7, <2>8
  <2>10. Sum(G, DOMAIN rmas) = Sum(F, DOMAIN rmas) + G[k] - F[k]
    BY <1>4, <1>14, <2>6, <2>7, <2>9, SumChange
  <2>11. Sum(F, DOMAIN rmas) \in Int
    BY <1>14, <2>6, SumType
  <2>12. Earned = Sum(F, DOMAIN rmas) /\ Earned' = Sum(G, DOMAIN rmas)
    BY <1>8, <2>4, <2>5 DEF Earned, Value
  <2>13. Earned' = Earned + v /\ Earned \in Int
    BY <2>3, <2>8, <2>10, <2>11, <2>12
  <2>14. OwedSum' = OwedSum + v
    BY <2>1, <2>2, <2>3
  <2>15. refunded \in Nat /\ refunded + OwedSum <= Earned
    BY <1>1 DEF Types, RefundInv
  <2> QED BY <1>2, <2>2, <2>3, <2>13, <2>14, <2>15 DEF RefundInv
<1>17. StockInv'
  <2> SUFFICES ASSUME NEW s \in Skus
               PROVE  onHand'[s] = Sum([i \in DOMAIN rmas' |->
                        rmas'[i].receipts * Restocked(rmas'[i], s)], DOMAIN rmas')
    BY DEF StockInv, Restocked
  <2>1. PICK v \in Nat : v = Restocked(rmas[k], s)
    BY <1>11
  <2>2. onHand'[s] = onHand[s] + v
    BY <1>2, <1>3, <2>1 DEF Rma
  <2>3. PICK F : F = [i \in DOMAIN rmas |-> rmas[i].receipts * Restocked(rmas[i], s)]
    OBVIOUS
  <2>4. PICK G : G = [i \in DOMAIN rmas' |-> rmas'[i].receipts * Restocked(rmas'[i], s)]
    OBVIOUS
  <2>5. \A i \in DOMAIN rmas : F[i] \in Int
    BY <1>1, <2>3, RmaType
  <2>6. \A i \in DOMAIN rmas \ {k} : F[i] = G[i]
    BY <1>8, <2>3, <2>4
  <2>7. Restocked(d, s) = v
    BY <1>6, <2>1 DEF Restocked
  <2>8. G[k] = F[k] + v /\ F[k] \in Int
    <3>1. F[k] = rmas[k].receipts * v /\ G[k] = (rmas[k].receipts + 1) * v
      BY <1>4, <1>6, <1>8, <2>1, <2>3, <2>4, <2>7
    <3>2. (rmas[k].receipts + 1) * v = rmas[k].receipts * v + v
      BY <1>4, <2>1, Products
    <3>3. F[k] \in Int
      BY <1>4, <2>5
    <3> QED BY <3>1, <3>2, <3>3
  <2>9. \A i \in DOMAIN rmas : G[i] \in Int
    BY <2>1, <2>5, <2>6, <2>8
  <2>10. Sum(G, DOMAIN rmas) = Sum(F, DOMAIN rmas) + G[k] - F[k]
    BY <1>4, <1>14, <2>5, <2>6, <2>9, SumChange
  <2>11. Sum(F, DOMAIN rmas) \in Int
    BY <1>14, <2>5, SumType
  <2>12. onHand[s] = Sum(F, DOMAIN rmas)
    BY <1>1, <2>3 DEF StockInv
  <2>13. Sum(G, DOMAIN rmas) = Sum(F, DOMAIN rmas) + v
    BY <2>1, <2>8, <2>10, <2>11
  <2> QED BY <1>8, <2>2, <2>4, <2>12, <2>13
<1>18. OverlapInv'
  <2>1. OverlapInv /\ Alone(w) /\ ReceiptsInv
    BY DEF Inv, OverlapInv
  <2>2. k \notin overlapped => d.receipts = 1
    <3>1. k \notin overlapped => rmas[k].status = "REQUESTED"
      BY <1>2, <1>3, <2>1 DEF Alone, Rma
    <3>2. rmas[k].status = "REQUESTED" => rmas[k].receipts = 0
      BY <1>4, <2>1 DEF ReceiptsInv
    <3> QED BY <1>6, <3>1, <3>2
  <2>3. \A i \in DOMAIN rmas' : i \notin overlapped' => rmas'[i].receipts <= 1
    BY <1>2, <1>8, <2>1, <2>2 DEF OverlapInv
  <2>4. ASSUME NEW u \in Workers PROVE Alone(u)'
    <3>1. CASE u = w
      BY <1>10, <3>1 DEF Alone
    <3>2. CASE u # w
      <4>1. task'[u] = task[u] /\ Alone(u)
        BY <1>10, <2>1, <3>2 DEF OverlapInv
      <4>2. task[u].at = "restock" /\ task[u].rma \notin overlapped
              => task[u].rma # k /\ task[u].rma \in DOMAIN rmas
        BY <1>1, <1>2, <1>3, <3>2, <4>1 DEF Alone, TaskInv, TaskAt
      <4>3. \A v \in Workers \ {u} : task'[v].at = "restock" => task'[v] = task[v]
        BY <1>10
      <4> QED BY <1>2, <1>8, <4>1, <4>2, <4>3 DEF Alone, Rma
    <3> QED BY <3>1, <3>2
  <2> QED BY <2>3, <2>4 DEF OverlapInv
<1> QED BY <1>12, <1>13, <1>15, <1>16, <1>17, <1>18 DEF Inv

-----------------------------------------------------------------------------
(* A delivered order without returns. *)
LEMMA InitInv == Init => Inv
<1> SUFFICES ASSUME Init PROVE Inv
  OBVIOUS
<1>1. Types /\ ReceiptsInv
  BY DEF Init, Types, ReceiptsInv, Idle, Task, Labels
<1>2. \A w \in Workers : task[w].at = "idle"
  BY DEF Init, Idle
<1>3. TaskInv
  BY <1>2 DEF TaskInv, TaskAt
<1>4. DOMAIN rmas = {} /\ Completed = {}
  BY DEF Init, Completed
<1>5. StockInv
  BY <1>4, SumEmpty DEF Init, StockInv
<1>6. Earned = 0
  BY <1>4, SumEmpty DEF Earned
<1>7. OwedSum = 0
  <2>1. PICK F : F = [w \in Workers |-> Owed(w)]
    OBVIOUS
  <2>2. \A w \in Workers : F[w] = 0
    BY <1>2, <2>1 DEF Owed, Unpaid
  <2>3. Sum(F, Workers) = 0
    BY <2>2, ReturnsAssumption, SumZero
  <2> QED BY <2>1, <2>3 DEF OwedSum
<1>10. OverlapInv
  BY <1>2, <1>4 DEF OverlapInv, Alone
<1>8. RefundInv
  BY <1>6, <1>7 DEF Init, RefundInv
<1>9. MarkInv
  <2>1. status = "DELIVERED"
    BY DEF Init
  <2>2. FullyReturned => FALSE
    <3> SUFFICES ASSUME FullyReturned PROVE FALSE
      OBVIOUS
    <3>1. PICK l \in Lines : TRUE
      BY ReturnsAssumption
    <3>2. PICK s : s = SkuOf[l]
      OBVIOUS
    <3>3. PICK F : F = [x \in Lines |-> IF SkuOf[x] = s THEN Ordered[x] ELSE 0]
      OBVIOUS
    <3>4. \A x \in Lines : F[x] \in Nat /\ F[x] \in Int
      BY <3>3, ReturnsAssumption
    <3>5. IsFiniteSet(Lines) /\ IsFiniteSet(Lines \ {l})
      BY ReturnsAssumption, FS_RemoveElement
    <3>6. Sum(F, Lines) = F[l] + Sum(F, Lines \ {l})
      BY <3>1, <3>4, <3>5, SumRemove
    <3>7. Sum(F, Lines \ {l}) \in Nat
      BY <3>4, <3>5, SumNat
    <3>8. F[l] \in Nat \ {0}
      BY <3>1, <3>2, <3>3, ReturnsAssumption
    <3>9. OrderedOf(s) > 0
      BY <3>3, <3>6, <3>7, <3>8 DEF OrderedOf
    <3>10. UnitsBack(s) = 0
      BY <1>4, SumEmpty DEF UnitsBack
    <3>11. UnitsBack(s) >= OrderedOf(s)
      BY <3>1, <3>2 DEF FullyReturned, Skus
    <3>12. OrderedOf(s) \in Int
      BY <3>3, <3>6, <3>7, <3>8 DEF OrderedOf
    <3> QED BY <3>9, <3>10, <3>11, <3>12
  <2> QED BY <1>2, <2>1, <2>2 DEF MarkInv
<1> QED BY <1>1, <1>3, <1>5, <1>8, <1>9, <1>10 DEF Inv

(* Every step keeps the invariant. *)
LEMMA NextInv == Inv /\ [Next]_vars => Inv'
<1> SUFFICES ASSUME Inv, [Next]_vars PROVE Inv'
  OBVIOUS
<1>1. CASE UNCHANGED vars
  <2>1. /\ status' = status /\ payStatus' = payStatus /\ rmas' = rmas
        /\ onHand' = onHand /\ refunded' = refunded /\ task' = task
        /\ crashes' = crashes /\ overlapped' = overlapped
    BY <1>1 DEF vars
  <2>2. FullyReturned' = FullyReturned
    BY <2>1, BackKept
  <2>3. Types' /\ ReceiptsInv' /\ TaskInv' /\ MarkInv'
    BY <2>1, <2>2 DEF Inv, Types, ReceiptsInv, TaskInv, TaskAt, MarkInv, Rma
  <2>4. RefundInv' /\ StockInv'
    BY <2>1 DEF Inv, RefundInv, StockInv, OwedSum, Owed, Unpaid, Rma, Earned
  <2>5. OverlapInv'
    BY <2>1 DEF Inv, OverlapInv, Alone, Rma
  <2> QED BY <2>3, <2>4, <2>5 DEF Inv
<1>2. ASSUME NEW w \in Workers, NEW dto \in Requests, Create(w, dto)
      PROVE  Inv'
  BY <1>2, CreateInv
<1>3. ASSUME NEW w \in Workers, NEW i \in DOMAIN rmas, ReadRma(w, i)
      PROVE  Inv'
  BY <1>3, ReadRmaInv
<1>4. ASSUME NEW w \in Workers, Continue(w)
      PROVE  Inv'
  BY <1>4, RestockInv, MarkStepsInv, RefundStepsInv DEF Continue
<1>5. ASSUME NEW w \in Workers, Crash(w)
      PROVE  Inv'
  BY <1>5, CrashInv
<1> QED BY <1>1, <1>2, <1>3, <1>4, <1>5 DEF Next

(* The invariant of the service. *)
THEOREM ReturnsInvariance == Spec => []Inv
<1>1. Init => Inv
  BY InitInv
<1>2. Inv /\ [Next]_vars => Inv'
  BY NextInv
<1> QED BY <1>1, <1>2, PTL DEF Spec

(* The tables keep their types, and an RMA has had a receipt exactly when  *)
(* it is COMPLETED.                                                        *)
THEOREM ReturnsTyped == Spec => []TypeOK
<1>1. Inv => TypeOK
  <2> SUFFICES ASSUME Inv PROVE TypeOK
    OBVIOUS
  <2>1. \A i \in DOMAIN rmas : rmas[i].status \in {"REQUESTED", "COMPLETED"}
    <3>1. \A i \in DOMAIN rmas : rmas[i] \in RmaRow
      BY DEF Inv, Types
    <3> QED BY <3>1 DEF RmaRow
  <2> QED BY <2>1 DEF Inv, Types, ReceiptsInv, TypeOK
<1> QED BY <1>1, ReturnsInvariance, PTL

(* What the COMPLETED RMAs count for, against what all receipts do: never  *)
(* more, and the same if what was received twice counts for nothing.       *)
LEMMA OnceOrMore ==
  ASSUME Inv, NEW V, \A i \in DOMAIN rmas : V[i] \in Nat,
         NEW G, \A i \in Completed : G[i] = V[i],
         NEW F, \A i \in DOMAIN rmas : F[i] = rmas[i].receipts * V[i]
  PROVE  /\ Sum(G, Completed) \in Int /\ Sum(F, DOMAIN rmas) \in Int
         /\ Sum(G, Completed) <= Sum(F, DOMAIN rmas)
         /\ (\A i \in overlapped : i \in DOMAIN rmas => V[i] = 0)
              => Sum(F, DOMAIN rmas) = Sum(G, Completed)
<1>1. /\ IsFiniteSet(DOMAIN rmas) /\ IsFiniteSet(Completed)
      /\ Completed \subseteq DOMAIN rmas
  BY RmasFinite DEF Inv, Types
<1>2. \A i \in DOMAIN rmas : /\ rmas[i].receipts \in Nat
                             /\ i \in Completed <=> rmas[i].receipts >= 1
                             /\ i \notin overlapped => rmas[i].receipts <= 1
  <2>1. ASSUME NEW i \in DOMAIN rmas
        PROVE  /\ rmas[i].receipts \in Nat
               /\ i \in Completed <=> rmas[i].receipts >= 1
               /\ i \notin overlapped => rmas[i].receipts <= 1
    <3>1. rmas[i].receipts \in Nat
      BY RmaType DEF Inv, Types
    <3>2. rmas[i].receipts > 0 <=> rmas[i].status = "COMPLETED"
      BY DEF Inv, ReceiptsInv
    <3>3. i \notin overlapped => rmas[i].receipts <= 1
      BY DEF Inv, OverlapInv
    <3> QED BY <3>1, <3>2, <3>3 DEF Completed
  <2> QED BY <2>1
<1>3. PICK H : H = [i \in DOMAIN rmas |-> IF i \in Completed THEN V[i] ELSE 0]
  OBVIOUS
<1>4. \A i \in DOMAIN rmas : H[i] \in Int
  BY <1>3
<1>5. Sum(H, DOMAIN rmas) = Sum(G, Completed) /\ Sum(G, Completed) \in Int
  <2>1. (DOMAIN rmas) \cap Completed = Completed
    BY <1>1
  <2>2. /\ Sum(H, DOMAIN rmas) = Sum(H, Completed) + Sum(H, (DOMAIN rmas) \ Completed)
        /\ IsFiniteSet((DOMAIN rmas) \ Completed) /\ Sum(H, Completed) \in Int
    BY <1>1, <1>4, <2>1, SumSplit
  <2>3. \A i \in (DOMAIN rmas) \ Completed : H[i] = 0
    BY <1>3
  <2>4. Sum(H, (DOMAIN rmas) \ Completed) = 0
    BY <2>2, <2>3, SumZero
  <2>5. \A i \in Completed : H[i] \in Int /\ H[i] = G[i]
    BY <1>1, <1>3
  <2>6. Sum(H, Completed) = Sum(G, Completed)
    BY <1>1, <2>5, SumSame
  <2> QED BY <2>2, <2>4, <2>6
<1>6. \A i \in DOMAIN rmas : F[i] \in Int /\ H[i] <= F[i]
  <2>1. ASSUME NEW i \in DOMAIN rmas PROVE F[i] \in Int /\ H[i] <= F[i]
    <3>1. rmas[i].receipts * V[i] \in Nat
      BY <1>2, Products
    <3>2. rmas[i].receipts >= 1 => V[i] <= rmas[i].receipts * V[i]
      BY <1>2, Repeated
    <3>3. H[i] <= rmas[i].receipts * V[i]
      BY <1>2, <1>3, <3>1, <3>2
    <3> QED BY <3>1, <3>3
  <2> QED BY <2>1
<1>7. Sum(H, DOMAIN rmas) <= Sum(F, DOMAIN rmas) /\ Sum(F, DOMAIN rmas) \in Int
  BY <1>1, <1>4, <1>6, SumMonotone, SumType
<1>8. ASSUME \A i \in overlapped : i \in DOMAIN rmas => V[i] = 0
      PROVE  Sum(F, DOMAIN rmas) = Sum(G, Completed)
  <2>1. \A i \in DOMAIN rmas : H[i] = F[i]
    <3>1. ASSUME NEW i \in DOMAIN rmas PROVE H[i] = F[i]
      <4>1. rmas[i].receipts \in Nat /\ V[i] \in Nat
        BY <1>2
      <4>2. CASE V[i] = 0
        <5>1. rmas[i].receipts * V[i] = 0
          BY <4>1, <4>2, Repeated
        <5> QED BY <1>3, <4>2, <5>1
      <4>3. CASE V[i] # 0
        <5>1. rmas[i].receipts <= 1
          BY <1>2, <1>8, <4>3
        <5>2. CASE rmas[i].receipts = 1
          BY <1>2, <1>3, <4>1, <5>2, Repeated
        <5>3. CASE rmas[i].receipts = 0
          <6>1. rmas[i].receipts * V[i] = 0 /\ i \notin Completed
            BY <1>2, <4>1, <5>3, Repeated
          <6> QED BY <1>3, <6>1
        <5>4. rmas[i].receipts = 0 \/ rmas[i].receipts = 1
          BY <4>1, <5>1
        <5> QED BY <5>2, <5>3, <5>4
      <4> QED BY <4>2, <4>3
    <3> QED BY <3>1
  <2>2. Sum(H, DOMAIN rmas) = Sum(F, DOMAIN rmas)
    BY <1>1, <1>4, <2>1, SumSame
  <2> QED BY <1>5, <2>2
<1> QED BY <1>5, <1>7, <1>8

(* The shelf has the restockable lines of every COMPLETED RMA once, but    *)
(* for an RMA two handlers received together (returns.service.ts:105).     *)
THEOREM StockAccounted == Spec => []RestockAccounted
<1>1. Inv => RestockAccounted
  <2> SUFFICES ASSUME Inv, NEW s \in Skus, NEW once,
                      once = Sum([i \in Completed |-> Restocked(rmas[i], s)], Completed)
               PROVE  /\ onHand[s] >= once
                      /\ onHand[s] > once =>
                           \E i \in overlapped : Restocked(rmas[i], s) > 0
    BY Zenon DEF RestockAccounted
  <2>1. PICK V : V = [i \in DOMAIN rmas |-> Restocked(rmas[i], s)]
    OBVIOUS
  <2>2. PICK G : G = [i \in Completed |-> Restocked(rmas[i], s)]
    OBVIOUS
  <2>3. PICK F : F = [i \in DOMAIN rmas |-> rmas[i].receipts * Restocked(rmas[i], s)]
    OBVIOUS
  <2>4. \A i \in DOMAIN rmas : V[i] \in Nat
    BY <2>1, RmaType DEF Inv, Types
  <2>5. (\A i \in Completed : G[i] = V[i])
        /\ \A i \in DOMAIN rmas : F[i] = rmas[i].receipts * V[i]
    BY <2>1, <2>2, <2>3 DEF Completed
  <2>6. /\ Sum(G, Completed) \in Int /\ Sum(F, DOMAIN rmas) \in Int
        /\ Sum(G, Completed) <= Sum(F, DOMAIN rmas)
        /\ (\A i \in overlapped : i \in DOMAIN rmas => V[i] = 0)
             => Sum(F, DOMAIN rmas) = Sum(G, Completed)
    BY <2>4, <2>5, OnceOrMore
  <2>7. onHand[s] = Sum(F, DOMAIN rmas) /\ once = Sum(G, Completed)
    BY <2>2, <2>3 DEF Inv, StockInv
  <2>8. (\A i \in overlapped : ~ (Restocked(rmas[i], s) > 0)) =>
          \A i \in overlapped : i \in DOMAIN rmas => V[i] = 0
    BY <2>1, <2>4
  <2> QED BY <2>6, <2>7, <2>8
<1> QED BY <1>1, ReturnsInvariance, PTL

(* The order is RETURNED exactly when all of it is back, once the handlers *)
(* are done and none died (returns.service.ts:159).                        *)
THEOREM ReturnedWhenAllBack == Spec => []ReturnedIffAllBack
<1>1. Inv => ReturnedIffAllBack
  BY DEF Inv, Types, MarkInv, ReturnedIffAllBack, FullyReturned, At
<1> QED BY <1>1, ReturnsInvariance, PTL

(* No more is refunded than the committed receipts are worth, nor than the *)
(* COMPLETED RMAs are unless one was received twice, whatever the gateway  *)
(* replays, refuses or fails to answer (returns.service.ts:173).           *)
THEOREM RefundsOnlyEarned == Spec => []RefundsEarned
<1>1. Inv => RefundsEarned
  <2> SUFFICES ASSUME Inv PROVE RefundsEarned
    OBVIOUS
  <2>1. refunded \in Nat /\ OwedSum \in Nat /\ refunded + OwedSum <= Earned
    BY OwedType DEF Inv, Types, RefundInv
  <2>2. PICK V : V = [i \in DOMAIN rmas |-> Value(rmas[i].lines)]
    OBVIOUS
  <2>3. PICK G : G = [i \in Completed |-> Value(rmas[i].lines)]
    OBVIOUS
  <2>4. PICK F : F = [i \in DOMAIN rmas |-> rmas[i].receipts * Value(rmas[i].lines)]
    OBVIOUS
  <2>5. \A i \in DOMAIN rmas : V[i] \in Nat
    BY <2>2, RmaType DEF Inv, Types
  <2>6. (\A i \in Completed : G[i] = V[i])
        /\ \A i \in DOMAIN rmas : F[i] = rmas[i].receipts * V[i]
    BY <2>2, <2>3, <2>4 DEF Completed
  <2>7. /\ Sum(G, Completed) \in Int /\ Sum(F, DOMAIN rmas) \in Int
        /\ (\A i \in overlapped : i \in DOMAIN rmas => V[i] = 0)
             => Sum(F, DOMAIN rmas) = Sum(G, Completed)
    BY <2>5, <2>6, OnceOrMore
  <2>8. Earned = Sum(F, DOMAIN rmas)
    BY <2>4 DEF Earned
  <2>9. refunded <= Sum(F, DOMAIN rmas)
    BY <2>1, <2>7, <2>8
  <2>10. refunded > Sum(G, Completed) => overlapped # {}
    BY <2>1, <2>7, <2>9
  <2> QED BY <2>3, <2>4, <2>9, <2>10 DEF RefundsEarned
<1> QED BY <1>1, ReturnsInvariance, PTL
=============================================================================
