-------------------------- MODULE InventoryProofs --------------------------
(***************************************************************************)
(* Proofs about the movement engine and about the services that run their  *)
(* transactions on it, for any sets of SKUs, locations, workers and        *)
(* quantities and any column width.                                        *)
(*                                                                         *)
(* The engine: its types, snapshot = ledger, no negative bucket and no     *)
(* oversell, and that it implements StockLedger: committed stock changes   *)
(* as if whole transactions ran one at a time.                             *)
(*                                                                         *)
(* Expected deliveries (module Inbound): over the network each delivered   *)
(* unit is in transit or on hand, and the Inbound rows never promise less  *)
(* than is in transit.  A commit performs its transaction on the committed *)
(* rows in one go, so the effect of a handler on the sums is that of the   *)
(* movements of its script.                                                *)
(*                                                                         *)
(* The integrity pass (module Reconciliation): undisturbed, it tells the   *)
(* truth.  A repair that raced a movement leaves snapshot and ledger       *)
(* apart, so the engine's own invariant is lost there.  What is left of it *)
(* (EngineInv) is enough: a transaction's private row is the committed row *)
(* plus what it will add to the ledger, so a commit that adds nothing to   *)
(* the ledger moves no snapshot either, and `quiet` means what it says.    *)
(*                                                                         *)
(* Reservations (module Reservations): no reserved unit is stranded, and   *)
(* an order that refuses backorder is held whole or not at all.  The table *)
(* of holds and the rows change in one commit, but a script is built line  *)
(* by line and written movement by movement.  The invariant RvInv keeps    *)
(* the two in step in between: the private rows of a transaction hold what *)
(* its script has written so far (TxAt), the script of a reserve asks for  *)
(* exactly the lines planned so far and that of a release for one hold     *)
(* (JobAt).  At the commit the rows then grow by what the new holds hold.  *)
(* Two releases of one hold lower the row twice, so the rows are bounded   *)
(* by the holds and not equal to them.                                     *)
(*                                                                         *)
(* Each theorem cites the assumptions of its own service and those of the  *)
(* engine, and no others.                                                  *)
(***************************************************************************)
EXTENDS Inbound, Reconciliation, Reservations, SumTheorems, TLAPS

(* What a movement adds to availability when it is written. *)
AvailabilityDelta(d) == d["onHand"] - d["reserved"] - d["allocated"]

(* The discipline of the movements of one transaction: whatever promises   *)
(* units requires availability, and in a transaction of several movements  *)
(* whatever lowers availability requires it.                               *)
Disciplined(s) ==
  /\ s # << >>
  /\ \A i \in 1 .. Len(s) :
       /\ PromisedUnits(s[i].deltas) > 0 => s[i].requireAvailable
       /\ Len(s) > 1 => \/ s[i].requireAvailable
                        \/ AvailabilityDelta(s[i].deltas) >= 0

(* Where a worker is in its script, and which locks it may hold there. *)
ControlInv ==
  \A p \in Workers :
    /\ pc[p] \in {"lock", "write"} =>
         /\ step[p] \in 1 .. Len(script[p])
         /\ Disciplined(script[p])
         /\ step[p] = 1 => pending[p] = ClearRows
    /\ pc[p] = "write" => lock[Current(p).row] = p
    /\ pc[p] \in {"idle", "invalidate"} => \A r \in Rows : lock[r] # p

(* What a transaction sees of a row it holds is the committed row plus its *)
(* own uncommitted ledger deltas, valid, and promised within availability. *)
WorkInv ==
  \A p \in Workers, r \in Rows :
    /\ lock[r] = p =>
         /\ work[p][r] = Plus(snapshot[r], pending[p][r])
         /\ \A b \in Bucket : work[p][r][b] \in 0 .. MaxInt
         /\ PromisedUnits(work[p][r]) > PromisedUnits(snapshot[r]) =>
              Availability(work[p][r], safetyStock[r]) >= 0
    /\ lock[r] # p => pending[p][r] = ZeroBuckets

Inv ==
  /\ TypeOK
  /\ ControlInv
  /\ WorkInv
  /\ SnapshotIsLedgerSum
  /\ NoNegativeBucket

-----------------------------------------------------------------------------
(* Movements *)

(* The deltas of a movement, bucket by bucket. *)
LEMMA DeltasFields ==
  ASSUME NEW a \in Int, NEW b \in Int, NEW c \in Int, NEW d \in Int
  PROVE  /\ Deltas(a, b, c, d) \in Buckets
         /\ Deltas(a, b, c, d)["onHand"] = a
         /\ Deltas(a, b, c, d)["reserved"] = b
         /\ Deltas(a, b, c, d)["allocated"] = c
BY DEF Deltas, ZeroBuckets, Buckets, Bucket

(* Adding deltas to a row gives a row. *)
LEMMA PlusType ==
  ASSUME NEW x \in Buckets, NEW d \in Buckets
  PROVE  /\ Plus(x, d) \in Buckets
         /\ \A b \in Bucket : Plus(x, d)[b] = x[b] + d[b]
BY DEF Plus, Buckets

(* Zero deltas change nothing. *)
LEMMA PlusZero ==
  ASSUME NEW x \in Buckets
  PROVE  Plus(x, ZeroBuckets) = x
BY DEF Plus, Buckets, ZeroBuckets

(* Deltas may be summed before they are added to a row. *)
LEMMA PlusAssoc ==
  ASSUME NEW x \in Buckets, NEW d \in Buckets, NEW e \in Buckets
  PROVE  Plus(Plus(x, d), e) = Plus(x, Plus(d, e))
BY DEF Plus, Buckets

(* The absent row is a row. *)
LEMMA ZeroType == ZeroBuckets \in Buckets
BY DEF ZeroBuckets, Buckets

(* Availability and promised units are integers. *)
LEMMA UnitsType ==
  ASSUME NEW x \in Buckets, NEW n \in Int
  PROVE  /\ PromisedUnits(x) \in Int
         /\ Availability(x, n) \in Int
         /\ AvailabilityDelta(x) \in Int
<1>1. \A b \in Bucket : x[b] \in Int
  BY DEF Buckets
<1> QED BY <1>1 DEF PromisedUnits, Availability, AvailabilityDelta, Bucket

(* Every movement primitive yields well-typed parameters, and none that    *)
(* promises units forgets requireAvailable.                                *)
LEMMA PrimitivesType ==
  ASSUME NEW r \in Rows, NEW q \in Int, q > 0
  PROVE  \A m \in { Receive(r, q), Adjust(r, q), Adjust(r, -q), Reserve(r, q),
                    ReleaseReserve(r, q), Allocate(r, q), Deallocate(r, q),
                    ConvertReserveToAllocation(r, q), Ship(r, q),
                    ReturnStock(r, q), CreateInbound(r, q),
                    ArriveInbound(r, q), TransferOut(r, q), TransferIn(r, q) } :
           /\ m \in Movement
           /\ PromisedUnits(m.deltas) > 0 => m.requireAvailable
<1> DEFINE Good(m) == /\ m \in Movement
                      /\ PromisedUnits(m.deltas) > 0 => m.requireAvailable
<1>0. 0 \in Int /\ -q \in Int
  OBVIOUS
<1> USE <1>0, DeltasFields DEF Move, Movement, EventType, PromisedUnits
<1>1. Good(Receive(r, q))
  BY DEF Receive
<1>2. Good(Adjust(r, q))
  BY DEF Adjust
<1>3. Good(Adjust(r, -q))
  BY DEF Adjust
<1>4. Good(Reserve(r, q))
  BY DEF Reserve
<1>5. Good(ReleaseReserve(r, q))
  BY DEF ReleaseReserve
<1>6. Good(Allocate(r, q))
  BY DEF Allocate
<1>7. Good(Deallocate(r, q))
  BY DEF Deallocate
<1>8. Good(ConvertReserveToAllocation(r, q))
  BY DEF ConvertReserveToAllocation
<1>9. Good(Ship(r, q))
  BY DEF Ship
<1>10. Good(ReturnStock(r, q))
  BY DEF ReturnStock
<1>11. Good(CreateInbound(r, q))
  BY DEF CreateInbound
<1>12. Good(ArriveInbound(r, q))
  BY DEF ArriveInbound
<1>13. Good(TransferOut(r, q))
  BY DEF TransferOut
<1>14. Good(TransferIn(r, q))
  BY DEF TransferIn
<1> HIDE DEF Good
<1> QED BY <1>1, <1>2, <1>3, <1>4, <1>5, <1>6, <1>7,
          <1>8, <1>9, <1>10, <1>11, <1>12, <1>13, <1>14 DEF Good

(* The transactions the services run are well typed and disciplined. *)
LEMMA ScriptsDisciplined ==
  ASSUME NEW s \in Scripts
  PROVE  /\ s \in Seq(Movement)
         /\ Disciplined(s)
<1>0. \A q \in Quantities : q \in Int /\ q > 0 /\ -q \in Int
  BY QuantitiesAssumption
<1>1. CASE \E m \in SingleMoves : s = <<m>>
  <2>1. PICK m \in SingleMoves : s = <<m>>
    BY <1>1
  <2>2. /\ m \in Movement
        /\ PromisedUnits(m.deltas) > 0 => m.requireAvailable
    BY <1>0, PrimitivesType DEF SingleMoves
  <2> QED BY <2>1, <2>2 DEF Disciplined
<1>2. ASSUME NEW m \in Movement, NEW n \in Movement, s = <<m, n>>,
             PromisedUnits(m.deltas) > 0 => m.requireAvailable,
             PromisedUnits(n.deltas) > 0 => n.requireAvailable,
             m.requireAvailable \/ AvailabilityDelta(m.deltas) >= 0,
             n.requireAvailable \/ AvailabilityDelta(n.deltas) >= 0
      PROVE  s \in Seq(Movement) /\ Disciplined(s)
  BY <1>2 DEF Disciplined
<1>3. ASSUME NEW r \in Rows, NEW q \in Quantities
      PROVE  /\ TransferOut(r, q).requireAvailable
             /\ Reserve(r, q).requireAvailable
             /\ Allocate(r, q).requireAvailable
             /\ AvailabilityDelta(TransferIn(r, q).deltas) = q
             /\ AvailabilityDelta(ReleaseReserve(r, q).deltas) = q
  <2>0. q \in Int /\ -q \in Int /\ 0 \in Int
    BY <1>0
  <2>1. /\ TransferOut(r, q).requireAvailable
        /\ Reserve(r, q).requireAvailable
        /\ Allocate(r, q).requireAvailable
    BY DEF TransferOut, Reserve, Allocate, Move
  <2>2. /\ TransferIn(r, q).deltas = Deltas(q, 0, 0, 0)
        /\ ReleaseReserve(r, q).deltas = Deltas(0, -q, 0, 0)
    BY DEF TransferIn, ReleaseReserve, Move
  <2>3. AvailabilityDelta(Deltas(q, 0, 0, 0)) = q
    <3>1. /\ Deltas(q, 0, 0, 0)["onHand"] = q
          /\ Deltas(q, 0, 0, 0)["reserved"] = 0
          /\ Deltas(q, 0, 0, 0)["allocated"] = 0
      BY <2>0, DeltasFields
    <3> QED BY <2>0, <3>1 DEF AvailabilityDelta
  <2>4. AvailabilityDelta(Deltas(0, -q, 0, 0)) = q
    <3>1. /\ Deltas(0, -q, 0, 0)["onHand"] = 0
          /\ Deltas(0, -q, 0, 0)["reserved"] = -q
          /\ Deltas(0, -q, 0, 0)["allocated"] = 0
      BY <2>0, DeltasFields
    <3> QED BY <2>0, <3>1 DEF AvailabilityDelta
  <2> QED BY <2>1, <2>2, <2>3, <2>4
<1>4. CASE s \in TransferScripts
  <2>1. PICK r \in Rows, t \in Rows, q \in Quantities :
          s = <<TransferOut(r, q), TransferIn(t, q)>>
    BY <1>4 DEF TransferScripts
  <2> QED BY <1>0, <1>2, <1>3, <2>1, PrimitivesType
<1>5. CASE s \in ReserveScripts
  <2>1. PICK r \in Rows, t \in Rows, q \in Quantities :
          s = <<Reserve(r, q), Reserve(t, q)>>
    BY <1>5 DEF ReserveScripts
  <2> QED BY <1>0, <1>2, <1>3, <2>1, PrimitivesType
<1>6. CASE s \in SourceScripts
  <2>1. PICK r \in Rows, t \in Rows, q \in Quantities :
          s = <<ReleaseReserve(r, q), Allocate(t, q)>>
    BY <1>6 DEF SourceScripts
  <2> QED BY <1>0, <1>2, <1>3, <2>1, PrimitivesType
<1> QED BY <1>1, <1>4, <1>5, <1>6 DEF Scripts

-----------------------------------------------------------------------------
(* The inductive invariant *)

(* The empty database satisfies the inductive invariant. *)
LEMMA InitInv == Init => Inv
<1> SUFFICES ASSUME Init PROVE Inv
  OBVIOUS
<1> USE ZeroType, NoWorkerAssumption DEF Init, InitWith, ClearRows
<1>1. TypeOK
  BY DEF TypeOK
<1>2. ControlInv
  BY DEF ControlInv
<1>3. WorkInv
  BY DEF WorkInv
<1>4. SnapshotIsLedgerSum /\ NoNegativeBucket
  BY MaxIntAssumption DEF SnapshotIsLedgerSum, NoNegativeBucket, ZeroBuckets
<1> QED BY <1>1, <1>2, <1>3, <1>4 DEF Inv

(* The movement a worker is at is a movement on a row. *)
LEMMA CurrentType ==
  ASSUME Inv, NEW p \in Workers, pc[p] \in {"lock", "write"}
  PROVE  /\ Current(p) \in Movement
         /\ Current(p).row \in Rows
         /\ Current(p).deltas \in Buckets
<1>1. script[p] \in Seq(Movement) /\ step[p] \in 1 .. Len(script[p])
  BY DEF Inv, TypeOK, ControlInv
<1>2. Current(p) \in Movement
  BY <1>1 DEF Current
<1> QED BY <1>2 DEF Movement

(* A rollback, whatever its cause, leaves the committed state alone and    *)
(* frees the worker's rows.                                                *)
LEMMA RollbackInv ==
  ASSUME Inv, NEW p \in Workers, Rollback(p)
  PROVE  Inv'
<1> USE ZeroType, NoWorkerAssumption DEF Inv, Rollback, EndTransaction, ClearRows
<1>1. TypeOK'
  BY DEF TypeOK
<1>2. ControlInv'
  <2>1. /\ pc'[p] = "idle"
        /\ \A r \in Rows : lock'[r] # p
    BY DEF TypeOK
  <2>2. ASSUME NEW q \in Workers, q # p
        PROVE  /\ pc'[q] = pc[q] /\ script'[q] = script[q]
               /\ step'[q] = step[q] /\ pending'[q] = pending[q]
               /\ \A r \in Rows : lock'[r] = q <=> lock[r] = q
    BY <2>2 DEF TypeOK
  <2>3. ASSUME NEW q \in Workers, q # p, pc[q] = "write"
        PROVE  lock'[Current(q)'.row] = q
    <3>1. Current(q).row \in Rows /\ lock[Current(q).row] = q
      BY <2>3, CurrentType DEF ControlInv
    <3> QED BY <2>2, <2>3, <3>1 DEF Current
  <2> QED BY <2>1, <2>2, <2>3 DEF ControlInv
<1>3. WorkInv'
  BY DEF WorkInv, TypeOK
<1>4. SnapshotIsLedgerSum' /\ NoNegativeBucket'
  BY DEF SnapshotIsLedgerSum, NoNegativeBucket
<1> QED BY <1>1, <1>2, <1>3, <1>4

(* Starting a transaction, of whichever service, holds no lock and has     *)
(* nothing pending.                                                        *)
LEMMA BeginInv ==
  ASSUME Inv, NEW p \in Workers, NEW s \in Seq(Movement), Disciplined(s),
         Begin(p, s)
  PROVE  Inv'
<1> USE DEF Inv, Begin
<1>0. s \in Seq(Movement) /\ Disciplined(s)
  OBVIOUS
<1>1. TypeOK'
  BY <1>0 DEF TypeOK
<1>2. ControlInv'
  <2>1. pending[p] = ClearRows
    BY DEF ControlInv, WorkInv, TypeOK, ClearRows
  <2>2. 1 \in 1 .. Len(s)
    BY <1>0 DEF Disciplined
  <2> QED BY <1>0, <2>1, <2>2 DEF ControlInv, TypeOK, Current
<1>3. WorkInv'
  BY DEF WorkInv
<1>4. SnapshotIsLedgerSum' /\ NoNegativeBucket'
  BY DEF SnapshotIsLedgerSum, NoNegativeBucket
<1> QED BY <1>1, <1>2, <1>3, <1>4

(* The locking read copies a row nobody else can be changing. *)
LEMMA LockRowInv ==
  ASSUME Inv, NEW p \in Workers, LockRow(p)
  PROVE  Inv'
<1> DEFINE r == Current(p).row
<1> USE DEF Inv, LockRow
<1>0. r \in Rows /\ lock[r] \in {NoWorker, p}
  BY CurrentType
<1>1. TypeOK'
  BY <1>0 DEF TypeOK
<1>2. ControlInv'
  BY <1>0, NoWorkerAssumption DEF ControlInv, TypeOK, Current
<1>3. WorkInv'
  <2>1. CASE lock[r] = p
    BY <2>1, <1>0 DEF WorkInv, TypeOK
  <2>2. CASE lock[r] = NoWorker /\ NoWorker # p
    <3>1. snapshot[r] \in Buckets /\ Plus(snapshot[r], ZeroBuckets) = snapshot[r]
      BY <1>0, PlusZero DEF TypeOK
    <3>2. pending[p][r] = ZeroBuckets
      BY <1>0, <2>2 DEF WorkInv
    <3>3. work'[p][r] = snapshot[r] /\ lock'[r] = p
      BY <1>0, <2>2 DEF TypeOK
    <3>4. \A b \in Bucket : snapshot[r][b] \in 0 .. MaxInt
      BY <1>0 DEF NoNegativeBucket
    <3>5. \A q \in Workers, t \in Rows : q # p \/ t # r =>
            work'[q][t] = work[q][t] /\ (lock'[t] = q => lock[t] = q)
      BY <1>0, <2>2 DEF TypeOK
    <3>6. \A q \in Workers, t \in Rows : q # p \/ t # r =>
            (lock'[t] # q => pending[q][t] = ZeroBuckets)
      BY <1>0, <2>2, NoWorkerAssumption DEF WorkInv, TypeOK
    <3>7. PromisedUnits(work'[p][r]) = PromisedUnits(snapshot[r])
      BY <3>3
    <3>8. PromisedUnits(snapshot[r]) \in Int
      BY <3>1 DEF PromisedUnits, Buckets, Bucket
    <3> QED BY <3>1, <3>2, <3>3, <3>4, <3>5, <3>6, <3>7, <3>8 DEF WorkInv
  <2> QED BY <1>0, <2>1, <2>2, NoWorkerAssumption
<1>4. SnapshotIsLedgerSum' /\ NoNegativeBucket'
  BY DEF SnapshotIsLedgerSum, NoNegativeBucket
<1> QED BY <1>1, <1>2, <1>3, <1>4

(* The heart of the argument: the validated write keeps the private row    *)
(* equal to committed row plus pending deltas, valid and not oversold.     *)
LEMMA WriteMovementInv ==
  ASSUME Inv, NEW p \in Workers, WriteMovement(p)
  PROVE  Inv'
<1> DEFINE m == Current(p)
           r == m.row
           old == work[p][r]
           next == Plus(old, m.deltas)
<1>0. /\ m \in Movement /\ r \in Rows /\ m.deltas \in Buckets
      /\ lock[r] = p
      /\ old \in Buckets /\ pending[p][r] \in Buckets
      /\ snapshot[r] \in Buckets
  BY CurrentType DEF Inv, WriteMovement, ControlInv, TypeOK
<1>a. next \in Buckets /\ Plus(pending[p][r], m.deltas) \in Buckets
  BY <1>0, PlusType
<1>b. /\ pc[p] = "write"
      /\ Validates(next, safetyStock[r], m)
      /\ work' = [work EXCEPT ![p][r] = next]
      /\ pending' = [pending EXCEPT ![p][r] = Plus(pending[p][r], m.deltas)]
      /\ step' = [step EXCEPT ![p] = step[p] + 1]
      /\ pc' = [pc EXCEPT ![p] =
                  IF step[p] = Len(script[p]) THEN "commit" ELSE "lock"]
      /\ UNCHANGED <<snapshot, safetyStock, ledger, lock, script, outbox>>
  BY DEF WriteMovement
<1>c. /\ step[p] \in 1 .. Len(script[p]) /\ Disciplined(script[p])
      /\ script[p] \in Seq(Movement)
      /\ step[p] = 1 => pending[p] = ClearRows
  BY <1>b DEF Inv, ControlInv, TypeOK
<1> HIDE DEF m, r, old, next
<1>1. TypeOK'
  BY <1>0, <1>a, <1>b DEF Inv, TypeOK
<1>2. ControlInv'
  <2>1. pc'[p] \in {"lock", "commit"}
    BY <1>b DEF Inv, TypeOK
  <2>2. pc'[p] = "lock" => step'[p] \in 1 .. Len(script[p]) /\ step'[p] # 1
    BY <1>b, <1>c DEF Inv, TypeOK
  <2>3. ASSUME NEW q \in Workers, q # p
        PROVE  /\ pc'[q] = pc[q] /\ step'[q] = step[q]
               /\ pending'[q] = pending[q] /\ Current(q)' = Current(q)
    BY <1>b, <2>3 DEF Inv, TypeOK, Current
  <2> QED BY <1>b, <1>c, <2>1, <2>2, <2>3 DEF Inv, ControlInv
<1>3. WorkInv'
  <2>1. /\ work'[p][r] = next
        /\ pending'[p][r] = Plus(pending[p][r], m.deltas)
    BY <1>0, <1>b DEF Inv, TypeOK
  <2>2. \A q \in Workers, t \in Rows : q # p \/ t # r =>
          work'[q][t] = work[q][t] /\ pending'[q][t] = pending[q][t]
    BY <1>0, <1>b DEF Inv, TypeOK
  <2>3. next = Plus(snapshot[r], pending'[p][r])
    BY <1>0, <2>1, PlusAssoc DEF Inv, WorkInv, next, old
  <2>4. \A b \in Bucket : next[b] \in 0 .. MaxInt
    BY <1>b DEF Validates
  <2>5. PromisedUnits(next) > PromisedUnits(snapshot[r]) =>
          Availability(next, safetyStock[r]) >= 0
    <3>1. CASE m.requireAvailable
      BY <1>b, <3>1 DEF Validates
    <3>2. CASE ~ m.requireAvailable
      <4>1. /\ ~ (PromisedUnits(m.deltas) > 0)
            /\ Len(script[p]) > 1 => AvailabilityDelta(m.deltas) >= 0
        BY <1>c, <3>2 DEF Disciplined, m, Current
      <4>2. /\ PromisedUnits(next) = PromisedUnits(old) + PromisedUnits(m.deltas)
            /\ Availability(next, safetyStock[r]) =
                 Availability(old, safetyStock[r]) + AvailabilityDelta(m.deltas)
        <5>1. \A b \in Bucket : next[b] = old[b] + m.deltas[b]
          BY <1>0, PlusType DEF next
        <5>2. \A b \in Bucket : old[b] \in Int /\ m.deltas[b] \in Int
          BY <1>0 DEF Buckets
        <5>3. safetyStock[r] \in Int
          BY <1>0 DEF Inv, TypeOK
        <5> QED BY <5>1, <5>2, <5>3
                DEF PromisedUnits, Availability, AvailabilityDelta, Bucket
      <4>3. /\ PromisedUnits(old) \in Int /\ PromisedUnits(m.deltas) \in Int
            /\ PromisedUnits(snapshot[r]) \in Int
            /\ AvailabilityDelta(m.deltas) \in Int
            /\ Availability(old, safetyStock[r]) \in Int
        <5>1. safetyStock[r] \in Int
          BY <1>0 DEF Inv, TypeOK
        <5> QED BY <1>0, <5>1, UnitsType
      <4>4. PromisedUnits(old) > PromisedUnits(snapshot[r]) =>
              Availability(old, safetyStock[r]) >= 0
        BY <1>0 DEF Inv, WorkInv, old
      <4>5. CASE step[p] = 1
        <5>1. pending[p][r] = ZeroBuckets
          BY <1>0, <1>c, <4>5 DEF ClearRows
        <5>2. old = snapshot[r]
          BY <1>0, <5>1, PlusZero DEF Inv, WorkInv, old
        <5> QED BY <4>1, <4>2, <4>3, <5>2
      <4>6. CASE Len(script[p]) > 1
        BY <4>1, <4>2, <4>3, <4>4, <4>6
      <4> QED BY <1>c, <4>5, <4>6
    <3> QED BY <3>1, <3>2
  <2> QED BY <1>0, <1>b, <2>1, <2>2, <2>3, <2>4, <2>5 DEF Inv, WorkInv
<1>4. SnapshotIsLedgerSum' /\ NoNegativeBucket'
  BY <1>b DEF Inv, SnapshotIsLedgerSum, NoNegativeBucket
<1> QED BY <1>1, <1>2, <1>3, <1>4 DEF Inv

(* A commit publishes rows and ledger deltas of the same transaction. *)
LEMMA CommitInv ==
  ASSUME Inv, NEW p \in Workers, Commit(p)
  PROVE  Inv'
<1> USE DEF Commit, EndTransaction
<1>0. /\ TypeOK /\ ControlInv /\ WorkInv
      /\ SnapshotIsLedgerSum /\ NoNegativeBucket
  BY DEF Inv
<1>1. TypeOK'
  BY <1>0, PlusType, ZeroType, NoWorkerAssumption DEF TypeOK, ClearRows
<1>2. ControlInv'
  <2>1. /\ pc'[p] = "invalidate"
        /\ \A r \in Rows : lock'[r] # p
    BY <1>0, NoWorkerAssumption DEF TypeOK
  <2>2. ASSUME NEW q \in Workers, q # p
        PROVE  /\ pc'[q] = pc[q] /\ script'[q] = script[q]
               /\ step'[q] = step[q] /\ pending'[q] = pending[q]
               /\ \A r \in Rows : lock'[r] = q <=> lock[r] = q
    BY <1>0, <2>2, NoWorkerAssumption DEF TypeOK
  <2>3. ASSUME NEW q \in Workers, q # p, pc[q] = "write"
        PROVE  lock'[Current(q)'.row] = q
    <3>1. Current(q).row \in Rows /\ lock[Current(q).row] = q
      BY <1>0, <2>3, CurrentType DEF ControlInv
    <3> QED BY <2>2, <2>3, <3>1 DEF Current
  <2> QED BY <1>0, <2>1, <2>2, <2>3 DEF ControlInv
<1>3. WorkInv'
  <2>1. ASSUME NEW q \in Workers, NEW r \in Rows, lock'[r] = q
        PROVE  /\ q # p /\ lock[r] = q /\ work'[q][r] = work[q][r]
               /\ pending'[q][r] = pending[q][r] /\ snapshot'[r] = snapshot[r]
    BY <1>0, <2>1, NoWorkerAssumption DEF TypeOK
  <2>2. ASSUME NEW q \in Workers, NEW r \in Rows, lock'[r] # q
        PROVE  pending'[q][r] = ZeroBuckets
    BY <1>0, <2>2, NoWorkerAssumption DEF WorkInv, TypeOK, ClearRows
  <2> QED BY <1>0, <2>1, <2>2 DEF WorkInv
<1>4. SnapshotIsLedgerSum'
  <2>1. ASSUME NEW r \in Rows
        PROVE  snapshot'[r] = ledger'[r]
    <3>1. CASE lock[r] = p
      BY <1>0, <3>1 DEF WorkInv, SnapshotIsLedgerSum
    <3>2. CASE lock[r] # p
      BY <1>0, <3>2, PlusZero DEF WorkInv, SnapshotIsLedgerSum, TypeOK
    <3> QED BY <3>1, <3>2
  <2> QED BY <2>1 DEF SnapshotIsLedgerSum
<1>5. NoNegativeBucket'
  BY <1>0 DEF NoNegativeBucket, WorkInv
<1> QED BY <1>1, <1>2, <1>3, <1>4, <1>5 DEF Inv

(* Announcing a change touches no row. *)
LEMMA InvalidateInv ==
  ASSUME Inv, NEW p \in Workers, Invalidate(p)
  PROVE  Inv'
<1> USE DEF Inv, Invalidate
<1>1. TypeOK'
  <2>1. \A i \in 1 .. Len(script[p]) : SkuOf(script[p][i].row) \in Skus
    <3>1. \A i \in 1 .. Len(script[p]) : script[p][i] \in Movement
      BY DEF TypeOK
    <3>2. \A x \in Movement : x.row \in Rows
      BY DEF Movement
    <3>3. \A x \in Rows : SkuOf(x) \in Skus
      BY DEF Rows, SkuOf
    <3> QED BY <3>1, <3>2, <3>3
  <2> QED BY <2>1 DEF TypeOK
<1>2. ControlInv'
  BY DEF ControlInv, TypeOK, Current
<1>3. WorkInv'
  BY DEF WorkInv
<1>4. SnapshotIsLedgerSum' /\ NoNegativeBucket'
  BY DEF SnapshotIsLedgerSum, NoNegativeBucket
<1> QED BY <1>1, <1>2, <1>3, <1>4

(* A safety-stock change finds the row unlocked, so no open transaction
   has been validated against the old level of it. *)
LEMMA SetSafetyStockInv ==
  ASSUME Inv, NEW r \in Rows, NEW n \in SafetyLevels, SetSafetyStock(r, n)
  PROVE  Inv'
<1> USE SafetyLevelsAssumption, NoWorkerAssumption DEF Inv, SetSafetyStock
<1>1. TypeOK'
  BY DEF TypeOK, Rows, SkuOf
<1>2. ControlInv'
  BY DEF ControlInv, Current
<1>3. WorkInv'
  BY DEF WorkInv, TypeOK
<1>4. SnapshotIsLedgerSum' /\ NoNegativeBucket'
  BY DEF SnapshotIsLedgerSum, NoNegativeBucket
<1> QED BY <1>1, <1>2, <1>3, <1>4

(* Every step of the engine preserves the inductive invariant. *)
LEMMA NextInv == Inv /\ [Next]_vars => Inv'
<1> SUFFICES ASSUME Inv, [Next]_vars PROVE Inv'
  OBVIOUS
<1>1. ASSUME NEW p \in Workers, NEW s \in Scripts, Begin(p, s) PROVE Inv'
  BY <1>1, BeginInv, ScriptsDisciplined
<1>2. ASSUME NEW p \in Workers, LockRow(p) PROVE Inv'
  BY <1>2, LockRowInv
<1>3. ASSUME NEW p \in Workers, WriteMovement(p) PROVE Inv'
  BY <1>3, WriteMovementInv
<1>4. ASSUME NEW p \in Workers,
             RejectMovement(p) \/ DeadlockVictim(p) \/ Crash(p)
      PROVE  Inv'
  BY <1>4, RollbackInv DEF RejectMovement, DeadlockVictim, Crash
<1>5. ASSUME NEW p \in Workers, Commit(p) PROVE Inv'
  BY <1>5, CommitInv
<1>6. ASSUME NEW p \in Workers, Invalidate(p) PROVE Inv'
  BY <1>6, InvalidateInv
<1>7. ASSUME NEW r \in Rows, NEW n \in SafetyLevels, SetSafetyStock(r, n)
      PROVE  Inv'
  BY <1>7, SetSafetyStockInv
<1>8. CASE UNCHANGED vars
  BY <1>8 DEF vars, Inv, TypeOK, ControlInv, WorkInv, SnapshotIsLedgerSum,
              NoNegativeBucket, Current
<1> QED BY <1>1, <1>2, <1>3, <1>4, <1>5, <1>6, <1>7, <1>8 DEF Next

-----------------------------------------------------------------------------
(* The specification always satisfies the inductive invariant. *)
THEOREM Invariance == Spec => []Inv
<1>1. Init => Inv
  BY InitInv
<1>2. Inv /\ [Next]_vars => Inv'
  BY NextInv
<1> QED BY <1>1, <1>2, PTL DEF Spec

(* The variables of the movement engine always have their types. *)
THEOREM TypeCorrect == Spec => []TypeOK
<1>1. Inv => TypeOK
  BY DEF Inv
<1> QED BY <1>1, Invariance, PTL

(* However transactions interleave, abort or crash, the committed snapshot *)
(* of every row is the sum of its committed ledger deltas.                 *)
THEOREM LedgerConsistency == Spec => []SnapshotIsLedgerSum
<1>1. Inv => SnapshotIsLedgerSum
  BY DEF Inv
<1> QED BY <1>1, Invariance, PTL

(* No committed bucket is ever negative or wider than its column. *)
THEOREM BucketsNonNegative == Spec => []NoNegativeBucket
<1>1. Inv => NoNegativeBucket
  BY DEF Inv
<1> QED BY <1>1, Invariance, PTL

(* What NoOversellStep says of a step. *)
KeepsPromises ==
  \A r \in Rows :
    PromisedUnits(snapshot'[r]) > PromisedUnits(snapshot[r])
      => Availability(snapshot'[r], safetyStock'[r]) >= 0

(* Only a commit changes a snapshot, and what it publishes is promised      *)
(* within availability.                                                     *)
LEMMA CommitPromises ==
  ASSUME Inv, NEW p \in Workers, Commit(p)
  PROVE  KeepsPromises
<1>1. ASSUME NEW r \in Rows, lock[r] = p
      PROVE  /\ snapshot'[r] = work[p][r] /\ safetyStock'[r] = safetyStock[r]
             /\ PromisedUnits(work[p][r]) > PromisedUnits(snapshot[r]) =>
                  Availability(work[p][r], safetyStock[r]) >= 0
  BY <1>1 DEF Commit, Inv, WorkInv
<1>2. ASSUME NEW r \in Rows, lock[r] # p
      PROVE  ~ (PromisedUnits(snapshot'[r]) > PromisedUnits(snapshot[r]))
  <2>1. snapshot'[r] = snapshot[r] /\ snapshot[r] \in Buckets
    BY <1>2 DEF Commit, Inv, TypeOK
  <2> QED BY <2>1, UnitsType
<1> QED BY <1>1, <1>2 DEF KeepsPromises

(* A step that leaves the snapshots alone promises nothing. *)
LEMMA NothingPromised ==
  ASSUME TypeOK, snapshot' = snapshot
  PROVE  KeepsPromises
<1>1. \A r \in Rows : snapshot[r] \in Buckets
  BY DEF TypeOK
<1>2. \A r \in Rows : PromisedUnits(snapshot[r]) \in Int
  BY <1>1, UnitsType
<1> QED BY <1>2 DEF KeepsPromises

(* No step promises units a row does not have: the unit another            *)
(* transaction promised meanwhile is never promised again.                 *)
THEOREM NoOversell == Spec => NoOversellStep
<1>1. Inv /\ [Next]_vars => [KeepsPromises]_vars
  <2> SUFFICES ASSUME Inv, [Next]_vars PROVE KeepsPromises
    OBVIOUS
  <2>1. (\E p \in Workers : Commit(p)) \/ snapshot' = snapshot
    BY DEF Next, vars, Begin, LockRow, WriteMovement, RejectMovement,
           Invalidate, DeadlockVictim, Crash, Rollback, SetSafetyStock
  <2> QED BY <2>1, CommitPromises, NothingPromised DEF Inv
<1> QED BY <1>1, Invariance, PTL DEF Spec, NoOversellStep, KeepsPromises

-----------------------------------------------------------------------------
(* The refinement of StockLedger *)


(* Rows after a movement, and the check the movement passed. *)
After(rows, m) == [rows EXCEPT ![m.row] = Plus(rows[m.row], m.deltas)]
Passes(rows, m) == Validates(Plus(rows[m.row], m.deltas), safetyStock[m.row], m)

(* The rows worker p holds, as its transaction sees them, are those of v. *)
Sees(p, v) == \A r \in Rows : lock[r] = p => work[p][r] = v[r]

First(p) == script[p][1]
Second(p) == script[p][2]

(* What a transaction that has written one movement, or two, could have    *)
(* done in one go on the rows committed by now: the rows it wrote are      *)
(* locked, so neither they nor their safety stock have changed since.      *)
OneDone(p) ==
  /\ lock[First(p).row] = p
  /\ Passes(snapshot, First(p))
  /\ Sees(p, After(snapshot, First(p)))
TwoDone(p) ==
  /\ lock[First(p).row] = p /\ lock[Second(p).row] = p
  /\ Passes(snapshot, First(p))
  /\ Passes(After(snapshot, First(p)), Second(p))
  /\ Sees(p, After(After(snapshot, First(p)), Second(p)))

(* The transactions of the services have one movement or two. *)
ShortScripts == { s \in Seq(Movement) : Len(s) \in {1, 2} }

SerialAt(p) ==
  pc[p] \in {"lock", "write", "commit"} =>
    /\ script[p] \in ShortScripts
    /\ pc[p] = "commit" => step[p] = Len(script[p]) + 1
    /\ step[p] = 1 => Sees(p, snapshot)
    /\ step[p] = 2 => OneDone(p)
    /\ step[p] = 3 => TwoDone(p)

SerialInv == \A p \in Workers : SerialAt(p)

(* A transaction under way is one of Scripts. *)
ScriptInv ==
  \A p \in Workers : pc[p] \in {"lock", "write", "commit"} => script[p] \in Scripts

-----------------------------------------------------------------------------
(* A transaction of the model has one or two movements. *)
LEMMA ScriptsShort ==
  ASSUME NEW s \in Scripts
  PROVE  s \in ShortScripts
<1>1. s \in Seq(Movement)
  BY ScriptsDisciplined
<1>2. Len(s) \in {1, 2}
  BY DEF Scripts, TransferScripts, ReserveScripts, SourceScripts
<1> QED BY <1>1, <1>2 DEF ShortScripts

(* The movements of a short transaction. *)
LEMMA ShortType ==
  ASSUME NEW s \in ShortScripts
  PROVE  /\ Len(s) \in {1, 2}
         /\ s[1] \in Movement
         /\ Len(s) = 2 => s[2] \in Movement
BY DEF ShortScripts

(* Hence a worker is at the first movement or at the second. *)
LEMMA StepsShort ==
  ASSUME NEW s \in ShortScripts, NEW k \in 1 .. Len(s)
  PROVE  k = 1 \/ (k = 2 /\ Len(s) = 2)
<1>1. CASE Len(s) = 1
  BY <1>1
<1>2. CASE Len(s) = 2
  BY <1>2
<1> QED BY <1>1, <1>2, ShortType

(* A movement has a row and deltas. *)
LEMMA MovementType ==
  ASSUME NEW m \in Movement
  PROVE  m.row \in Rows /\ m.deltas \in Buckets
BY DEF Movement

(* A movement changes its own row only. *)
LEMMA AfterRows ==
  ASSUME NEW rows \in [Rows -> Buckets], NEW m \in Movement
  PROVE  /\ After(rows, m) \in [Rows -> Buckets]
         /\ After(rows, m)[m.row] = Plus(rows[m.row], m.deltas)
         /\ \A r \in Rows : r # m.row => After(rows, m)[r] = rows[r]
<1>1. m.row \in Rows /\ m.deltas \in Buckets
  BY MovementType
<1>2. Plus(rows[m.row], m.deltas) \in Buckets
  BY <1>1, PlusType
<1> QED BY <1>1, <1>2 DEF After

(* SerialAt depends on a worker's own control, its locks, and what it      *)
(* wrote and checked; a step that spares these keeps it.                   *)
LEMMA SerialKept ==
  ASSUME Inv, SerialInv, NEW q \in Workers,
         pc'[q] = pc[q], script'[q] = script[q], step'[q] = step[q],
         work'[q] = work[q],
         \A r \in Rows : lock'[r] = q <=> lock[r] = q,
         \A r \in Rows : lock[r] = q =>
           snapshot'[r] = snapshot[r] /\ safetyStock'[r] = safetyStock[r],
         snapshot' \in [Rows -> Buckets]
  PROVE  SerialAt(q)'
<1> SUFFICES ASSUME pc[q] \in {"lock", "write", "commit"}
             PROVE  SerialAt(q)'
  BY DEF SerialAt
<1>0. /\ SerialAt(q) /\ script[q] \in ShortScripts /\ snapshot \in [Rows -> Buckets]
      /\ step[q] \in Nat
  BY DEF SerialInv, SerialAt, Inv, TypeOK
<1>1. PICK m : m = script[q][1]
  OBVIOUS
<1>2. PICK n : n = script[q][2]
  OBVIOUS
<1>3. m \in Movement /\ m.row \in Rows
  BY <1>0, <1>1, ShortType, MovementType
<1>4. step[q] = 3 => n \in Movement /\ n.row \in Rows
  <2>1. Len(script[q]) \in {1, 2}
    BY <1>0, ShortType
  <2>2. pc[q] \in {"lock", "write"} => step[q] \in 1 .. Len(script[q])
    BY DEF Inv, ControlInv
  <2>3. pc[q] = "commit" => step[q] = Len(script[q]) + 1
    BY <1>0 DEF SerialAt
  <2>4. CASE Len(script[q]) = 1
    <3>1. step[q] \in {1, 2}
      BY <2>2, <2>3, <2>4
    <3> QED BY <3>1
  <2>5. CASE Len(script[q]) = 2
    BY <1>0, <1>2, <2>5, ShortType, MovementType
  <2> QED BY <2>1, <2>4, <2>5
<1>5. First(q)' = m /\ Second(q)' = n /\ First(q) = m /\ Second(q) = n
  BY <1>1, <1>2 DEF First, Second
<1>6. ASSUME step[q] = 1 PROVE Sees(q, snapshot)'
  BY <1>0, <1>6 DEF SerialAt, Sees
<1>7. ASSUME step[q] = 2 PROVE OneDone(q)'
  <2>1. /\ lock[m.row] = q /\ Passes(snapshot, m)
        /\ Sees(q, After(snapshot, m))
    BY <1>0, <1>5, <1>7 DEF SerialAt, OneDone
  <2>2. /\ lock'[m.row] = q /\ snapshot'[m.row] = snapshot[m.row]
        /\ safetyStock'[m.row] = safetyStock[m.row]
    BY <2>1, <1>3
  <2>3. \A r \in Rows : lock[r] = q => After(snapshot', m)[r] = After(snapshot, m)[r]
    BY <1>0, <1>3, <2>2, AfterRows
  <2>4. \A r \in Rows : lock'[r] = q => work'[q][r] = After(snapshot', m)[r]
    BY <2>1, <2>3 DEF Sees
  <2>5. Validates(Plus(snapshot'[m.row], m.deltas), safetyStock'[m.row], m)
    BY <2>1, <2>2 DEF Passes
  <2> QED BY <1>5, <2>2, <2>4, <2>5 DEF OneDone, Sees, Passes
<1>8. ASSUME step[q] = 3 PROVE TwoDone(q)'
  <2> DEFINE old == After(snapshot, m)
             new == After(snapshot', m)
  <2>1. /\ lock[m.row] = q /\ lock[n.row] = q
        /\ Passes(snapshot, m) /\ Passes(old, n)
        /\ Sees(q, After(old, n))
    BY <1>0, <1>5, <1>8 DEF SerialAt, TwoDone
  <2>2. /\ lock'[m.row] = q /\ snapshot'[m.row] = snapshot[m.row]
        /\ safetyStock'[m.row] = safetyStock[m.row]
        /\ lock'[n.row] = q /\ safetyStock'[n.row] = safetyStock[n.row]
    BY <2>1, <1>3, <1>4, <1>8
  <2>3. /\ old \in [Rows -> Buckets] /\ new \in [Rows -> Buckets]
        /\ \A r \in Rows : lock[r] = q => new[r] = old[r]
    BY <1>0, <1>3, <2>2, AfterRows
  <2>4. n \in Movement /\ n.row \in Rows /\ new[n.row] = old[n.row]
    BY <1>4, <1>8, <2>1, <2>3
  <2> HIDE DEF old, new
  <2>5. \A r \in Rows : lock[r] = q => After(new, n)[r] = After(old, n)[r]
    BY <2>3, <2>4, AfterRows
  <2>6. \A r \in Rows : lock'[r] = q => work'[q][r] = After(new, n)[r]
    BY <2>1, <2>5 DEF Sees
  <2>7. /\ Validates(Plus(snapshot'[m.row], m.deltas), safetyStock'[m.row], m)
        /\ Validates(Plus(new[n.row], n.deltas), safetyStock'[n.row], n)
    BY <2>1, <2>2, <2>4 DEF Passes
  <2> QED BY <1>5, <2>2, <2>6, <2>7 DEF TwoDone, Sees, Passes, new
<1> QED BY <1>0, <1>6, <1>7, <1>8 DEF SerialAt

(* Steps that free a worker's rows, or touch only unlocked rows, keep      *)
(* SerialInv for everyone else.                                            *)
LEMMA SerialRollback ==
  ASSUME Inv, SerialInv, NEW p \in Workers, Rollback(p)
  PROVE  SerialInv'
<1> USE DEF Rollback, EndTransaction
<1>1. ASSUME NEW q \in Workers, q # p PROVE SerialAt(q)'
  <2>1. /\ pc'[q] = pc[q] /\ script'[q] = script[q] /\ step'[q] = step[q]
        /\ work'[q] = work[q]
        /\ \A r \in Rows : lock'[r] = q <=> lock[r] = q
        /\ snapshot' = snapshot /\ safetyStock' = safetyStock
        /\ snapshot' \in [Rows -> Buckets]
    BY <1>1, NoWorkerAssumption DEF Inv, TypeOK
  <2> QED BY <2>1, SerialKept
<1>2. SerialAt(p)'
  BY DEF SerialAt, Inv, TypeOK
<1> QED BY <1>1, <1>2 DEF SerialInv

(* A transaction starts with nothing locked. *)
LEMMA SerialBegin ==
  ASSUME Inv, SerialInv, NEW p \in Workers, NEW s \in ShortScripts, Begin(p, s)
  PROVE  SerialInv'
<1> USE DEF Begin
<1>1. ASSUME NEW q \in Workers, q # p PROVE SerialAt(q)'
  <2>1. /\ pc'[q] = pc[q] /\ script'[q] = script[q] /\ step'[q] = step[q]
        /\ work' = work /\ lock' = lock
        /\ snapshot' = snapshot /\ safetyStock' = safetyStock
        /\ snapshot' \in [Rows -> Buckets]
    BY <1>1 DEF Inv, TypeOK
  <2> QED BY <2>1, SerialKept
<1>2. SerialAt(p)'
  <2>1. /\ pc'[p] = "lock" /\ script'[p] = s /\ step'[p] = 1
    BY DEF Inv, TypeOK
  <2>2. \A r \in Rows : lock'[r] # p
    BY DEF Inv, ControlInv
  <2> QED BY <2>1, <2>2 DEF SerialAt, Sees
<1> QED BY <1>1, <1>2 DEF SerialInv

(* The locking read shows a row as it is committed. *)
LEMMA SerialLockRow ==
  ASSUME Inv, SerialInv, NEW p \in Workers, LockRow(p)
  PROVE  SerialInv'
<1>1. PICK r : r = Current(p).row
  OBVIOUS
<1>2. /\ r \in Rows /\ lock[r] \in {NoWorker, p}
      /\ lock' = [lock EXCEPT ![r] = p]
      /\ work' = IF lock[r] = p THEN work ELSE [work EXCEPT ![p][r] = snapshot[r]]
      /\ pc[p] = "lock" /\ pc' = [pc EXCEPT ![p] = "write"]
      /\ UNCHANGED <<snapshot, safetyStock, script, step>>
  BY <1>1, CurrentType DEF LockRow
<1>3. ASSUME NEW q \in Workers, q # p PROVE SerialAt(q)'
  <2>1. /\ pc'[q] = pc[q] /\ script'[q] = script[q] /\ step'[q] = step[q]
        /\ work'[q] = work[q]
        /\ \A t \in Rows : lock'[t] = q <=> lock[t] = q
        /\ snapshot' = snapshot /\ safetyStock' = safetyStock
        /\ snapshot' \in [Rows -> Buckets]
    BY <1>2, <1>3, NoWorkerAssumption DEF Inv, TypeOK
  <2> QED BY <2>1, SerialKept
<1>4. SerialAt(p)'
  <2>1. /\ SerialAt(p) /\ pc'[p] = "write" /\ script[p] \in ShortScripts
        /\ snapshot \in [Rows -> Buckets]
    BY <1>2 DEF SerialInv, SerialAt, Inv, TypeOK
  <2>2. step[p] \in 1 .. Len(script[p])
    BY <1>2 DEF Inv, ControlInv
  <2>3. step[p] = 1 \/ step[p] = 2
    BY <2>1, <2>2, StepsShort
  <2>4. \A t \in Rows : lock'[t] = p =>
          \/ lock[t] = p /\ work'[p][t] = work[p][t]
          \/ t = r /\ lock[r] # p /\ work'[p][t] = snapshot[t]
    BY <1>2 DEF Inv, TypeOK
  <2>5. CASE step[p] = 1
    BY <1>2, <2>1, <2>4, <2>5 DEF SerialAt, Sees
  <2>6. CASE step[p] = 2
    <3>1. PICK m : m = script[p][1]
      OBVIOUS
    <3>2. /\ m \in Movement /\ m.row \in Rows /\ lock[m.row] = p
          /\ Passes(snapshot, m) /\ Sees(p, After(snapshot, m))
      BY <2>1, <2>6, <1>2, <3>1, ShortType, MovementType
         DEF SerialAt, OneDone, First
    <3>3. lock[r] # p => After(snapshot, m)[r] = snapshot[r]
      BY <1>2, <2>1, <3>2, AfterRows
    <3>4. \A t \in Rows : lock'[t] = p => work'[p][t] = After(snapshot, m)[t]
      BY <2>4, <3>2, <3>3 DEF Sees
    <3>5. lock'[m.row] = p
      BY <1>2, <3>2 DEF Inv, TypeOK
    <3>6. OneDone(p)'
      BY <1>2, <3>1, <3>2, <3>4, <3>5 DEF OneDone, First, Sees, Passes
    <3> QED BY <1>2, <2>1, <2>6, <3>6 DEF SerialAt
  <2> QED BY <2>3, <2>5, <2>6
<1> QED BY <1>3, <1>4 DEF SerialInv

(* A validated write extends the serial run by the movement written. *)
LEMMA SerialWrite ==
  ASSUME Inv, SerialInv, NEW p \in Workers, WriteMovement(p)
  PROVE  SerialInv'
<1>1. PICK m : m = Current(p)
  OBVIOUS
<1>2. /\ m \in Movement /\ m.row \in Rows /\ m.deltas \in Buckets
      /\ lock[m.row] = p /\ snapshot \in [Rows -> Buckets]
  BY <1>1, CurrentType DEF Inv, ControlInv, WriteMovement, TypeOK
<1>3. /\ Validates(Plus(work[p][m.row], m.deltas), safetyStock[m.row], m)
      /\ work' = [work EXCEPT ![p][m.row] = Plus(work[p][m.row], m.deltas)]
      /\ step' = [step EXCEPT ![p] = step[p] + 1]
      /\ pc[p] = "write"
      /\ pc' = [pc EXCEPT ![p] =
                  IF step[p] = Len(script[p]) THEN "commit" ELSE "lock"]
      /\ UNCHANGED <<snapshot, safetyStock, lock, script>>
  BY <1>1 DEF WriteMovement
<1>4. ASSUME NEW q \in Workers, q # p PROVE SerialAt(q)'
  <2>1. /\ pc'[q] = pc[q] /\ script'[q] = script[q] /\ step'[q] = step[q]
        /\ work'[q] = work[q] /\ lock' = lock
        /\ snapshot' = snapshot /\ safetyStock' = safetyStock
    BY <1>3, <1>4 DEF Inv, TypeOK
  <2> QED BY <1>2, <2>1, SerialKept
<1>5. SerialAt(p)'
  <2>1. /\ SerialAt(p) /\ script[p] \in ShortScripts
        /\ step[p] \in 1 .. Len(script[p])
        /\ step'[p] = step[p] + 1
        /\ pc'[p] = "commit" => step[p] = Len(script[p])
    BY <1>3 DEF SerialInv, SerialAt, Inv, ControlInv, TypeOK
  <2>2. /\ work'[p][m.row] = Plus(work[p][m.row], m.deltas)
        /\ \A r \in Rows : r # m.row => work'[p][r] = work[p][r]
    BY <1>2, <1>3 DEF Inv, TypeOK
  <2>3. CASE step[p] = 1
    <3>1. /\ m = script[p][1] /\ Sees(p, snapshot)
      BY <1>1, <1>3, <2>1, <2>3 DEF Current, SerialAt
    <3>2. work[p][m.row] = snapshot[m.row]
      BY <1>2, <3>1 DEF Sees
    <3>3. \A r \in Rows : lock[r] = p => work'[p][r] = After(snapshot, m)[r]
      BY <1>2, <2>2, <3>1, <3>2, AfterRows DEF Sees
    <3>4. OneDone(p)'
      BY <1>2, <1>3, <3>1, <3>2, <3>3 DEF OneDone, First, Sees, Passes
    <3>5. /\ script'[p] = script[p] /\ step'[p] = 2
          /\ pc'[p] = "commit" => Len(script[p]) = 1
      BY <1>3, <2>1, <2>3
    <3> QED BY <2>1, <3>4, <3>5 DEF SerialAt
  <2>4. CASE step[p] = 2 /\ Len(script[p]) = 2
    <3>1. PICK k : k = script[p][1]
      OBVIOUS
    <3>2. PICK v : v = After(snapshot, k)
      OBVIOUS
    <3>3. /\ m = script[p][2] /\ lock[k.row] = p
          /\ Passes(snapshot, k) /\ Sees(p, v)
      BY <1>1, <1>3, <2>1, <2>4, <3>1, <3>2 DEF Current, SerialAt, OneDone, First
    <3>4. v \in [Rows -> Buckets] /\ work[p][m.row] = v[m.row]
      BY <1>2, <2>1, <3>1, <3>2, <3>3, ShortType, AfterRows DEF Sees
    <3>5. \A r \in Rows : lock[r] = p => work'[p][r] = After(v, m)[r]
      BY <1>2, <2>2, <3>3, <3>4, AfterRows DEF Sees
    <3>6. Passes(v, m)
      BY <1>3, <3>4 DEF Passes
    <3>7. TwoDone(p)'
      BY <1>2, <1>3, <3>1, <3>2, <3>3, <3>5, <3>6
         DEF TwoDone, First, Second, Sees, Passes
    <3> QED BY <1>3, <2>1, <2>4, <3>7 DEF SerialAt
  <2> QED BY <2>1, <2>3, <2>4, StepsShort
<1> QED BY <1>4, <1>5 DEF SerialInv

(* A commit changes only rows its worker had locked. *)
LEMMA SerialCommit ==
  ASSUME Inv, SerialInv, NEW p \in Workers, Commit(p)
  PROVE  SerialInv'
<1> USE DEF Commit, EndTransaction
<1>1. ASSUME NEW q \in Workers, q # p PROVE SerialAt(q)'
  <2>1. /\ pc'[q] = pc[q] /\ script'[q] = script[q] /\ step'[q] = step[q]
        /\ work'[q] = work[q]
        /\ \A r \in Rows : lock'[r] = q <=> lock[r] = q
        /\ \A r \in Rows : lock[r] = q => snapshot'[r] = snapshot[r]
        /\ safetyStock' = safetyStock
        /\ snapshot' \in [Rows -> Buckets]
    BY <1>1, NoWorkerAssumption DEF Inv, TypeOK
  <2> QED BY <2>1, SerialKept
<1>2. SerialAt(p)'
  BY DEF SerialAt, Inv, TypeOK
<1> QED BY <1>1, <1>2 DEF SerialInv

(* Announcing a change is no part of any transaction. *)
LEMMA SerialInvalidate ==
  ASSUME Inv, SerialInv, NEW p \in Workers, Invalidate(p)
  PROVE  SerialInv'
<1> USE DEF Invalidate
<1>1. ASSUME NEW q \in Workers, q # p PROVE SerialAt(q)'
  <2>1. /\ pc'[q] = pc[q] /\ script'[q] = script[q] /\ step'[q] = step[q]
        /\ work' = work /\ lock' = lock /\ snapshot' = snapshot
        /\ safetyStock' = safetyStock /\ snapshot' \in [Rows -> Buckets]
    BY <1>1 DEF Inv, TypeOK
  <2> QED BY <2>1, SerialKept
<1>2. SerialAt(p)'
  BY DEF SerialAt, Inv, TypeOK
<1> QED BY <1>1, <1>2 DEF SerialInv

(* Safety stock changes under no transaction's feet. *)
LEMMA SerialSafetyStock ==
  ASSUME Inv, SerialInv, NEW r \in Rows, NEW n \in SafetyLevels,
         SetSafetyStock(r, n)
  PROVE  SerialInv'
<1> SUFFICES ASSUME NEW q \in Workers PROVE SerialAt(q)'
  BY DEF SerialInv
<1>1. /\ pc' = pc /\ script' = script /\ step' = step
      /\ work' = work /\ lock' = lock /\ snapshot' = snapshot
      /\ \A t \in Rows : lock[t] = q => safetyStock'[t] = safetyStock[t]
      /\ snapshot' \in [Rows -> Buckets]
  BY NoWorkerAssumption DEF SetSafetyStock, Inv, TypeOK
<1> QED BY <1>1, SerialKept

(* Every step keeps SerialInv. *)
LEMMA SerialNext == Inv /\ SerialInv /\ [Next]_vars => SerialInv'
<1> SUFFICES ASSUME Inv, SerialInv, [Next]_vars PROVE SerialInv'
  OBVIOUS
<1>1. ASSUME NEW p \in Workers, NEW s \in Scripts, Begin(p, s) PROVE SerialInv'
  BY <1>1, SerialBegin, ScriptsShort
<1>2. ASSUME NEW p \in Workers, LockRow(p) PROVE SerialInv'
  BY <1>2, SerialLockRow
<1>3. ASSUME NEW p \in Workers, WriteMovement(p) PROVE SerialInv'
  BY <1>3, SerialWrite
<1>4. ASSUME NEW p \in Workers,
             RejectMovement(p) \/ DeadlockVictim(p) \/ Crash(p)
      PROVE  SerialInv'
  BY <1>4, SerialRollback DEF RejectMovement, DeadlockVictim, Crash
<1>5. ASSUME NEW p \in Workers, Commit(p) PROVE SerialInv'
  BY <1>5, SerialCommit
<1>6. ASSUME NEW p \in Workers, Invalidate(p) PROVE SerialInv'
  BY <1>6, SerialInvalidate
<1>7. ASSUME NEW r \in Rows, NEW n \in SafetyLevels, SetSafetyStock(r, n)
      PROVE  SerialInv'
  BY <1>7, SerialSafetyStock
<1>8. CASE UNCHANGED vars
  BY <1>8 DEF vars, SerialInv, SerialAt, Sees, OneDone, TwoDone, First, Second,
              Passes
<1> QED BY <1>1, <1>2, <1>3, <1>4, <1>5, <1>6, <1>7, <1>8 DEF Next

(* Only Begin gives a worker its transaction. *)
LEMMA ScriptNext == Inv /\ ScriptInv /\ [Next]_vars => ScriptInv'
<1> SUFFICES ASSUME Inv, ScriptInv, [Next]_vars PROVE ScriptInv'
  OBVIOUS
<1> USE DEF ScriptInv, Inv, TypeOK
<1>1. ASSUME NEW p \in Workers, NEW s \in Scripts, Begin(p, s) PROVE ScriptInv'
  BY <1>1 DEF Begin
<1>2. ASSUME NEW p \in Workers, LockRow(p) \/ WriteMovement(p) \/ Commit(p)
      PROVE  ScriptInv'
  BY <1>2 DEF LockRow, WriteMovement, Commit
<1>3. ASSUME NEW p \in Workers, Rollback(p) \/ Invalidate(p) PROVE ScriptInv'
  BY <1>3 DEF Rollback, Invalidate
<1>4. ASSUME NEW r \in Rows, NEW n \in SafetyLevels, SetSafetyStock(r, n)
      PROVE  ScriptInv'
  BY <1>4 DEF SetSafetyStock
<1>5. CASE UNCHANGED vars
  BY <1>5 DEF vars
<1> QED BY <1>1, <1>2, <1>3, <1>4, <1>5
        DEF Next, RejectMovement, DeadlockVictim, Crash

-----------------------------------------------------------------------------
(* The refinement *)

(* The operators of the abstract specification, in the engine's terms. *)
LEMMA LedgerOperators ==
  ASSUME NEW rows, NEW m
  PROVE  /\ Ledger!Applied(rows, m) = After(rows, m)
         /\ Ledger!Legal(rows, m) <=> Passes(rows, m)
BY DEF Ledger!Applied, Ledger!Legal, Ledger!Plus, Ledger!Validates,
       Ledger!Availability, Ledger!Bucket, After, Passes, Plus, Validates,
       Availability, Bucket

(* The empty database is an empty ledger. *)
LEMMA InitRefines == Init => Ledger!Init
BY DEF Init, InitWith, ClearRows, Ledger!Init, Answer, Rows, Ledger!Rows,
       ZeroBuckets, Ledger!ZeroBuckets, Bucket, Ledger!Bucket

(* A commit performs its worker's whole transaction on the committed rows. *)
LEMMA CommitRefines ==
  ASSUME Inv, SerialInv, NEW p \in Workers, Commit(p)
  PROVE  Ledger!Perform(p, script[p])
<1>1. /\ pc[p] = "commit" /\ pc' = [pc EXCEPT ![p] = "invalidate"]
      /\ snapshot' = [r \in Rows |-> IF lock[r] = p THEN work[p][r]
                                                     ELSE snapshot[r]]
      /\ script' = script /\ safetyStock' = safetyStock
  BY DEF Commit
<1>2. /\ SerialAt(p) /\ script[p] \in ShortScripts
      /\ step[p] = Len(script[p]) + 1 /\ snapshot \in [Rows -> Buckets]
  BY <1>1 DEF SerialInv, SerialAt, Inv, TypeOK
<1>3. /\ Answer[p] = << >>
      /\ Answer' = [Answer EXCEPT ![p] = script[p]]
  BY <1>1 DEF Answer, Inv, TypeOK
<1>4. PICK m : m = script[p][1]
  OBVIOUS
<1>5. m \in Movement
  BY <1>2, <1>4, ShortType
<1>6. CASE Len(script[p]) = 1
  <2>1. /\ lock[m.row] = p /\ Passes(snapshot, m) /\ Sees(p, After(snapshot, m))
    BY <1>1, <1>2, <1>4, <1>6 DEF SerialAt, OneDone, First
  <2>2. /\ After(snapshot, m) \in [Rows -> Buckets]
        /\ \A r \in Rows : lock[r] # p => After(snapshot, m)[r] = snapshot[r]
    BY <1>2, <1>5, <2>1, AfterRows
  <2>3. snapshot' = After(snapshot, m)
    BY <1>1, <2>1, <2>2 DEF Sees
  <2>4. Ledger!Single(script[p][1])
    BY <1>4, <2>1, <2>3, LedgerOperators DEF Ledger!Single
  <2> QED BY <1>1, <1>3, <1>6, <2>4 DEF Ledger!Perform
<1>7. CASE Len(script[p]) = 2
  <2>1. PICK n : n = script[p][2]
    OBVIOUS
  <2>2. PICK v : v = After(snapshot, m)
    OBVIOUS
  <2>3. /\ lock[m.row] = p /\ lock[n.row] = p
        /\ Passes(snapshot, m) /\ Passes(v, n) /\ Sees(p, After(v, n))
    BY <1>1, <1>2, <1>4, <1>7, <2>1, <2>2 DEF SerialAt, TwoDone, First, Second
  <2>4. /\ n \in Movement /\ v \in [Rows -> Buckets]
        /\ \A r \in Rows : lock[r] # p => v[r] = snapshot[r]
    BY <1>2, <1>5, <1>7, <2>1, <2>2, <2>3, ShortType, AfterRows
  <2>5. /\ After(v, n) \in [Rows -> Buckets]
        /\ \A r \in Rows : lock[r] # p => After(v, n)[r] = snapshot[r]
    BY <2>3, <2>4, AfterRows
  <2>6. snapshot' = After(v, n)
    BY <1>1, <2>3, <2>5 DEF Sees
  <2>7. Ledger!Pair(script[p][1], script[p][2])
    BY <1>4, <2>1, <2>2, <2>3, <2>6, LedgerOperators DEF Ledger!Pair
  <2> QED BY <1>1, <1>3, <1>7, <2>7 DEF Ledger!Perform
<1> QED BY <1>2, <1>6, <1>7, ShortType

(* Each step of the engine is a step of the ledger or no step at all. *)
LEMMA NextRefines ==
  Inv /\ SerialInv /\ ScriptInv /\ [Next]_vars
    => [Ledger!Next]_<<snapshot, safetyStock, Answer>>
<1> SUFFICES ASSUME Inv, SerialInv, ScriptInv, [Next]_vars
             PROVE  [Ledger!Next]_<<snapshot, safetyStock, Answer>>
  OBVIOUS
<1> DEFINE Stutters == UNCHANGED <<snapshot, safetyStock, Answer>>
<1>1. ASSUME NEW p \in Workers, NEW s \in Scripts, Begin(p, s) PROVE Stutters
  BY <1>1 DEF Begin, Answer, Inv, TypeOK
<1>2. ASSUME NEW p \in Workers, LockRow(p) PROVE Stutters
  BY <1>2 DEF LockRow, Answer, Inv, TypeOK
<1>3. ASSUME NEW p \in Workers, WriteMovement(p) PROVE Stutters
  BY <1>3 DEF WriteMovement, Answer, Inv, TypeOK
<1>4. ASSUME NEW p \in Workers, Rollback(p) \/ Invalidate(p)
      PROVE  Ledger!Next
  <2>0. /\ pc' = [pc EXCEPT ![p] = "idle"]
        /\ script' = [script EXCEPT ![p] = << >>]
        /\ UNCHANGED <<snapshot, safetyStock>>
    BY <1>4 DEF Rollback, Invalidate
  <2>1. /\ Answer' = [Answer EXCEPT ![p] = << >>]
        /\ UNCHANGED <<snapshot, safetyStock>>
    BY <2>0 DEF Answer, Inv, TypeOK
  <2> QED BY <2>1 DEF Ledger!Next, Ledger!Return
<1>5. ASSUME NEW p \in Workers, Commit(p) PROVE Ledger!Next
  <2>1. script[p] \in Scripts
    BY <1>5 DEF Commit, ScriptInv
  <2> QED BY <1>5, <2>1, CommitRefines DEF Ledger!Next
<1>6. ASSUME NEW r \in Rows, NEW n \in SafetyLevels, SetSafetyStock(r, n)
      PROVE  Ledger!Next
  <2>1. Ledger!SetSafety(r, n)
    BY <1>6 DEF SetSafetyStock, Ledger!SetSafety, Answer
  <2> QED BY <2>1 DEF Ledger!Next, Ledger!Rows, Rows
<1>7. CASE UNCHANGED vars
  BY <1>7 DEF vars, Answer
<1> QED BY <1>1, <1>2, <1>3, <1>4, <1>5, <1>6, <1>7
        DEF Next, RejectMovement, DeadlockVictim, Crash

(* The engine implements StockLedger: every caller's transaction takes     *)
(* effect whole and at one point of time, whatever ran beside it, and a    *)
(* transaction that aborts or crashes before its commit has no effect.     *)
THEOREM EngineImplementsStockLedger == Spec => ImplementsStockLedger
<1>1. Init => SerialInv
  BY DEF Init, InitWith, SerialInv, SerialAt
<1>2. Inv /\ SerialInv /\ [Next]_vars => SerialInv'
  BY SerialNext
<1>3. Init => Ledger!Init
  BY InitRefines
<1>4. Inv /\ SerialInv /\ ScriptInv /\ [Next]_vars
        => [Ledger!Next]_<<snapshot, safetyStock, Answer>>
  BY NextRefines
<1>5. Init => ScriptInv
  BY DEF Init, InitWith, ScriptInv
<1>6. Inv /\ ScriptInv /\ [Next]_vars => ScriptInv'
  BY ScriptNext
<1> QED BY <1>1, <1>2, <1>3, <1>4, <1>5, <1>6, Invariance, PTL
        DEF Spec, ImplementsStockLedger, Ledger!Spec

-----------------------------------------------------------------------------
-----------------------------------------------------------------------------
(* Expected deliveries *)

Open(p) == pc[p] \in {"lock", "write", "commit"}
Receiving(p) == Open(p) /\ purpose[p].kind = "receive"

(* The units of an open receipt, and the receivedQty it started from. *)
Units(p) == script[p][1].deltas["onHand"]
Base(p) == purpose[p].received - Units(p)

Delivery ==
  [row : Rows, quantity : Nat, receivedQty : Int,
   status : {"EXPECTED", "RECEIVED"}, overlapped : BOOLEAN]
Task == [kind : {"none", "create", "receive", "move"}, id : Nat, received : Int]

TablesOK == inbounds \in Seq(Delivery) /\ purpose \in [Workers -> Task]

(* What each open transaction is for. *)
TaskAt(p) ==
  /\ Open(p) => purpose[p].kind # "none"
  /\ Open(p) /\ purpose[p].kind = "move" => script[p] \in OtherScripts
  /\ Open(p) /\ purpose[p].kind = "create" =>
       \E r \in Rows, q \in DeliverySizes : script[p] = <<CreateInbound(r, q)>>
  /\ Receiving(p) =>
       /\ purpose[p].id \in DOMAIN inbounds
       /\ Units(p) \in Nat \ {0}
       /\ script[p] = <<ArriveInbound(inbounds[purpose[p].id].row, Units(p))>>

TaskInv == \A p \in Workers : TaskAt(p)

(* Two open receipts of one delivery have been noticed. *)
OverlapInv ==
  \A p, q \in Workers :
    p # q /\ Receiving(p) /\ Receiving(q) /\ purpose[p].id = purpose[q].id
      => inbounds[purpose[p].id].overlapped

(* What delivery i still has in transit, if actual[i] units have arrived. *)
InTransitOf(actual, r) == Sum([i \in At(r) |-> inbounds[i].quantity - actual[i]], At(r))

(* The units that have really arrived account for inTransit; a row, or a   *)
(* receipt under way, knows of them all unless receipts overlapped, and    *)
(* never of more.                                                          *)
Accounts(actual) ==
  /\ \A r \in Rows : InTransitOf(actual, r) = snapshot[r]["inTransit"]
  /\ \A i \in DOMAIN inbounds :
       /\ inbounds[i].receivedQty <= actual[i]
       /\ ~ inbounds[i].overlapped => inbounds[i].receivedQty = actual[i]
  /\ \A p \in Workers : Receiving(p) =>
       /\ Base(p) <= actual[purpose[p].id]
       /\ ~ inbounds[purpose[p].id].overlapped => Base(p) = actual[purpose[p].id]

ArrivalInv == \E actual \in [DOMAIN inbounds -> Int] : Accounts(actual)

InbInv ==
  /\ Inv /\ SerialInv
  /\ TablesOK /\ TaskInv /\ OverlapInv
  /\ ArrivalInv /\ InboundConserved

-----------------------------------------------------------------------------
(* Sums over the rows of a SKU *)

RowSum(rows, s, b) == Sum([l \in Locations |-> rows[<<s, l>>][b]], Locations)

(* A movement changes the sum of its own SKU by its delta. *)
LEMMA RowSumAfter ==
  ASSUME NEW rows \in [Rows -> Buckets], NEW m \in Movement, NEW s \in Skus,
         NEW b \in Bucket
  PROVE  /\ RowSum(rows, s, b) \in Int
         /\ SkuOf(m.row) = s =>
              RowSum(After(rows, m), s, b) = RowSum(rows, s, b) + m.deltas[b]
         /\ SkuOf(m.row) # s => RowSum(After(rows, m), s, b) = RowSum(rows, s, b)
<1> DEFINE F == [l \in Locations |-> rows[<<s, l>>][b]]
           G == [l \in Locations |-> After(rows, m)[<<s, l>>][b]]
<1>0. IsFiniteSet(Locations)
  BY InboundAssumption
<1>1. /\ m.row \in Rows /\ m.deltas \in Buckets
      /\ After(rows, m) \in [Rows -> Buckets]
      /\ After(rows, m)[m.row] = Plus(rows[m.row], m.deltas)
      /\ \A r \in Rows : r # m.row => After(rows, m)[r] = rows[r]
  BY MovementType, AfterRows
<1>2. \A l \in Locations : <<s, l>> \in Rows
  BY DEF Rows
<1>3. \A l \in Locations : F[l] \in Int /\ G[l] \in Int
  BY <1>1, <1>2 DEF Buckets
<1>4. RowSum(rows, s, b) = Sum(F, Locations) /\ RowSum(After(rows, m), s, b) = Sum(G, Locations)
  BY DEF RowSum
<1>5. \A l \in Locations : <<s, l>> # m.row => F[l] = G[l]
  BY <1>1, <1>2
<1>6. m.deltas[b] \in Int
  BY <1>1 DEF Buckets
<1>7. Sum(F, Locations) \in Int
  BY <1>0, <1>3, SumType
<1>8. CASE SkuOf(m.row) = s
  <2>1. PICK k \in Locations : m.row = <<s, k>>
    BY <1>1, <1>8 DEF Rows, SkuOf
  <2>2. \A l \in Locations \ {k} : F[l] = G[l]
    BY <1>5, <2>1
  <2>3. G[k] = F[k] + m.deltas[b]
    BY <1>1, <2>1, PlusType
  <2> HIDE DEF F, G
  <2>4. Sum(G, Locations) = Sum(F, Locations) + G[k] - F[k]
    BY <1>0, <1>3, <2>2, SumChange
  <2>5. F[k] \in Int
    BY <1>3
  <2>6. Sum(G, Locations) = Sum(F, Locations) + m.deltas[b]
    BY <1>6, <1>7, <2>3, <2>4, <2>5
  <2> QED BY <1>4, <1>7, <1>8, <2>6
<1>9. CASE SkuOf(m.row) # s
  <2>1. \A l \in Locations : <<s, l>> # m.row
    BY <1>9 DEF SkuOf
  <2>2. \A l \in Locations : F[l] = G[l]
    BY <1>5, <2>1
  <2> HIDE DEF F, G
  <2>3. Sum(F, Locations) = Sum(G, Locations)
    BY <1>0, <1>3, <2>2, SumSame
  <2> QED BY <1>4, <1>7, <1>9, <2>3
<1> QED BY <1>8, <1>9

(* A commit performs the movements of its script on the committed rows. *)
LEMMA CommitApplies ==
  ASSUME Inv, SerialInv, NEW p \in Workers, Commit(p)
  PROVE  /\ script[p] \in ShortScripts
         /\ Len(script[p]) = 1 => snapshot' = After(snapshot, script[p][1])
         /\ Len(script[p]) = 2 =>
              snapshot' = After(After(snapshot, script[p][1]), script[p][2])
<1>1. Ledger!Perform(p, script[p])
  BY CommitRefines
<1>2. script[p] \in ShortScripts
  BY DEF Commit, SerialInv, SerialAt
<1>3. CASE Len(script[p]) = 1
  BY <1>1, <1>2, <1>3, LedgerOperators DEF Ledger!Perform, Ledger!Single
<1>4. CASE Len(script[p]) = 2
  BY <1>1, <1>2, <1>4, LedgerOperators DEF Ledger!Perform, Ledger!Pair
<1> QED BY <1>2, <1>3, <1>4

(* The other requests leave what is in transit alone, and over the network *)
(* what is on hand.                                                        *)
LEMMA OtherRequestsNeutral ==
  ASSUME NEW s \in OtherScripts
  PROVE  /\ \A i \in 1 .. Len(s) : s[i].deltas["inTransit"] = 0
         /\ \/ \A i \in 1 .. Len(s) : s[i].deltas["onHand"] = 0
            \/ /\ Len(s) = 2 /\ SkuOf(s[1].row) = SkuOf(s[2].row)
               /\ s[1].deltas["onHand"] \in Int
               /\ s[2].deltas["onHand"] = - s[1].deltas["onHand"]
<1>0. \A q \in Quantities : q \in Int /\ -q \in Int /\ 0 \in Int
  BY QuantitiesAssumption
<1>1. ASSUME NEW x \in Int, NEW y \in Int, NEW z \in Int
      PROVE  /\ Deltas(x, y, z, 0)["onHand"] = x
             /\ Deltas(x, y, z, 0)["inTransit"] = 0
  <2>1. 0 \in Int
    OBVIOUS
  <2> QED BY <2>1 DEF Deltas, ZeroBuckets, Bucket
<1>5. ASSUME NEW r, NEW q \in Quantities
      PROVE  \A m \in { Reserve(r, q), ReleaseReserve(r, q), Allocate(r, q),
                         Deallocate(r, q), ConvertReserveToAllocation(r, q) } :
               m.deltas["inTransit"] = 0 /\ m.deltas["onHand"] = 0
  <2>0. q \in Int /\ -q \in Int /\ 0 \in Int
    BY <1>0
  <2>1. \A m \in { Reserve(r, q), ReleaseReserve(r, q), Allocate(r, q),
                    Deallocate(r, q), ConvertReserveToAllocation(r, q) } :
          m.deltas \in { Deltas(0, q, 0, 0), Deltas(0, -q, 0, 0), Deltas(0, 0, q, 0),
                         Deltas(0, 0, -q, 0), Deltas(0, -q, q, 0) }
    BY DEF Reserve, ReleaseReserve, Allocate, Deallocate,
           ConvertReserveToAllocation, Move
  <2>2. \A d \in { Deltas(0, q, 0, 0), Deltas(0, -q, 0, 0), Deltas(0, 0, q, 0),
                    Deltas(0, 0, -q, 0), Deltas(0, -q, q, 0) } :
          d["inTransit"] = 0 /\ d["onHand"] = 0
    BY <2>0, <1>1
  <2> QED BY <2>1, <2>2
<1>6. ASSUME NEW r, NEW q \in Quantities
      PROVE  /\ TransferOut(r, q).deltas["inTransit"] = 0
             /\ TransferOut(r, q).deltas["onHand"] = -q
             /\ TransferIn(r, q).deltas["inTransit"] = 0
             /\ TransferIn(r, q).deltas["onHand"] = q
             /\ TransferOut(r, q).row = r /\ TransferIn(r, q).row = r
  <2>0. q \in Int /\ -q \in Int /\ 0 \in Int
    BY <1>0
  <2>1. /\ TransferOut(r, q).deltas = Deltas(-q, 0, 0, 0)
        /\ TransferIn(r, q).deltas = Deltas(q, 0, 0, 0)
        /\ TransferOut(r, q).row = r /\ TransferIn(r, q).row = r
    BY DEF TransferOut, TransferIn, Move
  <2> QED BY <2>0, <2>1, <1>1
<1>2. CASE \E m \in SingleMoves : s = <<m>> /\ m.event \in Operations
  <2>1. PICK m \in SingleMoves : s = <<m>> /\ m.event \in Operations
    BY <1>2
  <2>2. PICK r \in Rows, q \in Quantities :
          m \in { Receive(r, q), Adjust(r, q), Adjust(r, -q), Reserve(r, q),
                  ReleaseReserve(r, q), Allocate(r, q), Deallocate(r, q),
                  ConvertReserveToAllocation(r, q), Ship(r, q), ReturnStock(r, q),
                  CreateInbound(r, q), ArriveInbound(r, q) }
    BY DEF SingleMoves
  <2>3. m.event \notin {"INBOUND_CREATE", "INBOUND_ARRIVE", "RECEIPT", "ADJUSTMENT",
                        "SHIP", "RETURN"}
    BY <2>1 DEF OtherScripts
  <2>4. m \in { Reserve(r, q), ReleaseReserve(r, q), Allocate(r, q), Deallocate(r, q),
                ConvertReserveToAllocation(r, q) }
    BY <2>2, <2>3 DEF Receive, Adjust, Ship, ReturnStock, CreateInbound, ArriveInbound, Move
  <2>5. m.deltas["inTransit"] = 0 /\ m.deltas["onHand"] = 0
    BY <1>5, <2>4
  <2> QED BY <2>1, <2>5
<1>3. CASE s \in TransferScripts
  <2>1. PICK r \in Rows, t \in Rows, q \in Quantities :
          s = <<TransferOut(r, q), TransferIn(t, q)>> /\ SkuOf(r) = SkuOf(t)
    BY <1>3 DEF TransferScripts
  <2>3. Len(s) = 2 /\ s[1] = TransferOut(r, q) /\ s[2] = TransferIn(t, q)
    BY <2>1
  <2> QED BY <1>0, <1>6, <2>1, <2>3
<1>4. CASE s \in ReserveScripts \cup SourceScripts
  <2>1. PICK r \in Rows, t \in Rows, q \in Quantities :
          \/ s = <<Reserve(r, q), Reserve(t, q)>>
          \/ s = <<ReleaseReserve(r, q), Allocate(t, q)>>
    BY <1>4 DEF ReserveScripts, SourceScripts
  <2>2. ASSUME NEW x \in Rows
        PROVE \A m \in { Reserve(x, q), ReleaseReserve(x, q), Allocate(x, q) } :
                m.deltas["inTransit"] = 0 /\ m.deltas["onHand"] = 0
    BY <1>5
  <2> QED BY <2>1, <2>2
<1> QED BY <1>2, <1>3, <1>4 DEF Scripts, OtherScripts

-----------------------------------------------------------------------------
(* Steps *)

(* The single movements of this service are well-formed transactions. *)
LEMMA InboundScripts ==
  ASSUME NEW r \in Rows, NEW q \in Nat \ {0}
  PROVE  \A s \in { <<CreateInbound(r, q)>>, <<ArriveInbound(r, q)>> } :
           s \in Seq(Movement) /\ Disciplined(s) /\ s \in ShortScripts
<1>1. \A m \in {CreateInbound(r, q), ArriveInbound(r, q)} :
        m \in Movement /\ (PromisedUnits(m.deltas) > 0 => m.requireAvailable)
  BY PrimitivesType
<1>2. ASSUME NEW m \in Movement, PromisedUnits(m.deltas) > 0 => m.requireAvailable
      PROVE  <<m>> \in Seq(Movement) /\ Disciplined(<<m>>) /\ <<m>> \in ShortScripts
  BY <1>2 DEF Disciplined, ShortScripts
<1> QED BY <1>1, <1>2

(* A step that leaves a worker alone keeps what its transaction is for. *)
LEMMA TaskKept ==
  ASSUME NEW q \in Workers, TaskAt(q),
         Open(q)' => Open(q), script'[q] = script[q], purpose'[q] = purpose[q],
         \A i \in DOMAIN inbounds :
           i \in DOMAIN inbounds' /\ inbounds'[i].row = inbounds[i].row
  PROVE  TaskAt(q)'
BY DEF TaskAt, Receiving, Units

(* So does one that leaves stock and Inbound rows as they are and opens no *)
(* receipt.                                                                *)
LEMMA QuietStep ==
  ASSUME InbInv, snapshot' = snapshot, inbounds' = inbounds,
         \A q \in Workers : Receiving(q)' =>
           Receiving(q) /\ script'[q] = script[q] /\ purpose'[q] = purpose[q]
  PROVE  OverlapInv' /\ ArrivalInv' /\ InboundConserved'
<1>1. OverlapInv'
  BY DEF InbInv, OverlapInv
<1>2. ArrivalInv'
  <2>1. PICK actual \in [DOMAIN inbounds -> Int] : Accounts(actual)
    BY DEF InbInv, ArrivalInv
  <2>2. Accounts(actual)'
    <3>1. \A r \in Rows : InTransitOf(actual, r)' = snapshot'[r]["inTransit"]
      BY <2>1 DEF Accounts, InTransitOf, At
    <3>2. \A q \in Workers : Receiving(q)' => Base(q)' = Base(q)
      BY DEF Base, Units
    <3> QED BY <2>1, <3>1, <3>2 DEF Accounts
  <2> QED BY <2>2 DEF ArrivalInv
<1>3. InboundConserved'
  BY DEF InbInv, InboundConserved, SumRows, Of
<1> QED BY <1>1, <1>2, <1>3

(* The engine keeps its own invariants under the steps of this service. *)
LEMMA StartCreateInv ==
  ASSUME InbInv, NEW p \in Workers, NEW r \in Rows, NEW q \in DeliverySizes,
         StartCreate(p, r, q)
  PROVE  InbInv'
<1>0. q \in Nat \ {0}
  BY InboundAssumption
<1>1. PICK s : s = <<CreateInbound(r, q)>>
  OBVIOUS
<1>2. s \in Seq(Movement) /\ Disciplined(s) /\ s \in ShortScripts
  BY <1>0, <1>1, InboundScripts
<1>3. Begin(p, s)
  BY <1>1 DEF StartCreate
<1>4. Inv' /\ SerialInv'
  BY <1>2, <1>3, BeginInv, SerialBegin DEF InbInv
<1>5. /\ pc[p] = "idle" /\ pc' = [pc EXCEPT ![p] = "lock"]
      /\ script' = [script EXCEPT ![p] = s] /\ snapshot' = snapshot
      /\ purpose' = [purpose EXCEPT ![p].kind = "create"] /\ inbounds' = inbounds
  BY <1>3 DEF Begin, StartCreate
<1>6. /\ pc \in [Workers -> {"idle", "lock", "write", "commit", "invalidate"}]
      /\ script \in [Workers -> Seq(Movement)] /\ purpose \in [Workers -> Task]
      /\ inbounds \in Seq(Delivery)
  BY DEF InbInv, Inv, TypeOK, TablesOK
<1>7. TablesOK'
  BY <1>5, <1>6 DEF TablesOK, Task
<1>8. purpose'[p].kind = "create" /\ pc'[p] = "lock" /\ script'[p] = s
  BY <1>5, <1>6 DEF Task
<1>9. \A w \in Workers \ {p} : /\ pc'[w] = pc[w] /\ script'[w] = script[w]
                                /\ purpose'[w] = purpose[w]
  BY <1>5, <1>6
<1>10. TaskInv'
  <2>1. ASSUME NEW w \in Workers \ {p} PROVE TaskAt(w)'
    <3>1. TaskAt(w) /\ (Open(w)' => Open(w))
      BY <1>9 DEF InbInv, TaskInv, Open
    <3> QED BY <1>5, <1>9, <3>1, TaskKept
  <2>2. TaskAt(p)'
    BY <1>1, <1>8 DEF TaskAt, Receiving
  <2> QED BY <2>1, <2>2 DEF TaskInv
<1>11. OverlapInv' /\ ArrivalInv' /\ InboundConserved'
  <2>1. \A w \in Workers : Receiving(w)' =>
          Receiving(w) /\ script'[w] = script[w] /\ purpose'[w] = purpose[w]
    BY <1>8, <1>9 DEF Receiving, Open
  <2> QED BY <1>5, <2>1, QuietStep
<1> QED BY <1>4, <1>7, <1>10, <1>11 DEF InbInv

(* Another request opens a transaction of the engine. *)
LEMMA StartMoveInv ==
  ASSUME InbInv, NEW p \in Workers, NEW s \in OtherScripts, StartMove(p, s)
  PROVE  InbInv'
<1>1. s \in Seq(Movement) /\ Disciplined(s) /\ s \in ShortScripts
  BY ScriptsDisciplined, ScriptsShort DEF OtherScripts
<1>2. Begin(p, s)
  BY DEF StartMove
<1>3. Inv' /\ SerialInv'
  BY <1>1, <1>2, BeginInv, SerialBegin DEF InbInv
<1>4. /\ pc[p] = "idle" /\ pc' = [pc EXCEPT ![p] = "lock"]
      /\ script' = [script EXCEPT ![p] = s] /\ snapshot' = snapshot
      /\ purpose' = [purpose EXCEPT ![p].kind = "move"] /\ inbounds' = inbounds
  BY <1>2 DEF Begin, StartMove
<1>5. /\ pc \in [Workers -> {"idle", "lock", "write", "commit", "invalidate"}]
      /\ script \in [Workers -> Seq(Movement)] /\ purpose \in [Workers -> Task]
      /\ inbounds \in Seq(Delivery)
  BY DEF InbInv, Inv, TypeOK, TablesOK
<1>6. TablesOK'
  BY <1>4, <1>5 DEF TablesOK, Task
<1>7. purpose'[p].kind = "move" /\ pc'[p] = "lock" /\ script'[p] = s
  BY <1>4, <1>5 DEF Task
<1>8. \A w \in Workers \ {p} : /\ pc'[w] = pc[w] /\ script'[w] = script[w]
                                /\ purpose'[w] = purpose[w]
  BY <1>4, <1>5
<1>9. TaskInv'
  <2>1. ASSUME NEW w \in Workers \ {p} PROVE TaskAt(w)'
    <3>1. TaskAt(w) /\ (Open(w)' => Open(w))
      BY <1>8 DEF InbInv, TaskInv, Open
    <3> QED BY <1>4, <1>8, <3>1, TaskKept
  <2>2. TaskAt(p)'
    BY <1>7 DEF TaskAt, Receiving
  <2> QED BY <2>1, <2>2 DEF TaskInv
<1>10. OverlapInv' /\ ArrivalInv' /\ InboundConserved'
  <2>1. \A w \in Workers : Receiving(w)' =>
          Receiving(w) /\ script'[w] = script[w] /\ purpose'[w] = purpose[w]
    BY <1>7, <1>8 DEF Receiving, Open
  <2> QED BY <1>4, <2>1, QuietStep
<1> QED BY <1>3, <1>6, <1>9, <1>10 DEF InbInv

(* A statement inside a transaction changes nothing that is committed. *)
LEMMA InbEngineStepInv ==
  ASSUME InbInv, NEW p \in Workers, InbEngineStep(p)
  PROVE  InbInv'
<1>1. Inv' /\ SerialInv'
  BY LockRowInv, WriteMovementInv, SerialLockRow, SerialWrite DEF InbInv, InbEngineStep
<1>2. /\ pc[p] \in {"lock", "write"} /\ script' = script /\ snapshot' = snapshot
      /\ inbounds' = inbounds /\ purpose' = purpose
  BY DEF InbEngineStep, LockRow, WriteMovement
<1>3. \A w \in Workers \ {p} : pc'[w] = pc[w]
  BY DEF InbEngineStep, LockRow, WriteMovement, InbInv, Inv, TypeOK
<1>4. \A w \in Workers : Open(w)' => Open(w)
  BY <1>2, <1>3 DEF Open
<1>5. TablesOK'
  BY <1>2 DEF TablesOK, InbInv
<1>6. TaskInv'
  <2>1. ASSUME NEW w \in Workers PROVE TaskAt(w)'
    BY <1>2, <1>4, TaskKept DEF InbInv, TaskInv
  <2> QED BY <2>1 DEF TaskInv
<1>7. OverlapInv' /\ ArrivalInv' /\ InboundConserved'
  <2>1. \A w \in Workers : Receiving(w)' =>
          Receiving(w) /\ script'[w] = script[w] /\ purpose'[w] = purpose[w]
    BY <1>2, <1>4 DEF Receiving
  <2> QED BY <1>2, <2>1, QuietStep
<1> QED BY <1>1, <1>5, <1>6, <1>7 DEF InbInv

(* An answered, rejected, aborted or crashed transaction changes nothing   *)
(* that is committed either.                                               *)
LEMMA EndTaskInv ==
  ASSUME InbInv, NEW p \in Workers, EndTask(p) \/ CrashTask(p)
  PROVE  InbInv'
<1>1. Invalidate(p) \/ Rollback(p)
  BY DEF EndTask, CrashTask, RejectMovement, DeadlockVictim, Crash
<1>2. Inv' /\ SerialInv'
  BY <1>1, InvalidateInv, RollbackInv, SerialInvalidate, SerialRollback DEF InbInv
<1>3. /\ pc' = [pc EXCEPT ![p] = "idle"] /\ script' = [script EXCEPT ![p] = << >>]
      /\ snapshot' = snapshot
  BY <1>1 DEF Invalidate, Rollback
<1>4. purpose' = [purpose EXCEPT ![p] = NoPurpose] /\ inbounds' = inbounds
  BY DEF EndTask, CrashTask
<1>5. /\ pc \in [Workers -> {"idle", "lock", "write", "commit", "invalidate"}]
      /\ script \in [Workers -> Seq(Movement)] /\ purpose \in [Workers -> Task]
      /\ inbounds \in Seq(Delivery) /\ NoPurpose \in Task
  BY DEF InbInv, Inv, TypeOK, TablesOK, NoPurpose, Task
<1>6. TablesOK'
  BY <1>4, <1>5 DEF TablesOK
<1>7. \A w \in Workers \ {p} : /\ pc'[w] = pc[w] /\ script'[w] = script[w]
                                /\ purpose'[w] = purpose[w]
  BY <1>3, <1>4, <1>5
<1>8. ~ Open(p)'
  BY <1>3, <1>5 DEF Open
<1>9. TaskInv'
  <2>1. ASSUME NEW w \in Workers \ {p} PROVE TaskAt(w)'
    <3>1. TaskAt(w) /\ (Open(w)' => Open(w))
      BY <1>7 DEF InbInv, TaskInv, Open
    <3> QED BY <1>4, <1>7, <3>1, TaskKept
  <2>2. TaskAt(p)'
    BY <1>8 DEF TaskAt, Receiving
  <2> QED BY <2>1, <2>2 DEF TaskInv
<1>10. OverlapInv' /\ ArrivalInv' /\ InboundConserved'
  <2>1. \A w \in Workers : Receiving(w)' =>
          Receiving(w) /\ script'[w] = script[w] /\ purpose'[w] = purpose[w]
    BY <1>7, <1>8 DEF Receiving, Open
  <2> QED BY <1>4, <1>3, <2>1, QuietStep
<1> QED BY <1>2, <1>6, <1>9, <1>10 DEF InbInv

(* A receipt starts from the row's receivedQty; if another one of the same *)
(* delivery is open, the delivery is marked.                               *)
LEMMA StartReceiveInv ==
  ASSUME InbInv, NEW p \in Workers, NEW i \in DOMAIN inbounds, NEW q \in Quantities,
         StartReceive(p, i, q)
  PROVE  InbInv'
<1>0. /\ pc \in [Workers -> {"idle", "lock", "write", "commit", "invalidate"}]
      /\ script \in [Workers -> Seq(Movement)] /\ purpose \in [Workers -> Task]
      /\ inbounds \in Seq(Delivery)
  BY DEF InbInv, Inv, TypeOK, TablesOK
<1>1. /\ inbounds[i] \in Delivery /\ inbounds[i].row \in Rows
      /\ inbounds[i].receivedQty \in Int /\ inbounds[i].quantity \in Nat /\ i \in Nat
  <2>1. inbounds[i] \in Delivery /\ i \in Nat
    BY <1>0
  <2> QED BY <2>1 DEF Delivery
<1>2. q \in Nat \ {0}
  BY QuantitiesAssumption
<1>3. PICK n : n = AtMost(q, inbounds[i].quantity - inbounds[i].receivedQty)
  OBVIOUS
<1>4. n \in Nat \ {0}
  <2>1. n \in Int
    BY <1>1, <1>2, <1>3 DEF AtMost
  <2>2. n > 0
    BY <1>3 DEF StartReceive
  <2> QED BY <2>1, <2>2
<1>5. PICK s : s = <<ArriveInbound(inbounds[i].row, n)>>
  OBVIOUS
<1>6. s \in Seq(Movement) /\ Disciplined(s) /\ s \in ShortScripts
  BY <1>1, <1>4, <1>5, InboundScripts
<1>7. Begin(p, s)
  BY <1>3, <1>5 DEF StartReceive
<1>8. Inv' /\ SerialInv'
  BY <1>6, <1>7, BeginInv, SerialBegin DEF InbInv
<1>9. PICK o \in BOOLEAN : o = (inbounds[i].overlapped
                             \/ \E w \in Workers : purpose[w].id = i /\ pc[w] # "invalidate")
  OBVIOUS
<1>10. /\ pc[p] = "idle" /\ pc' = [pc EXCEPT ![p] = "lock"]
       /\ script' = [script EXCEPT ![p] = s] /\ snapshot' = snapshot
       /\ purpose' = [purpose EXCEPT ![p] = [kind |-> "receive", id |-> i,
                     received |-> inbounds[i].receivedQty + n]]
  BY <1>3, <1>7 DEF Begin, StartReceive
<1>11. inbounds' = [inbounds EXCEPT ![i].overlapped = o]
  BY <1>9 DEF StartReceive
<1>12. /\ inbounds' \in Seq(Delivery) /\ DOMAIN inbounds' = DOMAIN inbounds
       /\ inbounds'[i].overlapped = o
       /\ \A k \in DOMAIN inbounds :
            /\ inbounds'[k].row = inbounds[k].row
            /\ inbounds'[k].quantity = inbounds[k].quantity
            /\ inbounds'[k].receivedQty = inbounds[k].receivedQty
            /\ inbounds[k].overlapped => inbounds'[k].overlapped
  <2>1. PICK d : d = [inbounds[i] EXCEPT !.overlapped = o]
    OBVIOUS
  <2>2. /\ d \in Delivery /\ d.row = inbounds[i].row /\ d.quantity = inbounds[i].quantity
        /\ d.receivedQty = inbounds[i].receivedQty /\ d.overlapped = o
    BY <1>1, <2>1 DEF Delivery
  <2>3. inbounds' = [inbounds EXCEPT ![i] = d]
    BY <1>11, <2>1
  <2>4. inbounds[i].overlapped => o
    BY <1>9
  <2> QED BY <1>0, <2>2, <2>3, <2>4
<1>13. TablesOK'
  BY <1>0, <1>1, <1>4, <1>10, <1>12 DEF TablesOK, Task
<1>14. /\ purpose'[p].kind = "receive" /\ purpose'[p].id = i /\ pc'[p] = "lock"
       /\ purpose'[p].received = inbounds[i].receivedQty + n /\ script'[p] = s
  BY <1>0, <1>10
<1>15. \A w \in Workers \ {p} : /\ pc'[w] = pc[w] /\ script'[w] = script[w]
                                 /\ purpose'[w] = purpose[w]
  BY <1>0, <1>10
<1>16. Units(p)' = n /\ Base(p)' = inbounds[i].receivedQty
  <2>1. ArriveInbound(inbounds[i].row, n).deltas["onHand"] = n
    <3>1. n \in Int /\ -n \in Int /\ 0 \in Int
      BY <1>4
    <3> QED BY <3>1, DeltasFields DEF ArriveInbound, Move
  <2>2. Units(p)' = n
    BY <1>5, <1>14, <2>1 DEF Units
  <2> QED BY <1>1, <1>4, <1>14, <2>2 DEF Base
<1>17. TaskInv'
  <2>1. ASSUME NEW w \in Workers \ {p} PROVE TaskAt(w)'
    <3>1. TaskAt(w) /\ (Open(w)' => Open(w))
      BY <1>15 DEF InbInv, TaskInv, Open
    <3> QED BY <1>12, <1>15, <3>1, TaskKept
  <2>2. TaskAt(p)'
    <3>1. inbounds'[i].row = inbounds[i].row
      BY <1>12
    <3> QED BY <1>4, <1>5, <1>12, <1>14, <1>16, <3>1 DEF TaskAt, Receiving
  <2> QED BY <2>1, <2>2 DEF TaskInv
<1>18. \A w \in Workers \ {p} : Receiving(w)' =>
         /\ Receiving(w) /\ purpose[w].id \in DOMAIN inbounds
         /\ Base(w)' = Base(w) /\ purpose'[w] = purpose[w]
  <2>1. \A w \in Workers \ {p} : Receiving(w)' => Receiving(w)
    BY <1>15 DEF Receiving, Open
  <2>2. \A w \in Workers \ {p} : Base(w)' = Base(w)
    BY <1>15 DEF Base, Units
  <2> QED BY <1>15, <2>1, <2>2 DEF InbInv, TaskInv, TaskAt
<1>19. OverlapInv'
  <2> SUFFICES ASSUME NEW v \in Workers, NEW w \in Workers, v # w, Receiving(v)', Receiving(w)',
                      purpose'[v].id = purpose'[w].id
               PROVE  inbounds'[purpose'[v].id].overlapped
    BY DEF OverlapInv
  <2>1. CASE v # p /\ w # p
    <3>1. inbounds[purpose[v].id].overlapped
      BY <1>15, <1>18, <2>1 DEF InbInv, OverlapInv
    <3> QED BY <1>12, <1>18, <2>1, <3>1
  <2>2. ASSUME NEW x \in Workers \ {p}, Receiving(x)', purpose'[x].id = i
        PROVE  inbounds'[i].overlapped
    <3>1. purpose[x].id = i /\ pc[x] # "invalidate"
      BY <1>18, <2>2 DEF Receiving, Open
    <3> QED BY <1>9, <1>12, <3>1
  <2> QED BY <1>14, <2>1, <2>2
<1>20. ArrivalInv'
  <2>1. PICK actual \in [DOMAIN inbounds -> Int] : Accounts(actual)
    BY DEF InbInv, ArrivalInv
  <2>2. \A r \in Rows : InTransitOf(actual, r)' = snapshot'[r]["inTransit"]
    <3>1. ASSUME NEW r \in Rows PROVE InTransitOf(actual, r)' = InTransitOf(actual, r)
      <4>1. At(r)' = At(r)
        BY <1>12 DEF At
      <4>2. \A k \in At(r) : inbounds'[k].quantity = inbounds[k].quantity
        BY <1>12 DEF At
      <4> QED BY <4>1, <4>2 DEF InTransitOf
    <3> QED BY <1>10, <2>1, <3>1 DEF Accounts
  <2>3. \A k \in DOMAIN inbounds' :
          /\ inbounds'[k].receivedQty <= actual[k]
          /\ ~ inbounds'[k].overlapped => inbounds'[k].receivedQty = actual[k]
    BY <1>12, <2>1 DEF Accounts
  <2>4. \A w \in Workers : Receiving(w)' =>
          /\ Base(w)' <= actual[purpose'[w].id]
          /\ ~ inbounds'[purpose'[w].id].overlapped => Base(w)' = actual[purpose'[w].id]
    <3>1. ASSUME NEW w \in Workers \ {p}, Receiving(w)'
          PROVE /\ Base(w)' <= actual[purpose'[w].id]
                /\ ~ inbounds'[purpose'[w].id].overlapped => Base(w)' = actual[purpose'[w].id]
      BY <1>12, <1>18, <2>1, <3>1 DEF Accounts
    <3>2. /\ Base(p)' <= actual[purpose'[p].id]
          /\ ~ inbounds'[purpose'[p].id].overlapped => Base(p)' = actual[purpose'[p].id]
      BY <1>12, <1>14, <1>16, <2>3
    <3> QED BY <3>1, <3>2
  <2>5. Accounts(actual)'
    BY <2>2, <2>3, <2>4 DEF Accounts
  <2> QED BY <1>12, <2>5 DEF ArrivalInv
<1>21. InboundConserved'
  <2>1. ASSUME NEW z \in Skus
        PROVE  /\ SumRows(z, "onHand")' = SumRows(z, "onHand")
               /\ SumRows(z, "inTransit")' = SumRows(z, "inTransit")
               /\ Sum([k \in Of(z) |-> inbounds[k].quantity], Of(z))'
                    = Sum([k \in Of(z) |-> inbounds[k].quantity], Of(z))
    <3>1. Of(z)' = Of(z)
      BY <1>12 DEF Of
    <3>2. \A k \in Of(z) : inbounds'[k].quantity = inbounds[k].quantity
      BY <1>12 DEF Of
    <3> QED BY <1>10, <3>1, <3>2 DEF SumRows
  <2> QED BY <2>1 DEF InbInv, InboundConserved
<1> QED BY <1>8, <1>13, <1>17, <1>19, <1>20, <1>21 DEF InbInv

-----------------------------------------------------------------------------
(* Commits *)

(* A movement adds its delta to a bucket of its own row. *)
LEMMA BucketAfter ==
  ASSUME NEW rows \in [Rows -> Buckets], NEW m \in Movement, NEW r \in Rows,
         NEW b \in Bucket
  PROVE  /\ rows[r][b] \in Int /\ m.deltas[b] \in Int
         /\ m.row = r => After(rows, m)[r][b] = rows[r][b] + m.deltas[b]
         /\ m.row # r => After(rows, m)[r][b] = rows[r][b]
<1>1. /\ m.row \in Rows /\ m.deltas \in Buckets
      /\ After(rows, m)[m.row] = Plus(rows[m.row], m.deltas)
      /\ \A x \in Rows : x # m.row => After(rows, m)[x] = rows[x]
  BY MovementType, AfterRows
<1>2. \A x \in Buckets : x[b] \in Int
  BY DEF Buckets
<1>3. rows[r] \in Buckets /\ rows[m.row] \in Buckets
  BY <1>1
<1>4. Plus(rows[m.row], m.deltas)[b] = rows[m.row][b] + m.deltas[b]
  BY <1>1, <1>3, PlusType
<1> QED BY <1>1, <1>2, <1>3, <1>4

(* What every commit does to the workers. *)
LEMMA CommitWorkers ==
  ASSUME InbInv, NEW p \in Workers, Commit(p)
  PROVE  /\ Inv' /\ SerialInv' /\ Open(p) /\ ~ Open(p)'
         /\ script' = script
         /\ \A w \in Workers \ {p} : pc'[w] = pc[w]
         /\ \A w \in Workers : Open(w)' => Open(w) /\ w # p
<1>1. pc \in [Workers -> {"idle", "lock", "write", "commit", "invalidate"}]
  BY DEF InbInv, Inv, TypeOK
<1>2. pc[p] = "commit" /\ pc' = [pc EXCEPT ![p] = "invalidate"] /\ script' = script
  BY DEF Commit
<1>3. Inv' /\ SerialInv'
  BY CommitInv, SerialCommit DEF InbInv
<1>4. /\ pc'[p] = "invalidate"
      /\ \A w \in Workers \ {p} : pc'[w] = pc[w]
  BY <1>1, <1>2
<1>5. Open(p) /\ ~ Open(p)'
  BY <1>2, <1>4 DEF Open
<1>6. ASSUME NEW w \in Workers, Open(w)' PROVE Open(w) /\ w # p
  BY <1>4, <1>6 DEF Open
<1> QED BY <1>2, <1>3, <1>4, <1>5, <1>6

(* The movement of a transfer or of another request leaves the sums alone. *)
LEMMA CommitMoveInv ==
  ASSUME InbInv, NEW p \in Workers, CommitMove(p)
  PROVE  InbInv'
<1>0. Commit(p) /\ purpose[p].kind = "move" /\ inbounds' = inbounds /\ purpose' = purpose
  BY DEF CommitMove
<1>1. /\ Inv' /\ SerialInv' /\ Open(p) /\ script' = script
      /\ \A w \in Workers : Open(w)' => Open(w) /\ w # p
  BY <1>0, CommitWorkers
<1>2. PICK s \in OtherScripts : s = script[p]
  BY <1>0, <1>1 DEF InbInv, TaskInv, TaskAt
<1>3. /\ s \in ShortScripts
      /\ Len(s) = 1 => snapshot' = After(snapshot, s[1])
      /\ Len(s) = 2 => snapshot' = After(After(snapshot, s[1]), s[2])
  BY <1>0, <1>2, CommitApplies DEF InbInv
<1>4. /\ Len(s) \in {1, 2} /\ s[1] \in Movement /\ (Len(s) = 2 => s[2] \in Movement)
      /\ snapshot \in [Rows -> Buckets] /\ After(snapshot, s[1]) \in [Rows -> Buckets]
  BY <1>3, ShortType, AfterRows DEF InbInv, Inv, TypeOK
<1>5. /\ \A i \in 1 .. Len(s) : s[i].deltas["inTransit"] = 0
      /\ \/ \A i \in 1 .. Len(s) : s[i].deltas["onHand"] = 0
         \/ /\ Len(s) = 2 /\ SkuOf(s[1].row) = SkuOf(s[2].row)
            /\ s[1].deltas["onHand"] \in Int
            /\ s[2].deltas["onHand"] = - s[1].deltas["onHand"]
  BY OtherRequestsNeutral
<1>6. /\ s[1].deltas["inTransit"] = 0
      /\ Len(s) = 2 => s[2].deltas["inTransit"] = 0
      /\ "inTransit" \in Bucket /\ "onHand" \in Bucket
  BY <1>4, <1>5 DEF Bucket
<1>7. ASSUME NEW r \in Rows PROVE snapshot'[r]["inTransit"] = snapshot[r]["inTransit"]
  <2>1. After(snapshot, s[1])[r]["inTransit"] = snapshot[r]["inTransit"]
    BY <1>4, <1>6, BucketAfter
  <2>2. Len(s) = 2 => After(After(snapshot, s[1]), s[2])[r]["inTransit"]
                        = After(snapshot, s[1])[r]["inTransit"]
    BY <1>4, <1>6, BucketAfter
  <2> QED BY <1>3, <1>4, <2>1, <2>2
<1>8. ASSUME NEW z \in Skus
      PROVE  /\ SumRows(z, "onHand")' = SumRows(z, "onHand")
             /\ SumRows(z, "inTransit")' = SumRows(z, "inTransit")
  <2>1. \A b \in Bucket : /\ SumRows(z, b) = RowSum(snapshot, z, b)
                           /\ SumRows(z, b)' = RowSum(snapshot', z, b)
    BY DEF SumRows, RowSum
  <2>2. ASSUME NEW b \in Bucket
        PROVE /\ RowSum(snapshot, z, b) \in Int
              /\ SkuOf(s[1].row) = z => RowSum(After(snapshot, s[1]), z, b)
                                          = RowSum(snapshot, z, b) + s[1].deltas[b]
              /\ SkuOf(s[1].row) # z => RowSum(After(snapshot, s[1]), z, b)
                                          = RowSum(snapshot, z, b)
    BY <1>4, RowSumAfter
  <2>3. ASSUME NEW b \in Bucket, Len(s) = 2
        PROVE /\ SkuOf(s[2].row) = z =>
                   RowSum(After(After(snapshot, s[1]), s[2]), z, b)
                     = RowSum(After(snapshot, s[1]), z, b) + s[2].deltas[b]
              /\ SkuOf(s[2].row) # z =>
                   RowSum(After(After(snapshot, s[1]), s[2]), z, b)
                     = RowSum(After(snapshot, s[1]), z, b)
    BY <1>4, <2>3, RowSumAfter
  <2>4. SumRows(z, "inTransit")' = SumRows(z, "inTransit")
    BY <1>3, <1>4, <1>6, <2>1, <2>2, <2>3
  <2>5. CASE \A i \in 1 .. Len(s) : s[i].deltas["onHand"] = 0
    <3>1. s[1].deltas["onHand"] = 0 /\ (Len(s) = 2 => s[2].deltas["onHand"] = 0)
      BY <1>4, <2>5
    <3> QED BY <1>3, <1>4, <1>6, <2>1, <2>2, <2>3, <2>4, <3>1
  <2>6. CASE /\ Len(s) = 2 /\ SkuOf(s[1].row) = SkuOf(s[2].row)
             /\ s[1].deltas["onHand"] \in Int
             /\ s[2].deltas["onHand"] = - s[1].deltas["onHand"]
    <3>1. RowSum(After(After(snapshot, s[1]), s[2]), z, "onHand")
            = RowSum(snapshot, z, "onHand")
      BY <1>6, <2>2, <2>3, <2>6
    <3> QED BY <1>3, <1>6, <2>1, <2>4, <2>6, <3>1
  <2> QED BY <1>5, <2>5, <2>6
<1>9. TablesOK'
  BY <1>0 DEF InbInv, TablesOK
<1>10. TaskInv'
  <2>1. ASSUME NEW w \in Workers PROVE TaskAt(w)'
    BY <1>0, <1>1, TaskKept DEF InbInv, TaskInv
  <2> QED BY <2>1 DEF TaskInv
<1>11. \A w \in Workers : Receiving(w)' => Receiving(w) /\ Base(w)' = Base(w)
  BY <1>0, <1>1 DEF Receiving, Base, Units
<1>12. OverlapInv'
  BY <1>0, <1>11 DEF InbInv, OverlapInv
<1>13. ArrivalInv'
  <2>1. PICK actual \in [DOMAIN inbounds -> Int] : Accounts(actual)
    BY DEF InbInv, ArrivalInv
  <2>2. \A r \in Rows : InTransitOf(actual, r)' = InTransitOf(actual, r)
    BY <1>0 DEF InTransitOf, At
  <2>3. Accounts(actual)'
    BY <1>0, <1>7, <1>11, <2>1, <2>2 DEF Accounts
  <2> QED BY <1>0, <2>3 DEF ArrivalInv
<1>14. InboundConserved'
  <2>1. \A z \in Skus : Of(z)' = Of(z)
    BY <1>0 DEF Of
  <2> QED BY <1>0, <1>8, <2>1 DEF InbInv, InboundConserved
<1> QED BY <1>1, <1>9, <1>10, <1>12, <1>13, <1>14 DEF InbInv

(* An Inbound row. *)
LEMMA DeliveryType ==
  ASSUME inbounds \in Seq(Delivery), NEW i \in DOMAIN inbounds
  PROVE  /\ inbounds[i] \in Delivery /\ inbounds[i].row \in Rows
         /\ inbounds[i].quantity \in Nat /\ inbounds[i].receivedQty \in Int
<1>1. inbounds[i] \in Delivery
  OBVIOUS
<1> QED BY <1>1 DEF Delivery

(* The deliveries of a row, or of a SKU, are finitely many. *)
LEMMA DeliveriesFinite ==
  ASSUME inbounds \in Seq(Delivery), NEW r, NEW z
  PROVE  IsFiniteSet(At(r)) /\ IsFiniteSet(Of(z))
<1>1. Len(inbounds) \in Nat /\ DOMAIN inbounds = 1 .. Len(inbounds)
  OBVIOUS
<1>2. 1 \in Int /\ Len(inbounds) \in Int
  BY <1>1
<1>3. IsFiniteSet(1 .. Len(inbounds))
  BY <1>2, FS_Interval
<1>4. At(r) \subseteq 1 .. Len(inbounds) /\ Of(z) \subseteq 1 .. Len(inbounds)
  BY <1>1 DEF At, Of
<1> QED BY <1>3, <1>4, FS_Subset

(* A created delivery is in transit. *)
LEMMA CommitCreateInv ==
  ASSUME InbInv, NEW p \in Workers, CommitCreate(p)
  PROVE  InbInv'
<1>0. /\ Commit(p) /\ purpose[p].kind = "create"
      /\ purpose' = [purpose EXCEPT ![p].kind = "move"]
      /\ purpose \in [Workers -> Task] /\ inbounds \in Seq(Delivery)
      /\ snapshot \in [Rows -> Buckets]
  BY DEF CommitCreate, InbInv, TablesOK, Inv, TypeOK
<1>1. /\ Inv' /\ SerialInv' /\ Open(p) /\ ~ Open(p)' /\ script' = script
      /\ \A w \in Workers : Open(w)' => Open(w) /\ w # p
  BY <1>0, CommitWorkers
<1>2. PICK r \in Rows, q \in DeliverySizes : script[p] = <<CreateInbound(r, q)>>
  BY <1>0, <1>1 DEF InbInv, TaskInv, TaskAt
<1>3. q \in Nat \ {0}
  BY InboundAssumption
<1>4. PICK m : m = CreateInbound(r, q)
  OBVIOUS
<1>5. /\ m \in Movement /\ m.row = r
      /\ m.deltas["inTransit"] = q /\ m.deltas["onHand"] = 0
  <2>1. q \in Int /\ 0 \in Int /\ q > 0
    BY <1>3
  <2>2. m.row = r /\ m.deltas = Deltas(0, 0, 0, q)
    BY <1>4 DEF CreateInbound, Move
  <2>3. Deltas(0, 0, 0, q)["inTransit"] = q /\ Deltas(0, 0, 0, q)["onHand"] = 0
    BY <2>1 DEF Deltas, ZeroBuckets, Bucket
  <2>4. m \in Movement
    BY <1>4, <2>1, PrimitivesType
  <2> QED BY <2>2, <2>3, <2>4
<1>6. Len(script[p]) = 1 /\ script[p][1] = m /\ snapshot' = After(snapshot, m)
  <2>1. Len(script[p]) = 1 /\ script[p][1] = m
    BY <1>2, <1>4
  <2>2. Len(script[p]) = 1 => snapshot' = After(snapshot, script[p][1])
    BY <1>0, CommitApplies DEF InbInv
  <2> QED BY <2>1, <2>2
<1>7. PICK k : k = Len(inbounds) + 1
  OBVIOUS
<1>8. PICK d : d = [row |-> r, quantity |-> q, receivedQty |-> 0,
                    status |-> "EXPECTED", overlapped |-> FALSE]
  OBVIOUS
<1>9. inbounds' = Append(inbounds, d)
  BY <1>5, <1>6, <1>8 DEF CommitCreate
<1>10. d \in Delivery
  BY <1>3, <1>8 DEF Delivery
<1>11. /\ inbounds' \in Seq(Delivery) /\ DOMAIN inbounds' = DOMAIN inbounds \cup {k}
       /\ k \notin DOMAIN inbounds /\ inbounds'[k] = d
       /\ \A i \in DOMAIN inbounds : inbounds'[i] = inbounds[i]
  BY <1>0, <1>7, <1>9, <1>10
<1>12. /\ TablesOK' /\ purpose'[p].kind = "move"
       /\ \A w \in Workers \ {p} : purpose'[w] = purpose[w]
  BY <1>0, <1>11 DEF TablesOK, Task
<1>13. TaskInv'
  <2>1. ASSUME NEW w \in Workers \ {p} PROVE TaskAt(w)'
    BY <1>1, <1>11, <1>12, TaskKept DEF InbInv, TaskInv
  <2>2. TaskAt(p)'
    BY <1>1 DEF TaskAt, Receiving
  <2> QED BY <2>1, <2>2 DEF TaskInv
<1>14. \A w \in Workers : Receiving(w)' =>
         /\ Receiving(w) /\ Base(w)' = Base(w) /\ purpose'[w] = purpose[w]
         /\ purpose[w].id \in DOMAIN inbounds
  <2>1. ASSUME NEW w \in Workers, Receiving(w)'
        PROVE  Receiving(w) /\ Base(w)' = Base(w) /\ purpose'[w] = purpose[w]
    <3>1. Open(w) /\ w # p
      BY <1>1, <2>1 DEF Receiving
    <3> QED BY <1>1, <1>12, <2>1, <3>1 DEF Receiving, Base, Units
  <2>2. ASSUME NEW w \in Workers, Receiving(w) PROVE purpose[w].id \in DOMAIN inbounds
    BY <2>2 DEF InbInv, TaskInv, TaskAt
  <2> QED BY <2>1, <2>2
<1>15. OverlapInv'
  BY <1>11, <1>14 DEF InbInv, OverlapInv
<1>16. ArrivalInv'
  <2>1. PICK actual \in [DOMAIN inbounds -> Int] : Accounts(actual)
    BY DEF InbInv, ArrivalInv
  <2>2. PICK arrived : arrived = [i \in DOMAIN inbounds \cup {k} |->
                                    IF i = k THEN 0 ELSE actual[i]]
    OBVIOUS
  <2>3. /\ arrived \in [DOMAIN inbounds' -> Int] /\ arrived[k] = 0
        /\ \A i \in DOMAIN inbounds : arrived[i] = actual[i]
    BY <1>11, <2>1, <2>2
  <2>4. ASSUME NEW x \in Rows
        PROVE  InTransitOf(arrived, x)' = snapshot'[x]["inTransit"]
    <3> DEFINE S == At(x)
               F == [i \in S |-> inbounds[i].quantity - actual[i]]
               G == [i \in At(x)' |-> inbounds'[i].quantity - arrived[i]]
    <3>1. /\ IsFiniteSet(S) /\ S \subseteq DOMAIN inbounds
          /\ Sum(F, S) = snapshot[x]["inTransit"]
      BY <1>0, <2>1, DeliveriesFinite DEF Accounts, InTransitOf, At
    <3>2. \A i \in S : inbounds[i].quantity \in Nat /\ actual[i] \in Int
      BY <1>0, <2>1, <3>1, DeliveryType
    <3>3. \A i \in S : F[i] \in Int
      BY <3>2
    <3>4. InTransitOf(arrived, x)' = Sum(G, At(x)')
      BY <2>3 DEF InTransitOf
    <3>5. CASE x = r
      <4>1. At(x)' = S \cup {k} /\ k \notin S
        BY <1>8, <1>11, <3>5 DEF At
      <4>2. \A i \in S : G[i] = F[i]
        BY <1>11, <2>3, <3>1, <4>1
      <4>3. G[k] = q
        BY <1>3, <1>8, <1>11, <2>3, <4>1
      <4> HIDE DEF F, G, S
      <4>4. Sum(G, S \cup {k}) = Sum(F, S) + G[k]
        <5>1. G[k] \in Int
          BY <1>3, <4>3
        <5>2. IsFiniteSet(S) /\ k \notin S
          BY <3>1, <4>1
        <5> QED BY <3>3, <4>2, <5>1, <5>2, SumGrows
      <4>5. snapshot'[x]["inTransit"] = snapshot[x]["inTransit"] + q
        BY <1>0, <1>5, <1>6, <3>5, BucketAfter DEF Bucket
      <4> QED BY <3>1, <3>4, <4>1, <4>3, <4>4, <4>5
    <3>6. CASE x # r
      <4>1. At(x)' = S
        BY <1>8, <1>11, <3>6 DEF At
      <4>2. \A i \in S : G[i] = F[i]
        BY <1>11, <2>3, <3>1, <4>1
      <4> HIDE DEF F, G, S
      <4>3. Sum(G, S) = Sum(F, S)
        BY <3>1, <3>3, <4>2, SumSame
      <4>4. snapshot'[x]["inTransit"] = snapshot[x]["inTransit"]
        BY <1>0, <1>5, <1>6, <3>6, BucketAfter DEF Bucket
      <4> QED BY <3>1, <3>4, <4>1, <4>3, <4>4
    <3> QED BY <3>5, <3>6
  <2>5. \A i \in DOMAIN inbounds' :
          /\ inbounds'[i].receivedQty <= arrived[i]
          /\ ~ inbounds'[i].overlapped => inbounds'[i].receivedQty = arrived[i]
    BY <1>8, <1>11, <2>1, <2>3 DEF Accounts
  <2>6. \A w \in Workers : Receiving(w)' =>
          /\ Base(w)' <= arrived[purpose'[w].id]
          /\ ~ inbounds'[purpose'[w].id].overlapped => Base(w)' = arrived[purpose'[w].id]
    BY <1>11, <1>14, <2>1, <2>3 DEF Accounts
  <2>7. Accounts(arrived)'
    BY <2>4, <2>5, <2>6 DEF Accounts
  <2> QED BY <2>3, <2>7 DEF ArrivalInv
<1>17. InboundConserved'
  <2> SUFFICES ASSUME NEW z \in Skus
               PROVE  SumRows(z, "onHand")' + SumRows(z, "inTransit")'
                        = Sum([i \in Of(z) |-> inbounds[i].quantity], Of(z))'
    BY DEF InboundConserved
  <2> DEFINE S == Of(z)
             F == [i \in S |-> inbounds[i].quantity]
             G == [i \in Of(z)' |-> inbounds'[i].quantity]
  <2>1. IsFiniteSet(S) /\ S \subseteq DOMAIN inbounds
    BY <1>0, DeliveriesFinite DEF Of
  <2>2. \A i \in S : F[i] \in Int
    <3>1. \A i \in S : inbounds[i].quantity \in Nat
      BY <1>0, <2>1, DeliveryType
    <3> QED BY <3>1
  <2>3. SumRows(z, "onHand") + SumRows(z, "inTransit") = Sum(F, S)
    BY DEF InbInv, InboundConserved
  <2>4. \A b \in Bucket : /\ SumRows(z, b) = RowSum(snapshot, z, b)
                           /\ SumRows(z, b)' = RowSum(After(snapshot, m), z, b)
    BY <1>6 DEF SumRows, RowSum
  <2>5. ASSUME NEW b \in Bucket
        PROVE /\ RowSum(snapshot, z, b) \in Int
              /\ SkuOf(r) = z => RowSum(After(snapshot, m), z, b)
                                   = RowSum(snapshot, z, b) + m.deltas[b]
              /\ SkuOf(r) # z => RowSum(After(snapshot, m), z, b)
                                   = RowSum(snapshot, z, b)
    BY <1>0, <1>5, RowSumAfter
  <2>6. "onHand" \in Bucket /\ "inTransit" \in Bucket
    BY DEF Bucket
  <2>7. CASE SkuOf(r) = z
    <3>1. Of(z)' = S \cup {k} /\ k \notin S
      BY <1>8, <1>11, <2>7 DEF Of
    <3>2. \A i \in S : G[i] = F[i]
      BY <1>11, <2>1, <3>1
    <3>3. G[k] = q
      BY <1>8, <1>11, <3>1
    <3>4. Sum([i \in Of(z) |-> inbounds[i].quantity], Of(z))' = Sum(G, S \cup {k})
      BY <3>1
    <3> HIDE DEF F, G, S
    <3>5. Sum(G, S \cup {k}) = Sum(F, S) + G[k]
      <4>1. G[k] \in Int
        BY <1>3, <3>3
      <4> QED BY <2>1, <2>2, <3>1, <3>2, <4>1, SumGrows
    <3>6. SumRows(z, "onHand")' = SumRows(z, "onHand") /\ SumRows(z, "onHand") \in Int
      BY <1>5, <2>4, <2>5, <2>6, <2>7
    <3>7. /\ SumRows(z, "inTransit")' = SumRows(z, "inTransit") + q
          /\ SumRows(z, "inTransit") \in Int
      BY <1>5, <2>4, <2>5, <2>6, <2>7
    <3> QED BY <1>3, <2>3, <3>3, <3>4, <3>5, <3>6, <3>7
  <2>8. CASE SkuOf(r) # z
    <3>1. Of(z)' = S
      BY <1>8, <1>11, <2>8 DEF Of
    <3>2. \A i \in S : G[i] = F[i]
      BY <1>11, <2>1, <3>1
    <3>4. Sum([i \in Of(z) |-> inbounds[i].quantity], Of(z))' = Sum(G, S)
      BY <3>1
    <3> HIDE DEF F, G, S
    <3>5. Sum(G, S) = Sum(F, S)
      BY <2>1, <2>2, <3>2, SumSame
    <3>6. /\ SumRows(z, "onHand")' = SumRows(z, "onHand")
          /\ SumRows(z, "inTransit")' = SumRows(z, "inTransit")
      BY <2>4, <2>5, <2>6, <2>8
    <3> QED BY <2>3, <3>4, <3>5, <3>6
  <2> QED BY <2>7, <2>8
<1> QED BY <1>1, <1>12, <1>13, <1>15, <1>16, <1>17 DEF InbInv

(* A receipt moves its units from in transit to on hand; its row learns of *)
(* every unit that arrived, unless receipts of it overlapped.              *)
LEMMA CommitReceiveInv ==
  ASSUME InbInv, NEW p \in Workers, CommitReceive(p)
  PROVE  InbInv'
<1>0. /\ Commit(p) /\ purpose[p].kind = "receive" /\ purpose' = purpose
      /\ purpose \in [Workers -> Task] /\ inbounds \in Seq(Delivery)
      /\ snapshot \in [Rows -> Buckets]
  BY DEF CommitReceive, InbInv, TablesOK, Inv, TypeOK
<1>1. /\ Inv' /\ SerialInv' /\ Open(p) /\ ~ Open(p)' /\ script' = script
      /\ \A w \in Workers : Open(w)' => Open(w) /\ w # p
  BY <1>0, CommitWorkers
<1>2. PICK k : k = purpose[p].id
  OBVIOUS
<1>3. PICK n : n = Units(p)
  OBVIOUS
<1>4. PICK r : r = inbounds[k].row
  OBVIOUS
<1>5. PICK m : m = ArriveInbound(r, n)
  OBVIOUS
<1>6. Receiving(p) /\ k \in DOMAIN inbounds /\ n \in Nat \ {0} /\ script[p] = <<m>>
  BY <1>0, <1>1, <1>2, <1>3, <1>4, <1>5 DEF InbInv, TaskInv, TaskAt, Receiving
<1>7. /\ r \in Rows /\ inbounds[k] \in Delivery /\ purpose[p].received \in Int
      /\ Base(p) \in Int /\ purpose[p].received = Base(p) + n
  <2>1. purpose[p].received \in Int
    BY <1>0 DEF Task
  <2>2. Base(p) = purpose[p].received - n
    BY <1>3 DEF Base
  <2> QED BY <1>0, <1>4, <1>6, <2>1, <2>2, DeliveryType
<1>8. /\ m \in Movement /\ m.row = r
      /\ m.deltas["inTransit"] = -n /\ m.deltas["onHand"] = n
  <2>1. n \in Int /\ -n \in Int /\ 0 \in Int /\ n > 0
    BY <1>6
  <2>2. m.row = r /\ m.deltas = Deltas(n, 0, 0, -n)
    BY <1>5 DEF ArriveInbound, Move
  <2>3. Deltas(n, 0, 0, -n)["inTransit"] = -n /\ Deltas(n, 0, 0, -n)["onHand"] = n
    BY <2>1 DEF Deltas, ZeroBuckets, Bucket
  <2>4. m \in Movement
    BY <1>5, <1>7, <2>1, PrimitivesType
  <2> QED BY <2>2, <2>3, <2>4
<1>9. snapshot' = After(snapshot, m)
  <2>1. Len(script[p]) = 1 /\ script[p][1] = m
    BY <1>6
  <2>2. Len(script[p]) = 1 => snapshot' = After(snapshot, script[p][1])
    BY <1>0, CommitApplies DEF InbInv
  <2> QED BY <2>1, <2>2
<1>10. PICK d : d = [inbounds[k] EXCEPT
                       !.receivedQty = purpose[p].received,
                       !.status = IF purpose[p].received >= inbounds[k].quantity
                                  THEN "RECEIVED" ELSE "EXPECTED"]
  OBVIOUS
<1>11. /\ d \in Delivery /\ d.row = r /\ d.quantity = inbounds[k].quantity
       /\ d.receivedQty = purpose[p].received /\ d.overlapped = inbounds[k].overlapped
  BY <1>4, <1>7, <1>10 DEF Delivery
<1>12. inbounds' = [inbounds EXCEPT ![k] = d]
  BY <1>2, <1>6, <1>10, <1>0 DEF CommitReceive
<1>13. /\ inbounds' \in Seq(Delivery) /\ DOMAIN inbounds' = DOMAIN inbounds
       /\ inbounds'[k] = d
       /\ \A i \in DOMAIN inbounds \ {k} : inbounds'[i] = inbounds[i]
  BY <1>0, <1>6, <1>11, <1>12
<1>14. \A i \in DOMAIN inbounds :
         /\ inbounds'[i].row = inbounds[i].row
         /\ inbounds'[i].quantity = inbounds[i].quantity
         /\ inbounds'[i].overlapped = inbounds[i].overlapped
  BY <1>4, <1>11, <1>13
<1>15. TablesOK'
  BY <1>0, <1>13 DEF TablesOK
<1>16. TaskInv'
  <2>1. ASSUME NEW w \in Workers PROVE TaskAt(w)'
    BY <1>0, <1>1, <1>13, <1>14, TaskKept DEF InbInv, TaskInv
  <2> QED BY <2>1 DEF TaskInv
<1>17. \A w \in Workers : Receiving(w)' =>
         /\ Receiving(w) /\ Base(w)' = Base(w) /\ purpose'[w] = purpose[w] /\ w # p
         /\ purpose[w].id \in DOMAIN inbounds
  <2>1. ASSUME NEW w \in Workers, Receiving(w)'
        PROVE  Receiving(w) /\ Base(w)' = Base(w) /\ purpose'[w] = purpose[w] /\ w # p
    BY <1>0, <1>1, <2>1 DEF Receiving, Base, Units
  <2>2. ASSUME NEW w \in Workers, Receiving(w) PROVE purpose[w].id \in DOMAIN inbounds
    BY <2>2 DEF InbInv, TaskInv, TaskAt
  <2> QED BY <2>1, <2>2
<1>18. OverlapInv'
  BY <1>14, <1>17 DEF InbInv, OverlapInv
<1>19. ArrivalInv'
  <2>1. PICK actual \in [DOMAIN inbounds -> Int] : Accounts(actual)
    BY DEF InbInv, ArrivalInv
  <2>2. PICK arrived : arrived = [actual EXCEPT ![k] = actual[k] + n]
    OBVIOUS
  <2>3. /\ arrived \in [DOMAIN inbounds' -> Int] /\ arrived[k] = actual[k] + n
        /\ \A i \in DOMAIN inbounds \ {k} : arrived[i] = actual[i]
        /\ actual[k] \in Int
    BY <1>6, <1>13, <2>1, <2>2
  <2>4. ASSUME NEW x \in Rows
        PROVE  InTransitOf(arrived, x)' = snapshot'[x]["inTransit"]
    <3> DEFINE S == At(x)
               F == [i \in S |-> inbounds[i].quantity - actual[i]]
               G == [i \in S |-> inbounds'[i].quantity - arrived[i]]
    <3>1. /\ IsFiniteSet(S) /\ S \subseteq DOMAIN inbounds
          /\ Sum(F, S) = snapshot[x]["inTransit"]
      BY <1>0, <2>1, DeliveriesFinite DEF Accounts, InTransitOf, At
    <3>2. \A i \in S : inbounds[i].quantity \in Nat /\ actual[i] \in Int
      BY <1>0, <2>1, <3>1, DeliveryType
    <3>3. \A i \in S : F[i] \in Int
      BY <3>2
    <3>4. At(x)' = S
      BY <1>13, <1>14 DEF At
    <3>5. InTransitOf(arrived, x)' = Sum(G, S)
      BY <2>3, <3>4 DEF InTransitOf
    <3>6. \A i \in S \ {k} : G[i] = F[i]
      BY <1>14, <2>3, <3>1
    <3>7. CASE x = r
      <4>1. k \in S
        BY <1>4, <1>6, <3>7 DEF At
      <4>2. G[k] = F[k] - n /\ F[k] \in Int /\ G[k] \in Int
        BY <1>6, <1>14, <2>3, <3>2, <4>1
      <4> HIDE DEF F, G, S
      <4>3. \A i \in S : G[i] \in Int
        BY <3>3, <3>6, <4>2
      <4>4. IsFiniteSet(S) /\ \A i \in S \ {k} : F[i] = G[i]
        BY <3>1, <3>6
      <4>5. Sum(G, S) = Sum(F, S) + G[k] - F[k]
        BY <3>3, <4>1, <4>3, <4>4, SumChange
      <4>6. /\ snapshot'[x]["inTransit"] = snapshot[x]["inTransit"] + (-n)
            /\ snapshot[x]["inTransit"] \in Int
        BY <1>0, <1>8, <1>9, <3>7, BucketAfter DEF Bucket
      <4> QED BY <1>6, <3>1, <3>5, <4>2, <4>5, <4>6
    <3>8. CASE x # r
      <4>1. k \notin S
        BY <1>4, <3>8 DEF At
      <4>2. \A i \in S : F[i] = G[i]
        BY <3>6, <4>1
      <4> HIDE DEF F, G, S
      <4>3. Sum(F, S) = Sum(G, S)
        BY <3>1, <3>3, <4>2, SumSame
      <4>4. snapshot'[x]["inTransit"] = snapshot[x]["inTransit"]
        BY <1>0, <1>8, <1>9, <3>8, BucketAfter DEF Bucket
      <4> QED BY <3>1, <3>5, <4>3, <4>4
    <3> QED BY <3>7, <3>8
  <2>5. /\ Base(p) <= actual[k]
        /\ ~ inbounds[k].overlapped => Base(p) = actual[k]
    BY <1>2, <1>6, <2>1 DEF Accounts
  <2>6. ASSUME NEW i \in DOMAIN inbounds'
        PROVE /\ inbounds'[i].receivedQty <= arrived[i]
              /\ ~ inbounds'[i].overlapped => inbounds'[i].receivedQty = arrived[i]
    <3>1. CASE i = k
      BY <1>6, <1>7, <1>11, <1>13, <2>3, <2>5, <3>1
    <3>2. CASE i # k
      BY <1>13, <2>1, <2>3, <3>2 DEF Accounts
    <3> QED BY <3>1, <3>2
  <2>7. ASSUME NEW w \in Workers, Receiving(w)'
        PROVE /\ Base(w)' <= arrived[purpose'[w].id]
              /\ ~ inbounds'[purpose'[w].id].overlapped => Base(w)' = arrived[purpose'[w].id]
    <3>1. /\ Receiving(w) /\ Base(w)' = Base(w) /\ purpose'[w] = purpose[w] /\ w # p
          /\ purpose[w].id \in DOMAIN inbounds
      BY <1>17, <2>7
    <3>2. /\ Base(w) <= actual[purpose[w].id]
          /\ ~ inbounds[purpose[w].id].overlapped => Base(w) = actual[purpose[w].id]
      BY <2>1, <3>1 DEF Accounts
    <3>3. CASE purpose[w].id = k
      <4>1. inbounds[k].overlapped
        BY <1>2, <1>6, <3>1, <3>3 DEF InbInv, OverlapInv
      <4>2. Base(w) \in Int
        <5>1. Units(w) \in Nat /\ purpose[w].received \in Int
          BY <1>0, <3>1 DEF InbInv, TaskInv, TaskAt, Task
        <5> QED BY <5>1 DEF Base
      <4> QED BY <1>6, <1>14, <2>3, <3>1, <3>2, <3>3, <4>1, <4>2
    <3>4. CASE purpose[w].id # k
      BY <1>14, <2>3, <3>1, <3>2, <3>4
    <3> QED BY <3>3, <3>4
  <2>8. Accounts(arrived)'
    BY <2>4, <2>6, <2>7 DEF Accounts
  <2> QED BY <2>3, <2>8 DEF ArrivalInv
<1>20. InboundConserved'
  <2> SUFFICES ASSUME NEW z \in Skus
               PROVE  SumRows(z, "onHand")' + SumRows(z, "inTransit")'
                        = Sum([i \in Of(z) |-> inbounds[i].quantity], Of(z))'
    BY DEF InboundConserved
  <2>1. Of(z)' = Of(z) /\ \A i \in Of(z) : inbounds'[i].quantity = inbounds[i].quantity
    BY <1>13, <1>14 DEF Of
  <2>2. Sum([i \in Of(z) |-> inbounds[i].quantity], Of(z))'
          = Sum([i \in Of(z) |-> inbounds[i].quantity], Of(z))
    BY <2>1
  <2>3. SumRows(z, "onHand") + SumRows(z, "inTransit")
          = Sum([i \in Of(z) |-> inbounds[i].quantity], Of(z))
    BY DEF InbInv, InboundConserved
  <2>4. \A b \in Bucket : /\ SumRows(z, b) = RowSum(snapshot, z, b)
                           /\ SumRows(z, b)' = RowSum(After(snapshot, m), z, b)
    BY <1>9 DEF SumRows, RowSum
  <2>5. ASSUME NEW b \in Bucket
        PROVE /\ RowSum(snapshot, z, b) \in Int
              /\ SkuOf(r) = z => RowSum(After(snapshot, m), z, b)
                                   = RowSum(snapshot, z, b) + m.deltas[b]
              /\ SkuOf(r) # z => RowSum(After(snapshot, m), z, b)
                                   = RowSum(snapshot, z, b)
    BY <1>0, <1>8, RowSumAfter
  <2>6. "onHand" \in Bucket /\ "inTransit" \in Bucket
    BY DEF Bucket
  <2>7. PICK a \in Int : a = SumRows(z, "onHand")
    BY <2>4, <2>5, <2>6
  <2>8. PICK t \in Int : t = SumRows(z, "inTransit")
    BY <2>4, <2>5, <2>6
  <2>9. SumRows(z, "onHand")' + SumRows(z, "inTransit")' = a + t
    <3>1. CASE SkuOf(r) = z
      <4>1. SumRows(z, "onHand")' = a + n /\ SumRows(z, "inTransit")' = t + (-n)
        BY <1>8, <2>4, <2>5, <2>6, <2>7, <2>8, <3>1
      <4> QED BY <1>6, <4>1
    <3>2. CASE SkuOf(r) # z
      BY <2>4, <2>5, <2>6, <2>7, <2>8, <3>2
    <3> QED BY <3>1, <3>2
  <2> QED BY <2>2, <2>3, <2>7, <2>8, <2>9
<1> QED BY <1>1, <1>15, <1>16, <1>18, <1>19, <1>20 DEF InbInv

-----------------------------------------------------------------------------
(* Before the first delivery every sum is empty. *)
LEMMA InbInitInv == InbInit => InbInv
<1> SUFFICES ASSUME InbInit PROVE InbInv
  OBVIOUS
<1>1. /\ Init /\ inbounds = << >> /\ purpose = [p \in Workers |-> NoPurpose]
      /\ snapshot = ClearRows /\ pc = [p \in Workers |-> "idle"]
  BY DEF InbInit, Init, InitWith
<1>2. Inv
  BY <1>1, InitInv
<1>3. \A p \in Workers : ~ Open(p) /\ ~ Receiving(p)
  BY <1>1 DEF Open, Receiving
<1>4. SerialInv
  BY <1>3 DEF SerialInv, SerialAt, Open
<1>5. TablesOK
  BY <1>1 DEF TablesOK, NoPurpose, Task
<1>6. TaskInv /\ OverlapInv
  BY <1>3 DEF TaskInv, TaskAt, OverlapInv
<1>7. /\ DOMAIN inbounds = {} /\ (\A r : At(r) = {}) /\ (\A z : Of(z) = {})
  BY <1>1 DEF At, Of
<1>8. \A r \in Rows, b \in Bucket : snapshot[r][b] = 0
  BY <1>1 DEF ClearRows, ZeroBuckets
<1>9. ArrivalInv
  <2>1. PICK actual : actual = [i \in DOMAIN inbounds |-> 0]
    OBVIOUS
  <2>2. actual \in [DOMAIN inbounds -> Int]
    BY <2>1
  <2>3. \A r \in Rows : InTransitOf(actual, r) = 0
    BY <1>7, SumEmpty DEF InTransitOf
  <2>4. Accounts(actual)
    BY <1>3, <1>7, <1>8, <2>3 DEF Accounts, Bucket
  <2> QED BY <2>2, <2>4 DEF ArrivalInv
<1>10. InboundConserved
  <2>1. ASSUME NEW z \in Skus, NEW b \in Bucket PROVE SumRows(z, b) = 0
    <3>1. \A l \in Locations : snapshot[<<z, l>>][b] = 0
      BY <1>8 DEF Rows
    <3>2. IsFiniteSet(Locations)
      BY InboundAssumption
    <3>3. PICK F : F = [l \in Locations |-> snapshot[<<z, l>>][b]]
      OBVIOUS
    <3>4. \A l \in Locations : F[l] = 0
      BY <3>1, <3>3
    <3>5. Sum(F, Locations) = 0
      BY <3>2, <3>4, SumZero
    <3> QED BY <3>3, <3>5 DEF SumRows
  <2>2. ASSUME NEW z \in Skus
        PROVE  Sum([i \in Of(z) |-> inbounds[i].quantity], Of(z)) = 0
    BY <1>7, SumEmpty
  <2> QED BY <2>1, <2>2 DEF InboundConserved, Bucket
<1> QED BY <1>2, <1>4, <1>5, <1>6, <1>9, <1>10 DEF InbInv

(* Every step of the service and of its neighbours keeps the invariant. *)
LEMMA InbNextInv == InbInv /\ [InbNext]_inbVars => InbInv'
<1> SUFFICES ASSUME InbInv, [InbNext]_inbVars PROVE InbInv'
  OBVIOUS
<1>1. CASE UNCHANGED inbVars
  <2>1. UNCHANGED vars /\ inbounds' = inbounds /\ purpose' = purpose
    BY <1>1 DEF inbVars
  <2>2. Inv' /\ SerialInv'
    BY <2>1, NextInv, SerialNext DEF InbInv
  <2>3. /\ snapshot' = snapshot /\ script' = script /\ pc' = pc
    BY <2>1 DEF vars
  <2>4. TablesOK' /\ TaskInv'
    BY <2>1, <2>3 DEF InbInv, TablesOK, TaskInv, TaskAt, Receiving, Open, Units
  <2>5. OverlapInv' /\ ArrivalInv' /\ InboundConserved'
    BY <2>1, <2>3, QuietStep DEF Receiving, Open
  <2> QED BY <2>2, <2>4, <2>5 DEF InbInv
<1>2. ASSUME NEW p \in Workers, NEW r \in Rows, NEW q \in DeliverySizes,
             StartCreate(p, r, q)
      PROVE  InbInv'
  BY <1>2, StartCreateInv
<1>3. ASSUME NEW p \in Workers, NEW i \in DOMAIN inbounds, NEW q \in Quantities,
             StartReceive(p, i, q)
      PROVE  InbInv'
  BY <1>3, StartReceiveInv
<1>4. ASSUME NEW p \in Workers, NEW s \in OtherScripts, StartMove(p, s)
      PROVE  InbInv'
  BY <1>4, StartMoveInv
<1>5. ASSUME NEW p \in Workers,
             CommitMove(p) \/ CommitCreate(p) \/ CommitReceive(p)
      PROVE  InbInv'
  BY <1>5, CommitMoveInv, CommitCreateInv, CommitReceiveInv
<1>6. ASSUME NEW p \in Workers, InbEngineStep(p) \/ EndTask(p) \/ CrashTask(p)
      PROVE  InbInv'
  BY <1>6, InbEngineStepInv, EndTaskInv
<1> QED BY <1>1, <1>2, <1>3, <1>4, <1>5, <1>6 DEF InbNext

(* The rows of the Inbound table promise what is in transit, or more where *)
(* receipts overlapped.                                                    *)
LEMMA ArrivalPromises == InbInv => RemainingIsInTransit
<1> SUFFICES ASSUME InbInv, NEW r \in Rows
             PROVE  /\ Remaining(r) >= snapshot[r]["inTransit"]
                    /\ Remaining(r) = snapshot[r]["inTransit"]
                         \/ \E i \in DOMAIN inbounds :
                              inbounds[i].row = r /\ inbounds[i].overlapped
  BY DEF RemainingIsInTransit
<1> DEFINE S == At(r)
<1>1. PICK actual \in [DOMAIN inbounds -> Int] : Accounts(actual)
  BY DEF InbInv, ArrivalInv
<1>2. PICK F : F = [i \in S |-> inbounds[i].quantity - actual[i]]
  OBVIOUS
<1>3. PICK G : G = [i \in S |-> inbounds[i].quantity - inbounds[i].receivedQty]
  OBVIOUS
<1>4. /\ Sum(F, S) = snapshot[r]["inTransit"] /\ Sum(G, S) = Remaining(r)
  BY <1>1, <1>2, <1>3 DEF Accounts, InTransitOf, Remaining
<1>5. /\ IsFiniteSet(S) /\ S \subseteq DOMAIN inbounds
      /\ \A i \in S : inbounds[i].row = r
  BY DeliveriesFinite DEF At, InbInv, TablesOK
<1>6. \A i \in S :
        /\ inbounds[i].quantity \in Nat /\ inbounds[i].receivedQty \in Int
        /\ actual[i] \in Int /\ inbounds[i].receivedQty <= actual[i]
        /\ ~ inbounds[i].overlapped => inbounds[i].receivedQty = actual[i]
  BY <1>1, <1>5, DeliveryType DEF InbInv, TablesOK, Accounts
<1>7. \A i \in S : F[i] \in Int /\ G[i] \in Int /\ F[i] <= G[i]
  <2>1. ASSUME NEW i \in S PROVE F[i] \in Int /\ G[i] \in Int /\ F[i] <= G[i]
    <3>1. /\ F[i] = inbounds[i].quantity - actual[i]
          /\ G[i] = inbounds[i].quantity - inbounds[i].receivedQty
      BY <1>2, <1>3
    <3>2. /\ inbounds[i].quantity \in Int /\ inbounds[i].receivedQty \in Int
          /\ actual[i] \in Int /\ inbounds[i].receivedQty <= actual[i]
      BY <1>6
    <3> QED BY <3>1, <3>2
  <2> QED BY <2>1
<1> HIDE DEF S
<1>8. Sum(F, S) <= Sum(G, S) /\ Sum(F, S) \in Int /\ Sum(G, S) \in Int
  BY <1>5, <1>7, SumMonotone, SumType
<1>9. CASE \E i \in S : inbounds[i].overlapped
  BY <1>4, <1>5, <1>8, <1>9
<1>10. CASE \A i \in S : ~ inbounds[i].overlapped
  <2>0. \A i \in S : inbounds[i].receivedQty = actual[i]
    BY <1>6, <1>10
  <2>1. \A i \in S : F[i] = G[i]
    BY <1>2, <1>3, <2>0
  <2>2. Sum(F, S) = Sum(G, S)
    BY <1>5, <1>7, <2>1, SumSame
  <2> QED BY <1>4, <1>8, <2>2
<1> QED BY <1>9, <1>10

(* The invariant of the service, however its requests interleave. *)
THEOREM InboundInvariance == InbSpec => []InbInv
<1>1. InbInit => InbInv
  BY InbInitInv
<1>2. InbInv /\ [InbNext]_inbVars => InbInv'
  BY InbNextInv
<1> QED BY <1>1, <1>2, PTL DEF InbSpec

(* The engine's guarantees beside deliveries: snapshot and ledger agree and *)
(* no bucket is negative, ...                                               *)
THEOREM InboundKeepsLedger == InbSpec => [](SnapshotIsLedgerSum /\ NoNegativeBucket)
<1>1. InbInv => SnapshotIsLedgerSum /\ NoNegativeBucket
  BY DEF InbInv, Inv
<1> QED BY <1>1, InboundInvariance, PTL

(* ... and nothing is oversold while stock arrives and moves.               *)
THEOREM InboundNeverOversells == InbSpec => NoOversellStep
<1>1. InbInv /\ [InbNext]_inbVars => [KeepsPromises]_vars
  <2> SUFFICES ASSUME InbInv, [InbNext]_inbVars PROVE KeepsPromises
    OBVIOUS
  <2>1. Inv /\ TypeOK
    BY DEF InbInv, Inv
  <2>2. (\E p \in Workers : Commit(p)) \/ snapshot' = snapshot
    BY DEF InbNext, inbVars, vars, StartCreate, StartReceive, StartMove, CommitMove,
           CommitCreate, CommitReceive, InbEngineStep, EndTask, CrashTask, Begin, LockRow,
           WriteMovement, RejectMovement, Invalidate, DeadlockVictim, Crash, Rollback
  <2> QED BY <2>1, <2>2, CommitPromises, NothingPromised
<1> QED BY <1>1, InboundInvariance, PTL DEF InbSpec, NoOversellStep, KeepsPromises

(* Over the network every unit of a created delivery is in transit or on   *)
(* hand, exactly once.                                                     *)
THEOREM DeliveriesConserved == InbSpec => []InboundConserved
<1>1. InbInv => InboundConserved
  BY DEF InbInv
<1> QED BY <1>1, InboundInvariance, PTL

(* The Inbound rows never promise less than is in transit, and more only   *)
(* after receipts of one delivery overlapped.                              *)
THEOREM RowsPromiseInTransit == InbSpec => []RemainingIsInTransit
<1>1. InbInv => RemainingIsInTransit
  BY ArrivalPromises
<1> QED BY <1>1, InboundInvariance, PTL

-----------------------------------------------------------------------------
-----------------------------------------------------------------------------
(* The integrity pass *)

AtInv ==
  \A p \in Workers :
    /\ pc[p] \in {"lock", "write"} => step[p] \in 1 .. Len(script[p])
    /\ pc[p] = "write" => lock[Current(p).row] = p
HeldInv ==
  \A p \in Workers, r \in Rows :
    /\ lock[r] = p => work[p][r] = Plus(snapshot[r], pending[p][r])
    /\ lock[r] # p => pending[p][r] = ZeroBuckets
EngineInv == TypeOK /\ AtInv /\ HeldInv

(* Reporting, the pass has listed the drifted rows it has gone through;     *)
(* repairing, it has made those rows equal to the ledger.                   *)
Drifted == { r \in Rows : snapshot[r] # ledger[r] }
RowsDone ==
  IF repair
  THEN \A r \in Rows : snapshot[r] = IF r \in todo THEN seen[r] ELSE ledger[r]
  ELSE seen = snapshot /\ entries = Drifted \ todo
PassInv ==
  /\ derived \in [Rows -> Buckets] /\ seen \in [Rows -> Buckets]
  /\ todo \subseteq Rows /\ repair \in BOOLEAN
  /\ rpc = "snapshots" => entries = {}
  /\ rpc # "idle" /\ quiet => derived = ledger
  /\ rpc = "rows" /\ quiet => RowsDone
  /\ QuietPassExact

ReconInv == EngineInv /\ PassInv

-----------------------------------------------------------------------------
(* The engine beside the pass *)

(* The movement a worker is at is a movement on a row. *)
LEMMA CurrentRow ==
  ASSUME EngineInv, NEW p \in Workers, pc[p] \in {"lock", "write"}
  PROVE  /\ Current(p) \in Movement
         /\ Current(p).row \in Rows
         /\ Current(p).deltas \in Buckets
<1>1. script[p] \in Seq(Movement) /\ step[p] \in 1 .. Len(script[p])
  BY DEF EngineInv, TypeOK, AtInv
<1>2. Current(p) \in Movement
  BY <1>1 DEF Current
<1> QED BY <1>2 DEF Movement

(* The end of a transaction frees its worker's rows and no others. *)
LEMMA EndKeeps ==
  ASSUME EngineInv, NEW p \in Workers, EndTransaction(p), UNCHANGED safetyStock,
         snapshot' \in [Rows -> Buckets], ledger' \in [Rows -> Buckets],
         \A r \in Rows : lock[r] # p => snapshot'[r] = snapshot[r],
         NEW at \in {"idle", "invalidate"}, pc' = [pc EXCEPT ![p] = at],
         NEW s \in Seq(Movement), script' = [script EXCEPT ![p] = s],
         NEW n \in Nat \ {0}, step' = [step EXCEPT ![p] = n], UNCHANGED outbox
  PROVE  EngineInv'
<1> USE ZeroType, NoWorkerAssumption DEF EngineInv, EndTransaction, ClearRows
<1>1. TypeOK'
  BY DEF TypeOK
<1>2. ASSUME NEW q \in Workers, q # p
      PROVE  /\ pc'[q] = pc[q] /\ script'[q] = script[q] /\ step'[q] = step[q]
             /\ pending'[q] = pending[q] /\ work'[q] = work[q]
             /\ \A r \in Rows : lock'[r] = q <=> lock[r] = q
  BY <1>2 DEF TypeOK
<1>3. pc'[p] = at /\ \A r \in Rows : lock'[r] # p /\ pending'[p][r] = ZeroBuckets
  BY DEF TypeOK
<1>4. AtInv'
  <2>1. ASSUME NEW q \in Workers, q # p, pc[q] = "write"
        PROVE  lock'[Current(q)'.row] = q
    <3>1. Current(q).row \in Rows /\ lock[Current(q).row] = q
      BY <2>1, CurrentRow DEF AtInv
    <3> QED BY <1>2, <2>1, <3>1 DEF Current
  <2> QED BY <1>2, <1>3, <2>1 DEF AtInv
<1>5. HeldInv'
  <2>1. ASSUME NEW q \in Workers, NEW r \in Rows, q # p
        PROVE  /\ lock'[r] = q => work'[q][r] = Plus(snapshot'[r], pending'[q][r])
               /\ lock'[r] # q => pending'[q][r] = ZeroBuckets
    BY <1>2, <2>1 DEF HeldInv
  <2> QED BY <1>3, <2>1 DEF HeldInv
<1> QED BY <1>1, <1>4, <1>5

(* A rollback, whatever its cause. *)
LEMMA RollbackKeeps ==
  ASSUME EngineInv, NEW p \in Workers, Rollback(p)
  PROVE  EngineInv' /\ snapshot' = snapshot
<1>1. << >> \in Seq(Movement) /\ 1 \in Nat \ {0}
  OBVIOUS
<1>2. snapshot' \in [Rows -> Buckets] /\ ledger' \in [Rows -> Buckets]
  BY DEF EngineInv, TypeOK, Rollback
<1> QED BY <1>1, <1>2, EndKeeps DEF Rollback

(* Adding nothing. *)
LEMMA PlusNothing ==
  ASSUME NEW x \in Buckets, NEW d \in Buckets, Plus(x, d) = x
  PROVE  d = ZeroBuckets
<1>1. \A b \in Bucket : x[b] \in Int /\ d[b] \in Int /\ x[b] = x[b] + d[b]
  <2>1. \A b \in Bucket : Plus(x, d)[b] = x[b] + d[b]
    BY PlusType
  <2> QED BY <2>1 DEF Buckets
<1>2. \A b \in Bucket : d[b] = 0
  BY <1>1
<1> QED BY <1>2 DEF Buckets, ZeroBuckets

(* A commit, drifted rows or not: rows whose ledger stays, stay. *)
LEMMA CommitKeeps ==
  ASSUME EngineInv, NEW p \in Workers, Commit(p)
  PROVE  /\ EngineInv'
         /\ ledger' = ledger => snapshot' = snapshot
<1>0. TypeOK /\ HeldInv
  BY DEF EngineInv
<1>1. /\ snapshot' = [r \in Rows |-> IF lock[r] = p THEN work[p][r] ELSE snapshot[r]]
      /\ ledger' = [r \in Rows |-> Plus(ledger[r], pending[p][r])]
  BY DEF Commit
<1>2. snapshot' \in [Rows -> Buckets] /\ ledger' \in [Rows -> Buckets]
      /\ \A r \in Rows : lock[r] # p => snapshot'[r] = snapshot[r]
  BY <1>0, <1>1, PlusType DEF TypeOK
<1>3. EngineInv'
  <2>1. script[p] \in Seq(Movement) /\ step[p] \in Nat \ {0}
    BY <1>0 DEF TypeOK
  <2>2. script' = [script EXCEPT ![p] = script[p]] /\ step' = [step EXCEPT ![p] = step[p]]
    BY <1>0 DEF Commit, TypeOK
  <2>3. PICK s \in Seq(Movement), n \in Nat \ {0} :
          script' = [script EXCEPT ![p] = s] /\ step' = [step EXCEPT ![p] = n]
    BY <2>1, <2>2
  <2> QED BY <1>2, <2>3, EndKeeps DEF Commit
<1>4. ASSUME ledger' = ledger PROVE snapshot' = snapshot
  <2>1. ASSUME NEW r \in Rows, lock[r] = p PROVE work[p][r] = snapshot[r]
    <3>1. /\ ledger[r] \in Buckets /\ pending[p][r] \in Buckets /\ snapshot[r] \in Buckets
          /\ Plus(ledger[r], pending[p][r]) = ledger[r]
      BY <1>0, <1>1, <1>4 DEF TypeOK
    <3>2. pending[p][r] = ZeroBuckets
      BY <3>1, PlusNothing
    <3> QED BY <1>0, <2>1, <3>1, <3>2, PlusZero DEF HeldInv
  <2> QED BY <1>0, <1>1, <2>1 DEF TypeOK
<1> QED BY <1>3, <1>4

(* A movement is written to the transaction's row and to its deltas alike. *)
LEMMA WriteKeeps ==
  ASSUME EngineInv, NEW p \in Workers, WriteMovement(p)
  PROVE  EngineInv'
<1> DEFINE m == Current(p)
           r == m.row
           next == Plus(work[p][r], m.deltas)
           sum == Plus(pending[p][r], m.deltas)
<1>0. /\ TypeOK /\ AtInv /\ HeldInv
      /\ r \in Rows /\ m.deltas \in Buckets /\ lock[r] = p
      /\ work[p][r] \in Buckets /\ pending[p][r] \in Buckets /\ snapshot[r] \in Buckets
  BY CurrentRow DEF EngineInv, WriteMovement, AtInv, TypeOK
<1>1. next \in Buckets /\ sum \in Buckets /\ next = Plus(snapshot[r], sum)
  <2>1. next \in Buckets /\ sum \in Buckets
    BY <1>0, PlusType
  <2>2. work[p][r] = Plus(snapshot[r], pending[p][r])
    BY <1>0 DEF HeldInv
  <2>3. Plus(Plus(snapshot[r], pending[p][r]), m.deltas) = Plus(snapshot[r], sum)
    BY <1>0, PlusAssoc
  <2> QED BY <2>1, <2>2, <2>3
<1>2. /\ pc[p] = "write"
      /\ work' = [work EXCEPT ![p][r] = next]
      /\ pending' = [pending EXCEPT ![p][r] = sum]
      /\ step' = [step EXCEPT ![p] = step[p] + 1]
      /\ pc' = [pc EXCEPT ![p] = IF step[p] = Len(script[p]) THEN "commit" ELSE "lock"]
      /\ UNCHANGED <<snapshot, safetyStock, ledger, lock, script, outbox>>
  BY DEF WriteMovement
<1> HIDE DEF m, r, next, sum
<1>3. TypeOK'
  BY <1>0, <1>1, <1>2 DEF TypeOK
<1>4. AtInv'
  <2>1. pc'[p] \in {"lock", "commit"}
        /\ (pc'[p] = "lock" => step'[p] \in 1 .. Len(script[p]))
    BY <1>0, <1>2 DEF TypeOK, AtInv
  <2>2. ASSUME NEW q \in Workers, q # p
        PROVE  pc'[q] = pc[q] /\ step'[q] = step[q] /\ Current(q)' = Current(q)
    BY <1>0, <1>2, <2>2 DEF TypeOK, Current
  <2> QED BY <1>0, <1>2, <2>1, <2>2 DEF AtInv
<1>5. HeldInv'
  <2>1. work'[p][r] = next /\ pending'[p][r] = sum
    BY <1>0, <1>2 DEF TypeOK
  <2>2. \A q \in Workers, t \in Rows : q # p \/ t # r =>
          work'[q][t] = work[q][t] /\ pending'[q][t] = pending[q][t]
    BY <1>0, <1>2 DEF TypeOK
  <2> QED BY <1>0, <1>1, <1>2, <2>1, <2>2 DEF HeldInv
<1> QED BY <1>3, <1>4, <1>5 DEF EngineInv

(* The locking read. *)
LEMMA LockKeeps ==
  ASSUME EngineInv, NEW p \in Workers, LockRow(p)
  PROVE  EngineInv'
<1> DEFINE r == Current(p).row
<1> USE DEF EngineInv, LockRow
<1>0. r \in Rows /\ lock[r] \in {NoWorker, p}
  BY CurrentRow
<1>1. TypeOK'
  BY <1>0 DEF TypeOK
<1>2. AtInv'
  BY <1>0, NoWorkerAssumption DEF AtInv, TypeOK, Current
<1>3. HeldInv'
  <2>1. CASE lock[r] = p
    BY <2>1, <1>0 DEF HeldInv, TypeOK
  <2>2. CASE lock[r] = NoWorker /\ NoWorker # p
    <3>1. Plus(snapshot[r], ZeroBuckets) = snapshot[r] /\ pending[p][r] = ZeroBuckets
      BY <1>0, <2>2, PlusZero DEF TypeOK, HeldInv
    <3>2. work'[p][r] = snapshot[r] /\ lock'[r] = p
      BY <1>0, <2>2 DEF TypeOK
    <3>3. \A q \in Workers, t \in Rows : q # p \/ t # r =>
            work'[q][t] = work[q][t] /\ (lock'[t] = q => lock[t] = q)
      BY <1>0, <2>2 DEF TypeOK
    <3>4. \A q \in Workers, t \in Rows : q # p \/ t # r =>
            (lock'[t] # q => pending[q][t] = ZeroBuckets)
      BY <1>0, <2>2, NoWorkerAssumption DEF HeldInv, TypeOK
    <3> QED BY <3>1, <3>2, <3>3, <3>4 DEF HeldInv
  <2> QED BY <1>0, <2>1, <2>2, NoWorkerAssumption
<1> QED BY <1>1, <1>2, <1>3

(* Every step of the engine: whoever leaves the ledger, leaves the rows.    *)
LEMMA EngineKeeps ==
  ASSUME EngineInv, Next
  PROVE  /\ EngineInv'
         /\ ledger' = ledger => snapshot' = snapshot
<1>1. ASSUME NEW p \in Workers, NEW s \in Scripts, Begin(p, s)
      PROVE  EngineInv' /\ snapshot' = snapshot
  <2>1. s \in Seq(Movement) /\ Len(s) \in Nat /\ 1 \in 1 .. Len(s)
    BY ScriptsDisciplined DEF Disciplined
  <2>2. TypeOK'
    BY <1>1, <2>1 DEF EngineInv, TypeOK, Begin
  <2>3. AtInv'
    BY <1>1, <2>1 DEF EngineInv, AtInv, TypeOK, Begin, Current
  <2> QED BY <1>1, <2>2, <2>3 DEF EngineInv, HeldInv, Begin
<1>2. ASSUME NEW p \in Workers, LockRow(p) \/ WriteMovement(p)
      PROVE  EngineInv' /\ snapshot' = snapshot
  BY <1>2, LockKeeps, WriteKeeps DEF LockRow, WriteMovement
<1>3. ASSUME NEW p \in Workers, RejectMovement(p) \/ DeadlockVictim(p) \/ Crash(p)
      PROVE  EngineInv' /\ snapshot' = snapshot
  BY <1>3, RollbackKeeps DEF RejectMovement, DeadlockVictim, Crash
<1>4. ASSUME NEW p \in Workers, Invalidate(p)
      PROVE  EngineInv' /\ snapshot' = snapshot
  <2>1. \A i \in 1 .. Len(script[p]) : SkuOf(script[p][i].row) \in Skus
    <3>1. \A i \in 1 .. Len(script[p]) : script[p][i] \in Movement
      BY DEF EngineInv, TypeOK
    <3>2. \A x \in Movement : x.row \in Rows
      BY DEF Movement
    <3>3. \A x \in Rows : SkuOf(x) \in Skus
      BY DEF Rows, SkuOf
    <3> QED BY <3>1, <3>2, <3>3
  <2>2. TypeOK'
    BY <1>4, <2>1 DEF EngineInv, TypeOK, Invalidate
  <2>3. AtInv'
    BY <1>4 DEF EngineInv, AtInv, TypeOK, Invalidate, Current
  <2> QED BY <1>4, <2>2, <2>3 DEF EngineInv, HeldInv, Invalidate
<1>5. ASSUME NEW r \in Rows, NEW n \in SafetyLevels, SetSafetyStock(r, n)
      PROVE  EngineInv' /\ snapshot' = snapshot
  <2>1. TypeOK'
    BY <1>5, SafetyLevelsAssumption DEF EngineInv, TypeOK, SetSafetyStock, Rows, SkuOf
  <2> QED BY <1>5, <2>1 DEF EngineInv, AtInv, HeldInv, SetSafetyStock, Current
<1> QED BY <1>1, <1>2, <1>3, <1>4, <1>5, CommitKeeps DEF Next

-----------------------------------------------------------------------------
(* The pass *)

(* A row is compared bucket by bucket. *)
LEMMA DiffersIs ==
  ASSUME PassInv, NEW r \in Rows
  PROVE  Differs(r) <=> seen[r] # derived[r]
<1>1. seen[r] \in Buckets /\ derived[r] \in Buckets
  BY DEF PassInv
<1>2. \A x, y \in Buckets : (\A b \in Bucket : x[b] = y[b]) => x = y
  BY DEF Buckets
<1> QED BY <1>1, <1>2 DEF Differs

(* A step that leaves the rows, the ledger and the pass. *)
LEMMA PassKept ==
  ASSUME PassInv, UNCHANGED <<rpc, repair, derived, seen, todo, entries>>,
         quiet' => quiet /\ ledger' = ledger /\ snapshot' = snapshot
  PROVE  PassInv'
<1>1. quiet' => RowsDone' = RowsDone
  BY DEF RowsDone, Drifted
<1>2. QuietPassExact'
  BY DEF PassInv, QuietPassExact
<1> QED BY <1>1, <1>2 DEF PassInv

(* The comparison of one row. *)
LEMMA RowKeeps ==
  ASSUME ReconInv, NEW r \in Rows, SkipRow(r) \/ ReportRow(r) \/ RepairRow(r)
  PROVE  PassInv'
<1>1. /\ PassInv /\ TypeOK /\ rpc = "rows" /\ r \in todo
      /\ UNCHANGED <<rpc, repair, derived, seen, quiet, ledger>>
      /\ todo' = todo \ {r}
  BY DEF ReconInv, EngineInv, SkipRow, ReportRow, RepairRow, vars
<1>2. Differs(r) <=> seen[r] # derived[r]
  BY <1>1, DiffersIs
<1>3. ASSUME quiet PROVE RowsDone'
  <2>1. RowsDone /\ derived = ledger
    BY <1>1, <1>3 DEF PassInv
  <2>2. CASE repair
    <3>1. \A t \in Rows : snapshot[t] = IF t \in todo THEN seen[t] ELSE ledger[t]
      BY <2>1, <2>2 DEF RowsDone
    <3>2. snapshot'[r] = ledger[r] /\ \A t \in Rows : t # r => snapshot'[t] = snapshot[t]
      <4>1. CASE SkipRow(r)
        BY <1>1, <1>2, <2>1, <3>1, <4>1 DEF SkipRow, vars
      <4>2. CASE RepairRow(r)
        BY <1>1, <2>1, <4>2 DEF RepairRow, TypeOK
      <4> QED BY <2>2, <4>1, <4>2 DEF ReportRow
    <3> QED BY <1>1, <2>2, <3>1, <3>2 DEF RowsDone
  <2>3. CASE ~ repair
    <3>1. seen = snapshot /\ entries = Drifted \ todo
      BY <2>1, <2>3 DEF RowsDone
    <3>2. snapshot' = snapshot /\ Drifted' = Drifted
      BY <1>1, <2>3 DEF SkipRow, ReportRow, RepairRow, vars, Drifted
    <3>3. r \in Drifted <=> Differs(r)
      BY <1>2, <2>1, <3>1 DEF Drifted
    <3>4. entries' = IF Differs(r) THEN entries \cup {r} ELSE entries
      BY <2>3 DEF SkipRow, ReportRow, RepairRow
    <3>5. entries' = Drifted \ todo'
      BY <1>1, <3>1, <3>3, <3>4
    <3> QED BY <1>1, <2>3, <3>1, <3>2, <3>5 DEF RowsDone
  <2> QED BY <2>2, <2>3
<1> QED BY <1>1, <1>3 DEF PassInv, QuietPassExact

(* A pass reads, compares and ends; movements run beside it. *)
LEMMA ReconNext == ReconInv /\ [RNext]_rVars => ReconInv'
<1> SUFFICES ASSUME ReconInv, [RNext]_rVars PROVE ReconInv'
  OBVIOUS
<1>0. EngineInv /\ PassInv /\ TypeOK
  BY DEF ReconInv, EngineInv
<1>1. ASSUME UNCHANGED vars PROVE EngineInv'
  BY <1>0, <1>1 DEF vars, EngineInv, TypeOK, AtInv, HeldInv, Current
<1>2. CASE MoveBeside
  <2>1. EngineInv' /\ (ledger' = ledger => snapshot' = snapshot)
    BY <1>0, <1>2, EngineKeeps DEF MoveBeside
  <2>2. UNCHANGED <<rpc, repair, derived, seen, todo, entries>>
    BY <1>2 DEF MoveBeside
  <2>3. quiet' => quiet /\ ledger' = ledger
    BY <1>2 DEF MoveBeside
  <2> QED BY <1>0, <2>1, <2>2, <2>3, PassKept DEF ReconInv
<1>3. ASSUME NEW m \in RepairModes, ReadLedger(m) PROVE ReconInv'
  <2>1. m \in BOOLEAN /\ UNCHANGED vars
    BY <1>3, PassesAssumption DEF ReadLedger
  <2>2. UNCHANGED ledger
    BY <2>1 DEF vars
  <2>3. PassInv'
    BY <1>0, <1>3, <2>1, <2>2 DEF ReadLedger, PassInv, TypeOK, QuietPassExact
  <2> QED BY <1>1, <2>1, <2>3 DEF ReconInv
<1>4. CASE ReadSnapshots
  <2>1. UNCHANGED vars /\ UNCHANGED <<snapshot, ledger>>
    BY <1>4 DEF ReadSnapshots, vars
  <2>2. RowsDone'
    <3>1. seen' = snapshot' /\ todo' = Rows /\ entries' = {}
      BY <1>0, <1>4, <2>1 DEF ReadSnapshots, PassInv
    <3>2. entries' = Drifted' \ todo'
      BY <3>1 DEF Drifted
    <3> QED BY <3>1, <3>2 DEF RowsDone
  <2>3. PassInv'
    BY <1>0, <1>4, <2>1, <2>2 DEF ReadSnapshots, PassInv, TypeOK, QuietPassExact
  <2> QED BY <1>1, <2>1, <2>3 DEF ReconInv
<1>5. ASSUME NEW r \in Rows, SkipRow(r) \/ ReportRow(r) \/ RepairRow(r) PROVE ReconInv'
  <2>1. PassInv'
    BY <1>5, RowKeeps
  <2>2. CASE SkipRow(r) \/ ReportRow(r)
    BY <1>1, <2>1, <2>2 DEF SkipRow, ReportRow, ReconInv
  <2>3. CASE RepairRow(r)
    <3>1. /\ lock[r] = NoWorker /\ derived[r] \in Buckets
          /\ snapshot' = [snapshot EXCEPT ![r] = derived[r]]
          /\ UNCHANGED <<safetyStock, ledger, lock, pc, script, step, work, pending, outbox>>
      BY <1>0, <2>3 DEF RepairRow, PassInv
    <3>2. TypeOK'
      BY <1>0, <3>1 DEF TypeOK
    <3>3. \A t \in Rows : lock[t] # NoWorker => snapshot'[t] = snapshot[t]
      BY <1>0, <3>1 DEF TypeOK
    <3>4. HeldInv'
      BY <1>0, <3>1, <3>3, NoWorkerAssumption DEF EngineInv, HeldInv
    <3>5. AtInv'
      BY <1>0, <3>1 DEF EngineInv, AtInv, Current
    <3> QED BY <2>1, <3>2, <3>4, <3>5 DEF ReconInv, EngineInv
  <2> QED BY <1>5, <2>2, <2>3
<1>6. CASE FinishPass
  <2>1. UNCHANGED vars /\ UNCHANGED <<snapshot, ledger>>
    BY <1>6 DEF FinishPass, vars
  <2>2. QuietPassExact'
    <3>1. SUFFICES ASSUME quiet
                   PROVE  IF repair THEN snapshot = ledger
                          ELSE entries = { r \in Rows : snapshot[r] # ledger[r] }
      BY <1>6, <2>1 DEF FinishPass, QuietPassExact
    <3>2. RowsDone /\ todo = {}
      BY <1>0, <1>6, <3>1 DEF FinishPass, PassInv
    <3> QED BY <1>0, <3>2 DEF RowsDone, Drifted, TypeOK
  <2>3. PassInv'
    BY <1>0, <1>6, <2>1, <2>2 DEF FinishPass, PassInv
  <2> QED BY <1>1, <2>1, <2>3 DEF ReconInv
<1>7. CASE EndPass
  <2>1. ClearRows \in [Rows -> Buckets]
    BY ZeroType DEF ClearRows
  <2>2. PassInv'
    BY <1>7, <2>1 DEF EndPass, PassInv, QuietPassExact
  <2> QED BY <1>1, <1>7, <2>2 DEF EndPass, ReconInv
<1>8. CASE UNCHANGED rVars
  <2>1. UNCHANGED vars /\ UNCHANGED <<snapshot, ledger, quiet>>
        /\ UNCHANGED <<rpc, repair, derived, seen, todo, entries>>
    BY <1>8 DEF rVars, reconVars, vars
  <2> QED BY <1>0, <1>1, <2>1, PassKept DEF ReconInv
<1> QED BY <1>2, <1>3, <1>4, <1>5, <1>6, <1>7, <1>8 DEF RNext

(* Before the first pass. *)
LEMMA ReconInit == RInit => ReconInv
<1> SUFFICES ASSUME RInit PROVE ReconInv
  OBVIOUS
<1>1. Inv
  BY InitInv DEF RInit
<1>2. EngineInv
  BY <1>1 DEF Inv, ControlInv, WorkInv, EngineInv, AtInv, HeldInv
<1>3. PassInv
  BY ZeroType DEF RInit, ClearRows, PassInv, QuietPassExact
<1> QED BY <1>2, <1>3 DEF ReconInv

(* admin.controller.ts:15, reconciliation.service.ts:60-137: a pass during  *)
(* which no movement committed reports exactly the rows that have drifted   *)
(* or, repairing, leaves none, whatever earlier passes did to the rows.     *)
THEOREM QuietPassTrue == RSpec => []QuietPassExact
<1>1. ReconInv => QuietPassExact
  BY DEF ReconInv, PassInv
<1> QED BY <1>1, ReconInit, ReconNext, PTL DEF RSpec

(* The types of the engine survive a repair that raced a movement, although *)
(* its other invariants do not.                                             *)
THEOREM EngineTypedBeside == RSpec => []TypeOK
<1>1. ReconInv => TypeOK
  BY DEF ReconInv, EngineInv
<1> QED BY <1>1, ReconInit, ReconNext, PTL DEF RSpec

-----------------------------------------------------------------------------
-----------------------------------------------------------------------------
(* Holds *)

Hold == [order : Orders, row : Rows, qty : Nat \ {0},
         status : {"ACTIVE", "RELEASED", "EXPIRED"}, due : BOOLEAN]

(* The units of some holds of a table t; the ACTIVE ones on a row, and all  *)
(* those of an order on a SKU.                                              *)
Held(t, X) == Sum([h \in X |-> t[h].qty], X)
OnRow(t, r) == { h \in 1 .. Len(t) : t[h].status = "ACTIVE" /\ t[h].row = r }
ForOrder(t, o, s) == { h \in 1 .. Len(t) : t[h].order = o /\ SkuOf(t[h].row) = s }

(* The reserved units that some movements of a script add: those on row r   *)
(* among its first n, and those of SKU s.                                   *)
Adding(m, I) == Sum([i \in I |-> m[i].deltas["reserved"]], I)
OnRowTo(m, r, n) == { i \in 1 .. n : m[i].row = r }
OfSku(m, s) == { i \in 1 .. Len(m) : SkuOf(m[i].row) = s }

IsReserve(m) == \E r \in Rows, q \in Nat \ {0} : m = Reserve(r, q)

(* Holds have quantities. *)
LEMMA HeldType ==
  ASSUME NEW t \in Seq(Hold), NEW X \in SUBSET (1 .. Len(t))
  PROVE  /\ IsFiniteSet(X)
         /\ \A h \in X : t[h] \in Hold /\ t[h].qty \in Nat /\ t[h].qty > 0
         /\ Held(t, X) \in Nat
<1>1. IsFiniteSet(X)
  <2>1. IsFiniteSet(1 .. Len(t))
    BY FS_Interval
  <2> QED BY <2>1, FS_Subset
<1>2. \A h \in X : t[h] \in Hold
  OBVIOUS
<1>3. \A h \in X : t[h].qty \in Nat /\ t[h].qty > 0
  BY <1>2 DEF Hold
<1> DEFINE F == [h \in X |-> t[h].qty]
<1>4. \A h \in X : F[h] \in Nat
  BY <1>3
<1>5. Sum(F, X) \in Nat
  <2> HIDE DEF F
  <2> QED BY <1>1, <1>4, SumNat
<1> QED BY <1>1, <1>2, <1>3, <1>5 DEF Held

(* Quantities are what a total depends on. *)
LEMMA HeldSame ==
  ASSUME NEW t \in Seq(Hold), NEW X \in SUBSET (1 .. Len(t)),
         NEW u, \A h \in X : u[h].qty = t[h].qty
  PROVE  Held(u, X) = Held(t, X)
<1> DEFINE F == [h \in X |-> t[h].qty]
           G == [h \in X |-> u[h].qty]
<1>0. IsFiniteSet(X) /\ \A h \in X : t[h].qty \in Nat
  BY HeldType
<1>1. (\A h \in X : F[h] \in Int) /\ (\A h \in X : F[h] = G[h])
  BY <1>0
<1>2. Sum(F, X) = Sum(G, X)
  <2> HIDE DEF F, G
  <2> QED BY <1>0, <1>1, SumSame
<1> QED BY <1>2 DEF Held

(* A table with new rows at its end. *)
LEMMA HeldAppend ==
  ASSUME NEW t \in Seq(Hold), NEW u \in Seq(Hold),
         NEW A, Places(A, Len(t)), NEW B, Places(B, Len(u)),
         NEW U, EndToEnd(U, A, Len(t), B)
  PROVE  Held(t \o u, U) = Held(t, A) + Held(u, B)
<1> DEFINE F == [h \in A |-> t[h].qty]
           G == [h \in B |-> u[h].qty]
           H == [h \in U |-> (t \o u)[h].qty]
<1>0. (\A i \in A : t[i].qty \in Nat) /\ (\A i \in B : u[i].qty \in Nat)
  <2>1. A \in SUBSET (1 .. Len(t)) /\ B \in SUBSET (1 .. Len(u))
    BY DEF Places
  <2> QED BY <2>1, HeldType
<1>1. PICK n \in Nat : n = Len(t)
  OBVIOUS
<1>2. PICK k \in Nat : k = Len(u)
  OBVIOUS
<1>3. AllInt(F, A) /\ AllInt(G, B)
  <2>1. (\A i \in A : F[i] = t[i].qty) /\ (\A i \in B : G[i] = u[i].qty)
    OBVIOUS
  <2> HIDE DEF F, G
  <2> QED BY <1>0, <2>1 DEF AllInt
<1>4. Ahead(H, F, A)
  BY DEF Ahead, EndToEnd, Places
<1>5. Behind(H, n, G, B)
  <2> SUFFICES ASSUME NEW i \in B PROVE H[n + i] = G[i]
    BY DEF Behind
  <2>1. n + i \in U /\ (t \o u)[n + i] = u[i]
    BY <1>1 DEF EndToEnd, Places
  <2> QED BY <2>1
<1>6. Sum(H, U) = Sum(F, A) + Sum(G, B)
  <2>1. EndToEnd(U, A, n, B) /\ Places(A, n) /\ Places(B, k)
    BY <1>1, <1>2 DEF Places
  <2> HIDE DEF F, G, H
  <2> QED BY <1>3, <1>4, <1>5, <2>1, SumAppend
<1> QED BY <1>6 DEF Held

(* The rows of a table, of its parts, and what their holds come to. *)
LEMMA TableAppend ==
  ASSUME NEW t \in Seq(Hold), NEW u \in Seq(Hold), NEW r, NEW o, NEW s
  PROVE  /\ t \o u \in Seq(Hold)
         /\ Held(t \o u, OnRow(t \o u, r)) = Held(t, OnRow(t, r)) + Held(u, OnRow(u, r))
         /\ Held(t \o u, ForOrder(t \o u, o, s))
              = Held(t, ForOrder(t, o, s)) + Held(u, ForOrder(u, o, s))
<1>0. t \o u \in Seq(Hold) /\ Len(t) \in Nat /\ Len(u) \in Nat
  OBVIOUS
<1>1. Len(t \o u) = Len(t) + Len(u)
  OBVIOUS
<1>2. (\A h \in 1 .. Len(t) : (t \o u)[h] = t[h])
      /\ (\A i \in 1 .. Len(u) : (t \o u)[Len(t) + i] = u[i])
  OBVIOUS
<1>3. PICK n \in Nat, k \in Nat : n = Len(t) /\ k = Len(u)
  BY <1>0
<1>4. PICK v : v = t \o u
  OBVIOUS
<1>5. /\ Len(v) = n + k
      /\ \A h \in 1 .. n : v[h] = t[h]
      /\ \A i \in 1 .. k : v[n + i] = u[i]
  BY <1>1, <1>2, <1>3, <1>4
<1>6. \A h \in 1 .. (n + k) : h \in 1 .. n \/ \E i \in 1 .. k : h = n + i
  <2> SUFFICES ASSUME NEW h \in 1 .. (n + k), h \notin 1 .. n
               PROVE  \E i \in 1 .. k : h = n + i
    OBVIOUS
  <2>1. h - n \in 1 .. k /\ h = n + (h - n)
    OBVIOUS
  <2> QED BY <2>1
<1>7. EndToEnd(OnRow(v, r), OnRow(t, r), n, OnRow(u, r))
  BY <1>3, <1>5, <1>6 DEF EndToEnd, OnRow
<1>8. EndToEnd(ForOrder(v, o, s), ForOrder(t, o, s), n, ForOrder(u, o, s))
  BY <1>3, <1>5, <1>6 DEF EndToEnd, ForOrder
<1>9. /\ Places(OnRow(t, r), Len(t)) /\ Places(OnRow(u, r), Len(u))
      /\ Places(ForOrder(t, o, s), Len(t)) /\ Places(ForOrder(u, o, s), Len(u))
  BY DEF OnRow, ForOrder, Places
<1>10. Held(v, OnRow(v, r)) = Held(t, OnRow(t, r)) + Held(u, OnRow(u, r))
  BY <1>3, <1>4, <1>7, <1>9, HeldAppend
<1>11. Held(v, ForOrder(v, o, s)) = Held(t, ForOrder(t, o, s)) + Held(u, ForOrder(u, o, s))
  BY <1>3, <1>4, <1>8, <1>9, HeldAppend
<1> QED BY <1>0, <1>4, <1>10, <1>11

(* t and u agree on what their holds are for. *)
SameHolds(t, u) ==
  /\ u \in Seq(Hold) /\ Len(u) = Len(t)
  /\ \A h \in 1 .. Len(t) :
       u[h].order = t[h].order /\ u[h].row = t[h].row /\ u[h].qty = t[h].qty

(* One hold rewritten. *)
LEMMA TableUpdate ==
  ASSUME NEW t \in Seq(Hold), NEW h \in 1 .. Len(t), NEW x \in Hold,
         NEW u, u = [t EXCEPT ![h] = x]
  PROVE  /\ u \in Seq(Hold) /\ Len(u) = Len(t)
         /\ \A j \in 1 .. Len(t) : u[j] = IF j = h THEN x ELSE t[j]
<1>1. u \in Seq(Hold)
  OBVIOUS
<1>2. Len(u) = Len(t)
  OBVIOUS
<1>3. \A j \in 1 .. Len(t) : u[j] = IF j = h THEN x ELSE t[j]
  OBVIOUS
<1> QED BY <1>1, <1>2, <1>3

(* A status says nothing about what was once reserved for an order. *)
LEMMA OrdersSame ==
  ASSUME NEW t \in Seq(Hold), NEW u, SameHolds(t, u), NEW o, NEW s
  PROVE  Held(u, ForOrder(u, o, s)) = Held(t, ForOrder(t, o, s))
<1>1. ForOrder(u, o, s) = ForOrder(t, o, s) /\ ForOrder(t, o, s) \in SUBSET (1 .. Len(t))
  BY DEF ForOrder, SameHolds
<1>2. PICK X \in SUBSET (1 .. Len(t)) : X = ForOrder(t, o, s)
  BY <1>1
<1>3. Held(u, X) = Held(t, X)
  BY HeldSame DEF SameHolds
<1> QED BY <1>1, <1>2, <1>3

(* Without a change of status each row keeps its total. *)
LEMMA RowsSame ==
  ASSUME NEW t \in Seq(Hold), NEW u, SameHolds(t, u), NEW r,
         \A h \in 1 .. Len(t) : u[h].status = t[h].status
  PROVE  Held(u, OnRow(u, r)) = Held(t, OnRow(t, r))
<1>1. OnRow(u, r) = OnRow(t, r) /\ OnRow(t, r) \in SUBSET (1 .. Len(t))
  BY DEF OnRow, SameHolds
<1>2. PICK X \in SUBSET (1 .. Len(t)) : X = OnRow(t, r)
  BY <1>1
<1>3. Held(u, X) = Held(t, X)
  BY HeldSame DEF SameHolds
<1> QED BY <1>1, <1>2, <1>3

(* A hold that ends takes its quantity off its row, if it was still ACTIVE. *)
LEMMA RowsRelease ==
  ASSUME NEW t \in Seq(Hold), NEW u, SameHolds(t, u), NEW r, NEW h \in 1 .. Len(t),
         u[h].status # "ACTIVE",
         \A j \in 1 .. Len(t) : j # h => u[j].status = t[j].status
  PROVE  Held(u, OnRow(u, r)) >= Held(t, OnRow(t, r)) - (IF t[h].row = r THEN t[h].qty ELSE 0)
<1>1. OnRow(u, r) = OnRow(t, r) \ {h} /\ OnRow(t, r) \in SUBSET (1 .. Len(t))
  BY DEF OnRow, SameHolds
<1>2. PICK X \in SUBSET (1 .. Len(t)) : X = OnRow(t, r)
  BY <1>1
<1>3. X \ {h} \in SUBSET (1 .. Len(t)) /\ Len(t) = Len(u)
  BY DEF SameHolds
<1>4. Held(u, X \ {h}) = Held(t, X \ {h})
  BY <1>3, HeldSame DEF SameHolds
<1>5. Held(t, X) \in Nat /\ Held(t, X \ {h}) \in Nat /\ t[h].qty \in Nat
  <2>1. {h} \in SUBSET (1 .. Len(t))
    OBVIOUS
  <2> QED BY <1>3, <2>1, HeldType
<1>6. CASE h \in X
  <2> DEFINE F == [j \in X |-> t[j].qty]
             G == [j \in X \ {h} |-> t[j].qty]
  <2>1. IsFiniteSet(X) /\ \A j \in X : t[j].qty \in Nat
    BY HeldType
  <2>2. (\A j \in X : F[j] \in Int) /\ F[h] = t[h].qty
    <3>1. \A j \in X : F[j] = t[j].qty
      OBVIOUS
    <3> HIDE DEF F
    <3> QED BY <1>6, <2>1, <3>1
  <2>3. \A j \in X \ {h} : G[j] = F[j]
    OBVIOUS
  <2>4. Sum(F, X) = F[h] + Sum(F, X \ {h})
    <3> HIDE DEF F
    <3> QED BY <1>6, <2>1, <2>2, SumRemove
  <2>5. Sum(F, X \ {h}) = Sum(G, X \ {h})
    <3>1. IsFiniteSet(X \ {h}) /\ \A j \in X \ {h} : F[j] \in Int
      BY <2>1, <2>2, FS_Subset
    <3>2. PICK Y : Y = X \ {h}
      OBVIOUS
    <3> HIDE DEF F, G
    <3> QED BY <2>3, <3>1, <3>2, SumSame
  <2>6. Held(t, X) = t[h].qty + Held(t, X \ {h})
    BY <2>2, <2>4, <2>5 DEF Held
  <2>7. t[h].row = r
    BY <1>2, <1>6 DEF OnRow
  <2>8. PICK a \in Nat, b \in Nat, c \in Nat :
          a = Held(t, X) /\ b = Held(t, X \ {h}) /\ c = t[h].qty
    BY <1>5
  <2>9. a - c <= b
    BY <2>6, <2>8
  <2> QED BY <1>1, <1>2, <1>4, <2>7, <2>8, <2>9
<1>7. CASE h \notin X
  <2>1. X \ {h} = X
    BY <1>7
  <2>2. PICK a \in Nat, c \in Nat : a = Held(t, X) /\ c = t[h].qty
    BY <1>5
  <2>3. a >= a - (IF t[h].row = r THEN c ELSE 0)
    OBVIOUS
  <2> QED BY <1>1, <1>2, <1>4, <2>1, <2>2, <2>3
<1> QED BY <1>6, <1>7

-----------------------------------------------------------------------------
(* Scripts *)

(* What a RESERVE and a RELEASE_RESERVE add to a row's reserved units. *)
LEMMA ReserveIs ==
  ASSUME NEW r \in Rows, NEW q \in Nat \ {0}
  PROVE  /\ Reserve(r, q) \in Movement /\ ReleaseReserve(r, q) \in Movement
         /\ Reserve(r, q).row = r /\ Reserve(r, q).deltas["reserved"] = q
         /\ ReleaseReserve(r, q).row = r
         /\ ReleaseReserve(r, q).deltas["reserved"] = -q
<1>1. q \in Int /\ q > 0 /\ -q \in Int /\ 0 \in Int
  OBVIOUS
<1>2. Reserve(r, q) \in Movement /\ ReleaseReserve(r, q) \in Movement
  BY <1>1, PrimitivesType
<1>3. Deltas(0, q, 0, 0)["reserved"] = q /\ Deltas(0, -q, 0, 0)["reserved"] = -q
  BY <1>1, DeltasFields
<1> QED BY <1>2, <1>3 DEF Reserve, ReleaseReserve, Move

(* A RESERVE movement adds some reserved units to a row. *)
LEMMA ReserveUnits ==
  ASSUME NEW m, IsReserve(m)
  PROVE  m \in Movement /\ m.row \in Rows /\ m.deltas["reserved"] \in Nat \ {0}
<1>1. PICK r \in Rows, q \in Nat \ {0} : m = Reserve(r, q)
  BY DEF IsReserve
<1> QED BY <1>1, ReserveIs

(* Every movement adds an integer. *)
LEMMA AddingType ==
  ASSUME NEW m \in Seq(Movement), NEW I, Places(I, Len(m))
  PROVE  /\ IsFiniteSet(I)
         /\ \A i \in I : m[i].row \in Rows /\ m[i].deltas["reserved"] \in Int
         /\ Adding(m, I) \in Int
<1>1. IsFiniteSet(I)
  <2>1. IsFiniteSet(1 .. Len(m))
    BY FS_Interval
  <2> QED BY <2>1, FS_Subset DEF Places
<1>2. \A i \in I : m[i] \in Movement
  BY DEF Places
<1>3. \A i \in I : m[i].row \in Rows /\ m[i].deltas["reserved"] \in Int
  <2>1. \A x \in Movement : x.row \in Rows /\ x.deltas \in Buckets
    BY DEF Movement
  <2>2. \A d \in Buckets : d["reserved"] \in Int
    BY DEF Buckets, Bucket
  <2> QED BY <1>2, <2>1, <2>2
<1> DEFINE F == [i \in I |-> m[i].deltas["reserved"]]
<1>4. \A i \in I : F[i] \in Int
  <2>1. \A i \in I : F[i] = m[i].deltas["reserved"]
    OBVIOUS
  <2> HIDE DEF F
  <2> QED BY <1>3, <2>1
<1>5. Sum(F, I) \in Int
  <2> HIDE DEF F
  <2> QED BY <1>1, <1>4, SumType
<1> QED BY <1>1, <1>3, <1>5 DEF Adding

(* Scripts end to end. *)
LEMMA AddingAppend ==
  ASSUME NEW m \in Seq(Movement), NEW w \in Seq(Movement), NEW s
  PROVE  Adding(m \o w, OfSku(m \o w, s)) = Adding(m, OfSku(m, s)) + Adding(w, OfSku(w, s))
<1>0. Len(m) \in Nat /\ Len(w) \in Nat
  OBVIOUS
<1>a. PICK n \in Nat, k \in Nat : n = Len(m) /\ k = Len(w)
  BY <1>0
<1>b. PICK v : v = m \o w
  OBVIOUS
<1>1. n = Len(m) /\ k = Len(w) /\ v = m \o w
  BY <1>a, <1>b
<1>2. /\ Len(v) = n + k
      /\ \A h \in 1 .. n : v[h] = m[h]
      /\ \A i \in 1 .. k : v[n + i] = w[i]
  BY <1>1
<1>3. \A h \in 1 .. (n + k) : h \in 1 .. n \/ \E i \in 1 .. k : h = n + i
  <2> SUFFICES ASSUME NEW h \in 1 .. (n + k), h \notin 1 .. n
               PROVE  \E i \in 1 .. k : h = n + i
    OBVIOUS
  <2>1. h - n \in 1 .. k /\ h = n + (h - n)
    OBVIOUS
  <2> QED BY <2>1
<1>4. PICK A, B, U : A = OfSku(m, s) /\ B = OfSku(w, s) /\ U = OfSku(v, s)
  OBVIOUS
<1>5. EndToEnd(U, A, n, B) /\ Places(A, n) /\ Places(B, k)
  <2>1. EndToEnd(OfSku(v, s), OfSku(m, s), n, OfSku(w, s))
    BY <1>a, <1>2, <1>3 DEF EndToEnd, OfSku
  <2>2. Places(OfSku(m, s), n) /\ Places(OfSku(w, s), k)
    BY <1>1 DEF OfSku, Places
  <2> QED BY <1>4, <2>1, <2>2
<1> DEFINE F == [i \in A |-> m[i].deltas["reserved"]]
           G == [i \in B |-> w[i].deltas["reserved"]]
           H == [i \in U |-> v[i].deltas["reserved"]]
<1>6. AllInt(F, A) /\ AllInt(G, B)
  <2>1. (\A i \in A : m[i].deltas["reserved"] \in Int)
        /\ (\A i \in B : w[i].deltas["reserved"] \in Int)
    BY <1>1, <1>5, AddingType
  <2>2. (\A i \in A : F[i] = m[i].deltas["reserved"])
        /\ (\A i \in B : G[i] = w[i].deltas["reserved"])
    OBVIOUS
  <2> HIDE DEF F, G
  <2> QED BY <2>1, <2>2 DEF AllInt
<1>7. Ahead(H, F, A)
  BY <1>2, <1>5 DEF Ahead, EndToEnd, Places
<1>8. Behind(H, n, G, B)
  <2> SUFFICES ASSUME NEW i \in B PROVE H[n + i] = G[i]
    BY DEF Behind
  <2>1. n + i \in U /\ v[n + i] = w[i]
    BY <1>2, <1>5 DEF EndToEnd, Places
  <2> QED BY <2>1
<1>9. Sum(H, U) = Sum(F, A) + Sum(G, B)
  <2> HIDE DEF F, G, H
  <2> QED BY <1>5, <1>6, <1>7, <1>8, SumAppend
<1>10. Adding(v, U) = Adding(m, A) + Adding(w, B)
  BY <1>9 DEF Adding
<1> QED BY <1>1, <1>4, <1>10

(* A script one movement further on. *)
LEMMA AddingStep ==
  ASSUME NEW m \in Seq(Movement), NEW n \in 1 .. Len(m), NEW r
  PROVE  Adding(m, OnRowTo(m, r, n))
           = Adding(m, OnRowTo(m, r, n - 1))
               + (IF m[n].row = r THEN m[n].deltas["reserved"] ELSE 0)
<1>1. PICK A, B : A = OnRowTo(m, r, n - 1) /\ B = OnRowTo(m, r, n)
  OBVIOUS
<1>2. Places(A, Len(m)) /\ n \notin A /\ Places({n}, Len(m))
      /\ B = IF m[n].row = r THEN A \cup {n} ELSE A
  BY <1>1 DEF OnRowTo, Places
<1>3. CASE m[n].row # r
  <2>1. Adding(m, A) \in Int /\ B = A
    BY <1>2, <1>3, AddingType
  <2> QED BY <1>1, <1>3, <2>1
<1>4. CASE m[n].row = r
  <2> DEFINE F == [i \in A |-> m[i].deltas["reserved"]]
             G == [i \in A \cup {n} |-> m[i].deltas["reserved"]]
  <2>1. /\ IsFiniteSet(A) /\ \A i \in A : m[i].deltas["reserved"] \in Int
        /\ m[n].deltas["reserved"] \in Int
    BY <1>2, AddingType
  <2>2. /\ \A i \in A : F[i] = m[i].deltas["reserved"]
        /\ \A i \in A : G[i] = F[i]
        /\ G[n] = m[n].deltas["reserved"]
    OBVIOUS
  <2>3. Sum(G, A \cup {n}) = Sum(F, A) + G[n]
    <3> HIDE DEF F, G
    <3>1. \A i \in A : F[i] \in Int
      BY <2>1, <2>2
    <3>2. \A i \in A : G[i] = F[i]
      BY <2>2
    <3>3. n \notin A /\ IsFiniteSet(A) /\ G[n] \in Int
      BY <1>2, <2>1, <2>2
    <3> QED BY <3>1, <3>2, <3>3, SumGrows
  <2> QED BY <1>1, <1>2, <1>4, <2>2, <2>3 DEF Adding
<1> QED BY <1>3, <1>4

(* The holds a script's RESERVEs leave in the table. *)
NewHolds(m, o) ==
  [i \in 1 .. Len(m) |->
     [order |-> o, row |-> m[i].row, qty |-> m[i].deltas["reserved"],
      status |-> "ACTIVE", due |-> FALSE]]

AllReserve(m) == \A i \in 1 .. Len(m) : IsReserve(m[i])

(* The holds a commit inserts hold what its movements reserve. *)
LEMMA NewHoldsIs ==
  ASSUME NEW m \in Seq(Movement), AllReserve(m), NEW o \in Orders,
         NEW u, u = NewHolds(m, o)
  PROVE  /\ u \in Seq(Hold) /\ Len(u) = Len(m)
         /\ \A r : Held(u, OnRow(u, r)) = Adding(m, OnRowTo(m, r, Len(m)))
         /\ \A s : Held(u, ForOrder(u, o, s)) = Adding(m, OfSku(m, s))
         /\ \A x, s : x # o => Held(u, ForOrder(u, x, s)) = 0
<1>0. PICK k \in Nat : k = Len(m)
  OBVIOUS
<1>1. \A i \in 1 .. k : m[i].row \in Rows /\ m[i].deltas["reserved"] \in Nat \ {0}
  BY <1>0, ReserveUnits DEF AllReserve
<1>2. /\ u = [i \in 1 .. k |-> u[i]]
      /\ \A i \in 1 .. k : u[i] = [order |-> o, row |-> m[i].row,
                                    qty |-> m[i].deltas["reserved"],
                                    status |-> "ACTIVE", due |-> FALSE]
  BY <1>0 DEF NewHolds
<1>3. \A i \in 1 .. k : u[i] \in Hold
  <2> SUFFICES ASSUME NEW i \in 1 .. k PROVE u[i] \in Hold
    OBVIOUS
  <2>1. PICK r \in Rows, q \in Nat \ {0} : r = m[i].row /\ q = m[i].deltas["reserved"]
    BY <1>1
  <2>2. u[i] = [order |-> o, row |-> r, qty |-> q, status |-> "ACTIVE", due |-> FALSE]
    BY <1>2, <2>1
  <2> QED BY <2>2 DEF Hold
<1>4. u \in Seq(Hold) /\ Len(u) = k
  BY <1>2, <1>3
<1>5. \A i \in 1 .. k :
        /\ u[i].order = o /\ u[i].row = m[i].row
        /\ u[i].qty = m[i].deltas["reserved"] /\ u[i].status = "ACTIVE"
  <2> SUFFICES ASSUME NEW i \in 1 .. k
               PROVE  /\ u[i].order = o /\ u[i].row = m[i].row
                      /\ u[i].qty = m[i].deltas["reserved"] /\ u[i].status = "ACTIVE"
    OBVIOUS
  <2>1. PICK r, q : r = m[i].row /\ q = m[i].deltas["reserved"]
    OBVIOUS
  <2>2. u[i] = [order |-> o, row |-> r, qty |-> q, status |-> "ACTIVE", due |-> FALSE]
    BY <1>2, <2>1
  <2> QED BY <2>1, <2>2
<1>6. ASSUME NEW X \in SUBSET (1 .. k)
      PROVE  Held(u, X) = Adding(m, X)
  <2>1. [h \in X |-> u[h].qty] = [i \in X |-> m[i].deltas["reserved"]]
    BY <1>5
  <2> QED BY <2>1, Zenon DEF Held, Adding
<1>7. ASSUME NEW r PROVE Held(u, OnRow(u, r)) = Adding(m, OnRowTo(m, r, Len(m)))
  <2>1. OnRow(u, r) = OnRowTo(m, r, k) /\ OnRowTo(m, r, k) \in SUBSET (1 .. k)
    BY <1>4, <1>5 DEF OnRow, OnRowTo
  <2> QED BY <1>0, <1>6, <2>1
<1>8. ASSUME NEW s PROVE Held(u, ForOrder(u, o, s)) = Adding(m, OfSku(m, s))
  <2>1. ForOrder(u, o, s) = OfSku(m, s) /\ OfSku(m, s) \in SUBSET (1 .. k)
    BY <1>0, <1>4, <1>5 DEF ForOrder, OfSku
  <2> QED BY <1>6, <2>1
<1>9. ASSUME NEW x, NEW s, x # o PROVE Held(u, ForOrder(u, x, s)) = 0
  <2>1. ForOrder(u, x, s) = {}
    BY <1>4, <1>5, <1>9 DEF ForOrder
  <2>2. Held(u, {}) = 0
    BY SumEmpty DEF Held
  <2> QED BY <2>1, <2>2
<1> QED BY <1>0, <1>4, <1>7, <1>8, <1>9

-----------------------------------------------------------------------------
(* Plans *)

Line == [sku : Skus, qty : Nat \ {0}]

(* An order has lines. *)
LEMMA OrderLines ==
  ASSUME NEW o \in Orders
  PROVE  Lines[o] \in Seq(Line) /\ Len(Lines[o]) \in Nat
<1>1. Lines \in [Orders -> Seq(Line)]
  BY ReservationsAssumption DEF Line
<1> QED BY <1>1

(* A plan of planLine: legs from shipping locations, each of some units and *)
(* together of no more than the line asks for.                              *)
IsPlan(plan, line) ==
  /\ \E k \in Nat : plan = [i \in 1 .. k |-> plan[i]]
  /\ \A i \in DOMAIN plan : plan[i].node \in ShipFrom /\ plan[i].quantity \in Nat \ {0}
  /\ Planned(plan) \in Nat /\ Planned(plan) <= line.qty

(* planLine returns such a plan. *)
LEMMA PlansAre ==
  ASSUME TypeOK, NEW p \in Workers, NEW line \in Line, NEW plan \in Plans(p, line)
  PROVE  IsPlan(plan, line)
<1> DEFINE available == [l \in ShipFrom |-> SeenAvailable(p, <<line.sku, l>>)]
           candidates == { l \in ShipFrom : available[l] > 0 }
           n == Cardinality(candidates)
<1>1. \A l \in ShipFrom : available[l] \in Int
  <2> SUFFICES ASSUME NEW l \in ShipFrom PROVE SeenAvailable(p, <<line.sku, l>>) \in Int
    OBVIOUS
  <2>1. PICK r \in Rows : r = <<line.sku, l>>
    BY ReservationsAssumption DEF Rows, Line
  <2>2. Seen(p, r) \in Buckets /\ safetyStock[r] \in Int
    BY DEF Seen, TypeOK
  <2>3. Availability(Seen(p, r), safetyStock[r]) \in Int
    BY <2>2, UnitsType
  <2> QED BY <2>1, <2>3 DEF SeenAvailable
<1>2. PICK f \in [1 .. n -> candidates] : plan = Greedy(f, available, line.qty)
  BY DEF Plans
<1>3. IsFiniteSet(candidates)
  <2>1. candidates \subseteq Locations /\ IsFiniteSet(Locations)
    BY ReservationsAssumption
  <2> QED BY <2>1, FS_Subset
<1>4. n \in Nat
  <2> HIDE DEF candidates
  <2> QED BY <1>3, FS_CardinalityType
<1>5. \A l \in candidates : l \in ShipFrom /\ available[l] \in Nat \ {0}
  <2> HIDE DEF available
  <2> QED BY <1>1
<1>a. PICK N \in Nat, q \in Nat \ {0} : N = n /\ q = line.qty
  <2>1. line.qty \in Nat \ {0}
    BY DEF Line
  <2> HIDE DEF n
  <2> QED BY <1>4, <2>1
<1>b. PICK a : a = available
  OBVIOUS
<1>6. N = n /\ a = available /\ q = line.qty
  BY <1>a, <1>b
<1> HIDE DEF available, candidates, n
<1>7. Offers(f, a, N)
  BY <1>5, <1>6 DEF Offers
<1>8. PICK k : k = Cardinality(Visited(f, a, q))
  OBVIOUS
<1>9. TakesInTurn(plan, f, a, q, N, k)
  BY <1>2, <1>6, <1>7, <1>8, GreedyLegs
<1>10. k \in 0 .. N /\ DOMAIN plan = 1 .. k /\ k \in Nat
       /\ \A i \in 1 .. k : plan[i].node = f[i] /\ plan[i].quantity \in 1 .. a[f[i]]
  BY <1>9 DEF TakesInTurn
<1>11. plan = [i \in 1 .. k |-> plan[i]]
  BY <1>2, <1>6, <1>8, <1>10 DEF Greedy
<1>12. Planned(plan) = IF q < Given(f, a, N) THEN q ELSE Given(f, a, N)
  BY <1>9 DEF TakesInTurn
<1>13. Given(f, a, N) \in Nat
  BY <1>7, GivenStep
<1>14. Planned(plan) \in Nat /\ Planned(plan) <= line.qty
  BY <1>6, <1>12, <1>13
<1>15. \A i \in 1 .. k : f[i] \in ShipFrom /\ plan[i].quantity \in Nat \ {0}
  BY <1>5, <1>6, <1>10
<1> QED BY <1>10, <1>11, <1>14, <1>15 DEF IsPlan

(* The RESERVEs of a plan ask for what the plan covers, of the line's SKU. *)
LEMMA HoldingIs ==
  ASSUME NEW line \in Line, NEW plan, IsPlan(plan, line), NEW w, w = Holding(plan, line)
  PROVE  /\ w \in Seq(Movement) /\ AllReserve(w)
         /\ plan = << >> <=> Len(w) = 0
         /\ \A s : Adding(w, OfSku(w, s)) = IF s = line.sku THEN Planned(plan) ELSE 0
<1>0. PICK k \in Nat : plan = [i \in 1 .. k |-> plan[i]]
  BY DEF IsPlan
<1>1. /\ DOMAIN plan = 1 .. k
      /\ \A i \in 1 .. k : plan[i].node \in ShipFrom /\ plan[i].quantity \in Nat \ {0}
  BY <1>0 DEF IsPlan
<1>2. /\ w = [i \in 1 .. k |-> w[i]]
      /\ \A i \in 1 .. k : w[i] = Reserve(<<line.sku, plan[i].node>>, plan[i].quantity)
  BY <1>1 DEF Holding
<1>3. ASSUME NEW i \in 1 .. k
      PROVE  /\ w[i] \in Movement /\ IsReserve(w[i])
             /\ SkuOf(w[i].row) = line.sku
             /\ w[i].deltas["reserved"] = plan[i].quantity
  <2>1. PICK r : r = <<line.sku, plan[i].node>>
    OBVIOUS
  <2>2. r \in Rows /\ SkuOf(r) = line.sku
    BY <1>1, <2>1, ReservationsAssumption DEF Rows, Line, SkuOf
  <2>3. PICK q \in Nat \ {0} : q = plan[i].quantity
    BY <1>1
  <2>4. w[i] = Reserve(r, q)
    BY <1>2, <2>1, <2>3
  <2> QED BY <2>2, <2>3, <2>4, ReserveIs DEF IsReserve
<1>4. w \in Seq(Movement) /\ Len(w) = k
  <2>1. \A i \in 1 .. k : w[i] \in Movement
    BY <1>3
  <2> QED BY <1>2, <2>1
<1>5. AllReserve(w)
  BY <1>3, <1>4 DEF AllReserve
<1>6. plan = << >> <=> k = 0
  <2>1. ASSUME plan = << >> PROVE k = 0
    BY <1>1, <2>1
  <2>2. ASSUME k = 0 PROVE plan = << >>
    <3>1. 1 .. k = {}
      BY <2>2
    <3>2. plan \in Seq({})
      BY <1>0, <3>1
    <3> QED BY <3>2
  <2> QED BY <2>1, <2>2
<1>7. ASSUME NEW s PROVE Adding(w, OfSku(w, s)) = IF s = line.sku THEN Planned(plan) ELSE 0
  <2>1. CASE s = line.sku
    <3>1. OfSku(w, s) = 1 .. k
      BY <1>3, <1>4, <2>1 DEF OfSku
    <3>2. [i \in 1 .. k |-> w[i].deltas["reserved"]] = [i \in 1 .. k |-> plan[i].quantity]
      BY <1>3
    <3>3. Adding(w, 1 .. k) = Planned(plan)
      BY <1>1, <3>2, Zenon DEF Adding, Planned
    <3> QED BY <2>1, <3>1, <3>3
  <2>2. CASE s # line.sku
    <3>1. OfSku(w, s) = {}
      BY <1>3, <1>4, <2>2 DEF OfSku
    <3>2. Adding(w, {}) = 0
      BY SumEmpty DEF Adding
    <3> QED BY <2>2, <3>1, <3>2
  <2> QED BY <2>1, <2>2
<1> QED BY <1>4, <1>5, <1>6, <1>7

(* What the first lines of an order ask for of a SKU. *)
LEMMA LinesStep ==
  ASSUME NEW o \in Orders, NEW s
  PROVE  /\ LinesQty(o, s, 0) = 0
         /\ \A n \in 0 .. Len(Lines[o]) : LinesQty(o, s, n) \in Nat
         /\ \A n \in 1 .. Len(Lines[o]) : Lines[o][n] \in Line
              /\ LinesQty(o, s, n) = LinesQty(o, s, n - 1)
                   + (IF Lines[o][n].sku = s THEN Lines[o][n].qty ELSE 0)
<1> DEFINE ln == Lines[o]
           L(n) == { i \in 1 .. n : ln[i].sku = s }
           F(n) == [i \in L(n) |-> ln[i].qty]
<1>0. ln \in Seq(Line) /\ Len(ln) \in Nat
  BY OrderLines
<1>1. \A i \in 1 .. Len(ln) : ln[i] \in Line /\ ln[i].qty \in Nat
  <2>1. \A x \in Line : x.qty \in Nat
    BY DEF Line
  <2> QED BY <1>0, <2>1
<1>2. \A n : LinesQty(o, s, n) = Sum(F(n), L(n))
  BY DEF LinesQty
<1>3. ASSUME NEW n \in 0 .. Len(ln)
      PROVE  /\ IsFiniteSet(L(n)) /\ Sum(F(n), L(n)) \in Nat
             /\ \A i \in L(n) : F(n)[i] = ln[i].qty /\ F(n)[i] \in Nat
  <2>1. IsFiniteSet(L(n))
    <3>1. IsFiniteSet(1 .. n) /\ L(n) \subseteq 1 .. n
      BY FS_Interval
    <3> HIDE DEF L
    <3> QED BY <3>1, FS_Subset
  <2>2. \A i \in L(n) : F(n)[i] = ln[i].qty /\ F(n)[i] \in Nat
    <3>1. \A i \in L(n) : i \in 1 .. Len(ln)
      BY <1>0
    <3>2. \A i \in L(n) : F(n)[i] = ln[i].qty
      OBVIOUS
    <3> HIDE DEF L, F, ln
    <3> QED BY <1>1, <3>1, <3>2
  <2>3. PICK X, G : X = L(n) /\ G = F(n)
    OBVIOUS
  <2>4. IsFiniteSet(X) /\ \A i \in X : G[i] \in Nat
    BY <2>1, <2>2, <2>3
  <2>5. Sum(G, X) \in Nat
    <3> HIDE DEF L, F, ln
    <3> QED BY <2>4, SumNat
  <2> HIDE DEF L, F, ln
  <2> QED BY <2>1, <2>2, <2>3, <2>5
<1>4. LinesQty(o, s, 0) = 0
  <2>1. L(0) = {}
    OBVIOUS
  <2>2. PICK G : G = F(0)
    OBVIOUS
  <2> HIDE DEF L, F
  <2> QED BY <1>2, <2>1, <2>2, SumEmpty
<1>5. ASSUME NEW n \in 1 .. Len(ln)
      PROVE  LinesQty(o, s, n) = LinesQty(o, s, n - 1) + (IF ln[n].sku = s THEN ln[n].qty ELSE 0)
  <2>0. n \in 0 .. Len(ln) /\ n - 1 \in 0 .. Len(ln) /\ n \notin L(n - 1)
    BY <1>0
  <2>1. L(n) = IF ln[n].sku = s THEN L(n - 1) \cup {n} ELSE L(n - 1)
    BY <1>0
  <2>2. PICK A : A = L(n - 1)
    OBVIOUS
  <2>3. PICK G : G = F(n - 1)
    OBVIOUS
  <2>4. PICK B : B = L(n)
    OBVIOUS
  <2>5. PICK H : H = F(n)
    OBVIOUS
  <2>6. /\ IsFiniteSet(A) /\ n \notin A /\ Sum(G, A) \in Nat
        /\ \A i \in A : G[i] = ln[i].qty /\ G[i] \in Nat
        /\ \A i \in B : H[i] = ln[i].qty /\ H[i] \in Nat
        /\ B = IF ln[n].sku = s THEN A \cup {n} ELSE A
    <3> HIDE DEF L, F, ln
    <3> QED BY <1>3, <2>0, <2>1, <2>2, <2>3, <2>4, <2>5
  <2>7. LinesQty(o, s, n) = Sum(H, B) /\ LinesQty(o, s, n - 1) = Sum(G, A)
    <3> HIDE DEF L, F, ln
    <3> QED BY <1>2, <2>2, <2>3, <2>4, <2>5
  <2> HIDE DEF L, F, ln
  <2>8. CASE ln[n].sku = s
    <3>1. B = A \cup {n} /\ H[n] = ln[n].qty /\ H[n] \in Int
      BY <2>6, <2>8
    <3>2. (\A i \in A : G[i] \in Int) /\ (\A i \in A : H[i] = G[i])
      BY <2>6, <3>1
    <3>3. Sum(H, A \cup {n}) = Sum(G, A) + H[n]
      <4>1. IsFiniteSet(A) /\ n \notin A /\ H[n] \in Int
        BY <2>6, <3>1
      <4>2. \A i \in A : G[i] \in Int
        BY <3>2
      <4>3. \A i \in A : H[i] = G[i]
        BY <3>2
      <4> QED BY <4>1, <4>2, <4>3, SumGrows
    <3> QED BY <2>7, <2>8, <3>1, <3>3
  <2>9. CASE ln[n].sku # s
    <3>1. B = A
      BY <2>6, <2>9
    <3>2. (\A i \in A : H[i] \in Int) /\ (\A i \in A : H[i] = G[i])
      BY <2>6, <3>1
    <3>3. Sum(H, A) = Sum(G, A)
      BY <2>6, <3>2, SumSame
    <3> QED BY <2>6, <2>7, <2>9, <3>1, <3>3
  <2> QED BY <2>8, <2>9
<1>6. \A n \in 0 .. Len(ln) : LinesQty(o, s, n) \in Nat
  <2> HIDE DEF L, F, ln
  <2> QED BY <1>2, <1>3
<1> QED BY <1>1, <1>4, <1>5, <1>6

(* An order asks for a number of units of each SKU. *)
LEMMA LinesTotal ==
  ASSUME NEW o \in Orders
  PROVE  \A s : LinesQty(o, s, Len(Lines[o])) \in Nat
<1> SUFFICES ASSUME NEW s PROVE LinesQty(o, s, Len(Lines[o])) \in Nat
  OBVIOUS
<1>1. Len(Lines[o]) \in 0 .. Len(Lines[o])
  BY OrderLines
<1>2. \A i \in 0 .. Len(Lines[o]) : LinesQty(o, s, i) \in Nat
  BY LinesStep
<1> QED BY <1>1, <1>2

-----------------------------------------------------------------------------
(* The reservation service *)

ReserveTasks == [kind : {"reserve"}, order : Orders, line : Nat \ {0},
                 attempt : Nat \ {0}, created : SUBSET Nat]
ReleaseTasks == [kind : {"cancel", "sweep", "expire"}, queue : SUBSET Nat, hold : Nat]
RvTables ==
  /\ holds \in Seq(Hold)
  /\ task \in [Workers -> {NoTask} \cup ReserveTasks \cup ReleaseTasks]

(* What worker p has written to row r, and asks for of SKU s. *)
Written(p, r) == Adding(script[p], OnRowTo(script[p], r, step[p] - 1))
Asked(p, s) == Adding(script[p], OfSku(script[p], s))

(* How far a transaction has come. *)
InTx(p) == pc[p] \in {"lock", "write", "commit"}
TxAt(p) ==
  /\ pc[p] = "idle" => script[p] = << >> /\ step[p] = 1
  /\ ~ InTx(p) => pending[p] = ClearRows
  /\ pc[p] = "commit" => step[p] = Len(script[p]) + 1
  /\ InTx(p) => \A r \in Rows : pending[p][r]["reserved"] = Written(p, r)

(* What each transaction is for: a reserve asks for the lines it has        *)
(* planned, in full if it must, and a release for one hold.                 *)
Reserving(p) == task[p].kind = "reserve"
AsksAll(p) ==
  task[p].order \notin AllowBackorder => \A s \in Skus :
    Asked(p, s) = LinesQty(task[p].order, s, task[p].line - 1)
ReserveAt(p) ==
  /\ InTx(p) => /\ AllReserve(script[p])
                /\ task[p].line <= Len(Lines[task[p].order]) + 1
                /\ AsksAll(p)
  /\ ~ InTx(p) /\ LinesLeft(p) => task[p].line = 1
ReleaseAt(p) ==
  /\ task[p].queue \subseteq 1 .. Len(holds)
  /\ InTx(p) =>
       /\ task[p].hold \in 1 .. Len(holds)
       /\ script[p] = <<ReleaseReserve(holds[task[p].hold].row, holds[task[p].hold].qty)>>
JobAt(p) ==
  /\ task[p] = NoTask => pc[p] = "idle"
  /\ Reserving(p) => ReserveAt(p)
  /\ Releasing(p) => ReleaseAt(p)

(* The two properties, read off the table. *)
Backed == \A r \in Rows : snapshot[r]["reserved"] <= Held(holds, OnRow(holds, r))
WholeOrder(t, o, k) ==
  \A s \in Skus : Held(t, ForOrder(t, o, s)) = k * LinesQty(o, s, Len(Lines[o]))
Whole == \A o \in Orders \ AllowBackorder : \E k \in 0 .. Len(holds) : WholeOrder(holds, o, k)

RvInv ==
  /\ EngineInv /\ RvTables
  /\ \A p \in Workers : TxAt(p) /\ JobAt(p)
  /\ Backed /\ Whole

(* The invariant implies the two properties of the table. *)
LEMMA TableReads ==
  ASSUME RvInv
  PROVE  NoStrandedUnits /\ ReserveAllOrNothing
<1>1. ASSUME NEW r PROVE QtyOn(ActiveIds, r) = Held(holds, OnRow(holds, r))
  <2>1. { h \in ActiveIds : holds[h].row = r } = OnRow(holds, r)
    BY DEF ActiveIds, Ids, OnRow
  <2> QED BY <2>1 DEF QtyOn, QtyOf, Held
<1>2. ASSUME NEW o, NEW s PROVE OrderQty(o, s) = Held(holds, ForOrder(holds, o, s))
  <2>1. { h \in Ids : holds[h].order = o /\ SkuOf(holds[h].row) = s } = ForOrder(holds, o, s)
    BY DEF Ids, ForOrder
  <2> QED BY <2>1 DEF OrderQty, QtyOf, Held
<1>3. NoStrandedUnits
  BY <1>1 DEF RvInv, Backed, NoStrandedUnits
<1>4. ReserveAllOrNothing
  BY <1>2 DEF RvInv, Whole, WholeOrder, ReserveAllOrNothing
<1> QED BY <1>3, <1>4

(* The worker's task, by its kind. *)
LEMMA TaskIs ==
  ASSUME RvTables, NEW p \in Workers
  PROVE  /\ task[p] = NoTask => ~ Reserving(p) /\ ~ Releasing(p)
         /\ Reserving(p) => /\ task[p] \in ReserveTasks /\ task[p].order \in Orders
                            /\ task[p].line \in Nat \ {0} /\ ~ Releasing(p)
         /\ Releasing(p) => task[p] \in ReleaseTasks
         /\ task[p] = NoTask \/ Reserving(p) \/ Releasing(p)
<1>1. task[p] \in {NoTask} \cup ReserveTasks \cup ReleaseTasks
  BY DEF RvTables
<1>2. CASE task[p] = NoTask
  BY <1>2 DEF NoTask, Reserving, Releasing
<1>3. CASE task[p] \in ReserveTasks
  <2>1. task[p].kind = "reserve" /\ task[p].order \in Orders /\ task[p].line \in Nat \ {0}
    BY <1>3 DEF ReserveTasks
  <2>2. task[p] # NoTask
    BY <2>1 DEF NoTask
  <2> QED BY <1>3, <2>1, <2>2 DEF Reserving, Releasing
<1>4. CASE task[p] \in ReleaseTasks
  <2>1. task[p].kind \in {"cancel", "sweep", "expire"}
    BY <1>4 DEF ReleaseTasks
  <2>2. task[p] # NoTask
    BY <2>1 DEF NoTask
  <2> QED BY <1>4, <2>1, <2>2 DEF Reserving, Releasing
<1> QED BY <1>1, <1>2, <1>3, <1>4

(* What a step of worker p leaves to the others. *)
OnlyWorker(p) ==
  \A q \in Workers \ {p} :
    pc'[q] = pc[q] /\ script'[q] = script[q] /\ step'[q] = step[q] /\ pending'[q] = pending[q]
OnlyTask(p) == \A q \in Workers \ {p} : task'[q] = task[q]
HoldsKept ==
  /\ Len(holds') \in Nat /\ Len(holds') >= Len(holds)
  /\ \A h \in 1 .. Len(holds) : holds'[h].row = holds[h].row /\ holds'[h].qty = holds[h].qty

(* A step of one worker leaves the others where they are. *)
LEMMA OthersKept ==
  ASSUME RvInv, NEW p \in Workers, OnlyWorker(p), OnlyTask(p), HoldsKept,
         NEW q \in Workers \ {p}
  PROVE  TxAt(q)' /\ JobAt(q)'
<1>1. /\ pc'[q] = pc[q] /\ script'[q] = script[q] /\ step'[q] = step[q]
      /\ pending'[q] = pending[q] /\ task'[q] = task[q]
  BY DEF OnlyWorker, OnlyTask
<1>2. TxAt(q) /\ JobAt(q)
  BY DEF RvInv
<1>3. TxAt(q)'
  BY <1>1, <1>2 DEF TxAt, InTx, Written
<1>4. ASSUME Reserving(q) PROVE ReserveAt(q)'
  BY <1>1, <1>2, <1>4 DEF JobAt, ReserveAt, InTx, AsksAll, Asked, LinesLeft
<1>5. ASSUME Releasing(q) PROVE ReleaseAt(q)'
  <2>1. ReleaseAt(q)
    BY <1>2, <1>5 DEF JobAt
  <2>2. Len(holds) \in Nat
    BY DEF RvInv, RvTables
  <2>3. 1 .. Len(holds) \subseteq 1 .. Len(holds')
    BY <2>2 DEF HoldsKept
  <2> QED BY <1>1, <2>1, <2>3 DEF ReleaseAt, InTx, HoldsKept
<1>6. JobAt(q)'
  BY <1>1, <1>2, <1>4, <1>5 DEF JobAt, Reserving, Releasing
<1> QED BY <1>3, <1>6

(* So a step of p has only its own part of the invariant to keep. *)
LEMMA RvFrame ==
  ASSUME RvInv, NEW p \in Workers, OnlyWorker(p), OnlyTask(p), HoldsKept,
         EngineInv', RvTables', TxAt(p)', JobAt(p)', Backed', Whole'
  PROVE  RvInv'
<1>1. \A q \in Workers : TxAt(q)' /\ JobAt(q)'
  BY OthersKept
<1> QED BY <1>1 DEF RvInv

(* A step that leaves stock and holds alone. *)
LEMMA RvQuiet ==
  ASSUME RvInv, snapshot' = snapshot, holds' = holds
  PROVE  Backed' /\ Whole' /\ HoldsKept
<1>1. Len(holds) \in Nat
  BY DEF RvInv, RvTables
<1> QED BY <1>1 DEF RvInv, Backed, Whole, HoldsKept

(* A transaction starts. *)
LEMMA BeginKeeps ==
  ASSUME EngineInv, NEW p \in Workers, NEW s \in Seq(Movement), Len(s) > 0, Begin(p, s)
  PROVE  EngineInv' /\ snapshot' = snapshot
<1>1. Len(s) \in Nat /\ 1 \in 1 .. Len(s)
  OBVIOUS
<1>2. TypeOK'
  BY DEF EngineInv, TypeOK, Begin
<1>3. AtInv'
  BY <1>1 DEF EngineInv, AtInv, TypeOK, Begin, Current
<1> QED BY <1>2, <1>3 DEF EngineInv, HeldInv, Begin

(* The announcement after the commit. *)
LEMMA InvalidateKeeps ==
  ASSUME EngineInv, NEW p \in Workers, Invalidate(p)
  PROVE  EngineInv' /\ snapshot' = snapshot
<1>1. \A i \in 1 .. Len(script[p]) : SkuOf(script[p][i].row) \in Skus
  <2>1. \A i \in 1 .. Len(script[p]) : script[p][i] \in Movement
    BY DEF EngineInv, TypeOK
  <2>2. \A x \in Movement : x.row \in Rows
    BY DEF Movement
  <2>3. \A x \in Rows : SkuOf(x) \in Skus
    BY DEF Rows, SkuOf
  <2> QED BY <2>1, <2>2, <2>3
<1>2. TypeOK'
  BY <1>1 DEF EngineInv, TypeOK, Invalidate
<1>3. AtInv'
  BY DEF EngineInv, AtInv, TypeOK, Invalidate, Current
<1> QED BY <1>2, <1>3 DEF EngineInv, HeldInv, Invalidate

(* A script nothing of which is written yet. *)
LEMMA NothingWritten ==
  ASSUME NEW m, NEW r, NEW n \in Int, n <= 0
  PROVE  Adding(m, OnRowTo(m, r, n)) = 0
<1>1. OnRowTo(m, r, n) = {}
  BY DEF OnRowTo
<1> QED BY <1>1, SumEmpty DEF Adding

(* A transaction starts with no reserved unit of its own. *)
LEMMA ClearIs ==
  \A r \in Rows : ClearRows[r]["reserved"] = 0
BY DEF ClearRows, ZeroBuckets, Bucket

(* The engine's steps, as the reservation service sees them. *)
LEMMA RollbackTx ==
  ASSUME EngineInv, NEW p \in Workers, Rollback(p)
  PROVE  /\ EngineInv' /\ snapshot' = snapshot
         /\ OnlyWorker(p) /\ TxAt(p)' /\ pc'[p] = "idle"
<1>1. EngineInv' /\ snapshot' = snapshot
  BY RollbackKeeps
<1>2. /\ pc'[p] = "idle" /\ script'[p] = << >> /\ step'[p] = 1 /\ pending'[p] = ClearRows
      /\ OnlyWorker(p)
  BY DEF EngineInv, TypeOK, Rollback, EndTransaction, OnlyWorker
<1> QED BY <1>1, <1>2 DEF TxAt, InTx

(* A transaction of one movement begins. *)
LEMMA BeginTx ==
  ASSUME EngineInv, NEW p \in Workers, TxAt(p), NEW m \in Movement, Begin(p, <<m>>)
  PROVE  /\ EngineInv' /\ snapshot' = snapshot
         /\ OnlyWorker(p) /\ TxAt(p)' /\ pc'[p] = "lock" /\ script'[p] = <<m>>
<1>0. <<m>> \in Seq(Movement) /\ Len(<<m>>) > 0
  OBVIOUS
<1>1. EngineInv' /\ snapshot' = snapshot
  BY <1>0, BeginKeeps
<1>2. /\ pc[p] = "idle" /\ pc'[p] = "lock" /\ script'[p] = <<m>> /\ step'[p] = 1
      /\ pending'[p] = pending[p] /\ OnlyWorker(p)
  BY DEF EngineInv, TypeOK, Begin, OnlyWorker
<1>3. pending[p] = ClearRows
  BY <1>2 DEF TxAt, InTx
<1>4. \A r \in Rows : pending'[p][r]["reserved"] = Written(p, r)'
  <2>1. step'[p] - 1 = 0 /\ 0 \in Int /\ 0 <= 0
    BY <1>2
  <2> QED BY <1>2, <1>3, <2>1, NothingWritten, ClearIs DEF Written
<1>5. TxAt(p)'
  BY <1>2, <1>4 DEF TxAt, InTx
<1> QED BY <1>1, <1>2, <1>5

(* A row lock is taken. *)
LEMMA LockTx ==
  ASSUME EngineInv, NEW p \in Workers, TxAt(p), LockRow(p)
  PROVE  /\ EngineInv' /\ snapshot' = snapshot
         /\ OnlyWorker(p) /\ TxAt(p)' /\ InTx(p) /\ InTx(p)' /\ script' = script
<1>1. EngineInv' /\ snapshot' = snapshot
  BY LockKeeps DEF LockRow
<1>2. /\ pc[p] = "lock" /\ pc'[p] = "write" /\ script' = script /\ step' = step
      /\ pending' = pending /\ OnlyWorker(p)
  BY DEF EngineInv, TypeOK, LockRow, OnlyWorker
<1> QED BY <1>1, <1>2 DEF TxAt, InTx, Written

(* A movement is written to the private rows. *)
LEMMA WriteTx ==
  ASSUME EngineInv, NEW p \in Workers, TxAt(p), WriteMovement(p)
  PROVE  /\ EngineInv' /\ snapshot' = snapshot
         /\ OnlyWorker(p) /\ TxAt(p)' /\ InTx(p) /\ InTx(p)' /\ script' = script
<1>1. EngineInv' /\ snapshot' = snapshot
  BY WriteKeeps DEF WriteMovement
<1>2. PICK m : m = Current(p)
  OBVIOUS
<1>3. /\ pc[p] = "write" /\ m.row \in Rows /\ m.deltas \in Buckets
      /\ step[p] \in 1 .. Len(script[p]) /\ script[p] \in Seq(Movement) /\ m = script[p][step[p]]
  BY <1>2, CurrentRow DEF WriteMovement, EngineInv, AtInv, TypeOK, Current
<1>4. /\ pc'[p] = (IF step[p] = Len(script[p]) THEN "commit" ELSE "lock")
      /\ script' = script /\ step'[p] = step[p] + 1
      /\ pending'[p] = [pending[p] EXCEPT ![m.row] = Plus(pending[p][m.row], m.deltas)]
      /\ OnlyWorker(p)
  BY <1>2, <1>3 DEF EngineInv, TypeOK, WriteMovement, OnlyWorker
<1>5. \A r \in Rows : pending[p][r]["reserved"] = Written(p, r)
  BY <1>3 DEF TxAt, InTx
<1>6. ASSUME NEW r \in Rows PROVE pending'[p][r]["reserved"] = Written(p, r)'
  <2>1. pending[p] \in [Rows -> Buckets] /\ pending[p][r] \in Buckets
    BY DEF EngineInv, TypeOK
  <2>2. m.deltas["reserved"] \in Int /\ pending[p][r]["reserved"] \in Int
    BY <1>3, <2>1 DEF Buckets, Bucket
  <2>3. pending'[p][r]["reserved"]
          = pending[p][r]["reserved"] + (IF m.row = r THEN m.deltas["reserved"] ELSE 0)
    <3>1. CASE m.row = r
      <4>1. pending'[p][r] = Plus(pending[p][r], m.deltas)
        BY <1>4, <2>1, <3>1
      <4>2. Plus(pending[p][r], m.deltas)["reserved"]
              = pending[p][r]["reserved"] + m.deltas["reserved"]
        BY <1>3, <2>1, PlusType DEF Bucket
      <4> QED BY <3>1, <4>1, <4>2
    <3>2. CASE m.row # r
      BY <1>4, <2>1, <2>2, <3>2
    <3> QED BY <3>1, <3>2
  <2>4. PICK n \in 1 .. Len(script[p]) : n = step[p]
    BY <1>3
  <2>5. Adding(script[p], OnRowTo(script[p], r, n))
          = Adding(script[p], OnRowTo(script[p], r, n - 1))
              + (IF script[p][n].row = r THEN script[p][n].deltas["reserved"] ELSE 0)
    BY <1>3, AddingStep
  <2>6. step'[p] - 1 = n /\ step[p] - 1 = n - 1
    BY <1>3, <1>4, <2>4
  <2> QED BY <1>3, <1>4, <1>5, <2>3, <2>4, <2>5, <2>6 DEF Written
<1>7. InTx(p) /\ InTx(p)' /\ pc'[p] # "idle"
  BY <1>3, <1>4 DEF InTx
<1>8. pc'[p] = "commit" => step'[p] = Len(script'[p]) + 1
  BY <1>4
<1>9. TxAt(p)'
  BY <1>6, <1>7, <1>8 DEF TxAt
<1> QED BY <1>1, <1>4, <1>7, <1>9

(* The cache is invalidated after the commit. *)
LEMMA InvalidateTx ==
  ASSUME EngineInv, NEW p \in Workers, TxAt(p), Invalidate(p)
  PROVE  /\ EngineInv' /\ snapshot' = snapshot
         /\ OnlyWorker(p) /\ TxAt(p)' /\ ~ InTx(p) /\ ~ InTx(p)'
<1>1. EngineInv' /\ snapshot' = snapshot
  BY InvalidateKeeps
<1>2. /\ pc[p] = "invalidate" /\ pc'[p] = "idle" /\ script'[p] = << >> /\ step'[p] = 1
      /\ pending' = pending /\ OnlyWorker(p)
  BY DEF EngineInv, TypeOK, Invalidate, OnlyWorker
<1> QED BY <1>1, <1>2 DEF TxAt, InTx

(* A commit adds to every row what its transaction wrote. *)
LEMMA CommitTx ==
  ASSUME EngineInv, NEW p \in Workers, TxAt(p), Commit(p)
  PROVE  /\ EngineInv' /\ OnlyWorker(p) /\ TxAt(p)' /\ InTx(p) /\ ~ InTx(p)'
         /\ pc'[p] = "invalidate"
         /\ \A r \in Rows :
              /\ snapshot[r]["reserved"] \in Int
              /\ snapshot'[r]["reserved"] = snapshot[r]["reserved"]
                   + Adding(script[p], OnRowTo(script[p], r, Len(script[p])))
<1>1. EngineInv'
  BY CommitKeeps
<1>2. /\ pc[p] = "commit" /\ pc'[p] = "invalidate" /\ pending'[p] = ClearRows /\ OnlyWorker(p)
  BY DEF EngineInv, TypeOK, Commit, EndTransaction, OnlyWorker
<1>3. TxAt(p)' /\ InTx(p) /\ ~ InTx(p)'
  BY <1>2 DEF TxAt, InTx
<1>4. ASSUME NEW r \in Rows
      PROVE  /\ snapshot[r]["reserved"] \in Int
             /\ snapshot'[r]["reserved"] = snapshot[r]["reserved"]
                  + Adding(script[p], OnRowTo(script[p], r, Len(script[p])))
  <2>0. Len(script[p]) \in Nat
    BY DEF EngineInv, TypeOK
  <2>1. step[p] - 1 = Len(script[p])
    BY <1>2, <2>0 DEF TxAt
  <2>2. pending[p][r]["reserved"] = Adding(script[p], OnRowTo(script[p], r, Len(script[p])))
    BY <1>2, <2>1 DEF TxAt, InTx, Written
  <2>3. snapshot[r] \in Buckets /\ pending[p][r] \in Buckets
    BY DEF EngineInv, TypeOK
  <2>4. snapshot[r]["reserved"] \in Int
    BY <2>3 DEF Buckets, Bucket
  <2>5. snapshot'[r] = IF lock[r] = p THEN work[p][r] ELSE snapshot[r]
    BY DEF Commit
  <2>6. snapshot'[r] = Plus(snapshot[r], pending[p][r])
    <3>1. lock[r] = p => work[p][r] = Plus(snapshot[r], pending[p][r])
      BY DEF EngineInv, HeldInv
    <3>2. lock[r] # p => pending[p][r] = ZeroBuckets
      BY DEF EngineInv, HeldInv
    <3>3. Plus(snapshot[r], ZeroBuckets) = snapshot[r]
      BY <2>3, PlusZero
    <3> QED BY <2>5, <3>1, <3>2, <3>3
  <2>7. Plus(snapshot[r], pending[p][r])["reserved"]
          = snapshot[r]["reserved"] + pending[p][r]["reserved"]
    BY <2>3, PlusType DEF Bucket
  <2> QED BY <2>2, <2>4, <2>6, <2>7
<1> QED BY <1>1, <1>2, <1>3, <1>4

-----------------------------------------------------------------------------
(* Steps of the reservation service *)

(* One worker's task changes. *)
LEMMA TaskTo ==
  ASSUME RvTables, NEW p \in Workers, NEW x \in {NoTask} \cup ReserveTasks \cup ReleaseTasks,
         task' = [task EXCEPT ![p] = x], holds' \in Seq(Hold)
  PROVE  RvTables' /\ OnlyTask(p) /\ task'[p] = x
BY DEF RvTables, OnlyTask

(* An idle worker takes up a task, and one that has finished drops it. *)
LEMMA IdleStep ==
  ASSUME RvInv, NEW p \in Workers, UNCHANGED <<vars, holds>>, pc[p] = "idle",
         NEW x \in {NoTask} \cup ReserveTasks \cup ReleaseTasks,
         task' = [task EXCEPT ![p] = x],
         x.kind = "reserve" => x.line = 1,
         x.kind \in {"cancel", "sweep", "expire"} => x.queue \subseteq 1 .. Len(holds)
  PROVE  RvInv'
<1>1. EngineInv' /\ OnlyWorker(p) /\ TxAt(p)' /\ Backed' /\ Whole' /\ HoldsKept
  <2>1. RvInv /\ snapshot' = snapshot /\ holds' = holds /\ pc' = pc /\ script' = script
        /\ step' = step /\ pending' = pending
    BY DEF vars
  <2>2. EngineInv'
    BY DEF RvInv, EngineInv, TypeOK, AtInv, HeldInv, Current, vars
  <2>3. TxAt(p)'
    BY <2>1 DEF RvInv, TxAt, InTx, Written
  <2> QED BY <2>1, <2>2, <2>3, RvQuiet DEF OnlyWorker
<1>2. RvTables' /\ OnlyTask(p) /\ task'[p] = x
  BY TaskTo DEF RvInv, RvTables
<1>3. JobAt(p)'
  <2>1. pc'[p] = "idle" /\ ~ InTx(p)' /\ holds' = holds
    BY DEF vars, InTx
  <2> QED BY <1>2, <2>1 DEF JobAt, Reserving, Releasing, ReserveAt, ReleaseAt
<1> QED BY <1>1, <1>2, <1>3, RvFrame

(* A worker without a task neither reserves nor releases. *)
LEMMA NoTaskIs == NoTask.kind = "none"
BY DEF NoTask

(* A task may only be taken up by an idle worker. *)
LEMMA FreeWorker ==
  ASSUME RvInv, NEW p \in Workers, task[p] = NoTask
  PROVE  pc[p] = "idle"
BY DEF RvInv, JobAt

(* reserveForOrder starts. *)
LEMMA StartReserveInv ==
  ASSUME RvInv, NEW p \in Workers, NEW o \in Orders, StartReserve(p, o)
  PROVE  RvInv'
<1>1. pc[p] = "idle"
  BY FreeWorker DEF StartReserve
<1>2. PICK x : x = ReserveTask(o)
  OBVIOUS
<1>3. x \in ReserveTasks /\ x.kind = "reserve" /\ x.line = 1
  <2>1. {} \in SUBSET Nat /\ 1 \in Nat \ {0}
    OBVIOUS
  <2>2. PICK e \in SUBSET Nat, w \in Nat \ {0} : e = {} /\ w = 1
    BY <2>1
  <2>3. x = [kind |-> "reserve", order |-> o, line |-> w, attempt |-> w, created |-> e]
    BY <1>2, <2>2 DEF ReserveTask
  <2> QED BY <2>2, <2>3 DEF ReserveTasks
<1> QED BY <1>1, <1>2, <1>3, IdleStep DEF StartReserve

(* The three ways a list of holds is read. *)
LEMMA StartRelease ==
  ASSUME RvInv, NEW p \in Workers, task[p] = NoTask, NEW ids, ids \subseteq 1 .. Len(holds),
         NEW k \in {"cancel", "sweep", "expire"},
         task' = [task EXCEPT ![p] = ReleaseTask(k, ids)], UNCHANGED <<vars, holds>>
  PROVE  RvInv'
<1>1. pc[p] = "idle"
  BY FreeWorker
<1>2. PICK x : x = ReleaseTask(k, ids)
  OBVIOUS
<1>3. x \in ReleaseTasks /\ x.kind = k /\ x.queue = ids
  <2>1. ids \in SUBSET Nat /\ 0 \in Nat
    BY DEF RvInv, RvTables
  <2>2. x = [kind |-> k, queue |-> ids, hold |-> 0]
    BY <1>2 DEF ReleaseTask
  <2> QED BY <2>1, <2>2 DEF ReleaseTasks
<1> QED BY <1>1, <1>2, <1>3, IdleStep

(* cancel, the sweep and the expiry job start. *)
LEMMA StartReleaseInv ==
  ASSUME RvInv, NEW p \in Workers,
         \/ \E o \in Orders : StartCancel(p, o)
         \/ StartSweep(p)
         \/ \E h \in Ids : StartExpireOne(p, h)
  PROVE  RvInv'
<1>1. ASSUME NEW o \in Orders, StartCancel(p, o) PROVE RvInv'
  <2>1. PICK ids : ids = { h \in ActiveIds : holds[h].order = o }
    OBVIOUS
  <2>2. ids \subseteq 1 .. Len(holds)
    BY <2>1 DEF ActiveIds, Ids
  <2>3. /\ task[p] = NoTask /\ task' = [task EXCEPT ![p] = ReleaseTask("cancel", ids)]
        /\ UNCHANGED <<vars, holds>>
    BY <1>1, <2>1 DEF StartCancel
  <2> QED BY <2>2, <2>3, StartRelease
<1>2. ASSUME StartSweep(p) PROVE RvInv'
  <2>1. PICK ids : ids = { h \in ActiveIds : holds[h].due }
    OBVIOUS
  <2>2. ids \subseteq 1 .. Len(holds)
    BY <2>1 DEF ActiveIds, Ids
  <2>3. /\ task[p] = NoTask /\ task' = [task EXCEPT ![p] = ReleaseTask("sweep", ids)]
        /\ UNCHANGED <<vars, holds>>
    BY <1>2, <2>1 DEF StartSweep
  <2> QED BY <2>2, <2>3, StartRelease
<1>3. ASSUME NEW h \in Ids, StartExpireOne(p, h) PROVE RvInv'
  <2>2. {h} \subseteq 1 .. Len(holds)
    BY DEF Ids
  <2>3. /\ task[p] = NoTask /\ task' = [task EXCEPT ![p] = ReleaseTask("expire", {h})]
        /\ UNCHANGED <<vars, holds>>
    BY <1>3 DEF StartExpireOne
  <2> QED BY <2>2, <2>3, StartRelease
<1> QED BY <1>1, <1>2, <1>3

(* A hold no longer ACTIVE is passed over. *)
LEMMA SkipHoldInv ==
  ASSUME RvInv, NEW p \in Workers, NEW h \in Ids, SkipHold(p, h)
  PROVE  RvInv'
<1>1. Releasing(p) /\ pc[p] = "idle" /\ UNCHANGED <<vars, holds>>
  BY DEF SkipHold
<1>2. task[p] \in ReleaseTasks /\ task[p].queue \subseteq 1 .. Len(holds)
  BY <1>1, TaskIs DEF RvInv, JobAt, ReleaseAt
<1>3. PICK x : x = [task[p] EXCEPT !.queue = task[p].queue \ {h}]
  OBVIOUS
<1>4. x \in ReleaseTasks /\ x.queue \subseteq 1 .. Len(holds) /\ x.kind # "reserve"
  BY <1>2, <1>3 DEF ReleaseTasks
<1>5. task' = [task EXCEPT ![p] = x]
  BY <1>3 DEF SkipHold, RvInv, RvTables
<1> QED BY <1>1, <1>4, <1>5, IdleStep

(* The end of a task. *)
LEMMA EndTaskStepInv ==
  ASSUME RvInv, NEW p \in Workers, ScheduleExpiry(p) \/ EndRelease(p)
  PROVE  RvInv'
<1>1. pc[p] = "idle" /\ UNCHANGED <<vars, holds>> /\ task' = [task EXCEPT ![p] = NoTask]
  BY DEF ScheduleExpiry, EndRelease
<1> QED BY <1>1, NoTaskIs, IdleStep

(* A transaction rolled back leaves its worker without one, to start over   *)
(* or to give up.                                                           *)
LEMMA RollbackStep ==
  ASSUME RvInv, NEW p \in Workers, Rollback(p), holds' = holds,
         NEW x \in {NoTask} \cup ReserveTasks, task' = [task EXCEPT ![p] = x],
         x.kind = "reserve" => x.line = 1
  PROVE  RvInv'
<1>1. EngineInv' /\ snapshot' = snapshot /\ OnlyWorker(p) /\ TxAt(p)' /\ pc'[p] = "idle"
  BY RollbackTx DEF RvInv
<1>2. Backed' /\ Whole' /\ HoldsKept
  BY <1>1, RvQuiet
<1>3. RvTables' /\ OnlyTask(p) /\ task'[p] = x
  BY TaskTo DEF RvInv, RvTables
<1>4. x.kind \in {"none", "reserve"}
  BY NoTaskIs DEF ReserveTasks
<1>5. JobAt(p)'
  BY <1>1, <1>3, <1>4 DEF JobAt, Reserving, Releasing, ReserveAt, InTx
<1> QED BY <1>1, <1>2, <1>3, <1>5, RvFrame

(* A refusal, a failed release and a crash roll back. *)
LEMMA GiveUpInv ==
  ASSUME RvInv, NEW p \in Workers, RefuseReserve(p) \/ FailRelease(p) \/ CrashWorker(p)
  PROVE  RvInv'
<1>1. Rollback(p) /\ holds' = holds /\ task' = [task EXCEPT ![p] = NoTask]
  BY DEF RefuseReserve, FailRelease, CrashWorker, RejectMovement
<1> QED BY <1>1, NoTaskIs, RollbackStep

(* A conflict starts the reserve over. *)
LEMMA RetryReserveInv ==
  ASSUME RvInv, NEW p \in Workers, RetryReserve(p)
  PROVE  RvInv'
<1>1. Rollback(p) /\ holds' = holds /\ Reserving(p)
  BY DEF RetryReserve, RejectMovement, DeadlockVictim, Reserving
<1>2. task[p] \in ReserveTasks
  BY <1>1, TaskIs DEF RvInv
<1>3. PICK y : y = [task[p] EXCEPT !.line = 1, !.attempt = task[p].attempt + 1]
  OBVIOUS
<1>4. y \in ReserveTasks /\ y.line = 1
  <2>1. PICK w \in Nat \ {0}, a \in Nat \ {0} : w = 1 /\ a = task[p].attempt + 1
    BY <1>2 DEF ReserveTasks
  <2>2. y = [task[p] EXCEPT !.line = w, !.attempt = a]
    BY <1>3, <2>1
  <2>3. y \in ReserveTasks
    BY <1>2, <2>2 DEF ReserveTasks
  <2>4. y.line = w
    BY <1>2, <2>2 DEF ReserveTasks
  <2> QED BY <2>1, <2>3, <2>4
<1>5. task' = [task EXCEPT ![p] = y] \/ task' = [task EXCEPT ![p] = NoTask]
  <2>1. task' = [task EXCEPT ![p] = IF task[p].attempt < MaxAttempts
                                     THEN [task[p] EXCEPT !.line = 1, !.attempt = task[p].attempt + 1]
                                     ELSE NoTask]
    BY Zenon DEF RetryReserve
  <2>2. task' = [task EXCEPT ![p] = IF task[p].attempt < MaxAttempts THEN y ELSE NoTask]
    BY <1>3, <2>1, Zenon
  <2> QED BY <2>2
<1> QED BY <1>1, <1>4, <1>5, NoTaskIs, RollbackStep

(* The statements of a transaction. *)
LEMMA EngineStepKeeps ==
  ASSUME RvInv, NEW p \in Workers, EngineStep(p)
  PROVE  RvInv'
<1>1. EngineInv /\ TxAt(p) /\ JobAt(p) /\ RvTables
  BY DEF RvInv
<1>2. holds' = holds /\ task' = task
  BY DEF EngineStep, rvVars
<1>3. /\ EngineInv' /\ snapshot' = snapshot /\ OnlyWorker(p) /\ TxAt(p)'
      /\ \/ InTx(p) /\ InTx(p)' /\ script' = script
         \/ ~ InTx(p) /\ ~ InTx(p)'
  BY <1>1, LockTx, WriteTx, InvalidateTx DEF EngineStep
<1>4. task[p] # NoTask
  <2>1. pc[p] # "idle"
    BY DEF EngineStep, LockRow, WriteMovement, Invalidate
  <2> QED BY <1>1, <2>1 DEF JobAt
<1>5. JobAt(p)'
  <2>1. ASSUME Reserving(p) PROVE ReserveAt(p)'
    BY <1>1, <1>2, <1>3, <2>1 DEF JobAt, ReserveAt, AsksAll, Asked, LinesLeft
  <2>2. ASSUME Releasing(p) PROVE ReleaseAt(p)'
    BY <1>1, <1>2, <1>3, <2>2 DEF JobAt, ReleaseAt
  <2> QED BY <1>2, <1>4, <2>1, <2>2 DEF JobAt, Reserving, Releasing
<1>6. RvTables' /\ OnlyTask(p)
  BY <1>1, <1>2 DEF RvTables, OnlyTask
<1> QED BY <1>2, <1>3, <1>5, <1>6, RvQuiet, RvFrame

(* release opens its transaction for the hold it has read. *)
LEMMA ReadActiveHoldInv ==
  ASSUME RvInv, NEW p \in Workers, NEW h \in Ids, ReadActiveHold(p, h)
  PROVE  RvInv'
<1>0. PICK m : m = ReleaseReserve(holds[h].row, holds[h].qty)
  OBVIOUS
<1>1. Releasing(p) /\ Begin(p, <<m>>) /\ holds' = holds
  BY <1>0 DEF ReadActiveHold
<1>2. h \in 1 .. Len(holds) /\ h \in Nat /\ holds[h] \in Hold
  BY DEF Ids, RvInv, RvTables
<1>3. m \in Movement
  <2>1. holds[h].row \in Rows /\ holds[h].qty \in Nat \ {0}
    BY <1>2 DEF Hold
  <2> QED BY <1>0, <2>1, ReserveIs
<1>4. /\ EngineInv' /\ snapshot' = snapshot /\ OnlyWorker(p) /\ TxAt(p)'
      /\ pc'[p] = "lock" /\ script'[p] = <<m>>
  BY <1>1, <1>3, BeginTx DEF RvInv
<1>5. task[p] \in ReleaseTasks /\ task[p].queue \subseteq 1 .. Len(holds)
  BY <1>1, TaskIs DEF RvInv, JobAt, ReleaseAt
<1>6. PICK x : x = [task[p] EXCEPT !.hold = h]
  OBVIOUS
<1>7. x \in ReleaseTasks /\ x.hold = h /\ x.queue = task[p].queue
  BY <1>2, <1>5, <1>6 DEF ReleaseTasks
<1>8. task' = [task EXCEPT ![p] = x]
  BY <1>6 DEF ReadActiveHold, RvInv, RvTables
<1>9. RvTables' /\ OnlyTask(p) /\ task'[p] = x
  BY <1>1, <1>7, <1>8, TaskTo DEF RvInv, RvTables
<1>10. JobAt(p)'
  <2>1. ReleaseAt(p)'
    BY <1>0, <1>1, <1>2, <1>4, <1>5, <1>7, <1>9 DEF ReleaseAt
  <2>2. x.kind \in {"cancel", "sweep", "expire"} /\ x # NoTask
    BY <1>7, NoTaskIs DEF ReleaseTasks
  <2> QED BY <1>9, <2>1, <2>2 DEF JobAt, Reserving
<1> QED BY <1>1, <1>4, <1>9, <1>10, RvQuiet, RvFrame

(* The clock marks a hold due. *)
LEMMA TtlPassesInv ==
  ASSUME RvInv, NEW h \in Ids, TtlPasses(h)
  PROVE  RvInv'
<1>1. /\ h \in 1 .. Len(holds) /\ holds \in Seq(Hold)
      /\ holds' = [holds EXCEPT ![h].due = TRUE] /\ UNCHANGED <<vars, task>>
  BY DEF Ids, TtlPasses, RvInv, RvTables
<1>2. \A j \in 1 .. Len(holds) : holds[j] \in Hold
  BY <1>1
<1>3. PICK x : x = [holds[h] EXCEPT !.due = TRUE]
  OBVIOUS
<1>4. /\ x \in Hold /\ x.order = holds[h].order /\ x.row = holds[h].row
      /\ x.qty = holds[h].qty /\ x.status = holds[h].status
  BY <1>1, <1>2, <1>3 DEF Hold
<1>5. holds' = [holds EXCEPT ![h] = x]
  BY <1>1, <1>3
<1>6. /\ holds' \in Seq(Hold) /\ Len(holds') = Len(holds)
      /\ \A j \in 1 .. Len(holds) : holds'[j] = IF j = h THEN x ELSE holds[j]
  <2>1. PICK u : u = [holds EXCEPT ![h] = x]
    OBVIOUS
  <2>2. /\ u \in Seq(Hold) /\ Len(u) = Len(holds)
        /\ \A j \in 1 .. Len(holds) : u[j] = IF j = h THEN x ELSE holds[j]
    <3>1. holds \in Seq(Hold) /\ h \in 1 .. Len(holds) /\ x \in Hold
      BY <1>1, <1>4
    <3> QED BY <2>1, <3>1, TableUpdate
  <2> QED BY <1>5, <2>1, <2>2
<1>7. SameHolds(holds, holds')
      /\ \A j \in 1 .. Len(holds) : holds'[j].status = holds[j].status
  BY <1>4, <1>6 DEF SameHolds
<1>8. Backed' /\ Whole'
  <2>1. snapshot' = snapshot
    BY <1>1 DEF vars
  <2>2. \A r : Held(holds', OnRow(holds', r)) = Held(holds, OnRow(holds, r))
    BY <1>1, <1>7, RowsSame
  <2>3. \A o, s : Held(holds', ForOrder(holds', o, s)) = Held(holds, ForOrder(holds, o, s))
    BY <1>1, <1>7, OrdersSame
  <2>4. Backed'
    BY <2>1, <2>2 DEF RvInv, Backed
  <2>5. Whole'
    BY <1>6, <2>3 DEF RvInv, Whole, WholeOrder
  <2> QED BY <2>4, <2>5
<1>9. HoldsKept
  <2>1. Len(holds) \in Nat
    BY <1>1
  <2> QED BY <1>6, <1>7, <2>1 DEF HoldsKept, SameHolds
<1>10. EngineInv' /\ RvTables'
  <2>1. EngineInv'
    BY <1>1 DEF RvInv, EngineInv, TypeOK, AtInv, HeldInv, Current, vars
  <2> QED BY <1>1, <1>6, <2>1 DEF RvInv, RvTables
<1>11. \A q \in Workers : TxAt(q)' /\ JobAt(q)'
  <2> SUFFICES ASSUME NEW q \in Workers PROVE TxAt(q)' /\ JobAt(q)'
    OBVIOUS
  <2>1. /\ pc' = pc /\ script' = script /\ step' = step /\ pending' = pending /\ task' = task
        /\ TxAt(q) /\ JobAt(q)
    BY <1>1 DEF vars, RvInv
  <2>2. TxAt(q)'
    BY <2>1 DEF TxAt, InTx, Written
  <2>3. ASSUME Reserving(q) PROVE ReserveAt(q)'
    BY <2>1, <2>3 DEF JobAt, ReserveAt, InTx, AsksAll, Asked, LinesLeft
  <2>4. ASSUME Releasing(q) PROVE ReleaseAt(q)'
    BY <1>6, <1>9, <2>1, <2>4 DEF JobAt, ReleaseAt, InTx, HoldsKept
  <2> QED BY <2>1, <2>2, <2>3, <2>4 DEF JobAt, Reserving, Releasing
<1> QED BY <1>8, <1>10, <1>11 DEF RvInv

(* A hold ends in the transaction that gives its units back.  Read without  *)
(* a lock, it may have ended before: then fewer units are left on the row   *)
(* than its other holds say, never more.                                    *)
LEMMA CommitReleaseInv ==
  ASSUME RvInv, NEW p \in Workers, CommitRelease(p)
  PROVE  RvInv'
<1>1. Releasing(p) /\ Commit(p) /\ EngineInv /\ TxAt(p) /\ holds \in Seq(Hold)
  BY DEF CommitRelease, RvInv, RvTables
<1>2. /\ EngineInv' /\ OnlyWorker(p) /\ TxAt(p)' /\ InTx(p) /\ ~ InTx(p)'
      /\ pc'[p] = "invalidate"
      /\ \A r \in Rows :
           /\ snapshot[r]["reserved"] \in Int
           /\ snapshot'[r]["reserved"] = snapshot[r]["reserved"]
                + Adding(script[p], OnRowTo(script[p], r, Len(script[p])))
  BY <1>1, CommitTx
<1>3. PICK h \in 1 .. Len(holds) : h = task[p].hold
  BY <1>1, <1>2 DEF RvInv, JobAt, ReleaseAt
<1>4. PICK m : m = ReleaseReserve(holds[h].row, holds[h].qty)
  OBVIOUS
<1>5. script[p] = <<m>> /\ task[p].queue \subseteq 1 .. Len(holds)
  BY <1>1, <1>2, <1>3, <1>4 DEF RvInv, JobAt, ReleaseAt
<1>6. holds[h] \in Hold /\ holds[h].row \in Rows /\ holds[h].qty \in Nat \ {0}
  <2>1. holds[h] \in Hold
    BY <1>1
  <2> QED BY <2>1 DEF Hold
<1>7. m \in Movement /\ m.row = holds[h].row /\ m.deltas["reserved"] = - holds[h].qty
  BY <1>4, <1>6, ReserveIs
<1>8. ASSUME NEW r \in Rows
      PROVE  snapshot'[r]["reserved"]
               = snapshot[r]["reserved"] - (IF holds[h].row = r THEN holds[h].qty ELSE 0)
  <2>1. PICK s \in Seq(Movement) : s = <<m>>
    <3>1. <<m>> \in Seq(Movement)
      BY <1>7
    <3> QED BY <3>1
  <2>2. Len(s) = 1 /\ s[1] = m /\ 1 \in 1 .. Len(s)
    BY <2>1
  <2>3. Adding(s, OnRowTo(s, r, 1)) = Adding(s, OnRowTo(s, r, 1 - 1))
          + (IF s[1].row = r THEN s[1].deltas["reserved"] ELSE 0)
    BY <2>2, AddingStep
  <2>4. Adding(s, OnRowTo(s, r, 1 - 1)) = 0
    <3>1. 1 - 1 \in Int /\ 1 - 1 <= 0
      OBVIOUS
    <3> QED BY <3>1, NothingWritten
  <2>5. Adding(s, OnRowTo(s, r, 1)) = IF holds[h].row = r THEN - holds[h].qty ELSE 0
    BY <1>6, <1>7, <2>2, <2>3, <2>4
  <2>6. snapshot'[r]["reserved"] = snapshot[r]["reserved"] + Adding(s, OnRowTo(s, r, 1))
    BY <1>2, <1>5, <2>1, <2>2
  <2> QED BY <1>2, <1>6, <2>5, <2>6
<1>9. PICK z \in {"RELEASED", "EXPIRED"} : holds' = [holds EXCEPT ![h].status = z]
  <2>1. CASE task[p].kind = "cancel"
    BY <1>3, <2>1 DEF CommitRelease
  <2>2. CASE task[p].kind # "cancel"
    BY <1>3, <2>2 DEF CommitRelease
  <2> QED BY <2>1, <2>2
<1>10. PICK x : x = [holds[h] EXCEPT !.status = z]
  OBVIOUS
<1>11. /\ x \in Hold /\ x.order = holds[h].order /\ x.row = holds[h].row
       /\ x.qty = holds[h].qty /\ x.status # "ACTIVE"
  BY <1>6, <1>9, <1>10 DEF Hold
<1>12. holds' = [holds EXCEPT ![h] = x]
  BY <1>9, <1>10
<1>13. /\ holds' \in Seq(Hold) /\ Len(holds') = Len(holds)
       /\ \A j \in 1 .. Len(holds) : holds'[j] = IF j = h THEN x ELSE holds[j]
  <2>1. PICK u : u = [holds EXCEPT ![h] = x]
    OBVIOUS
  <2>2. /\ u \in Seq(Hold) /\ Len(u) = Len(holds)
        /\ \A j \in 1 .. Len(holds) : u[j] = IF j = h THEN x ELSE holds[j]
    <3>1. holds \in Seq(Hold) /\ x \in Hold
      BY <1>1, <1>11
    <3> QED BY <2>1, <3>1, TableUpdate
  <2> QED BY <1>12, <2>1, <2>2
<1>14. /\ SameHolds(holds, holds') /\ holds'[h].status # "ACTIVE"
       /\ \A j \in 1 .. Len(holds) : j # h => holds'[j].status = holds[j].status
  BY <1>11, <1>13 DEF SameHolds
<1>15. Backed'
  <2> SUFFICES ASSUME NEW r \in Rows
               PROVE  snapshot'[r]["reserved"] <= Held(holds', OnRow(holds', r))
    BY DEF Backed
  <2>1. Held(holds', OnRow(holds', r))
          >= Held(holds, OnRow(holds, r)) - (IF holds[h].row = r THEN holds[h].qty ELSE 0)
    BY <1>1, <1>14, RowsRelease
  <2>2. snapshot[r]["reserved"] <= Held(holds, OnRow(holds, r))
    BY DEF RvInv, Backed
  <2>3. Held(holds, OnRow(holds, r)) \in Nat /\ Held(holds', OnRow(holds', r)) \in Nat
    <3>1. OnRow(holds, r) \in SUBSET (1 .. Len(holds))
          /\ OnRow(holds', r) \in SUBSET (1 .. Len(holds'))
      BY DEF OnRow
    <3> QED BY <1>1, <1>13, <3>1, HeldType
  <2>4. PICK a \in Nat, b \in Nat, c \in Nat, d \in Int :
          /\ a = Held(holds, OnRow(holds, r)) /\ b = Held(holds', OnRow(holds', r))
          /\ c = (IF holds[h].row = r THEN holds[h].qty ELSE 0) /\ d = snapshot[r]["reserved"]
    BY <1>2, <1>6, <2>3
  <2>5. b >= a - c /\ d <= a
    BY <2>1, <2>2, <2>4
  <2>6. snapshot'[r]["reserved"] = d - c
    BY <1>8, <2>4
  <2> QED BY <2>4, <2>5, <2>6
<1>16. Whole'
  <2>1. \A o, s : Held(holds', ForOrder(holds', o, s)) = Held(holds, ForOrder(holds, o, s))
    BY <1>1, <1>14, OrdersSame
  <2> QED BY <1>13, <2>1 DEF RvInv, Whole, WholeOrder
<1>17. HoldsKept
  <2>1. Len(holds) \in Nat
    BY <1>1
  <2> QED BY <1>13, <1>14, <2>1 DEF HoldsKept, SameHolds
<1>18. PICK y : y = [task[p] EXCEPT !.queue = task[p].queue \ {h}, !.hold = 0]
  OBVIOUS
<1>19. task[p] \in ReleaseTasks
  BY <1>1, TaskIs DEF RvInv
<1>20. y \in ReleaseTasks /\ y.queue \subseteq 1 .. Len(holds)
  <2>1. PICK e \in SUBSET Nat, n \in Nat : e = task[p].queue \ {h} /\ n = 0
    BY <1>19 DEF ReleaseTasks
  <2>2. y = [task[p] EXCEPT !.queue = e, !.hold = n]
    BY <1>18, <2>1
  <2>3. y \in ReleaseTasks
    BY <1>19, <2>2 DEF ReleaseTasks
  <2>4. y.queue = e
    BY <1>19, <2>2 DEF ReleaseTasks
  <2> QED BY <1>5, <2>1, <2>3, <2>4
<1>21. task' = [task EXCEPT ![p] = y]
  BY <1>3, <1>18 DEF CommitRelease, RvInv, RvTables
<1>22. RvTables' /\ OnlyTask(p) /\ task'[p] = y
  BY <1>13, <1>20, <1>21, TaskTo DEF RvInv
<1>23. JobAt(p)'
  <2>1. y.kind \in {"cancel", "sweep", "expire"} /\ y # NoTask
    BY <1>20, NoTaskIs DEF ReleaseTasks
  <2>2. ReleaseAt(p)'
    BY <1>2, <1>13, <1>20, <1>22 DEF ReleaseAt
  <2> QED BY <1>22, <2>1, <2>2 DEF JobAt, Reserving
<1> QED BY <1>2, <1>15, <1>16, <1>17, <1>22, <1>23, RvFrame

(* More movements at the end of a script do not touch what is written. *)
LEMMA AddingPrefix ==
  ASSUME NEW m \in Seq(Movement), NEW w \in Seq(Movement), NEW r
  PROVE  Adding(m \o w, OnRowTo(m \o w, r, Len(m))) = Adding(m, OnRowTo(m, r, Len(m)))
<1>1. PICK v : v = m \o w
  OBVIOUS
<1>2. PICK n \in Nat : n = Len(m)
  OBVIOUS
<1>3. \A i \in 1 .. n : v[i] = m[i]
  BY <1>1, <1>2
<1>4. PICK X \in SUBSET (1 .. n) : X = OnRowTo(m, r, n)
  <2>1. OnRowTo(m, r, n) \in SUBSET (1 .. n)
    BY DEF OnRowTo
  <2> QED BY <2>1
<1>5. OnRowTo(v, r, n) = X
  BY <1>3, <1>4 DEF OnRowTo
<1>6. [i \in X |-> v[i].deltas["reserved"]] = [i \in X |-> m[i].deltas["reserved"]]
  BY <1>3
<1>7. Adding(v, X) = Adding(m, X)
  BY <1>6, Zenon DEF Adding
<1> QED BY <1>1, <1>2, <1>4, <1>5, <1>7

(* A line is planned: its RESERVEs follow those of the lines before it. *)
LEMMA PlanLineInv ==
  ASSUME RvInv, NEW p \in Workers, PlanLine(p)
  PROVE  RvInv'
<1>1. /\ Reserving(p) /\ LinesLeft(p) /\ pc[p] \in {"idle", "commit"}
      /\ EngineInv /\ TypeOK /\ TxAt(p) /\ ReserveAt(p) /\ RvTables
      /\ holds' = holds /\ snapshot' = snapshot
  BY DEF PlanLine, Reserving, RvInv, EngineInv, JobAt
<1>2. task[p] \in ReserveTasks /\ task[p].order \in Orders /\ task[p].line \in Nat \ {0}
  BY <1>1, TaskIs
<1>3. PICK o \in Orders, n \in Nat \ {0} : o = task[p].order /\ n = task[p].line
  BY <1>2
<1>4. n \in 1 .. Len(Lines[o]) /\ Len(Lines[o]) \in Nat
  BY <1>1, <1>3, OrderLines DEF LinesLeft
<1>5. PICK line \in Line : line = Lines[o][n] /\ line = LineOf(p)
  <2>1. Lines[o][n] \in Line
    BY <1>4, LinesStep
  <2> QED BY <1>3, <2>1 DEF LineOf
<1>6. PICK plan \in Plans(p, line) :
        /\ Short(plan, line) => o \in AllowBackorder
        /\ script' = [script EXCEPT ![p] = script[p] \o Holding(plan, line)]
        /\ pc' = [pc EXCEPT ![p] = IF plan = << >> THEN "commit" ELSE "lock"]
  BY <1>3, <1>5 DEF PlanLine
<1>7. PICK w : w = Holding(plan, line)
  OBVIOUS
<1>8. IsPlan(plan, line)
  BY <1>1, PlansAre
<1>9. /\ w \in Seq(Movement) /\ AllReserve(w)
      /\ plan = << >> <=> Len(w) = 0
      /\ \A s : Adding(w, OfSku(w, s)) = IF s = line.sku THEN Planned(plan) ELSE 0
  BY <1>7, <1>8, HoldingIs
<1>10. PICK m \in Seq(Movement) : m = script[p]
  BY <1>1 DEF TypeOK
<1>11. PICK v \in Seq(Movement) : v = m \o w
  <2>1. m \o w \in Seq(Movement)
    BY <1>9
  <2> QED BY <2>1
<1>12. script' = [script EXCEPT ![p] = v] /\ script'[p] = v
  BY <1>1, <1>6, <1>7, <1>10, <1>11 DEF TypeOK
<1>13. /\ Len(m) \in Nat /\ Len(w) \in Nat /\ Len(v) = Len(m) + Len(w)
       /\ \A i \in 1 .. Len(m) : v[i] = m[i]
       /\ \A i \in 1 .. Len(w) : v[Len(m) + i] = w[i]
  BY <1>9, <1>10, <1>11
<1>14. /\ step' = step /\ pending' = pending /\ lock' = lock /\ work' = work
       /\ safetyStock' = safetyStock /\ ledger' = ledger /\ outbox' = outbox
  BY DEF PlanLine
<1>15. step[p] = Len(m) + 1
  BY <1>1, <1>10 DEF TxAt
<1>16. /\ pc'[p] \in {"lock", "commit"} /\ (pc'[p] = "commit" <=> Len(w) = 0) /\ InTx(p)'
  <2>1. pc'[p] = IF plan = << >> THEN "commit" ELSE "lock"
    BY <1>1, <1>6 DEF TypeOK
  <2> QED BY <1>9, <2>1 DEF InTx
<1>17. OnlyWorker(p)
  BY <1>1, <1>6, <1>12, <1>14 DEF OnlyWorker, TypeOK
<1>18. EngineInv'
  <2>1. TypeOK'
    BY <1>1, <1>6, <1>12, <1>14 DEF TypeOK
  <2>2. AtInv'
    <3>1. pc'[p] = "lock" => step'[p] \in 1 .. Len(script'[p])
      BY <1>12, <1>13, <1>14, <1>15, <1>16
    <3>2. \A q \in Workers \ {p} : pc'[q] = pc[q] /\ script'[q] = script[q] /\ step'[q] = step[q]
      BY <1>17 DEF OnlyWorker
    <3> QED BY <1>1, <1>14, <1>16, <3>1, <3>2 DEF EngineInv, AtInv, Current
  <2>3. HeldInv'
    BY <1>1, <1>14 DEF EngineInv, HeldInv
  <2> QED BY <2>1, <2>2, <2>3 DEF EngineInv
<1>19. TxAt(p)'
  <2>1. \A r \in Rows : pending'[p][r]["reserved"] = Written(p, r)'
    <3> SUFFICES ASSUME NEW r \in Rows PROVE pending'[p][r]["reserved"] = Written(p, r)'
      OBVIOUS
    <3>1. pending[p][r]["reserved"] = Adding(m, OnRowTo(m, r, Len(m)))
      <4>1. CASE pc[p] = "commit"
        <5>1. step[p] - 1 = Len(m)
          BY <1>13, <1>15
        <5> QED BY <1>1, <1>10, <4>1, <5>1 DEF TxAt, InTx, Written
      <4>2. CASE pc[p] = "idle"
        <5>1. m = << >> /\ pending[p] = ClearRows
          BY <1>1, <1>10, <4>2 DEF TxAt, InTx
        <5>2. Len(m) \in Int /\ Len(m) <= 0
          BY <5>1
        <5> QED BY <5>1, <5>2, NothingWritten, ClearIs
      <4> QED BY <1>1, <4>1, <4>2
    <3>2. Adding(v, OnRowTo(v, r, Len(m))) = Adding(m, OnRowTo(m, r, Len(m)))
      BY <1>9, <1>11, AddingPrefix
    <3>3. step'[p] - 1 = Len(m)
      BY <1>13, <1>14, <1>15
    <3> QED BY <1>12, <1>14, <3>1, <3>2, <3>3 DEF Written
  <2>2. pc'[p] = "commit" => step'[p] = Len(script'[p]) + 1
    BY <1>12, <1>13, <1>14, <1>15, <1>16
  <2> QED BY <1>16, <2>1, <2>2 DEF TxAt
<1>20. PICK x : x = [task[p] EXCEPT !.line = n + 1]
  OBVIOUS
<1>21. x \in ReserveTasks /\ x.line = n + 1 /\ x.order = o
  BY <1>2, <1>3, <1>20 DEF ReserveTasks
<1>22. task' = [task EXCEPT ![p] = x]
  BY <1>1, <1>3, <1>20 DEF PlanLine, RvTables
<1>23. RvTables' /\ OnlyTask(p) /\ task'[p] = x
  BY <1>1, <1>21, <1>22, TaskTo DEF RvTables
<1>24. AllReserve(v)
  <2>1. AllReserve(m)
    <3>1. CASE pc[p] = "commit"
      BY <1>1, <1>10, <3>1 DEF ReserveAt, InTx
    <3>2. CASE pc[p] = "idle"
      BY <1>1, <1>10, <3>2 DEF TxAt, AllReserve
    <3> QED BY <1>1, <3>1, <3>2
  <2> SUFFICES ASSUME NEW i \in 1 .. Len(v) PROVE IsReserve(v[i])
    BY DEF AllReserve
  <2>2. CASE i \in 1 .. Len(m)
    BY <1>13, <2>1, <2>2 DEF AllReserve
  <2>3. CASE i \notin 1 .. Len(m)
    <3>1. PICK j \in 1 .. Len(w) : i = Len(m) + j
      <4>1. i - Len(m) \in 1 .. Len(w) /\ i = Len(m) + (i - Len(m))
        BY <1>13, <2>3
      <4> QED BY <4>1
    <3> QED BY <1>9, <1>13, <3>1 DEF AllReserve
  <2> QED BY <2>2, <2>3
<1>25. ASSUME o \notin AllowBackorder, NEW s \in Skus
       PROVE  Adding(v, OfSku(v, s)) = LinesQty(o, s, n)
  <2>1. Adding(m, OfSku(m, s)) = LinesQty(o, s, n - 1)
    <3>1. CASE pc[p] = "commit"
      BY <1>1, <1>3, <1>10, <1>25, <3>1 DEF ReserveAt, InTx, AsksAll, Asked
    <3>2. CASE pc[p] = "idle"
      <4>1. n = 1 /\ n - 1 = 0
        BY <1>1, <1>3, <3>2 DEF ReserveAt, InTx
      <4>2. OfSku(m, s) = {}
        BY <1>1, <1>10, <3>2 DEF TxAt, OfSku
      <4>3. Adding(m, {}) = 0
        BY SumEmpty DEF Adding
      <4>4. LinesQty(o, s, 0) = 0
        BY LinesStep
      <4> QED BY <4>1, <4>2, <4>3, <4>4
    <3> QED BY <1>1, <3>1, <3>2
  <2>2. Planned(plan) = line.qty
    <3>1. line.qty \in Nat /\ Planned(plan) \in Nat /\ Planned(plan) <= line.qty
      BY <1>8 DEF IsPlan, Line
    <3> QED BY <1>6, <1>25, <3>1 DEF Short
  <2>3. LinesQty(o, s, n) = LinesQty(o, s, n - 1) + (IF line.sku = s THEN line.qty ELSE 0)
    <3>1. \A i \in 1 .. Len(Lines[o]) : LinesQty(o, s, i) = LinesQty(o, s, i - 1)
            + (IF Lines[o][i].sku = s THEN Lines[o][i].qty ELSE 0)
      BY LinesStep
    <3> QED BY <1>4, <1>5, <3>1
  <2>4. Adding(v, OfSku(v, s)) = Adding(m, OfSku(m, s)) + Adding(w, OfSku(w, s))
    BY <1>9, <1>11, AddingAppend
  <2> QED BY <1>9, <2>1, <2>2, <2>3, <2>4
<1>26. ReserveAt(p)'
  <2>1. AsksAll(p)'
    <3>1. x.line - 1 = n
      BY <1>21
    <3> QED BY <1>12, <1>21, <1>23, <1>25, <3>1 DEF AsksAll, Asked
  <2>2. x.line <= Len(Lines[x.order]) + 1
    BY <1>4, <1>21
  <2> QED BY <1>12, <1>16, <1>23, <1>24, <2>1, <2>2 DEF ReserveAt
<1>27. JobAt(p)'
  <2>1. x.kind = "reserve" /\ x # NoTask
    BY <1>21, NoTaskIs DEF ReserveTasks
  <2> QED BY <1>23, <1>26, <2>1 DEF JobAt, Releasing
<1> QED BY <1>1, <1>17, <1>18, <1>19, <1>23, <1>27, RvQuiet, RvFrame

(* A reserve commits: its holds are in the table when its units are on the  *)
(* rows, and they are those of the whole order.                             *)
LEMMA CommitReserveInv ==
  ASSUME RvInv, NEW p \in Workers, CommitReserve(p)
  PROVE  RvInv'
<1>1. /\ Reserving(p) /\ ~ LinesLeft(p) /\ Commit(p)
      /\ EngineInv /\ TypeOK /\ TxAt(p) /\ ReserveAt(p) /\ RvTables /\ holds \in Seq(Hold)
  BY DEF CommitReserve, Reserving, RvInv, EngineInv, JobAt, RvTables
<1>2. /\ EngineInv' /\ OnlyWorker(p) /\ TxAt(p)' /\ InTx(p) /\ ~ InTx(p)'
      /\ \A r \in Rows :
           /\ snapshot[r]["reserved"] \in Int
           /\ snapshot'[r]["reserved"] = snapshot[r]["reserved"]
                + Adding(script[p], OnRowTo(script[p], r, Len(script[p])))
  BY <1>1, CommitTx
<1>3. task[p] \in ReserveTasks /\ task[p].order \in Orders /\ task[p].line \in Nat \ {0}
  BY <1>1, TaskIs
<1>4. PICK o \in Orders, n \in Nat \ {0} : o = task[p].order /\ n = task[p].line
  BY <1>3
<1>5. PICK m \in Seq(Movement) : m = script[p]
  BY <1>1 DEF TypeOK
<1>6. AllReserve(m) /\ n - 1 = Len(Lines[o])
  <2>1. AllReserve(m) /\ n <= Len(Lines[o]) + 1
    BY <1>1, <1>2, <1>4, <1>5 DEF ReserveAt
  <2>2. Len(Lines[o]) \in Nat /\ ~ (n <= Len(Lines[o]))
    BY <1>1, <1>4, OrderLines DEF LinesLeft
  <2> QED BY <2>1, <2>2
<1>7. PICK u : u = NewHolds(m, o)
  OBVIOUS
<1>8. /\ u \in Seq(Hold) /\ Len(u) = Len(m)
      /\ \A r : Held(u, OnRow(u, r)) = Adding(m, OnRowTo(m, r, Len(m)))
      /\ \A s : Held(u, ForOrder(u, o, s)) = Adding(m, OfSku(m, s))
      /\ \A x, s : x # o => Held(u, ForOrder(u, x, s)) = 0
  BY <1>6, <1>7, NewHoldsIs
<1>9. holds' = holds \o u
  BY <1>4, <1>5, <1>7 DEF CommitReserve, NewHolds
<1>10. PICK t \in Seq(Hold) : t = holds
  BY <1>1
<1>11. PICK v : v = t \o u
  OBVIOUS
<1>12. /\ v \in Seq(Hold)
       /\ \A r : Held(v, OnRow(v, r)) = Held(t, OnRow(t, r)) + Held(u, OnRow(u, r))
       /\ \A x, s : Held(v, ForOrder(v, x, s))
                      = Held(t, ForOrder(t, x, s)) + Held(u, ForOrder(u, x, s))
  BY <1>8, <1>11, TableAppend
<1>13. /\ Len(t) \in Nat /\ Len(u) \in Nat /\ Len(v) = Len(t) + Len(u)
       /\ \A i \in 1 .. Len(t) : v[i] = t[i]
  <2>1. u \in Seq(Hold)
    BY <1>8
  <2>2. Len(t) \in Nat /\ Len(u) \in Nat
    BY <2>1
  <2>3. Len(v) = Len(t) + Len(u)
    BY <2>1, <1>11
  <2>4. \A i \in 1 .. Len(t) : v[i] = t[i]
    BY <2>1, <1>11
  <2> QED BY <2>2, <2>3, <2>4
<1>14. holds' = v
  BY <1>9, <1>10, <1>11
<1>15. ASSUME NEW X, NEW Y, X \subseteq 1 .. Len(t), Y \subseteq 1 .. Len(u)
       PROVE  Held(t, X) \in Nat /\ Held(u, Y) \in Nat
  BY <1>8, <1>15, HeldType
<1>16. Backed'
  <2> SUFFICES ASSUME NEW r \in Rows
               PROVE  snapshot'[r]["reserved"] <= Held(v, OnRow(v, r))
    BY <1>14 DEF Backed
  <2>1. Held(t, OnRow(t, r)) \in Nat /\ Held(u, OnRow(u, r)) \in Nat
    BY <1>15 DEF OnRow
  <2>2. snapshot[r]["reserved"] \in Int /\ snapshot[r]["reserved"] <= Held(t, OnRow(t, r))
    BY <1>2, <1>10 DEF RvInv, Backed
  <2>3. snapshot'[r]["reserved"] = snapshot[r]["reserved"] + Held(u, OnRow(u, r))
    BY <1>2, <1>5, <1>8
  <2>4. PICK a \in Nat, b \in Nat, d \in Int :
          a = Held(t, OnRow(t, r)) /\ b = Held(u, OnRow(u, r)) /\ d = snapshot[r]["reserved"]
    BY <2>1, <2>2
  <2>5. d + b <= a + b
    BY <2>2, <2>4
  <2> QED BY <1>12, <2>3, <2>4, <2>5
<1>17. Whole'
  <2> SUFFICES ASSUME NEW x \in Orders \ AllowBackorder
               PROVE  \E k \in 0 .. Len(v) : WholeOrder(v, x, k)
    BY <1>14 DEF Whole
  <2>1. PICK k \in 0 .. Len(t) : WholeOrder(t, x, k)
    BY <1>10 DEF RvInv, Whole
  <2>2. \A s \in Skus : LinesQty(x, s, Len(Lines[x])) \in Nat
    BY LinesTotal
  <2>3. CASE x # o
    <3>1. \A s \in Skus : Held(v, ForOrder(v, x, s)) = k * LinesQty(x, s, Len(Lines[x]))
      <4> SUFFICES ASSUME NEW s \in Skus
                   PROVE  Held(v, ForOrder(v, x, s)) = k * LinesQty(x, s, Len(Lines[x]))
        OBVIOUS
      <4>1. Held(u, ForOrder(u, x, s)) = 0
        BY <1>8, <2>3
      <4>2. PICK a \in Nat : a = Held(t, ForOrder(t, x, s))
        <5>1. {} \subseteq 1 .. Len(u) /\ ForOrder(t, x, s) \subseteq 1 .. Len(t)
          BY DEF ForOrder
        <5> QED BY <1>15, <5>1
      <4>3. Held(v, ForOrder(v, x, s)) = a
        BY <1>12, <4>1, <4>2
      <4> QED BY <2>1, <4>2, <4>3 DEF WholeOrder
    <3>2. k \in 0 .. Len(v)
      BY <1>13
    <3> QED BY <3>1, <3>2 DEF WholeOrder
  <2>4. CASE x = o
    <3>1. \A s \in Skus : Held(u, ForOrder(u, x, s)) = LinesQty(x, s, Len(Lines[x]))
      <4> SUFFICES ASSUME NEW s \in Skus
                   PROVE  Held(u, ForOrder(u, x, s)) = LinesQty(x, s, Len(Lines[x]))
        OBVIOUS
      <4>1. Adding(m, OfSku(m, s)) = LinesQty(o, s, n - 1)
        BY <1>1, <1>2, <1>4, <1>5, <2>4 DEF ReserveAt, AsksAll, Asked
      <4> QED BY <1>6, <1>8, <2>4, <4>1
    <3>2. \A s \in Skus : Held(v, ForOrder(v, x, s))
            = k * LinesQty(x, s, Len(Lines[x])) + LinesQty(x, s, Len(Lines[x]))
      BY <1>12, <2>1, <3>1 DEF WholeOrder
    <3>3. CASE Len(u) > 0
      <4>1. \A s \in Skus : Held(v, ForOrder(v, x, s)) = (k + 1) * LinesQty(x, s, Len(Lines[x]))
        <5> SUFFICES ASSUME NEW s \in Skus
                     PROVE  Held(v, ForOrder(v, x, s)) = (k + 1) * LinesQty(x, s, Len(Lines[x]))
          OBVIOUS
        <5>1. PICK l \in Nat : l = LinesQty(x, s, Len(Lines[x]))
          BY <2>2
        <5>2. k \in Nat /\ k * l + l = (k + 1) * l
          OBVIOUS
        <5> QED BY <3>2, <5>1, <5>2
      <4>2. k + 1 \in 0 .. Len(v)
        BY <1>13, <3>3
      <4> QED BY <4>1, <4>2 DEF WholeOrder
    <3>4. CASE Len(u) = 0
      <4>1. \A s \in Skus : Held(v, ForOrder(v, x, s)) = k * LinesQty(x, s, Len(Lines[x]))
        <5> SUFFICES ASSUME NEW s \in Skus
                     PROVE  Held(v, ForOrder(v, x, s)) = k * LinesQty(x, s, Len(Lines[x]))
          OBVIOUS
        <5>1. PICK l \in Nat : l = LinesQty(x, s, Len(Lines[x]))
          BY <2>2
        <5>2. ForOrder(u, x, s) = {}
          BY <3>4 DEF ForOrder
        <5>3. Held(u, {}) = 0
          BY SumEmpty DEF Held
        <5>4. l = 0
          BY <3>1, <5>1, <5>2, <5>3
        <5>5. k * l + l = k * l
          BY <5>4
        <5> QED BY <3>2, <5>1, <5>5
      <4>2. k \in 0 .. Len(v)
        BY <1>13
      <4> QED BY <4>1, <4>2 DEF WholeOrder
    <3> QED BY <1>13, <3>3, <3>4
  <2> QED BY <2>3, <2>4
<1>18. HoldsKept
  <2>1. Len(v) \in Nat /\ Len(v) >= Len(t)
    BY <1>13
  <2> QED BY <1>10, <1>13, <1>14, <2>1 DEF HoldsKept
<1>19. PICK ids \in SUBSET Nat : ids = Len(holds) + 1 .. Len(holds) + Len(script[p])
  <2>1. Len(holds) + 1 .. Len(holds) + Len(script[p]) \in SUBSET Nat
    BY <1>5, <1>8, <1>10, <1>13
  <2> QED BY <2>1
<1>20. PICK x : x = [task[p] EXCEPT !.created = ids]
  OBVIOUS
<1>21. x \in ReserveTasks /\ x.line = n /\ x.order = o
  BY <1>3, <1>4, <1>20 DEF ReserveTasks
<1>22. task' = [task EXCEPT ![p] = x]
  BY <1>1, <1>19, <1>20 DEF CommitReserve, RvTables
<1>23. RvTables' /\ OnlyTask(p) /\ task'[p] = x
  BY <1>1, <1>12, <1>14, <1>21, <1>22, TaskTo
<1>24. JobAt(p)'
  <2>1. x.kind = "reserve" /\ x # NoTask
    BY <1>21, NoTaskIs DEF ReserveTasks
  <2>2. ~ LinesLeft(p)'
    BY <1>1, <1>4, <1>21, <1>23 DEF LinesLeft
  <2> QED BY <1>2, <1>23, <2>1, <2>2 DEF JobAt, Releasing, ReserveAt
<1> QED BY <1>2, <1>16, <1>17, <1>18, <1>23, <1>24, RvFrame

-----------------------------------------------------------------------------
(* An empty database has no hold and no reserved unit. *)
LEMMA RvInitInv == RvInit => RvInv
<1> SUFFICES ASSUME RvInit PROVE RvInv
  OBVIOUS
<1>0. PICK rows : rows = [r \in Rows |-> [ZeroBuckets EXCEPT !["onHand"] = InitialStock[r]]]
  OBVIOUS
<1>1. rows \in [Rows -> Buckets] /\ \A r \in Rows : rows[r]["reserved"] = 0
  <2>1. \A r \in Rows : InitialStock[r] \in Int
    BY ReservationsAssumption, MaxIntAssumption
  <2>2. \A i \in Int : /\ [ZeroBuckets EXCEPT !["onHand"] = i] \in Buckets
                       /\ [ZeroBuckets EXCEPT !["onHand"] = i]["reserved"] = 0
    BY DEF ZeroBuckets, Buckets, Bucket
  <2> QED BY <1>0, <2>1, <2>2
<1>2. InitWith(rows)
  BY <1>0 DEF RvInit
<1>3. EngineInv
  <2>1. TypeOK
    <3>1. /\ ClearRows \in [Rows -> Buckets] /\ << >> \in Seq(Movement) /\ 1 \in Nat \ {0}
          /\ 0 \in Nat
      BY ZeroType DEF ClearRows
    <3> QED BY <1>1, <1>2, <3>1 DEF InitWith, TypeOK
  <2>2. AtInv /\ HeldInv
    BY <1>2, NoWorkerAssumption DEF InitWith, AtInv, HeldInv, ClearRows
  <2> QED BY <2>1, <2>2 DEF EngineInv
<1>4. /\ holds = << >> /\ task = [p \in Workers |-> NoTask] /\ holds \in Seq(Hold)
      /\ Len(holds) = 0
  BY DEF RvInit
<1>5. RvTables
  BY <1>4 DEF RvTables
<1>6. ASSUME NEW p \in Workers PROVE TxAt(p) /\ JobAt(p)
  <2>1. pc[p] = "idle" /\ script[p] = << >> /\ step[p] = 1 /\ pending[p] = ClearRows
        /\ task[p] = NoTask
    BY <1>2, <1>4 DEF InitWith
  <2> QED BY <2>1, NoTaskIs DEF TxAt, InTx, JobAt, Reserving, Releasing
<1>7. Backed
  <2>1. \A r \in Rows : OnRow(holds, r) = {} /\ snapshot[r]["reserved"] = 0
    BY <1>1, <1>2, <1>4 DEF OnRow, InitWith
  <2>2. Held(holds, {}) = 0
    BY SumEmpty DEF Held
  <2> QED BY <2>1, <2>2 DEF Backed
<1>8. Whole
  <2> SUFFICES ASSUME NEW o \in Orders PROVE \E k \in 0 .. Len(holds) : WholeOrder(holds, o, k)
    BY DEF Whole
  <2>1. Held(holds, {}) = 0
    BY SumEmpty DEF Held
  <2>2. \A s \in Skus : ForOrder(holds, o, s) = {} /\ LinesQty(o, s, Len(Lines[o])) \in Nat
    <3>1. \A s \in Skus : ForOrder(holds, o, s) = {}
      BY <1>4 DEF ForOrder
    <3> QED BY <3>1, LinesTotal
  <2>3. \A l \in Nat : 0 * l = 0
    OBVIOUS
  <2>4. WholeOrder(holds, o, 0)
    BY <2>1, <2>2, <2>3 DEF WholeOrder
  <2> QED BY <1>4, <2>4
<1> QED BY <1>3, <1>5, <1>6, <1>7, <1>8 DEF RvInv

(* Every step keeps the invariant. *)
LEMMA RvNextInv == RvInv /\ [RvNext]_allVars => RvInv'
<1> SUFFICES ASSUME RvInv, [RvNext]_allVars PROVE RvInv'
  OBVIOUS
<1>1. CASE UNCHANGED allVars
  <2>1. UNCHANGED <<vars, holds, task>>
    BY <1>1 DEF allVars, rvVars
  <2>2. EngineInv'
    BY <2>1 DEF RvInv, EngineInv, TypeOK, AtInv, HeldInv, Current, vars
  <2>3. RvTables' /\ Backed' /\ Whole'
    BY <2>1 DEF RvInv, RvTables, Backed, Whole, vars
  <2>4. \A p \in Workers : TxAt(p)' /\ JobAt(p)'
    BY <2>1 DEF RvInv, TxAt, JobAt, InTx, Written, Reserving, Releasing, ReserveAt,
                ReleaseAt, AsksAll, Asked, LinesLeft, vars
  <2> QED BY <2>2, <2>3, <2>4 DEF RvInv
<1>2. CASE RvNext
  <2>1. ASSUME NEW p \in Workers, NEW o \in Orders, StartReserve(p, o) \/ StartCancel(p, o)
        PROVE  RvInv'
    BY <2>1, StartReserveInv, StartReleaseInv
  <2>2. ASSUME NEW p \in Workers,
               \/ PlanLine(p) \/ RefuseReserve(p) \/ RetryReserve(p)
               \/ CommitReserve(p) \/ ScheduleExpiry(p) \/ StartSweep(p)
        PROVE  RvInv'
    BY <2>2, PlanLineInv, GiveUpInv, RetryReserveInv, CommitReserveInv, EndTaskStepInv,
       StartReleaseInv
  <2>3. ASSUME NEW p \in Workers, NEW h \in Ids,
               StartExpireOne(p, h) \/ ReadActiveHold(p, h) \/ SkipHold(p, h)
        PROVE  RvInv'
    BY <2>3, StartReleaseInv, ReadActiveHoldInv, SkipHoldInv
  <2>4. ASSUME NEW p \in Workers,
               \/ CommitRelease(p) \/ EndRelease(p) \/ FailRelease(p)
               \/ EngineStep(p) \/ CrashWorker(p)
        PROVE  RvInv'
    BY <2>4, CommitReleaseInv, EndTaskStepInv, GiveUpInv, EngineStepKeeps
  <2>5. ASSUME NEW h \in Ids, TtlPasses(h) PROVE RvInv'
    BY <2>5, TtlPassesInv
  <2> QED BY <1>2, <2>1, <2>2, <2>3, <2>4, <2>5 DEF RvNext
<1> QED BY <1>1, <1>2

(* The reservation service's invariant, whatever its workers race for. *)
THEOREM ReservationsInvariance == RvSpec => []RvInv
<1> QED BY RvInitInv, RvNextInv, PTL DEF RvSpec

(* No reserved unit is stranded: every one belongs to an ACTIVE hold that a *)
(* release can still find, whatever crashed between reserve, schedule and   *)
(* release.                                                                 *)
THEOREM UnitsNeverStranded == RvSpec => []NoStrandedUnits
<1>1. RvInv => NoStrandedUnits
  BY TableReads
<1> QED BY <1>1, ReservationsInvariance, PTL

(* reserveForOrder is all or nothing for an order that refuses backorder.   *)
THEOREM ReservesWholeOrders == RvSpec => []ReserveAllOrNothing
<1>1. RvInv => ReserveAllOrNothing
  BY TableReads
<1> QED BY <1>1, ReservationsInvariance, PTL

(* The jobs that are queued, and those a reserve has still to queue, are of *)
(* holds in the table.                                                      *)
JobsFound ==
  /\ jobs \subseteq Ids
  /\ \A p \in Workers : Reserving(p) => task[p].created \subseteq Ids

(* No step takes a hold out of the table. *)
LEMMA IdsStay ==
  ASSUME RvInv, [RvNext]_allVars
  PROVE  Ids \subseteq Ids'
<1>1. holds \in Seq(Hold) /\ Len(holds) \in Nat
  BY DEF RvInv, RvTables
<1>2. CASE holds' = holds
  BY <1>2 DEF Ids
<1>3. ASSUME NEW p \in Workers, CommitReserve(p) PROVE Ids \subseteq Ids'
  <2>1. PICK m \in Seq(Movement) : m = script[p]
    BY DEF RvInv, EngineInv, TypeOK
  <2>2. PICK f : f = NewHolds(m, task[p].order)
    OBVIOUS
  <2>3. holds' = holds \o f /\ Len(f) \in Nat /\ Len(m) \in Nat
    BY <1>3, <2>1, <2>2 DEF CommitReserve, NewHolds
  <2>4. Len(holds') = Len(holds) + Len(f)
    <3>1. Len(f) = Len(m)
      BY <2>2 DEF NewHolds
    <3> QED BY <1>1, <2>2, <2>3, <3>1 DEF NewHolds
  <2> QED BY <1>1, <2>3, <2>4 DEF Ids
<1>4. ASSUME NEW h, NEW f, holds' = [holds EXCEPT ![h] = f] PROVE Ids \subseteq Ids'
  BY <1>1, <1>4 DEF Ids
<1>5. CASE UNCHANGED allVars
  BY <1>2, <1>5 DEF allVars, rvVars
<1>6. CASE RvNext
  <2>1. ASSUME NEW p \in Workers, NEW o \in Orders, StartReserve(p, o) \/ StartCancel(p, o)
        PROVE  holds' = holds
    BY <2>1 DEF StartReserve, StartCancel
  <2>2. ASSUME NEW p \in Workers,
               \/ PlanLine(p) \/ RefuseReserve(p) \/ RetryReserve(p)
               \/ ScheduleExpiry(p) \/ StartSweep(p)
               \/ EndRelease(p) \/ FailRelease(p) \/ EngineStep(p) \/ CrashWorker(p)
        PROVE  holds' = holds
    BY <2>2 DEF PlanLine, RefuseReserve, RetryReserve, ScheduleExpiry, StartSweep,
       EndRelease, FailRelease, EngineStep, CrashWorker, rvVars
  <2>3. ASSUME NEW p \in Workers, NEW h \in Ids,
               StartExpireOne(p, h) \/ ReadActiveHold(p, h) \/ SkipHold(p, h)
        PROVE  holds' = holds
    BY <2>3 DEF StartExpireOne, ReadActiveHold, SkipHold
  <2>4. ASSUME NEW p \in Workers, CommitRelease(p) PROVE Ids \subseteq Ids'
    BY <1>4, <2>4 DEF CommitRelease
  <2>5. ASSUME NEW h \in Ids, TtlPasses(h) PROVE Ids \subseteq Ids'
    BY <1>4, <2>5 DEF TtlPasses
  <2> QED BY <1>2, <1>3, <1>6, <2>1, <2>2, <2>3, <2>4, <2>5 DEF RvNext
<1> QED BY <1>5, <1>6

(* A task either schedules nothing, or what it had to, or what it has just  *)
(* inserted; a failed job is queued again for the hold it was of.           *)
LEMMA JobsStep ==
  ASSUME RvInv, RvInv', JobsFound, [RvNext]_allVars
  PROVE  JobsFound'
<1>1. Ids \subseteq Ids' /\ jobs \subseteq Ids
      /\ \A q \in Workers : Reserving(q) => task[q].created \subseteq Ids
  BY IdsStay DEF JobsFound
<1>2. task \in [Workers -> {NoTask} \cup ReserveTasks \cup ReleaseTasks]
  BY DEF RvInv, RvTables
<1>3. ASSUME jobs' \subseteq Ids, NEW p \in Workers, NEW t, task' = [task EXCEPT ![p] = t],
             t.kind = "reserve" => t.created \subseteq Ids'
      PROVE  JobsFound'
  <2>1. ASSUME NEW q \in Workers, Reserving(q)' PROVE task'[q].created \subseteq Ids'
    <3>1. CASE q = p
      BY <1>2, <1>3, <2>1, <3>1 DEF Reserving
    <3>2. CASE q # p
      BY <1>1, <1>2, <1>3, <2>1, <3>2 DEF Reserving
    <3> QED BY <3>1, <3>2
  <2> QED BY <1>1, <1>3, <2>1 DEF JobsFound
<1>4. CASE UNCHANGED <<task, jobs>>
  BY <1>1, <1>4 DEF JobsFound, Reserving
<1>5. ASSUME NEW q \in Workers, Releasing(q) PROVE task[q].queue \subseteq Ids
  BY <1>5 DEF RvInv, JobAt, ReleaseAt, Ids
<1>6. ASSUME NEW q \in Workers, JobAfterFailure(q) PROVE jobs' \subseteq Ids
  BY <1>1, <1>5, <1>6 DEF JobAfterFailure, Releasing
<1>7. NoTask.kind # "reserve"
  BY DEF NoTask
<1>8. ASSUME NEW q \in Workers, task' = [task EXCEPT ![q] = NoTask], jobs' \subseteq Ids
      PROVE  JobsFound'
  BY <1>3, <1>7, <1>8
<1>9. ASSUME NEW q \in Workers, Releasing(q), NEW t, task' = [task EXCEPT ![q] = t],
             t.kind = task[q].kind, jobs' = jobs
      PROVE  JobsFound'
  BY <1>1, <1>3, <1>9 DEF Releasing
<1>10. CASE UNCHANGED allVars
  BY <1>4, <1>10 DEF allVars, rvVars
<1>11. CASE RvNext
  <2>1. ASSUME NEW p \in Workers, NEW o \in Orders, StartReserve(p, o) PROVE JobsFound'
    <3>1. PICK t : t = ReserveTask(o)
      OBVIOUS
    <3>2. t.created = {} /\ task' = [task EXCEPT ![p] = t] /\ jobs' = jobs
      BY <2>1, <3>1 DEF StartReserve, ReserveTask
    <3> QED BY <1>1, <1>3, <3>2
  <2>2. ASSUME NEW p \in Workers, NEW k \in {"cancel", "sweep", "expire"}, NEW ids,
               task' = [task EXCEPT ![p] = ReleaseTask(k, ids)], jobs' \subseteq jobs
        PROVE  JobsFound'
    <3>1. PICK t : t = ReleaseTask(k, ids)
      OBVIOUS
    <3>2. t.kind # "reserve"
      BY <3>1 DEF ReleaseTask
    <3> QED BY <1>1, <1>3, <2>2, <3>1, <3>2
  <2>3. ASSUME NEW p \in Workers, NEW o \in Orders, StartCancel(p, o) PROVE JobsFound'
    BY <2>2, <2>3 DEF StartCancel
  <2>4. ASSUME NEW p \in Workers, StartSweep(p) PROVE JobsFound'
    BY <2>2, <2>4 DEF StartSweep
  <2>5. ASSUME NEW p \in Workers, NEW h \in Ids, StartExpireOne(p, h) PROVE JobsFound'
    BY <2>2, <2>5 DEF StartExpireOne
  <2>6. ASSUME NEW p \in Workers, PlanLine(p) PROVE JobsFound'
    <3>1. PICK t : t = [task[p] EXCEPT !.line = @ + 1]
      OBVIOUS
    <3>2. task[p] \in ReserveTasks /\ Reserving(p)
      BY <2>6, TaskIs DEF PlanLine, Reserving, RvInv
    <3>3. t.created = task[p].created
      BY <3>1, <3>2 DEF ReserveTasks
    <3>4. task' = [task EXCEPT ![p] = t] /\ jobs' = jobs
      BY <1>2, <2>6, <3>1 DEF PlanLine
    <3> QED BY <1>1, <1>3, <3>2, <3>3, <3>4
  <2>7. ASSUME NEW p \in Workers, RefuseReserve(p) \/ EndRelease(p) PROVE JobsFound'
    BY <1>1, <1>8, <2>7 DEF RefuseReserve, EndRelease
  <2>8. ASSUME NEW p \in Workers, RetryReserve(p) PROVE JobsFound'
    <3>1. PICK t : t = [task[p] EXCEPT !.line = 1, !.attempt = task[p].attempt + 1]
      OBVIOUS
    <3>2. task[p] \in ReserveTasks /\ Reserving(p)
      BY <2>8, TaskIs DEF RetryReserve, Reserving, RvInv
    <3>3. t.created = task[p].created
      BY <3>1, <3>2 DEF ReserveTasks
    <3>4. (task' = [task EXCEPT ![p] = t] \/ task' = [task EXCEPT ![p] = NoTask]) /\ jobs' = jobs
      BY <2>8, <3>1 DEF RetryReserve
    <3> QED BY <1>1, <1>3, <1>8, <3>2, <3>3, <3>4
  <2>9. ASSUME NEW p \in Workers, CommitReserve(p) PROVE JobsFound'
    <3>1. PICK n \in Nat, k \in Nat : n = Len(holds) /\ k = Len(script[p])
      BY DEF RvInv, RvTables, EngineInv, TypeOK
    <3>2. PICK t : t = [task[p] EXCEPT !.created = n + 1 .. n + k]
      OBVIOUS
    <3>3. task[p] \in ReserveTasks
      BY <2>9, TaskIs DEF CommitReserve, Reserving, RvInv
    <3>4. t.created = n + 1 .. n + k
      BY <3>2, <3>3 DEF ReserveTasks
    <3>5. task' = [task EXCEPT ![p] = t] /\ jobs' = jobs
      BY <1>2, <2>9, <3>1, <3>2 DEF CommitReserve
    <3>6. n + 1 .. n + k \subseteq Ids'
      <4>1. PICK m \in Seq(Movement) : m = script[p]
        BY DEF RvInv, EngineInv, TypeOK
      <4>2. PICK f : f = NewHolds(m, task[p].order)
        OBVIOUS
      <4>3. holds' = holds \o f
        BY <2>9, <4>1, <4>2 DEF CommitReserve, NewHolds
      <4>4. Len(f) = k
        BY <3>1, <4>1, <4>2 DEF NewHolds
      <4>5. Len(holds') = n + k
        <5>1. holds \in Seq(Hold)
          BY DEF RvInv, RvTables
        <5> QED BY <3>1, <4>1, <4>2, <4>3, <4>4, <5>1 DEF NewHolds
      <4> QED BY <3>1, <4>5 DEF Ids
    <3> QED BY <1>1, <1>3, <3>4, <3>5, <3>6
  <2>10. ASSUME NEW p \in Workers, ScheduleExpiry(p) PROVE JobsFound'
    <3>1. jobs' \subseteq Ids
      BY <1>1, <2>10 DEF ScheduleExpiry, Reserving
    <3> QED BY <1>8, <2>10, <3>1 DEF ScheduleExpiry
  <2>11. ASSUME NEW p \in Workers, NEW h \in Ids, ReadActiveHold(p, h) PROVE JobsFound'
    <3>1. PICK t : t = [task[p] EXCEPT !.hold = h]
      OBVIOUS
    <3>2. task' = [task EXCEPT ![p] = t] /\ jobs' = jobs /\ Releasing(p)
      BY <1>2, <2>11, <3>1 DEF ReadActiveHold
    <3>3. t.kind = task[p].kind
      BY <3>1, <3>2, TaskIs DEF RvInv, ReleaseTasks
    <3> QED BY <1>9, <3>2, <3>3
  <2>12. ASSUME NEW p \in Workers, NEW h \in Ids, SkipHold(p, h) PROVE JobsFound'
    <3>1. PICK t : t = [task[p] EXCEPT !.queue = @ \ {h}]
      OBVIOUS
    <3>2. task' = [task EXCEPT ![p] = t] /\ jobs' = jobs /\ Releasing(p)
      BY <1>2, <2>12, <3>1 DEF SkipHold
    <3>3. t.kind = task[p].kind
      BY <3>1, <3>2, TaskIs DEF RvInv, ReleaseTasks
    <3> QED BY <1>9, <3>2, <3>3
  <2>13. ASSUME NEW p \in Workers, CommitRelease(p) PROVE JobsFound'
    <3>1. PICK t : t = [task[p] EXCEPT !.queue = @ \ {task[p].hold}, !.hold = 0]
      OBVIOUS
    <3>2. task' = [task EXCEPT ![p] = t] /\ jobs' = jobs /\ Releasing(p)
      BY <1>2, <2>13, <3>1 DEF CommitRelease
    <3>3. t.kind = task[p].kind
      BY <3>1, <3>2, TaskIs DEF RvInv, ReleaseTasks
    <3> QED BY <1>9, <3>2, <3>3
  <2>14. ASSUME NEW p \in Workers, FailRelease(p) \/ CrashWorker(p) PROVE JobsFound'
    BY <1>6, <1>8, <2>14 DEF FailRelease, CrashWorker
  <2>15. ASSUME NEW p \in Workers, EngineStep(p) PROVE JobsFound'
    BY <1>4, <2>15 DEF EngineStep, rvVars
  <2>16. ASSUME NEW h \in Ids, TtlPasses(h) PROVE JobsFound'
    BY <1>4, <2>16 DEF TtlPasses
  <2> QED BY <1>11, <2>1, <2>3, <2>4, <2>5, <2>6, <2>7, <2>8, <2>9, <2>10, <2>11, <2>12,
             <2>13, <2>14, <2>15, <2>16 DEF RvNext
<1> QED BY <1>10, <1>11

(* Type correctness of the reservation service: the Reservation table, the  *)
(* queued expire-one jobs and the ids a release works through agree.        *)
THEOREM ReservationsTyped == RvSpec => []RvTypeOK
<1>1. RvInit => JobsFound
  BY NoTaskIs DEF RvInit, JobsFound, Reserving
<1>2. RvInv /\ RvInv' /\ JobsFound /\ [RvNext]_allVars => JobsFound'
  BY JobsStep
<1>3. RvInv /\ JobsFound => RvTypeOK
  <2> SUFFICES ASSUME RvInv, JobsFound PROVE RvTypeOK
    OBVIOUS
  <2>1. TypeOK /\ jobs \subseteq Ids
    BY DEF RvInv, EngineInv, JobsFound
  <2>2. \A h \in Ids : holds[h] \in Hold
    BY DEF RvInv, RvTables, Ids
  <2>3. \A p \in Workers : Releasing(p) => task[p].queue \subseteq Ids
    BY DEF RvInv, JobAt, ReleaseAt, Ids
  <2> QED BY <2>1, <2>2, <2>3 DEF RvTypeOK, Hold
<1> QED BY <1>1, <1>2, <1>3, ReservationsInvariance, PTL DEF RvSpec

-----------------------------------------------------------------------------
(* The engine's guarantees beside reservations *)

(* A transaction about to commit nothing has written nothing. *)
EmptyCommit == \A p \in Workers :
  pc[p] = "commit" /\ step[p] = 1 => pending[p] = ClearRows

(* Reserves are disciplined, however many. *)
LEMMA ReservesDisciplined ==
  ASSUME NEW s \in Seq(Movement), AllReserve(s), s # << >>
  PROVE  Disciplined(s)
<1>1. ASSUME NEW i \in 1 .. Len(s) PROVE s[i].requireAvailable = TRUE
  <2>1. PICK r \in Rows, q \in Nat \ {0} : s[i] = Reserve(r, q)
    BY <1>1 DEF AllReserve, IsReserve
  <2>2. Reserve(r, q).requireAvailable = TRUE
    BY Zenon DEF Reserve, Move
  <2> QED BY <2>1, <2>2
<1> QED BY <1>1 DEF Disciplined

(* A release on its own is disciplined. *)
LEMMA ReleaseDisciplined ==
  ASSUME NEW r \in Rows, NEW q \in Nat \ {0}
  PROVE  /\ <<ReleaseReserve(r, q)>> \in Seq(Movement)
         /\ Disciplined(<<ReleaseReserve(r, q)>>)
<1>1. PICK m : m = ReleaseReserve(r, q)
  OBVIOUS
<1>2. q \in Int /\ q > 0
  OBVIOUS
<1>3. m \in Movement /\ (PromisedUnits(m.deltas) > 0 => m.requireAvailable)
  BY <1>1, <1>2, PrimitivesType
<1>4. <<m>> \in Seq(Movement) /\ Disciplined(<<m>>)
  BY <1>3 DEF Disciplined
<1> QED BY <1>1, <1>4

(* A line is planned: the script grows by reserves, and the transaction     *)
(* goes on with what it has locked and written.                             *)
LEMMA PlanLineKeepsInv ==
  ASSUME Inv, RvInv, RvInv', EmptyCommit, NEW p \in Workers, PlanLine(p)
  PROVE  Inv'
<1>1. /\ UNCHANGED <<snapshot, safetyStock, ledger, lock, step, work, pending>>
      /\ pc[p] \in {"idle", "commit"} /\ Reserving(p)
      /\ task' = [task EXCEPT ![p].line = @ + 1]
  BY DEF PlanLine, Reserving
<1>2. /\ TypeOK /\ TypeOK' /\ AtInv' /\ TxAt(p) /\ JobAt(p)' /\ RvTables
      /\ ControlInv /\ WorkInv /\ SnapshotIsLedgerSum /\ NoNegativeBucket
  BY DEF RvInv, EngineInv, Inv
<1>3. PICK a, v : /\ a \in {"lock", "commit"} /\ pc' = [pc EXCEPT ![p] = a]
                  /\ script' = [script EXCEPT ![p] = v]
  BY DEF PlanLine
<1>4. pc'[p] = a /\ script'[p] = v /\ v \in Seq(Movement)
  BY <1>2, <1>3 DEF TypeOK
<1>5. \A q \in Workers \ {p} : pc'[q] = pc[q] /\ script'[q] = script[q]
  BY <1>2, <1>3 DEF TypeOK
<1>6. Reserving(p)'
  <2>1. task[p] \in ReserveTasks
    BY <1>1, <1>2, TaskIs
  <2>2. task'[p] = [task[p] EXCEPT !.line = @ + 1]
    BY <1>1, <1>2 DEF RvTables
  <2>3. task'[p].kind = task[p].kind
    BY <2>1, <2>2 DEF ReserveTasks
  <2> QED BY <1>1, <2>3 DEF Reserving
<1>7. AllReserve(v)
  <2>1. ReserveAt(p)'
    BY <1>2, <1>6 DEF JobAt
  <2>2. InTx(p)'
    BY <1>3, <1>4 DEF InTx
  <2>3. AllReserve(script'[p])
    BY <2>1, <2>2 DEF ReserveAt
  <2> QED BY <1>4, <2>3
<1>8. a = "lock" => step'[p] \in 1 .. Len(v) /\ Disciplined(v)
  <2> SUFFICES ASSUME a = "lock" PROVE step'[p] \in 1 .. Len(v) /\ Disciplined(v)
    OBVIOUS
  <2>1. step'[p] \in 1 .. Len(v)
    BY <1>2, <1>4 DEF AtInv
  <2>2. v # << >>
    BY <2>1
  <2> QED BY <1>4, <1>7, <2>1, <2>2, ReservesDisciplined
<1>9. step'[p] = 1 => pending'[p] = ClearRows
  BY <1>1, <1>2 DEF EmptyCommit, TxAt, InTx
<1>10. ControlInv'
  <2>1. ASSUME NEW q \in Workers \ {p}
        PROVE  pc'[q] = pc[q] /\ script'[q] = script[q] /\ step'[q] = step[q]
               /\ pending'[q] = pending[q] /\ Current(q)' = Current(q)
    BY <1>1, <1>5 DEF Current
  <2> QED BY <1>1, <1>2, <1>3, <1>4, <1>8, <1>9, <2>1 DEF ControlInv
<1>11. WorkInv' /\ SnapshotIsLedgerSum' /\ NoNegativeBucket'
  BY <1>1, <1>2 DEF WorkInv, SnapshotIsLedgerSum, NoNegativeBucket
<1>12. TypeOK'
  BY <1>2
<1> QED BY <1>10, <1>11, <1>12 DEF Inv

(* The steps of the service are steps of the engine, plans, or neither. *)
LEMMA RvSteps ==
  ASSUME RvInv, [RvNext]_allVars
  PROVE  \/ UNCHANGED vars
         \/ \E p \in Workers :
              \/ PlanLine(p) \/ Rollback(p) \/ Commit(p)
              \/ LockRow(p) \/ WriteMovement(p) \/ Invalidate(p)
              \/ \E r \in Rows, q \in Nat \ {0} : Begin(p, <<ReleaseReserve(r, q)>>)
<1> DEFINE Goal(p) == \/ PlanLine(p) \/ Rollback(p) \/ Commit(p)
                      \/ LockRow(p) \/ WriteMovement(p) \/ Invalidate(p)
                      \/ \E r \in Rows, q \in Nat \ {0} : Begin(p, <<ReleaseReserve(r, q)>>)
<1>1. CASE UNCHANGED allVars
  BY <1>1 DEF allVars
<1>2. ASSUME NEW p \in Workers, NEW o \in Orders, StartReserve(p, o) \/ StartCancel(p, o)
      PROVE  UNCHANGED vars
  BY <1>2 DEF StartReserve, StartCancel
<1>3. ASSUME NEW p \in Workers, RefuseReserve(p) \/ RetryReserve(p) \/ FailRelease(p)
                                \/ CrashWorker(p)
      PROVE  Rollback(p)
  BY <1>3 DEF RefuseReserve, RetryReserve, FailRelease, CrashWorker, RejectMovement,
              DeadlockVictim
<1>4. ASSUME NEW p \in Workers, CommitReserve(p) \/ CommitRelease(p)
      PROVE  Commit(p)
  BY <1>4 DEF CommitReserve, CommitRelease
<1>5. ASSUME NEW p \in Workers, ScheduleExpiry(p) \/ StartSweep(p) \/ EndRelease(p)
      PROVE  UNCHANGED vars
  BY <1>5 DEF ScheduleExpiry, StartSweep, EndRelease
<1>6. ASSUME NEW p \in Workers, NEW h \in Ids, StartExpireOne(p, h) \/ SkipHold(p, h)
      PROVE  UNCHANGED vars
  BY <1>6 DEF StartExpireOne, SkipHold
<1>7. ASSUME NEW p \in Workers, NEW h \in Ids, ReadActiveHold(p, h)
      PROVE  \E r \in Rows, q \in Nat \ {0} : Begin(p, <<ReleaseReserve(r, q)>>)
  <2>1. holds[h] \in Hold
    BY DEF Ids, RvInv, RvTables
  <2>2. holds[h].row \in Rows /\ holds[h].qty \in Nat \ {0}
    BY <2>1 DEF Hold
  <2> QED BY <1>7, <2>2 DEF ReadActiveHold
<1>8. ASSUME NEW p \in Workers, EngineStep(p)
      PROVE  LockRow(p) \/ WriteMovement(p) \/ Invalidate(p)
  BY <1>8 DEF EngineStep
<1>9. ASSUME NEW h \in Ids, TtlPasses(h) PROVE UNCHANGED vars
  BY <1>9 DEF TtlPasses
<1>10. CASE RvNext
  <2> SUFFICES ASSUME ~ UNCHANGED vars PROVE \E p \in Workers : Goal(p)
    OBVIOUS
  <2>1. PICK p \in Workers :
           \/ PlanLine(p) \/ RefuseReserve(p) \/ RetryReserve(p) \/ FailRelease(p)
           \/ CrashWorker(p) \/ CommitReserve(p) \/ CommitRelease(p) \/ EngineStep(p)
           \/ \E h \in Ids : ReadActiveHold(p, h)
    BY <1>2, <1>5, <1>6, <1>9, <1>10 DEF RvNext
  <2>2. Goal(p)
    BY <1>3, <1>4, <1>7, <1>8, <2>1
  <2> QED BY <2>2
<1> QED BY <1>1, <1>10

(* The engine's invariant, although scripts are now planned piece by piece. *)
LEMMA RvKeepsEngine ==
  ASSUME Inv, EmptyCommit, RvInv, RvInv', [RvNext]_allVars
  PROVE  Inv' /\ EmptyCommit'
<1>0. TypeOK /\ (\A q \in Workers : TxAt(q))
  BY DEF RvInv, EngineInv
<1>1. CASE UNCHANGED vars
  <2>1. Inv'
    BY <1>1, NextInv
  <2>2. EmptyCommit'
    BY <1>1 DEF EmptyCommit, vars
  <2> QED BY <2>1, <2>2
<1>2. ASSUME NEW p \in Workers, PlanLine(p) PROVE Inv' /\ EmptyCommit'
  <2>1. Inv'
    BY <1>2, PlanLineKeepsInv
  <2>2. step' = step /\ pending' = pending /\ pc[p] \in {"idle", "commit"}
        /\ \A q \in Workers \ {p} : pc'[q] = pc[q]
    BY <1>0, <1>2 DEF PlanLine, TypeOK
  <2>3. pc[p] = "idle" => pending[p] = ClearRows
    BY <1>0 DEF TxAt, InTx
  <2>4. EmptyCommit'
    BY <2>2, <2>3 DEF EmptyCommit
  <2> QED BY <2>1, <2>4
<1>3. ASSUME NEW p \in Workers,
             /\ \A q \in Workers \ {p} :
                  pc'[q] = pc[q] /\ step'[q] = step[q] /\ pending'[q] = pending[q]
             /\ pc'[p] = "commit" => step'[p] # 1
      PROVE  EmptyCommit'
  BY <1>3 DEF EmptyCommit
<1>4. ASSUME NEW p \in Workers, Rollback(p) PROVE Inv' /\ EmptyCommit'
  <2>1. /\ pc'[p] = "idle"
        /\ \A q \in Workers \ {p} :
             pc'[q] = pc[q] /\ step'[q] = step[q] /\ pending'[q] = pending[q]
    BY <1>0, <1>4 DEF Rollback, EndTransaction, TypeOK
  <2> QED BY <1>3, <1>4, <2>1, RollbackInv
<1>5. ASSUME NEW p \in Workers, Commit(p) PROVE Inv' /\ EmptyCommit'
  <2>1. /\ pc'[p] = "invalidate"
        /\ \A q \in Workers \ {p} :
             pc'[q] = pc[q] /\ step'[q] = step[q] /\ pending'[q] = pending[q]
    BY <1>0, <1>5 DEF Commit, EndTransaction, TypeOK
  <2> QED BY <1>3, <1>5, <2>1, CommitInv
<1>6. ASSUME NEW p \in Workers, LockRow(p) PROVE Inv' /\ EmptyCommit'
  <2>1. /\ pc'[p] = "write"
        /\ \A q \in Workers \ {p} :
             pc'[q] = pc[q] /\ step'[q] = step[q] /\ pending'[q] = pending[q]
    BY <1>0, <1>6 DEF LockRow, TypeOK
  <2> QED BY <1>3, <1>6, <2>1, LockRowInv
<1>7. ASSUME NEW p \in Workers, WriteMovement(p) PROVE Inv' /\ EmptyCommit'
  <2>1. /\ step'[p] = step[p] + 1 /\ step[p] \in Nat \ {0}
        /\ \A q \in Workers \ {p} :
             pc'[q] = pc[q] /\ step'[q] = step[q] /\ pending'[q] = pending[q]
    BY <1>0, <1>7 DEF WriteMovement, TypeOK
  <2>2. step'[p] # 1
    BY <2>1
  <2> QED BY <1>3, <1>7, <2>1, <2>2, WriteMovementInv
<1>8. ASSUME NEW p \in Workers, Invalidate(p) PROVE Inv' /\ EmptyCommit'
  <2>1. /\ pc'[p] = "idle"
        /\ \A q \in Workers \ {p} :
             pc'[q] = pc[q] /\ step'[q] = step[q] /\ pending'[q] = pending[q]
    BY <1>0, <1>8 DEF Invalidate, TypeOK
  <2> QED BY <1>3, <1>8, <2>1, InvalidateInv
<1>9. ASSUME NEW p \in Workers, NEW r \in Rows, NEW q \in Nat \ {0},
             Begin(p, <<ReleaseReserve(r, q)>>)
      PROVE  Inv' /\ EmptyCommit'
  <2>1. /\ pc'[p] = "lock"
        /\ \A w \in Workers \ {p} :
             pc'[w] = pc[w] /\ step'[w] = step[w] /\ pending'[w] = pending[w]
    BY <1>0, <1>9 DEF Begin, TypeOK
  <2>2. Inv'
    BY <1>9, ReleaseDisciplined, BeginInv
  <2> QED BY <1>3, <2>1, <2>2
<1> QED BY <1>1, <1>2, <1>4, <1>5, <1>6, <1>7, <1>8, <1>9, RvSteps

(* The engine's invariant of the reservation service. *)
THEOREM ReservationsOnEngine == RvSpec => []Inv
<1>1. RvInit => Inv /\ EmptyCommit
  <2> SUFFICES ASSUME RvInit PROVE Inv /\ EmptyCommit
    OBVIOUS
  <2>0. PICK rows : rows = [r \in Rows |-> [ZeroBuckets EXCEPT !["onHand"] = InitialStock[r]]]
    OBVIOUS
  <2>1. InitWith(rows)
    BY <2>0 DEF RvInit
  <2>2. TypeOK
    BY RvInitInv DEF RvInv, EngineInv
  <2>3. ControlInv
    BY <2>1, NoWorkerAssumption DEF InitWith, ControlInv
  <2>4. WorkInv
    BY <2>1, NoWorkerAssumption DEF InitWith, WorkInv, ClearRows
  <2>5. SnapshotIsLedgerSum
    BY <2>1 DEF InitWith, SnapshotIsLedgerSum
  <2>6. NoNegativeBucket
    <3>1. \A r \in Rows : InitialStock[r] \in 0 .. MaxInt
      BY ReservationsAssumption
    <3>2. ASSUME NEW i \in 0 .. MaxInt, NEW b \in Bucket
          PROVE  [ZeroBuckets EXCEPT !["onHand"] = i][b] \in 0 .. MaxInt
      BY MaxIntAssumption DEF ZeroBuckets
    <3> QED BY <2>0, <2>1, <3>1, <3>2 DEF InitWith, NoNegativeBucket
  <2>7. EmptyCommit
    BY <2>1 DEF InitWith, EmptyCommit
  <2> QED BY <2>2, <2>3, <2>4, <2>5, <2>6, <2>7 DEF Inv
<1>2. (Inv /\ EmptyCommit) /\ RvInv /\ RvInv' /\ [RvNext]_allVars
        => (Inv /\ EmptyCommit)'
  BY RvKeepsEngine
<1> QED BY <1>1, <1>2, ReservationsInvariance, PTL DEF RvSpec

(* The engine's guarantees beside reservations, whose transactions have any *)
(* number of legs and are planned line by line while they are open:         *)
(* snapshot and ledger agree and no bucket is negative, although one hold   *)
(* may be released twice, ...                                               *)
THEOREM ReservationsKeepLedger == RvSpec => [](SnapshotIsLedgerSum /\ NoNegativeBucket)
<1>1. Inv => SnapshotIsLedgerSum /\ NoNegativeBucket
  BY DEF Inv
<1> QED BY <1>1, ReservationsOnEngine, PTL

(* ... and no order is promised units a row does not have, although every   *)
(* plan was made on availability read without a lock.                       *)
THEOREM ReservationsNeverOversell == RvSpec => NoOversellStep
<1>1. Inv /\ RvInv /\ [RvNext]_allVars => [KeepsPromises]_vars
  <2> SUFFICES ASSUME Inv, RvInv, [RvNext]_allVars PROVE KeepsPromises
    OBVIOUS
  <2>1. (\E p \in Workers : Commit(p)) \/ snapshot' = snapshot
    BY RvSteps DEF vars, PlanLine, Begin, LockRow, WriteMovement, Invalidate, Rollback
  <2> QED BY <2>1, CommitPromises, NothingPromised DEF Inv
<1> QED BY <1>1, ReservationsOnEngine, ReservationsInvariance, PTL
        DEF RvSpec, NoOversellStep, KeepsPromises
=============================================================================
