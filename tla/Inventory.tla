----------------------------- MODULE Inventory -----------------------------
(***************************************************************************)
(* The inventory movement engine (inventory.service.ts): every movement is *)
(* applied in a database transaction that locks the snapshot row, checks   *)
(* the resulting balances, rewrites the row and appends to the ledger, and *)
(* after the commit announces the change of the SKU.                       *)
(*                                                                         *)
(* A worker runs one transaction at a time; its transaction is a script of *)
(* movements (one for `apply`, two for `transfer`, one per leg when an     *)
(* order service passes its own transaction).  Each movement takes two     *)
(* steps, the locking read and the validated write, so transactions        *)
(* interleave between any two statements.  Postgres READ COMMITTED: the    *)
(* writes of a transaction are private (work, pending) until it commits,   *)
(* and a row lock is held until the transaction ends.                      *)
(***************************************************************************)
EXTENDS Movements

CONSTANTS
  Workers,      \* concurrent requests and jobs, over all server processes
  NoWorker,     \* the owner of an unlocked row
  Quantities,   \* quantities a request may carry (the DTOs demand >= 1)
  SafetyLevels, \* safety-stock values a request may carry (>= 0)
  Operations    \* the operations the workers of an instance perform

ASSUME NoWorkerAssumption == NoWorker \notin Workers
ASSUME QuantitiesAssumption == Quantities \subseteq Nat \ {0}
ASSUME SafetyLevelsAssumption == SafetyLevels \subseteq Nat

VARIABLES
  snapshot,     \* committed InventorySnapshot rows (an absent row is all zero)
  safetyStock,  \* their safetyStock column
  ledger,       \* committed InventoryLedger: the sum of the deltas of a row
  lock,         \* the row locks
  pc,           \* where each worker is
  script,       \* the movements of its transaction
  step,         \* the movement it is at
  work,         \* the rows it has locked, as its transaction sees them
  pending,      \* the ledger deltas it has not committed yet
  outbox        \* SKUs with an INVENTORY_ATP_CHANGED row in the outbox

vars == <<snapshot, safetyStock, ledger, lock, pc, script, step, work,
          pending, outbox>>

ClearRows == [r \in Rows |-> ZeroBuckets]

(* The movements a single `apply` performs. *)
SingleMoves ==
  UNION { { Receive(r, q), Adjust(r, q), Adjust(r, -q), Reserve(r, q),
            ReleaseReserve(r, q), Allocate(r, q), Deallocate(r, q),
            ConvertReserveToAllocation(r, q), Ship(r, q), ReturnStock(r, q),
            CreateInbound(r, q), ArriveInbound(r, q) } :
          r \in Rows, q \in Quantities }

(* transfer: both legs in one transaction, the source leg first; it throws *)
(* on equal locations.                                                     *)
TransferScripts ==
  { <<TransferOut(x[1], q), TransferIn(x[2], q)>> :
    x \in { y \in Rows \X Rows : /\ SkuOf(y[1]) = SkuOf(y[2])
                                 /\ y[1] # y[2] },
    q \in Quantities }

(* reserveForOrder: one RESERVE per planned leg, in plan order. *)
ReserveScripts ==
  { <<Reserve(x[1], q), Reserve(x[2], q)>> :
    x \in { y \in Rows \X Rows : y[1] # y[2] }, q \in Quantities }

(* sourceOrder: the order's own holds are released, then allocated. *)
SourceScripts ==
  { <<ReleaseReserve(r, q), Allocate(t, q)>> :
    r \in Rows, t \in Rows, q \in Quantities }

Scripts ==
  { <<m>> : m \in { n \in SingleMoves : n.event \in Operations } }
  \cup (IF "TRANSFER" \in Operations THEN TransferScripts ELSE {})
  \cup (IF "RESERVE_ORDER" \in Operations THEN ReserveScripts ELSE {})
  \cup (IF "SOURCE_ORDER" \in Operations THEN SourceScripts ELSE {})

-----------------------------------------------------------------------------
(* A quiescent database holding `rows`, each the sum of its ledger. *)
InitWith(rows) ==
  /\ snapshot = rows
  /\ safetyStock = [r \in Rows |-> 0]
  /\ ledger = rows
  /\ lock = [r \in Rows |-> NoWorker]
  /\ pc = [p \in Workers |-> "idle"]
  /\ script = [p \in Workers |-> << >>]
  /\ step = [p \in Workers |-> 1]
  /\ work = [p \in Workers |-> ClearRows]
  /\ pending = [p \in Workers |-> ClearRows]
  /\ outbox = {}

Init == InitWith(ClearRows)

Current(p) == script[p][step[p]]

(* A request or job starts its transaction. *)
Begin(p, s) ==
  /\ pc[p] = "idle"
  /\ pc' = [pc EXCEPT ![p] = "lock"]
  /\ script' = [script EXCEPT ![p] = s]
  /\ step' = [step EXCEPT ![p] = 1]
  /\ UNCHANGED <<snapshot, safetyStock, ledger, lock, work, pending, outbox>>

(* Mutant of LockRow: SELECT without FOR UPDATE waits for nobody. *)
ReadRowUnlocked(p) ==
  /\ pc[p] = "lock"
  /\ lock' = [lock EXCEPT ![Current(p).row] = p]
  /\ work' = [work EXCEPT ![p][Current(p).row] = snapshot[Current(p).row]]
  /\ pc' = [pc EXCEPT ![p] = "write"]
  /\ UNCHANGED <<snapshot, safetyStock, ledger, script, step, pending, outbox>>

(* INSERT ... ON CONFLICT DO NOTHING and SELECT ... FOR UPDATE: waits while *)
(* another transaction holds the row, then reads it as last committed, or   *)
(* as this transaction itself wrote it.                                     *)
LockRow(p) ==
  /\ pc[p] = "lock"
  /\ LET r == Current(p).row IN
       /\ lock[r] \in {NoWorker, p}
       /\ lock' = [lock EXCEPT ![r] = p]
       /\ work' = IF lock[r] = p THEN work
                  ELSE [work EXCEPT ![p][r] = snapshot[r]]
  /\ pc' = [pc EXCEPT ![p] = "write"]
  /\ UNCHANGED <<snapshot, safetyStock, ledger, script, step, pending, outbox>>

(* The end of a transaction for its worker: locks freed, private state gone. *)
EndTransaction(p) ==
  /\ lock' = [r \in Rows |-> IF lock[r] = p THEN NoWorker ELSE lock[r]]
  /\ work' = [work EXCEPT ![p] = ClearRows]
  /\ pending' = [pending EXCEPT ![p] = ClearRows]

Rollback(p) ==
  /\ EndTransaction(p)
  /\ pc' = [pc EXCEPT ![p] = "idle"]
  /\ script' = [script EXCEPT ![p] = << >>]
  /\ step' = [step EXCEPT ![p] = 1]
  /\ UNCHANGED <<snapshot, safetyStock, ledger, outbox>>

(* UPDATE of the locked row and INSERT of the ledger event. *)
WriteMovement(p) ==
  LET m == Current(p)
      next == Plus(work[p][m.row], m.deltas)
  IN  /\ pc[p] = "write"
      /\ Validates(next, safetyStock[m.row], m)
      /\ work' = [work EXCEPT ![p][m.row] = next]
      /\ pending' = [pending EXCEPT ![p][m.row] = Plus(@, m.deltas)]
      /\ step' = [step EXCEPT ![p] = @ + 1]
      /\ pc' = [pc EXCEPT ![p] =
                  IF step[p] = Len(script[p]) THEN "commit" ELSE "lock"]
      /\ UNCHANGED <<snapshot, safetyStock, ledger, lock, script, outbox>>

(* Mutant of RejectMovement: the movement is retried inside its transaction, *)
(* which keeps its row locks.                                               *)
RetryMovement(p) ==
  LET m == Current(p)
  IN  /\ pc[p] = "write"
      /\ ~ Validates(Plus(work[p][m.row], m.deltas), safetyStock[m.row], m)
      /\ pc' = [pc EXCEPT ![p] = "lock"]
      /\ UNCHANGED <<snapshot, safetyStock, ledger, lock, script, step, work,
                     pending, outbox>>

(* Mutant of RejectMovement: the error is swallowed and the transaction     *)
(* commits the movements before it.                                         *)
RejectKeepingEarlier(p) ==
  LET m == Current(p)
  IN  /\ pc[p] = "write"
      /\ ~ Validates(Plus(work[p][m.row], m.deltas), safetyStock[m.row], m)
      /\ pc' = [pc EXCEPT ![p] = "commit"]
      /\ UNCHANGED <<snapshot, safetyStock, ledger, lock, script, step, work,
                     pending, outbox>>

(* validate throws (or the column overflows): the transaction rolls back. *)
RejectMovement(p) ==
  LET m == Current(p)
  IN  /\ pc[p] = "write"
      /\ ~ Validates(Plus(work[p][m.row], m.deltas), safetyStock[m.row], m)
      /\ Rollback(p)

Commit(p) ==
  /\ pc[p] = "commit"
  /\ snapshot' = [r \in Rows |-> IF lock[r] = p THEN work[p][r]
                                                ELSE snapshot[r]]
  /\ ledger' = [r \in Rows |-> Plus(ledger[r], pending[p][r])]
  /\ EndTransaction(p)
  /\ pc' = [pc EXCEPT ![p] = "invalidate"]
  /\ UNCHANGED <<safetyStock, script, step, outbox>>

(* invalidate, after the commit, for each SKU the transaction touched: an   *)
(* outbox INSERT may fail and its failure is swallowed.                     *)
Invalidate(p) ==
  /\ pc[p] = "invalidate"
  /\ \E S \in SUBSET { SkuOf(script[p][i].row) : i \in 1 .. Len(script[p]) } :
       outbox' = outbox \cup S
  /\ pc' = [pc EXCEPT ![p] = "idle"]
  /\ script' = [script EXCEPT ![p] = << >>]
  /\ step' = [step EXCEPT ![p] = 1]
  /\ UNCHANGED <<snapshot, safetyStock, ledger, lock, work, pending>>

(* Mutant of SetSafetyStock: the new level is subtracted from the old. *)
LowerSafetyStock(r, n) ==
  /\ "SAFETY_STOCK" \in Operations
  /\ lock[r] = NoWorker
  /\ safetyStock' = [safetyStock EXCEPT ![r] = @ - n]
  /\ UNCHANGED <<snapshot, ledger, lock, pc, script, step, work, pending, outbox>>

(* setSafetyStock: one auto-committed upsert, no check and no ledger event; *)
(* it waits for the row lock like any UPDATE.                               *)
SetSafetyStock(r, n) ==
  /\ "SAFETY_STOCK" \in Operations
  /\ lock[r] = NoWorker
  /\ safetyStock' = [safetyStock EXCEPT ![r] = n]
  /\ outbox' \in {outbox, outbox \cup {SkuOf(r)}}
  /\ UNCHANGED <<snapshot, ledger, lock, pc, script, step, work, pending>>

(* The worker q that p waits for at its locking read. *)
WaitsFor(p, q) ==
  /\ pc[p] = "lock"
  /\ q # p
  /\ lock[Current(p).row] = q

(* Postgres aborts a transaction of a waits-for cycle; no caller inside the *)
(* engine retries it.                                                       *)
DeadlockVictim(p) ==
  /\ \E C \in SUBSET Workers :
       /\ p \in C
       /\ \A q \in C : \E w \in C : WaitsFor(q, w)
       /\ \A q \in C : \E w \in C : WaitsFor(w, q)
  /\ Rollback(p)

(* The server process or its connection dies: an open transaction rolls     *)
(* back, a committed one keeps its effects but is never announced.          *)
Crash(p) ==
  /\ pc[p] # "idle"
  /\ Rollback(p)

Next ==
  \/ \E p \in Workers :
       \/ \E s \in Scripts : Begin(p, s)
       \/ LockRow(p)
       \/ WriteMovement(p)
       \/ RejectMovement(p)
       \/ Commit(p)
       \/ Invalidate(p)
       \/ DeadlockVictim(p)
       \/ Crash(p)
  \/ \E r \in Rows, n \in SafetyLevels : SetSafetyStock(r, n)

Spec == Init /\ [][Next]_vars

(* A statement that can run does run; Postgres queues the waiters of a row  *)
(* lock and its deadlock detector breaks every cycle.  Nothing makes a      *)
(* client call or a server crash.                                           *)
Fairness ==
  \A p \in Workers :
    /\ SF_vars(LockRow(p))
    /\ WF_vars(WriteMovement(p))
    /\ WF_vars(RejectMovement(p))
    /\ WF_vars(Commit(p))
    /\ WF_vars(Invalidate(p))
    /\ WF_vars(DeadlockVictim(p))

FairSpec == Spec /\ Fairness

-----------------------------------------------------------------------------
TypeOK ==
  /\ snapshot \in [Rows -> Buckets]
  /\ safetyStock \in [Rows -> Nat]
  /\ ledger \in [Rows -> Buckets]
  /\ lock \in [Rows -> Workers \cup {NoWorker}]
  /\ pc \in [Workers -> {"idle", "lock", "write", "commit", "invalidate"}]
  /\ script \in [Workers -> Seq(Movement)]
  /\ step \in [Workers -> Nat \ {0}]
  /\ work \in [Workers -> [Rows -> Buckets]]
  /\ pending \in [Workers -> [Rows -> Buckets]]
  /\ outbox \in SUBSET Skus

(* Reconciliation's premise (reconciliation.service.ts:36-41): the committed *)
(* snapshot of a row is the running sum of its committed ledger deltas, for  *)
(* every interleaving of transactions, rollbacks and crashes.                *)
SnapshotIsLedgerSum == snapshot = ledger

(* README.md:113 "no negative bucket": no committed bucket is ever negative  *)
(* or outgrows its column.                                                   *)
NoNegativeBucket ==
  \A r \in Rows, b \in Bucket : snapshot[r][b] \in 0 .. MaxInt

(* README.md:118-119, "never allocate the same last unit": a step that       *)
(* raises the units promised from a row leaves its availability, safety      *)
(* stock included, non-negative, whatever ran concurrently.                  *)
NoOversellStep ==
  [][ \A r \in Rows :
        PromisedUnits(snapshot'[r]) > PromisedUnits(snapshot[r])
          => Availability(snapshot'[r], safetyStock'[r]) >= 0 ]_vars

(* A worker past its commit has an answer for its caller. *)
Answer == [p \in Workers |-> IF pc[p] = "invalidate" THEN script[p] ELSE << >>]

Ledger == INSTANCE StockLedger WITH
  Callers <- Workers, Transactions <- Scripts,
  stock <- snapshot, safety <- safetyStock, answer <- Answer

(* The engine implements StockLedger: however workers interleave, wait,      *)
(* abort and crash, committed stock and safety stock change as if whole      *)
(* transactions ran one at a time, and a caller is answered only for the     *)
(* whole of its own (inventory.service.ts:139-199, 262-285).                 *)
ImplementsStockLedger == Ledger!Spec

(* No transaction waits for ever, although transfers and multi-leg orders    *)
(* lock rows in whatever order their caller names them.                      *)
TransactionsEnd ==
  \A p \in Workers : pc[p] = "lock" ~> pc[p] = "idle"
=============================================================================
