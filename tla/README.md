# A verification project for the OMS

The system is an order-management backend (NestJS, Prisma on Postgres, Redis,
BullMQ; `src/backend`) with a web console (`src/frontend`). It keeps stock per
SKU and location, takes orders from channels, holds and allocates stock for
them, ships, takes back and refunds, and pushes availability back to the
channels. This directory models it in TLA+, checks the models with TLC and
proves their safety properties with TLAPS, for every value of the constants,
as far as section 4 says.

## 1. Inventory of the system

| Component | State | Operations | Hard behaviour | What makes it correct |
|---|---|---|---|---|
| Movement engine, `inventory/inventory.service.ts` | `InventorySnapshot` (five buckets, safety stock), `InventoryLedger` | receive, adjust, reserve, release, allocate, deallocate, convert, ship, return, inbound create/arrive, transfer, safety stock | row locks, multi-row transactions, deadlock, announcement after commit | transactions are atomic and in effect serial; snapshot = sum of ledger; no oversell; transfers conserve |
| Reconciliation, `admin/reconciliation.*` | none of its own | report, repair | three statements with three views, no lock | a pass reports the drift there is and repair removes it |
| Reservations, `orders/reservations.service.ts`, `reservation.processor.ts` | `Reservation`, delayed jobs | reserve an order, release, expire-one, sweep | plan on unlocked reads, retries, TTL against cancel, crash before the job is queued | all-or-nothing, held units backed by holds, holds expire |
| Inbound, `inventory/inbound.service.ts` | `Inbound` | create, receive (in part) | received quantity read without a lock | every unit of a delivery is in transit or on hand, once |
| Orders, `orders/orders.service.ts`, `order-state-machine.ts` | `Order`, `OrderEvent` | create, validate, transition, cancel | check and write of the status in two statements; cancel is many transactions | only declared transitions; cancel returns what the order held |
| Validation, payments, `orders/validation.service.ts`, `payments/*` | `paymentStatus`, `paymentReference`, the gateway's charges | authorize, capture, void, refund | a gateway call between a read and an update | the order's record is what the gateway did |
| Sourcing, `sourcing/*` | `Allocation`, `Shipment`, rules | edit rules, source an order | plan on unlocked reads, status checked outside the transaction, locks in line order, retries, caps, missing coordinates | covers what can be covered, in the order the strategy means, and conserves units |
| Fulfillment, WMS, `fulfillment/fulfillment.service.ts` | `Shipment`, `Allocation` | dispatch, pick, ship, ready, pickUp, deliver, rollup, capture | shipments of one order roll it up, at once | the order is where its slowest shipment is; shipped units leave once |
| Returns, `fulfillment/returns.service.ts` | `Return`, stock, the order | create, receive, refund | double receipt, crash before the refund, refund keys | stock, status and refunds follow what came back |
| ATP and cache, `inventory/atp.service.ts` | Redis entries with a TTL | read, invalidate by pattern | cache fill racing invalidation | a wrong figure goes away |
| Channel sync, `sync/*` | `OutboxEvent`, cursors, what shops show | drain, push, full and delta feed, import | failed pushes, sequence gaps, crash before rows are marked, a drain by hand beside the scheduled one | shops show the OMS's figure; no change is skipped |
| Idempotency, webhooks, OAuth, `common/idempotency`, `integrations/*` | `IdempotencyKey`, `SalesChannel`, nonces | run once per key, ingest, cancel, install, callback | at-least-once delivery, overlap, crash between order and key | no silent duplicate, true answers, nothing lost |
| Events, auth, console, `events/*`, `auth/*`, `src/frontend` | streams, sessions, cached queries | publish, stream, sign in and out, click, refetch | late answers, lost events, two copies of a session | the screen shows what the servers hold and would allow |
| Catalog, reporting, AI, observability | see `PROJECT.json` | | | |

Calls go from controllers to the order, reservation, sourcing and fulfillment
services, from those to the movement engine (inside their own database
transaction), and from the engine after the commit to the cache, the outbox and
the event bus. Shared state is the database; there is no in-process lock. Queue
workers and HTTP servers are separate processes. `PROJECT.json` lists every
component with its status and every hazard at its line.

## 2. Modules

| Module | Models | Composition |
|---|---|---|
| `Movements` | buckets, movement primitives, `validate` | constants only |
| `StockLedger` | abstract: what the engine promises its callers | extends `Movements` |
| `Inventory` | the engine: transactions, row locks, ledger, outbox | extends `Movements`, instantiates `StockLedger` |
| `Reconciliation` | the integrity pass beside the engine | extends `Inventory`, `MoveBeside` takes any step of it |
| `Planner` | the loop both planners share | extends `Sums`; extended by `Reservations` and `Sourcing` |
| `Reservations` | holds, expiry and release | extends `Inventory` and `Planner`: every write is an engine transaction |
| `Inbound` | deliveries created and received | extends `Inventory` and `Sums`: every handler is an engine transaction |
| `OrderLifecycle` | one order: status, shipments, allocations, payment | self-contained, a movement is one step of it |
| `Sourcing` | rules, candidates, strategies, plans, the transaction | extends `Planner` |
| `Returns` | RMAs of one order, its status, refunds | extends `Sums` |
| `ChannelSync` | ATP, cache, outbox, drain, feeds, import, the shops | extends `Sums` |
| `Ingestion` | keys, webhooks, API orders, OAuth | self-contained |
| `Console` | one tab: session, gates, queries; guard and events behind it | self-contained |
| `Sums` | the sum of a function over a finite set | extended by `Inbound`, `Returns`, `Planner` and `ChannelSync` |
| `MC*` | symmetry sets and small instances | extend the module they check |
| `InventoryProofs` | theorems about `Inventory` and what runs on it: `Inbound`, `Reconciliation`, `Reservations` | extends the three, `SumTheorems` and TLAPS |
| `SumTheorems` | the laws of sums and of the planner's loop | extends `Planner` and TLAPS |
| `SourcingProofs`, `ChannelSyncProofs`, `ReturnsProofs` | theorems about each | extend the module and `SumTheorems` |
| `IngestionProofs`, `ConsoleProofs`, `OrderLifecycleProofs` | theorems about each | extend the module and TLAPS |

**Movements, Inventory.** A row is a (sku, location) pair. `snapshot` and
`ledger` are the committed tables (the ledger as its sum per row); an absent row
is a row of zeros. A worker executes a *script* of movements in one transaction:
one movement for `apply`, two for `transfer`, several when an order service
passes its transaction. `LockRow` is the `INSERT ... ON CONFLICT` with the
`SELECT ... FOR UPDATE`; `WriteMovement` is `validate`, the `UPDATE` and the
ledger `INSERT`; `RejectMovement` is a `validate` that throws. Uncommitted
writes live in `work` and `pending`, so `Commit` and `Rollback` are Postgres
READ COMMITTED semantics. `Invalidate` follows the commit and may add the SKU
to the outbox or fail silently. `DeadlockVictim` aborts one member of a
waits-for cycle, `Crash` loses a worker anywhere. Integer columns have the limit
`MaxInt`; what does not fit rolls back.

**StockLedger.** One step performs a whole transaction of one or two movements,
each checked against the stock its predecessor left, and answers its caller.
The refinement maps committed rows to `stock` and a worker past its commit to an
answered caller; everything before the commit is a stutter.

**Reconciliation.** `ReadLedger`, `ReadSnapshots` and one step per row, because
the code runs separate statements. `quiet` is a history variable: no movement
has committed since the pass began.

**Reservations.** `reserveForOrder` plans each line inside the transaction from
what it sees without locks (`Plans` runs `Planner`'s loop on every order a sort may leave ties in),
applies the legs through the engine, creates the holds at the commit and queues
the expiry jobs only after the invalidation. `release` reads the hold in one
step and overwrites its status at the commit of the movement. The clock is
`TtlPasses`. A crash loses the worker's task; an expire-one job may or may not
be retried by the queue. An order may be reserved more than once, so
`ReserveAllOrNothing` speaks of the holds of *k* whole orders.

**Inbound.** `StartReceive` reads the row without a lock and queues the
movement; `CommitReceive` writes back the sum of what was read and what came.
Other requests run beside it so that row locks cross; `OtherScripts` are the
ones that move stock about and bring none in or out, so that the sums are the
deliveries' own. `overlapped` is a history flag.

**OrderLifecycle.** Each handler is a chain of labelled steps, one per database
statement or transaction and one per gateway call; `task` carries what the
handler has read, and any number of handlers overlap. None of them locks the
order, shipment or allocation rows it reads, so each may act on something another
has changed in the meantime. The history `stale` records exactly those writes:
`status` (a status written over one it does not lead to), `shipment` (a
shipment's status written over one that had moved), `allocation` (an allocation
freed or shipped that had moved), `payment` (a payment recorded for a charge a
validate had replaced), `cancel` (the order was sourced after a cancel had listed
its allocations) and `rollup` (a rollup overtaken by another, which throws). A
shipment carries one allocation of one unit; the nodes sourcing picks are any
with a free unit (`Sourcing` takes the choice apart). Other orders own `others`
units of a node, so giving back a unit twice is visible; where they own none it
is refused, as a negative bucket. The gateway (external) holds one record per
authorization: it may decline, fail, or replay an authorization under its
idempotency key, and it captures only what is authorized. Its answer may be lost
after it has acted. A scenario says which handlers each worker may be asked for.

**Sourcing.** Of a row only the units that may still be promised (`free`) and those
reserved matter. `Resolved` picks a rule, `Candidates` filters the nodes, `SortKey` with `LexLeq`
is the comparator of each strategy (ties are left open), `Plans` with `Greedy` of
`Planner` is `planLine`. A *call* is one request to source an order, and two calls
may be for the same order: `Start` checks VALIDATED, and nothing looks at it again.
The transaction reads the order's holds (`ReadHolds`) and frees them one by one,
whether or not they still stand (`ReleaseHold`), plans line by line from
committed rows plus its own writes, locks and re-checks each leg; a lost check or
a deadlock goes to `Conflict`, which is `retryOnConflict`. `twice` is a history
variable: the rows on which two sourcings of one order released one hold. The
properties compare the plan with what the strategy's name means, not with
the comparator.

**Returns.** A request is the list of lines of its DTO, each with a quantity and
its own restock flag; `Create` checks every line against the order line it names
and nothing else, so two lines of one order line, or two RMAs, may together exceed
it. `Restock` is the one transaction of `receive`; the aggregates of
`maybeMarkOrderReturned`, both halves of `transition`, the read, the call and the
record of the refund follow as steps of their own. `receipts` counts committed
receipts of an RMA and `overlapped` names the RMAs that two handlers had both read
as REQUESTED. `mock` pays every refund; `stripe` pays at most the charge and
answers a repeated (order, amount) key with the old refund.

**ChannelSync.** A reader's `ReadCache`, `ReadSnapshots`, `ReadInbound` and
`SetCache` interleave with a movement's `Commit`, `ScanKeys`, `DeleteKeys`,
`InsertOutbox` and `RowVisible` (a sequence number is taken before its row can be
seen). A drain fetches its figures through the cache, pushes them channel by
channel and marks its batch; a push or call may fail and a process may die. The
queue's job (`"drain"`) and `POST /sync/drain` in the API process (`"drain now"`)
are the same operation on different workers and may run at once; nothing claims
the rows a drain has read. `untold` names SKUs whose change was never announced, or was announced and then
hidden by an outdated cache entry, an import, a toggled location, the horizon, or
two drains that had rows of it at once (`Overtaken`, `Mark`).

**Ingestion.** A message is delivered any number of times. Handlers are chains of
statements around `Lookup`, `Run` and `StoreKey` of the idempotency service;
uniqueness of (tenant, external ref) and of the key are the database's. A
cancellation and the transitions others make of the order read the status in one
step and write it in another (`CancelReads`, `CancelWrites`, `TransitionReads`,
`TransitionWrites`); `overtaken` names cancelled orders a transition has written
over. Of the statuses those before SHIPPED, and SHIPPED with DELIVERED, are one
each. `exposed` names messages whose deliveries overlapped or ended between order and key.

**Console.** `store` is what requests send, `react` what the screen is drawn
from. Requests, events and fetches are answered in any order. A fetch carries the
credential it was sent with; signing out neither stops it nor keeps its answer out
of the cache. `Refetch` is `invalidateQueries` of the query library
(@tanstack/react-query 5, external): a fetch under way is dropped for a new one
only if the query has data already; a first fetch is kept, and the invalidation is
lost if the server has answered it by then. A refused fetch is retried once (`query.ts`). `Buttons` lists every
button with its gate and what it refreshes.

## 3. Runs

| Run | Instance | Result |
|---|---|---|
| `InventorySafety` | 2 workers, 2 locations, quantity 1, columns up to 1, safety stock 0-1, single movements, transfers, two-leg reservations, sourcing | `SnapshotIsLedgerSum`, `NoNegativeBucket`, `NoOversellStep` hold and `StockLedger` is implemented |
| `ReconciliationQuiet` | 1 worker, 2 locations, 2 passes of either mode | an undisturbed pass reports exactly the drift and heals it |
| `ReserveRace` | 2 API workers, 2 SKUs, 2 locations with one unit each; one order wants a unit, the other both units of one SKU and one of the other | all-or-nothing, nothing stranded, with retries, overlapping cancels and a crash |
| `HoldExpiry` | 1 API and 1 queue worker, 2 holds, 1 crash, fair | every due hold is released |
| `OrderLifecycle` | 2 workers, 2 nodes, 8 scenarios: all handlers one at a time with a crash, and two at once: deliveries, a validate or cancel beside fulfilment, sourcing, picks, shippings, collections or another cancel beside a cancel, a second sourcing, two validates and a cancel; fair | stock accounted, rollup sound and complete, cancel frees, payment record true, but for the stale writes each names |
| `Inbound` | 2 workers, 2 locations, 2 deliveries of 2 units, transfers, crashes, fair | units conserved; the rows promise what is in transit, or more after overlapping receipts; no transaction waits for ever |
| `ChannelSync` | the queue's worker and the API process, both of which drain and move stock, 1 SKU, 1 channel, 2 changes, 1 failure, pages of 1, fair | drift has one of the named causes, paging skips nothing, the cache heals, rows are published |
| `Returns` | 2 workers, lines of 2 and 1 units at one price, 12 requests (whole, part, mixed with damaged, over-returned, refused), 2 RMAs, 1 crash, both gateways | restock, status and refunds accounted |
| `Ingestion` | 2 workers, 2 tenants, 2 shops, 6 scenarios of messages and installs, one with a transition beside a cancellation, 1 crash, fair | duplicates only for the named causes, true answers, one channel per install, orders arrive |
| `Planning` | all networks of 3 nodes with 0-3 units, 9 column sets, 4 rule sets; 2 racing orders of 2 lines with caps; and 2 requests to source one order that holds units; 2 attempts, fair | plans cover and honour the strategy, fewest legs, units conserved, caps hold without overlap, sourcing ends |
| `Console` | 3 people in 2 tenants, 2 processes, scenarios of up to 4 user steps or 3 writes | session, gated buttons, events and queries agree with the servers |
| `DoubleRelease` | 1 API and 1 queue worker, 2 holds | violation, finding |

Every module states its type invariant next to its properties; the runs check
it for the engine and elsewhere spend their time on what relates pieces of
state. It is proved for the engine, alone, beside reconciliation and under
`Reservations`, and for `OrderLifecycle`, `Returns`, `Console`, `Sourcing` and
`ChannelSync`. That transfers conserve units is part of
`InboundConserved`, that no leg is given away twice part of `UnitsConserved`.

Bounds. Two workers suffice for every race on a row, since a lost update, a
stale plan and a waits-for cycle each need two; the theorems of section 4
remove the bounds of the components they are about. One unit per location makes every contest one for the last unit, and
quantity 1 with `MaxInt` 1 makes both ends of a column reachable. Two nodes give
a split order; three nodes give a greedy plan that must choose, tie and stop in
the middle of a node. Two passes let one reconciliation repair what another
damaged. Two changes let one overtake the other's row and its cache entry; pages
of one make every page boundary happen. Deliveries of two units can be received
in halves. Equal prices make refund keys coincide. `OrderLifecycle`, `Ingestion` and
`Console` fix scenarios rather than one large set of requests, because the
interesting races are between two or three named ones; together the scenarios of
`OrderLifecycle` reach each kind of `stale` write. In half of the worlds of `Planning`
with two requests for one order another order holds as many units on the row, so that
the second release goes through; in the others it is refused. `MaxHolds`, `MaxPasses`,
`MaxCrashes`, `MaxMoves`, `MaxFailures`, `MaxReturns`, `MaxOrders`, `MaxInbounds` and a
scenario's `user`, `writes`, `validations`, `sourcings`, `crashes` and `moves` bound
otherwise endless behaviour; each is a guard and is large enough for the behaviour of its
run. The deadlock check is off where a bound reached leaves nobody anything to
do (`Reservations`, `Returns`, `Ingestion`, `Sourcing`, `Console`).

Fairness. A statement that stays enabled runs (weak fairness of a worker's own
steps). A lock request is served eventually although others come and go (strong
fairness where a step may wait for a lock: Postgres queues waiters and its
detector breaks cycles). Sweeps and drains keep being scheduled
(`scheduler.service.ts` registers repeating jobs): `StartSweep` is strongly fair
because the queue worker is busy at times, `StartDrain` weakly. Redis expires
its keys. Shopify retries an order until it is answered. No other client call,
no failure and no crash is fair.

Weaker statements that are deliberate. Where the code does not lock what it has
read, a property that held without exception would be false; it then names the
overlap that spoils it, and says that nothing else does:

* The four safety properties of `OrderLifecycle` except the `stale` writes that
  spoil them, each its own: `AllocationsAccounted` a node whose allocation was freed
  or shipped after it had moved; `RollupSound` an overwritten order or shipment
  status; `CancelFreesStock` a sourcing behind the cancel's back and a shipment
  written over; `PaymentRecordTrue` a charge a validate replaced.
* `DeliveryRollsUp` excuses a crash and a rollup overtaken by another one, since
  nothing repeats either, and overwritten statuses.
* `RestockAccounted` allows more than one restock of an RMA only if two handlers
  had both read it as REQUESTED, `RefundsEarned` refunds beyond the RMAs likewise.
* `AnswersTrue` lets a transition that had read the order before its cancellation
  write over CANCELLED after the answer.
* `DueHoldsExpire` is checked without cancels: after the double release of
  `DoubleRelease` the surviving hold's units are gone, its release fails on the
  negative bucket each time, and it stays active.
* `DriftHasCause` names its causes; one is that two drains had rows of the SKU at
  the same time, of which the one with the older figure may push last.
* `PagingSkipsNothing` excuses a row that becomes visible behind the cursor.
* `CacheCurrent` and `OwnWritesShown` excuse (`missed`) an event lost since the last
  fetch, one that came while the answer to a query's first fetch was on its way, a
  fetch or data left over from an earlier sign-in, and a refused fetch.
* `UnitsConserved` excuses a row on which two sourcings of one order released its hold.
* `CapacityHeld` excuses sourcings that overlapped: the count takes no lock.

### Finding

*Release is not idempotent* (`DoubleRelease`): two releases that both read
ACTIVE give the units back twice, and the second takes another order's hold.
`PROJECT.json` quotes the sentence it contradicts.

### Observations

What the models also show, or their excuses stand for, without a run of its own.
Orders and stock:

* Repair writes a ledger sum read before a movement committed, which creates
  drift until the next pass (`reconciliation.service.ts:114`).
* `transition` and `sourceOrder` check and write the status in separate
  statements, so a status set in between is overwritten (`orders.service.ts:156`,
  `sourcing.service.ts:68`): a cancelled order may come back, with its stock freed,
  and an order sourced while it is cancelled keeps its allocations.
* Two overlapping cancels, or a cancel and a shipping or collection, settle one
  allocation twice (`orders.service.ts:189`), taking back another order's units if
  there are any at that node; a cancel that `transition` then refuses has freed the
  units already, and a later collection depletes nothing (`fulfillment.service.ts:109`).
* An accepted cancel of a split order leaves a READY_FOR_PICKUP shipment as it is,
  with its allocation freed (`orders.service.ts:211`).
* Two deliveries at once can each roll the order up; the one overtaken throws, and
  the order may stay behind its shipments.
* Two requests to source one order that overlap both allocate it, as far as units
  are left. If the order held units and another holds as many on the same row, the
  hold is released twice, the second time out of the other's; if not, the second
  release fails on the negative bucket and the transaction is retried.
* `validate` on a captured order authorizes again and the next rollup captures
  a second charge (`orders.service.ts:122`).
* Dispatching twice opens two WMS jobs, and cancelling withdraws none.
* `allowSplit` is never read by sourcing; FEWEST_SPLITS works line by line, while
  `schema.prisma:411` speaks of the whole order.
* Overlapping receipts of one delivery leave units on the `Inbound` row that ATP
  promises and nobody will receive.
* Two overlapping receipts of one RMA restock it twice; an RMA is checked neither
  against earlier RMAs nor across its own lines, so more may come back than was
  ordered; of two receipts that complete an order the loser throws before its
  refund; Stripe's key makes two equal partial refunds one.

Channels and ingestion:

* A reader that fills the cache late makes the next drain push the old figure
  and mark the row published: the TTL (30 s) outlasts the drain interval (10 s).
* A drain asked for by hand beside the scheduled one can push the older figure last,
  with every row published.
* The import sets on-hand to the figure the OMS pushed, which is already net of
  holds.
* A request that dies between order and key, or fails to reserve after its order
  was committed, leaves no key: the retry creates a second order, or with an
  external ref is refused with 409 for ever.
* A skipped order stays skipped under its key after its SKU is added; a
  cancellation that overtakes its order is recorded as done.
* A webhook finds its shop without regard to the tenant; a Shopify cancellation
  may hit a marketplace order of the same ref; a channel created by hand under
  the shop's name blocks the OAuth connection.

Console:

* Sourcing, order creation and repair publish no event for the order or the
  snapshots, and no code publishes `shipment.status`.
* A query invalidated while its first fetch is being answered keeps the older answer
  until the next event, whether the news came by event or was the tab's own write.
* A fetch outlives a logout, and its answer fills the cache that the next sign-in sees.
* A 401 clears the store but not the screen; a late `/auth/me` can put an
  earlier session back while the stream stays with the other tenant
  (`realtime.ts:32` says it is rebuilt); the query cache survives a logout.
* The repair, key and Shopify-import buttons and the assistant have no role gate
  and answer 403; "Pick" is offered on an ALLOCATED order, which pick refuses.

## 4. Proofs

Each theorem holds for every value of the constants that the named assumptions
of its module allow. Where an invariant is not inductive, which is nearly
everywhere, the proof module defines the one that is and proves it step by step,
one lemma per action or group of actions.

| Module | Theorems | Property |
|---|---|---|
| `InventoryProofs`, engine | `TypeCorrect`, `LedgerConsistency`, `BucketsNonNegative`, `NoOversell`, `EngineImplementsStockLedger` | `TypeOK`, `SnapshotIsLedgerSum`, `NoNegativeBucket`, `NoOversellStep`, `ImplementsStockLedger` |
| same, reconciliation | `QuietPassTrue`, `EngineTypedBeside` | `QuietPassExact`, the engine's `TypeOK` |
| same, inbound | `DeliveriesConserved`, `RowsPromiseInTransit`, `InboundKeepsLedger`, `InboundNeverOversells` | `InboundConserved`, `RemainingIsInTransit`, and the engine's `SnapshotIsLedgerSum`, `NoNegativeBucket`, `NoOversellStep` |
| same, reservations | `UnitsNeverStranded`, `ReservesWholeOrders`, `ReservationsTyped`, `ReservationsKeepLedger`, `ReservationsNeverOversell` | `NoStrandedUnits`, `ReserveAllOrNothing`, `RvTypeOK`, and the engine's three |
| `SourcingProofs` | `SpecTypeOK`, `SpecUnitsConserved`, `SpecPlanCovers`, `SpecStrategyHonoured`, `SpecFewestLegs`, `SpecCapacityHeld` | `TypeOK`, `UnitsConserved`, `PlanCovers`, `StrategyHonoured`, `FewestLegs`, `CapacityHeld` |
| `ChannelSyncProofs` | `SpecTypeOK`, `SpecPagingSkipsNothing`, `SpecDriftHasCause` | `TypeOK`, `PagingSkipsNothing`, `DriftHasCause` |
| `OrderLifecycleProofs` | `OrderTyped`, `UnitsAccounted`, `RollupNeverAhead`, `CancelledHoldsNothing`, `PaymentRecordedTruly` | `TypeOK`, `AllocationsAccounted`, `RollupSound`, `CancelFreesStock`, `PaymentRecordTrue` |
| `ReturnsProofs` | `ReturnsTyped`, `StockAccounted`, `ReturnedWhenAllBack`, `RefundsOnlyEarned` | `TypeOK`, `RestockAccounted`, `ReturnedIffAllBack`, `RefundsEarned` |
| `IngestionProofs` | `ShopsConnectedOnce`, `DuplicatesHaveCause`, `AnswersAreTrue` | `OneChannelPerInstall`, `DuplicateHasCause`, `AnswersTrue` |
| `ConsoleProofs` | `ConsoleTyped`, `StoreShown`, `OfferedAllowed`, `EventsDeliveredOnce`, `QueryCurrent`, `OwnWriteShown` | `TypeOK`, `StoreIsShown`, `OfferedIsAllowed`, `DeliveredOnce`, `CacheCurrent`, `OwnWritesShown` |
| `SumTheorems` | `SumRemove` and the laws that follow from it; `GreedyLegs`, `LargestFirst` about the planner's loop | |

**The engine** (`InventoryProofs`; assumes that `MaxInt` is a natural, quantities
are positive, safety levels natural and `NoWorker` is no worker). What a commit
publishes depends on what the transaction saw when it locked, so the inductive
invariant `Inv` adds

* `ControlInv`: where a worker is in its script, that it holds the row it is
  about to write, that an idle worker holds none, and that its script is
  *disciplined* (whatever promises units requires availability; in a transaction
  of several movements whatever lowers availability requires it);
* `WorkInv`: a locked row, as its transaction sees it, is the committed row plus
  the transaction's pending deltas, is valid, and if it promises more than the
  committed row, its availability is non-negative; an unlocked row has nothing
  pending.

`ScriptsDisciplined` shows it of the transactions the services run. One lemma
per action then preserves `Inv`; `WriteMovementInv` is the heart. `NoOversell`
follows because only a commit changes a snapshot and a commit publishes
`work`. A safety-stock change is harmless to it because the upsert waits for
the row lock.

For the refinement, `SerialInv` says what a transaction in progress could have
done in one go on the rows committed *by now*: after its first movement, that the
movement passes its check on the committed rows and the rows it holds are theirs
with the movement applied (`OneDone`), and the same for two (`TwoDone`). It is
kept by the other workers' steps because they can change neither a locked row nor
its safety stock (`SerialKept`), so at the commit the whole script is legal at
once (`CommitRefines`) and every other step leaves stock and answers alone or is
the abstract answer or safety-stock step (`NextRefines`).

**Reconciliation.** A repair that raced a movement leaves snapshot and ledger
apart, so the engine's `Inv` is not an invariant here. What survives
(`EngineInv`: types, and a locked row seen as the committed row plus what is
pending) still implies that a commit which adds nothing to the ledger moves no
snapshot, which is what `quiet` has to mean. `PassInv` adds what a quiet pass has
done to the rows behind it: when reporting, `entries` is their drift; when
repairing, they equal the ledger.

**Inbound.** The handlers are engine transactions, so `Inv` and `SerialInv` carry
over and a commit has the effect of its script on the committed rows. The sums
follow from `SumTheorems`. A row's `receivedQty` may be behind after overlapping
receipts, so `ArrivalInv` says there *is* a number of units of each delivery that
really arrived which accounts for `inTransit` exactly, and of which the row, and
each open receipt, knows at most (exactly, unless receipts overlapped).
`Locations` is finite. The engine's own promises hold of the composition too
(`InboundKeepsLedger`, `InboundNeverOversells`).

**Reservations.** The table of holds and the rows change in one commit, but a
script is built line by line and written movement by movement. `RvInv` keeps the
two in step in between: what is pending on a row is what the script has written
so far (`TxAt`); the script of a reserve asks for exactly the lines planned so
far, and that of a release gives back one hold (`JobAt`). So at a commit the
reserved units grow by what the new holds hold. What a plan adds up to is
`GreedyLegs`. Two releases of one hold lower the row twice, so `Backed` bounds
the rows by the active holds and cannot say they are equal (the finding). The
types need `JobsFound` besides: the expiry jobs are of holds in the table.
A transaction here may have any number of movements, but each of them is
disciplined, so the engine's `Inv` holds again (`ReservationsOnEngine`; a reserve
that found nothing commits an empty script, `EmptyCommit`), and with it ledger
consistency and no oversell, whatever the double releases do to the holds.
`Locations` is finite, `ShipFrom` lies in it, line quantities are positive and the
initial stock fits its column.

**Sourcing.** Of the planner: each strategy's comparator orders the candidates,
and on any order the loop gives out as much as there is, empties a node before it
turns to the next, and visits each once (`GreedyLegs`); largest first needs no
more nodes than any other choice (`LargestFirst`). From these `PlanKept` says
what the plan of an open transaction promises of the stock it *read*. Of the
transactions: `Books` says the private changes of a sourcing are the hold it gave
back less the legs it has applied, on rows it has locked, never below zero and never
more than is reserved; `Stage` says the holds it has read still stand or another
sourcing of its order has consumed them. So each commit and each rollback conserves
units, except where a commit releases a hold that was consumed (`twice`). `CapKept`
speaks of behaviours in which no two sourcings overlapped, for any number of calls.
Orders, calls and nodes are finite, and a known distance is less than the infinity
that stands for an unknown one.

**ChannelSync.** A drain publishes figures it read some steps ago through a cache,
and then marks the rows that accounted for the drift. `Inv` says of a cached
figure that it is right, about to be deleted, or has a cause (`CacheCause`); of a
drain that every figure it holds is right or has a cause other than the drain's
own rows, and that each of those rows has its figure still to come, at hand, or
at every channel (`Drains`). Most steps then keep two things: causes stay, and a
figure changes only for a cause (`KeepsAll`). Nothing limits the number of drains. One
drain's rows are a cause for another's figures until they are marked, which would
leave a figure without one; so a drain only ever has figures of SKUs of its own rows
(`Mine`), and `Mark` and `Overtaken` give such a SKU a cause that stays. Locations
are finite, batches and pages are not empty.

**OrderLifecycle.** All of it holds for any number of overlapping handlers and for
any number of nodes, units, shipments, sourcings, validations and crashes; no
hypothesis keeps handlers apart. `ShipmentsAdvance` says of every step what it may do
to a shipment: forward in its life, or with its `stale` write on record. Each property
then has an invariant of its own on top of the types. `RollInv`: the stage a rollup
has read is one the shipments have reached. `CancelInv`: a cancel under way has every
open allocation in the list it has left to free, and none is open when it comes to
CANCELLED. `PayInv`: money is taken only for an order handed over, so a cancel that has
read the payment as captured reaches the gateway only if the status was moved back;
what a handler is about to record the gateway has done. `UnitsAccounted` counts: every
movement of a node's units goes with the allocation it is about, and `CountChange` says
what one shipment's change does to the count. `Nodes` is finite.

**Returns.** The refund is paid long after the receipt that earned it. `RefundInv`
therefore bounds what was paid *plus* what every handler between its commit and
its gateway call may still pay by what all receipts are worth. `StockInv` counts the
shelf by receipts; `OverlapInv` says that an RMA no two handlers read as REQUESTED
together has at most one, since whoever is about to receive it is alone and finds it
REQUESTED. `RestockAccounted` and the second half of `RefundsEarned` follow from the
two. `MarkInv` says
whoever is about to mark the order has seen it all back and, as long as nobody
died, while it is all back and unmarked somebody is about to look. There is at
least one line; lines and workers are finite.

**Ingestion.** For channels, `ConnectInv`: a nonce, a callback under way and a
connected channel each vouch for an install somebody began, and (tenant, name) is
unique. For orders, `OrderInv`: overlapping runs of one key are exposed
(`OverlapInv`); a run that is not is the first its key has seen (`FreeInv`), and
its order has its key stored or about to be (`StoredInv`); stored answers are
true of the body they were computed for (`KeysInv`), and a cancellation, once written,
is there or was written over by a transition that had read the order before it
(`DeliveryInv`). `MessagesAssumption` says
what bodies and Shopify ids are: the ref is part of the body, and an id names
one event.

**Console.** Six parts, each resting on the ones before: `SessionInv` (a staged
sign-in is the only stored session the screen does not show), `PageInv` (a click
under way was offered to the credential it is sent with), `OnceInv` (every event
id is in one place on its way, and the ids still to be given out are in none),
`TabTypes`, `FreshInv` (the data held, or on its way in an answer, is current, or
news of the rest is on its way) and `OwnInv` (it is at least the tab's own last
write). Both speak of times when nothing was missed since the last fetch was sent and
no fetch is waiting to be answered (`Holding`); a fetch that is kept by `Refetch` still
waits, or its answer is known to be old.

**Sums.** The library's folds take elements out by `CHOOSE`. That this has a
value, and that any element may be taken out first (`SumRemove`), is proved with
minimal counterexamples (`LeastNumber`, `FiniteInduction`), which take a set
where an induction rule would take a predicate the provers cannot instantiate.
The loop of `Planner` is written with sums too: what is left at a candidate is the
quantity less the sum of what came before. So what it computes for every list of
candidates follows from the laws of sums, without an induction of its own.

Only model-checked: liveness (`DueHoldsExpire`, `DeliveryRollsUp`,
`TransactionsEnd`, `CacheHeals`, `RowsArePublished`, `OrdersArrive`,
`SourcingEnds`), since the prover has no reasoning about fairness here. Every
safety property of a passing run is stated by a theorem. `HoldsBacked`, which the
run `DoubleRelease` refutes, is none.

## 5. Not modelled

Reporting and the AI forecast (read-only aggregates, floating-point statistics
and a language model's answer), logging, metrics, health checks and bootstrap.
Of modelled components: HTTP and DTO parsing, tax and promotion arithmetic,
great-circle distances (only their order and absence), password hashing and
token signatures, encryption of stored secrets, intervals and delays, creation
of users and API keys, the rest of the catalog (single statements nobody races
with), and layout, forms and tables of the console. Tenancy is modelled where
tenants can meet (`Ingestion`, `Console`); elsewhere every query carries the
tenant id. `PROJECT.json` gives the reason for each component.

## 6. Plan

1. `Reservations` and `Inbound` shown to implement `StockLedger` as well.
   `StockLedger` performs transactions of one or two movements; a reserve of an
   order has as many as its plan has legs, so the abstract step has to take a
   script of any length first.
2. `OrderLifecycle` over `Sourcing`'s plans instead of a free choice of nodes.
3. `CacheCurrent` without the excuse of the first fetch, once the console refetches
   what was invalidated meanwhile.
