---------------------------- MODULE Reservations ----------------------------
(***************************************************************************)
(* Soft holds with a TTL (reservations.service.ts, reservation.processor)  *)
(* on top of the movement engine.  API workers reserve and cancel orders;  *)
(* queue workers run the delayed expire-one jobs and the periodic sweep.   *)
(* Every database write of theirs is a transaction of module Inventory;    *)
(* the reads that decide on it take no lock, and that is where they race.  *)
(***************************************************************************)
EXTENDS Inventory, Planner

CONSTANTS
  Orders,
  Lines,          \* order -> its lines, a sequence of [sku, qty]
  Cancellable,    \* the orders their customers may cancel
  AllowBackorder, \* the orders that accept a partial reservation
  ShipFrom,       \* the active locations with shipFromEnabled
  Priority,       \* location -> fulfillmentPriority (lower first)
  InitialStock,   \* row -> on-hand units received before the model starts
  ApiWorkers,     \* workers serving HTTP requests
  JobWorkers,     \* workers consuming the reservation queue
  MaxAttempts,    \* attempts of retryOnConflict (4 in the code)
  MaxHolds,       \* bound: no reserve starts once so many holds exist
  MaxCrashes      \* bound on the crashes of one behaviour

ASSUME ReservationsAssumption ==
  /\ ApiWorkers \cup JobWorkers = Workers
  /\ IsFiniteSet(Locations) /\ ShipFrom \subseteq Locations
  /\ Lines \in [Orders -> Seq([sku : Skus, qty : Nat \ {0}])]
  /\ InitialStock \in [Rows -> 0 .. MaxInt]
  /\ AllowBackorder \subseteq Orders /\ Cancellable \subseteq Orders
  /\ MaxAttempts \in Nat \ {0}

VARIABLES
  holds,    \* the Reservation table; a hold's id is its place in it
  task,     \* what each worker is doing
  jobs,     \* ids with a pending expire-one job
  crashes

rvVars == <<holds, task, jobs, crashes>>
allVars == <<vars, rvVars>>

NoTask == [kind |-> "none"]
ReserveTask(o) == [kind |-> "reserve", order |-> o, line |-> 1,
                   attempt |-> 1, created |-> {}]
ReleaseTask(k, ids) == [kind |-> k, queue |-> ids, hold |-> 0]

Ids == 1 .. Len(holds)
ActiveIds == { h \in Ids : holds[h].status = "ACTIVE" }
QtyOf(ids) == Sum([h \in ids |-> holds[h].qty], ids)
QtyOn(ids, r) == QtyOf({ h \in ids : holds[h].row = r })

RvInit ==
  /\ InitWith([r \in Rows |-> [ZeroBuckets EXCEPT !["onHand"] = InitialStock[r]]])
  /\ holds = << >>
  /\ task = [p \in Workers |-> NoTask]
  /\ jobs = {}
  /\ crashes = 0

-----------------------------------------------------------------------------
(* reserveForOrder *)

(* A row as the transaction of p sees it: its own writes, else committed. *)
Seen(p, r) == IF lock[r] = p THEN work[p][r] ELSE snapshot[r]
SeenAvailable(p, r) == Availability(Seen(p, r), safetyStock[r])

(* planLine: the candidates in priority order, better stocked first within  *)
(* a priority, each giving what is left to give.  Ties come in any order.   *)
Plans(p, line) ==
  LET available == [l \in ShipFrom |-> SeenAvailable(p, <<line.sku, l>>)]
      candidates == { l \in ShipFrom : available[l] > 0 }
      n == Cardinality(candidates)
      sorted == { f \in [1 .. n -> candidates] :
                    \A i, j \in 1 .. n : i < j =>
                      /\ f[i] # f[j]
                      /\ \/ Priority[f[i]] < Priority[f[j]]
                         \/ /\ Priority[f[i]] = Priority[f[j]]
                            /\ available[f[i]] >= available[f[j]] }
  IN  { Greedy(f, available, line.qty) : f \in sorted }

Short(plan, line) == Planned(plan) < line.qty

(* One RESERVE per leg. *)
Holding(plan, line) ==
  [i \in DOMAIN plan |-> Reserve(<<line.sku, plan[i].node>>, plan[i].quantity)]

StartReserve(p, o) ==
  /\ p \in ApiWorkers /\ task[p] = NoTask
  /\ Len(holds) < MaxHolds
  /\ task' = [task EXCEPT ![p] = ReserveTask(o)]
  /\ UNCHANGED <<vars, holds, jobs, crashes>>

LinesLeft(p) == task[p].line <= Len(Lines[task[p].order])
LineOf(p) == Lines[task[p].order][task[p].line]

(* Mutant of PlanLine: a shortage is accepted whatever the order allows. *)
PlanLineShort(p) ==
  /\ task[p].kind = "reserve" /\ LinesLeft(p)
  /\ pc[p] \in {"idle", "commit"}
  /\ \E plan \in Plans(p, LineOf(p)) :
       /\ script' = [script EXCEPT ![p] = @ \o Holding(plan, LineOf(p))]
       /\ pc' = [pc EXCEPT ![p] = IF plan = << >> THEN "commit" ELSE "lock"]
  /\ task' = [task EXCEPT ![p].line = @ + 1]
  /\ UNCHANGED <<snapshot, safetyStock, ledger, lock, step, work, pending,
                 outbox, holds, jobs, crashes>>

(* The next line of the order is planned, inside the transaction. *)
PlanLine(p) ==
  /\ task[p].kind = "reserve" /\ LinesLeft(p)
  /\ pc[p] \in {"idle", "commit"}
  /\ \E plan \in Plans(p, LineOf(p)) :
       /\ Short(plan, LineOf(p)) => task[p].order \in AllowBackorder
       /\ script' = [script EXCEPT ![p] = @ \o Holding(plan, LineOf(p))]
       /\ pc' = [pc EXCEPT ![p] = IF plan = << >> THEN "commit" ELSE "lock"]
  /\ task' = [task EXCEPT ![p].line = @ + 1]
  /\ UNCHANGED <<snapshot, safetyStock, ledger, lock, step, work, pending,
                 outbox, holds, jobs, crashes>>

(* A line the network cannot cover: the whole order's holds roll back. *)
RefuseReserve(p) ==
  /\ task[p].kind = "reserve" /\ LinesLeft(p)
  /\ pc[p] \in {"idle", "commit"}
  /\ task[p].order \notin AllowBackorder
  /\ \E plan \in Plans(p, LineOf(p)) : Short(plan, LineOf(p))
  /\ Rollback(p)
  /\ task' = [task EXCEPT ![p] = NoTask]
  /\ UNCHANGED <<holds, jobs, crashes>>

(* retryOnConflict: a conflict or a deadlock plans the order afresh. *)
RetryReserve(p) ==
  /\ task[p].kind = "reserve"
  /\ RejectMovement(p) \/ DeadlockVictim(p)
  /\ task' = [task EXCEPT ![p] =
                IF task[p].attempt < MaxAttempts
                THEN [task[p] EXCEPT !.line = 1, !.attempt = task[p].attempt + 1]
                ELSE NoTask]
  /\ UNCHANGED <<holds, jobs, crashes>>

CommitReserve(p) ==
  /\ task[p].kind = "reserve" /\ ~ LinesLeft(p)
  /\ Commit(p)
  /\ holds' = holds \o
       [i \in 1 .. Len(script[p]) |->
          [order |-> task[p].order, row |-> script[p][i].row,
           qty |-> script[p][i].deltas["reserved"],
           status |-> "ACTIVE", due |-> FALSE]]
  /\ task' = [task EXCEPT ![p].created =
                Len(holds) + 1 .. Len(holds) + Len(script[p])]
  /\ UNCHANGED <<jobs, crashes>>

(* scheduleExpiry, after the invalidation: the delayed expire-one jobs. *)
ScheduleExpiry(p) ==
  /\ task[p].kind = "reserve" /\ ~ LinesLeft(p) /\ pc[p] = "idle"
  /\ jobs' = jobs \cup task[p].created
  /\ task' = [task EXCEPT ![p] = NoTask]
  /\ UNCHANGED <<vars, holds, crashes>>

-----------------------------------------------------------------------------
(* release, and what calls it *)

(* releaseForOrder, the reservation part of cancelling an order: the list   *)
(* of active holds is read once, before any of them is released.            *)
StartCancel(p, o) ==
  LET ids == { h \in ActiveIds : holds[h].order = o }
  IN  /\ p \in ApiWorkers /\ task[p] = NoTask
      /\ o \in Cancellable /\ ids # {}
      /\ task' = [task EXCEPT ![p] = ReleaseTask("cancel", ids)]
      /\ UNCHANGED <<vars, holds, jobs, crashes>>

(* Mutant of StartSweep: only holds whose delayed job exists are swept. *)
SweepScheduled(p) ==
  LET ids == { h \in ActiveIds \cap jobs : holds[h].due }
  IN  /\ p \in JobWorkers /\ task[p] = NoTask
      /\ ids # {}
      /\ task' = [task EXCEPT ![p] = ReleaseTask("sweep", ids)]
      /\ UNCHANGED <<vars, holds, jobs, crashes>>

(* sweepExpired, run by the repeating scheduler job. *)
StartSweep(p) ==
  LET ids == { h \in ActiveIds : holds[h].due }
  IN  /\ p \in JobWorkers /\ task[p] = NoTask
      /\ ids # {}
      /\ task' = [task EXCEPT ![p] = ReleaseTask("sweep", ids)]
      /\ UNCHANGED <<vars, holds, jobs, crashes>>

(* The delayed job of one hold, picked up once its delay has passed. *)
StartExpireOne(p, h) ==
  /\ p \in JobWorkers /\ task[p] = NoTask
  /\ h \in jobs /\ holds[h].due
  /\ jobs' = jobs \ {h}
  /\ task' = [task EXCEPT ![p] = ReleaseTask("expire", {h})]
  /\ UNCHANGED <<vars, holds, crashes>>

Releasing(p) == task[p].kind \in {"cancel", "sweep", "expire"}

(* Mutant of ReadActiveHold: the hold is claimed before, and outside, the   *)
(* transaction that gives its units back.                                   *)
ClaimHoldFirst(p, h) ==
  /\ Releasing(p) /\ h \in task[p].queue
  /\ holds[h].status = "ACTIVE"
  /\ Begin(p, <<ReleaseReserve(holds[h].row, holds[h].qty)>>)
  /\ holds' = [holds EXCEPT ![h].status = "RELEASED"]
  /\ task' = [task EXCEPT ![p].hold = h]
  /\ UNCHANGED <<jobs, crashes>>

(* release reads the hold without locking it; an active one opens a         *)
(* transaction that gives its units back.                                   *)
ReadActiveHold(p, h) ==
  /\ Releasing(p) /\ h \in task[p].queue
  /\ holds[h].status = "ACTIVE"
  /\ Begin(p, <<ReleaseReserve(holds[h].row, holds[h].qty)>>)
  /\ task' = [task EXCEPT ![p].hold = h]
  /\ UNCHANGED <<holds, jobs, crashes>>

SkipHold(p, h) ==
  /\ Releasing(p) /\ pc[p] = "idle" /\ h \in task[p].queue
  /\ holds[h].status # "ACTIVE"
  /\ task' = [task EXCEPT ![p].queue = @ \ {h}]
  /\ UNCHANGED <<vars, holds, jobs, crashes>>

(* The hold's status is overwritten in the transaction of its movement. *)
CommitRelease(p) ==
  /\ Releasing(p)
  /\ Commit(p)
  /\ holds' = [holds EXCEPT ![task[p].hold].status =
                 IF task[p].kind = "cancel" THEN "RELEASED" ELSE "EXPIRED"]
  /\ task' = [task EXCEPT ![p].queue = @ \ {task[p].hold}, ![p].hold = 0]
  /\ UNCHANGED <<jobs, crashes>>

EndRelease(p) ==
  /\ Releasing(p) /\ pc[p] = "idle" /\ task[p].queue = {}
  /\ task' = [task EXCEPT ![p] = NoTask]
  /\ UNCHANGED <<vars, holds, jobs, crashes>>

(* What becomes of an expire-one job whose run failed: the queue retries    *)
(* it, or has used up its attempts.                                         *)
JobAfterFailure(p) ==
  jobs' \in IF task[p].kind = "expire" THEN {jobs, jobs \cup task[p].queue}
                                       ELSE {jobs}

(* release throws: the loop around it ends with its remaining holds unread. *)
(* Its transaction locks one row, so it is never a deadlock victim.         *)
FailRelease(p) ==
  /\ Releasing(p)
  /\ RejectMovement(p)
  /\ JobAfterFailure(p)
  /\ task' = [task EXCEPT ![p] = NoTask]
  /\ UNCHANGED <<holds, crashes>>

-----------------------------------------------------------------------------
(* The steps a transaction takes inside the movement engine. *)
EngineStep(p) ==
  /\ LockRow(p) \/ WriteMovement(p) \/ Invalidate(p)
  /\ UNCHANGED rvVars

CrashWorker(p) ==
  /\ task[p] # NoTask /\ crashes < MaxCrashes
  /\ crashes' = crashes + 1
  /\ Rollback(p)
  /\ JobAfterFailure(p)
  /\ task' = [task EXCEPT ![p] = NoTask]
  /\ UNCHANGED holds

(* The clock passes a hold's expiresAt. *)
TtlPasses(h) ==
  /\ ~ holds[h].due
  /\ holds' = [holds EXCEPT ![h].due = TRUE]
  /\ UNCHANGED <<vars, task, jobs, crashes>>

RvNext ==
  \/ \E p \in Workers :
       \/ \E o \in Orders : StartReserve(p, o) \/ StartCancel(p, o)
       \/ PlanLine(p) \/ RefuseReserve(p) \/ RetryReserve(p)
       \/ CommitReserve(p) \/ ScheduleExpiry(p)
       \/ StartSweep(p)
       \/ \E h \in Ids : \/ StartExpireOne(p, h)
                          \/ ReadActiveHold(p, h)
                          \/ SkipHold(p, h)
       \/ CommitRelease(p) \/ EndRelease(p) \/ FailRelease(p)
       \/ EngineStep(p) \/ CrashWorker(p)
  \/ \E h \in Ids : TtlPasses(h)

RvSpec == RvInit /\ [][RvNext]_allVars

(* The clock advances, the scheduler keeps enqueueing sweeps, the queue     *)
(* keeps delivering, and a running statement completes; nothing makes a     *)
(* customer order or cancel, and crashes are bounded.                       *)
RvFairness ==
  /\ \A h \in 1 .. MaxHolds : WF_allVars(h \in Ids /\ TtlPasses(h))
  /\ \A p \in Workers :
       /\ SF_allVars(StartSweep(p))
       /\ SF_allVars(EngineStep(p))
       /\ WF_allVars(\E h \in Ids : ReadActiveHold(p, h) \/ SkipHold(p, h))
       /\ WF_allVars(PlanLine(p) \/ RefuseReserve(p) \/ RetryReserve(p)
                       \/ CommitReserve(p) \/ ScheduleExpiry(p))
       /\ WF_allVars(CommitRelease(p) \/ EndRelease(p) \/ FailRelease(p))

RvFairSpec == RvSpec /\ RvFairness

-----------------------------------------------------------------------------
RvTypeOK ==
  /\ TypeOK
  /\ \A h \in Ids :
       /\ holds[h].order \in Orders /\ holds[h].row \in Rows
       /\ holds[h].qty \in Nat \ {0}
       /\ holds[h].status \in {"ACTIVE", "RELEASED", "EXPIRED"}
  /\ jobs \subseteq Ids
  /\ \A p \in Workers : Releasing(p) => task[p].queue \subseteq Ids

(* Reserved units are never stranded: whatever crashes, every reserved unit *)
(* belongs to an ACTIVE hold, which some release can still find.            *)
NoStrandedUnits ==
  \A r \in Rows : snapshot[r]["reserved"] <= QtyOn(ActiveIds, r)

(* Units of a SKU held for an order by all its holds, and in its lines. *)
OrderQty(o, s) ==
  QtyOf({ h \in Ids : holds[h].order = o /\ SkuOf(holds[h].row) = s })
LinesQty(o, s, n) ==
  LET L == { i \in 1 .. n : Lines[o][i].sku = s }
  IN  Sum([i \in L |-> Lines[o][i].qty], L)

(* reserveForOrder, "a line that can't be fully covered rolls the whole     *)
(* order's holds back": the holds ever created for an order that refuses    *)
(* backorder are those of k whole orders, k successful calls, although      *)
(* the plan was made on availability read without locks.                    *)
ReserveAllOrNothing ==
  \A o \in Orders \ AllowBackorder : \E k \in 0 .. Len(holds) :
    \A s \in Skus : OrderQty(o, s) = k * LinesQty(o, s, Len(Lines[o]))

(* reservations.service.ts:20-22, a hold "can guarantee stock through       *)
(* checkout", and :149, release is "idempotent": each row keeps reserved    *)
(* exactly the units of its ACTIVE holds.                                   *)
HoldsBacked ==
  \A r \in Rows : snapshot[r]["reserved"] = QtyOn(ActiveIds, r)

(* reservations.service.ts:22-24, "Holds expire automatically": an ACTIVE   *)
(* hold past its TTL is released in the end, even if its worker crashed     *)
(* before it scheduled the expire-one job.                                  *)
DueHoldsExpire ==
  \A h \in 1 .. MaxHolds :
    (h \in ActiveIds /\ holds[h].due) ~> (h \notin ActiveIds)
=============================================================================
