--------------------------- MODULE Reconciliation ---------------------------
(***************************************************************************)
(* The integrity pass (reconciliation.service.ts) running beside the       *)
(* movement engine: it sums the ledger, then reads the snapshots, then     *)
(* walks the rows that differ, reporting them and, in repair mode,         *)
(* overwriting each with its ledger sum.  The three statements are         *)
(* separate: no transaction and no row lock covers the pass, so movements  *)
(* commit between them.                                                    *)
(***************************************************************************)
EXTENDS Inventory

CONSTANTS
  RepairModes,  \* {FALSE} for the scheduled job, TRUE for the admin endpoint
  MaxPasses     \* bound on the passes of one behaviour

ASSUME PassesAssumption == RepairModes \subseteq BOOLEAN /\ MaxPasses \in Nat

VARIABLES
  rpc,      \* "idle", "snapshots", "rows" or "report"
  repair,   \* the mode of the pass
  derived,  \* the ledger sums it has read
  seen,     \* the snapshots it has read
  todo,     \* rows it has not compared yet
  entries,  \* rows it reports as drifted
  quiet,    \* history: no movement committed since the pass began
  passes    \* passes begun so far

reconVars == <<rpc, repair, derived, seen, todo, entries, quiet, passes>>
rVars == <<vars, reconVars>>

RInit ==
  /\ Init
  /\ rpc = "idle" /\ repair = FALSE
  /\ derived = ClearRows /\ seen = ClearRows
  /\ todo = {} /\ entries = {}
  /\ quiet = TRUE /\ passes = 0

(* groupBy over the ledger: one statement, one consistent view. *)
ReadLedger(m) ==
  /\ rpc = "idle" /\ passes < MaxPasses
  /\ passes' = passes + 1
  /\ rpc' = "snapshots" /\ repair' = m
  /\ derived' = ledger
  /\ entries' = {} /\ quiet' = TRUE
  /\ UNCHANGED <<vars, seen, todo>>

(* findMany over the snapshots: a later statement with a later view. *)
ReadSnapshots ==
  /\ rpc = "snapshots"
  /\ rpc' = "rows"
  /\ seen' = snapshot
  /\ todo' = Rows
  /\ UNCHANGED <<vars, repair, derived, entries, quiet, passes>>

(* Mutant of Differs: only the on-hand bucket is compared. *)
DiffersOnHand(r) == seen[r]["onHand"] # derived[r]["onHand"]
Differs(r) == \E b \in Bucket : seen[r][b] # derived[r][b]
FitsColumns(x) == \A b \in Bucket : x[b] \in -MaxInt - 1 .. MaxInt

SkipRow(r) ==
  /\ rpc = "rows" /\ r \in todo /\ ~ Differs(r)
  /\ todo' = todo \ {r}
  /\ UNCHANGED <<vars, rpc, repair, derived, seen, entries, quiet, passes>>

(* Report only: the entry is all that is written. *)
ReportRow(r) ==
  /\ rpc = "rows" /\ r \in todo /\ Differs(r)
  /\ ~ repair
  /\ todo' = todo \ {r}
  /\ entries' = entries \cup {r}
  /\ UNCHANGED <<vars, rpc, repair, derived, seen, quiet, passes>>

(* The unconditional UPDATE of a drifted row; like any UPDATE it waits for  *)
(* the row lock, and it appends nothing to the outbox.                      *)
RepairRow(r) ==
  /\ rpc = "rows" /\ r \in todo /\ Differs(r)
  /\ repair
  /\ lock[r] = NoWorker
  /\ FitsColumns(derived[r])
  /\ snapshot' = [snapshot EXCEPT ![r] = derived[r]]
  /\ todo' = todo \ {r}
  /\ entries' = entries \cup {r}
  /\ UNCHANGED <<safetyStock, ledger, lock, pc, script, step, work, pending,
                 outbox, rpc, repair, derived, seen, quiet, passes>>

FinishPass ==
  /\ rpc = "rows" /\ todo = {}
  /\ rpc' = "report"
  /\ UNCHANGED <<vars, repair, derived, seen, todo, entries, quiet, passes>>

(* The report is returned, or the pass dies half way: a crash, or a sum     *)
(* that no longer fits its column.  Rows repaired so far stay repaired.     *)
EndPass ==
  /\ rpc # "idle"
  /\ rpc' = "idle"
  /\ repair' = FALSE
  /\ derived' = ClearRows /\ seen' = ClearRows
  /\ todo' = {} /\ entries' = {}
  /\ quiet' = TRUE
  /\ UNCHANGED <<vars, passes>>

(* A movement beside the pass. *)
MoveBeside ==
  /\ Next
  /\ quiet' = (quiet /\ ledger' = ledger)
  /\ UNCHANGED <<rpc, repair, derived, seen, todo, entries, passes>>

RNext ==
  \/ MoveBeside
  \/ \E m \in RepairModes : ReadLedger(m)
  \/ ReadSnapshots
  \/ \E r \in Rows : SkipRow(r) \/ ReportRow(r) \/ RepairRow(r)
  \/ FinishPass
  \/ EndPass

RSpec == RInit /\ [][RNext]_rVars

-----------------------------------------------------------------------------
RTypeOK ==
  /\ TypeOK
  /\ rpc \in {"idle", "snapshots", "rows", "report"}
  /\ repair \in BOOLEAN /\ quiet \in BOOLEAN
  /\ derived \in [Rows -> Buckets] /\ seen \in [Rows -> Buckets]
  /\ todo \subseteq Rows /\ entries \subseteq Rows
  /\ passes \in 0 .. MaxPasses

(* admin.controller.ts:15: a pass during which no movement committed tells  *)
(* the truth.  Repairing, it leaves every snapshot equal to its ledger sum, *)
(* even if an earlier pass had raced a movement and left the two apart;     *)
(* reporting, it lists exactly the rows where they differ.                  *)
QuietPassExact ==
  rpc = "report" /\ quiet =>
    IF repair THEN snapshot = ledger
    ELSE entries = { r \in Rows : snapshot[r] # ledger[r] }

=============================================================================
