----------------------------- MODULE Movements -----------------------------
(***************************************************************************)
(* The vocabulary of inventory movements: the buckets of a snapshot row,   *)
(* the signed deltas of each kind of movement, and the validation every    *)
(* movement passes before it is written (inventory.types.ts and the        *)
(* primitives and `validate` of inventory.service.ts).                     *)
(*                                                                         *)
(* A row is one (sku, location) pair.  Tenants are not modelled: every     *)
(* query of the services carries the tenant in its WHERE clause, so two    *)
(* tenants never share a row.                                              *)
(***************************************************************************)
EXTENDS Integers, Sequences, FiniteSets

CONSTANTS
  Skus,        \* the SKUs of one tenant
  Locations,   \* its stocking locations
  MaxInt       \* the largest value of an integer column (2^31 - 1 in Postgres)

ASSUME MaxIntAssumption == MaxInt \in Nat

Rows == Skus \X Locations
SkuOf(r) == r[1]

Bucket == {"onHand", "reserved", "allocated", "inTransit", "damaged"}
Buckets == [Bucket -> Int]
ZeroBuckets == [b \in Bucket |-> 0]

(* current + deltas, bucket by bucket *)
Plus(a, d) == [b \in Bucket |-> a[b] + d[b]]

(* Stock that may still be promised; may be negative. *)
Availability(b, safety) ==
  b["onHand"] - b["reserved"] - b["allocated"] - safety

(* Units held for customers, softly or hard. *)
PromisedUnits(b) == b["reserved"] + b["allocated"]

-----------------------------------------------------------------------------
(* MovementParams: eventType, the row, the deltas, requireAvailable. *)

EventType ==
  { "RECEIPT", "ADJUSTMENT", "RESERVE", "RELEASE_RESERVE", "ALLOCATE",
    "DEALLOCATE", "CONVERT_RESERVE_TO_ALLOC", "SHIP", "RETURN",
    "DAMAGE", "TRANSFER_OUT", "TRANSFER_IN", "INBOUND_CREATE", "INBOUND_ARRIVE" }

Movement ==
  [event : EventType, row : Rows, deltas : Buckets, requireAvailable : BOOLEAN]

Move(e, r, d, req) ==
  [event |-> e, row |-> r, deltas |-> d, requireAvailable |-> req]

Deltas(onHand, reserved, allocated, inTransit) ==
  [ZeroBuckets EXCEPT !["onHand"] = onHand,
                      !["reserved"] = reserved,
                      !["allocated"] = allocated,
                      !["inTransit"] = inTransit]

Receive(r, q)        == Move("RECEIPT", r, Deltas(q, 0, 0, 0), FALSE)
Adjust(r, d)         == Move("ADJUSTMENT", r, Deltas(d, 0, 0, 0), FALSE)
Reserve(r, q)        == Move("RESERVE", r, Deltas(0, q, 0, 0), TRUE)
ReleaseReserve(r, q) == Move("RELEASE_RESERVE", r, Deltas(0, -q, 0, 0), FALSE)
(* Mutant of Allocate: the caller's read of ATP is trusted and the          *)
(* availability guard is off.                                              *)
AllocateUnguarded(r, q) == Move("ALLOCATE", r, Deltas(0, 0, q, 0), FALSE)
Allocate(r, q)       == Move("ALLOCATE", r, Deltas(0, 0, q, 0), TRUE)
Deallocate(r, q)     == Move("DEALLOCATE", r, Deltas(0, 0, -q, 0), FALSE)
ConvertReserveToAllocation(r, q) ==
  Move("CONVERT_RESERVE_TO_ALLOC", r, Deltas(0, -q, q, 0), FALSE)
Ship(r, q)           == Move("SHIP", r, Deltas(-q, 0, -q, 0), FALSE)
ReturnStock(r, q)    == Move("RETURN", r, Deltas(q, 0, 0, 0), FALSE)
CreateInbound(r, q)  == Move("INBOUND_CREATE", r, Deltas(0, 0, 0, q), FALSE)
ArriveInbound(r, q)  == Move("INBOUND_ARRIVE", r, Deltas(q, 0, 0, -q), FALSE)
TransferOut(r, q)    == Move("TRANSFER_OUT", r, Deltas(-q, 0, 0, 0), TRUE)
TransferIn(r, q)     == Move("TRANSFER_IN", r, Deltas(q, 0, 0, 0), FALSE)

(* Mutant of Validates: only availability is looked at, not the buckets. *)
ValidatesAvailabilityOnly(next, safety, m) ==
  /\ \A b \in Bucket : next[b] <= MaxInt
  /\ m.requireAvailable => Availability(next, safety) >= 0

(* validate(next, params) throws nothing: no negative bucket, and no       *)
(* negative availability when the movement requires it.  The integer       *)
(* columns refuse what does not fit them.                                  *)
Validates(next, safety, m) ==
  /\ \A b \in Bucket : next[b] \in 0 .. MaxInt
  /\ m.requireAvailable => Availability(next, safety) >= 0
=============================================================================
