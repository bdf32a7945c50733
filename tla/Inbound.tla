------------------------------- MODULE Inbound -------------------------------
(***************************************************************************)
(* Expected deliveries (inbound.service.ts) on top of the movement engine: *)
(* creating one puts its units in transit, receiving all or part of it     *)
(* moves them on hand.  Each handler is one transaction of module          *)
(* Inventory that also writes the Inbound row; receive reads that row      *)
(* without locking it, before it waits for the snapshot row.  Other        *)
(* workers transfer stock between the locations meanwhile.                 *)
(***************************************************************************)
EXTENDS Inventory, Sums

CONSTANTS
  DeliverySizes,  \* quantities of the deliveries created (the DTO demands >= 1)
  MaxInbounds     \* bound on their number

ASSUME InboundAssumption ==
  /\ DeliverySizes \subseteq Nat \ {0} /\ MaxInbounds \in Nat
  /\ IsFiniteSet(Locations)

VARIABLES
  inbounds,  \* the Inbound table: [row, quantity, receivedQty, status], and
             \* whether two receipts of it were ever open at once
  purpose    \* what the transaction of each worker is for

inbVars == <<vars, inbounds, purpose>>

NoPurpose == [kind |-> "none", id |-> 0, received |-> 0]

InbInit ==
  /\ Init
  /\ inbounds = << >>
  /\ purpose = [p \in Workers |-> NoPurpose]

(* Mutant of StartCreate: the row is inserted before the transaction. *)
StartCreateOutside(p, r, q) ==
  /\ Len(inbounds) < MaxInbounds
  /\ Begin(p, <<CreateInbound(r, q)>>)
  /\ inbounds' = Append(inbounds, [row |-> r, quantity |-> q, receivedQty |-> 0,
                                   status |-> "EXPECTED", overlapped |-> FALSE])
  /\ purpose' = [purpose EXCEPT ![p].kind = "move"]

(* create: the row and its INBOUND_CREATE movement, in one transaction. *)
StartCreate(p, r, q) ==
  /\ Len(inbounds) + Cardinality({ w \in Workers : purpose[w].kind = "create" })
       < MaxInbounds
  /\ Begin(p, <<CreateInbound(r, q)>>)
  /\ purpose' = [purpose EXCEPT ![p].kind = "create"]
  /\ UNCHANGED inbounds

AtMost(q, n) == IF q < n THEN q ELSE n

(* receive: the row is read, the quantity cut to what remains, and the      *)
(* new receivedQty is already decided.                                      *)
StartReceive(p, i, q) ==
  LET d == inbounds[i]
      n == AtMost(q, d.quantity - d.receivedQty)
  IN  /\ d.status = "EXPECTED" /\ n > 0
      /\ Begin(p, <<ArriveInbound(d.row, n)>>)
      /\ purpose' = [purpose EXCEPT ![p] =
                    [kind |-> "receive", id |-> i, received |-> d.receivedQty + n]]
      /\ inbounds' = [inbounds EXCEPT ![i].overlapped =
                        @ \/ \E w \in Workers : purpose[w].id = i
                                             /\ pc[w] # "invalidate"]

(* Another request of the engine: only this service calls createInbound and *)
(* arriveInbound, and the others considered move stock about, so that       *)
(* deliveries are its only source.                                          *)
OtherScripts ==
  { s \in Scripts : \A i \in 1 .. Len(s) : s[i].event \notin
      {"INBOUND_CREATE", "INBOUND_ARRIVE", "RECEIPT", "ADJUSTMENT", "SHIP", "RETURN"} }

StartMove(p, s) ==
  /\ Begin(p, s)
  /\ purpose' = [purpose EXCEPT ![p].kind = "move"]
  /\ UNCHANGED inbounds

CommitMove(p) ==
  /\ purpose[p].kind = "move"
  /\ Commit(p)
  /\ UNCHANGED <<inbounds, purpose>>

CommitCreate(p) ==
  /\ purpose[p].kind = "create"
  /\ Commit(p)
  /\ LET m == script[p][1] IN
       inbounds' = Append(inbounds,
         [row |-> m.row, quantity |-> m.deltas["inTransit"], receivedQty |-> 0,
          status |-> "EXPECTED", overlapped |-> FALSE])
  /\ purpose' = [purpose EXCEPT ![p].kind = "move"]

(* Mutant of CommitReceive: the quantity of this receipt alone is stored. *)
CommitReceiveAlone(p) ==
  LET i == purpose[p].id
      n == script[p][1].deltas["onHand"]
  IN  /\ purpose[p].kind = "receive"
      /\ Commit(p)
      /\ inbounds' = [inbounds EXCEPT
           ![i].receivedQty = n,
           ![i].status = IF n >= inbounds[i].quantity
                         THEN "RECEIVED" ELSE "EXPECTED"]
      /\ UNCHANGED purpose

(* The row is overwritten with the receivedQty computed from the first      *)
(* read, in the transaction of the movement.                                *)
CommitReceive(p) ==
  LET i == purpose[p].id
  IN  /\ purpose[p].kind = "receive"
      /\ Commit(p)
      /\ inbounds' = [inbounds EXCEPT
           ![i].receivedQty = purpose[p].received,
           ![i].status = IF purpose[p].received >= inbounds[i].quantity
                         THEN "RECEIVED" ELSE "EXPECTED"]
      /\ UNCHANGED purpose

(* The engine's own steps; a transaction that ends has no purpose left.      *)
InbEngineStep(p) ==
  /\ LockRow(p) \/ WriteMovement(p)
  /\ UNCHANGED <<inbounds, purpose>>

EndTask(p) ==
  /\ Invalidate(p) \/ RejectMovement(p) \/ DeadlockVictim(p)
  /\ purpose' = [purpose EXCEPT ![p] = NoPurpose]
  /\ UNCHANGED inbounds

CrashTask(p) ==
  /\ Crash(p)
  /\ purpose' = [purpose EXCEPT ![p] = NoPurpose]
  /\ UNCHANGED inbounds

InbNext ==
  \E p \in Workers :
    \/ \E r \in Rows, q \in DeliverySizes : StartCreate(p, r, q)
    \/ \E i \in DOMAIN inbounds, q \in Quantities : StartReceive(p, i, q)
    \/ \E s \in OtherScripts : StartMove(p, s)
    \/ CommitMove(p) \/ CommitCreate(p) \/ CommitReceive(p)
    \/ InbEngineStep(p) \/ EndTask(p) \/ CrashTask(p)

InbSpec == InbInit /\ [][InbNext]_inbVars

(* As in module Inventory: statements complete, lock queues are served and  *)
(* deadlocks broken; nothing makes a client call or a server crash.         *)
InbFairness ==
  \A p \in Workers :
    /\ SF_inbVars(InbEngineStep(p))
    /\ WF_inbVars(CommitMove(p) \/ CommitCreate(p) \/ CommitReceive(p))
    /\ WF_inbVars(EndTask(p))

InbFairSpec == InbSpec /\ InbFairness

-----------------------------------------------------------------------------
InbTypeOK ==
  /\ TypeOK
  /\ \A i \in DOMAIN inbounds :
       /\ inbounds[i].row \in Rows
       /\ inbounds[i].receivedQty \in 0 .. inbounds[i].quantity
       /\ inbounds[i].status = "RECEIVED"
            <=> inbounds[i].receivedQty = inbounds[i].quantity

SumRows(s, b) == Sum([l \in Locations |-> snapshot[<<s, l>>][b]], Locations)
Of(s) == { i \in DOMAIN inbounds : SkuOf(inbounds[i].row) = s }

(* inbound.service.ts:7-10, each delivery "adds to the snapshot's inTransit *)
(* bucket" and arrives on hand: over the network every unit of a created    *)
(* delivery is in transit or on hand, exactly once, through partial, double *)
(* and crossing receipts, transfers, deadlocks and crashes.                 *)
InboundConserved ==
  \A s \in Skus :
    SumRows(s, "onHand") + SumRows(s, "inTransit")
      = Sum([i \in Of(s) |-> inbounds[i].quantity], Of(s))

At(r) == { i \in DOMAIN inbounds : inbounds[i].row = r }
Remaining(r) ==
  Sum([i \in At(r) |-> inbounds[i].quantity - inbounds[i].receivedQty], At(r))

(* atp.service.ts:97-107 promises the units that remain on the Inbound      *)
(* rows: they are the units in transit, except that two receipts of one     *)
(* delivery that overlapped may leave the rows promising more, never less.  *)
RemainingIsInTransit ==
  \A r \in Rows :
    /\ Remaining(r) >= snapshot[r]["inTransit"]
    /\ Remaining(r) = snapshot[r]["inTransit"]
         \/ \E i \in DOMAIN inbounds : inbounds[i].row = r /\ inbounds[i].overlapped
=============================================================================
