-------------------------- MODULE MCOrderLifecycle --------------------------
(* OrderLifecycle for TLC: eight scenarios, on one or two shipments.  In    *)
(* the first one request is handled at a time, and the server may crash; in *)
(* the others two requests overlap: deliveries and their rollups, a         *)
(* validate or cancel beside fulfilment and its capture; picks, shippings,  *)
(* collections, sourcings and another cancel beside a cancel; a second      *)
(* sourcing beside picks; and a second validate beside a cancel.            *)
EXTENDS OrderLifecycle

CONSTANTS w1, w2, n1, n2

Everything == {"validate", "source", "release", "cancel", "dispatch", "pick", "ship",
               "markReadyForPickup", "pickUp", "deliver"}
Forward == {"validate", "source", "release", "pick", "ship"}
Case(one, two, shipments, charges, crashed) ==
  [calls |-> [w \in Workers |-> IF w = w1 THEN one ELSE two],
   stock |-> [n \in Nodes |-> IF n = n1 \/ shipments = 2 THEN 2 ELSE 1],
   others |-> [n \in Nodes |-> 1], backorder |-> crashed > 0,
   validations |-> charges, sourcings |-> 1, crashes |-> crashed]

S1 == Case(Everything, {}, 2, 1, 1)
S2 == Case(Forward \cup {"deliver"}, {"deliver"}, 2, 1, 0)
S3 == Case(Forward \ {"validate"}, {"validate", "cancel"}, 1, 2, 0)
(* Here no other order holds units, so a second SHIP of one unit, or its    *)
(* DEALLOCATE, leaves a negative balance and is refused.                    *)
S4 == [Case(Forward \cup {"cancel"}, {"source", "pick", "ship", "cancel"}, 1, 1, 0)
         EXCEPT !.stock[n1] = 1, !.stock[n2] = 0, !.others = [n \in Nodes |-> 0]]
S5 == Case({"validate", "source", "release", "pick", "markReadyForPickup", "cancel"},
           {"pick"}, 2, 1, 0)
S6 == Case({"validate", "source", "release", "pick", "markReadyForPickup", "pickUp",
            "cancel"}, {"pickUp"}, 1, 1, 0)
S7 == Case(Forward \cup {"cancel"}, {"source"}, 2, 1, 0)
S8 == Case({"validate"}, {"validate", "cancel"}, 1, 2, 0)
MCScenarios == {S1, S2, S3, S4, S5, S6, S7, S8}
=============================================================================
