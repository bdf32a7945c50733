---------------------------- MODULE MCChannelSync ----------------------------
(* ChannelSync for TLC: one SKU on one channel, sold from one location that *)
(* expects a delivery; the queue's worker, which also moves stock, beside   *)
(* the API process, which serves everything else and drains on request.     *)
EXTENDS ChannelSync

CONSTANTS w1, d1

ListedAll == Channels \X Skus
OneEach == [r \in Rows |-> 1]
NetworkViews == Skus \X {Network}
CallsOf == [w \in Workers |-> IF w = d1 THEN {"drain", "move"}
                              ELSE {"move", "import", "view", "feed", "changes", "drain now"}]
=============================================================================
