---------------------------- MODULE MCIngestion ----------------------------
(* Ingestion for TLC, in six scenarios: a Shopify order, its cancellation  *)
(* and a marketplace order of the same number; a shop two tenants have      *)
(* connected; two API calls that carry one key and different bodies, the    *)
(* first of which reserves on creation; two installs under way at once; an  *)
(* install that completes while the first order arrives; and an order that  *)
(* is cancelled by the shop while others move it on.                        *)
EXTENDS Ingestion

CONSTANTS t1, t2, shop1, c1, n1, n2

Msg(kind, t, s, key, ref, body, reserve, signed) ==
  [kind |-> kind, tenant |-> t, shop |-> s, key |-> key, ref |-> ref,
   code |-> c1, body |-> body, reserve |-> reserve, signed |-> signed]

Create == Msg("shopify/create", None, shop1, "wh1", "1001", "a", FALSE, TRUE)
Cancel == Msg("shopify/cancel", None, shop1, "wh2", "1001", "b", FALSE, TRUE)
Market == Msg("generic", t1, None, "1001", "1001", "c", FALSE, TRUE)
Forged == Msg("generic", t1, None, "1001", "1001", "x", FALSE, FALSE)
CallA  == Msg("api", t1, None, "k", None, "d", TRUE, TRUE)
CallB  == Msg("api", t1, None, "k", None, "e", FALSE, TRUE)

Case(msgs, ns, conn, stocked, hand, moving) ==
  [messages |-> msgs, nonces |-> ns, connected |-> conn, stocked |-> stocked,
   byHand |-> hand, moves |-> moving]

S1 == Case({Create, Cancel, Market, Forged}, {}, {<<t1, shop1>>}, {t2}, {}, 0)
S2 == Case({Create, Cancel}, {}, {t1, t2} \X {shop1}, {t1}, {}, 0)
S3 == Case({CallA, CallB}, {}, {}, {t1, t2}, {}, 0)
S4 == Case({}, {n1, n2}, {}, {t1, t2}, {<<t1, shop1>>}, 0)
S5 == Case({Create}, {n1}, {}, {t1, t2}, {}, 0)

S6 == Case({Create, Cancel}, {}, {<<t1, shop1>>}, {t1}, {}, 1)

MCScenarios == {S1, S2, S3, S4, S5, S6}
=============================================================================
