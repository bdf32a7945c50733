------------------------------ MODULE MCConsole ------------------------------
(* Three people who could sit down at the tab, in two tenants.  In the      *)
(* first scenarios they come and go, in the second the back end is busy     *)
(* under a settled session, in the third both happen.                       *)
EXTENDS Console

MCTenants == {"t1", "t2"}
Key == [kind |-> "key", tenant |-> "t1", role |-> "OPERATOR"]
User == [kind |-> "user", tenant |-> "t2", role |-> "READ_ONLY"]
Developer == [kind |-> "dev", tenant |-> "t2", role |-> "ADMIN"]
MCCredentials == {Key, User, Developer}

Scenario(user, writes, q, required, stored) ==
  [user |-> user, writes |-> writes, watched |-> q,
   authRequired |-> required, store |-> stored]
MCScenarios ==
  { Scenario(4, 0, "report", required, None) : required \in BOOLEAN }
  \cup { Scenario(3, 0, "report", FALSE, Shown(c, "READ_ONLY")) : c \in {Key, Developer} }
  \cup { Scenario(0, 3, q, TRUE, Shown(Key, "OPERATOR")) : q \in DOMAIN Shows }
  \cup { Scenario(2, 1, "snapshots", FALSE, Shown(Developer, "ADMIN")) }
  \cup { Scenario(1, 1, q, TRUE, Shown(Key, "OPERATOR")) : q \in {"orders", "report"} }
=============================================================================
