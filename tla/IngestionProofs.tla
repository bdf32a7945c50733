--------------------------- MODULE IngestionProofs ---------------------------
(***************************************************************************)
(* Proofs about how orders and channels enter the system, for any tenants, *)
(* shops, messages, workers and crashes: duplicates have a cause, answers  *)
(* are true, and a shop is connected once, to a tenant that installed it.  *)
(*                                                                         *)
(* The database orders nothing but its unique constraints, so the          *)
(* invariants speak of the workers between two statements: what a worker   *)
(* past its lookup may rely on as long as no other one of its key runs.    *)
(***************************************************************************)
EXTENDS Ingestion, FiniteSetTheorems, TLAPS

Labels == {"idle", "lookup", "route", "create", "cancel", "cancelled", "refund",
           "reserve", "store", "delState", "exchange", "findShop", "connect"}
Answers == {"", "order-created", "order-cancelled", "already-terminal",
            "cancel-no-such-order", "skipped-no-known-skus"}

Past(w) ==
  task[w].at \in {"route", "create", "cancel", "cancelled", "refund", "reserve", "store"}
InOAuth(w) == task[w].at \in {"delState", "exchange", "findShop", "connect"}

OrderRow ==
  [tenant : Tenants, by : Message, channel : {"WEB", "MARKETPLACE"}, copy : Nat]
Task ==
  [at : Labels, m : Message \cup {None}, tenant : Tenants \cup {None},
   answer : Answers, order : OrderRow \cup {None}, nonce : Nonces \cup {None},
   shop : Shops \cup {None}]
ChannelRow == [tenant : Tenants, name : Shops, ref : Shops \cup {None}]
NonceTable == [Nonces -> [shop : Shops, tenant : Tenants] \cup {None, Unused}]
ChannelOf(m) == IF m.kind = "generic" THEN "MARKETPLACE" ELSE "WEB"

(* What a worker holds: its message while it delivers one, its nonce and    *)
(* shop while it connects one.                                              *)
Holds(w) ==
  /\ Past(w) \/ At(w, "lookup") => M(w) \in Messages /\ task[w].tenant \in Tenants
  /\ InOAuth(w) =>
       task[w].nonce \in Nonces /\ task[w].tenant \in Tenants /\ task[w].shop \in Shops

OrdersTyped ==
  /\ IsFiniteSet(DOMAIN orders)
  /\ \A o \in DOMAIN orders :
       o \in OrderRow /\ o.by \in Messages /\ o.channel = ChannelOf(o.by)
  /\ orders \in [DOMAIN orders -> Statuses]
  /\ \A x \in moves : x.from # "CANCELLED" /\ x.to \in Statuses

Types ==
  /\ traffic \in Scenarios
  /\ channels \subseteq ChannelRow
  /\ nonces \in NonceTable
  /\ task \in [Workers -> Task]
  /\ \A w \in Workers : Holds(w)
  /\ OrdersTyped

-----------------------------------------------------------------------------
(* Channels *)

(* What a nonce, a callback under way and a channel vouch for. *)
NonceInv ==
  \A n \in Nonces : nonces[n] \notin {None, Unused} =>
    <<nonces[n].tenant, nonces[n].shop>> \in installs
CallbackInv ==
  \A w \in Workers : InOAuth(w) => <<task[w].tenant, task[w].shop>> \in installs
ChannelInv ==
  /\ \A c \in channels :
       c.ref # None => c.name = c.ref /\ <<c.tenant, c.ref>> \in installs
  /\ \A c, d \in channels : c.tenant = d.tenant /\ c.name = d.name => c = d

ConnectInv == Types /\ NonceInv /\ CallbackInv /\ ChannelInv

-----------------------------------------------------------------------------
(* Orders and answers *)

(* A delivery under way; what its answer, once it has one, says. *)
Exists(m, t) == \E o \in DOMAIN orders : o.by = m /\ o.tenant = t
Cancelled(t, ref) ==
  \E o \in DOMAIN orders :
    /\ o.tenant = t /\ o.by.ref = ref
    /\ orders[o] = "CANCELLED" \/ o \in overtaken

DeliveryAt(w) ==
  /\ task[w].at \in {"reserve", "store"} =>
       /\ task[w].answer # ""
       /\ task[w].answer = "order-created" => Exists(M(w), task[w].tenant)
       /\ task[w].answer = "order-cancelled" =>
            /\ M(w).kind = "shopify/cancel"
            /\ Cancelled(task[w].tenant, M(w).ref)
  /\ task[w].at \in {"cancel", "cancelled", "refund"} =>
       /\ M(w).kind = "shopify/cancel"
       /\ task[w].order \in WithRef(task[w].tenant, M(w).ref)
  /\ At(w, "refund") => Cancelled(task[w].tenant, M(w).ref)
DeliveryInv == \A w \in Workers : DeliveryAt(w)

(* Two runs of one key are exposed. *)
OverlapInv ==
  \A v, w \in Workers : v # w /\ Past(v) /\ Past(w) /\ KeyOf(v) = KeyOf(w) =>
    M(v) \in exposed /\ M(w) \in exposed

(* A run that is not exposed is the only one its key has seen. *)
FreeInv ==
  \A w \in Workers : Past(w) /\ Keyed(w) /\ M(w) \notin exposed =>
    KeyOf(w) \notin DOMAIN keys

(* An order that is not exposed has its key stored, or about to be. *)
StoredInv ==
  \A o \in DOMAIN orders : o.by.key # None /\ o.by \notin exposed =>
    \/ <<o.tenant, o.by.kind, o.by.key>> \in DOMAIN keys
    \/ \E w \in Workers : /\ task[w].at \in {"reserve", "store"}
                          /\ M(w) = o.by /\ task[w].tenant = o.tenant

(* @@unique([tenantId, channel, externalRef]) *)
RefInv ==
  \A o, p \in DOMAIN orders :
    /\ o.tenant = p.tenant /\ o.channel = p.channel
    /\ o.by.ref = p.by.ref /\ o.by.ref # None
    => o = p

(* A stored answer is true of what it was computed for. *)
KeysInv ==
  \A k \in DOMAIN keys :
    /\ k[3] # None
    /\ keys[k].answer = "order-created" =>
         \E o \in DOMAIN orders :
           /\ o.tenant = k[1] /\ o.by.kind = k[2] /\ o.by.key = k[3]
           /\ o.by.body = keys[k].body
    /\ keys[k].answer = "order-cancelled" =>
         /\ k[2] = "shopify/cancel"
         /\ \E m \in Messages :
              m.kind = k[2] /\ m.key = k[3] /\ Cancelled(k[1], m.ref)

OrderInv ==
  /\ Types /\ DeliveryInv /\ OverlapInv /\ FreeInv /\ StoredInv /\ RefInv
  /\ KeysInv /\ DuplicateHasCause /\ AnswersTrue

-----------------------------------------------------------------------------
(* The changes a statement makes to the task of its worker *)

Others(w) == \A v \in Workers \ {w} : task'[v] = task[v]

(* The request ends. *)
LEMMA EndTask ==
  ASSUME task \in [Workers -> Task], NEW w \in Workers, End(w)
  PROVE  task' \in [Workers -> Task] /\ task'[w].at = "idle" /\ Others(w)
<1>0. "" \in Answers /\ "idle" \in Labels
  BY DEF Labels, Answers
<1>1. Idle \in Task /\ Idle.at = "idle"
  BY <1>0 DEF Idle, Task
<1> QED BY <1>1 DEF End, Others

(* The request goes on to its next statement. *)
LEMMA GoTask ==
  ASSUME task \in [Workers -> Task], NEW w \in Workers, NEW label \in Labels,
         Go(w, label)
  PROVE  /\ task' \in [Workers -> Task] /\ Others(w)
         /\ task'[w].at = label /\ task'[w].m = task[w].m
         /\ task'[w].tenant = task[w].tenant /\ task'[w].answer = task[w].answer
         /\ task'[w].shop = task[w].shop /\ task'[w].nonce = task[w].nonce
<1>1. PICK t : t = [task[w] EXCEPT !.at = label]
  OBVIOUS
<1>2. task[w] \in Task
  OBVIOUS
<1>3. /\ t \in Task /\ t.at = label /\ t.m = task[w].m
      /\ t.tenant = task[w].tenant /\ t.answer = task[w].answer
      /\ t.shop = task[w].shop /\ t.nonce = task[w].nonce
  BY <1>1, <1>2 DEF Task
<1>4. task' = [task EXCEPT ![w] = t]
  BY <1>1 DEF Go
<1> QED BY <1>3, <1>4 DEF Others

(* The same, with an answer computed. *)
LEMMA AnswerTask ==
  ASSUME task \in [Workers -> Task], NEW w \in Workers, NEW label \in Labels,
         NEW a \in Answers, Answering(w, label, a)
  PROVE  /\ task' \in [Workers -> Task] /\ Others(w)
         /\ task'[w].at = label /\ task'[w].m = task[w].m
         /\ task'[w].tenant = task[w].tenant /\ task'[w].answer = a
<1>1. PICK t : t = [task[w] EXCEPT !.at = label, !.answer = a]
  OBVIOUS
<1>2. task[w] \in Task
  OBVIOUS
<1>3. /\ t \in Task /\ t.at = label /\ t.m = task[w].m
      /\ t.tenant = task[w].tenant /\ t.answer = a
  BY <1>1, <1>2 DEF Task
<1>4. task' = [task EXCEPT ![w] = t]
  BY <1>1 DEF Answering
<1> QED BY <1>3, <1>4 DEF Others

(* A delivery reaches its handler. *)
LEMMA StartTask ==
  ASSUME task \in [Workers -> Task], NEW w \in Workers, NEW m \in Message,
         NEW t \in Tenants, Start(w, m, t, "lookup")
  PROVE  /\ task' \in [Workers -> Task] /\ Others(w)
         /\ task'[w].at = "lookup" /\ task'[w].m = m /\ task'[w].tenant = t
<1>1. PICK u : u = [task[w] EXCEPT !.at = "lookup", !.m = m, !.tenant = t]
  OBVIOUS
<1>2. task[w] \in Task
  OBVIOUS
<1>3. u \in Task /\ u.at = "lookup" /\ u.m = m /\ u.tenant = t
  BY <1>1, <1>2 DEF Task, Labels
<1>4. task' = [task EXCEPT ![w] = u]
  BY <1>1 DEF Start
<1> QED BY <1>3, <1>4 DEF Others

(* A callback found its nonce. *)
CallbackGo(w, n, s, t) ==
  task' = [task EXCEPT ![w].at = "delState", ![w].nonce = n, ![w].shop = s,
                       ![w].tenant = t]

(* What it remembers of it. *)
LEMMA CallbackTask ==
  ASSUME task \in [Workers -> Task], NEW w \in Workers, NEW n \in Nonces,
         NEW s \in Shops, NEW t \in Tenants, CallbackGo(w, n, s, t)
  PROVE  /\ task' \in [Workers -> Task] /\ Others(w)
         /\ task'[w].at = "delState" /\ task'[w].nonce = n /\ task'[w].shop = s
         /\ task'[w].tenant = t
<1>1. PICK u : u = [task[w] EXCEPT !.at = "delState", !.nonce = n, !.shop = s, !.tenant = t]
  OBVIOUS
<1>2. task[w] \in Task
  OBVIOUS
<1>3. u \in Task /\ u.at = "delState" /\ u.nonce = n /\ u.shop = s /\ u.tenant = t
  BY <1>1, <1>2 DEF Task, Labels
<1>4. task' = [task EXCEPT ![w] = u]
  BY <1>1 DEF CallbackGo
<1> QED BY <1>3, <1>4 DEF Others

(* A cancellation found its order. *)
FoundGo(w, o) == task' = [task EXCEPT ![w].at = "cancel", ![w].order = o]

(* What it remembers of it. *)
LEMMA FoundTask ==
  ASSUME task \in [Workers -> Task], NEW w \in Workers, NEW o \in OrderRow,
         FoundGo(w, o)
  PROVE  /\ task' \in [Workers -> Task] /\ Others(w)
         /\ task'[w].at = "cancel" /\ task'[w].order = o /\ task'[w].m = task[w].m
         /\ task'[w].tenant = task[w].tenant
<1>1. PICK u : u = [task[w] EXCEPT !.at = "cancel", !.order = o]
  OBVIOUS
<1>2. task[w] \in Task
  OBVIOUS
<1>3. /\ u \in Task /\ u.at = "cancel" /\ u.order = o /\ u.m = task[w].m
      /\ u.tenant = task[w].tenant
  BY <1>1, <1>2 DEF Task, Labels
<1>4. task' = [task EXCEPT ![w] = u]
  BY <1>1 DEF FoundGo
<1> QED BY <1>3, <1>4 DEF Others

-----------------------------------------------------------------------------
(* Types *)

(* What every step owes to stay well-typed. *)
LEMMA TypesKept ==
  ASSUME Types, UNCHANGED traffic, NEW w \in Workers, task' \in [Workers -> Task],
         Others(w), Holds(w)', channels' \subseteq ChannelRow, nonces' \in NonceTable,
         OrdersTyped'
  PROVE  Types'
<1>1. ASSUME NEW v \in Workers PROVE Holds(v)'
  <2>1. CASE v = w
    BY <2>1
  <2>2. CASE v # w
    <3>1. task'[v] = task[v] /\ Holds(v)
      BY <2>2 DEF Others, Types
    <3> QED BY <3>1 DEF Holds, Past, InOAuth, At, M, Messages
  <2> QED BY <2>1, <2>2
<1> QED BY <1>1 DEF Types

(* A step that leaves the orders and the scenario. *)
LEMMA OrdersTypedKept ==
  ASSUME OrdersTyped, UNCHANGED <<traffic, orders, moves>>
  PROVE  OrdersTyped'
  BY DEF OrdersTyped, Messages

(* The messages, the nonces and the channels of a scenario. *)
LEMMA ScenarioFields ==
  ASSUME Types
  PROVE  /\ Messages \subseteq Message /\ traffic.nonces \subseteq Nonces
         /\ traffic.byHand \subseteq Tenants \X Shops
         /\ traffic.connected \subseteq Tenants \X Shops
  BY IngestionAssumption DEF Types, Scenario, Messages

(* The order a worker creates. *)
LEMMA OrderOfType ==
  ASSUME Types, NEW w \in Workers, At(w, "create")
  PROVE  /\ OrderOf(w) \in OrderRow
         /\ OrderOf(w).by = M(w) /\ OrderOf(w).tenant = task[w].tenant
         /\ OrderOf(w).channel = ChannelOf(M(w))
         /\ M(w) \in Messages
<1> DEFINE S == { o \in DOMAIN orders : o.by = M(w) /\ o.tenant = task[w].tenant }
<1>1. Cardinality(S) \in Nat
  BY FS_CardinalityType, FS_Subset DEF Types, OrdersTyped
<1>2. M(w) \in Messages /\ task[w].tenant \in Tenants /\ M(w) \in Message
  BY ScenarioFields DEF Types, Holds, Past, At
<1> HIDE DEF S
<1>3. OrderOf(w) = [tenant |-> task[w].tenant, by |-> M(w),
                    channel |-> ChannelOf(M(w)), copy |-> Cardinality(S)]
  BY DEF OrderOf, S, ChannelOf
<1>4. ChannelOf(M(w)) \in {"WEB", "MARKETPLACE"}
  BY DEF ChannelOf
<1> QED BY <1>1, <1>2, <1>3, <1>4 DEF OrderRow

(* A committed order is a row of its own. *)
LEMMA InsertType ==
  ASSUME OrdersTyped, UNCHANGED <<traffic, moves>>, NEW o \in OrderRow,
         o.by \in Messages, o.channel = ChannelOf(o.by),
         orders' = Insert(orders, o, "OPEN")
  PROVE  OrdersTyped' /\ DOMAIN orders' = DOMAIN orders \cup {o}
<1>1. /\ DOMAIN orders' = DOMAIN orders \cup {o}
      /\ \A p \in DOMAIN orders : orders'[p] = orders[p]
      /\ orders' \in [DOMAIN orders' -> Statuses]
  BY DEF Insert, OrdersTyped, Statuses
<1>2. IsFiniteSet(DOMAIN orders')
  BY <1>1, FS_AddElement DEF OrdersTyped
<1> QED BY <1>1, <1>2 DEF OrdersTyped, Messages

(* So is one whose status changes. *)
LEMMA StatusType ==
  ASSUME OrdersTyped, UNCHANGED traffic, moves' \subseteq moves, NEW o,
         NEW st \in Statuses, orders' = [orders EXCEPT ![o] = st]
  PROVE  OrdersTyped' /\ DOMAIN orders' = DOMAIN orders
<1>1. DOMAIN orders' = DOMAIN orders /\ orders' \in [DOMAIN orders' -> Statuses]
  BY DEF OrdersTyped
<1> QED BY <1>1 DEF OrdersTyped, Messages

(* The end of a request leaves its worker with nothing. *)
LEMMA EndHolds ==
  ASSUME Types, NEW w \in Workers, End(w)
  PROVE  Holds(w)'
<1>1. task'[w].at = "idle"
  BY EndTask DEF Types
<1> QED BY <1>1 DEF Holds, Past, InOAuth, At

(* A delivery that goes on keeps its message and its tenant. *)
LEMMA GoHolds ==
  ASSUME Types, UNCHANGED traffic, NEW w \in Workers, Past(w) \/ At(w, "lookup"),
         Past(w)',
         task'[w].m = task[w].m, task'[w].tenant = task[w].tenant
  PROVE  Holds(w)'
  BY DEF Types, Holds, Past, InOAuth, At, M, Messages

(* The steps of the OAuth handshake. *)
LEMMA OAuthTypes ==
  ASSUME Types, NEW w \in Workers,
         \/ \E n \in traffic.nonces, s \in Shops : CallbackRead(w, n, s)
         \/ CallbackDel(w) \/ Exchange(w) \/ FindShop(w) \/ Connect(w)
  PROVE  Types'
<1>t. task \in [Workers -> Task] /\ OrdersTyped /\ Holds(w)
  BY DEF Types
<1>1. ASSUME NEW n \in traffic.nonces, NEW s \in Shops, CallbackRead(w, n, s)
      PROVE  Types'
  <2>1. n \in Nonces
    BY ScenarioFields
  <2>2. nonces[n].tenant \in Tenants
    BY <1>1, <2>1 DEF CallbackRead, Types, NonceTable
  <2>3. PICK t \in Tenants : t = nonces[n].tenant
    BY <2>2
  <2>4. CallbackGo(w, n, s, t)
    BY <1>1, <2>3 DEF CallbackRead, CallbackGo
  <2>5. /\ task' \in [Workers -> Task] /\ Others(w) /\ task'[w].at = "delState"
        /\ task'[w].nonce = n /\ task'[w].shop = s /\ task'[w].tenant = t
    BY <1>t, <2>1, <2>4, CallbackTask
  <2>6. Holds(w)'
    BY <2>1, <2>5 DEF Holds, Past, InOAuth, At
  <2>7. UNCHANGED <<traffic, channels, nonces, orders, moves>>
    BY <1>1 DEF CallbackRead, oauth, life
  <2> QED BY <1>t, <2>5, <2>6, <2>7, TypesKept, OrdersTypedKept DEF Types
<1>2. CASE CallbackDel(w)
  <2>1. Go(w, "exchange") /\ UNCHANGED <<traffic, channels, orders, moves>>
        /\ "exchange" \in Labels
    BY <1>2 DEF CallbackDel, Labels, life
  <2>2. /\ task' \in [Workers -> Task] /\ Others(w) /\ task'[w].at = "exchange"
        /\ task'[w].tenant = task[w].tenant /\ task'[w].shop = task[w].shop
        /\ task'[w].nonce = task[w].nonce
    BY <1>t, <2>1, GoTask
  <2>3. Holds(w)'
    BY <1>t, <1>2, <2>2 DEF Holds, Past, InOAuth, At, CallbackDel
  <2>4. nonces' \in NonceTable
    BY <1>2 DEF CallbackDel, NonceTable, Types
  <2> QED BY <1>t, <2>1, <2>2, <2>3, <2>4, TypesKept, OrdersTypedKept DEF Types
<1>3. CASE Exchange(w) \/ FindShop(w)
  <2>1. /\ InOAuth(w) /\ UNCHANGED <<traffic, channels, nonces, orders, moves>>
        /\ End(w) \/ Go(w, "findShop") \/ Go(w, "connect")
    BY <1>3 DEF Exchange, FindShop, oauth, InOAuth, At, life
  <2>2. CASE End(w)
    BY <1>t, <2>1, <2>2, EndTask, EndHolds, TypesKept, OrdersTypedKept DEF Types
  <2>3. ASSUME NEW label \in {"findShop", "connect"}, Go(w, label) PROVE Types'
    <3>0. label \in Labels
      BY DEF Labels
    <3>1. /\ task' \in [Workers -> Task] /\ Others(w) /\ task'[w].at = label
          /\ task'[w].tenant = task[w].tenant /\ task'[w].shop = task[w].shop
          /\ task'[w].nonce = task[w].nonce
      BY <1>t, <2>3, <3>0, GoTask
    <3>2. Holds(w)'
      BY <1>t, <2>1, <3>1 DEF Holds, Past, InOAuth, At
    <3> QED BY <1>t, <2>1, <3>1, <3>2, TypesKept, OrdersTypedKept DEF Types
  <2> QED BY <2>1, <2>2, <2>3
<1>4. CASE Connect(w)
  <2>1. End(w) /\ UNCHANGED <<traffic, nonces, orders, moves>>
    BY <1>4 DEF Connect, life
  <2>2. channels' \subseteq ChannelRow
    <3>1. task[w].tenant \in Tenants /\ task[w].shop \in Shops
      BY <1>t, <1>4 DEF Holds, InOAuth, Connect, At
    <3>2. Channel(task[w].tenant, task[w].shop, task[w].shop) \in ChannelRow
      BY <3>1 DEF Channel, ChannelRow
    <3> QED BY <1>4, <3>2 DEF Connect, Types
  <2> QED BY <1>t, <2>1, <2>2, EndTask, EndHolds, TypesKept, OrdersTypedKept DEF Types
<1> QED BY <1>1, <1>2, <1>3, <1>4

(* The steps of no worker. *)
LEMMA EnvironmentTypes ==
  ASSUME Types,
         \/ \E n \in traffic.nonces, s \in Shops, t \in Tenants : Install(n, s, t)
         \/ \E n \in traffic.nonces : NonceExpires(n)
         \/ \E x \in traffic.byHand : CreateChannel(x[1], x[2])
         \/ \E t \in Tenants, c \in Codes : AddSku(t, c)
         \/ \E o \in DOMAIN orders, to \in Statuses : TransitionReads(o, to)
         \/ \E x \in moves : TransitionWrites(x)
         \/ UNCHANGED vars
  PROVE  Types'
<1>1. UNCHANGED <<traffic, task>>
  BY DEF Install, NonceExpires, CreateChannel, AddSku, TransitionReads, TransitionWrites, vars,
          oauth
<1>2. \A w \in Workers : Holds(w)'
  BY <1>1 DEF Types, Holds, Past, InOAuth, At, M, Messages
<1>3. nonces' \in NonceTable
  <2>1. CASE UNCHANGED nonces
    BY <2>1 DEF Types
  <2>2. ASSUME NEW n \in traffic.nonces, NEW s \in Shops, NEW t \in Tenants, Install(n, s, t)
        PROVE  nonces' \in NonceTable
    BY <2>2, ScenarioFields DEF Install, Types, NonceTable
  <2>3. ASSUME NEW n \in traffic.nonces, NonceExpires(n) PROVE nonces' \in NonceTable
    BY <2>3, ScenarioFields DEF NonceExpires, Types, NonceTable
  <2> QED BY <2>1, <2>2, <2>3 DEF CreateChannel, AddSku, TransitionReads,
                                  TransitionWrites, vars, oauth
<1>4. channels' \subseteq ChannelRow
  <2>1. ASSUME NEW x \in traffic.byHand, CreateChannel(x[1], x[2])
        PROVE  channels' \subseteq ChannelRow
    <3>1. Channel(x[1], x[2], None) \in ChannelRow
      BY ScenarioFields DEF Channel, ChannelRow
    <3> QED BY <2>1, <3>1 DEF CreateChannel, Types
  <2>2. CASE UNCHANGED channels
    BY <2>2 DEF Types
  <2> QED BY <2>1, <2>2 DEF Install, NonceExpires, AddSku, TransitionReads,
                               TransitionWrites, vars, oauth
<1>5. OrdersTyped'
  <2>1. ASSUME NEW x \in moves, TransitionWrites(x) PROVE OrdersTyped'
    <3>1. /\ orders' = [orders EXCEPT ![x.order] = x.to] /\ moves' \subseteq moves
          /\ x.to \in Statuses
      BY <2>1 DEF TransitionWrites, Overwrites, Types, OrdersTyped
    <3> QED BY <1>1, <3>1, StatusType DEF Types
  <2>2. ASSUME NEW o \in DOMAIN orders, NEW to \in Statuses, TransitionReads(o, to)
        PROVE  OrdersTyped'
    <3>1. orders[o] # "CANCELLED"
      BY <2>2 DEF TransitionReads, Declared
    <3>2. UNCHANGED orders
          /\ moves' = moves \cup {[order |-> o, from |-> orders[o], to |-> to]}
      BY <2>2 DEF TransitionReads
    <3> QED BY <1>1, <3>1, <3>2 DEF Types, OrdersTyped, Messages
  <2>3. CASE UNCHANGED <<orders, moves>>
    BY <1>1, <2>3, OrdersTypedKept DEF Types
  <2> QED BY <2>1, <2>2, <2>3
          DEF Install, NonceExpires, CreateChannel, AddSku, vars, oauth, life
<1> QED BY <1>1, <1>2, <1>3, <1>4, <1>5 DEF Types

(* A delivery that begins holds a message and the tenant it is for.         *)
LEMMA DeliverBegins ==
  ASSUME Types, NEW w \in Workers, NEW m \in Messages, Deliver(w, m)
  PROVE  \/ UNCHANGED task
         \/ \E t \in Tenants : Start(w, m, t, "lookup")
<1>1. CASE DeliverShopify(w, m)
  <2>1. ASSUME NEW c \in Connected(m.shop) PROVE c.tenant \in Tenants
    BY DEF Connected, Types, ChannelRow
  <2> QED BY <1>1, <2>1 DEF DeliverShopify
<1>2. CASE DeliverGeneric(w, m) \/ DeliverApi(w, m)
  <2>1. m.tenant \in Tenants
    BY <1>2, MessagesAssumption DEF DeliverGeneric, DeliverApi, Types, Messages
  <2> QED BY <1>2, <2>1 DEF DeliverGeneric, DeliverApi
<1> QED BY <1>1, <1>2 DEF Deliver

(* What the rest of a request may do to its worker's task. *)
LEMMA RequestMoves ==
  ASSUME Types, NEW w \in Workers,
         Lookup(w) \/ Route(w) \/ ReserveOnCreate(w) \/ StoreKey(w) \/ Crash(w)
           \/ CreateOrder(w) \/ CancelReads(w) \/ CancelWrites(w) \/ Refund(w)
  PROVE  /\ UNCHANGED <<traffic, catalog, channels, nonces, installs>>
         /\ ~ Crash(w) => Past(w) \/ At(w, "lookup")
         /\ \/ End(w)
            \/ /\ Past(w) \/ At(w, "lookup")
               /\ \/ \E label \in {"route", "create", "cancelled", "refund", "store"} : Go(w, label)
                  \/ \E label \in {"reserve", "store"}, a \in Answers :
                       Answering(w, label, a)
                  \/ \E o \in WithRef(task[w].tenant, M(w).ref) : FoundGo(w, o)
<1>0. UNCHANGED <<traffic, catalog, channels, nonces, installs>>
  BY DEF Lookup, Route, ReserveOnCreate, StoreKey, Crash, CreateOrder, CancelReads,
         CancelWrites, Refund, oauth
<1>1. CASE Lookup(w)
  BY <1>0, <1>1 DEF Lookup, Run, Ack
<1>2. CASE Route(w)
  <2>1. Past(w) /\ \A a \in {"skipped-no-known-skus", "cancel-no-such-order",
                             "already-terminal"} : a \in Answers
    BY <1>2 DEF Route, Past, At, Answers
  <2>2. \/ Answering(w, "store", "skipped-no-known-skus") \/ Go(w, "create")
        \/ Answering(w, "store", "cancel-no-such-order")
        \/ Answering(w, "store", "already-terminal")
        \/ \E o \in WithRef(task[w].tenant, M(w).ref) : FoundGo(w, o)
    BY <1>2 DEF Route, FoundGo
  <2> QED BY <1>0, <2>1, <2>2
<1>3. CASE ReserveOnCreate(w)
  BY <1>0, <1>3 DEF ReserveOnCreate, Past, At
<1>4. CASE StoreKey(w)
  BY <1>0, <1>4 DEF StoreKey, Ack, Past, At
<1>5. CASE Crash(w)
  BY <1>0, <1>5 DEF Crash
<1>6. CASE CreateOrder(w)
  <2>1. Past(w) /\ "order-created" \in Answers
    BY <1>6 DEF CreateOrder, Past, At, Answers
  <2>2. End(w) \/ Answering(w, "reserve", "order-created")
               \/ Answering(w, "store", "order-created")
    BY <1>6 DEF CreateOrder
  <2> QED BY <1>0, <2>1, <2>2
<1>7. CASE CancelReads(w) \/ CancelWrites(w) \/ Refund(w)
  <2>1. Past(w) /\ "order-cancelled" \in Answers
    BY <1>7 DEF CancelReads, CancelWrites, Refund, Past, At, Answers
  <2>2. \/ End(w) \/ Answering(w, "store", "order-cancelled")
        \/ Go(w, "cancelled") \/ Go(w, "refund")
    BY <1>7 DEF CancelReads, CancelWrites, Refund
  <2> QED BY <1>0, <2>1, <2>2
<1> QED BY <1>1, <1>2, <1>3, <1>4, <1>5, <1>6, <1>7

(* What it leaves of it. *)
LEMMA RequestTask ==
  ASSUME Types, NEW w \in Workers,
         Lookup(w) \/ Route(w) \/ ReserveOnCreate(w) \/ StoreKey(w) \/ Crash(w)
           \/ CreateOrder(w) \/ CancelReads(w) \/ CancelWrites(w) \/ Refund(w)
  PROVE  /\ task' \in [Workers -> Task] /\ Others(w) /\ Holds(w)'
         /\ ~ InOAuth(w)'
         /\ Past(w)' => /\ task'[w].m = task[w].m
                        /\ task'[w].tenant = task[w].tenant
<1>t. task \in [Workers -> Task]
  BY DEF Types
<1>1. CASE End(w)
  BY <1>t, <1>1, EndTask, EndHolds DEF Past, InOAuth
<1>2. ASSUME NEW label \in {"route", "create", "cancelled", "refund", "store"}, Go(w, label),
             Past(w) \/ At(w, "lookup")
      PROVE  /\ task' \in [Workers -> Task] /\ Others(w) /\ Holds(w)'
             /\ ~ InOAuth(w)' /\ task'[w].m = task[w].m
             /\ task'[w].tenant = task[w].tenant
  <2>1. label \in Labels
    BY DEF Labels
  <2>2. /\ task' \in [Workers -> Task] /\ Others(w) /\ task'[w].at = label
        /\ task'[w].m = task[w].m /\ task'[w].tenant = task[w].tenant
    BY <1>t, <1>2, <2>1, GoTask
  <2> QED BY <1>2, <2>2, GoHolds, RequestMoves DEF InOAuth, Past
<1>3. ASSUME NEW label \in {"reserve", "store"}, NEW a \in Answers,
             Answering(w, label, a), Past(w) \/ At(w, "lookup")
      PROVE  /\ task' \in [Workers -> Task] /\ Others(w) /\ Holds(w)'
             /\ ~ InOAuth(w)' /\ task'[w].m = task[w].m
             /\ task'[w].tenant = task[w].tenant
  <2>1. label \in Labels
    BY DEF Labels
  <2>2. /\ task' \in [Workers -> Task] /\ Others(w) /\ task'[w].at = label
        /\ task'[w].m = task[w].m /\ task'[w].tenant = task[w].tenant
    BY <1>t, <1>3, <2>1, AnswerTask
  <2> QED BY <1>3, <2>2, GoHolds, RequestMoves DEF InOAuth, Past
<1>4. ASSUME NEW o \in WithRef(task[w].tenant, M(w).ref), FoundGo(w, o),
             Past(w) \/ At(w, "lookup")
      PROVE  /\ task' \in [Workers -> Task] /\ Others(w) /\ Holds(w)'
             /\ ~ InOAuth(w)' /\ task'[w].m = task[w].m
             /\ task'[w].tenant = task[w].tenant
  <2>1. o \in OrderRow
    BY DEF WithRef, Types, OrdersTyped
  <2>2. /\ task' \in [Workers -> Task] /\ Others(w) /\ task'[w].at = "cancel"
        /\ task'[w].m = task[w].m /\ task'[w].tenant = task[w].tenant
    BY <1>t, <1>4, <2>1, FoundTask
  <2> QED BY <1>4, <2>2, GoHolds, RequestMoves DEF InOAuth, Past
<1> QED BY <1>1, <1>2, <1>3, <1>4, RequestMoves

(* The steps of a delivery. *)
LEMMA RequestTypes ==
  ASSUME Types, NEW w \in Workers,
         \/ \E m \in Messages : Deliver(w, m)
         \/ Lookup(w) \/ Route(w) \/ ReserveOnCreate(w) \/ StoreKey(w) \/ Crash(w)
         \/ CreateOrder(w) \/ CancelReads(w) \/ CancelWrites(w) \/ Refund(w)
  PROVE  Types'
<1>t. task \in [Workers -> Task] /\ OrdersTyped /\ Holds(w)
  BY DEF Types
<1>1. ASSUME NEW m \in Messages, Deliver(w, m) PROVE Types'
  <2>1. UNCHANGED <<traffic, channels, nonces, orders, moves>>
    BY <1>1 DEF Deliver, DeliverShopify, DeliverGeneric, DeliverApi, oauth, life
  <2>2. CASE UNCHANGED task
    <3>1. \A v \in Workers : Holds(v)'
      BY <2>1, <2>2 DEF Types, Holds, Past, InOAuth, At, M, Messages
    <3> QED BY <1>t, <2>1, <2>2, <3>1, OrdersTypedKept DEF Types
  <2>3. ASSUME NEW t \in Tenants, Start(w, m, t, "lookup") PROVE Types'
    <3>0. m \in Message
      BY ScenarioFields
    <3>1. /\ task' \in [Workers -> Task] /\ Others(w) /\ task'[w].at = "lookup"
          /\ task'[w].m = m /\ task'[w].tenant = t
      BY <1>t, <2>3, <3>0, StartTask
    <3>2. Holds(w)'
      BY <2>1, <3>1 DEF Holds, Past, InOAuth, At, M, Messages
    <3> QED BY <1>t, <2>1, <3>1, <3>2, TypesKept, OrdersTypedKept DEF Types
  <2> QED BY <1>1, <2>2, <2>3, DeliverBegins
<1>2. ASSUME Lookup(w) \/ Route(w) \/ ReserveOnCreate(w) \/ StoreKey(w) \/ Crash(w)
               \/ CreateOrder(w) \/ CancelReads(w) \/ CancelWrites(w) \/ Refund(w)
      PROVE  Types'
  <2>1. /\ UNCHANGED <<traffic, channels, nonces>>
        /\ task' \in [Workers -> Task] /\ Others(w) /\ Holds(w)'
    BY <1>2, RequestMoves, RequestTask
  <2>2. OrdersTyped'
    <3>1. CASE UNCHANGED <<orders, moves>>
      BY <1>t, <2>1, <3>1, OrdersTypedKept
    <3>2. CASE CreateOrder(w) /\ orders' # orders
      <4>1. /\ orders' = Insert(orders, OrderOf(w), "OPEN") /\ At(w, "create")
            /\ UNCHANGED moves
        BY <3>2 DEF CreateOrder
      <4>2. /\ OrderOf(w) \in OrderRow /\ OrderOf(w).by \in Messages
            /\ OrderOf(w).channel = ChannelOf(OrderOf(w).by)
        BY <4>1, OrderOfType
      <4> QED BY <1>t, <2>1, <4>1, <4>2, InsertType
    <3>3. CASE CancelWrites(w)
      <4>1. /\ orders' = [orders EXCEPT ![task[w].order] = "CANCELLED"]
            /\ "CANCELLED" \in Statuses /\ UNCHANGED moves
        BY <3>3 DEF CancelWrites, Overwrites, Statuses
      <4> QED BY <1>t, <2>1, <4>1, StatusType
    <3>4. CreateOrder(w) => UNCHANGED moves
      BY DEF CreateOrder
    <3> QED BY <1>2, <3>1, <3>2, <3>3, <3>4
            DEF Lookup, Route, ReserveOnCreate, StoreKey, Crash, CancelReads, Refund, life
  <2> QED BY <2>1, <2>2, TypesKept DEF Types
<1> QED BY <1>1, <1>2

(* Every step. *)
LEMMA TypesNext ==
  ASSUME Types, [Next]_vars
  PROVE  Types'
  BY EnvironmentTypes, OAuthTypes, RequestTypes DEF Next, Continue

-----------------------------------------------------------------------------
(* A shop is connected once, to a tenant that installed it *)

(* A step that neither connects nor installs, and whose worker, if any, is  *)
(* not in a callback after it.                                              *)
LEMMA ConnectKept ==
  ASSUME ConnectInv, UNCHANGED oauth,
         \A v \in Workers : task'[v] = task[v] \/ ~ InOAuth(v)'
  PROVE  (NonceInv /\ CallbackInv /\ ChannelInv)'
  BY DEF ConnectInv, oauth, NonceInv, CallbackInv, ChannelInv, InOAuth

(* A new channel of a free name. *)
LEMMA ChannelAdded ==
  ASSUME ChannelInv, NEW c, channels' = channels \cup {c},
         installs \subseteq installs', NameFree(c.tenant, c.name),
         c.ref # None => c.name = c.ref /\ <<c.tenant, c.ref>> \in installs
  PROVE  ChannelInv'
  BY DEF ChannelInv, NameFree

(* The handshake: the nonce vouches for the callback, the callback for the  *)
(* channel, and the name, which is the shop, keeps it unique.               *)
LEMMA OAuthConnect ==
  ASSUME ConnectInv, NEW w \in Workers,
         \/ \E n \in traffic.nonces, s \in Shops : CallbackRead(w, n, s)
         \/ CallbackDel(w) \/ Exchange(w) \/ FindShop(w) \/ Connect(w)
  PROVE  (NonceInv /\ CallbackInv /\ ChannelInv)'
<1>t. task \in [Workers -> Task] /\ Holds(w) /\ Types
  BY DEF ConnectInv, Types
<1>1. ASSUME NEW n \in traffic.nonces, NEW s \in Shops, CallbackRead(w, n, s)
      PROVE  (NonceInv /\ CallbackInv /\ ChannelInv)'
  <2>1. n \in Nonces
    BY <1>t, ScenarioFields
  <2>2. nonces[n].tenant \in Tenants
    BY <1>1, <1>t, <2>1 DEF CallbackRead, Types, NonceTable
  <2>3. PICK t \in Tenants : t = nonces[n].tenant
    BY <2>2
  <2>4. CallbackGo(w, n, s, t)
    BY <1>1, <2>3 DEF CallbackRead, CallbackGo
  <2>5. Others(w) /\ task'[w].shop = s /\ task'[w].tenant = t
    BY <1>t, <2>1, <2>4, CallbackTask
  <2>6. <<t, s>> \in installs
    BY <1>1, <2>1, <2>3 DEF CallbackRead, ConnectInv, NonceInv
  <2>7. UNCHANGED <<channels, nonces, installs>>
    BY <1>1 DEF CallbackRead, oauth
  <2>8. CallbackInv'
    BY <2>5, <2>6, <2>7 DEF CallbackInv, ConnectInv, Others, InOAuth
  <2> QED BY <2>7, <2>8 DEF ConnectInv, NonceInv, ChannelInv
<1>2. CASE CallbackDel(w)
  <2>1. Go(w, "exchange") /\ UNCHANGED <<channels, installs>> /\ "exchange" \in Labels
        /\ InOAuth(w)
    BY <1>2 DEF CallbackDel, Labels, InOAuth, At
  <2>2. /\ Others(w) /\ task'[w].tenant = task[w].tenant
        /\ task'[w].shop = task[w].shop
    BY <1>t, <2>1, GoTask
  <2>3. CallbackInv'
    BY <2>1, <2>2 DEF CallbackInv, ConnectInv, Others, InOAuth
  <2>4. task[w].nonce \in Nonces
    BY <1>t, <2>1 DEF Holds
  <2>5. /\ nonces'[task[w].nonce] = None
        /\ \A n \in Nonces \ {task[w].nonce} : nonces'[n] = nonces[n]
    BY <1>t, <1>2, <2>4 DEF CallbackDel, Types, NonceTable
  <2>6. NonceInv'
    BY <2>1, <2>5 DEF NonceInv, ConnectInv
  <2> QED BY <2>1, <2>3, <2>6 DEF ConnectInv, ChannelInv
<1>3. CASE Exchange(w) \/ FindShop(w)
  <2>1. /\ InOAuth(w) /\ UNCHANGED oauth
        /\ End(w) \/ Go(w, "findShop") \/ Go(w, "connect")
    BY <1>3 DEF Exchange, FindShop, InOAuth, At
  <2>2. CASE End(w)
    <3>1. Others(w) /\ ~ InOAuth(w)'
      BY <1>t, <2>2, EndTask DEF InOAuth
    <3> QED BY <2>1, <3>1, ConnectKept DEF Others
  <2>3. ASSUME NEW label \in {"findShop", "connect"}, Go(w, label)
        PROVE (NonceInv /\ CallbackInv /\ ChannelInv)'
    <3>0. label \in Labels
      BY DEF Labels
    <3>1. /\ Others(w) /\ task'[w].tenant = task[w].tenant
          /\ task'[w].shop = task[w].shop
      BY <1>t, <2>3, <3>0, GoTask
    <3>2. CallbackInv'
      BY <2>1, <3>1 DEF CallbackInv, ConnectInv, Others, InOAuth, oauth
    <3> QED BY <2>1, <3>2 DEF ConnectInv, NonceInv, ChannelInv, oauth
  <2> QED BY <2>1, <2>2, <2>3
<1>4. CASE Connect(w)
  <2>1. End(w) /\ UNCHANGED <<nonces, installs>> /\ InOAuth(w)
    BY <1>4 DEF Connect, InOAuth, At
  <2>2. Others(w) /\ ~ InOAuth(w)'
    BY <1>t, <2>1, EndTask DEF InOAuth
  <2>3. CallbackInv' /\ NonceInv'
    BY <2>1, <2>2 DEF ConnectInv, CallbackInv, NonceInv, Others, InOAuth
  <2>4. ChannelInv'
    <3>1. PICK c : c = Channel(task[w].tenant, task[w].shop, task[w].shop)
      OBVIOUS
    <3>2. c.tenant = task[w].tenant /\ c.name = task[w].shop /\ c.ref = task[w].shop
      BY <3>1 DEF Channel
    <3>3. <<c.tenant, c.ref>> \in installs
      BY <2>1, <3>2 DEF ConnectInv, CallbackInv
    <3>4. CASE NameFree(task[w].tenant, task[w].shop)
      BY <1>4, <2>1, <3>1, <3>2, <3>3, <3>4, ChannelAdded DEF Connect, ConnectInv
    <3>5. CASE ~ NameFree(task[w].tenant, task[w].shop)
      BY <1>4, <2>1, <3>5 DEF Connect, ConnectInv, ChannelInv
    <3> QED BY <3>4, <3>5
  <2> QED BY <2>3, <2>4
<1> QED BY <1>1, <1>2, <1>3, <1>4

(* The invariant of the channels holds of the connected shops and is kept   *)
(* by every step.                                                           *)
LEMMA ConnectNext ==
  ASSUME ConnectInv, [Next]_vars
  PROVE  ConnectInv'
<1>0. Types /\ Types'
  BY TypesNext DEF ConnectInv
<1>1. ASSUME NEW n \in traffic.nonces, NEW s \in Shops, NEW t \in Tenants,
             Install(n, s, t)
      PROVE  (NonceInv /\ CallbackInv /\ ChannelInv)'
  <2>1. n \in Nonces
    BY <1>0, ScenarioFields
  <2>2. /\ UNCHANGED <<channels, task>> /\ installs' = installs \cup {<<t, s>>}
        /\ \A k \in Nonces \ {n} : nonces'[k] = nonces[k]
        /\ nonces'[n].shop = s /\ nonces'[n].tenant = t
    BY <1>0, <1>1, <2>1 DEF Install, Types, NonceTable
  <2>3. NonceInv'
    BY <2>1, <2>2 DEF NonceInv, ConnectInv
  <2> QED BY <2>2, <2>3 DEF ConnectInv, CallbackInv, ChannelInv, InOAuth
<1>2. ASSUME NEW n \in traffic.nonces, NonceExpires(n)
      PROVE  (NonceInv /\ CallbackInv /\ ChannelInv)'
  <2>1. n \in Nonces
    BY <1>0, ScenarioFields
  <2>2. /\ UNCHANGED <<channels, installs, task>> /\ nonces'[n] = None
        /\ \A k \in Nonces \ {n} : nonces'[k] = nonces[k]
    BY <1>0, <1>2, <2>1 DEF NonceExpires, Types, NonceTable
  <2>3. NonceInv'
    BY <2>1, <2>2 DEF NonceInv, ConnectInv
  <2> QED BY <2>2, <2>3 DEF ConnectInv, CallbackInv, ChannelInv, InOAuth
<1>3. ASSUME NEW x \in traffic.byHand, CreateChannel(x[1], x[2])
      PROVE  (NonceInv /\ CallbackInv /\ ChannelInv)'
  <2>1. PICK c : c = Channel(x[1], x[2], None)
    OBVIOUS
  <2>2. c.tenant = x[1] /\ c.name = x[2] /\ c.ref = None
    BY <2>1 DEF Channel
  <2>3. /\ UNCHANGED <<nonces, installs, task>> /\ channels' = channels \cup {c}
        /\ NameFree(c.tenant, c.name)
    BY <1>3, <2>1, <2>2 DEF CreateChannel
  <2>4. ChannelInv'
    BY <2>2, <2>3, ChannelAdded DEF ConnectInv
  <2> QED BY <2>3, <2>4 DEF ConnectInv, CallbackInv, NonceInv, InOAuth
<1>4. ASSUME \/ \E t \in Tenants, c \in Codes : AddSku(t, c)
             \/ \E o \in DOMAIN orders, to \in Statuses : TransitionReads(o, to)
             \/ \E x \in moves : TransitionWrites(x)
             \/ UNCHANGED vars
      PROVE  (NonceInv /\ CallbackInv /\ ChannelInv)'
  <2>1. UNCHANGED <<oauth, task>>
    BY <1>4 DEF AddSku, TransitionReads, TransitionWrites, vars, oauth
  <2> QED BY <2>1, ConnectKept
<1>5. ASSUME NEW w \in Workers, NEW m \in Messages, Deliver(w, m)
      PROVE  (NonceInv /\ CallbackInv /\ ChannelInv)'
  <2>1. UNCHANGED oauth
    BY <1>5 DEF Deliver, DeliverShopify, DeliverGeneric, DeliverApi
  <2>2. ASSUME NEW t \in Tenants, Start(w, m, t, "lookup")
        PROVE  Others(w) /\ ~ InOAuth(w)'
    <3>1. m \in Message /\ task \in [Workers -> Task]
      BY <1>0, ScenarioFields DEF Types
    <3> QED BY <2>2, <3>1, StartTask DEF InOAuth
  <2>3. UNCHANGED task \/ (Others(w) /\ ~ InOAuth(w)')
    BY <1>0, <1>5, <2>2, DeliverBegins
  <2> QED BY <2>1, <2>3, ConnectKept DEF Others
<1>6. ASSUME NEW w \in Workers,
             Lookup(w) \/ Route(w) \/ ReserveOnCreate(w) \/ StoreKey(w) \/ Crash(w)
               \/ CreateOrder(w) \/ CancelReads(w) \/ CancelWrites(w) \/ Refund(w)
      PROVE  (NonceInv /\ CallbackInv /\ ChannelInv)'
  <2>1. UNCHANGED oauth /\ Others(w) /\ ~ InOAuth(w)'
    BY <1>0, <1>6, RequestMoves, RequestTask DEF oauth
  <2> QED BY <2>1, ConnectKept DEF Others
<1>7. ASSUME NEW w \in Workers, Continue(w) \/ Crash(w)
      PROVE  (NonceInv /\ CallbackInv /\ ChannelInv)'
  BY <1>0, <1>6, <1>7, OAuthConnect DEF Continue
<1>8. ASSUME NEW w \in Workers, \E n \in traffic.nonces, s \in Shops : CallbackRead(w, n, s)
      PROVE  (NonceInv /\ CallbackInv /\ ChannelInv)'
  BY <1>0, <1>8, OAuthConnect
<1>9. (NonceInv /\ CallbackInv /\ ChannelInv)'
  BY <1>1, <1>2, <1>3, <1>4, <1>5, <1>7, <1>8 DEF Next
<1> QED BY <1>0, <1>9 DEF ConnectInv

(* No orders and no keys to begin with. *)
LEMMA InitTypes ==
  ASSUME Init
  PROVE  Types /\ DOMAIN orders = {} /\ DOMAIN keys = {} /\ \A w \in Workers : At(w, "idle")
<1>1. /\ traffic \in Scenarios /\ traffic.connected \subseteq Tenants \X Shops
  BY IngestionAssumption DEF Init, Scenario
<1>2. channels \subseteq ChannelRow
  BY <1>1 DEF Init, ChannelRow
<1>3. nonces \in NonceTable
  BY DEF Init, NonceTable
<1>4. "" \in Answers /\ "idle" \in Labels
  BY DEF Labels, Answers
<1>5. Idle \in Task /\ Idle.at = "idle"
  BY <1>4 DEF Idle, Task
<1>6. task \in [Workers -> Task] /\ \A w \in Workers : At(w, "idle")
  BY <1>5 DEF Init, At
<1>7. \A w \in Workers : Holds(w)
  BY <1>6 DEF Holds, Past, InOAuth, At
<1>8. DOMAIN orders = {} /\ DOMAIN keys = {}
  BY DEF Init
<1>9. OrdersTyped
  <2>1. orders = [x \in {} |-> "OPEN"] /\ moves = {}
    BY DEF Init
  <2> QED BY <1>8, <2>1, FS_EmptySet DEF OrdersTyped
<1> QED BY <1>1, <1>2, <1>3, <1>6, <1>7, <1>8, <1>9 DEF Types

(* The shops connected to begin with are unique and installed. *)
LEMMA InitConnect ==
  ASSUME Init
  PROVE  ConnectInv
<1>1. Types /\ \A w \in Workers : ~ InOAuth(w)
  BY InitTypes DEF InOAuth, At
<1>2. NonceInv /\ CallbackInv
  BY <1>1 DEF Init, NonceInv, CallbackInv
<1>3. ASSUME NEW c \in channels
      PROVE  /\ c.name = c.ref /\ <<c.tenant, c.ref>> \in installs
             /\ c = [tenant |-> c.tenant, name |-> c.name, ref |-> c.name]
  <2>1. PICK x \in traffic.connected : c = [tenant |-> x[1], name |-> x[2], ref |-> x[2]]
    BY DEF Init
  <2>2. x = <<x[1], x[2]>>
    BY <1>1, ScenarioFields
  <2> QED BY <2>1, <2>2 DEF Init
<1>4. \A c, d \in channels : c.tenant = d.tenant /\ c.name = d.name => c = d
  BY <1>3
<1>5. ChannelInv
  BY <1>3, <1>4 DEF ChannelInv
<1> QED BY <1>1, <1>2, <1>5 DEF ConnectInv

(* What nonces, callbacks and channels vouch for is invariant, whatever     *)
(* callbacks overlap, expire or die.                                        *)
THEOREM ConnectInvariance == Spec => []ConnectInv
<1>1. Init => ConnectInv
  BY InitConnect
<1>2. ConnectInv /\ [Next]_vars => ConnectInv'
  BY ConnectNext
<1> QED BY <1>1, <1>2, PTL DEF Spec

(* shopify-oauth.service.ts: a connected shop is one its tenant began to    *)
(* install, and the tenant has one channel of it, for any number of         *)
(* overlapping callbacks.                                                   *)
THEOREM ShopsConnectedOnce == Spec => []OneChannelPerInstall
<1>1. ConnectInv => OneChannelPerInstall
  BY DEF ConnectInv, ChannelInv, OneChannelPerInstall
<1> QED BY <1>1, ConnectInvariance, PTL

-----------------------------------------------------------------------------
(* Duplicates have a cause and answers are true *)

(* Nothing committed is undone, save by a transition that overtakes. *)
Grows ==
  /\ UNCHANGED traffic
  /\ DOMAIN orders \subseteq DOMAIN orders'
  /\ overtaken \subseteq overtaken'
  /\ \A o \in DOMAIN orders : orders[o] = "CANCELLED" =>
       orders'[o] = "CANCELLED" \/ o \in overtaken'
  /\ DOMAIN keys \subseteq DOMAIN keys'
  /\ \A k \in DOMAIN keys : keys'[k] = keys[k]
  /\ exposed \subseteq exposed'

(* The claim of AnswersTrue for one answer. *)
Truth(a) ==
  /\ a[3] = "order-created" =>
       \E o \in DOMAIN orders :
         /\ o.tenant = a[2]
         /\ \/ o.by.ref = a[1].ref /\ o.by.body = a[1].body
            \/ /\ a[1] \in exposed
               /\ o.by.kind = a[1].kind /\ o.by.key = a[1].key
  /\ a[3] = "order-cancelled" => Cancelled(a[2], a[1].ref)

(* AnswersTrue, answer by answer. *)
LEMMA TruthOfAll == AnswersTrue <=> \A a \in acks : Truth(a)
  BY DEF AnswersTrue, Told, Truth, Cancelled

(* A step w takes to end its request, or to go on with the same message:    *)
(* its order is exposed if the step gives it up before the key is stored.   *)
Moves(w) ==
  /\ DeliveryAt(w)'
  /\ Past(w)' => Past(w) /\ task'[w].m = task[w].m /\ task'[w].tenant = task[w].tenant
  /\ task[w].at \in {"reserve", "store"} =>
       \/ task'[w].at \in {"reserve", "store"}
       \/ M(w) \in exposed' \/ ~ Keyed(w) \/ KeyOf(w) \in DOMAIN keys

(* What was true of committed orders stays true. *)
LEMMA CancelledKept ==
  ASSUME Grows, NEW t, NEW ref, Cancelled(t, ref)
  PROVE  Cancelled(t, ref)'
  BY DEF Grows, Cancelled

(* A delivery of another worker is as it was. *)
LEMMA DeliveryKept ==
  ASSUME Grows, NEW v \in Workers, DeliveryAt(v), task'[v] = task[v]
  PROVE  DeliveryAt(v)'
<1>1. Cancelled(task[v].tenant, M(v).ref) => Cancelled(task[v].tenant, M(v).ref)'
  BY DEF Grows, Cancelled, M
<1>2. WithRef(task[v].tenant, M(v).ref) \subseteq WithRef(task[v].tenant, M(v).ref)'
  BY DEF Grows, WithRef, M
<1>3. Exists(M(v), task[v].tenant) => Exists(M(v), task[v].tenant)'
  BY DEF Grows, Exists, M
<1> QED BY <1>1, <1>2, <1>3 DEF DeliveryAt, At, M

(* A true answer stays true: orders are never deleted, and revived only by  *)
(* a transition that overtook their cancellation.                           *)
LEMMA TruthKept ==
  ASSUME Grows, NEW a, Truth(a)
  PROVE  Truth(a)'
<1>1. Cancelled(a[2], a[1].ref) => Cancelled(a[2], a[1].ref)'
  BY CancelledKept
<1> QED BY <1>1 DEF Grows, Truth

(* Every answer is true if those this step gives are. *)
LEMMA AnswersKept ==
  ASSUME Grows, AnswersTrue, \A a \in acks' \ acks : Truth(a)'
  PROVE  AnswersTrue'
<1>1. \A b \in acks : Truth(b)'
  BY TruthOfAll, TruthKept
<1>2. \A b \in acks' : Truth(b)'
  BY <1>1
<1>3. (\A b \in acks : Truth(b))' => AnswersTrue'
  BY DEF AnswersTrue, Told, Truth, Cancelled
<1> QED BY <1>2, <1>3

(* Stored keys stay true. *)
LEMMA KeysKept ==
  ASSUME Grows, KeysInv, UNCHANGED keys
  PROVE  KeysInv'
<1>1. \A t, ref : Cancelled(t, ref) => Cancelled(t, ref)'
  BY CancelledKept
<1> QED BY <1>1 DEF Grows, KeysInv, Messages

(* The steps that commit neither an order nor a key. *)
LEMMA QuietStep ==
  ASSUME OrderInv, Types', Grows, \A v \in Workers : task'[v] = task[v] \/ Moves(v),
         DOMAIN orders' = DOMAIN orders, UNCHANGED keys, AnswersTrue'
  PROVE  OrderInv'
<1>1. DeliveryInv'
  BY DeliveryKept DEF OrderInv, DeliveryInv, Moves
<1>a. \A v \in Workers : Past(v)' => Past(v) /\ M(v)' = M(v) /\ KeyOf(v)' = KeyOf(v)
  BY DEF Moves, Past, M, KeyOf
<1>2. OverlapInv'
  BY <1>a DEF OrderInv, OverlapInv, Grows
<1>3. FreeInv'
  BY <1>a DEF OrderInv, FreeInv, Grows, Keyed
<1>4. StoredInv'
  <2> SUFFICES ASSUME NEW o \in DOMAIN orders, o.by.key # None, o.by \notin exposed',
                      <<o.tenant, o.by.kind, o.by.key>> \notin DOMAIN keys
               PROVE  \E v \in Workers : /\ task'[v].at \in {"reserve", "store"}
                                         /\ task'[v].m = o.by
                                         /\ task'[v].tenant = o.tenant
    BY DEF StoredInv, M
  <2>1. o.by \notin exposed
    BY DEF Grows
  <2>2. PICK v \in Workers : /\ task[v].at \in {"reserve", "store"}
                             /\ M(v) = o.by /\ task[v].tenant = o.tenant
    BY <2>1 DEF OrderInv, StoredInv
  <2>3. CASE task'[v] = task[v]
    BY <2>2, <2>3 DEF M
  <2>4. CASE Moves(v)
    <3>1. task'[v].at \in {"reserve", "store"}
      BY <2>2, <2>4 DEF Moves, Keyed, KeyOf
    <3>2. Past(v)'
      BY <3>1 DEF Past
    <3> QED BY <2>2, <2>4, <3>1, <3>2 DEF Moves, M
  <2> QED BY <2>3, <2>4
<1>5. RefInv'
  BY DEF OrderInv, RefInv
<1>6. KeysInv'
  BY KeysKept DEF OrderInv
<1>7. DuplicateHasCause'
  BY DEF OrderInv, DuplicateHasCause, Grows
<1> QED BY <1>1, <1>2, <1>3, <1>4, <1>5, <1>6, <1>7 DEF OrderInv

(* A step that gives no answer and leaves the tables. *)
LEMMA NothingCommitted ==
  ASSUME OrderInv, UNCHANGED <<traffic, orders, overtaken, keys, exposed>>
  PROVE  Grows /\ (UNCHANGED acks => AnswersTrue')
<1>1. Grows
  BY DEF Grows
<1> QED BY <1>1 DEF OrderInv, AnswersTrue, Told, Grows

(* A worker that is in no run of a key after a step has nothing to show. *)
LEMMA NotPast ==
  ASSUME NEW w \in Workers, ~ Past(w)'
  PROVE  DeliveryAt(w)'
  BY DEF Past, DeliveryAt, At

(* Installs, expiries, the catalog and the warehouse touch no delivery. *)
LEMMA OutsideOrders ==
  ASSUME OrderInv, Types', UNCHANGED <<traffic, keys, exposed>>,
         \/ \E n \in traffic.nonces, s \in Shops, t \in Tenants : Install(n, s, t)
         \/ \E n \in traffic.nonces : NonceExpires(n)
         \/ \E x \in traffic.byHand : CreateChannel(x[1], x[2])
         \/ \E t \in Tenants, c \in Codes : AddSku(t, c)
         \/ \E o \in DOMAIN orders, to \in Statuses : TransitionReads(o, to)
         \/ \E x \in moves : TransitionWrites(x)
         \/ UNCHANGED vars
  PROVE  OrderInv'
<1>1. UNCHANGED <<task, acks>>
  BY DEF Install, NonceExpires, CreateChannel, AddSku, TransitionReads, TransitionWrites,
         vars
<1>2. ASSUME NEW x \in moves, TransitionWrites(x) PROVE OrderInv'
  <2>1. Overwrites(x.order, x.from, x.to) /\ x.from # "CANCELLED"
    BY <1>2 DEF TransitionWrites, OrderInv, Types, OrdersTyped
  <2>2. DOMAIN orders' = DOMAIN orders /\ Grows
    BY <2>1 DEF Overwrites, Grows
  <2>3. AnswersTrue'
    BY <1>1, <2>2, AnswersKept DEF OrderInv
  <2> QED BY <1>1, <2>2, <2>3, QuietStep
<1>3. CASE UNCHANGED <<orders, overtaken>>
  BY <1>1, <1>3, NothingCommitted, QuietStep
<1> QED BY <1>2, <1>3 DEF Install, NonceExpires, CreateChannel, AddSku, TransitionReads,
                          vars, life

(* Nor does the OAuth handshake. *)
LEMMA OAuthOrders ==
  ASSUME OrderInv, Types', NEW w \in Workers,
         \/ \E n \in traffic.nonces, s \in Shops : CallbackRead(w, n, s)
         \/ CallbackDel(w) \/ Exchange(w) \/ FindShop(w) \/ Connect(w)
  PROVE  OrderInv'
<1>1. UNCHANGED <<traffic, orders, overtaken, keys, exposed, acks>>
  BY DEF CallbackRead, CallbackDel, Exchange, FindShop, Connect, life
<1>2. task \in [Workers -> Task] /\ Types
  BY DEF OrderInv, Types
<1>3. Others(w) /\ ~ Past(w)' /\ ~ Past(w)
  <2>1. ASSUME NEW n \in traffic.nonces, NEW s \in Shops, CallbackRead(w, n, s)
        PROVE  Others(w) /\ ~ Past(w)' /\ ~ Past(w)
    <3>1. n \in Nonces /\ nonces[n].tenant \in Tenants
      BY <1>2, <2>1, ScenarioFields DEF CallbackRead, Types, NonceTable
    <3>2. PICK t \in Tenants : t = nonces[n].tenant
      BY <3>1
    <3>3. CallbackGo(w, n, s, t) /\ ~ Past(w)
      BY <2>1, <3>2 DEF CallbackRead, CallbackGo, At, Past
    <3> QED BY <1>2, <3>1, <3>3, CallbackTask DEF Past
  <2>2. CASE End(w) /\ ~ Past(w)
    BY <1>2, <2>2, EndTask DEF Past
  <2>3. ASSUME NEW label \in {"exchange", "findShop", "connect"}, Go(w, label), ~ Past(w)
        PROVE  Others(w) /\ ~ Past(w)' /\ ~ Past(w)
    <3>1. label \in Labels
      BY DEF Labels
    <3> QED BY <1>2, <2>3, <3>1, GoTask DEF Past
  <2>4. ASSUME CallbackDel(w) \/ Exchange(w) \/ FindShop(w) \/ Connect(w)
        PROVE  ~ Past(w) /\ (End(w) \/ Go(w, "exchange") \/ Go(w, "findShop")
                               \/ Go(w, "connect"))
    BY <2>4 DEF CallbackDel, Exchange, FindShop, Connect, At, Past
  <2> QED BY <2>1, <2>2, <2>3, <2>4
<1>4. Moves(w)
  BY <1>3, NotPast DEF Moves, Past
<1> QED BY <1>1, <1>3, <1>4, NothingCommitted, QuietStep DEF Others

(* A delivery begins, or is answered without an order. *)
LEMMA DeliverOrders ==
  ASSUME OrderInv, Types', NEW w \in Workers, NEW m \in Messages, Deliver(w, m)
  PROVE  OrderInv'
<1>0. task \in [Workers -> Task] /\ Types
  BY DEF OrderInv, Types
<1>1. UNCHANGED <<traffic, orders, overtaken, keys, exposed>> /\ ~ Past(w)
  BY DEF Deliver, DeliverShopify, DeliverGeneric, DeliverApi, At, Past, life
<1>2. AnswersTrue'
  <2>1. \A a \in acks' \ acks : a[3] \notin {"order-created", "order-cancelled"}
    BY DEF Deliver, DeliverShopify, DeliverGeneric, DeliverApi
  <2>2. \A a \in acks' \ acks : Truth(a)'
    BY <2>1 DEF Truth
  <2> QED BY <1>1, <2>2, NothingCommitted, AnswersKept DEF OrderInv
<1>3. ASSUME NEW t \in Tenants, Start(w, m, t, "lookup")
      PROVE  Others(w) /\ ~ Past(w)'
  <2>1. m \in Message
    BY <1>0, ScenarioFields
  <2> QED BY <1>0, <1>3, <2>1, StartTask DEF Past
<1>4. UNCHANGED task \/ (Others(w) /\ Moves(w))
  BY <1>0, <1>1, <1>3, DeliverBegins, NotPast DEF Moves, Past
<1> QED BY <1>1, <1>2, <1>4, NothingCommitted, QuietStep DEF Others

(* A stored answer is true of any delivery of the same body under its key,  *)
(* and of the loser of a race for the key.                                  *)
LEMMA ReplayTrue ==
  ASSUME OrderInv, NEW w \in Workers, Past(w) \/ At(w, "lookup"), Keyed(w),
         KeyOf(w) \in DOMAIN keys,
         keys[KeyOf(w)].body = M(w).body \/ M(w) \in exposed
  PROVE  Truth(<<M(w), task[w].tenant, keys[KeyOf(w)].answer>>)
<1>1. PICK k : k = KeyOf(w)
  OBVIOUS
<1>2. /\ k[1] = task[w].tenant /\ k[2] = M(w).kind /\ k[3] = M(w).key
      /\ k \in DOMAIN keys /\ M(w).key # None
  BY <1>1 DEF KeyOf, Keyed
<1>3. M(w) \in Messages /\ traffic \in Scenarios
  BY DEF OrderInv, Types, Holds
<1>4. \A m, n \in Messages :
        /\ n.kind = m.kind
        /\ n.body = m.body \/ (m.kind = "shopify/cancel" /\ n.key = m.key /\ n.key # None)
        => n.ref = m.ref
  BY <1>3, MessagesAssumption DEF Messages
<1>5. CASE keys[k].answer = "order-created"
  <2>1. PICK o \in DOMAIN orders :
          /\ o.tenant = k[1] /\ o.by.kind = k[2] /\ o.by.key = k[3]
          /\ o.by.body = keys[k].body
    BY <1>2, <1>5 DEF OrderInv, KeysInv
  <2>2. o.by \in Messages
    BY DEF OrderInv, Types, OrdersTyped
  <2>3. o.by.body = M(w).body => o.by.ref = M(w).ref
    BY <1>2, <1>3, <1>4, <2>1, <2>2
  <2> QED BY <1>1, <1>2, <1>5, <2>1, <2>3 DEF Truth
<1>6. CASE keys[k].answer = "order-cancelled"
  <2>1. PICK m \in Messages : m.kind = k[2] /\ m.key = k[3] /\ Cancelled(k[1], m.ref)
    BY <1>2, <1>6 DEF OrderInv, KeysInv
  <2>2. k[2] = "shopify/cancel"
    BY <1>2, <1>6 DEF OrderInv, KeysInv
  <2>3. m.ref = M(w).ref
    BY <1>2, <1>3, <1>4, <2>1, <2>2
  <2> QED BY <1>1, <1>2, <1>6, <2>1, <2>3 DEF Truth
<1> QED BY <1>1, <1>5, <1>6 DEF Truth

(* An answer computed is true of its own delivery. *)
LEMMA ComputedTrue ==
  ASSUME OrderInv, NEW w \in Workers, At(w, "store")
  PROVE  Truth(<<M(w), task[w].tenant, task[w].answer>>)
<1>1. DeliveryAt(w)
  BY DEF OrderInv, DeliveryInv
<1> QED BY <1>1 DEF DeliveryAt, At, Truth, Exists

(* The lookup of the key: a second run of a key exposes both, a stored      *)
(* answer is replayed.                                                      *)
LEMMA LookupOrders ==
  ASSUME OrderInv, Types', NEW w \in Workers, Lookup(w)
  PROVE  OrderInv'
<1>0. task \in [Workers -> Task] /\ Types /\ ~ Past(w) /\ task[w].at = "lookup"
  BY DEF OrderInv, Types, Lookup, Past, At
<1>1. /\ UNCHANGED <<traffic, orders, overtaken, keys>> /\ exposed \subseteq exposed'
      /\ Others(w)
  BY <1>0, RequestTask DEF Lookup, Run, life
<1>2. Grows
  BY <1>1 DEF Grows
<1>3. CASE End(w)
  <2>1. ~ Past(w)'
    BY <1>0, <1>3, EndTask DEF Past
  <2>2. Moves(w)
    BY <1>0, <2>1, NotPast DEF Moves
  <2>3. AnswersTrue'
    <3>0. ~ Run(w)
      BY <1>0, <1>3, <2>1, GoTask DEF Run, Past, Labels
    <3>1. CASE UNCHANGED acks
      BY <1>2, <3>1, AnswersKept DEF OrderInv
    <3>2. CASE ~ UNCHANGED acks
      <4>1. PICK a : a = <<M(w), task[w].tenant, keys[KeyOf(w)].answer>>
        OBVIOUS
      <4>2. /\ Keyed(w) /\ KeyOf(w) \in DOMAIN keys /\ acks' = acks \cup {a}
            /\ keys[KeyOf(w)].body = M(w).body
        BY <3>0, <3>2, <4>1 DEF Lookup, Ack
      <4>3. Truth(a)
        BY <1>0, <4>1, <4>2, ReplayTrue DEF At
      <4>4. Truth(a)'
        BY <1>2, <4>3, TruthKept
      <4> QED BY <1>2, <4>2, <4>4, AnswersKept DEF OrderInv
    <3> QED BY <3>1, <3>2
  <2> QED BY <1>1, <1>2, <2>2, <2>3, QuietStep DEF Others
<1>4. CASE Run(w) /\ ~ (Keyed(w) /\ KeyOf(w) \in DOMAIN keys)
  <2>1. /\ task'[w].at = "route" /\ task'[w].m = task[w].m
        /\ task'[w].tenant = task[w].tenant
    BY <1>0, <1>4, GoTask DEF Run, Labels
  <2>2. AnswersTrue'
    BY <1>2, <1>4, AnswersKept DEF Run, OrderInv
  <2>3. DeliveryInv'
    <3>1. DeliveryAt(w)'
      BY <2>1 DEF DeliveryAt, At
    <3> QED BY <1>1, <1>2, <3>1, DeliveryKept DEF OrderInv, DeliveryInv, Others
  <2>4. /\ \A v \in Workers : M(v)' = M(v) /\ KeyOf(v)' = KeyOf(v)
        /\ \A v \in Workers : Past(v)' => Past(v) \/ v = w
    BY <1>1, <2>1 DEF Others, M, KeyOf, Past
  <2>5. OverlapInv'
    <3>1. ASSUME NEW v \in Workers, v # w, Past(v), KeyOf(v) = KeyOf(w)
          PROVE  M(v) \in exposed' /\ M(w) \in exposed'
      <4>1. M(v) # None /\ ~ At(v, "lookup")
        BY <3>1, MessagesAssumption DEF OrderInv, Types, Holds, Messages, Past, At
      <4>2. v \in Overlaps(w)
        BY <3>1, <4>1 DEF Overlaps
      <4> QED BY <1>4, <4>2 DEF Run
    <3> QED BY <1>1, <2>4, <3>1 DEF OverlapInv, OrderInv
  <2>6. FreeInv'
    BY <1>1, <1>4, <2>4 DEF FreeInv, OrderInv, Keyed
  <2>7. StoredInv'
    BY <1>0, <1>1 DEF StoredInv, OrderInv, Others, M
  <2>8. KeysInv' /\ RefInv' /\ DuplicateHasCause'
    BY <1>1, <1>2, KeysKept DEF OrderInv, RefInv, DuplicateHasCause
  <2> QED BY <2>2, <2>3, <2>5, <2>6, <2>7, <2>8 DEF OrderInv
<1> QED BY <1>3, <1>4 DEF Lookup, Ack

(* Routing: a cancellation finds an order of its ref. *)
LEMMA RouteOrders ==
  ASSUME OrderInv, Types', NEW w \in Workers, Route(w)
  PROVE  OrderInv'
<1>0. task \in [Workers -> Task] /\ Types /\ Past(w) /\ task[w].at = "route"
  BY DEF OrderInv, Types, Route, Past, At
<1>1. UNCHANGED <<traffic, orders, overtaken, keys, exposed, acks>> /\ Others(w)
  BY <1>0, RequestTask DEF Route, life
<1>2. ASSUME NEW a \in {"skipped-no-known-skus", "cancel-no-such-order", "already-terminal"},
             Answering(w, "store", a)
      PROVE  Moves(w)
  <2>1. a \in Answers /\ "store" \in Labels
    BY DEF Answers, Labels
  <2>2. /\ task'[w].at = "store" /\ task'[w].answer = a /\ task'[w].m = task[w].m
        /\ task'[w].tenant = task[w].tenant
    BY <1>0, <1>2, <2>1, AnswerTask
  <2> QED BY <1>0, <2>2 DEF Moves, DeliveryAt, At
<1>3. ASSUME Go(w, "create") PROVE Moves(w)
  <2>1. /\ task'[w].at = "create" /\ task'[w].m = task[w].m
        /\ task'[w].tenant = task[w].tenant
    BY <1>0, <1>3, GoTask DEF Labels
  <2>2. DeliveryAt(w)'
    BY <2>1 DEF DeliveryAt, At
  <2> QED BY <1>0, <2>1, <2>2 DEF Moves
<1>4. ASSUME NEW o \in WithRef(task[w].tenant, M(w).ref), M(w).kind = "shopify/cancel",
             FoundGo(w, o)
      PROVE  Moves(w)
  <2>1. o \in OrderRow
    BY <1>0 DEF WithRef, Types, OrdersTyped
  <2>2. /\ task'[w].at = "cancel" /\ task'[w].order = o /\ task'[w].m = task[w].m
        /\ task'[w].tenant = task[w].tenant
    BY <1>0, <1>4, <2>1, FoundTask
  <2>3. DeliveryAt(w)'
    BY <1>1, <1>4, <2>2 DEF DeliveryAt, At, M, WithRef
  <2> QED BY <1>0, <2>2, <2>3 DEF Moves
<1>5. Moves(w)
  <2>1. \/ \E a \in {"skipped-no-known-skus", "cancel-no-such-order",
                     "already-terminal"} : Answering(w, "store", a)
        \/ Go(w, "create")
        \/ /\ M(w).kind = "shopify/cancel"
           /\ \E o \in WithRef(task[w].tenant, M(w).ref) : FoundGo(w, o)
    BY DEF Route, FoundGo
  <2> QED BY <1>2, <1>3, <1>4, <2>1
<1> QED BY <1>1, <1>5, NothingCommitted, QuietStep DEF Others

(* A reservation that throws exposes the order it leaves behind. *)
LEMMA ReserveOrders ==
  ASSUME OrderInv, Types', NEW w \in Workers, ReserveOnCreate(w)
  PROVE  OrderInv'
<1>0. /\ task \in [Workers -> Task] /\ Types /\ Past(w) /\ task[w].at = "reserve"
      /\ DeliveryAt(w)
  BY DEF OrderInv, Types, ReserveOnCreate, Past, At, DeliveryInv
<1>1. /\ UNCHANGED <<traffic, orders, overtaken, keys, acks>> /\ Others(w)
      /\ exposed \subseteq exposed'
  BY <1>0, RequestTask DEF ReserveOnCreate, life
<1>2. Grows
  BY <1>1 DEF Grows
<1>3. ASSUME Go(w, "store") PROVE Moves(w)
  <2>1. /\ task'[w].at = "store" /\ task'[w].m = task[w].m
        /\ task'[w].tenant = task[w].tenant /\ task'[w].answer = task[w].answer
    BY <1>0, <1>3, GoTask DEF Labels
  <2>2. DeliveryAt(w)'
    BY <1>0, <1>1, <2>1 DEF DeliveryAt, At, Exists, Cancelled, M
  <2> QED BY <1>0, <2>1, <2>2 DEF Moves
<1>4. ASSUME End(w), M(w) \in exposed' PROVE Moves(w)
  <2>1. ~ Past(w)'
    BY <1>0, <1>4, EndTask DEF Past
  <2> QED BY <1>4, <2>1, NotPast DEF Moves
<1>5. Moves(w)
  BY <1>3, <1>4 DEF ReserveOnCreate
<1>6. AnswersTrue'
  BY <1>1, <1>2, AnswersKept DEF OrderInv
<1> QED BY <1>1, <1>2, <1>5, <1>6, QuietStep DEF Others

(* A crash exposes the order of an answer that was not stored. *)
LEMMA CrashOrders ==
  ASSUME OrderInv, Types', NEW w \in Workers, Crash(w)
  PROVE  OrderInv'
<1>0. task \in [Workers -> Task] /\ Types /\ DeliveryAt(w)
  BY DEF OrderInv, Types, DeliveryInv
<1>1. /\ UNCHANGED <<traffic, orders, overtaken, keys, acks>> /\ Others(w)
      /\ exposed \subseteq exposed'
  BY <1>0, RequestTask DEF Crash, life
<1>2. Grows
  BY <1>1 DEF Grows
<1>3. ~ Past(w)'
  BY <1>0, EndTask DEF Past, Crash
<1>4. task[w].at \in {"reserve", "store"} => M(w) \in exposed'
  BY <1>0 DEF Crash, DeliveryAt
<1>5. Moves(w)
  BY <1>3, <1>4, NotPast DEF Moves
<1>6. AnswersTrue'
  BY <1>1, <1>2, AnswersKept DEF OrderInv
<1> QED BY <1>1, <1>2, <1>5, <1>6, QuietStep DEF Others

(* A cancellation is of an order with the ref it names. *)
LEMMA CancelOrders ==
  ASSUME OrderInv, Types', NEW w \in Workers,
         CancelReads(w) \/ CancelWrites(w) \/ Refund(w)
  PROVE  OrderInv'
<1>0. /\ task \in [Workers -> Task] /\ Types /\ Past(w)
      /\ task[w].at \in {"cancel", "cancelled", "refund"} /\ DeliveryAt(w)
  BY DEF OrderInv, Types, CancelReads, CancelWrites, Refund, Past, At, DeliveryInv
<1>1. UNCHANGED <<traffic, keys, acks, exposed>> /\ Others(w)
  BY <1>0, RequestTask DEF CancelReads, CancelWrites, Refund
<1>2. /\ task[w].order \in DOMAIN orders /\ task[w].order.tenant = task[w].tenant
      /\ task[w].order.by.ref = M(w).ref /\ M(w).kind = "shopify/cancel"
      /\ At(w, "refund") => Cancelled(task[w].tenant, M(w).ref)
  BY <1>0 DEF DeliveryAt, At, WithRef
<1>3. CASE CancelWrites(w)
  <2>1. /\ Overwrites(task[w].order, "OPEN", "CANCELLED") /\ Go(w, "refund")
        /\ task[w].at = "cancelled"
    BY <1>3 DEF CancelWrites, At
  <2>2. /\ DOMAIN orders' = DOMAIN orders /\ orders'[task[w].order] = "CANCELLED"
        /\ \A o \in DOMAIN orders : o # task[w].order => orders'[o] = orders[o]
        /\ UNCHANGED overtaken
    BY <1>2, <2>1 DEF Overwrites
  <2>3. Grows
    BY <1>1, <2>2 DEF Grows
  <2>4. /\ task'[w].at = "refund" /\ task'[w].m = task[w].m
        /\ task'[w].tenant = task[w].tenant /\ task'[w].order = task[w].order
    BY <1>0, <2>1, GoTask DEF Labels, Go
  <2>5. DeliveryAt(w)'
    BY <1>2, <2>2, <2>4 DEF DeliveryAt, At, M, Cancelled, WithRef
  <2>6. Moves(w)
    BY <1>0, <2>1, <2>4, <2>5 DEF Moves
  <2>7. AnswersTrue'
    BY <1>1, <2>3, AnswersKept DEF OrderInv
  <2> QED BY <1>1, <2>2, <2>3, <2>6, <2>7, QuietStep DEF Others
<1>4. CASE CancelReads(w) \/ Refund(w)
  <2>1. UNCHANGED <<orders, overtaken>>
    BY <1>4 DEF CancelReads, Refund, life
  <2>2. Grows /\ AnswersTrue'
    BY <1>1, <2>1, NothingCommitted
  <2>3. CASE End(w)
    <3>1. ~ Past(w)'
      BY <1>0, <2>3, EndTask DEF Past
    <3> QED BY <1>0, <1>1, <2>1, <2>2, <3>1, NotPast, QuietStep DEF Moves, Others
  <2>4. CASE CancelReads(w) /\ Go(w, "cancelled")
    <3>1. /\ task'[w].at = "cancelled" /\ task'[w].m = task[w].m
          /\ task'[w].tenant = task[w].tenant /\ task'[w].order = task[w].order
      BY <1>0, <2>4, GoTask DEF Labels, Go
    <3>2. DeliveryAt(w)'
      BY <1>2, <2>1, <3>1 DEF DeliveryAt, At, M, WithRef
    <3>3. Moves(w)
      BY <1>0, <3>1, <3>2 DEF Moves, Past
    <3> QED BY <1>1, <2>1, <2>2, <3>3, QuietStep DEF Others
  <2>5. CASE Refund(w) /\ Answering(w, "store", "order-cancelled")
    <3>1. /\ task'[w].at = "store" /\ task'[w].answer = "order-cancelled"
          /\ task'[w].m = task[w].m /\ task'[w].tenant = task[w].tenant
      BY <1>0, <2>5, AnswerTask DEF Labels, Answers
    <3>2. Cancelled(task[w].tenant, M(w).ref)'
      BY <1>2, <2>1, <2>5, <3>1 DEF Refund, Cancelled, M
    <3>3. DeliveryAt(w)'
      BY <1>2, <3>1, <3>2 DEF DeliveryAt, At, M
    <3>4. Moves(w)
      BY <1>0, <3>1, <3>3 DEF Moves
    <3> QED BY <1>1, <2>1, <2>2, <3>4, QuietStep DEF Others
  <2> QED BY <1>4, <2>3, <2>4, <2>5 DEF CancelReads, Refund
<1> QED BY <1>3, <1>4

(* The key is stored, or its winner's answer given. *)
LEMMA StoreOrders ==
  ASSUME OrderInv, Types', NEW w \in Workers, StoreKey(w)
  PROVE  OrderInv'
<1>0. /\ task \in [Workers -> Task] /\ Types /\ Past(w) /\ task[w].at = "store"
      /\ DeliveryAt(w) /\ At(w, "store")
  BY DEF OrderInv, Types, StoreKey, Past, At, DeliveryInv
<1>1. UNCHANGED <<traffic, orders, overtaken, exposed>> /\ Others(w) /\ End(w)
  BY <1>0, RequestTask DEF StoreKey, Ack, life
<1>2. ~ Past(w)'
  BY <1>0, <1>1, EndTask DEF Past
<1>3. CASE UNCHANGED keys /\ (~ Keyed(w) \/ KeyOf(w) \in DOMAIN keys)
  <2>1. Grows
    BY <1>1, <1>3 DEF Grows
  <2>2. Moves(w)
    BY <1>2, <1>3, NotPast DEF Moves
  <2>3. PICK a : /\ acks' = acks \cup {a} /\ Truth(a)
    <3>1. CASE ~ Keyed(w)
      BY <1>0, <3>1, ComputedTrue DEF StoreKey, Ack
    <3>2. CASE Keyed(w)
      <4>1. M(w) \in exposed /\ KeyOf(w) \in DOMAIN keys
        BY <1>0, <1>3, <3>2 DEF OrderInv, FreeInv
      <4> QED BY <1>0, <3>2, <4>1, ReplayTrue DEF StoreKey, Ack
    <3> QED BY <3>1, <3>2
  <2>4. Truth(a)'
    BY <2>1, <2>3, TruthKept
  <2>5. AnswersTrue'
    BY <2>1, <2>3, <2>4, AnswersKept DEF OrderInv
  <2> QED BY <1>1, <1>3, <2>1, <2>2, <2>5, QuietStep DEF Others
<1>4. CASE Keyed(w) /\ KeyOf(w) \notin DOMAIN keys
  <2>1. PICK k : k = KeyOf(w)
    OBVIOUS
  <2>2. PICK r : r = [body |-> M(w).body, answer |-> task[w].answer]
    OBVIOUS
  <2>3. /\ k[1] = task[w].tenant /\ k[2] = M(w).kind /\ k[3] = M(w).key
        /\ M(w).key # None /\ k \notin DOMAIN keys
        /\ r.body = M(w).body /\ r.answer = task[w].answer
    BY <1>4, <2>1, <2>2 DEF KeyOf, Keyed
  <2>4. keys' = Insert(keys, k, r)
    BY <1>4, <2>1, <2>2 DEF StoreKey
  <2>5. /\ DOMAIN keys' = DOMAIN keys \cup {k} /\ keys'[k] = r
        /\ \A j \in DOMAIN keys : keys'[j] = keys[j]
    BY <2>3, <2>4 DEF Insert
  <2>6. Grows
    BY <1>1, <2>5 DEF Grows
  <2>7. DeliveryInv'
    BY <1>1, <1>2, <2>6, NotPast, DeliveryKept DEF OrderInv, DeliveryInv, Others
  <2>a. \A v \in Workers : Past(v)' => /\ v # w /\ Past(v) /\ M(v)' = M(v)
                                       /\ KeyOf(v)' = KeyOf(v)
    BY <1>1, <1>2 DEF Others, Past, M, KeyOf
  <2>8. OverlapInv'
    BY <1>1, <2>a DEF OrderInv, OverlapInv
  <2>9. FreeInv'
    BY <1>0, <1>1, <2>a, <2>1, <2>5 DEF OrderInv, FreeInv, OverlapInv, Keyed
  <2>10. StoredInv'
    <3> SUFFICES ASSUME NEW o \in DOMAIN orders, o.by.key # None, o.by \notin exposed,
                        <<o.tenant, o.by.kind, o.by.key>> \notin DOMAIN keys'
                 PROVE  \E v \in Workers : /\ task'[v].at \in {"reserve", "store"}
                                           /\ task'[v].m = o.by
                                           /\ task'[v].tenant = o.tenant
      BY <1>1 DEF StoredInv, M
    <3>1. PICK v \in Workers : /\ task[v].at \in {"reserve", "store"}
                               /\ M(v) = o.by /\ task[v].tenant = o.tenant
      BY <2>5 DEF OrderInv, StoredInv
    <3>2. v # w
      BY <2>1, <2>5, <3>1 DEF KeyOf
    <3> QED BY <1>1, <3>1, <3>2 DEF Others, M
  <2>11. RefInv' /\ DuplicateHasCause'
    BY <1>1 DEF OrderInv, RefInv, DuplicateHasCause
  <2>12. KeysInv'
    <3>1. \A t, ref : Cancelled(t, ref) => Cancelled(t, ref)'
      BY <2>6, CancelledKept
    <3>2. M(w) \in Messages
      BY <1>0 DEF Types, Holds
    <3>3. r.answer = "order-created" =>
            \E o \in DOMAIN orders' :
              /\ o.tenant = k[1] /\ o.by.kind = k[2] /\ o.by.key = k[3]
              /\ o.by.body = r.body
      BY <1>0, <1>1, <2>3 DEF DeliveryAt, Exists
    <3>4. r.answer = "order-cancelled" =>
            /\ k[2] = "shopify/cancel"
            /\ \E m \in Messages :
                 m.kind = k[2] /\ m.key = k[3] /\ Cancelled(k[1], m.ref)
      BY <1>0, <2>3, <3>2 DEF DeliveryAt
    <3>5. \A j \in DOMAIN keys :
            /\ j[3] # None
            /\ keys'[j].answer = "order-created" =>
                 \E o \in DOMAIN orders' :
                   /\ o.tenant = j[1] /\ o.by.kind = j[2] /\ o.by.key = j[3]
                   /\ o.by.body = keys'[j].body
            /\ keys'[j].answer = "order-cancelled" =>
                 /\ j[2] = "shopify/cancel"
                 /\ \E m \in Messages :
                      m.kind = j[2] /\ m.key = j[3] /\ Cancelled(j[1], m.ref)
      BY <1>1, <2>5 DEF OrderInv, KeysInv
    <3> QED BY <1>1, <2>3, <2>5, <3>1, <3>3, <3>4, <3>5 DEF KeysInv, Messages
  <2>13. AnswersTrue'
    <3>1. PICK a : a = <<M(w), task[w].tenant, task[w].answer>>
      OBVIOUS
    <3>2. Truth(a) /\ acks' = acks \cup {a}
      BY <1>0, <1>4, <3>1, ComputedTrue DEF StoreKey, Ack
    <3>3. Truth(a)'
      BY <2>6, <3>2, TruthKept
    <3> QED BY <2>6, <3>2, <3>3, AnswersKept DEF OrderInv
  <2> QED BY <2>7, <2>8, <2>9, <2>10, <2>11, <2>12, <2>13 DEF OrderInv
<1> QED BY <1>3, <1>4 DEF StoreKey

(* A run that commits an order: an earlier order of its message would have  *)
(* taken its ref, stored its key, or overlapped it.                         *)
LEMMA CreateOrders ==
  ASSUME OrderInv, Types', NEW w \in Workers, CreateOrder(w)
  PROVE  OrderInv'
<1>0. /\ task \in [Workers -> Task] /\ Types /\ Past(w) /\ task[w].at = "create"
      /\ At(w, "create")
  BY DEF OrderInv, Types, CreateOrder, Past, At
<1>1. UNCHANGED <<traffic, overtaken, keys, acks, exposed>> /\ Others(w)
  BY <1>0, RequestTask DEF CreateOrder
<1>2. CASE End(w) /\ UNCHANGED orders
  <2>1. ~ Past(w)'
    BY <1>0, <1>2, EndTask DEF Past
  <2>2. Moves(w)
    BY <1>0, <2>1, NotPast DEF Moves
  <2> QED BY <1>1, <1>2, <2>2, NothingCommitted, QuietStep DEF Others
<1>3. CASE ~ RefTaken(w)
  <2>1. PICK o : o = OrderOf(w)
    OBVIOUS
  <2>2. /\ o \in OrderRow /\ o.by = M(w) /\ o.tenant = task[w].tenant
        /\ o.channel = ChannelOf(M(w)) /\ M(w) \in Messages
    BY <1>0, <2>1, OrderOfType
  <2>3. /\ DOMAIN orders' = DOMAIN orders \cup {o}
        /\ \A p \in DOMAIN orders : orders'[p] = orders[p]
    BY <1>3, <2>1 DEF CreateOrder, Insert
  <2>4. Grows
    BY <1>1, <2>3 DEF Grows
  <2>5. PICK label \in {"reserve", "store"} : Answering(w, label, "order-created")
    BY <1>3 DEF CreateOrder
  <2>6. /\ task'[w].at = label /\ task'[w].m = task[w].m /\ Past(w)'
        /\ task'[w].tenant = task[w].tenant /\ task'[w].answer = "order-created"
    <3>1. label \in Labels /\ "order-created" \in Answers
      BY DEF Labels, Answers
    <3> QED BY <1>0, <2>5, <3>1, AnswerTask DEF Past
  <2>7. DeliveryAt(w)'
    BY <2>2, <2>3, <2>6 DEF DeliveryAt, At, M, Exists
  <2>8. DeliveryInv'
    BY <1>1, <2>4, <2>7, DeliveryKept DEF OrderInv, DeliveryInv, Others
  <2>a. \A v \in Workers : /\ M(v)' = M(v) /\ KeyOf(v)' = KeyOf(v)
                           /\ Past(v)' => Past(v)
    BY <1>0, <1>1, <2>6 DEF Others, Past, M, KeyOf
  <2>9. OverlapInv' /\ FreeInv'
    BY <1>1, <2>a DEF OrderInv, OverlapInv, FreeInv, Keyed
  <2>10. StoredInv'
    <3> SUFFICES ASSUME NEW p \in DOMAIN orders', p.by.key # None, p.by \notin exposed,
                        <<p.tenant, p.by.kind, p.by.key>> \notin DOMAIN keys
                 PROVE  \E v \in Workers : /\ task'[v].at \in {"reserve", "store"}
                                           /\ task'[v].m = p.by
                                           /\ task'[v].tenant = p.tenant
      BY <1>1 DEF StoredInv, M
    <3>1. CASE p = o
      BY <2>2, <2>5, <2>6, <3>1 DEF M
    <3>2. CASE p \in DOMAIN orders
      <4>1. PICK v \in Workers : /\ task[v].at \in {"reserve", "store"}
                                 /\ M(v) = p.by /\ task[v].tenant = p.tenant
        BY <3>2 DEF OrderInv, StoredInv
      <4>2. v # w
        BY <1>0, <4>1
      <4> QED BY <1>1, <4>1, <4>2 DEF Others, M
    <3> QED BY <2>3, <3>1, <3>2
  <2>11. ASSUME NEW p \in DOMAIN orders, p.tenant = o.tenant, p.channel = o.channel,
                p.by.ref = o.by.ref, o.by.ref # None
         PROVE  FALSE
    <3>1. p \in WithRef(task[w].tenant, M(w).ref) /\ M(w).ref # None
      BY <2>2, <2>11 DEF WithRef
    <3>2. OrderOf(w).channel = p.channel
      BY <2>1, <2>11
    <3> QED BY <1>3, <3>1, <3>2 DEF RefTaken
  <2>12. RefInv'
    BY <2>3, <2>11 DEF OrderInv, RefInv
  <2>13. ASSUME NEW p \in DOMAIN orders, p.by = o.by, p.tenant = o.tenant
         PROVE  o.by.ref = None /\ (o.by.key = None \/ o.by \in exposed)
    <3>1. p.channel = o.channel
      BY <1>0, <2>2, <2>13 DEF Types, OrdersTyped
    <3>2. o.by.ref = None
      BY <2>11, <2>13, <3>1
    <3>3. ASSUME o.by.key # None, o.by \notin exposed PROVE FALSE
      <4>1. KeyOf(w) = <<p.tenant, p.by.kind, p.by.key>> /\ Keyed(w)
        BY <2>2, <2>13, <3>3 DEF KeyOf, Keyed
      <4>2. KeyOf(w) \notin DOMAIN keys
        BY <1>0, <2>2, <3>3, <4>1 DEF OrderInv, FreeInv
      <4>3. PICK v \in Workers : /\ task[v].at \in {"reserve", "store"}
                                 /\ M(v) = p.by /\ task[v].tenant = p.tenant
        BY <2>13, <3>3, <4>1, <4>2 DEF OrderInv, StoredInv
      <4>4. v # w /\ Past(v) /\ KeyOf(v) = KeyOf(w)
        BY <1>0, <4>1, <4>3 DEF Past, KeyOf
      <4> QED BY <1>0, <2>2, <3>3, <4>4 DEF OrderInv, OverlapInv
    <3> QED BY <3>2, <3>3
  <2>14. DuplicateHasCause'
    BY <1>1, <2>3, <2>13 DEF OrderInv, DuplicateHasCause
  <2>15. KeysInv' /\ AnswersTrue'
    BY <1>1, <2>4, KeysKept, AnswersKept DEF OrderInv
  <2> QED BY <2>8, <2>9, <2>10, <2>12, <2>14, <2>15 DEF OrderInv
<1> QED BY <1>2, <1>3 DEF CreateOrder

(* Nothing has been ordered or answered to begin with. *)
LEMMA InitOrders ==
  ASSUME Init
  PROVE  OrderInv
<1>1. /\ Types /\ DOMAIN orders = {} /\ DOMAIN keys = {} /\ acks = {}
      /\ \A w \in Workers : task[w].at = "idle"
  BY InitTypes DEF Init, At
<1>2. DeliveryInv /\ OverlapInv /\ FreeInv
  BY <1>1 DEF DeliveryInv, DeliveryAt, OverlapInv, FreeInv, Past, At
<1>3. StoredInv /\ RefInv /\ KeysInv /\ DuplicateHasCause
  BY <1>1 DEF StoredInv, RefInv, KeysInv, DuplicateHasCause
<1>4. AnswersTrue
  BY <1>1 DEF AnswersTrue, Told
<1> QED BY <1>1, <1>2, <1>3, <1>4 DEF OrderInv

(* Every step keeps what is known of orders, keys and answers. *)
LEMMA OrdersNext ==
  ASSUME OrderInv, [Next]_vars
  PROVE  OrderInv'
<1>1. Types /\ Types'
  BY TypesNext DEF OrderInv
<1>2. ASSUME \/ \E n \in traffic.nonces, s \in Shops, t \in Tenants : Install(n, s, t)
             \/ \E n \in traffic.nonces : NonceExpires(n)
             \/ \E x \in traffic.byHand : CreateChannel(x[1], x[2])
             \/ \E t \in Tenants, c \in Codes : AddSku(t, c)
             \/ \E o \in DOMAIN orders, to \in Statuses : TransitionReads(o, to)
             \/ \E x \in moves : TransitionWrites(x)
             \/ UNCHANGED vars
      PROVE  OrderInv'
  <2>1. UNCHANGED <<traffic, keys, exposed>>
    BY <1>2 DEF Install, NonceExpires, CreateChannel, AddSku, TransitionReads,
                TransitionWrites, vars
  <2> QED BY <1>1, <1>2, <2>1, OutsideOrders
<1>3. ASSUME NEW w \in Workers, Continue(w) \/ Crash(w) PROVE OrderInv'
  BY <1>1, <1>3, OAuthOrders, LookupOrders, RouteOrders, CreateOrders, ReserveOrders,
     CancelOrders, StoreOrders, CrashOrders DEF Continue
<1> QED BY <1>1, <1>2, <1>3, OAuthOrders, DeliverOrders DEF Next

(* What runs of a key may rely on is invariant, for any messages delivered  *)
(* any number of times to any number of workers that may crash.             *)
THEOREM OrdersInvariance == Spec => []OrderInv
<1>1. Init => OrderInv
  BY InitOrders
<1>2. OrderInv /\ [Next]_vars => OrderInv'
  BY OrdersNext
<1> QED BY <1>1, <1>2, PTL DEF Spec

(* orders.controller.ts:24: a message makes a second order only without an  *)
(* external ref, and then only without a key, by overlapping deliveries or  *)
(* by a request that ended between its order and its key.                   *)
THEOREM DuplicatesHaveCause == Spec => []DuplicateHasCause
<1>1. OrderInv => DuplicateHasCause
  BY DEF OrderInv
<1> QED BY <1>1, OrdersInvariance, PTL

(* idempotency.service.ts:22-24: computed, replayed or taken from the       *)
(* winner of a race, an answer speaks of an order that is there.            *)
THEOREM AnswersAreTrue == Spec => []AnswersTrue
<1>1. OrderInv => AnswersTrue
  BY DEF OrderInv
<1> QED BY <1>1, OrdersInvariance, PTL
=============================================================================
