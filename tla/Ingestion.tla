------------------------------ MODULE Ingestion ------------------------------
(***************************************************************************)
(* How orders and channels enter the system: the idempotency keys          *)
(* (idempotency.service.ts) around POST /orders and the Shopify and        *)
(* marketplace webhooks (webhook.service.ts), and the OAuth handshake that *)
(* connects a shop to a tenant (shopify-oauth.service.ts).                 *)
(*                                                                         *)
(* Senders deliver at least once: a message may arrive any number of       *)
(* times, to several server processes at once, in any order, and a server  *)
(* may die between two statements of a handler.  Every statement is a step *)
(* of its own; nothing but the database's unique constraints orders them.  *)
(***************************************************************************)
EXTENDS Integers, FiniteSets

CONSTANTS
  Tenants, Shops,
  Codes,       \* SKU codes a message may name
  Scenarios,   \* what senders send and what is there already, see Scenario
  Nonces,      \* OAuth state values (randomUUID: never reused)
  Workers,     \* concurrent requests, over all server processes
  None,        \* an absent key, ref or row
  Unused,      \* a nonce that was never handed out
  MaxOrders,   \* bound on the orders of messages without external ref
  MaxCrashes

Kinds == {"shopify/create", "shopify/cancel", "generic", "api"}

(* body stands for the request hash; tenant is None for Shopify, whose       *)
(* deliveries name the shop; signed: does its HMAC verify.                   *)
Message ==
  [kind : Kinds, tenant : Tenants \cup {None}, shop : Shops \cup {None},
   key : STRING \cup {None}, ref : STRING \cup {None}, code : Codes,
   body : STRING, reserve : BOOLEAN, signed : BOOLEAN]

(* A scenario: the messages that are sent, over and over; the nonces of the  *)
(* installs that may be started; the shops already connected; the tenants    *)
(* whose catalog is complete; the channels an operator may create by hand;   *)
(* and how many transitions may be under way beside the workers.             *)
Scenario ==
  [messages : SUBSET Message, nonces : SUBSET Nonces,
   connected : SUBSET (Tenants \X Shops), stocked : SUBSET Tenants,
   byHand : SUBSET (Tenants \X Shops), moves : Nat]

ASSUME IngestionAssumption ==
  /\ None \notin Tenants \cup Shops
  /\ Scenarios \subseteq Scenario
  /\ MaxOrders \in Nat /\ MaxCrashes \in Nat

(* The ref is part of the body; the id of a Shopify webhook, its key, is    *)
(* that of one event.                                                       *)
ASSUME MessagesAssumption ==
  \A sc \in Scenarios : \A m \in sc.messages :
    /\ m # None
    /\ m.kind \in {"generic", "api"} => m.tenant \in Tenants
    /\ \A n \in sc.messages :
         /\ n.kind = m.kind
         /\ n.body = m.body \/ (m.kind = "shopify/cancel" /\ n.key = m.key /\ n.key # None)
         => n.ref = m.ref

VARIABLES
  traffic,   \* the scenario, chosen once
  catalog,   \* tenant -> the codes of its Sku table
  channels,  \* SalesChannel: [tenant, name, ref]; ref is the shop or None
  nonces,    \* nonce -> [shop, tenant] in Redis, or None, or Unused
  installs,  \* <<tenant, shop>> of every install that was started
  orders,    \* Order: its identity -> its status
  moves,     \* transitions by others that have read and not yet written
  overtaken, \* cancelled orders a transition that was under way revived
  keys,      \* IdempotencyKey: <<tenant, scope, key>> -> [body, answer]
  acks,      \* 2xx answers given: <<message, tenant, answer>>
  exposed,   \* messages whose run overlapped another of the same key, or
             \* ended after its order was committed and before its key was
  task, crashes

life == <<orders, moves, overtaken>>
vars == <<traffic, catalog, channels, nonces, installs, life, keys, acks,
          exposed, task, crashes>>
oauth == <<channels, nonces, installs>>

Messages == traffic.messages

(* INSERT of a row into a table keyed by it. *)
Insert(table, row, v) ==
  [r \in DOMAIN table \cup {row} |-> IF r \in DOMAIN table THEN table[r] ELSE v]

Idle == [at |-> "idle", m |-> None, tenant |-> None, answer |-> "",
         order |-> None, nonce |-> None, shop |-> None]
At(w, label) == task[w].at = label
Go(w, label) == task' = [task EXCEPT ![w].at = label]
End(w) == task' = [task EXCEPT ![w] = Idle]
Answering(w, label, a) ==
  task' = [task EXCEPT ![w].at = label, ![w].answer = a]

Init ==
  /\ traffic \in Scenarios
  /\ catalog = [t \in Tenants |-> IF t \in traffic.stocked THEN Codes ELSE {}]
  /\ channels = { [tenant |-> x[1], name |-> x[2], ref |-> x[2]] :
                   x \in traffic.connected }
  /\ installs = traffic.connected
  /\ nonces = [n \in Nonces |-> Unused]
  /\ orders = << >> /\ moves = {} /\ overtaken = {} /\ keys = << >>
  /\ acks = {} /\ exposed = {}
  /\ task = [w \in Workers |-> Idle]
  /\ crashes = 0

-----------------------------------------------------------------------------
(* The OAuth handshake *)

(* buildInstallUrl: a fresh nonce remembers the shop and the tenant. *)
Install(n, s, t) ==
  /\ nonces[n] = Unused
  /\ nonces' = [nonces EXCEPT ![n] = [shop |-> s, tenant |-> t]]
  /\ installs' = installs \cup {<<t, s>>}
  /\ UNCHANGED <<traffic, catalog, channels, life, keys, acks, exposed, task, crashes>>

(* STATE_TTL_SECONDS pass. *)
NonceExpires(n) ==
  /\ nonces[n] \notin {None, Unused}
  /\ nonces' = [nonces EXCEPT ![n] = None]
  /\ UNCHANGED <<traffic, catalog, channels, installs, life, keys, acks, exposed,
                 task, crashes>>

(* handleCallback, signed, with the shop it was redirected from: the nonce  *)
(* is read and its shop compared; any other callback changes nothing.       *)
CallbackRead(w, n, s) ==
  /\ At(w, "idle") /\ nonces[n] \notin {None, Unused}
  /\ nonces[n].shop = s
  /\ task' = [task EXCEPT ![w].at = "delState", ![w].nonce = n, ![w].shop = s,
                          ![w].tenant = nonces[n].tenant]
  /\ UNCHANGED <<traffic, catalog, oauth, life, keys, acks, exposed, crashes>>

CallbackDel(w) ==
  /\ At(w, "delState")
  /\ nonces' = [nonces EXCEPT ![task[w].nonce] = None]
  /\ Go(w, "exchange")
  /\ UNCHANGED <<traffic, catalog, channels, installs, life, keys, acks, exposed, crashes>>

(* exchangeCodeForToken: a code is good once, so the call may fail. *)
Exchange(w) ==
  /\ At(w, "exchange")
  /\ Go(w, "findShop") \/ End(w)
  /\ UNCHANGED <<traffic, catalog, oauth, life, keys, acks, exposed, crashes>>

(* An existing channel only has its token replaced. *)
FindShop(w) ==
  /\ At(w, "findShop")
  /\ IF \E c \in channels : c.tenant = task[w].tenant /\ c.ref = task[w].shop
     THEN End(w) ELSE Go(w, "connect")
  /\ UNCHANGED <<traffic, catalog, oauth, life, keys, acks, exposed, crashes>>

Channel(t, name, ref) == [tenant |-> t, name |-> name, ref |-> ref]

(* @@unique([tenantId, name]): an INSERT of a name taken fails. *)
NameFree(t, name) ==
  \A c \in channels : ~ (c.tenant = t /\ c.name = name)

(* Mutant of Connect: the channel is named after its nonce. *)
ConnectNamedByNonce(w) ==
  /\ At(w, "connect")
  /\ channels' = channels \cup
       {Channel(task[w].tenant, task[w].nonce, task[w].shop)}
  /\ End(w)
  /\ UNCHANGED <<traffic, catalog, nonces, installs, life, keys, acks, exposed, crashes>>

Connect(w) ==
  /\ At(w, "connect")
  /\ channels' = IF NameFree(task[w].tenant, task[w].shop)
                 THEN channels \cup
                        {Channel(task[w].tenant, task[w].shop, task[w].shop)}
                 ELSE channels
  /\ End(w)
  /\ UNCHANGED <<traffic, catalog, nonces, installs, life, keys, acks, exposed, crashes>>

(* createChannel: a channel without external ref, of any name. *)
CreateChannel(t, name) ==
  /\ NameFree(t, name)
  /\ channels' = channels \cup {Channel(t, name, None)}
  /\ UNCHANGED <<traffic, catalog, nonces, installs, life, keys, acks, exposed, task,
                 crashes>>

(* createSku *)
AddSku(t, code) ==
  /\ code \notin catalog[t]
  /\ catalog' = [catalog EXCEPT ![t] = @ \cup {code}]
  /\ UNCHANGED <<traffic, oauth, life, keys, acks, exposed, task, crashes>>

-----------------------------------------------------------------------------
(* A delivery reaches a handler *)

Shopify(m) == m.kind \in {"shopify/create", "shopify/cancel"}

(* verifyWebhookHmac over the raw body; a delivery that fails it is a 401. *)
Signed(m) == m.signed

(* mapLines: the lines whose SKU code the tenant knows. *)
KnownLines(m, t) == {m.code} \cap catalog[t]

Connected(s) == { c \in channels : c.ref = s }
Start(w, m, t, label) ==
  task' = [task EXCEPT ![w].at = label, ![w].m = m, ![w].tenant = t]

(* handleShopify: the channel of the shop is looked up over all tenants     *)
(* (findFirst, in no order); an unknown shop is acknowledged and forgotten. *)
DeliverShopify(w, m) ==
  /\ At(w, "idle") /\ m \in Messages /\ Signed(m) /\ Shopify(m)
  /\ IF Connected(m.shop) = {}
     THEN /\ acks' = acks \cup {<<m, None, "ignored-unknown-shop">>}
          /\ UNCHANGED task
     ELSE /\ \E c \in Connected(m.shop) : Start(w, m, c.tenant, "lookup")
          /\ UNCHANGED acks
  /\ UNCHANGED <<traffic, catalog, oauth, life, keys, exposed, crashes>>

(* handleGeneric maps the lines before the key is looked at, so that a      *)
(* delivery without known SKU is acknowledged but leaves no key.            *)
DeliverGeneric(w, m) ==
  /\ At(w, "idle") /\ Signed(m) /\ m.kind = "generic"
  /\ IF KnownLines(m, m.tenant) # {}
     THEN Start(w, m, m.tenant, "lookup") /\ UNCHANGED acks
     ELSE /\ acks' = acks \cup {<<m, m.tenant, "skipped-no-known-skus">>}
          /\ UNCHANGED task
  /\ UNCHANGED <<traffic, catalog, oauth, life, keys, exposed, crashes>>

(* POST /orders *)
DeliverApi(w, m) ==
  /\ At(w, "idle") /\ m.kind = "api" /\ m.code \in catalog[m.tenant]
  /\ Cardinality({ o \in DOMAIN orders : o.by.ref = None }) < MaxOrders
  /\ Start(w, m, m.tenant, "lookup")
  /\ UNCHANGED <<traffic, catalog, oauth, life, keys, acks, exposed, crashes>>

-----------------------------------------------------------------------------
(* IdempotencyService.run: look the key up, run the request, store its      *)
(* answer.                                                                  *)

M(w) == task[w].m
KeyOf(w) == <<task[w].tenant, M(w).kind, M(w).key>>
Keyed(w) == M(w).key # None
Ack(w, a) == /\ acks' = acks \cup {<<M(w), task[w].tenant, a>>}
             /\ End(w)

Overlaps(w) ==
  { v \in Workers \ {w} : /\ M(v) # None /\ ~ At(v, "lookup")
                          /\ KeyOf(v) = KeyOf(w) }

Run(w) ==
  /\ Go(w, "route")
  /\ exposed' = exposed \cup
       (IF Overlaps(w) = {} THEN {} ELSE {M(w)} \cup { M(v) : v \in Overlaps(w) })
  /\ UNCHANGED acks

(* Mutant of Lookup: the stored answer is replayed for any body. *)
LookupAnyBody(w) ==
  /\ At(w, "lookup")
  /\ IF Keyed(w) /\ KeyOf(w) \in DOMAIN keys
     THEN Ack(w, keys[KeyOf(w)].answer) /\ UNCHANGED exposed
     ELSE Run(w)
  /\ UNCHANGED <<traffic, catalog, oauth, life, keys, crashes>>

Lookup(w) ==
  /\ At(w, "lookup")
  /\ \/ ~ (Keyed(w) /\ KeyOf(w) \in DOMAIN keys) /\ Run(w)
     \/ /\ Keyed(w) /\ KeyOf(w) \in DOMAIN keys
        /\ IF keys[KeyOf(w)].body = M(w).body
           THEN Ack(w, keys[KeyOf(w)].answer)
           ELSE End(w) /\ UNCHANGED acks
        /\ UNCHANGED exposed
  /\ UNCHANGED <<traffic, catalog, oauth, life, keys, crashes>>

(* Mutant of StoreKey: the row is only written for answers worth keeping,   *)
(* and an order without external ref is not.                                *)
StoreKeyOfRefs(w) ==
  /\ At(w, "store")
  /\ Ack(w, task[w].answer)
  /\ keys' = IF M(w).ref = None \/ KeyOf(w) \in DOMAIN keys THEN keys
             ELSE Insert(keys, KeyOf(w), [body |-> M(w).body, answer |-> task[w].answer])
  /\ UNCHANGED <<traffic, catalog, oauth, life, exposed, crashes>>

(* The INSERT of the key; on P2002 the answer of the winner is given, and   *)
(* its body is not compared.                                                *)
StoreKey(w) ==
  /\ At(w, "store")
  /\ IF ~ Keyed(w) THEN Ack(w, task[w].answer) /\ UNCHANGED keys
     ELSE IF KeyOf(w) \in DOMAIN keys
          THEN Ack(w, keys[KeyOf(w)].answer) /\ UNCHANGED keys
          ELSE /\ Ack(w, task[w].answer)
               /\ keys' = Insert(keys, KeyOf(w), [body |-> M(w).body,
                                                  answer |-> task[w].answer])
  /\ UNCHANGED <<traffic, catalog, oauth, life, exposed, crashes>>

-----------------------------------------------------------------------------
(* The request itself *)

OrderOf(w) ==
  [tenant |-> task[w].tenant, by |-> M(w),
   channel |-> IF M(w).kind = "generic" THEN "MARKETPLACE" ELSE "WEB",
   copy |-> Cardinality({ o \in DOMAIN orders :
                            o.by = M(w) /\ o.tenant = task[w].tenant })]

(* cancelByExternalRef: an order of the tenant with this ref, of whatever   *)
(* channel (findFirst).                                                     *)
WithRef(t, ref) == { o \in DOMAIN orders : o.tenant = t /\ o.by.ref = ref }

(* Mutant of Route: the topic of a create is not recognised. *)
RouteUnknownTopic(w) ==
  /\ At(w, "route")
  /\ IF M(w).kind = "shopify/create" THEN Answering(w, "store", "ignored")
     ELSE IF M(w).kind = "shopify/cancel"
          THEN Answering(w, "store", "cancel-no-such-order") ELSE Go(w, "create")
  /\ UNCHANGED <<traffic, catalog, oauth, life, keys, acks, exposed, crashes>>

(* routeShopify, ingestOrder and the first read of cancelByExternalRef: the *)
(* unknown SKUs of an order are dropped, an order of nothing is skipped.    *)
Route(w) ==
  /\ At(w, "route")
  /\ \/ /\ M(w).kind # "shopify/cancel"
        /\ IF M(w).kind = "shopify/create" /\ KnownLines(M(w), task[w].tenant) = {}
           THEN Answering(w, "store", "skipped-no-known-skus")
           ELSE Go(w, "create")
     \/ /\ M(w).kind = "shopify/cancel"
        /\ LET found == WithRef(task[w].tenant, M(w).ref) IN
             \/ found = {} /\ Answering(w, "store", "cancel-no-such-order")
             \/ \E o \in found :
                  IF orders[o] \in {"CANCELLED", "RETURNED"}
                  THEN Answering(w, "store", "already-terminal")
                  ELSE task' = [task EXCEPT ![w].at = "cancel", ![w].order = o]
  /\ UNCHANGED <<traffic, catalog, oauth, life, keys, acks, exposed, crashes>>

(* @@unique([tenantId, channel, externalRef]); NULLs never collide. *)
RefTaken(w) ==
  /\ M(w).ref # None
  /\ \E o \in WithRef(task[w].tenant, M(w).ref) : o.channel = OrderOf(w).channel

(* OrdersService.create: P2002 aborts the request, no key is stored. *)
CreateOrder(w) ==
  /\ At(w, "create")
  /\ IF RefTaken(w) THEN End(w) /\ UNCHANGED orders
     ELSE /\ orders' = Insert(orders, OrderOf(w), "OPEN")
          /\ Answering(w, IF M(w).reserve THEN "reserve" ELSE "store",
                       "order-created")
  /\ UNCHANGED <<traffic, catalog, oauth, moves, overtaken, keys, acks, exposed, crashes>>

(* reserveOnCreate: stock that is short throws, with the order committed. *)
ReserveOnCreate(w) ==
  /\ At(w, "reserve")
  /\ \/ Go(w, "store") /\ UNCHANGED exposed
     \/ End(w) /\ exposed' = exposed \cup {M(w)}
  /\ UNCHANGED <<traffic, catalog, oauth, life, keys, acks, crashes>>

(* The statuses an order can be in, those before SHIPPED and those after it *)
(* as one each, and the transitions between them (order-state-machine.ts).  *)
Statuses == {"OPEN", "SHIPPED", "RETURNED", "CANCELLED"}
Declared == {<<"OPEN", "OPEN">>, <<"OPEN", "SHIPPED">>, <<"OPEN", "CANCELLED">>,
             <<"SHIPPED", "SHIPPED">>, <<"SHIPPED", "RETURNED">>}

(* A status is written over whatever it has become since it was read. *)
Overwrites(o, from, to) ==
  /\ orders' = [orders EXCEPT ![o] = to]
  /\ overtaken' = IF orders[o] = "CANCELLED" /\ "CANCELLED" \notin {from, to}
                  THEN overtaken \cup {o} ELSE overtaken

(* OrdersService.cancel frees what the order holds (module OrderLifecycle); *)
(* its transition reads the status, and throws if the order has shipped or  *)
(* is cancelled.                                                            *)
CancelReads(w) ==
  /\ At(w, "cancel")
  /\ IF <<orders[task[w].order], "CANCELLED">> \in Declared
     THEN Go(w, "cancelled") ELSE End(w)
  /\ UNCHANGED <<traffic, catalog, oauth, life, keys, acks, exposed, crashes>>

CancelWrites(w) ==
  /\ At(w, "cancelled")
  /\ Overwrites(task[w].order, "OPEN", "CANCELLED")
  /\ Go(w, "refund")
  /\ UNCHANGED <<traffic, catalog, oauth, moves, keys, acks, exposed, crashes>>

(* reversePayment: the gateway may fail, with the order cancelled. *)
Refund(w) ==
  /\ At(w, "refund")
  /\ Answering(w, "store", "order-cancelled") \/ End(w)
  /\ UNCHANGED <<traffic, catalog, oauth, life, keys, acks, exposed, crashes>>

(* Meanwhile people and jobs validate, source, fulfil, return or cancel the *)
(* order: transition reads its status and lets a declared change through,   *)
(* then writes; sourcing likewise.                                          *)
TransitionReads(o, to) ==
  /\ Cardinality(moves) < traffic.moves
  /\ <<orders[o], to>> \in Declared
  /\ moves' = moves \cup {[order |-> o, from |-> orders[o], to |-> to]}
  /\ UNCHANGED <<traffic, catalog, oauth, orders, overtaken, keys, acks, exposed,
                 task, crashes>>

TransitionWrites(x) ==
  /\ moves' = moves \ {x}
  /\ Overwrites(x.order, x.from, x.to)
  /\ UNCHANGED <<traffic, catalog, oauth, keys, acks, exposed, task, crashes>>

Crash(w) ==
  /\ ~ At(w, "idle") /\ crashes < MaxCrashes
  /\ crashes' = crashes + 1
  /\ exposed' = IF task[w].answer = "" THEN exposed ELSE exposed \cup {M(w)}
  /\ End(w)
  /\ UNCHANGED <<traffic, catalog, oauth, life, keys, acks>>

Deliver(w, m) == DeliverShopify(w, m) \/ DeliverGeneric(w, m) \/ DeliverApi(w, m)
Continue(w) ==
  \/ CallbackDel(w) \/ Exchange(w) \/ FindShop(w) \/ Connect(w)
  \/ Lookup(w) \/ Route(w) \/ CreateOrder(w) \/ ReserveOnCreate(w)
  \/ CancelReads(w) \/ CancelWrites(w) \/ Refund(w) \/ StoreKey(w)

Next ==
  \/ \E n \in traffic.nonces, s \in Shops, t \in Tenants : Install(n, s, t)
  \/ \E n \in traffic.nonces : NonceExpires(n)
  \/ \E x \in traffic.byHand : CreateChannel(x[1], x[2])
  \/ \E t \in Tenants, c \in Codes : AddSku(t, c)
  \/ \E o \in DOMAIN orders, to \in Statuses : TransitionReads(o, to)
  \/ \E x \in moves : TransitionWrites(x)
  \/ \E w \in Workers :
       \/ \E n \in traffic.nonces, s \in Shops : CallbackRead(w, n, s)
       \/ \E m \in Messages : Deliver(w, m)
       \/ Continue(w) \/ Crash(w)

Spec == Init /\ [][Next]_vars

Creates ==
  { m \in UNION { sc.messages : sc \in Scenarios } : m.kind = "shopify/create" }
Acked(m) == \E a \in acks : a[1] = m

(* A statement that can run does run, and Shopify retries an order until it *)
(* is answered 2xx; nothing else is made to happen.                         *)
Fairness ==
  /\ \A w \in Workers : WF_vars(Continue(w))
  /\ \A m \in Creates :
       SF_vars(~ Acked(m) /\ \E w \in Workers : DeliverShopify(w, m))

FairSpec == Spec /\ Fairness

-----------------------------------------------------------------------------
TypeOK ==
  /\ \A o \in DOMAIN orders :
       /\ o.by \in Messages /\ o.by.signed /\ o.by.kind # "shopify/cancel"
       /\ orders[o] \in Statuses
  /\ \A x \in moves : x.order \in DOMAIN orders /\ <<x.from, x.to>> \in Declared
  /\ \A k \in DOMAIN keys : k[3] # None /\ keys[k].answer # ""
  /\ nonces \in [Nonces -> [shop : Shops, tenant : Tenants] \cup {None, Unused}]
  /\ \A w \in Workers : ~ At(w, "idle") => task[w].tenant \in Tenants

(* orders.controller.ts:24, "retried webhooks/redeliveries won't            *)
(* double-create": a tenant has two orders of one message only if the       *)
(* message names no external ref, and then only if it carried no key, two   *)
(* deliveries of it overlapped, or one ended between order and key.         *)
DuplicateHasCause ==
  \A o, p \in DOMAIN orders :
    (o # p /\ o.by = p.by /\ o.tenant = p.tenant)
      => o.by.ref = None /\ (o.by.key = None \/ o.by \in exposed)

Told(answer) == { a \in acks : a[3] = answer }

(* idempotency.service.ts:22-24: an answer is true whether it was computed, *)
(* replayed or taken from the winner of a race.  A sender told that its     *)
(* order was created has an order of this very body and ref (save that of   *)
(* two overlapping requests under one key the loser is told of the          *)
(* winner's), and one told of a cancellation has a cancelled order of its   *)
(* ref, or one that a transition which had read it before its cancellation  *)
(* wrote another status over (orders.service.ts:151-157).                   *)
AnswersTrue ==
  /\ \A a \in Told("order-created") :
       \E o \in DOMAIN orders :
         /\ o.tenant = a[2]
         /\ \/ o.by.ref = a[1].ref /\ o.by.body = a[1].body
            \/ /\ a[1] \in exposed
               /\ o.by.kind = a[1].kind /\ o.by.key = a[1].key
  /\ \A a \in Told("order-cancelled") :
       \E o \in DOMAIN orders :
         /\ o.tenant = a[2] /\ o.by.ref = a[1].ref
         /\ orders[o] = "CANCELLED" \/ o \in overtaken

(* shopify-oauth.service.ts:36, 109: the nonce is "bound to the tenant" and *)
(* the channel unique "by externalRef (shop domain) within the tenant".     *)
(* Each connected shop is one that its tenant began to install, and is      *)
(* connected to it once, although callbacks overlap between the search for  *)
(* the channel and its INSERT.                                              *)
OneChannelPerInstall ==
  \A c \in { x \in channels : x.ref # None } :
    /\ <<c.tenant, c.ref>> \in installs
    /\ \A d \in channels : d.tenant = c.tenant /\ d.ref = c.ref => d = c

Arrived(m) == \E o \in DOMAIN orders : o.by.ref = m.ref

(* Shopify's order is not lost: once its shop is connected and its SKU is   *)
(* known to every tenant holding the shop, an order whose delivery nobody   *)
(* is working on and nobody has answered exists in the end, whatever        *)
(* crashes, duplicates and races come between.                              *)
OrdersArrive ==
  \A m \in Creates :
    (/\ m \in Messages /\ m.signed /\ ~ Acked(m)
     /\ Connected(m.shop) # {} /\ \A t \in Tenants : m.code \in catalog[t]
     /\ \A w \in Workers : M(w) # m)
      ~> Arrived(m)
=============================================================================
