----------------------------- MODULE ChannelSync -----------------------------
(***************************************************************************)
(* Availability and the channels that sell it: the ATP read side and its   *)
(* Redis cache (atp.service.ts), the announcement after every movement     *)
(* (inventory.service.ts, invalidate), the outbox and its drain to the     *)
(* sales channels, the feeds StockShield polls and the Shopify import      *)
(* (sync.service.ts and its connectors).                                   *)
(*                                                                         *)
(* Each database statement, Redis command and Shopify call is a step of    *)
(* its own, so a reader caches what it computed some steps ago.  A         *)
(* movement is one step here (module Inventory takes it apart); of a row   *)
(* only its on-hand units and the units held back (reserved, allocated,    *)
(* safety stock) matter.  One tenant; loops visit their items in any       *)
(* order.                                                                  *)
(***************************************************************************)
EXTENDS Integers, Sequences, FiniteSets, Sums

CONSTANTS
  Skus, Locations,
  Network,      \* the location part of the network-wide cache key
  Channels,     \* active Shopify channels with a token and a location
  Listed,       \* <<channel, SKU>>: Shopify has a variant with this code
  ShopLocation, \* the OMS location the import maps Shopify's location to
  Workers,      \* requests, and jobs of the sync queue
  Calls,        \* worker -> the calls it serves
  Viewed,       \* the cache keys storefronts ask for
  Stock, Later, \* row -> on-hand units and units expected past the horizon
  ShopLevels,   \* the quantities Shopify may have before the first sync
  DrainBatch,   \* rows one drain takes (500)
  PageLimit,    \* rows one page of changes takes (200)
  MaxMoves, MaxFailures   \* bounds on changes, and on crashes and failed calls

Rows == Skus \X Locations
Keys == Skus \X (Locations \cup {Network})

ASSUME ChannelSyncAssumption ==
  /\ IsFiniteSet(Locations)
  /\ Network \notin Locations /\ ShopLocation \in Locations
  /\ Listed \subseteq Channels \X Skus /\ Viewed \subseteq Keys
  /\ ShopLevels \subseteq Nat
  /\ DrainBatch \in Nat \ {0} /\ PageLimit \in Nat \ {0}
  /\ Stock \in [Rows -> Nat] /\ Later \in [Rows -> Nat]

VARIABLES
  onHand, held,    \* row -> units, as committed
  inbound, later,  \* row -> units expected within, and past, the horizon
  active,          \* location -> Location.active
  cache,           \* key -> a cached figure, and whether it has a TTL
  outbox,          \* OutboxEvent by seq: [sku, status, fed, late]
  shop,            \* <<channel, SKU>> -> `available` at Shopify
  cursor,          \* where StockShield has paged to
  task,            \* what each worker is doing
  moves, failures,
  untold           \* history: SKUs whose last change reached no
                   \* announcement, or got lost between two drains

vars == <<onHand, held, inbound, later, active, cache, outbox, shop,
          cursor, task, moves, failures, untold>>
stock == <<onHand, held, inbound, later, active>>
sync == <<outbox, shop, cursor>>
counts == <<moves, failures>>

None == [found |-> FALSE, val |-> 0, expires |-> FALSE]

Idle == [at |-> "idle", call |-> "", sku |-> {}, todo |-> {}, items |-> {},
         sum |-> 0, scanned |-> {}, rows |-> {}, pushes |-> {}, delta |-> 0]
At(w, label) == task[w].at = label
Go(w, label) == task' = [task EXCEPT ![w].at = label]
End(w) == task' = [task EXCEPT ![w] = Idle]
Serves(w, call) == At(w, "idle") /\ call \in Calls[w]

-----------------------------------------------------------------------------
(* What a figure is computed from.  The network's sum leaves out inactive   *)
(* locations, the inbound total does not.                                   *)
LocationsOf(k) ==
  IF k[2] = Network THEN { l \in Locations : active[l] } ELSE {k[2]}
AllLocationsOf(k) == IF k[2] = Network THEN Locations ELSE {k[2]}
SnapshotSum(k) ==
  LET L == LocationsOf(k)
  IN  Sum([l \in L |-> onHand[<<k[1], l>>] - held[<<k[1], l>>]], L)
InboundWithinHorizon(k) ==
  LET L == AllLocationsOf(k) IN Sum([l \in L |-> inbound[<<k[1], l>>]], L)
AtLeastZero(n) == IF n > 0 THEN n ELSE 0
Compose(sum, arriving) == AtLeastZero(sum) + AtLeastZero(arriving)
Atp(k) == Compose(SnapshotSum(k), InboundWithinHorizon(k))
NetworkAtp(s) == Atp(<<s, Network>>)

Init ==
  /\ onHand = Stock /\ held = [r \in Rows |-> 0]
  /\ inbound = [r \in Rows |-> 0] /\ later = Later
  /\ active = [l \in Locations |-> TRUE]
  /\ cache = [k \in Keys |-> None]
  /\ outbox = << >> /\ cursor = 0
  /\ shop \in [Listed -> ShopLevels]
  /\ task = [w \in Workers |-> Idle]
  /\ moves = 0 /\ failures = 0
  /\ untold = { s \in Skus : \E x \in Listed : x[2] = s /\ shop[x] # NetworkAtp(s) }

-----------------------------------------------------------------------------
(* Movements and their announcement *)

(* The commit of a movement of row r: a receipt, a write-off, a hold the    *)
(* availability check lets through, the arrival of inbound units.           *)
Commit(w, r) ==
  /\ Serves(w, "move") /\ moves < MaxMoves
  /\ moves' = moves + 1
  /\ \/ /\ onHand' = [onHand EXCEPT ![r] = @ + 1]
        /\ UNCHANGED <<held, inbound>>
     \/ /\ onHand[r] > 0
        /\ onHand' = [onHand EXCEPT ![r] = @ - 1]
        /\ UNCHANGED <<held, inbound>>
     \/ /\ onHand[r] > held[r]
        /\ held' = [held EXCEPT ![r] = @ + 1]
        /\ UNCHANGED <<onHand, inbound>>
     \/ /\ inbound[r] > 0
        /\ inbound' = [inbound EXCEPT ![r] = @ - 1]
        /\ onHand' = [onHand EXCEPT ![r] = @ + 1]
        /\ UNCHANGED held
  /\ untold' = untold \ {r[1]}
  /\ task' = [task EXCEPT ![w].at = "scan", ![w].call = "move", ![w].sku = {r[1]}]
  /\ UNCHANGED <<later, active, cache, sync, failures>>

Matching(w) == { k \in Keys : k[1] \in task[w].sku /\ cache[k] # None }

(* delPattern, its SCAN: the keys of the SKU that exist by now. *)
ScanKeys(w) ==
  /\ At(w, "scan")
  /\ task' = [task EXCEPT ![w].at = "delete", ![w].scanned = Matching(w)]
  /\ UNCHANGED <<stock, cache, sync, counts, untold>>

(* delPattern, its pipeline of DELs. *)
DeleteKeys(w) ==
  /\ At(w, "delete")
  /\ cache' = [k \in Keys |-> IF k \in task[w].scanned THEN None ELSE cache[k]]
  /\ task' = [task EXCEPT ![w].at = "insert", ![w].scanned = {}]
  /\ UNCHANGED <<stock, sync, counts, untold>>

(* The outbox INSERT draws its seq and becomes visible when its statement   *)
(* commits, so a later seq may be visible first; a failure is swallowed.    *)
InsertOutbox(w) ==
  /\ At(w, "insert")
  /\ outbox' = Append(outbox, [sku |-> CHOOSE s \in task[w].sku : TRUE,
                               status |-> "inserting", fed |-> FALSE, late |-> FALSE])
  /\ task' = [task EXCEPT ![w].at = "visible", ![w].rows = {Len(outbox) + 1}]
  /\ UNCHANGED <<stock, cache, shop, cursor, counts, untold>>

(* What the handler does once it has announced: an import goes on. *)
AfterAnnouncement(w) ==
  IF task[w].call = "import"
  THEN task' = [task EXCEPT ![w].at = "import", ![w].rows = {}, ![w].sku = {},
                            ![w].delta = 0]
  ELSE End(w)

RowVisible(w) ==
  /\ At(w, "visible")
  /\ \E i \in task[w].rows :
       outbox' = [outbox EXCEPT ![i].status = "PENDING", ![i].late = cursor >= i]
  /\ AfterAnnouncement(w)
  /\ UNCHANGED <<stock, cache, shop, cursor, counts, untold>>

InsertFails(w) ==
  /\ At(w, "insert") /\ failures < MaxFailures
  /\ failures' = failures + 1
  /\ untold' = untold \cup task[w].sku
  /\ AfterAnnouncement(w)
  /\ UNCHANGED <<stock, cache, sync, moves>>

(* Changes of the network's availability that nothing announces: a location *)
(* switched on or off (catalog.updateLocation), an expected delivery that   *)
(* comes within the horizon.                                                *)
ToggleLocation(w, l) ==
  /\ Serves(w, "move") /\ moves < MaxMoves
  /\ moves' = moves + 1
  /\ active' = [active EXCEPT ![l] = ~ @]
  /\ untold' = Skus
  /\ UNCHANGED <<onHand, held, inbound, later, cache, sync, task, failures>>

HorizonPasses(r) ==
  /\ later[r] > 0 /\ moves < MaxMoves
  /\ moves' = moves + 1
  /\ inbound' = [inbound EXCEPT ![r] = @ + later[r]]
  /\ later' = [later EXCEPT ![r] = 0]
  /\ untold' = untold \cup {r[1]}
  /\ UNCHANGED <<onHand, held, active, cache, sync, task, failures>>

-----------------------------------------------------------------------------
(* network and atLocation: one figure through the cache *)

(* The figure of key k is known: the drain keeps it, other callers are told. *)
Deliver(w, k, val) ==
  task' = [task EXCEPT ![w].at = "fetch", ![w].todo = @ \ {k}, ![w].sku = {},
             ![w].sum = 0,
             ![w].items = IF task[w].call = "drain" THEN @ \cup {<<k, val>>} ELSE @]

ReadCache(w, k) ==
  /\ At(w, "fetch") /\ k \in task[w].todo
  /\ IF cache[k] # None THEN Deliver(w, k, cache[k].val)
     ELSE task' = [task EXCEPT ![w].at = "snaps", ![w].todo = @ \ {k},
                                ![w].sku = {k}]
  /\ UNCHANGED <<stock, cache, sync, counts, untold>>

KeyOf(w) == CHOOSE k \in task[w].sku : TRUE

ReadSnapshots(w) ==
  /\ At(w, "snaps")
  /\ task' = [task EXCEPT ![w].at = "inbound", ![w].sum = SnapshotSum(KeyOf(w))]
  /\ UNCHANGED <<stock, cache, sync, counts, untold>>

ReadInbound(w) ==
  /\ At(w, "inbound")
  /\ task' = [task EXCEPT ![w].at = "setex",
               ![w].sum = Compose(@, InboundWithinHorizon(KeyOf(w)))]
  /\ UNCHANGED <<stock, cache, sync, counts, untold>>

(* Does some announcement of s still have its SCAN to do? *)
Scanning(s) == \E w \in Workers : At(w, "scan") /\ s \in task[w].sku

(* Mutant of SetCache: SET without EX. *)
SetCacheForever(w) ==
  LET k == KeyOf(w)
  IN  /\ At(w, "setex")
      /\ cache' = [cache EXCEPT ![k] =
                     [found |-> TRUE, val |-> task[w].sum, expires |-> FALSE]]
      /\ untold' = IF task[w].sum = Atp(k) \/ Scanning(k[1])
                   THEN untold ELSE untold \cup {k[1]}
      /\ Deliver(w, k, task[w].sum)
      /\ UNCHANGED <<stock, sync, counts>>

(* setEx: a figure that is no longer right, with no SCAN to come that would *)
(* remove it, hides the last change from later readers.                     *)
SetCache(w) ==
  LET k == KeyOf(w)
  IN  /\ At(w, "setex")
      /\ cache' = [cache EXCEPT ![k] =
                     [found |-> TRUE, val |-> task[w].sum, expires |-> TRUE]]
      /\ untold' = IF task[w].sum = Atp(k) \/ Scanning(k[1])
                   THEN untold ELSE untold \cup {k[1]}
      /\ Deliver(w, k, task[w].sum)
      /\ UNCHANGED <<stock, sync, counts>>

(* Redis drops an entry when its TTL runs out. *)
Expire(k) ==
  /\ cache[k].expires
  /\ cache' = [cache EXCEPT ![k] = None]
  /\ UNCHANGED <<stock, sync, task, counts, untold>>

(* Start fetching the figures of keys K for a call. *)
Fetch(w, call, K, rows) ==
  task' = [task EXCEPT ![w].at = "fetch", ![w].call = call, ![w].todo = K,
                      ![w].rows = rows]

(* A storefront asks for one figure. *)
View(w, k) ==
  /\ Serves(w, "view")
  /\ Fetch(w, "read", {k}, {})
  /\ UNCHANGED <<stock, cache, sync, counts, untold>>

EndRead(w) ==
  /\ At(w, "fetch") /\ task[w].todo = {} /\ task[w].call = "read"
  /\ End(w)
  /\ UNCHANGED <<stock, cache, sync, counts, untold>>

-----------------------------------------------------------------------------
(* Feeds *)

NetworkKeys(rows) == { <<outbox[i].sku, Network>> : i \in rows }
Visible == { i \in DOMAIN outbox : outbox[i].status # "inserting" }
(* The first n of a set of seqs, in order. *)
FirstOf(S, n) == { i \in S : Cardinality({ j \in S : j <= i }) <= n }

(* inventoryFeed: every SKU, whatever the outbox says. *)
InventoryFeed(w) ==
  /\ Serves(w, "feed")
  /\ Fetch(w, "read", Skus \X {Network}, {})
  /\ UNCHANGED <<stock, cache, sync, counts, untold>>

(* Mutant of ChangesSince: the cursor jumps to the newest row. *)
ChangesToNewest(w) ==
  LET page == FirstOf({ i \in Visible : i > cursor }, PageLimit)
  IN  /\ Serves(w, "changes") /\ page # {}
      /\ cursor' = Max(Visible)
      /\ outbox' = [i \in DOMAIN outbox |->
                      [outbox[i] EXCEPT !.fed = @ \/ i \in page]]
      /\ Fetch(w, "read", NetworkKeys(page), {})
      /\ UNCHANGED <<stock, cache, shop, counts, untold>>

(* changesSince: the next page past StockShield's cursor. *)
ChangesSince(w) ==
  LET page == FirstOf({ i \in Visible : i > cursor }, PageLimit)
  IN  /\ Serves(w, "changes") /\ page # {}
      /\ cursor' = Max(page)
      /\ outbox' = [i \in DOMAIN outbox |->
                      [outbox[i] EXCEPT !.fed = @ \/ i \in page]]
      /\ Fetch(w, "read", NetworkKeys(page), {})
      /\ UNCHANGED <<stock, cache, shop, counts, untold>>

-----------------------------------------------------------------------------
(* drainOutbox *)

Pending == { i \in DOMAIN outbox : outbox[i].status = "PENDING" }

(* Mutant of StartDrain: only rows past the last published one are read. *)
DrainPastPublished(w) ==
  LET done == { i \in DOMAIN outbox : outbox[i].status = "PUBLISHED" }
      batch == FirstOf({ i \in Pending : \A j \in done : j < i }, DrainBatch)
  IN  /\ Serves(w, "drain") \/ Serves(w, "drain now")
      /\ batch # {}
      /\ Fetch(w, "drain", NetworkKeys(batch), batch)
      /\ UNCHANGED <<stock, cache, sync, counts, untold>>

(* The scheduled job or a retry of it ("drain"), or POST /sync/drain in the *)
(* API process ("drain now"), which may run beside it: the oldest pending   *)
(* rows, collapsed to their SKUs.                                           *)
StartDrain(w) ==
  LET batch == FirstOf(Pending, DrainBatch)
  IN  /\ Serves(w, "drain") \/ Serves(w, "drain now")
      /\ batch # {}
      /\ Fetch(w, "drain", NetworkKeys(batch), batch)
      /\ UNCHANGED <<stock, cache, sync, counts, untold>>

StartPublishing(w) ==
  /\ At(w, "fetch") /\ task[w].todo = {} /\ task[w].call = "drain"
  /\ task' = [task EXCEPT ![w].at = "publish",
                          ![w].pushes = Channels \X task[w].items]
  /\ UNCHANGED <<stock, cache, sync, counts, untold>>

(* Another drain has rows of s in hand: with their figures read at other    *)
(* times, the two overwrite one another.                                    *)
Contested(w, s) ==
  \E v \in Workers \ {w} :
    task[v].call = "drain" /\ \E i \in task[v].rows : outbox[i].sku = s

(* A figure of s that is outdated when it reaches Shopify. *)
Overtaken(w, s, quantity) ==
  IF Contested(w, s) /\ quantity # NetworkAtp(s) THEN {s} ELSE {}

(* resolveInventoryItem: looked up, or searched by SKU and remembered;      *)
(* ChannelSkuMapping only saves the search.                                 *)
Resolves(c, s) == <<c, s>> \in Listed

(* setAvailable: the absolute quantity, whatever was there. *)
SetAvailable(c, s, quantity) == shop' = [shop EXCEPT ![<<c, s>>] = quantity]

(* pushInventory for one item; a SKU Shopify does not list is skipped. *)
PushItem(w, c, item) ==
  /\ At(w, "publish") /\ <<c, item>> \in task[w].pushes
  /\ task' = [task EXCEPT ![w].pushes = @ \ {<<c, item>>}]
  /\ \/ /\ Resolves(c, item[1][1])
        /\ SetAvailable(c, item[1][1], item[2])
        /\ untold' = untold \cup Overtaken(w, item[1][1], item[2])
     \/ ~ Resolves(c, item[1][1]) /\ UNCHANGED <<shop, untold>>
  /\ UNCHANGED <<stock, cache, outbox, cursor, counts>>

(* graphql: an HTTP or GraphQL error throws. *)
CallFails == failures < MaxFailures /\ failures' = failures + 1

(* A Shopify call fails, before or after it took effect: the drain throws   *)
(* and its rows stay PENDING for the next one.                              *)
PushFails(w) ==
  /\ At(w, "publish") /\ CallFails
  /\ \/ UNCHANGED <<shop, untold>>
     \/ \E p \in task[w].pushes :
          /\ Resolves(p[1], p[2][1][1])
          /\ SetAvailable(p[1], p[2][1][1], p[2][2])
          /\ untold' = untold \cup Overtaken(w, p[2][1][1], p[2][2])
  /\ End(w)
  /\ UNCHANGED <<stock, cache, outbox, cursor, moves>>

(* The rows are marked; those of a SKU another drain has in hand no longer  *)
(* account for what that one may still push.                                *)
Mark(w, rows) ==
  /\ At(w, "publish") /\ task[w].pushes = {}
  /\ outbox' = [i \in DOMAIN outbox |->
                  IF i \in rows
                  THEN [outbox[i] EXCEPT !.status = "PUBLISHED"] ELSE outbox[i]]
  /\ untold' = untold \cup { s \in { outbox[i].sku : i \in rows } : Contested(w, s) }
  /\ End(w)
  /\ UNCHANGED <<stock, cache, shop, cursor, counts>>

(* Mutant of MarkPublished: every pending row is marked. *)
MarkAllPublished(w) == Mark(w, Pending)

MarkPublished(w) == Mark(w, task[w].rows)

-----------------------------------------------------------------------------
(* importShopify *)

(* listInventoryVariants: Shopify's levels, page after page. *)
Levels(c) ==
  { <<<<s, c>>, shop[<<c, s>>]>> : s \in { t \in Skus : <<c, t>> \in Listed } }

(* Every level is fetched before the first is mirrored. *)
StartImport(w, c) ==
  /\ Serves(w, "import") /\ moves < MaxMoves
  /\ moves' = moves + 1
  /\ task' = [task EXCEPT ![w].at = "import", ![w].call = "import",
       ![w].items = Levels(c)]
  /\ UNCHANGED <<stock, cache, sync, failures, untold>>

(* A variant's mapping and location are upserted, which switches the        *)
(* location on, and its snapshot is read.                                   *)
ImportLevel(w, item) ==
  LET s == item[1][1]
  IN  /\ At(w, "import") /\ item \in task[w].items
      /\ active' = [active EXCEPT ![ShopLocation] = TRUE]
      /\ untold' = IF active[ShopLocation] THEN untold ELSE Skus
      /\ task' = [task EXCEPT ![w].at = "adjust", ![w].items = @ \ {item},
                    ![w].sku = {s}, ![w].delta = item[2] - onHand[<<s, ShopLocation>>]]
      /\ UNCHANGED <<onHand, held, inbound, later, cache, outbox, shop, cursor, counts>>

(* adjust by the difference, then its announcement; no difference, no       *)
(* movement; a negative balance throws and ends the import.                 *)
ImportAdjust(w) ==
  LET s == CHOOSE t \in task[w].sku : TRUE
      n == onHand[<<s, ShopLocation>>] + task[w].delta
  IN  /\ At(w, "adjust")
      /\ \/ task[w].delta = 0 /\ Go(w, "import") /\ UNCHANGED <<onHand, untold>>
         \/ /\ task[w].delta # 0 /\ n >= 0
            /\ onHand' = [onHand EXCEPT ![<<s, ShopLocation>>] = n]
            /\ untold' = untold \ {s}
            /\ Go(w, "scan")
         \/ task[w].delta # 0 /\ n < 0 /\ End(w) /\ UNCHANGED <<onHand, untold>>
      /\ UNCHANGED <<held, inbound, later, active, cache, sync, counts>>

EndImport(w) ==
  /\ At(w, "import") /\ task[w].items = {}
  /\ End(w)
  /\ UNCHANGED <<stock, cache, sync, counts, untold>>

-----------------------------------------------------------------------------
(* The process dies: its announcement is lost, a row being inserted is not  *)
(* (its statement commits on its own), a drain leaves its rows PENDING.  A  *)
(* mere reader leaves nothing behind.                                       *)
Crash(w) ==
  /\ task[w].call \in {"move", "drain", "import"} /\ ~ At(w, "visible")
  /\ failures < MaxFailures
  /\ failures' = failures + 1
  /\ untold' = IF task[w].at \in {"scan", "delete", "insert"}
               THEN untold \cup task[w].sku ELSE untold
  /\ End(w)
  /\ UNCHANGED <<stock, cache, sync, moves>>

(* The steps a started call takes by itself. *)
Continue(w) ==
  \/ ScanKeys(w) \/ DeleteKeys(w) \/ InsertOutbox(w) \/ RowVisible(w)
  \/ \E k \in Keys : ReadCache(w, k)
  \/ ReadSnapshots(w) \/ ReadInbound(w) \/ SetCache(w) \/ EndRead(w)
  \/ StartPublishing(w) \/ MarkPublished(w)
  \/ \E p \in task[w].pushes : PushItem(w, p[1], p[2])
  \/ \E i \in task[w].items : ImportLevel(w, i)
  \/ ImportAdjust(w) \/ EndImport(w)

Next ==
  \/ \E w \in Workers :
       \/ Continue(w) \/ StartDrain(w)
       \/ \E r \in Rows : Commit(w, r)
       \/ \E l \in Locations : ToggleLocation(w, l)
       \/ \E k \in Viewed : View(w, k)
       \/ InventoryFeed(w) \/ ChangesSince(w)
       \/ \E c \in Channels : StartImport(w, c)
       \/ InsertFails(w) \/ PushFails(w) \/ Crash(w)
  \/ \E r \in Rows : HorizonPasses(r)
  \/ \E k \in Keys : Expire(k)

Spec == Init /\ [][Next]_vars

(* A started call runs on, the scheduler keeps enqueueing drains, Redis     *)
(* expires its entries.  Nothing makes a client call or a call fail.        *)
FairSpec ==
  /\ Spec
  /\ \A w \in Workers : WF_vars(Continue(w))
  /\ \A w \in { v \in Workers : "drain" \in Calls[v] } : WF_vars(StartDrain(w))
  /\ \A k \in Keys : WF_vars(Expire(k))

-----------------------------------------------------------------------------
TypeOK ==
  /\ onHand \in [Rows -> Nat] /\ held \in [Rows -> Nat]
  /\ inbound \in [Rows -> Nat] /\ later \in [Rows -> Nat]
  /\ \A k \in Keys : cache[k].val \in Nat
  /\ \A i \in DOMAIN outbox : outbox[i].status \in {"inserting", "PENDING", "PUBLISHED"}
  /\ cursor \in 0 .. Len(outbox) /\ untold \subseteq Skus

(* An announcement of s is on its way, or waits in the outbox. *)
Announced(s) ==
  \/ \E w \in Workers : At(w, "scan") /\ s \in task[w].sku
  \/ \E w \in Workers : At(w, "delete") /\ s \in task[w].sku
  \/ \E w \in Workers : At(w, "insert") /\ s \in task[w].sku
  \/ \E i \in DOMAIN outbox : outbox[i].sku = s /\ outbox[i].status # "PUBLISHED"

(* sync.service.ts:29, the drain "keeps sales channels in sync with the     *)
(* OMS": a channel shows another figure than the OMS only while the change  *)
(* is being announced, or because it was never announced, or a reader       *)
(* cached an outdated figure over it, or two drains had rows of that SKU at *)
(* the same time.  No crash, failed push, coalescing or row that arrives    *)
(* during a drain adds a cause.                                             *)
DriftHasCause ==
  \A x \in Listed :
    shop[x] = NetworkAtp(x[2]) \/ Announced(x[2]) \/ x[2] \in untold

(* sync.service.ts:359-360: the delta feed pages past no change, however    *)
(* small its pages, except one that became visible behind the cursor.       *)
PagingSkipsNothing ==
  \A i \in Visible : i <= cursor => outbox[i].fed \/ outbox[i].late

(* atp.service.ts:63, the TTL bounds what a lost race costs readers: once   *)
(* changes stop, every figure storefronts read is the right one for good.  *)
CacheHeals ==
  \A k \in Viewed : <>[](cache[k] = None \/ cache[k].val = Atp(k))

(* sync.service.ts:252-256: every visible outbox row is published in the    *)
(* end, in spite of failed pushes and of rows that appear out of order.     *)
RowsArePublished ==
  \A i \in 1 .. MaxMoves : i \in Pending ~> i \notin Pending
=============================================================================
