-------------------------- MODULE ChannelSyncProofs --------------------------
(***************************************************************************)
(* Proofs about availability and the channels that sell it, for any        *)
(* workers, SKUs, locations and channels, any page and any batch size.     *)
(*                                                                         *)
(* DriftHasCause alone is not inductive: a drain publishes figures it read *)
(* some steps ago, through a cache, and then takes away the very rows that *)
(* accounted for the drift.  The invariant Inv therefore says of a cached  *)
(* figure that it is right, about to be deleted, or has a cause            *)
(* (CacheCause); of a drain that every figure it holds is right or has a   *)
(* cause other than the drain's own rows, and that each of those rows has  *)
(* its figure still to come, at hand, or at every channel (Drains).  Most  *)
(* steps then keep two things: causes stay, and a figure changes only for  *)
(* a cause (KeepsAll).  A drain's own rows do not count as a cause, so two  *)
(* drains that have rows of one SKU need one, which Overtaken and Mark      *)
(* give them; a figure therefore stays with rows of its SKU (Mine).         *)
(***************************************************************************)
EXTENDS ChannelSync, SumTheorems, SequenceTheorems

OutboxRow == [sku : Skus, status : {"inserting", "PENDING", "PUBLISHED"},
              fed : BOOLEAN, late : BOOLEAN]
Entry == [found : BOOLEAN, val : Nat, expires : BOOLEAN]
Figure == (Skus \X (Locations \cup Channels \cup {Network})) \X Nat
Task == [at : {"idle", "scan", "delete", "insert", "visible", "fetch", "snaps",
               "inbound", "setex", "publish", "import", "adjust"},
         call : {"", "move", "read", "drain", "import"},
         sku : SUBSET (Skus \cup Keys), todo : SUBSET Keys, items : SUBSET Figure,
         sum : Int, scanned : SUBSET Keys, rows : SUBSET Nat,
         pushes : SUBSET (Channels \X Figure), delta : Int]

Types ==
  /\ onHand \in [Rows -> Nat] /\ held \in [Rows -> Nat]
  /\ inbound \in [Rows -> Nat] /\ later \in [Rows -> Nat]
  /\ active \in [Locations -> BOOLEAN] /\ cache \in [Keys -> Entry]
  /\ outbox \in Seq(OutboxRow) /\ shop \in [Listed -> Nat]
  /\ cursor \in Nat /\ task \in [Workers -> Task] /\ untold \in SUBSET Skus

(* Where a worker is tells what it works on. *)
Announcing(w) == task[w].at \in {"scan", "delete", "insert"}
Computing(w) == task[w].at \in {"snaps", "inbound", "setex"}
Draining(w) == task[w].call = "drain"
(* k is the key of a row that w drains. *)
Mine(w, k) == \E i \in task[w].rows : k = <<outbox[i].sku, Network>>
Shape(w) ==
  /\ At(w, "idle") => task[w] = Idle
  /\ Announcing(w) \/ At(w, "adjust") => \E s \in Skus : task[w].sku = {s}
  /\ Computing(w) => \E k \in Keys : task[w].sku = {k}
  /\ At(w, "setex") => task[w].sum \in Nat
  /\ task[w].call \in {"move", "import"} <=>
       Announcing(w) \/ task[w].at \in {"visible", "import", "adjust"}
  /\ task[w].at \in {"import", "adjust"} => task[w].call = "import"
  /\ At(w, "publish") => Draining(w)
  /\ At(w, "visible") => task[w].rows \subseteq DOMAIN outbox
  /\ Draining(w) =>
       /\ task[w].rows \subseteq Visible
       /\ \A k \in task[w].todo : Mine(w, k)
       /\ Computing(w) => \A k \in task[w].sku : Mine(w, k)

(* s is being announced, waits in a row other than R, or was kept quiet. *)
Told(s) == \E w \in Workers : Announcing(w) /\ s \in task[w].sku
Waits(s, R) ==
  \E i \in DOMAIN outbox \ R : outbox[i].sku = s /\ outbox[i].status # "PUBLISHED"
Cause(s, R) == Told(s) \/ Waits(s, R) \/ s \in untold

(* The channels: DriftHasCause, in these terms. *)
Drift == \A x \in Listed : shop[x] = NetworkAtp(x[2]) \/ Cause(x[2], {})

(* The cache: an outdated figure is about to be deleted, or was kept quiet. *)
Removes(w, k) ==
  /\ task[w].at \in {"scan", "delete"} /\ k[1] \in task[w].sku
  /\ At(w, "delete") => k \in task[w].scanned
CacheCause ==
  \A s \in Skus :
    \/ cache[<<s, Network>>] = None \/ cache[<<s, Network>>].val = NetworkAtp(s)
    \/ s \in untold \/ \E w \in Workers : Removes(w, <<s, Network>>)

(* A drain: every figure it has is right, unless a cause other than its own *)
(* rows says otherwise; the figure of every row is still to be read, being  *)
(* read, or read; and still to be pushed to a channel or there.             *)
Right(w, f) ==
  Mine(w, f[1]) /\ (f[2] = NetworkAtp(f[1][1]) \/ Cause(f[1][1], task[w].rows))
Figures(w) ==
  Draining(w) =>
    /\ \A f \in task[w].items : Right(w, f)
    /\ \A p \in task[w].pushes : Right(w, p[2])
Collected(w) ==
  Draining(w) /\ ~ At(w, "publish") =>
    \A i \in task[w].rows :
      LET k == <<outbox[i].sku, Network>> IN
      \/ k \in task[w].todo \/ (Computing(w) /\ k \in task[w].sku)
      \/ \E f \in task[w].items : f[1] = k
Pushed(w) ==
  At(w, "publish") =>
    \A i \in task[w].rows, x \in Listed : x[2] = outbox[i].sku =>
      \/ \E p \in task[w].pushes : p[1] = x[1] /\ p[2][1] = <<x[2], Network>>
      \/ shop[x] = NetworkAtp(x[2])
      \/ Cause(x[2], task[w].rows)
Drains(w) == Figures(w) /\ Collected(w) /\ Pushed(w)

Inv ==
  /\ Types /\ PagingSkipsNothing /\ CacheCause
  /\ \A w \in Workers : Shape(w) /\ Drains(w)
  /\ Drift

-----------------------------------------------------------------------------
(* Figures *)

(* A figure depends on the rows of its own SKU and on the locations. *)
LEMMA AtpSame ==
  ASSUME NEW s \in Skus, UNCHANGED active,
         \A l \in Locations : /\ onHand'[<<s, l>>] = onHand[<<s, l>>]
                              /\ held'[<<s, l>>] = held[<<s, l>>]
                              /\ inbound'[<<s, l>>] = inbound[<<s, l>>]
  PROVE  NetworkAtp(s)' = NetworkAtp(s)
<1> DEFINE k == <<s, Network>>
<1>1. LocationsOf(k)' = LocationsOf(k) /\ LocationsOf(k) \subseteq Locations
      /\ AllLocationsOf(k) = Locations /\ AllLocationsOf(k)' = Locations
  BY DEF LocationsOf, AllLocationsOf
<1>2. SnapshotSum(k)' = SnapshotSum(k)
  BY <1>1 DEF SnapshotSum
<1>3. InboundWithinHorizon(k)' = InboundWithinHorizon(k)
  BY <1>1 DEF InboundWithinHorizon
<1> QED BY <1>2, <1>3 DEF NetworkAtp, Atp

(* While the stock stays, so does what a SKU can sell. *)
LEMMA StockSame ==
  ASSUME UNCHANGED stock, NEW s \in Skus
  PROVE  NetworkAtp(s)' = NetworkAtp(s)
BY AtpSame DEF stock

(* The parts of a figure are numbers. *)
LEMMA FigureTypes ==
  ASSUME Types, NEW k \in Keys
  PROVE  SnapshotSum(k) \in Int /\ InboundWithinHorizon(k) \in Int /\ Atp(k) \in Nat
<1>0. k[1] \in Skus /\ k[2] \in Locations \cup {Network}
  BY DEF Keys
<1>1. /\ LocationsOf(k) \subseteq Locations /\ AllLocationsOf(k) \subseteq Locations
      /\ IsFiniteSet(LocationsOf(k)) /\ IsFiniteSet(AllLocationsOf(k))
  <2>1. LocationsOf(k) \subseteq Locations /\ AllLocationsOf(k) \subseteq Locations
    BY <1>0 DEF LocationsOf, AllLocationsOf
  <2> QED BY <2>1, FS_Subset, ChannelSyncAssumption
<1>2. SnapshotSum(k) \in Int
  <2>1. PICK L : L = LocationsOf(k)
    OBVIOUS
  <2>2. PICK F : F = [l \in L |-> onHand[<<k[1], l>>] - held[<<k[1], l>>]]
    OBVIOUS
  <2>3. \A l \in L : F[l] \in Int
    <3>1. \A l \in L : <<k[1], l>> \in Rows
      BY <1>0, <1>1, <2>1 DEF Rows
    <3> QED BY <2>2, <3>1 DEF Types
  <2>4. Sum(F, L) \in Int
    BY <1>1, <2>1, <2>3, SumType
  <2> QED BY <2>1, <2>2, <2>4 DEF SnapshotSum
<1>3. InboundWithinHorizon(k) \in Int
  <2>1. PICK L : L = AllLocationsOf(k)
    OBVIOUS
  <2>2. PICK F : F = [l \in L |-> inbound[<<k[1], l>>]]
    OBVIOUS
  <2>3. \A l \in L : F[l] \in Int
    <3>1. \A l \in L : <<k[1], l>> \in Rows
      BY <1>0, <1>1, <2>1 DEF Rows
    <3> QED BY <2>2, <3>1 DEF Types
  <2>4. Sum(F, L) \in Int
    BY <1>1, <2>1, <2>3, SumType
  <2> QED BY <2>1, <2>2, <2>4 DEF InboundWithinHorizon
<1> QED BY <1>2, <1>3 DEF Atp, Compose, AtLeastZero

(* The columns of a task. *)
LEMMA TaskFields ==
  ASSUME NEW t \in Task
  PROVE  /\ t.sku \in SUBSET (Skus \cup Keys) /\ t.todo \in SUBSET Keys
         /\ t.items \in SUBSET Figure /\ t.sum \in Int /\ t.scanned \in SUBSET Keys
         /\ t.rows \in SUBSET Nat /\ t.pushes \in SUBSET (Channels \X Figure)
         /\ t.delta \in Int
BY DEF Task

(* A worker without a task holds nothing. *)
LEMMA IdleTask == Idle \in Task /\ Idle.at = "idle" /\ Idle.call = "" /\ Idle.sku = {}
                  /\ Idle.items = {} /\ Idle.rows = {} /\ Idle.pushes = {} /\ Idle.todo = {}
BY DEF Idle, Task

(* The outbox, row by row. *)
LEMMA OutboxFacts ==
  ASSUME Types
  PROVE  /\ DOMAIN outbox = 1 .. Len(outbox) /\ Len(outbox) \in Nat
         /\ \A i \in DOMAIN outbox :
              /\ i \in Nat /\ outbox[i] \in OutboxRow
              /\ outbox[i].sku \in Skus /\ outbox[i].fed \in BOOLEAN
              /\ outbox[i].late \in BOOLEAN
              /\ outbox[i].status \in {"inserting", "PENDING", "PUBLISHED"}
<1>1. outbox \in Seq(OutboxRow)
  BY DEF Types
<1>2. DOMAIN outbox = 1 .. Len(outbox) /\ Len(outbox) \in Nat
  BY <1>1, LenProperties
<1>3. \A i \in DOMAIN outbox : outbox[i] \in OutboxRow
  BY <1>1, <1>2, ElementOfSeq
<1> QED BY <1>2, <1>3 DEF OutboxRow

-----------------------------------------------------------------------------
(* What a step leaves as it was *)

(* Worker w goes on as t. *)
Acts(w, t) == t \in Task /\ task' = [task EXCEPT ![w] = t]

(* A step of one worker leaves the tasks of the others. *)
LEMMA ActsFacts ==
  ASSUME Types, NEW w \in Workers, NEW t, Acts(w, t)
  PROVE  /\ task'[w] = t /\ t \in Task /\ task' \in [Workers -> Task]
         /\ \A v \in Workers \ {w} : task'[v] = task[v]
BY DEF Types, Acts

(* Rows of the outbox keep their SKU, and stay visible once they are. *)
RowsStay ==
  \A i \in DOMAIN outbox :
    /\ i \in DOMAIN outbox' /\ outbox'[i].sku = outbox[i].sku
    /\ outbox[i].status # "inserting" => outbox'[i].status # "inserting"
NoneMarked ==
  \A i \in DOMAIN outbox :
    outbox'[i].status = "PUBLISHED" => outbox[i].status = "PUBLISHED"

(* The cause of a drift stays, and a figure changes only for a cause. *)
Keeps(s, R) ==
  /\ Cause(s, R) => Cause(s, R)'
  /\ NetworkAtp(s)' = NetworkAtp(s) \/ Cause(s, R)'
KeepsAll == \A s \in Skus, R \in SUBSET DOMAIN outbox : Keeps(s, R)

(* A drain goes on with its rows: their keys stay its own. *)
LEMMA MineStays ==
  ASSUME NEW w \in Workers, NEW k, Mine(w, k), task'[w].rows = task[w].rows,
         task[w].rows \in SUBSET DOMAIN outbox, RowsStay
  PROVE  Mine(w, k)'
<1>1. PICK i \in task[w].rows : k = <<outbox[i].sku, Network>>
  BY DEF Mine
<1>2. outbox'[i].sku = outbox[i].sku
  BY DEF RowsStay
<1> QED BY <1>1, <1>2 DEF Mine

(* So do its figures, right or with a cause. *)
LEMMA RightStays ==
  ASSUME NEW w \in Workers, NEW f \in Figure, Right(w, f), task'[w].rows = task[w].rows,
         task[w].rows \in SUBSET DOMAIN outbox, RowsStay, KeepsAll
  PROVE  Right(w, f)'
<1>1. f[1][1] \in Skus
  BY DEF Figure
<1>2. Keeps(f[1][1], task[w].rows)
  BY <1>1 DEF KeepsAll
<1>3. Mine(w, f[1])'
  BY MineStays DEF Right
<1> QED BY <1>2, <1>3 DEF Right, Keeps

(* A worker that does not move keeps its shape. *)
LEMMA ShapeStays ==
  ASSUME NEW v \in Workers, Shape(v), task'[v] = task[v], RowsStay
  PROVE  Shape(v)'
<1>1. \A i \in Visible : i \in Visible'
  BY DEF Visible, RowsStay
<1>2. task[v].rows \subseteq DOMAIN outbox => task[v].rows \subseteq DOMAIN outbox'
  BY DEF RowsStay
<1>3. ASSUME NEW k, Draining(v), Mine(v, k) PROVE Mine(v, k)'
  <2>1. task[v].rows \in SUBSET DOMAIN outbox
    BY <1>3 DEF Shape, Visible
  <2> QED BY <1>3, <2>1, MineStays
<1> QED BY <1>1, <1>2, <1>3 DEF Shape, Announcing, Computing, Draining, At

(* What a step owes a drain v that does not move: the SKUs it has rows of   *)
(* keep their causes, and a figure that reaches their channels is right or  *)
(* has one.                                                                 *)
KeepsFor(v) ==
  Draining(v) => \A i \in task[v].rows : Keeps(outbox[i].sku, task[v].rows)
ShopsStay(v) ==
  \A i \in task[v].rows, x \in Listed : x[2] = outbox[i].sku =>
    shop'[x] = shop[x] \/ shop'[x] = NetworkAtp(x[2])' \/ x[2] \in untold'

(* Such a drain keeps its figures and their causes. *)
LEMMA DrainsKept ==
  ASSUME Types, NEW v \in Workers, Shape(v), Drains(v), task'[v] = task[v], RowsStay,
         KeepsFor(v), ShopsStay(v)
  PROVE  Drains(v)'
<1>1. CASE ~ Draining(v)
  BY <1>1 DEF Drains, Figures, Collected, Pushed, Draining, At, Shape
<1>2. CASE Draining(v)
  <2>0. task[v].rows \in SUBSET DOMAIN outbox /\ task[v] \in Task
    BY <1>2 DEF Shape, Visible, Types
  <2>1. \A i \in task[v].rows : outbox'[i].sku = outbox[i].sku
    BY <2>0 DEF RowsStay
  <2>2. ASSUME NEW f \in Figure, Right(v, f) PROVE Right(v, f)'
    <3>1. PICK i \in task[v].rows : f[1] = <<outbox[i].sku, Network>>
      BY <2>2 DEF Right, Mine
    <3>2. Keeps(f[1][1], task[v].rows)
      BY <1>2, <3>1 DEF KeepsFor
    <3>3. Mine(v, f[1])'
      BY <2>1, <3>1 DEF Mine
    <3> QED BY <2>2, <3>2, <3>3 DEF Right, Keeps
  <2>3. Figures(v)'
    <3>1. task[v].items \subseteq Figure /\ task[v].pushes \subseteq Channels \X Figure
      BY <2>0, TaskFields
    <3>2. \A p \in task[v].pushes : p[2] \in Figure
      BY <3>1
    <3> QED BY <1>2, <2>2, <3>1, <3>2 DEF Drains, Figures, Draining
  <2>4. Collected(v)'
    BY <1>2, <2>1 DEF Drains, Collected, Draining, Computing, At
  <2>5. Pushed(v)'
    <3> SUFFICES ASSUME At(v, "publish"), NEW i \in task[v].rows, NEW x \in Listed,
                        x[2] = outbox[i].sku,
                        ~ \E p \in task[v].pushes : p[1] = x[1] /\ p[2][1] = <<x[2], Network>>
                 PROVE  shop'[x] = NetworkAtp(x[2])' \/ Cause(x[2], task[v].rows)'
      BY <2>0, <2>1 DEF Pushed, At
    <3>1. shop[x] = NetworkAtp(x[2]) \/ Cause(x[2], task[v].rows)
      BY DEF Drains, Pushed
    <3>2. Keeps(x[2], task[v].rows)
      BY <1>2 DEF KeepsFor
    <3>3. shop'[x] = shop[x] \/ shop'[x] = NetworkAtp(x[2])' \/ x[2] \in untold'
      BY DEF ShopsStay
    <3>4. x[2] \in untold' => Cause(x[2], task[v].rows)'
      BY DEF Cause
    <3> QED BY <3>1, <3>2, <3>3, <3>4 DEF Keeps
  <2> QED BY <2>3, <2>4, <2>5 DEF Drains
<1> QED BY <1>1, <1>2

(* A step that keeps every cause keeps those of a drain. *)
LEMMA AllKept ==
  ASSUME Types, NEW v \in Workers, Shape(v), KeepsAll
  PROVE  KeepsFor(v)
<1> SUFFICES ASSUME Draining(v), NEW i \in task[v].rows
             PROVE  Keeps(outbox[i].sku, task[v].rows)
  BY DEF KeepsFor
<1>1. task[v].rows \in SUBSET DOMAIN outbox
  BY DEF Shape, Visible
<1>2. outbox[i].sku \in Skus
  BY <1>1, OutboxFacts
<1> QED BY <1>1, <1>2 DEF KeepsAll

(* So a step that leaves the shops alone keeps the drain. *)
LEMMA DrainsStay ==
  ASSUME Types, NEW v \in Workers, Shape(v), Drains(v), task'[v] = task[v], RowsStay,
         KeepsAll, UNCHANGED shop
  PROVE  Drains(v)'
<1>1. ShopsStay(v)
  BY DEF ShopsStay
<1> QED BY <1>1, AllKept, DrainsKept

(* While the shops stay, drift keeps its cause. *)
LEMMA DriftStays ==
  ASSUME Types, Drift, KeepsAll, UNCHANGED shop
  PROVE  Drift'
<1> SUFFICES ASSUME NEW x \in Listed
             PROVE  shop[x] = NetworkAtp(x[2])' \/ Cause(x[2], {})'
  BY DEF Drift
<1>1. x[2] \in Skus
  BY ChannelSyncAssumption
<1>2. Keeps(x[2], {})
  BY <1>1 DEF KeepsAll
<1> QED BY <1>2 DEF Drift, Keeps

(* Without a drain there is nothing more to say of a worker. *)
LEMMA NoDrain ==
  ASSUME NEW w \in Workers, task'[w].call # "drain", task'[w].at # "publish"
  PROVE  Drains(w)'
BY DEF Drains, Figures, Collected, Pushed, Draining, At

(* One worker takes a step that leaves the shops alone. *)
LEMMA OwnStep ==
  ASSUME Inv, NEW w \in Workers, NEW t, Acts(w, t), Types', RowsStay, KeepsAll,
         UNCHANGED shop, PagingSkipsNothing', CacheCause', Shape(w)',
         Drains(w)'
  PROVE  Inv'
<1>0. Types /\ \A v \in Workers : Shape(v)
  BY DEF Inv
<1>1. \A v \in Workers \ {w} : task'[v] = task[v]
  BY <1>0, ActsFacts
<1>2. \A v \in Workers : Shape(v)'
  BY <1>0, <1>1, ShapeStays
<1>3. Drift' /\ \A v \in Workers : Drains(v)'
  <2>1. Drift /\ \A v \in Workers : Drains(v)
    BY DEF Inv
  <2> QED BY <1>0, <1>1, <2>1, DrainsStay, DriftStays
<1> QED BY <1>2, <1>3 DEF Inv

(* Announcements as they go on: each stays one, fails or has left its row. *)
LEMMA QuietKeeps ==
  ASSUME Inv, NEW w \in Workers, NEW t, Acts(w, t), UNCHANGED stock,
         untold \subseteq untold', RowsStay, NoneMarked,
         Announcing(w) => \A s \in task[w].sku :
           \/ t.at \in {"scan", "delete", "insert"} /\ s \in t.sku
           \/ s \in untold'
           \/ \E i \in DOMAIN outbox' \ DOMAIN outbox :
                outbox'[i].sku = s /\ outbox'[i].status # "PUBLISHED"
  PROVE  KeepsAll
<1>0. Types
  BY DEF Inv
<1>1. task'[w] = t /\ \A v \in Workers \ {w} : task'[v] = task[v]
  BY <1>0, ActsFacts
<1> SUFFICES ASSUME NEW s \in Skus, NEW R \in SUBSET DOMAIN outbox, Cause(s, R)
             PROVE  Cause(s, R)'
  BY StockSame DEF KeepsAll, Keeps
<1>2. CASE s \in untold
  BY <1>2 DEF Cause
<1>3. CASE Waits(s, R)
  BY <1>3 DEF Cause, Waits, RowsStay, NoneMarked
<1>4. ASSUME NEW v \in Workers, Announcing(v), s \in task[v].sku PROVE Cause(s, R)'
  <2>1. CASE v # w
    BY <1>1, <1>4, <2>1 DEF Cause, Told, Announcing
  <2>2. CASE v = w
    <3>1. CASE t.at \in {"scan", "delete", "insert"} /\ s \in t.sku
      BY <1>1, <3>1 DEF Cause, Told, Announcing
    <3>2. CASE \E i \in DOMAIN outbox' \ DOMAIN outbox :
                 outbox'[i].sku = s /\ outbox'[i].status # "PUBLISHED"
      BY <3>2 DEF Cause, Waits
    <3> QED BY <1>4, <2>2, <3>1, <3>2 DEF Cause
  <2> QED BY <2>1, <2>2
<1> QED BY <1>2, <1>3, <1>4 DEF Cause, Told

(* The cache while whoever removes an entry of it still does. *)
LEMMA QuietCache ==
  ASSUME Inv, NEW w \in Workers, NEW t, Acts(w, t), UNCHANGED stock,
         untold \subseteq untold', UNCHANGED cache,
         task[w].at \notin {"scan", "delete"}
  PROVE  CacheCause'
<1>0. Types /\ CacheCause
  BY DEF Inv
<1>1. \A v \in Workers \ {w} : task'[v] = task[v]
  BY <1>0, ActsFacts
<1> SUFFICES ASSUME NEW s \in Skus
             PROVE  \/ cache'[<<s, Network>>] = None
                    \/ cache'[<<s, Network>>].val = NetworkAtp(s)'
                    \/ s \in untold' \/ \E v \in Workers : Removes(v, <<s, Network>>)'
  BY DEF CacheCause
<1>2. NetworkAtp(s)' = NetworkAtp(s)
  BY StockSame
<1>3. ASSUME NEW v \in Workers, Removes(v, <<s, Network>>)
      PROVE  Removes(v, <<s, Network>>)'
  BY <1>1, <1>3 DEF Removes, At
<1> QED BY <1>0, <1>2, <1>3 DEF CacheCause

(* One worker reads or ends, and announces nothing. *)
LEMMA QuietStep ==
  ASSUME Inv, NEW w \in Workers, NEW t, Acts(w, t), UNCHANGED <<stock, cache, shop, untold>>,
         ~ Announcing(w), outbox' \in Seq(OutboxRow), cursor' \in Nat, RowsStay, NoneMarked,
         PagingSkipsNothing', Shape(w)', Drains(w)'
  PROVE  Inv'
<1>1. Types'
  BY ActsFacts DEF Inv, Types, stock
<1>2. KeepsAll
  BY QuietKeeps
<1>3. CacheCause'
  BY QuietCache DEF Announcing
<1> QED BY <1>1, <1>2, <1>3, OwnStep

(* The outbox as it was. *)
LEMMA SameRows ==
  ASSUME Types, UNCHANGED outbox
  PROVE  RowsStay /\ NoneMarked /\ outbox' \in Seq(OutboxRow)
BY DEF RowsStay, NoneMarked, Types

(* While the outbox and the cursor stay, so does the paging. *)
LEMMA SamePages ==
  ASSUME Inv, UNCHANGED <<outbox, cursor>>
  PROVE  PagingSkipsNothing' /\ cursor' \in Nat
BY DEF Inv, PagingSkipsNothing, Visible, Types

(* A step that touches no table, no entry of the cache and no shop. *)
LEMMA QuietSame ==
  ASSUME Inv, NEW w \in Workers, NEW t, Acts(w, t),
         UNCHANGED <<stock, cache, sync, untold>>, ~ Announcing(w),
         Shape(w)', Drains(w)'
  PROVE  Inv'
<1>1. RowsStay /\ NoneMarked /\ outbox' \in Seq(OutboxRow)
  BY SameRows DEF Inv, sync
<1>2. PagingSkipsNothing' /\ cursor' \in Nat
  BY SamePages DEF sync
<1> QED BY <1>1, <1>2, QuietStep DEF sync

(* A worker that ends holds nothing. *)
LEMMA Ends ==
  ASSUME Types, NEW w \in Workers, End(w)
  PROVE  Acts(w, Idle) /\ Shape(w)' /\ Drains(w)'
<1>1. Acts(w, Idle)
  BY IdleTask DEF Acts, End
<1>2. task'[w] = Idle
  BY <1>1, ActsFacts
<1>3. Shape(w)'
  BY <1>2, IdleTask DEF Shape, Announcing, Computing, Draining, At, Mine
<1>4. Drains(w)'
  BY <1>2, IdleTask, NoDrain
<1> QED BY <1>1, <1>3, <1>4

(* A call that ends with nothing to announce. *)
LEMMA QuietEnd ==
  ASSUME Inv, NEW w \in Workers, End(w), UNCHANGED <<stock, cache, sync, untold>>,
         ~ Announcing(w)
  PROVE  Inv'
BY Ends, QuietSame DEF Inv

-----------------------------------------------------------------------------
(* Readers *)

(* Fetch, for a call that is no drain. *)
LEMMA FetchReads ==
  ASSUME Types, NEW w \in Workers, At(w, "idle"), Shape(w), NEW K \in SUBSET Keys,
         Fetch(w, "read", K, {})
  PROVE  \E t : Acts(w, t) /\ Shape(w)' /\ Drains(w)'
<1>1. PICK u \in Task : u = task[w]
  BY DEF Types
<1> DEFINE t == [u EXCEPT !.at = "fetch", !.call = "read", !.todo = K, !.rows = {}]
<1>2. Acts(w, t)
  <2>1. t \in Task
    BY DEF Task
  <2>2. task' = [task EXCEPT ![w] = t]
    BY <1>1 DEF Fetch, Types
  <2> QED BY <2>1, <2>2 DEF Acts
<1>3. t.at = "fetch" /\ t.call = "read"
  BY DEF Task
<1>4. task'[w] = t
  BY <1>2, ActsFacts
<1> HIDE DEF t
<1>5. Shape(w)'
  BY <1>3, <1>4 DEF Shape, Announcing, Computing, Draining, At, Mine
<1>6. Drains(w)'
  BY <1>3, <1>4, NoDrain
<1> QED BY <1>2, <1>5, <1>6

(* A reader starts: one figure, or the feed of them all. *)
LEMMA Views ==
  ASSUME Inv, NEW w \in Workers,
         (\E k \in Viewed : View(w, k)) \/ InventoryFeed(w)
  PROVE  Inv'
<1>1. PICK K \in SUBSET Keys : Fetch(w, "read", K, {})
  <2>1. CASE InventoryFeed(w)
    <3>1. Skus \X {Network} \in SUBSET Keys
      BY DEF Keys
    <3> QED BY <2>1, <3>1 DEF InventoryFeed
  <2>2. ASSUME NEW k \in Viewed, View(w, k) PROVE \E K \in SUBSET Keys : Fetch(w, "read", K, {})
    <3>1. {k} \in SUBSET Keys
      BY ChannelSyncAssumption
    <3> QED BY <2>2, <3>1 DEF View
  <2> QED BY <2>1, <2>2
<1>2. At(w, "idle") /\ UNCHANGED <<stock, cache, sync, untold>>
  BY DEF View, InventoryFeed, Serves
<1>3. PICK t : Acts(w, t) /\ Shape(w)' /\ Drains(w)'
  BY <1>1, <1>2, FetchReads DEF Inv
<1> QED BY <1>2, <1>3, QuietSame DEF Announcing, At

(* A reader ends. *)
LEMMA ReadEnds ==
  ASSUME Inv, NEW w \in Workers, EndRead(w)
  PROVE  Inv'
BY QuietEnd DEF EndRead, Announcing, At

(* A drain goes on with the figures it had. *)
LEMMA FiguresStay ==
  ASSUME Types, NEW w \in Workers, Shape(w), Drains(w), Draining(w), KeepsAll, RowsStay,
         task'[w].rows = task[w].rows, task'[w].items = task[w].items,
         task'[w].pushes = task[w].pushes
  PROVE  Figures(w)'
<1>1. \A f \in Figure : Right(w, f) => Right(w, f)'
  <2>1. task[w].rows \in SUBSET DOMAIN outbox
    BY DEF Shape, Visible
  <2> QED BY <2>1, RightStays
<1>2. task[w].items \subseteq Figure /\ \A p \in task[w].pushes : p[2] \in Figure
  BY TaskFields DEF Types
<1> QED BY <1>1, <1>2 DEF Drains, Figures

(* A figure that is known goes to the caller, a drain keeps it. *)
LEMMA Delivered ==
  ASSUME Inv, NEW w \in Workers, NEW k \in Keys, NEW val \in Nat, Deliver(w, k, val),
         (At(w, "fetch") /\ k \in task[w].todo) \/ (At(w, "setex") /\ task[w].sku = {k}),
         UNCHANGED <<outbox, shop>>
  PROVE  \E t : /\ Acts(w, t) /\ t.at = "fetch" /\ t.rows = task[w].rows
                /\ Shape(w)'
                /\ KeepsAll /\ (Draining(w) => Right(w, <<k, val>>)')
                     => Drains(w)'
<1>0. Types /\ Shape(w) /\ PagingSkipsNothing
  BY DEF Inv
<1>1. PICK u \in Task : u = task[w]
  BY <1>0 DEF Types
<1>2. PICK I \in SUBSET Figure :
        I = IF u.call = "drain" THEN u.items \cup {<<k, val>>} ELSE u.items
  <2>1. <<k, val>> \in Figure
    BY DEF Figure, Keys
  <2>2. u.items \in SUBSET Figure
    BY TaskFields
  <2> QED BY <2>1, <2>2
<1>3. PICK T \in SUBSET Keys : T = u.todo \ {k}
  BY TaskFields
<1> DEFINE t == [u EXCEPT !.at = "fetch", !.todo = T, !.sku = {}, !.sum = 0, !.items = I]
<1>4. Acts(w, t)
  <2>1. PICK E \in SUBSET (Skus \cup Keys) : E = {}
    BY Zenon
  <2>2. PICK z \in Int : z = 0
    OBVIOUS
  <2>3. PICK g : g = [u EXCEPT !.at = "fetch", !.todo = T]
    OBVIOUS
  <2>4. PICK h : h = [g EXCEPT !.sku = E, !.sum = z]
    OBVIOUS
  <2>5. g \in Task
    BY <2>3 DEF Task
  <2>6. h \in Task
    BY <2>4, <2>5 DEF Task
  <2>7. t = [h EXCEPT !.items = I]
    BY <2>1, <2>2, <2>3, <2>4 DEF Task
  <2>8. t \in Task
    <3> HIDE DEF t
    <3> QED BY <2>6, <2>7 DEF Task
  <2>9. task' = [task EXCEPT ![w] = t]
    BY <1>0, <1>1, <1>2, <1>3 DEF Deliver, Types
  <2> QED BY <2>8, <2>9 DEF Acts
<1>5. /\ t.at = "fetch" /\ t.call = u.call /\ t.todo = T /\ t.items = I /\ t.rows = u.rows
      /\ t.pushes = u.pushes
  BY DEF Task
<1>6. task'[w] = t
  BY <1>0, <1>4, ActsFacts
<1> HIDE DEF t
<1>7. Shape(w)'
  <2>1. Visible' = Visible
    BY DEF Visible
  <2> QED BY <1>0, <1>1, <1>3, <1>5, <1>6, <2>1
        DEF Shape, Announcing, Computing, Draining, At, Mine
<1>8. ASSUME KeepsAll, Draining(w) => Right(w, <<k, val>>)' PROVE Drains(w)'
  <2>1. CASE ~ Draining(w)
    BY <1>1, <1>5, <1>6, <2>1, NoDrain DEF Draining
  <2>2. CASE Draining(w)
    <3>0. I = u.items \cup {<<k, val>>} /\ Drains(w)
      BY <1>1, <1>2, <1>8, <2>2 DEF Draining, Inv
    <3>1. \A f \in Figure : Right(w, f) => Right(w, f)'
      <4>1. task[w].rows \in SUBSET DOMAIN outbox /\ task'[w].rows = task[w].rows
        BY <1>0, <1>1, <1>5, <1>6, <2>2 DEF Shape, Visible
      <4>2. RowsStay
        BY <1>0, SameRows
      <4> QED BY <1>8, <4>1, <4>2, RightStays
    <3>2. Figures(w)'
      <4>1. u.items \subseteq Figure /\ \A p \in u.pushes : p[2] \in Figure
        BY TaskFields
      <4> QED BY <1>1, <1>5, <1>6, <1>8, <2>2, <3>0, <3>1, <4>1 DEF Drains, Figures
    <3>3. Collected(w)'
      <4> SUFFICES ASSUME NEW i \in u.rows
                   PROVE  \/ <<outbox[i].sku, Network>> \in T
                          \/ \E f \in I : f[1] = <<outbox[i].sku, Network>>
        BY <1>5, <1>6 DEF Collected
      <4>1. PICK n : n = <<outbox[i].sku, Network>>
        OBVIOUS
      <4>2. \/ n \in u.todo \/ (Computing(w) /\ n \in u.sku) \/ \E f \in u.items : f[1] = n
        BY <1>1, <2>2, <3>0, <4>1 DEF Drains, Collected, At
      <4>3. CASE n = k
        <5>1. <<k, val>> \in I /\ <<k, val>>[1] = k
          BY <3>0
        <5> QED BY <4>1, <4>3, <5>1
      <4>4. CASE n # k
        <5>1. ~ (Computing(w) /\ n \in u.sku)
          BY <1>1, <4>4 DEF Computing, At
        <5> QED BY <1>3, <3>0, <4>1, <4>2, <4>4, <5>1
      <4> QED BY <4>3, <4>4
    <3>4. Pushed(w)'
      BY <1>5, <1>6 DEF Pushed, At
    <3> QED BY <3>2, <3>3, <3>4 DEF Drains
  <2> QED BY <2>1, <2>2
<1> QED BY <1>1, <1>4, <1>5, <1>7, <1>8

(* network, atLocation: the cache is read. *)
LEMMA CacheRead ==
  ASSUME Inv, NEW w \in Workers, NEW k \in Keys, ReadCache(w, k)
  PROVE  Inv'
<1>0. /\ Types /\ Shape(w) /\ CacheCause /\ At(w, "fetch") /\ k \in task[w].todo
      /\ UNCHANGED <<stock, cache, sync, untold>> /\ ~ Announcing(w)
      /\ UNCHANGED <<outbox, shop>>
  BY DEF Inv, ReadCache, Announcing, At, sync
<1>1. PICK u \in Task : u = task[w]
  BY <1>0 DEF Types
<1>2. RowsStay /\ NoneMarked
  BY <1>0, SameRows
<1>3. CASE cache[k] # None
  <2>1. Deliver(w, k, cache[k].val) /\ cache[k].val \in Nat
    BY <1>0, <1>3 DEF ReadCache, Types, Entry
  <2>2. PICK t : /\ Acts(w, t) /\ t.at = "fetch" /\ t.rows = task[w].rows
                 /\ Shape(w)'
                 /\ KeepsAll /\ (Draining(w) => Right(w, <<k, cache[k].val>>)')
                      => Drains(w)'
    BY <1>0, <2>1, Delivered
  <2>3. KeepsAll
    BY <1>0, <1>2, <2>2, QuietKeeps
  <2>4. ASSUME Draining(w) PROVE Right(w, <<k, cache[k].val>>)'
    <3>0. Mine(w, k) /\ k \in Keys
      BY <1>0, <2>4 DEF Shape
    <3>1. PICK s \in Skus : k = <<s, Network>>
      BY <3>0 DEF Mine, Keys
    <3>2. cache[k].val = NetworkAtp(s) \/ s \in untold \/ \E v \in Workers : Removes(v, k)
      BY <1>0, <1>3, <3>1 DEF CacheCause
    <3>3. (\E v \in Workers : Removes(v, k)) => Told(s)
      BY <3>1 DEF Removes, Told, Announcing
    <3>4. task'[w].rows = task[w].rows /\ task[w].rows \in SUBSET DOMAIN outbox
      BY <1>0, <2>2, <2>4, ActsFacts DEF Shape, Visible
    <3>5. Keeps(s, task[w].rows)
      BY <2>3, <3>4 DEF KeepsAll
    <3>6. cache[k].val = NetworkAtp(s)' \/ Cause(s, task[w].rows)'
      BY <3>2, <3>3, <3>5 DEF Keeps, Cause
    <3>7. <<k, cache[k].val>>[1] = <<s, Network>> /\ <<k, cache[k].val>>[2] = cache[k].val
          /\ cache' = cache
      BY <1>0, <3>1
    <3>8. Mine(w, k)'
      BY <1>2, <3>0, <3>4, MineStays
    <3> QED BY <3>1, <3>4, <3>6, <3>7, <3>8 DEF Right
  <2> QED BY <1>0, <2>2, <2>3, <2>4, QuietSame
<1>4. CASE cache[k] = None
  <2>1. PICK T \in SUBSET Keys, K \in SUBSET (Skus \cup Keys) : T = u.todo \ {k} /\ K = {k}
    BY TaskFields
  <2> DEFINE t == [u EXCEPT !.at = "snaps", !.todo = T, !.sku = K]
  <2>2. Acts(w, t)
    <3>1. t \in Task
      BY DEF Task
    <3>2. task' = [task EXCEPT ![w] = t]
      BY <1>0, <1>1, <1>4, <2>1 DEF ReadCache, Types
    <3> QED BY <3>1, <3>2 DEF Acts
  <2>3. /\ t.at = "snaps" /\ t.call = u.call /\ t.todo = T /\ t.items = u.items
        /\ t.rows = u.rows /\ t.pushes = u.pushes /\ t.sku = K
    BY DEF Task
  <2>4. task'[w] = t
    BY <1>0, <2>2, ActsFacts
  <2> HIDE DEF t
  <2>5. Shape(w)'
    <3>1. Visible' = Visible
      BY <1>0 DEF Visible
    <3> QED BY <1>0, <1>1, <2>1, <2>3, <2>4, <3>1
          DEF Shape, Announcing, Computing, Draining, At, Mine
  <2>6. KeepsAll
    BY <1>0, <1>2, <2>2, QuietKeeps
  <2>7. Drains(w)'
    <3>1. CASE ~ Draining(w)
      BY <1>1, <2>3, <2>4, <3>1, NoDrain DEF Draining
    <3>2. CASE Draining(w)
      <4>0. Drains(w)
        BY DEF Inv
      <4>1. Figures(w)'
        BY <1>0, <1>1, <1>2, <2>3, <2>4, <2>6, <3>2, <4>0, FiguresStay
      <4>2. Collected(w)'
        BY <1>0, <1>1, <2>1, <2>3, <2>4, <3>2, <4>0 DEF Drains, Collected, Computing, At
      <4>3. Pushed(w)'
        BY <2>3, <2>4 DEF Pushed, At
      <4> QED BY <4>1, <4>2, <4>3 DEF Drains
    <3> QED BY <3>1, <3>2
  <2> QED BY <1>0, <2>2, <2>5, <2>7, QuietSame
<1> QED BY <1>3, <1>4

(* ReadSnapshots and ReadInbound: the figure is computed a step further. *)
LEMMA Computes ==
  ASSUME Inv, NEW w \in Workers, Computing(w), NEW a \in {"inbound", "setex"}, NEW n \in Int,
         task' = [task EXCEPT ![w].at = a, ![w].sum = n], a = "setex" => n \in Nat,
         UNCHANGED <<stock, cache, sync, untold>>
  PROVE  Inv'
<1>0. Types /\ Shape(w) /\ ~ Announcing(w) /\ UNCHANGED outbox
  BY DEF Inv, Computing, Announcing, sync
<1>1. PICK u \in Task : u = task[w]
  BY <1>0 DEF Types
<1> DEFINE t == [u EXCEPT !.at = a, !.sum = n]
<1>2. Acts(w, t)
  <2>1. t \in Task
    BY DEF Task
  <2>2. task' = [task EXCEPT ![w] = t]
    BY <1>0, <1>1 DEF Types
  <2> QED BY <2>1, <2>2 DEF Acts
<1>3. /\ t.at = a /\ t.call = u.call /\ t.todo = u.todo /\ t.items = u.items
      /\ t.rows = u.rows /\ t.pushes = u.pushes /\ t.sku = u.sku /\ t.sum = n
  BY DEF Task
<1>4. task'[w] = t
  BY <1>0, <1>2, ActsFacts
<1> HIDE DEF t
<1>5. Shape(w)'
  <2>1. Visible' = Visible
    BY <1>0 DEF Visible
  <2>2. ASSUME NEW k, Draining(w), Mine(w, k) PROVE Mine(w, k)'
    <3>1. task[w].rows \in SUBSET DOMAIN outbox /\ task'[w].rows = task[w].rows
      BY <1>0, <1>1, <1>3, <1>4, <2>2 DEF Shape, Visible
    <3> QED BY <1>0, <2>2, <3>1, SameRows, MineStays
  <2> QED BY <1>0, <1>1, <1>3, <1>4, <2>1, <2>2
        DEF Shape, Announcing, Computing, Draining, At
<1>6. KeepsAll
  BY <1>0, <1>2, SameRows, QuietKeeps
<1>7. Drains(w)'
  <2>1. CASE ~ Draining(w)
    BY <1>1, <1>3, <1>4, <2>1, NoDrain DEF Draining
  <2>2. CASE Draining(w)
    <3>0. Drains(w)
      BY DEF Inv
    <3>1. Figures(w)'
      BY <1>0, <1>1, <1>3, <1>4, <1>6, <2>2, <3>0, SameRows, FiguresStay
    <3>2. Collected(w)'
      BY <1>0, <1>1, <1>3, <1>4, <2>2, <3>0 DEF Drains, Collected, Computing, At
    <3>3. Pushed(w)'
      BY <1>3, <1>4 DEF Pushed, At
    <3> QED BY <3>1, <3>2, <3>3 DEF Drains
  <2> QED BY <2>1, <2>2
<1> QED BY <1>0, <1>2, <1>5, <1>7, QuietSame

(* The key a worker computes. *)
LEMMA KeyOfTask ==
  ASSUME NEW w \in Workers, NEW k, task[w].sku = {k}
  PROVE  KeyOf(w) = k
BY DEF KeyOf

(* The snapshots are summed. *)
LEMMA SnapshotsRead ==
  ASSUME Inv, NEW w \in Workers, ReadSnapshots(w)
  PROVE  Inv'
<1>1. Computing(w) /\ Types /\ Shape(w)
  BY DEF Inv, ReadSnapshots, Computing, At
<1>2. PICK k \in Keys : task[w].sku = {k}
  BY <1>1 DEF Shape
<1>3. PICK n \in Int : n = SnapshotSum(k)
  BY <1>1, FigureTypes
<1>4. task' = [task EXCEPT ![w].at = "inbound", ![w].sum = n]
  BY <1>2, <1>3, KeyOfTask DEF ReadSnapshots
<1> QED BY <1>1, <1>4, Computes DEF ReadSnapshots

(* The inbound units are added. *)
LEMMA InboundRead ==
  ASSUME Inv, NEW w \in Workers, ReadInbound(w)
  PROVE  Inv'
<1>1. Computing(w) /\ Types /\ Shape(w)
  BY DEF Inv, ReadInbound, Computing, At
<1>2. PICK k \in Keys : task[w].sku = {k}
  BY <1>1 DEF Shape
<1>3. PICK n \in Nat : n = Compose(task[w].sum, InboundWithinHorizon(k))
  <2>1. task[w].sum \in Int /\ InboundWithinHorizon(k) \in Int
    BY <1>1, FigureTypes, TaskFields DEF Types
  <2> QED BY <2>1 DEF Compose, AtLeastZero
<1>4. task' = [task EXCEPT ![w].at = "setex", ![w].sum = n]
  BY <1>1, <1>2, <1>3, KeyOfTask DEF ReadInbound, Types
<1>5. n \in Int /\ UNCHANGED <<stock, cache, sync, untold>>
  BY DEF ReadInbound
<1> QED BY <1>1, <1>4, <1>5, Computes

(* setEx: an outdated figure is a cause of its own, unless a SCAN follows. *)
LEMMA CacheSet ==
  ASSUME Inv, NEW w \in Workers, SetCache(w)
  PROVE  Inv'
<1>0. /\ Types /\ Shape(w) /\ CacheCause /\ At(w, "setex") /\ ~ Announcing(w)
      /\ UNCHANGED <<stock, sync>> /\ UNCHANGED <<outbox, shop, cursor>>
  BY DEF Inv, SetCache, Announcing, At, sync
<1>1. PICK k \in Keys : task[w].sku = {k} /\ KeyOf(w) = k
  BY <1>0, KeyOfTask DEF Shape, Computing, At
<1>2. PICK n \in Nat : n = task[w].sum
  BY <1>0 DEF Shape
<1>3. /\ cache' = [cache EXCEPT ![k] = [found |-> TRUE, val |-> n, expires |-> TRUE]]
      /\ untold' = IF n = Atp(k) \/ Scanning(k[1]) THEN untold ELSE untold \cup {k[1]}
      /\ Deliver(w, k, n)
  BY <1>1, <1>2 DEF SetCache
<1>4. PICK t : /\ Acts(w, t) /\ t.at = "fetch" /\ t.rows = task[w].rows
               /\ Shape(w)'
               /\ KeepsAll /\ (Draining(w) => Right(w, <<k, n>>)')
                    => Drains(w)'
  BY <1>0, <1>1, <1>3, Delivered
<1>5. /\ task'[w] = t /\ task' \in [Workers -> Task]
      /\ \A v \in Workers \ {w} : task'[v] = task[v]
  BY <1>0, <1>4, ActsFacts
<1>6. untold \subseteq untold' /\ untold' \in SUBSET Skus /\ k[1] \in Skus
  BY <1>0, <1>3 DEF Types, Keys
<1>7. RowsStay /\ NoneMarked /\ outbox' \in Seq(OutboxRow)
  BY <1>0, SameRows
<1>8. KeepsAll
  BY <1>0, <1>4, <1>6, <1>7, QuietKeeps
<1>9. Types'
  <2>1. cache' \in [Keys -> Entry]
    <3>1. [found |-> TRUE, val |-> n, expires |-> TRUE] \in Entry
      BY DEF Entry
    <3> QED BY <1>0, <1>3, <3>1 DEF Types
  <2> QED BY <1>0, <1>5, <1>6, <2>1 DEF Types, stock
<1>10. ASSUME NEW v \in Workers, NEW x, Removes(v, x) PROVE v # w /\ Removes(v, x)'
  BY <1>0, <1>5, <1>10 DEF Removes, At
<1>11. CacheCause'
  <2> SUFFICES ASSUME NEW s \in Skus
               PROVE  \/ cache'[<<s, Network>>] = None
                      \/ cache'[<<s, Network>>].val = NetworkAtp(s)'
                      \/ s \in untold' \/ \E v \in Workers : Removes(v, <<s, Network>>)'
    BY DEF CacheCause
  <2>1. NetworkAtp(s)' = NetworkAtp(s)
    BY <1>0, StockSame
  <2>2. CASE k = <<s, Network>>
    <3>1. cache'[k].val = n /\ k[1] = s /\ NetworkAtp(s) = Atp(k)
      BY <1>0, <1>3, <2>2 DEF Types, NetworkAtp
    <3>2. CASE Scanning(s)
      <4>1. PICK v \in Workers : At(v, "scan") /\ s \in task[v].sku
        BY <3>2 DEF Scanning
      <4>2. Removes(v, k)
        BY <3>1, <4>1 DEF Removes, At
      <4> QED BY <1>10, <2>2, <4>2
    <3> QED BY <1>3, <2>1, <2>2, <3>1, <3>2
  <2>3. CASE k # <<s, Network>>
    <3>1. cache'[<<s, Network>>] = cache[<<s, Network>>]
      BY <1>0, <1>3, <2>3 DEF Types, Keys
    <3> QED BY <1>0, <1>6, <1>10, <2>1, <3>1 DEF CacheCause
  <2> QED BY <2>2, <2>3
<1>12. ASSUME Draining(w) PROVE Right(w, <<k, n>>)'
  <2>0. Mine(w, k) /\ k \in Keys /\ task[w].rows \in SUBSET DOMAIN outbox
    BY <1>0, <1>1, <1>12 DEF Shape, Computing, At, Visible
  <2>1. PICK s \in Skus : k = <<s, Network>>
    BY <2>0 DEF Mine, Keys
  <2>2. NetworkAtp(s)' = NetworkAtp(s) /\ NetworkAtp(s) = Atp(k) /\ k[1] = s
    BY <1>0, <2>1, StockSame DEF NetworkAtp
  <2>3. n = NetworkAtp(s)' \/ Cause(s, task[w].rows)'
    <3>1. CASE Scanning(s)
      <4>1. PICK v \in Workers : At(v, "scan") /\ s \in task[v].sku
        BY <3>1 DEF Scanning
      <4>2. v # w /\ task'[v] = task[v]
        BY <1>0, <1>5, <4>1 DEF At
      <4> QED BY <4>1, <4>2 DEF Cause, Told, Announcing, At
    <3> QED BY <1>3, <2>2, <3>1 DEF Cause
  <2>4. task'[w].rows = task[w].rows
    BY <1>4, <1>5
  <2>5. <<k, n>>[1] = <<s, Network>> /\ <<k, n>>[2] = n
    BY <2>1
  <2>6. Mine(w, k)'
    BY <1>7, <2>0, <2>4, MineStays
  <2> QED BY <2>1, <2>3, <2>4, <2>5, <2>6 DEF Right
<1>13. PagingSkipsNothing'
  BY <1>0, SamePages
<1> QED BY <1>0, <1>4, <1>7, <1>8, <1>9, <1>11, <1>12, <1>13, OwnStep

-----------------------------------------------------------------------------
(* drainOutbox *)

(* The oldest rows of a set: none of the set is older and left out. *)
LEMMA FirstOfSet ==
  ASSUME NEW n \in Nat, NEW S \in SUBSET (1 .. n), NEW b \in Nat
  PROVE  /\ FirstOf(S, b) \in SUBSET S
         /\ \A m \in FirstOf(S, b), i \in S : i <= m => i \in FirstOf(S, b)
<1>1. FirstOf(S, b) \in SUBSET S
  BY DEF FirstOf
<1>2. ASSUME NEW m \in FirstOf(S, b), NEW i \in S, i <= m PROVE i \in FirstOf(S, b)
  <2>1. PICK A, B : A = { j \in S : j <= i } /\ B = { j \in S : j <= m }
    OBVIOUS
  <2>2. A \subseteq B /\ B \subseteq 1 .. n
    <3>1. m \in S
      BY <1>1, Zenon
    <3>2. i \in Int /\ m \in Int
      BY <3>1
    <3>3. B \subseteq 1 .. n
      BY <2>1
    <3>4. ASSUME NEW j \in A PROVE j \in B
      <4>1. j \in S /\ j <= i /\ j \in Int
        BY <2>1, <3>4
      <4>2. j <= m
        BY <1>2, <3>2, <4>1
      <4> QED BY <2>1, <4>1, <4>2
    <3> QED BY <3>3, <3>4
  <2>3. IsFiniteSet(B)
    <3>1. IsFiniteSet(1 .. n)
      BY FS_Interval
    <3> QED BY <2>2, <3>1, FS_Subset
  <2>4. /\ Cardinality(A) <= Cardinality(B) /\ Cardinality(A) \in Nat
        /\ Cardinality(B) \in Nat
    BY <2>2, <2>3, FS_Subset, FS_CardinalityType
  <2>5. Cardinality(B) <= b
    BY <2>1 DEF FirstOf
  <2>6. Cardinality(A) <= b
    BY <2>4, <2>5
  <2> QED BY <2>1, <2>6 DEF FirstOf
<1> QED BY <1>1, <1>2

(* The figures some rows of the outbox ask for. *)
LEMMA RowKeys ==
  ASSUME Types, NEW B \in SUBSET DOMAIN outbox
  PROVE  NetworkKeys(B) \in SUBSET Keys
<1>1. \A i \in B : outbox[i].sku \in Skus
  BY OutboxFacts
<1>2. ASSUME NEW k \in NetworkKeys(B) PROVE k \in Keys
  <2>1. PICK i \in B : k = <<outbox[i].sku, Network>>
    BY <1>2 DEF NetworkKeys
  <2> QED BY <1>1, <2>1 DEF Keys
<1> QED BY <1>2

(* The job, or the request, takes the oldest pending rows. *)
LEMMA DrainStarted ==
  ASSUME Inv, NEW w \in Workers, StartDrain(w)
  PROVE  Inv'
<1>0. /\ Types /\ Shape(w) /\ At(w, "idle")
      /\ ~ Announcing(w) /\ UNCHANGED <<stock, cache, sync, untold>> /\ UNCHANGED outbox
  BY DEF Inv, StartDrain, Serves, Announcing, At, sync
<1>1. PICK B : B = FirstOf(Pending, DrainBatch)
  OBVIOUS
<1>2. B \in SUBSET Pending /\ B \in SUBSET Nat /\ B \in SUBSET Visible
      /\ B \in SUBSET DOMAIN outbox
  <2>1. B \in SUBSET Pending
    BY <1>1 DEF FirstOf
  <2> QED BY <1>0, <2>1, OutboxFacts DEF Pending, Visible
<1>3. PICK K \in SUBSET Keys :
        K = NetworkKeys(B) /\ \A k \in K : \E i \in B : k = <<outbox[i].sku, Network>>
  <2>1. NetworkKeys(B) \in SUBSET Keys
    BY <1>0, <1>2, RowKeys
  <2>2. \A k \in NetworkKeys(B) : \E i \in B : k = <<outbox[i].sku, Network>>
    BY DEF NetworkKeys
  <2> QED BY <2>1, <2>2
<1>4. task' = [task EXCEPT ![w].at = "fetch", ![w].call = "drain", ![w].todo = K,
                           ![w].rows = B]
  BY <1>1, <1>3 DEF StartDrain, Fetch
<1>5. PICK u \in Task : u = task[w] /\ u = Idle
  BY <1>0 DEF Types, Shape
<1> DEFINE t == [u EXCEPT !.at = "fetch", !.call = "drain", !.todo = K, !.rows = B]
<1>6. Acts(w, t)
  <2>1. PICK g : g = [u EXCEPT !.at = "fetch", !.call = "drain"]
    OBVIOUS
  <2>2. g \in Task
    BY <2>1 DEF Task
  <2>3. t = [g EXCEPT !.todo = K, !.rows = B]
    BY <2>1 DEF Task
  <2>4. t \in Task
    <3> HIDE DEF t
    <3> QED BY <1>2, <2>2, <2>3 DEF Task
  <2>5. task' = [task EXCEPT ![w] = t]
    BY <1>0, <1>4, <1>5 DEF Types
  <2> QED BY <2>4, <2>5 DEF Acts
<1>7. /\ t.at = "fetch" /\ t.call = "drain" /\ t.todo = K /\ t.rows = B
      /\ t.items = u.items /\ t.pushes = u.pushes
  BY DEF Task
<1>8. task'[w] = t
  BY <1>0, <1>6, ActsFacts
<1> HIDE DEF t
<1>9. u.items = {} /\ u.pushes = {}
  BY <1>5, IdleTask
<1>10. Shape(w)'
  <2>1. Visible' = Visible
    BY <1>0 DEF Visible
  <2> QED BY <1>0, <1>2, <1>3, <1>7, <1>8, <2>1
        DEF Shape, Announcing, Computing, Draining, At, Mine
<1>11. Drains(w)'
  <2>1. Figures(w)'
    BY <1>7, <1>8, <1>9 DEF Figures
  <2>2. Collected(w)'
    BY <1>0, <1>3, <1>7, <1>8 DEF Collected, NetworkKeys
  <2>3. Pushed(w)'
    BY <1>7, <1>8 DEF Pushed, At
  <2> QED BY <2>1, <2>2, <2>3 DEF Drains
<1> QED BY <1>0, <1>6, <1>10, <1>11, QuietSame

(* Every figure goes to every channel. *)
LEMMA PublishingStarted ==
  ASSUME Inv, NEW w \in Workers, StartPublishing(w)
  PROVE  Inv'
<1>0. /\ Types /\ Shape(w) /\ At(w, "fetch") /\ Draining(w) /\ task[w].todo = {}
      /\ ~ Announcing(w) /\ UNCHANGED <<stock, cache, sync, untold>>
      /\ UNCHANGED <<outbox, shop>>
  BY DEF Inv, StartPublishing, Announcing, At, sync, Draining
<1>1. PICK u \in Task : u = task[w]
  BY <1>0 DEF Types
<1>2. PICK P \in SUBSET (Channels \X Figure) : P = Channels \X u.items
  <2>1. u.items \in SUBSET Figure
    BY TaskFields
  <2> QED BY <2>1
<1> DEFINE t == [u EXCEPT !.at = "publish", !.pushes = P]
<1>3. Acts(w, t)
  <2>1. t \in Task
    BY DEF Task
  <2>2. task' = [task EXCEPT ![w] = t]
    BY <1>0, <1>1, <1>2 DEF StartPublishing, Types
  <2> QED BY <2>1, <2>2 DEF Acts
<1>4. /\ t.at = "publish" /\ t.call = u.call /\ t.todo = u.todo /\ t.items = u.items
      /\ t.rows = u.rows /\ t.pushes = P
  BY DEF Task
<1>5. task'[w] = t
  BY <1>0, <1>3, ActsFacts
<1> HIDE DEF t
<1>6. Shape(w)'
  <2>1. Visible' = Visible
    BY <1>0 DEF Visible
  <2> QED BY <1>0, <1>1, <1>4, <1>5, <2>1 DEF Shape, Announcing, Computing, Draining, At, Mine
<1>7. KeepsAll
  BY <1>0, <1>3, SameRows, QuietKeeps
<1>8. Drains(w)'
  <2>0. Drains(w)
    BY DEF Inv
  <2>1. ASSUME NEW f \in u.items PROVE Right(w, f)'
    <3>1. f \in Figure
      BY TaskFields
    <3>2. task[w].rows \in SUBSET DOMAIN outbox /\ task'[w].rows = task[w].rows
      BY <1>0, <1>1, <1>4, <1>5 DEF Shape, Visible
    <3>3. RowsStay
      BY <1>0, SameRows
    <3>4. Right(w, f)
      BY <1>0, <1>1, <2>0 DEF Drains, Figures
    <3> QED BY <1>7, <3>1, <3>2, <3>3, <3>4, RightStays
  <2>2. Figures(w)'
    BY <1>2, <1>4, <1>5, <2>1 DEF Figures
  <2>3. Collected(w)'
    BY <1>4, <1>5 DEF Collected, At
  <2>4. Pushed(w)'
    <3> SUFFICES ASSUME NEW i \in u.rows, NEW x \in Listed, x[2] = outbox[i].sku
                 PROVE  \E p \in P : p[1] = x[1] /\ p[2][1] = <<x[2], Network>>
      BY <1>0, <1>4, <1>5 DEF Pushed
    <3>1. PICK f \in u.items : f[1] = <<x[2], Network>>
      BY <1>0, <1>1, <2>0 DEF Drains, Collected, Computing, At
    <3>2. x[1] \in Channels
      BY ChannelSyncAssumption
    <3>3. <<x[1], f>> \in P
      BY <1>2, <3>1, <3>2
    <3> QED BY <3>1, <3>3
  <2> QED BY <2>2, <2>3, <2>4 DEF Drains
<1> QED BY <1>0, <1>3, <1>6, <1>8, QuietSame

(* A cause beside some rows is a cause. *)
LEMMA CauseAnyway ==
  ASSUME NEW s, NEW R, Cause(s, R)'
  PROVE  Cause(s, {})'
BY DEF Cause, Waits

(* Figures a drain has reach a shop. *)
LEMMA PushStep ==
  ASSUME Inv, NEW w \in Workers, NEW t, Acts(w, t), At(w, "publish"),
         UNCHANGED <<stock, cache, outbox, cursor>>,
         untold \subseteq untold', untold' \in SUBSET Skus, shop' \in [Listed -> Nat],
         \A x \in Listed : shop'[x] = shop[x] \/ \E p \in task[w].pushes :
           /\ p[2][1][1] = x[2] /\ shop'[x] = p[2][2]
           /\ Overtaken(w, x[2], p[2][2]) \subseteq untold',
         Shape(w)', KeepsAll => Drains(w)'
  PROVE  Inv'
<1>0. Types /\ Shape(w) /\ Draining(w) /\ ~ Announcing(w)
  BY DEF Inv, Shape, Announcing, At
<1>1. Types'
  BY <1>0, ActsFacts DEF Types, stock
<1>2. RowsStay /\ NoneMarked
  BY <1>0, SameRows
<1>3. KeepsAll
  BY <1>0, <1>2, QuietKeeps
<1>4. CacheCause' /\ PagingSkipsNothing'
  BY <1>0, QuietCache, SamePages DEF Announcing
<1>5. \A v \in Workers \ {w} : task'[v] = task[v]
  BY <1>0, ActsFacts
<1>6. \A v \in Workers : Shape(v)'
  BY <1>2, <1>5, ShapeStays DEF Inv
<1>7. Drift' /\ \A v \in Workers : Drains(v)'
  <2>0. Drift /\ \A v \in Workers : Drains(v) /\ Shape(v)
    BY DEF Inv
  <2>1. ASSUME NEW v \in Workers \ {w} PROVE Drains(v)'
    <3>1. CASE ~ Draining(v)
      <4>1. task'[v].call # "drain" /\ task'[v].at # "publish"
        BY <1>5, <2>0, <3>1 DEF Shape, Draining, At
      <4> QED BY <4>1, NoDrain
    <3>2. CASE Draining(v)
      <4>1. ASSUME NEW i \in task[v].rows, NEW x \in Listed, x[2] = outbox[i].sku,
                   shop'[x] # shop[x]
            PROVE  shop'[x] = NetworkAtp(x[2])' \/ x[2] \in untold'
        <5>1. PICK p \in task[w].pushes :
                shop'[x] = p[2][2] /\ Overtaken(w, x[2], p[2][2]) \subseteq untold'
          BY <4>1
        <5>2. Contested(w, x[2])
          BY <3>2, <4>1 DEF Contested, Draining
        <5>3. x[2] \in Skus
          BY ChannelSyncAssumption
        <5>4. NetworkAtp(x[2])' = NetworkAtp(x[2])
          BY <5>3, StockSame
        <5> QED BY <5>1, <5>2, <5>4 DEF Overtaken
      <4>2. ShopsStay(v)
        BY <4>1 DEF ShopsStay
      <4>3. KeepsFor(v)
        BY <1>0, <1>3, <2>0, AllKept
      <4> QED BY <1>0, <1>2, <1>5, <2>0, <4>2, <4>3, DrainsKept
    <3> QED BY <3>1, <3>2
  <2>2. Drift'
    <3> SUFFICES ASSUME NEW x \in Listed
                 PROVE  shop'[x] = NetworkAtp(x[2])' \/ Cause(x[2], {})'
      BY DEF Drift
    <3>0. x[2] \in Skus /\ task[w].rows \in SUBSET DOMAIN outbox
      BY <1>0, ChannelSyncAssumption DEF Shape, Visible
    <3>1. CASE shop'[x] = shop[x]
      <4>1. Keeps(x[2], {})
        BY <1>3, <3>0 DEF KeepsAll
      <4> QED BY <2>0, <3>1, <4>1 DEF Drift, Keeps
    <3>2. ASSUME NEW p \in task[w].pushes, p[2][1][1] = x[2], shop'[x] = p[2][2]
          PROVE  shop'[x] = NetworkAtp(x[2])' \/ Cause(x[2], {})'
      <4>1. Right(w, p[2])
        BY <1>0, <2>0 DEF Drains, Figures
      <4>2. Keeps(x[2], task[w].rows)
        BY <1>3, <3>0 DEF KeepsAll
      <4>3. shop'[x] = NetworkAtp(x[2])' \/ Cause(x[2], task[w].rows)'
        BY <3>2, <4>1, <4>2 DEF Mine, Right, Keeps
      <4> QED BY <4>3, CauseAnyway
    <3> QED BY <3>1, <3>2
  <2> QED BY <1>3, <2>1, <2>2
<1> QED BY <1>1, <1>4, <1>6, <1>7 DEF Inv

(* One figure is pushed: it is at the shop, right or with a cause. *)
LEMMA ItemPushed ==
  ASSUME Inv, NEW w \in Workers, NEW p \in task[w].pushes, PushItem(w, p[1], p[2])
  PROVE  Inv'
<1>0. /\ Types /\ Shape(w) /\ At(w, "publish") /\ Draining(w) /\ ~ Announcing(w)
      /\ UNCHANGED <<stock, cache, outbox, cursor>>
  BY DEF Inv, PushItem, Shape, Announcing, At
<1>1. PICK u \in Task : u = task[w]
  BY <1>0 DEF Types
<1>2. p \in Channels \X Figure /\ p = <<p[1], p[2]>> /\ p[2] \in Figure
  <2>1. p \in Channels \X Figure
    BY <1>1, TaskFields
  <2> QED BY <2>1
<1>3. /\ p[2][1][1] \in Skus /\ p[2][2] \in Nat
  BY <1>2 DEF Figure
<1>4. PICK P \in SUBSET (Channels \X Figure) : P = u.pushes \ {p}
  BY TaskFields
<1> DEFINE t == [u EXCEPT !.pushes = P]
<1>5. Acts(w, t)
  <2>1. t \in Task
    BY DEF Task
  <2>2. task' = [task EXCEPT ![w] = t]
    BY <1>0, <1>1, <1>2, <1>4 DEF PushItem, Types
  <2> QED BY <2>1, <2>2 DEF Acts
<1>6. /\ t.at = u.at /\ t.call = u.call /\ t.todo = u.todo /\ t.items = u.items
      /\ t.rows = u.rows /\ t.pushes = P /\ t.sku = u.sku
  BY DEF Task
<1>7. task'[w] = t
  BY <1>0, <1>5, ActsFacts
<1> HIDE DEF t
<1>80. PICK y : y = <<p[1], p[2][1][1]>>
  OBVIOUS
<1>8. PICK n \in Nat : y = <<p[1], p[2][1][1]>> /\ n = p[2][2]
  BY <1>3, <1>80
<1>9. shop' \in [Listed -> Nat] /\ \A x \in Listed : shop'[x] = IF x = y THEN n ELSE shop[x]
  <2>1. y \in Listed => shop' = [shop EXCEPT ![y] = n]
    BY <1>8 DEF PushItem, Resolves, SetAvailable
  <2>2. y \notin Listed => shop' = shop
    BY <1>8 DEF PushItem, Resolves
  <2> QED BY <1>0, <2>1, <2>2 DEF Types
<1>95. /\ untold \subseteq untold' /\ untold' \in SUBSET Skus
       /\ y \in Listed => Overtaken(w, y[2], n) \subseteq untold'
  <2>1. Overtaken(w, y[2], n) \in SUBSET Skus
    BY <1>3, <1>8 DEF Overtaken
  <2>2. y \in Listed => untold' = untold \cup Overtaken(w, y[2], n)
    BY <1>8 DEF PushItem, Resolves
  <2>3. y \notin Listed => untold' = untold
    BY <1>8 DEF PushItem, Resolves
  <2> QED BY <1>0, <2>1, <2>2, <2>3 DEF Types
<1>10. \A x \in Listed : shop'[x] = shop[x] \/ \E q \in task[w].pushes :
         /\ q[2][1][1] = x[2] /\ shop'[x] = q[2][2]
         /\ Overtaken(w, x[2], q[2][2]) \subseteq untold'
  <2>1. y[2] = p[2][1][1] /\ n = p[2][2]
    BY <1>8
  <2> QED BY <1>9, <1>95, <2>1
<1>11. Shape(w)'
  <2>1. Visible' = Visible
    BY <1>0 DEF Visible
  <2> QED BY <1>0, <1>1, <1>6, <1>7, <2>1 DEF Shape, Announcing, Computing, Draining, At, Mine
<1>12. ASSUME KeepsAll PROVE Drains(w)'
  <2>0. Drains(w) /\ task[w].rows \in SUBSET DOMAIN outbox /\ task'[w].rows = task[w].rows
    BY <1>0, <1>1, <1>6, <1>7, <1>12 DEF Inv, Shape, Visible
  <2>1. \A f \in Figure : Right(w, f) => Right(w, f)'
    <3>1. RowsStay
      BY <1>0, SameRows
    <3> QED BY <1>12, <2>0, <3>1, RightStays
  <2>2. Figures(w)'
    <3>1. u.items \subseteq Figure /\ \A q \in u.pushes : q[2] \in Figure
      BY TaskFields
    <3> QED BY <1>0, <1>1, <1>4, <1>6, <1>7, <2>0, <2>1, <3>1 DEF Drains, Figures
  <2>3. Collected(w)'
    BY <1>0, <1>1, <1>6, <1>7 DEF Collected, At
  <2>4. Pushed(w)'
    <3> SUFFICES ASSUME NEW i \in u.rows, NEW x \in Listed, x[2] = outbox[i].sku,
                        ~ \E q \in P : q[1] = x[1] /\ q[2][1] = <<x[2], Network>>
                 PROVE  shop'[x] = NetworkAtp(x[2])' \/ Cause(x[2], task[w].rows)'
      BY <1>0, <1>1, <1>6, <1>7, <2>0 DEF Pushed
    <3>0. x[2] \in Skus /\ x = <<x[1], x[2]>>
      BY ChannelSyncAssumption
    <3>1. Keeps(x[2], task[w].rows)
      BY <1>12, <2>0, <3>0 DEF KeepsAll
    <3>2. CASE x = y
      <4>1. Right(w, p[2])
        BY <1>0, <2>0 DEF Drains, Figures
      <4>2. x[2] = p[2][1][1] /\ shop'[x] = p[2][2]
        BY <1>8, <1>9, <3>2
      <4> QED BY <3>1, <4>1, <4>2 DEF Mine, Right, Keeps
    <3>3. CASE x # y
      <4>1. ASSUME NEW q \in u.pushes, q[1] = x[1], q[2][1] = <<x[2], Network>>
            PROVE  FALSE
        <5>1. q = p
          BY <1>4, <4>1
        <5>2. y = <<x[1], x[2]>>
          BY <1>8, <4>1, <5>1
        <5> QED BY <3>0, <3>3, <5>2
      <4>2. shop[x] = NetworkAtp(x[2]) \/ Cause(x[2], task[w].rows)
        BY <1>0, <1>1, <2>0, <4>1 DEF Drains, Pushed
      <4> QED BY <1>9, <3>1, <3>3, <4>2 DEF Keeps
    <3> QED BY <3>2, <3>3
  <2> QED BY <2>2, <2>3, <2>4 DEF Drains
<1> QED BY <1>0, <1>5, <1>9, <1>95, <1>10, <1>11, <1>12, PushStep

(* A push fails and the drain ends, its rows still PENDING. *)
LEMMA PushesFail ==
  ASSUME Inv, NEW w \in Workers, PushFails(w)
  PROVE  Inv'
<1>0. /\ Types /\ At(w, "publish") /\ End(w)
      /\ UNCHANGED <<stock, cache, outbox, cursor>>
  BY DEF Inv, PushFails
<1>1. Acts(w, Idle) /\ Shape(w)' /\ Drains(w)'
  BY <1>0, Ends
<1>2. \/ UNCHANGED <<shop, untold>>
      \/ \E p \in task[w].pushes :
           /\ <<p[1], p[2][1][1]>> \in Listed
           /\ shop' = [shop EXCEPT ![<<p[1], p[2][1][1]>>] = p[2][2]]
           /\ untold' = untold \cup Overtaken(w, p[2][1][1], p[2][2])
  BY DEF PushFails, Resolves, SetAvailable
<1>3. CASE UNCHANGED <<shop, untold>>
  <2>1. /\ shop' \in [Listed -> Nat] /\ \A x \in Listed : shop'[x] = shop[x]
        /\ untold \subseteq untold' /\ untold' \in SUBSET Skus
    BY <1>0, <1>3 DEF Types
  <2> QED BY <1>0, <1>1, <2>1, PushStep
<1>4. ASSUME NEW p \in task[w].pushes, <<p[1], p[2][1][1]>> \in Listed,
             shop' = [shop EXCEPT ![<<p[1], p[2][1][1]>>] = p[2][2]],
             untold' = untold \cup Overtaken(w, p[2][1][1], p[2][2])
      PROVE  Inv'
  <2>1. p \in Channels \X Figure
    BY <1>0, TaskFields DEF Types
  <2>2. p[2][2] \in Nat /\ p[2][1][1] \in Skus
    BY <2>1 DEF Figure
  <2>30. PICK y : y = <<p[1], p[2][1][1]>>
    OBVIOUS
  <2>3. PICK n \in Nat : y = <<p[1], p[2][1][1]>> /\ n = p[2][2]
    BY <2>2, <2>30
  <2>4. shop' = [shop EXCEPT ![y] = n] /\ y \in Listed
    BY <1>4, <2>3
  <2>5. /\ shop' \in [Listed -> Nat]
        /\ \A x \in Listed : shop'[x] = IF x = y THEN n ELSE shop[x]
    BY <1>0, <2>4 DEF Types
  <2>6. untold \subseteq untold' /\ untold' \in SUBSET Skus
    <3>1. Overtaken(w, p[2][1][1], p[2][2]) \in SUBSET Skus
      BY <2>2 DEF Overtaken
    <3> QED BY <1>0, <1>4, <3>1 DEF Types
  <2>7. \A x \in Listed : shop'[x] = shop[x] \/ \E q \in task[w].pushes :
          /\ q[2][1][1] = x[2] /\ shop'[x] = q[2][2]
          /\ Overtaken(w, x[2], q[2][2]) \subseteq untold'
    <3>1. y[2] = p[2][1][1] /\ n = p[2][2]
      BY <2>3
    <3>2. Overtaken(w, p[2][1][1], p[2][2]) \subseteq untold'
      BY <1>4
    <3> QED BY <2>5, <3>1, <3>2
  <2> QED BY <1>0, <1>1, <2>5, <2>6, <2>7, PushStep
<1> QED BY <1>2, <1>3, <1>4

(* A function of the positions is a sequence. *)
LEMMA RowSequence ==
  ASSUME NEW n \in Nat, NEW q, q = [i \in 1 .. n |-> q[i]],
         \A i \in 1 .. n : q[i] \in OutboxRow
  PROVE  q \in Seq(OutboxRow)
BY SMT

(* The rows of a drain are marked once every figure of theirs is pushed. *)
LEMMA RowsMarked ==
  ASSUME Inv, NEW w \in Workers, MarkPublished(w)
  PROVE  Inv'
<1>0. /\ Types /\ Shape(w) /\ At(w, "publish") /\ Draining(w) /\ ~ Announcing(w)
      /\ task[w].pushes = {} /\ End(w) /\ PagingSkipsNothing
      /\ UNCHANGED <<stock, cache, shop, cursor>>
  BY DEF Inv, MarkPublished, Mark, Shape, Announcing, At
<1>1. PICK R \in SUBSET DOMAIN outbox : R = task[w].rows /\ R \subseteq Visible
  BY <1>0 DEF Shape, Visible
<1>2. outbox' = [i \in DOMAIN outbox |->
                   IF i \in R THEN [outbox[i] EXCEPT !.status = "PUBLISHED"] ELSE outbox[i]]
  BY <1>1 DEF MarkPublished, Mark
<1>25. /\ untold \subseteq untold' /\ untold' \in SUBSET Skus
       /\ \A i \in R : Contested(w, outbox[i].sku) => outbox[i].sku \in untold'
  <2>1. untold' = untold \cup { s \in { outbox[i].sku : i \in R } : Contested(w, s) }
    BY <1>1 DEF MarkPublished, Mark
  <2>2. \A i \in R : outbox[i].sku \in Skus
    BY <1>0, OutboxFacts
  <2> QED BY <1>0, <2>1, <2>2 DEF Types
<1>3. /\ DOMAIN outbox' = DOMAIN outbox
      /\ \A i \in DOMAIN outbox :
           /\ outbox'[i] \in OutboxRow /\ outbox'[i].sku = outbox[i].sku
           /\ outbox'[i].fed = outbox[i].fed /\ outbox'[i].late = outbox[i].late
           /\ outbox'[i].status = IF i \in R THEN "PUBLISHED" ELSE outbox[i].status
  <2>1. DOMAIN outbox' = DOMAIN outbox
    BY <1>2
  <2>2. ASSUME NEW i \in DOMAIN outbox
        PROVE  /\ outbox'[i] \in OutboxRow /\ outbox'[i].sku = outbox[i].sku
               /\ outbox'[i].fed = outbox[i].fed /\ outbox'[i].late = outbox[i].late
               /\ outbox'[i].status = IF i \in R THEN "PUBLISHED" ELSE outbox[i].status
    <3>1. PICK o \in OutboxRow : o = outbox[i]
      BY <1>0, OutboxFacts
    <3>2. outbox'[i] = IF i \in R THEN [o EXCEPT !.status = "PUBLISHED"] ELSE o
      BY <1>2, <3>1
    <3> QED BY <3>1, <3>2 DEF OutboxRow
  <2> QED BY <2>1, <2>2
<1>4. outbox' \in Seq(OutboxRow)
  <2>1. outbox' = [i \in 1 .. Len(outbox) |-> outbox'[i]]
    BY <1>0, <1>2, <1>3, OutboxFacts
  <2> QED BY <1>0, <1>3, <2>1, OutboxFacts, RowSequence
<1>5. RowsStay
  BY <1>3 DEF RowsStay
<1>6. Visible' = Visible
  BY <1>1, <1>3 DEF Visible
<1>7. PagingSkipsNothing'
  <2>1. \A i \in Visible : i \in DOMAIN outbox
    BY DEF Visible
  <2> QED BY <1>0, <1>3, <1>6, <2>1 DEF PagingSkipsNothing
<1>8. Acts(w, Idle) /\ Shape(w)' /\ Drains(w)'
  BY <1>0, Ends
<1>9. task' \in [Workers -> Task] /\ \A v \in Workers \ {w} : task'[v] = task[v]
  BY <1>0, <1>8, ActsFacts
<1>10. Types'
  BY <1>0, <1>25, <1>4, <1>9 DEF Types, stock
<1>11. CacheCause'
  BY <1>0, <1>25, <1>8, QuietCache DEF Announcing
<1>12. \A v \in Workers : Shape(v)'
  BY <1>5, <1>8, <1>9, ShapeStays DEF Inv
<1>13. Drift' /\ \A v \in Workers : Drains(v)'
  <2>0. Drift /\ \A v \in Workers : Drains(v) /\ Shape(v)
    BY DEF Inv
  <2>1. ASSUME NEW v \in Workers \ {w} PROVE Drains(v)'
    <3>1. ShopsStay(v)
      BY <1>0 DEF ShopsStay
    <3>2. KeepsFor(v)
      <4> SUFFICES ASSUME Draining(v), NEW i \in task[v].rows
                   PROVE  Keeps(outbox[i].sku, task[v].rows)
        BY DEF KeepsFor
      <4>1. PICK s \in Skus : s = outbox[i].sku
        <5>1. i \in DOMAIN outbox
          BY <2>0 DEF Shape, Visible
        <5> QED BY <1>0, <5>1, OutboxFacts
      <4>2. Contested(w, s)
        BY <4>1 DEF Contested, Draining
      <4>3. s \in untold' => Cause(s, task[v].rows)'
        BY DEF Cause
      <4>4. ASSUME Told(s) PROVE Cause(s, task[v].rows)'
        <5>1. PICK u \in Workers : Announcing(u) /\ s \in task[u].sku
          BY <4>4 DEF Told
        <5>2. task'[u] = task[u]
          BY <1>0, <1>9, <5>1
        <5> QED BY <5>1, <5>2 DEF Cause, Told, Announcing
      <4>5. ASSUME NEW j \in DOMAIN outbox \ task[v].rows, outbox[j].sku = s,
                   outbox[j].status # "PUBLISHED"
            PROVE  Cause(s, task[v].rows)'
        <5>1. CASE j \in R
          BY <1>25, <4>2, <4>3, <4>5, <5>1
        <5>2. CASE j \notin R
          <6>1. /\ outbox'[j].sku = s /\ outbox'[j].status # "PUBLISHED"
                /\ j \in DOMAIN outbox'
            BY <1>3, <4>5, <5>2
          <6>2. task'[v].rows = task[v].rows
            BY <1>9
          <6> QED BY <4>5, <6>1, <6>2 DEF Cause, Waits
        <5> QED BY <5>1, <5>2
      <4>6. NetworkAtp(s)' = NetworkAtp(s)
        BY <1>0, StockSame
      <4>7. Cause(s, task[v].rows) => Cause(s, task[v].rows)'
        BY <1>25, <4>3, <4>4, <4>5 DEF Cause, Waits
      <4>8. Keeps(s, task[v].rows)
        BY <4>6, <4>7 DEF Keeps
      <4> QED BY <4>1, <4>8
    <3> QED BY <1>0, <1>5, <1>9, <2>0, <3>1, <3>2, DrainsKept
  <2>2. ASSUME NEW s \in Skus, NEW Q, Q = {} \/ Q = R, Cause(s, Q),
               Q = {} => \A i \in R : outbox[i].sku # s
        PROVE  Cause(s, {})'
    <3>1. ASSUME NEW v \in Workers, Announcing(v), s \in task[v].sku PROVE Cause(s, {})'
      <4>1. task'[v] = task[v]
        BY <1>0, <1>9, <3>1
      <4> QED BY <3>1, <4>1 DEF Cause, Told, Announcing
    <3>2. ASSUME NEW i \in DOMAIN outbox \ Q, outbox[i].sku = s,
                 outbox[i].status # "PUBLISHED"
          PROVE  Cause(s, {})'
      <4>1. i \notin R
        BY <2>2, <3>2
      <4>2. outbox'[i].sku = s /\ outbox'[i].status # "PUBLISHED" /\ i \in DOMAIN outbox'
        BY <1>3, <3>2, <4>1
      <4> QED BY <4>2 DEF Cause, Waits
    <3>3. s \in untold => Cause(s, {})'
      BY <1>25 DEF Cause
    <3> QED BY <2>2, <3>1, <3>2, <3>3 DEF Cause, Told, Waits
  <2>3. Drift'
    <3> SUFFICES ASSUME NEW x \in Listed
                 PROVE  shop'[x] = NetworkAtp(x[2])' \/ Cause(x[2], {})'
      BY DEF Drift
    <3>0. x[2] \in Skus /\ NetworkAtp(x[2])' = NetworkAtp(x[2]) /\ shop' = shop
      BY <1>0, StockSame, ChannelSyncAssumption
    <3>1. CASE \E i \in R : x[2] = outbox[i].sku
      <4>1. shop[x] = NetworkAtp(x[2]) \/ Cause(x[2], R)
        BY <1>0, <1>1, <2>0, <3>1 DEF Drains, Pushed
      <4>2. Cause(x[2], R) => Cause(x[2], {})'
        <5>1. CASE R = {}
          BY <3>1, <5>1
        <5>2. CASE R # {}
          BY <2>2, <3>0, <5>2
        <5> QED BY <5>1, <5>2
      <4> QED BY <3>0, <4>1, <4>2
    <3>2. CASE ~ \E i \in R : x[2] = outbox[i].sku
      <4>1. shop[x] = NetworkAtp(x[2]) \/ Cause(x[2], {})
        BY <2>0 DEF Drift
      <4>2. Cause(x[2], {}) => Cause(x[2], {})'
        BY <2>2, <3>0, <3>2
      <4> QED BY <3>0, <4>1, <4>2
    <3> QED BY <3>1, <3>2
  <2> QED BY <1>8, <2>1, <2>3
<1> QED BY <1>7, <1>10, <1>11, <1>12, <1>13 DEF Inv

-----------------------------------------------------------------------------
(* The delta feed *)

(* The newest row of a page. *)
LEMMA Newest ==
  ASSUME NEW n \in Nat, NEW S \in SUBSET (1 .. n), S # {}
  PROVE  Max(S) \in S /\ \A i \in S : i <= Max(S)
<1>1. PICK T \in SUBSET Nat : T = { n - i : i \in S }
  <2>1. ASSUME NEW d \in { n - i : i \in S } PROVE d \in Nat
    OBVIOUS
  <2>2. { n - i : i \in S } \in SUBSET Nat
    BY <2>1
  <2> QED BY <2>2
<1>2. T # {}
  BY <1>1
<1>3. PICK d \in T : \A m \in T : d <= m
  BY <1>2, LeastNumber
<1>4. PICK x \in S : d = n - x
  BY <1>1, <1>3
<1>5. \A y \in S : x >= y
  <2> TAKE y \in S
  <2>1. n - y \in T
    BY <1>1
  <2>2. n - x <= n - y
    BY <1>3, <1>4, <2>1
  <2>3. x \in Int /\ y \in Int
    OBVIOUS
  <2> QED BY <2>2, <2>3
<1>6. Max(S) \in S /\ \A y \in S : Max(S) >= y
  BY <1>4, <1>5, Zenon DEF Max
<1>7. \A y \in S : y \in Int
  OBVIOUS
<1> QED BY <1>6, <1>7

(* changesSince: the page holds every visible row up to the new cursor. *)
LEMMA PageTaken ==
  ASSUME Inv, NEW w \in Workers, ChangesSince(w)
  PROVE  Inv'
<1>0. /\ Types /\ Shape(w) /\ At(w, "idle") /\ ~ Announcing(w) /\ PagingSkipsNothing
      /\ UNCHANGED <<stock, cache, shop, untold>>
  BY DEF Inv, ChangesSince, Serves, Announcing, At
<1>1. PICK S \in SUBSET DOMAIN outbox : S = { i \in Visible : i > cursor }
  BY DEF Visible
<1>2. PICK B : B = FirstOf(S, PageLimit)
  OBVIOUS
<1>3. /\ B # {} /\ cursor' = Max(B) /\ Fetch(w, "read", NetworkKeys(B), {})
      /\ outbox' = [i \in DOMAIN outbox |-> [outbox[i] EXCEPT !.fed = @ \/ i \in B]]
  BY <1>1, <1>2 DEF ChangesSince
<1>4. PICK n \in Nat : n = Len(outbox) /\ DOMAIN outbox = 1 .. n
  BY <1>0, OutboxFacts
<1>5. B \in SUBSET S /\ \A m \in B, i \in S : i <= m => i \in B
  <2>1. PageLimit \in Nat /\ S \in SUBSET (1 .. n)
    BY <1>4, ChannelSyncAssumption
  <2> QED BY <1>2, <2>1, FirstOfSet
<1>6. B \in SUBSET (1 .. n) /\ B \in SUBSET DOMAIN outbox
  BY <1>4, <1>5
<1>7. cursor' \in B /\ cursor' \in Nat
  BY <1>3, <1>6, Newest
<1>8. /\ DOMAIN outbox' = DOMAIN outbox
      /\ \A i \in DOMAIN outbox :
           /\ outbox'[i] \in OutboxRow /\ outbox'[i].sku = outbox[i].sku
           /\ outbox'[i].fed = (outbox[i].fed \/ i \in B)
           /\ outbox'[i].late = outbox[i].late
           /\ outbox'[i].status = outbox[i].status
  <2>1. DOMAIN outbox' = DOMAIN outbox
    BY <1>3
  <2>2. ASSUME NEW i \in DOMAIN outbox
        PROVE  /\ outbox'[i] \in OutboxRow /\ outbox'[i].sku = outbox[i].sku
               /\ outbox'[i].fed = (outbox[i].fed \/ i \in B)
               /\ outbox'[i].late = outbox[i].late
               /\ outbox'[i].status = outbox[i].status
    <3>1. PICK o \in OutboxRow : o = outbox[i]
      BY <1>0, OutboxFacts
    <3>2. PICK b \in BOOLEAN : b = (o.fed \/ i \in B)
      OBVIOUS
    <3>3. outbox'[i] = [o EXCEPT !.fed = b]
      BY <1>3, <3>1, <3>2
    <3> QED BY <3>1, <3>2, <3>3 DEF OutboxRow
  <2> QED BY <2>1, <2>2
<1>9. outbox' \in Seq(OutboxRow)
  <2>1. outbox' = [i \in 1 .. n |-> outbox'[i]]
    BY <1>3, <1>4
  <2> QED BY <1>4, <1>8, <2>1, RowSequence
<1>10. RowsStay /\ NoneMarked /\ Visible' = Visible
  BY <1>8 DEF RowsStay, NoneMarked, Visible
<1>11. PagingSkipsNothing'
  <2> SUFFICES ASSUME NEW i \in Visible, i <= cursor'
               PROVE  outbox'[i].fed \/ outbox'[i].late
    BY <1>10 DEF PagingSkipsNothing
  <2>0. i \in DOMAIN outbox /\ i \in Nat /\ cursor \in Nat
    BY <1>0, OutboxFacts DEF Visible, Types
  <2>1. CASE i <= cursor
    BY <1>0, <1>8, <2>0, <2>1 DEF PagingSkipsNothing
  <2>2. CASE ~ (i <= cursor)
    <3>1. i \in S
      BY <1>1, <2>0, <2>2
    <3>2. i \in B
      BY <1>5, <1>7, <3>1
    <3> QED BY <1>8, <2>0, <3>2
  <2> QED BY <2>1, <2>2
<1>12. NetworkKeys(B) \in SUBSET Keys
  BY <1>0, <1>6, RowKeys
<1>13. PICK t : Acts(w, t) /\ Shape(w)' /\ Drains(w)'
  BY <1>0, <1>3, <1>12, FetchReads
<1> QED BY <1>0, <1>7, <1>9, <1>10, <1>11, <1>13, QuietStep

-----------------------------------------------------------------------------
(* Announcements *)

(* An announcement that changes no table but the cache. *)
LEMMA AnnouncementStep ==
  ASSUME Inv, NEW w \in Workers, NEW t, Acts(w, t), Announcing(w),
         t.at \in {"scan", "delete", "insert"}, t.sku = task[w].sku, t.call = task[w].call,
         UNCHANGED <<stock, sync, untold>>, cache' \in [Keys -> Entry], CacheCause'
  PROVE  Inv'
<1>0. Types /\ Shape(w) /\ UNCHANGED <<outbox, shop, cursor>>
  BY DEF Inv, sync
<1>1. RowsStay /\ NoneMarked
  BY <1>0, SameRows
<1>2. task'[w] = t /\ task' \in [Workers -> Task]
  BY <1>0, ActsFacts
<1>3. KeepsAll
  BY <1>0, <1>1, QuietKeeps
<1>4. Types'
  BY <1>0, <1>2 DEF Types, stock
<1>5. t.call \in {"move", "import"}
  BY <1>0 DEF Shape
<1>6. Shape(w)'
  BY <1>0, <1>2, <1>5 DEF Shape, Announcing, Computing, Draining, At, Mine
<1>7. Drains(w)'
  BY <1>2, <1>5, NoDrain
<1>8. PagingSkipsNothing'
  BY <1>0, SamePages
<1> QED BY <1>0, <1>1, <1>3, <1>4, <1>6, <1>7, <1>8, OwnStep

(* SCAN: whatever entry of the SKU is there by now will be deleted. *)
LEMMA KeysScanned ==
  ASSUME Inv, NEW w \in Workers, ScanKeys(w)
  PROVE  Inv'
<1>0. /\ Types /\ Shape(w) /\ CacheCause /\ At(w, "scan") /\ Announcing(w)
      /\ UNCHANGED <<stock, cache, sync, untold>>
  BY DEF Inv, ScanKeys, Announcing, At
<1>1. PICK u \in Task : u = task[w]
  BY <1>0 DEF Types
<1>2. PICK M \in SUBSET Keys : M = Matching(w)
  BY DEF Matching
<1> DEFINE t == [u EXCEPT !.at = "delete", !.scanned = M]
<1>3. Acts(w, t)
  <2>1. t \in Task
    BY DEF Task
  <2>2. task' = [task EXCEPT ![w] = t]
    BY <1>0, <1>1, <1>2 DEF ScanKeys, Types
  <2> QED BY <2>1, <2>2 DEF Acts
<1>4. t.at = "delete" /\ t.call = u.call /\ t.sku = u.sku /\ t.scanned = M
  BY DEF Task
<1>5. task'[w] = t /\ \A v \in Workers \ {w} : task'[v] = task[v]
  BY <1>0, <1>3, ActsFacts
<1> HIDE DEF t
<1>6. CacheCause'
  <2> SUFFICES ASSUME NEW s \in Skus, cache[<<s, Network>>] # None, s \notin untold,
                      cache[<<s, Network>>].val # NetworkAtp(s)
               PROVE  \E v \in Workers : Removes(v, <<s, Network>>)'
    BY <1>0, StockSame DEF CacheCause
  <2>1. PICK k \in Keys : k = <<s, Network>>
    BY DEF Keys
  <2>2. PICK v \in Workers : Removes(v, k)
    BY <1>0, <2>1 DEF CacheCause
  <2>3. CASE v # w
    BY <1>5, <2>1, <2>2, <2>3 DEF Removes, At
  <2>4. CASE v = w
    <3>1. k \in M /\ k[1] \in u.sku
      BY <1>1, <1>2, <2>1, <2>2, <2>4 DEF Removes, Matching
    <3>2. Removes(w, k)'
      BY <1>4, <1>5, <3>1 DEF Removes, At
    <3> QED BY <2>1, <3>2
  <2> QED BY <2>3, <2>4
<1> QED BY <1>0, <1>1, <1>3, <1>4, <1>6, AnnouncementStep DEF Types

(* DEL: the entries scanned go. *)
LEMMA KeysDeleted ==
  ASSUME Inv, NEW w \in Workers, DeleteKeys(w)
  PROVE  Inv'
<1>0. /\ Types /\ Shape(w) /\ CacheCause /\ At(w, "delete") /\ Announcing(w)
      /\ UNCHANGED <<stock, sync, untold>>
      /\ cache' = [k \in Keys |-> IF k \in task[w].scanned THEN None ELSE cache[k]]
  BY DEF Inv, DeleteKeys, Announcing, At
<1>1. PICK u \in Task : u = task[w]
  BY <1>0 DEF Types
<1>2. PICK M \in SUBSET Keys : M = {}
  BY Zenon
<1> DEFINE t == [u EXCEPT !.at = "insert", !.scanned = M]
<1>3. Acts(w, t)
  <2>1. t \in Task
    BY DEF Task
  <2>2. task' = [task EXCEPT ![w] = t]
    BY <1>0, <1>1, <1>2 DEF DeleteKeys, Types
  <2> QED BY <2>1, <2>2 DEF Acts
<1>4. t.at = "insert" /\ t.call = u.call /\ t.sku = u.sku
  BY DEF Task
<1>5. task'[w] = t /\ \A v \in Workers \ {w} : task'[v] = task[v]
  BY <1>0, <1>3, ActsFacts
<1> HIDE DEF t
<1>6. None \in Entry
  BY DEF None, Entry
<1>7. cache' \in [Keys -> Entry]
  BY <1>0, <1>6 DEF Types
<1>8. CacheCause'
  <2> SUFFICES ASSUME NEW s \in Skus, cache'[<<s, Network>>] # None, s \notin untold,
                      cache'[<<s, Network>>].val # NetworkAtp(s)
               PROVE  \E v \in Workers : Removes(v, <<s, Network>>)'
    BY <1>0, StockSame DEF CacheCause
  <2>1. PICK k \in Keys : k = <<s, Network>>
    BY DEF Keys
  <2>2. cache'[k] = cache[k] /\ k \notin task[w].scanned
    BY <1>0, <2>1
  <2>3. PICK v \in Workers : Removes(v, k)
    BY <1>0, <2>1, <2>2 DEF CacheCause
  <2>4. v # w
    BY <1>0, <2>2, <2>3 DEF Removes, At
  <2> QED BY <1>5, <2>1, <2>3, <2>4 DEF Removes, At
<1> QED BY <1>0, <1>1, <1>3, <1>4, <1>7, <1>8, AnnouncementStep

(* The outbox INSERT: the row holds what the announcement held. *)
LEMMA RowInserted ==
  ASSUME Inv, NEW w \in Workers, InsertOutbox(w)
  PROVE  Inv'
<1>0. /\ Types /\ Shape(w) /\ PagingSkipsNothing /\ At(w, "insert") /\ Announcing(w)
      /\ UNCHANGED <<stock, cache, shop, cursor, untold>>
  BY DEF Inv, InsertOutbox, Announcing, At
<1>1. PICK u \in Task : u = task[w]
  BY <1>0 DEF Types
<1>2. PICK s \in Skus : u.sku = {s}
  BY <1>0, <1>1 DEF Shape
<1>3. PICK n \in Nat : n = Len(outbox) /\ DOMAIN outbox = 1 .. n
  BY <1>0, OutboxFacts
<1>4. PICK o \in OutboxRow :
        o = [sku |-> s, status |-> "inserting", fed |-> FALSE, late |-> FALSE]
  BY DEF OutboxRow
<1>5. (CHOOSE x \in task[w].sku : TRUE) = s
  BY <1>1, <1>2
<1>6. outbox' = Append(outbox, o)
  BY <1>4, <1>5 DEF InsertOutbox
<1>7. PICK R \in SUBSET Nat : R = {n + 1}
  <2>1. {n + 1} \in SUBSET Nat
    OBVIOUS
  <2> QED BY <2>1
<1> DEFINE t == [u EXCEPT !.at = "visible", !.rows = R]
<1>8. Acts(w, t)
  <2>1. t \in Task
    BY DEF Task
  <2>2. task' = [task EXCEPT ![w] = t]
    BY <1>0, <1>1, <1>3, <1>7 DEF InsertOutbox, Types
  <2> QED BY <2>1, <2>2 DEF Acts
<1>9. t.at = "visible" /\ t.call = u.call /\ t.rows = R
  BY DEF Task
<1>10. task'[w] = t /\ task' \in [Workers -> Task]
  BY <1>0, <1>8, ActsFacts
<1> HIDE DEF t
<1>11. /\ outbox' \in Seq(OutboxRow) /\ Len(outbox') = n + 1
       /\ \A i \in 1 .. n : outbox'[i] = outbox[i]
       /\ outbox'[n + 1] = o
  BY <1>0, <1>3, <1>6, AppendProperties DEF Types
<1>12. DOMAIN outbox' = 1 .. (n + 1)
  BY <1>11, LenProperties
<1>13. o.sku = s /\ o.status = "inserting"
  BY <1>4
<1>14. RowsStay /\ NoneMarked
  BY <1>3, <1>11, <1>12 DEF RowsStay, NoneMarked
<1>15. PICK r : r = n + 1 /\ r \in DOMAIN outbox' \ DOMAIN outbox /\ outbox'[r] = o
  BY <1>3, <1>11, <1>12
<1>16. KeepsAll
  BY <1>0, <1>1, <1>2, <1>8, <1>13, <1>14, <1>15, QuietKeeps
<1>17. Types'
  BY <1>0, <1>10, <1>11 DEF Types, stock
<1>18. CacheCause'
  BY <1>0, <1>8, QuietCache DEF At
<1>19. PagingSkipsNothing'
  <2>1. \A i \in Visible' : i \in Visible /\ outbox'[i] = outbox[i]
    <3> SUFFICES ASSUME NEW i \in DOMAIN outbox', outbox'[i].status # "inserting"
                 PROVE  i \in DOMAIN outbox /\ outbox'[i] = outbox[i]
      BY DEF Visible
    <3>1. i # n + 1
      BY <1>11, <1>13
    <3> QED BY <1>3, <1>11, <1>12, <3>1
  <2> QED BY <1>0, <2>1 DEF PagingSkipsNothing
<1>20. Shape(w)'
  <2>1. R \subseteq DOMAIN outbox'
    BY <1>7, <1>15
  <2>2. u.call \in {"move", "import"}
    BY <1>0, <1>1 DEF Shape
  <2> QED BY <1>9, <1>10, <2>1, <2>2 DEF Shape, Announcing, Computing, Draining, At, Mine
<1>21. Drains(w)'
  <2>1. u.call # "drain"
    BY <1>0, <1>1 DEF Shape
  <2> QED BY <1>9, <1>10, <2>1, NoDrain
<1> QED BY <1>0, <1>8, <1>14, <1>16, <1>17, <1>18, <1>19, <1>20, <1>21, OwnStep

(* What follows an announcement. *)
LEMMA AnnouncementEnds ==
  ASSUME Inv, NEW w \in Workers, task[w].at \in {"insert", "visible"}, AfterAnnouncement(w)
  PROVE  \E t : Acts(w, t) /\ Shape(w)' /\ Drains(w)'
<1>0. Types /\ Shape(w)
  BY DEF Inv
<1>1. CASE task[w].call # "import"
  <2>1. End(w)
    BY <1>1 DEF AfterAnnouncement
  <2> QED BY <1>0, <2>1, Ends
<1>2. CASE task[w].call = "import"
  <2>1. PICK u \in Task : u = task[w]
    BY <1>0 DEF Types
  <2> DEFINE t == [u EXCEPT !.at = "import", !.rows = {}, !.sku = {}, !.delta = 0]
  <2>2. t \in Task
    <3>1. PICK E \in SUBSET (Skus \cup Keys) : E = {}
      BY Zenon
    <3>2. PICK N \in SUBSET Nat : N = {}
      BY Zenon
    <3>3. PICK z \in Int : z = 0
      OBVIOUS
    <3>4. PICK g : g = [u EXCEPT !.at = "import", !.rows = N]
      OBVIOUS
    <3>5. g \in Task
      BY <3>4 DEF Task
    <3>6. t = [g EXCEPT !.sku = E, !.delta = z]
      BY <3>1, <3>2, <3>3, <3>4 DEF Task
    <3> HIDE DEF t
    <3> QED BY <3>5, <3>6 DEF Task
  <2>3. task' = [task EXCEPT ![w] = t]
    BY <1>0, <1>2, <2>1 DEF AfterAnnouncement, Types
  <2>4. Acts(w, t)
    BY <2>2, <2>3 DEF Acts
  <2>5. t.at = "import" /\ t.call = u.call
    BY DEF Task
  <2>6. task'[w] = t
    BY <1>0, <2>4, ActsFacts
  <2> HIDE DEF t
  <2>7. Shape(w)'
    BY <1>2, <2>1, <2>5, <2>6 DEF Shape, Announcing, Computing, Draining, At, Mine
  <2>8. Drains(w)'
    BY <1>2, <2>1, <2>5, <2>6, NoDrain
  <2> QED BY <2>4, <2>7, <2>8
<1> QED BY <1>1, <1>2

(* The row becomes visible, late if the feed has paged past it. *)
LEMMA RowAppears ==
  ASSUME Inv, NEW w \in Workers, RowVisible(w)
  PROVE  Inv'
<1>0. /\ Types /\ Shape(w) /\ PagingSkipsNothing /\ At(w, "visible") /\ ~ Announcing(w)
      /\ UNCHANGED <<stock, cache, shop, cursor, untold>> /\ AfterAnnouncement(w)
  BY DEF Inv, RowVisible, Announcing, At
<1>1. PICK t : Acts(w, t) /\ Shape(w)' /\ Drains(w)'
  BY <1>0, AnnouncementEnds DEF At
<1>2. PICK i \in task[w].rows :
        outbox' = [outbox EXCEPT ![i].status = "PENDING", ![i].late = cursor >= i]
  BY DEF RowVisible
<1>3. i \in DOMAIN outbox
  BY <1>0 DEF Shape
<1>4. PICK o \in OutboxRow : o = outbox[i]
  BY <1>0, <1>3, OutboxFacts
<1>5. PICK b \in BOOLEAN : b = (cursor >= i)
  <2>1. (cursor >= i) \in BOOLEAN
    BY <1>0, <1>3, OutboxFacts DEF Types
  <2> QED BY <2>1
<1>6. PICK r : r = [o EXCEPT !.status = "PENDING", !.late = b]
  OBVIOUS
<1>7. r \in OutboxRow /\ r.sku = o.sku /\ r.status = "PENDING" /\ r.late = b /\ r.fed = o.fed
  BY <1>6 DEF OutboxRow
<1>8. outbox' = [outbox EXCEPT ![i] = r]
  BY <1>2, <1>3, <1>4, <1>5, <1>6
<1>9. /\ outbox' \in Seq(OutboxRow) /\ DOMAIN outbox' = DOMAIN outbox
      /\ outbox'[i] = r /\ \A j \in DOMAIN outbox \ {i} : outbox'[j] = outbox[j]
  <2>1. i \in 1 .. Len(outbox) /\ outbox \in Seq(OutboxRow)
    BY <1>0, <1>3, OutboxFacts DEF Types
  <2>2. outbox' \in Seq(OutboxRow)
    BY <1>7, <1>8, <2>1, ExceptSeq
  <2> QED BY <1>3, <1>8, <2>2
<1>10. RowsStay /\ NoneMarked
  BY <1>4, <1>7, <1>9 DEF RowsStay, NoneMarked
<1>11. PagingSkipsNothing'
  <2> SUFFICES ASSUME NEW j \in DOMAIN outbox, outbox'[j].status # "inserting", j <= cursor
               PROVE  outbox'[j].fed \/ outbox'[j].late
    BY <1>0, <1>9 DEF PagingSkipsNothing, Visible
  <2>1. CASE j = i
    <3>1. cursor >= i
      BY <1>0, <2>1, OutboxFacts DEF Types
    <3> QED BY <1>5, <1>7, <1>9, <2>1, <3>1
  <2>2. CASE j # i
    BY <1>0, <1>9, <2>2 DEF PagingSkipsNothing, Visible
  <2> QED BY <2>1, <2>2
<1>12. cursor' \in Nat
  BY <1>0 DEF Types
<1> QED BY <1>0, <1>1, <1>9, <1>10, <1>11, <1>12, QuietStep

(* An announcement given up leaves its SKU in untold. *)
LEMMA GivenUp ==
  ASSUME Inv, NEW w \in Workers, NEW t, Acts(w, t), Shape(w)', Drains(w)',
         UNCHANGED <<stock, cache, sync>>, untold \subseteq untold', untold' \in SUBSET Skus,
         Announcing(w) => task[w].sku \subseteq untold'
  PROVE  Inv'
<1>0. Types /\ CacheCause /\ UNCHANGED <<outbox, shop, cursor>>
  BY DEF Inv, sync
<1>1. RowsStay /\ NoneMarked
  BY <1>0, SameRows
<1>2. KeepsAll
  BY <1>1, QuietKeeps
<1>3. task' \in [Workers -> Task] /\ \A v \in Workers \ {w} : task'[v] = task[v]
  BY <1>0, ActsFacts
<1>4. Types'
  BY <1>0, <1>3 DEF Types, stock
<1>5. CacheCause'
  <2> SUFFICES ASSUME NEW s \in Skus, cache[<<s, Network>>] # None, s \notin untold',
                      cache[<<s, Network>>].val # NetworkAtp(s)
               PROVE  \E v \in Workers : Removes(v, <<s, Network>>)'
    BY StockSame DEF CacheCause
  <2>1. PICK v \in Workers : Removes(v, <<s, Network>>)
    BY <1>0 DEF CacheCause
  <2>2. v # w
    BY <2>1 DEF Removes, Announcing
  <2> QED BY <1>3, <2>1, <2>2 DEF Removes, At
<1>6. PagingSkipsNothing'
  BY <1>0, SamePages
<1> QED BY <1>0, <1>1, <1>2, <1>4, <1>5, <1>6, OwnStep

(* The insert into the outbox fails. *)
LEMMA InsertGivenUp ==
  ASSUME Inv, NEW w \in Workers, InsertFails(w)
  PROVE  Inv'
<1>0. /\ Types /\ Shape(w) /\ Announcing(w) /\ AfterAnnouncement(w)
      /\ task[w].at \in {"insert", "visible"}
      /\ UNCHANGED <<stock, cache, sync>> /\ untold' = untold \cup task[w].sku
  BY DEF Inv, InsertFails, Announcing, At
<1>1. PICK t : Acts(w, t) /\ Shape(w)' /\ Drains(w)'
  BY <1>0, AnnouncementEnds
<1>2. PICK s \in Skus : task[w].sku = {s}
  BY <1>0 DEF Shape
<1>3. untold' \in SUBSET Skus /\ untold \subseteq untold' /\ task[w].sku \subseteq untold'
  BY <1>0, <1>2 DEF Types
<1> QED BY <1>0, <1>1, <1>3, GivenUp

(* A worker crashes. *)
LEMMA Crashes ==
  ASSUME Inv, NEW w \in Workers, Crash(w)
  PROVE  Inv'
<1>0. /\ Types /\ Shape(w) /\ End(w) /\ UNCHANGED <<stock, cache, sync>>
      /\ untold' = IF Announcing(w) THEN untold \cup task[w].sku ELSE untold
  BY DEF Inv, Crash, Announcing
<1>1. Acts(w, Idle) /\ Shape(w)' /\ Drains(w)'
  BY <1>0, Ends
<1>2. Announcing(w) => \E s \in Skus : task[w].sku = {s}
  BY <1>0 DEF Shape
<1>3. untold' \in SUBSET Skus /\ untold \subseteq untold'
      /\ (Announcing(w) => task[w].sku \subseteq untold')
  BY <1>0, <1>2 DEF Types
<1> QED BY <1>0, <1>1, <1>3, GivenUp

(* A movement of SKU s and the announcement it starts. *)
LEMMA Moved ==
  ASSUME Inv, NEW w \in Workers, NEW t, Acts(w, t), ~ Announcing(w), NEW s \in Skus,
         t.at = "scan", t.sku = {s}, t.call \in {"move", "import"},
         UNCHANGED <<active, cache, sync>>, untold' = untold \ {s},
         onHand' \in [Rows -> Nat], held' \in [Rows -> Nat],
         inbound' \in [Rows -> Nat], later' \in [Rows -> Nat],
         \A z \in Skus \ {s}, l \in Locations :
           /\ onHand'[<<z, l>>] = onHand[<<z, l>>] /\ held'[<<z, l>>] = held[<<z, l>>]
           /\ inbound'[<<z, l>>] = inbound[<<z, l>>]
  PROVE  Inv'
<1>0. Types /\ CacheCause /\ UNCHANGED <<outbox, shop, cursor>>
  BY DEF Inv, sync
<1>1. /\ task'[w] = t /\ task' \in [Workers -> Task]
      /\ \A v \in Workers \ {w} : task'[v] = task[v]
  BY <1>0, ActsFacts
<1>2. Types'
  BY <1>0, <1>1 DEF Types
<1>3. RowsStay /\ NoneMarked
  BY <1>0, SameRows
<1>4. \A z \in Skus \ {s} : NetworkAtp(z)' = NetworkAtp(z)
  BY AtpSame
<1>5. Told(s)'
  BY <1>1 DEF Told, Announcing
<1>6. KeepsAll
  <2> SUFFICES ASSUME NEW z \in Skus, NEW R \in SUBSET DOMAIN outbox
               PROVE  Keeps(z, R)
    BY DEF KeepsAll
  <2>1. CASE z = s
    BY <1>5, <2>1 DEF Keeps, Cause
  <2>2. CASE z # s
    <3>1. Told(z) => Told(z)'
      BY <1>1 DEF Told, Announcing
    <3>2. Waits(z, R) => Waits(z, R)'
      BY <1>0 DEF Waits
    <3> QED BY <1>4, <2>2, <3>1, <3>2 DEF Keeps, Cause
  <2> QED BY <2>1, <2>2
<1>7. CacheCause'
  <2> SUFFICES ASSUME NEW z \in Skus
               PROVE  \/ cache'[<<z, Network>>] = None
                      \/ cache'[<<z, Network>>].val = NetworkAtp(z)'
                      \/ z \in untold' \/ \E v \in Workers : Removes(v, <<z, Network>>)'
    BY DEF CacheCause
  <2>1. CASE z = s
    <3>1. Removes(w, <<s, Network>>)'
      BY <1>1 DEF Removes, At
    <3> QED BY <2>1, <3>1
  <2>2. CASE z # s
    <3>1. ASSUME NEW v \in Workers, Removes(v, <<z, Network>>)
          PROVE  Removes(v, <<z, Network>>)'
      <4>1. v # w
        BY <3>1 DEF Removes, Announcing
      <4> QED BY <1>1, <3>1, <4>1 DEF Removes, At
    <3> QED BY <1>0, <1>4, <2>2, <3>1 DEF CacheCause
  <2> QED BY <2>1, <2>2
<1>8. Shape(w)'
  BY <1>1 DEF Shape, Announcing, Computing, Draining, At, Mine
<1>9. Drains(w)'
  BY <1>1, NoDrain
<1>10. PagingSkipsNothing'
  BY <1>0, SamePages
<1> QED BY <1>0, <1>2, <1>3, <1>6, <1>7, <1>8, <1>9, <1>10, OwnStep

(* A movement commits. *)
LEMMA Committed ==
  ASSUME Inv, NEW w \in Workers, NEW r \in Rows, Commit(w, r)
  PROVE  Inv'
<1>0. /\ Types /\ Shape(w) /\ At(w, "idle") /\ ~ Announcing(w)
      /\ UNCHANGED <<active, cache, sync>> /\ untold' = untold \ {r[1]} /\ UNCHANGED later
  BY DEF Inv, Commit, Serves, Announcing, At
<1>1. PICK s \in Skus : s = r[1]
  BY DEF Rows
<1>2. PICK u \in Task : u = task[w]
  BY <1>0 DEF Types
<1>3. PICK K \in SUBSET (Skus \cup Keys) : K = {s}
  OBVIOUS
<1> DEFINE t == [u EXCEPT !.at = "scan", !.call = "move", !.sku = K]
<1>4. Acts(w, t)
  <2>1. t \in Task
    BY DEF Task
  <2>2. task' = [task EXCEPT ![w] = t]
    BY <1>0, <1>1, <1>2, <1>3 DEF Commit, Types
  <2> QED BY <2>1, <2>2 DEF Acts
<1>5. t.at = "scan" /\ t.call = "move" /\ t.sku = {s}
  BY <1>3 DEF Task
<1> HIDE DEF t
<1>6. /\ onHand \in [Rows -> Nat] /\ held \in [Rows -> Nat] /\ inbound \in [Rows -> Nat]
      /\ later' \in [Rows -> Nat]
  BY <1>0 DEF Types
<1>7. onHand[r] \in Nat /\ held[r] \in Nat /\ inbound[r] \in Nat
  BY <1>6
<1>8. \A z \in Skus \ {s}, l \in Locations : <<z, l>> \in Rows /\ <<z, l>> # r
  BY <1>1 DEF Rows
<1>9. PICK a \in Nat, b \in Nat, c \in Nat :
        /\ onHand' = [onHand EXCEPT ![r] = a] /\ held' = [held EXCEPT ![r] = b]
        /\ inbound' = [inbound EXCEPT ![r] = c]
  <2>0. /\ onHand = [onHand EXCEPT ![r] = onHand[r]] /\ held = [held EXCEPT ![r] = held[r]]
        /\ inbound = [inbound EXCEPT ![r] = inbound[r]]
    BY <1>6
  <2>1. CASE onHand' = [onHand EXCEPT ![r] = @ + 1] /\ UNCHANGED <<held, inbound>>
    <3>1. onHand[r] + 1 \in Nat
      BY <1>7
    <3> QED BY <1>7, <2>0, <2>1, <3>1
  <2>2. CASE onHand[r] > 0 /\ onHand' = [onHand EXCEPT ![r] = @ - 1]
             /\ UNCHANGED <<held, inbound>>
    <3>1. onHand[r] - 1 \in Nat
      BY <1>7, <2>2
    <3> QED BY <1>7, <2>0, <2>2, <3>1
  <2>3. CASE held' = [held EXCEPT ![r] = @ + 1] /\ UNCHANGED <<onHand, inbound>>
    <3>1. held[r] + 1 \in Nat
      BY <1>7
    <3> QED BY <1>7, <2>0, <2>3, <3>1
  <2>4. CASE /\ inbound[r] > 0 /\ inbound' = [inbound EXCEPT ![r] = @ - 1]
             /\ onHand' = [onHand EXCEPT ![r] = @ + 1] /\ UNCHANGED held
    <3>1. onHand[r] + 1 \in Nat /\ inbound[r] - 1 \in Nat
      BY <1>7, <2>4
    <3> QED BY <1>7, <2>0, <2>4, <3>1
  <2> QED BY <2>1, <2>2, <2>3, <2>4 DEF Commit
<1>10. onHand' \in [Rows -> Nat] /\ held' \in [Rows -> Nat] /\ inbound' \in [Rows -> Nat]
  BY <1>6, <1>9
<1>11. \A z \in Skus \ {s}, l \in Locations :
         /\ onHand'[<<z, l>>] = onHand[<<z, l>>] /\ held'[<<z, l>>] = held[<<z, l>>]
         /\ inbound'[<<z, l>>] = inbound[<<z, l>>]
  BY <1>6, <1>8, <1>9
<1>12. untold' = untold \ {s} /\ t.call \in {"move", "import"}
  BY <1>0, <1>1, <1>5
<1> QED BY <1>0, <1>4, <1>5, <1>6, <1>10, <1>11, <1>12, Moved

-----------------------------------------------------------------------------
(* Changes nobody announces, and the cache's TTL *)

(* A step of the environment, of which no worker knows. *)
LEMMA OutsideStep ==
  ASSUME Inv, UNCHANGED <<sync, task>>, Types', KeepsAll, CacheCause'
  PROVE  Inv'
<1>0. Types /\ UNCHANGED <<outbox, shop, cursor>> /\ \A v \in Workers : Shape(v)
  BY DEF Inv, sync
<1>1. RowsStay
  BY <1>0, SameRows
<1>2. PagingSkipsNothing'
  BY <1>0, SamePages
<1>3. \A v \in Workers : Shape(v)'
  BY <1>0, <1>1, ShapeStays
<1>4. Drift' /\ \A v \in Workers : Drains(v)'
  <2>1. Drift /\ \A v \in Workers : Drains(v)
    BY DEF Inv
  <2> QED BY <1>0, <1>1, <2>1, DrainsStay, DriftStays
<1> QED BY <1>2, <1>3, <1>4 DEF Inv

(* Every SKU changes and none is announced. *)
LEMMA AllUntold ==
  ASSUME untold' = Skus
  PROVE  KeepsAll /\ CacheCause'
BY DEF KeepsAll, Keeps, Cause, CacheCause

(* A location is switched on or off. *)
LEMMA Toggled ==
  ASSUME Inv, NEW w \in Workers, NEW l \in Locations, ToggleLocation(w, l)
  PROVE  Inv'
<1>0. /\ Types /\ active' = [active EXCEPT ![l] = ~ @] /\ untold' = Skus
      /\ UNCHANGED <<onHand, held, inbound, later, cache, sync, task>>
  BY DEF Inv, ToggleLocation
<1>1. active' \in [Locations -> BOOLEAN]
  BY <1>0 DEF Types
<1>2. Types'
  BY <1>0, <1>1 DEF Types, sync
<1> QED BY <1>0, <1>2, AllUntold, OutsideStep

(* A later delivery comes within the horizon. *)
LEMMA HorizonPassed ==
  ASSUME Inv, NEW r \in Rows, HorizonPasses(r)
  PROVE  Inv'
<1>0. /\ Types /\ CacheCause /\ untold' = untold \cup {r[1]}
      /\ UNCHANGED <<onHand, held, active, cache, sync, task>>
      /\ inbound' = [inbound EXCEPT ![r] = @ + later[r]] /\ later' = [later EXCEPT ![r] = 0]
  BY DEF Inv, HorizonPasses
<1>1. r[1] \in Skus
  BY DEF Rows
<1>2. inbound' \in [Rows -> Nat] /\ later' \in [Rows -> Nat]
  <2>1. inbound[r] + later[r] \in Nat
    BY <1>0 DEF Types
  <2> QED BY <1>0, <2>1 DEF Types
<1>3. Types'
  BY <1>0, <1>1, <1>2 DEF Types, sync
<1>4. \A z \in Skus \ {r[1]}, l \in Locations :
        /\ onHand'[<<z, l>>] = onHand[<<z, l>>] /\ held'[<<z, l>>] = held[<<z, l>>]
        /\ inbound'[<<z, l>>] = inbound[<<z, l>>]
  <2>1. \A z \in Skus \ {r[1]}, l \in Locations : <<z, l>> \in Rows /\ <<z, l>> # r
    BY DEF Rows
  <2> QED BY <1>0, <2>1 DEF Types
<1>5. \A z \in Skus \ {r[1]} : NetworkAtp(z)' = NetworkAtp(z)
  BY <1>0, <1>4, AtpSame
<1>6. KeepsAll
  <2> SUFFICES ASSUME NEW z \in Skus, NEW R \in SUBSET DOMAIN outbox
               PROVE  Keeps(z, R)
    BY DEF KeepsAll
  <2>1. CASE z = r[1]
    BY <1>0, <2>1 DEF Keeps, Cause
  <2>2. CASE z # r[1]
    <3>1. (Told(z) => Told(z)') /\ (Waits(z, R) => Waits(z, R)')
      BY <1>0 DEF Told, Waits, Announcing, sync
    <3> QED BY <1>0, <1>5, <2>2, <3>1 DEF Keeps, Cause
  <2> QED BY <2>1, <2>2
<1>7. CacheCause'
  <2> SUFFICES ASSUME NEW z \in Skus
               PROVE  \/ cache'[<<z, Network>>] = None
                      \/ cache'[<<z, Network>>].val = NetworkAtp(z)'
                      \/ z \in untold' \/ \E v \in Workers : Removes(v, <<z, Network>>)'
    BY DEF CacheCause
  <2>1. CASE z = r[1]
    BY <1>0, <2>1
  <2>2. CASE z # r[1]
    <3>1. \A v \in Workers : Removes(v, <<z, Network>>) => Removes(v, <<z, Network>>)'
      BY <1>0 DEF Removes, At
    <3> QED BY <1>0, <1>5, <2>2, <3>1 DEF CacheCause
  <2> QED BY <2>1, <2>2
<1> QED BY <1>0, <1>3, <1>6, <1>7, OutsideStep

(* A cached figure reaches its time to live. *)
LEMMA Expired ==
  ASSUME Inv, NEW k \in Keys, Expire(k)
  PROVE  Inv'
<1>0. /\ Types /\ CacheCause /\ cache' = [cache EXCEPT ![k] = None]
      /\ UNCHANGED <<stock, sync, task, untold>>
  BY DEF Inv, Expire
<1>1. None \in Entry
  BY DEF None, Entry
<1>2. Types'
  BY <1>0, <1>1 DEF Types, sync, stock
<1>3. KeepsAll
  <2> SUFFICES ASSUME NEW z \in Skus, NEW R \in SUBSET DOMAIN outbox
               PROVE  Keeps(z, R)
    BY DEF KeepsAll
  <2>1. NetworkAtp(z)' = NetworkAtp(z)
    BY <1>0, StockSame
  <2>2. (Told(z) => Told(z)') /\ (Waits(z, R) => Waits(z, R)')
    BY <1>0 DEF Told, Waits, Announcing, sync
  <2> QED BY <1>0, <2>1, <2>2 DEF Keeps, Cause
<1>4. CacheCause'
  <2> SUFFICES ASSUME NEW z \in Skus
               PROVE  \/ cache'[<<z, Network>>] = None
                      \/ cache'[<<z, Network>>].val = NetworkAtp(z)'
                      \/ z \in untold' \/ \E v \in Workers : Removes(v, <<z, Network>>)'
    BY DEF CacheCause
  <2>1. PICK x \in Keys : x = <<z, Network>>
    BY DEF Keys
  <2>2. cache'[x] = None \/ cache'[x] = cache[x]
    BY <1>0 DEF Types
  <2>3. NetworkAtp(z)' = NetworkAtp(z)
    BY <1>0, StockSame
  <2>4. \A v \in Workers : Removes(v, x) => Removes(v, x)'
    BY <1>0 DEF Removes, At
  <2> QED BY <1>0, <2>1, <2>2, <2>3, <2>4 DEF CacheCause
<1> QED BY <1>0, <1>2, <1>3, <1>4, OutsideStep

-----------------------------------------------------------------------------
(* importShopify *)

(* A stock import starts. *)
LEMMA ImportStarted ==
  ASSUME Inv, NEW w \in Workers, NEW c \in Channels, StartImport(w, c)
  PROVE  Inv'
<1>0. /\ Types /\ Shape(w) /\ At(w, "idle") /\ ~ Announcing(w)
      /\ UNCHANGED <<stock, cache, sync, untold>>
  BY DEF Inv, StartImport, Serves, Announcing, At
<1>1. PICK u \in Task : u = task[w]
  BY <1>0 DEF Types
<1>2. PICK I \in SUBSET Figure : I = Levels(c)
  <2>1. ASSUME NEW f \in Levels(c) PROVE f \in Figure
    <3>1. PICK s \in Skus : <<c, s>> \in Listed /\ f = <<<<s, c>>, shop[<<c, s>>]>>
      BY <2>1 DEF Levels
    <3>2. shop[<<c, s>>] \in Nat
      BY <1>0, <3>1 DEF Types
    <3> QED BY <3>1, <3>2 DEF Figure
  <2>2. Levels(c) \in SUBSET Figure
    BY <2>1
  <2> QED BY <2>2
<1> DEFINE t == [u EXCEPT !.at = "import", !.call = "import", !.items = I]
<1>3. Acts(w, t)
  <2>1. t \in Task
    BY DEF Task
  <2>2. task' = [task EXCEPT ![w] = t]
    BY <1>0, <1>1, <1>2 DEF StartImport, Types
  <2> QED BY <2>1, <2>2 DEF Acts
<1>4. t.at = "import" /\ t.call = "import"
  BY DEF Task
<1>5. task'[w] = t
  BY <1>0, <1>3, ActsFacts
<1> HIDE DEF t
<1>6. Shape(w)'
  BY <1>4, <1>5 DEF Shape, Announcing, Computing, Draining, At, Mine
<1>7. Drains(w)'
  BY <1>4, <1>5, NoDrain
<1> QED BY <1>0, <1>3, <1>6, <1>7, QuietSame

(* The import takes the level of one listing. *)
LEMMA LevelImported ==
  ASSUME Inv, NEW w \in Workers, NEW item \in task[w].items, ImportLevel(w, item)
  PROVE  Inv'
<1>0. /\ Types /\ Shape(w) /\ At(w, "import") /\ ~ Announcing(w)
      /\ UNCHANGED <<onHand, held, inbound, later, cache, outbox, shop, cursor>>
      /\ active' = [active EXCEPT ![ShopLocation] = TRUE]
      /\ untold' = IF active[ShopLocation] THEN untold ELSE Skus
  BY DEF Inv, ImportLevel, Announcing, At
<1>1. PICK u \in Task : u = task[w] /\ u.call = "import"
  BY <1>0 DEF Types, Shape, At
<1>2. item \in Figure
  BY <1>1, TaskFields
<1>3. PICK s \in Skus : s = item[1][1]
  BY <1>2 DEF Figure
<1>4. PICK d \in Int : d = item[2] - onHand[<<s, ShopLocation>>]
  <2>1. item[2] \in Nat
    BY <1>2 DEF Figure
  <2>2. <<s, ShopLocation>> \in Rows
    BY ChannelSyncAssumption DEF Rows
  <2>3. onHand[<<s, ShopLocation>>] \in Nat
    BY <1>0, <2>2 DEF Types
  <2>4. item[2] - onHand[<<s, ShopLocation>>] \in Int
    BY <2>1, <2>3
  <2> QED BY <2>4
<1>5. PICK I \in SUBSET Figure, K \in SUBSET (Skus \cup Keys) : I = u.items \ {item} /\ K = {s}
  BY TaskFields
<1> DEFINE t == [u EXCEPT !.at = "adjust", !.items = I, !.sku = K, !.delta = d]
<1>6. Acts(w, t)
  <2>1. PICK g : g = [u EXCEPT !.at = "adjust", !.items = I]
    OBVIOUS
  <2>2. g \in Task
    BY <2>1 DEF Task
  <2>3. t = [g EXCEPT !.sku = K, !.delta = d]
    BY <2>1 DEF Task
  <2>4. t \in Task
    <3> HIDE DEF t
    <3> QED BY <2>2, <2>3 DEF Task
  <2>5. task' = [task EXCEPT ![w] = t]
    BY <1>0, <1>1, <1>3, <1>4, <1>5 DEF ImportLevel, Types
  <2> QED BY <2>4, <2>5 DEF Acts
<1>7. t.at = "adjust" /\ t.call = u.call /\ t.sku = {s}
  BY <1>5 DEF Task
<1>8. task'[w] = t /\ task' \in [Workers -> Task]
  BY <1>0, <1>6, ActsFacts
<1> HIDE DEF t
<1>9. Shape(w)'
  BY <1>1, <1>7, <1>8 DEF Shape, Announcing, Computing, Draining, At, Mine
<1>10. Drains(w)'
  BY <1>1, <1>7, <1>8, NoDrain
<1>11. CASE active[ShopLocation]
  <2>1. active' = active
    BY <1>0, <1>11, ChannelSyncAssumption DEF Types
  <2> QED BY <1>0, <1>6, <1>9, <1>10, <1>11, <2>1, QuietSame DEF stock, sync
<1>12. CASE ~ active[ShopLocation]
  <2>1. untold' = Skus /\ UNCHANGED outbox
    BY <1>0, <1>12
  <2>2. Types'
    BY <1>0, <1>8, <2>1 DEF Types
  <2>3. RowsStay /\ PagingSkipsNothing'
    BY <1>0, SameRows, SamePages
  <2> QED BY <1>0, <1>6, <1>9, <1>10, <2>1, <2>2, <2>3, AllUntold, OwnStep
<1> QED BY <1>11, <1>12

(* The import adjusts a row to the level. *)
LEMMA ImportAdjusts ==
  ASSUME Inv, NEW w \in Workers, ImportAdjust(w)
  PROVE  Inv'
<1>0. /\ Types /\ Shape(w) /\ At(w, "adjust") /\ ~ Announcing(w)
      /\ UNCHANGED <<held, inbound, later, active, cache, sync>>
  BY DEF Inv, ImportAdjust, Announcing, At
<1>1. PICK u \in Task : u = task[w] /\ u.call = "import"
  BY <1>0 DEF Types, Shape, At
<1>2. PICK s \in Skus : u.sku = {s}
  BY <1>0, <1>1 DEF Shape
<1>3. (CHOOSE x \in task[w].sku : TRUE) = s
  BY <1>1, <1>2
<1>4. PICK r \in Rows : r = <<s, ShopLocation>>
  BY ChannelSyncAssumption DEF Rows
<1>5. PICK n \in Int : n = onHand[r] + u.delta
  <2>1. onHand[r] \in Nat /\ u.delta \in Int
    BY <1>0, TaskFields DEF Types
  <2>2. onHand[r] + u.delta \in Int
    BY <2>1
  <2> QED BY <2>2
<1>6. \/ u.delta = 0 /\ Go(w, "import") /\ UNCHANGED <<onHand, untold>>
      \/ /\ u.delta # 0 /\ n >= 0 /\ onHand' = [onHand EXCEPT ![r] = n]
         /\ untold' = untold \ {s} /\ Go(w, "scan")
      \/ u.delta # 0 /\ n < 0 /\ End(w) /\ UNCHANGED <<onHand, untold>>
  BY <1>1, <1>3, <1>4, <1>5 DEF ImportAdjust
<1>7. CASE u.delta = 0 /\ Go(w, "import") /\ UNCHANGED <<onHand, untold>>
  <2> DEFINE t == [u EXCEPT !.at = "import"]
  <2>1. Acts(w, t)
    <3>1. t \in Task
      BY DEF Task
    <3>2. task' = [task EXCEPT ![w] = t]
      BY <1>0, <1>1, <1>7 DEF Go, Types
    <3> QED BY <3>1, <3>2 DEF Acts
  <2>2. t.at = "import" /\ t.call = "import"
    BY <1>1 DEF Task
  <2>3. task'[w] = t
    BY <1>0, <2>1, ActsFacts
  <2> HIDE DEF t
  <2>4. Shape(w)'
    BY <2>2, <2>3 DEF Shape, Announcing, Computing, Draining, At, Mine
  <2>5. Drains(w)'
    BY <2>2, <2>3, NoDrain
  <2> QED BY <1>0, <1>7, <2>1, <2>4, <2>5, QuietSame DEF stock
<1>8. CASE /\ n >= 0 /\ onHand' = [onHand EXCEPT ![r] = n]
           /\ untold' = untold \ {s} /\ Go(w, "scan")
  <2> DEFINE t == [u EXCEPT !.at = "scan"]
  <2>1. Acts(w, t)
    <3>1. t \in Task
      BY DEF Task
    <3>2. task' = [task EXCEPT ![w] = t]
      BY <1>0, <1>1, <1>8 DEF Go, Types
    <3> QED BY <3>1, <3>2 DEF Acts
  <2>2. t.at = "scan" /\ t.call \in {"move", "import"} /\ t.sku = {s}
    BY <1>1, <1>2 DEF Task
  <2> HIDE DEF t
  <2>3. /\ onHand' \in [Rows -> Nat] /\ held' \in [Rows -> Nat]
        /\ inbound' \in [Rows -> Nat] /\ later' \in [Rows -> Nat]
    <3>1. n \in Nat
      BY <1>8
    <3> QED BY <1>0, <1>8, <3>1 DEF Types
  <2>4. \A z \in Skus \ {s}, l \in Locations :
          /\ onHand'[<<z, l>>] = onHand[<<z, l>>] /\ held'[<<z, l>>] = held[<<z, l>>]
          /\ inbound'[<<z, l>>] = inbound[<<z, l>>]
    <3>1. \A z \in Skus \ {s}, l \in Locations : <<z, l>> \in Rows /\ <<z, l>> # r
      BY <1>4 DEF Rows
    <3> QED BY <1>0, <1>8, <3>1 DEF Types
  <2> QED BY <1>0, <1>8, <2>1, <2>2, <2>3, <2>4, Moved
<1>9. CASE End(w) /\ UNCHANGED <<onHand, untold>>
  BY <1>0, <1>9, QuietEnd DEF stock
<1> QED BY <1>6, <1>7, <1>8, <1>9

(* The import ends. *)
LEMMA ImportEnds ==
  ASSUME Inv, NEW w \in Workers, EndImport(w)
  PROVE  Inv'
BY QuietEnd DEF EndImport, Announcing, At

-----------------------------------------------------------------------------
(* The invariant holds *)

(* Everything published is right before anything moves. *)
LEMMA InvInit == Init => Inv
<1> SUFFICES ASSUME Init PROVE Inv
  OBVIOUS
<1>1. Types
  <2>1. None \in Entry /\ Idle \in Task
    BY IdleTask DEF None, Entry
  <2>2. shop \in [Listed -> Nat]
    BY ChannelSyncAssumption DEF Init
  <2>3. outbox \in Seq(OutboxRow)
    BY DEF Init
  <2> QED BY <2>1, <2>2, <2>3, ChannelSyncAssumption DEF Init, Types
<1>2. PagingSkipsNothing
  BY DEF Init, PagingSkipsNothing, Visible
<1>3. CacheCause
  BY DEF Init, CacheCause, Keys
<1>4. \A w \in Workers : task[w] = Idle
  BY DEF Init
<1>5. \A w \in Workers : Shape(w)
  BY <1>4, IdleTask DEF Shape, Announcing, Computing, Draining, At, Mine
<1>6. \A w \in Workers : Drains(w)
  BY <1>4, IdleTask DEF Drains, Figures, Collected, Pushed, Draining, At
<1>7. Drift
  <2> SUFFICES ASSUME NEW x \in Listed, shop[x] # NetworkAtp(x[2]) PROVE x[2] \in untold
    BY DEF Drift, Cause
  <2>1. x[2] \in Skus
    BY ChannelSyncAssumption
  <2> QED BY <2>1 DEF Init
<1> QED BY <1>1, <1>2, <1>3, <1>5, <1>6, <1>7 DEF Inv

(* Every step of a started task keeps the invariant. *)
LEMMA InvContinue ==
  ASSUME Inv, NEW w \in Workers, Continue(w)
  PROVE  Inv'
<1>1. CASE ScanKeys(w) \/ DeleteKeys(w) \/ InsertOutbox(w) \/ RowVisible(w)
  BY <1>1, KeysScanned, KeysDeleted, RowInserted, RowAppears
<1>2. CASE \E k \in Keys : ReadCache(w, k)
  BY <1>2, CacheRead
<1>3. CASE ReadSnapshots(w) \/ ReadInbound(w) \/ SetCache(w) \/ EndRead(w)
  BY <1>3, SnapshotsRead, InboundRead, CacheSet, ReadEnds
<1>4. CASE StartPublishing(w) \/ MarkPublished(w)
  BY <1>4, PublishingStarted, RowsMarked
<1>5. CASE \E p \in task[w].pushes : PushItem(w, p[1], p[2])
  BY <1>5, ItemPushed
<1>6. CASE \E i \in task[w].items : ImportLevel(w, i)
  BY <1>6, LevelImported
<1>7. CASE ImportAdjust(w) \/ EndImport(w)
  BY <1>7, ImportAdjusts, ImportEnds
<1> QED BY <1>1, <1>2, <1>3, <1>4, <1>5, <1>6, <1>7 DEF Continue

(* Every step keeps the invariant. *)
LEMMA InvNext == Inv /\ [Next]_vars => Inv'
<1> SUFFICES ASSUME Inv, [Next]_vars PROVE Inv'
  OBVIOUS
<1>1. CASE UNCHANGED vars
  <2>1. UNCHANGED <<stock, sync, cache, task, untold>>
    BY <1>1 DEF vars, stock, sync
  <2>2. Types'
    BY <2>1 DEF Inv, Types, stock, sync
  <2>3. KeepsAll
    <3> SUFFICES ASSUME NEW z \in Skus, NEW R \in SUBSET DOMAIN outbox
                 PROVE  Keeps(z, R)
      BY DEF KeepsAll
    <3>1. NetworkAtp(z)' = NetworkAtp(z)
      BY <2>1, StockSame
    <3>2. (Told(z) => Told(z)') /\ (Waits(z, R) => Waits(z, R)')
      BY <2>1 DEF Told, Waits, Announcing, sync
    <3> QED BY <2>1, <3>1, <3>2 DEF Keeps, Cause
  <2>4. CacheCause'
    <3>1. \A z \in Skus : NetworkAtp(z)' = NetworkAtp(z)
      BY <2>1, StockSame
    <3>2. \A v \in Workers, z \in Skus : Removes(v, <<z, Network>>) => Removes(v, <<z, Network>>)'
      BY <2>1 DEF Removes, At
    <3> QED BY <2>1, <3>1, <3>2 DEF Inv, CacheCause
  <2> QED BY <2>1, <2>2, <2>3, <2>4, OutsideStep
<1>2. ASSUME NEW w \in Workers, Continue(w) PROVE Inv'
  BY <1>2, InvContinue
<1>3. ASSUME NEW w \in Workers, StartDrain(w) PROVE Inv'
  BY <1>3, DrainStarted
<1>4. ASSUME NEW w \in Workers, NEW r \in Rows, Commit(w, r) PROVE Inv'
  BY <1>4, Committed
<1>5. ASSUME NEW w \in Workers, NEW l \in Locations, ToggleLocation(w, l) PROVE Inv'
  BY <1>5, Toggled
<1>6. ASSUME NEW w \in Workers, (\E k \in Viewed : View(w, k)) \/ InventoryFeed(w) PROVE Inv'
  BY <1>6, Views
<1>7. ASSUME NEW w \in Workers, ChangesSince(w) PROVE Inv'
  BY <1>7, PageTaken
<1>8. ASSUME NEW w \in Workers, NEW c \in Channels, StartImport(w, c) PROVE Inv'
  BY <1>8, ImportStarted
<1>9. ASSUME NEW w \in Workers, InsertFails(w) \/ PushFails(w) \/ Crash(w) PROVE Inv'
  BY <1>9, InsertGivenUp, PushesFail, Crashes
<1>10. ASSUME NEW r \in Rows, HorizonPasses(r) PROVE Inv'
  BY <1>10, HorizonPassed
<1>11. ASSUME NEW k \in Keys, Expire(k) PROVE Inv'
  BY <1>11, Expired
<1> QED BY <1>1, <1>2, <1>3, <1>4, <1>5, <1>6, <1>7, <1>8, <1>9, <1>10, <1>11 DEF Next

(* Every reachable state of the cache, the outbox, the feed and the drains  *)
(* satisfies the inductive invariant, for any number of workers, SKUs,      *)
(* locations and channels, any page and batch size.                         *)
THEOREM SpecInv == Spec => []Inv
<1>1. Init => Inv
  BY InvInit
<1>2. Inv /\ [Next]_vars => Inv'
  BY InvNext
<1> QED BY <1>1, <1>2, PTL DEF Spec

(* The feed's cursor never runs ahead of the outbox. *)
CursorFound == cursor <= Len(outbox)

(* An interval from 1 determines its end. *)
LEMMA SameLength ==
  ASSUME NEW m \in Nat, NEW n \in Nat, 1 .. m = 1 .. n
  PROVE  m = n
<1>1. ~ m < n
  <2> SUFFICES ASSUME m < n PROVE FALSE
    OBVIOUS
  <2>1. n \in 1 .. n /\ n \notin 1 .. m
    OBVIOUS
  <2> QED BY <2>1
<1>2. ~ n < m
  <2> SUFFICES ASSUME n < m PROVE FALSE
    OBVIOUS
  <2>1. m \in 1 .. m /\ m \notin 1 .. n
    OBVIOUS
  <2> QED BY <2>1
<1> QED BY <1>1, <1>2

(* Every step leaves the cursor at a row that was there. *)
LEMMA CursorStep ==
  ASSUME Inv, Inv', CursorFound, [Next]_vars
  PROVE  CursorFound'
<1>0. /\ Types /\ Types' /\ cursor \in Nat /\ Len(outbox) \in Nat /\ Len(outbox') \in Nat
      /\ DOMAIN outbox = 1 .. Len(outbox) /\ DOMAIN outbox' = 1 .. Len(outbox')
      /\ outbox' \in Seq(OutboxRow)
  <2>1. Types /\ Types'
    BY DEF Inv
  <2>2. outbox \in Seq(OutboxRow) /\ outbox' \in Seq(OutboxRow) /\ cursor \in Nat
    BY <2>1 DEF Types
  <2> QED BY <2>1, <2>2, LenProperties
<1>1. CASE cursor' = cursor /\ DOMAIN outbox' = DOMAIN outbox
  <2>1. Len(outbox') = Len(outbox)
    BY <1>0, <1>1, SameLength
  <2> QED BY <1>1, <2>1 DEF CursorFound
<1>2. ASSUME NEW w \in Workers, InsertOutbox(w) PROVE CursorFound'
  <2>1. PICK o : cursor' = cursor /\ outbox' = Append(outbox, o)
    BY <1>2 DEF InsertOutbox
  <2>2. Len(outbox') = Len(outbox) + 1
    BY <1>0, <2>1 DEF Types
  <2> QED BY <1>0, <2>1, <2>2 DEF CursorFound
<1>3. ASSUME NEW w \in Workers, ChangesSince(w) PROVE CursorFound'
  <2>1. PICK S \in SUBSET DOMAIN outbox : S = { i \in Visible : i > cursor }
    BY DEF Visible
  <2>2. PICK B \in SUBSET S : B = FirstOf(S, PageLimit)
    BY DEF FirstOf
  <2>3. B # {} /\ cursor' = Max(B) /\ DOMAIN outbox' = DOMAIN outbox
    BY <1>3, <2>1, <2>2 DEF ChangesSince
  <2>4. PICK n \in Nat : n = Len(outbox) /\ B \in SUBSET (1 .. n)
    BY <1>0, <2>2
  <2>5. cursor' \in 1 .. n
    BY <2>3, <2>4, Newest
  <2>6. Len(outbox') = n
    BY <1>0, <2>3, <2>4, SameLength
  <2> QED BY <2>5, <2>6 DEF CursorFound
<1>4. ASSUME NEW w \in Workers, RowVisible(w) \/ MarkPublished(w) PROVE CursorFound'
  BY <1>1, <1>4 DEF RowVisible, MarkPublished, Mark
<1>5. ASSUME UNCHANGED <<outbox, cursor>> PROVE CursorFound'
  BY <1>1, <1>5
<1>6. ASSUME NEW w \in Workers, Continue(w) PROVE CursorFound'
  BY <1>2, <1>4, <1>5, <1>6 DEF Continue, sync, ScanKeys, DeleteKeys, ReadCache, ReadSnapshots,
     ReadInbound, SetCache, EndRead, StartPublishing, PushItem, ImportLevel, ImportAdjust,
     EndImport
<1>7. CASE Next
  BY <1>3, <1>5, <1>6, <1>7 DEF Next, sync, StartDrain, Commit, ToggleLocation, View,
     InventoryFeed, StartImport, InsertFails, PushFails, Crash, HorizonPasses, Expire
<1> QED BY <1>5, <1>7 DEF vars

(* Committed stock never goes below zero and stays integral, every cached   *)
(* figure is a number of units, a row's status is one the schema knows, and *)
(* the feed's cursor never runs ahead of the outbox.                        *)
THEOREM SpecTypeOK == Spec => []TypeOK
<1>1. Init => CursorFound
  BY DEF Init, CursorFound
<1>2. Inv /\ Inv' /\ CursorFound /\ [Next]_vars => CursorFound'
  BY CursorStep
<1>3. Inv /\ CursorFound => TypeOK
  <2> SUFFICES ASSUME Inv, CursorFound PROVE TypeOK
    OBVIOUS
  <2>1. Types
    BY DEF Inv
  <2>2. cursor \in 0 .. Len(outbox)
    BY <2>1, OutboxFacts DEF Types, CursorFound
  <2>3. \A k \in Keys : cache[k].val \in Nat
    BY <2>1 DEF Types, Entry
  <2> QED BY <2>1, <2>2, <2>3, OutboxFacts DEF Types, TypeOK
<1> QED BY <1>1, <1>2, <1>3, SpecInv, PTL DEF Spec

(* changesSince never pages past a change: whatever row is visible at or    *)
(* below StockShield's cursor was on a page, unless it became visible       *)
(* behind the cursor, for every page size and any interleaving of inserts.  *)
THEOREM SpecPagingSkipsNothing == Spec => []PagingSkipsNothing
<1>1. Inv => PagingSkipsNothing
  BY DEF Inv
<1> QED BY <1>1, SpecInv, PTL

(* A channel shows another figure than the OMS only for a cause: the change *)
(* is being announced, waits in the outbox, was never announced, a reader   *)
(* cached an outdated figure over it, or two drains had rows of the SKU at  *)
(* the same time (the queue's and POST /sync/drain's).  Crashes, failed     *)
(* pushes, collapsed rows and rows that arrive during a drain add none.     *)
THEOREM SpecDriftHasCause == Spec => []DriftHasCause
<1>1. Inv => DriftHasCause
  <2> SUFFICES ASSUME Inv, NEW x \in Listed, shop[x] # NetworkAtp(x[2]),
                      x[2] \notin untold
               PROVE  Announced(x[2])
    BY DEF DriftHasCause
  <2>1. Told(x[2]) \/ Waits(x[2], {})
    BY DEF Inv, Drift, Cause
  <2> QED BY <2>1 DEF Told, Waits, Announcing, Announced, At
<1> QED BY <1>1, SpecInv, PTL
=============================================================================
