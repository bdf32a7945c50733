---------------------------- MODULE ConsoleProofs ----------------------------
(***************************************************************************)
(* Proofs about the web console, for any credentials, processes, scenarios *)
(* and order of answers: the stored credentials are the ones on the        *)
(* screen, what a gate offers the guard allows, an event is delivered      *)
(* once, and the watched query is current unless an update escaped it.     *)
(*                                                                         *)
(* Four inductive invariants, each resting on the ones before: the         *)
(* session, the click under way, the ids of events under way, and what the *)
(* data held by the tab may lack.                                          *)
(***************************************************************************)
EXTENDS Console, FiniteSetTheorems, TLAPS

(* What localStorage or the screen may hold. *)
Sessions ==
  { s \in [cred : Credentials, role : Roles] : s.role \in {"READ_ONLY", s.cred.role} }

Load == [base : Sessions, verdict : {"", "ok", "401"}]

(* A staged key is the one stored session the screen does not show. *)
SessionInv ==
  /\ store \in Sessions \cup {None} /\ react \in Sessions \cup {None}
  /\ signin \in SignIn \cup {None}
  /\ loading \in Load \cup {None}
  /\ store # None => react = store \/ (react = None /\ signin # None)

-----------------------------------------------------------------------------
(* A click under way was offered to the credential it is sent with. *)
ButtonRow ==
  [path : {"/", "/channels", "/admin"}, min : Roles,
   write : DOMAIN EventOf \cup {"none"}, refreshes : SUBSET Queries]
PageRow ==
  [cred : Credentials \cup {None}, button : ButtonRow,
   verdict : {"", "ok", "401", "403"}, version : Nat]

Gated(b) ==
  b.min # Ungated /\ b.path \in {"/admin", "/channels"} => b.min = "ADMIN"
PageInv ==
  /\ page \in PageRow \cup {None}
  /\ page # None =>
       /\ Gated(page.button)
       /\ page.cred # None => RANK[page.cred.role] >= RANK[page.button.min]
       /\ page.button.min # Ungated => page.verdict # "403"

-----------------------------------------------------------------------------
(* An event is in one place on its way: to be published, in Redis from      *)
(* another process, on the stream, or heard.                                *)
EventIds == {"other", "own"} \X Nat
EventRow ==
  [id : EventIds, tenant : Tenants, type : {"order.status", "inventory.atp"},
   src : Procs]

Ids(s, P) == { s[i].id : i \in { j \in DOMAIN s : s[j].src \in P } }
Distinct(s, P) ==
  \A i, j \in DOMAIN s :
    s[i].src \in P /\ s[j].src \in P /\ s[i].id = s[j].id => i = j

Pending(p) == Ids(pend[p], Procs)
Foreign == Ids(inbox, Procs \ {Api})
Streamed == Ids(tabIn, Procs)
Heard == { heard[i] : i \in DOMAIN heard }

QueueTypes ==
  /\ budget \in [user : Nat, writes : Nat] /\ watched \in Queries
  /\ pend \in [Procs -> Seq(EventRow)]
  /\ inbox \in Seq(EventRow) /\ tabIn \in Seq(EventRow) /\ heard \in Seq(EventIds)
  /\ \A p \in Procs : \A i \in DOMAIN pend[p] : pend[p][i].src = p

OncePlaced ==
  /\ \A p \in Procs : Distinct(pend[p], Procs)
  /\ Distinct(inbox, Procs \ {Api}) /\ Distinct(tabIn, Procs)
  /\ \A i, j \in DOMAIN heard : heard[i] = heard[j] => i = j
Disjoint ==
  /\ \A p, q \in Procs : p # q => Pending(p) \cap Pending(q) = {}
  /\ \A p \in Procs : Pending(p) \cap (Foreign \cup Streamed \cup Heard) = {}
  /\ Foreign \cap (Streamed \cup Heard) = {}
  /\ Streamed \cap Heard = {}

(* The ids given out so far; the next one of a click is that of the budget  *)
(* it will be served under.                                                 *)
Used(x) ==
  \/ x[1] = "other" /\ x[2] > budget.writes
  \/ /\ x[1] = "own" /\ x[2] >= budget.user
     /\ page # None /\ page.verdict = "" => x[2] > budget.user
UsedInv ==
  /\ \A p \in Procs : \A x \in Pending(p) : Used(x)
  /\ \A x \in Foreign \cup Streamed \cup Heard : Used(x)

OnceInv == QueueTypes /\ OncePlaced /\ Disjoint /\ UsedInv

-----------------------------------------------------------------------------
(* What the tab holds is current, or news of the rest is on its way. *)
DataRow == [tenant : Tenants, version : Nat]
FetchRow == [at : {"idle", "sent", "answered", "retry"}, cred : Credentials \cup {None},
             tries : 0 .. 2, data : DataRow \cup {None}]
IsNews(e, t, w) == e.tenant = t /\ w \in INVALIDATIONS[e.type]
HasNews(s, P, t, w) == \E i \in DOMAIN s : s[i].src \in P /\ IsNews(s[i], t, w)
NewsFor(t) ==
  \/ \E p \in Procs : HasNews(pend[p], Procs, t, watched)
  \/ HasNews(inbox, Procs \ {Api}, t, watched)
  \/ HasNews(tabIn, Procs, t, watched)
Awaited(f) == f.at \in {"sent", "retry"}
Latest == IF fetch.at = "answered" THEN fetch.data ELSE cache
Holding ==
  /\ conn # None /\ ~ missed /\ ~ Awaited(fetch)
  /\ Latest # None /\ Latest.tenant = conn.cred.tenant

TabTypes ==
  /\ db \in [Tenants -> Nat]
  /\ conn \in Streams \cup {None}
  /\ conn = None <=> react = None
  /\ fetch \in FetchRow
  /\ cache \in DataRow \cup {None}
  /\ own \in Nat /\ missed \in BOOLEAN
FreshInv ==
  Holding => Latest.version = db[conn.cred.tenant] \/ NewsFor(conn.cred.tenant)
OwnInv ==
  /\ page # None /\ page.verdict = "ok" =>
       page.cred \in Credentials /\ page.version <= db[page.cred.tenant]
  /\ conn # None => own <= db[conn.cred.tenant]
  /\ Holding => Latest.version >= own

ConsoleInv ==
  SessionInv /\ PageInv /\ OnceInv /\ TabTypes /\ FreshInv /\ OwnInv

-----------------------------------------------------------------------------
(* The session *)

(* A session made of a credential and one of the two roles it may show. *)
LEMMA ShownSession ==
  ASSUME NEW c \in Credentials, NEW role \in {"READ_ONLY", c.role}
  PROVE  Shown(c, role) \in Sessions
<1>1. role \in Roles
  BY ConsoleAssumption DEF Roles
<1> QED BY <1>1 DEF Shown, Sessions

(* Every step that leaves the session alone. *)
LEMMA SessionKept ==
  ASSUME SessionInv, UNCHANGED <<react, signin, loading>>, store' \in {store, None}
  PROVE  SessionInv'
  BY DEF SessionInv

(* Both copies set to one session, or cleared. *)
LEMMA SessionSet ==
  ASSUME NEW s \in Sessions \cup {None}, SetBoth(s), signin' \in SignIn \cup {None},
         loading' \in Load \cup {None}
  PROVE  SessionInv'
  BY DEF SessionInv, SetBoth

(* The stored session is the one shown, unless it is a key being staged:    *)
(* signing in or out, a page load answered late, or a reload at any moment. *)
LEMMA SessionNext ==
  ASSUME SessionInv, [Next]_vars
  PROVE  SessionInv'
<1>1. ASSUME NEW c \in Credentials, SubmitSignIn(c) PROVE SessionInv'
  <2>1. Shown(c, "READ_ONLY") \in Sessions
    BY ShownSession
  <2>2. [cred |-> c, verdict |-> ""] \in SignIn
    BY DEF SignIn
  <2>3. signin' \in SignIn /\ signin' # None /\ store' \in {store, Shown(c, "READ_ONLY")}
    BY <1>1, <2>2, ConsoleAssumption DEF SubmitSignIn
  <2>4. UNCHANGED <<react, loading>> /\ react = None
    BY <1>1 DEF SubmitSignIn
  <2> QED BY <2>1, <2>3, <2>4 DEF SessionInv
<1>2. CASE ServeSignIn
  <2>1. PICK v \in {"ok", "401"} : signin' = [signin EXCEPT !.verdict = v]
    BY <1>2 DEF ServeSignIn
  <2>2. signin \in SignIn /\ UNCHANGED <<store, react, loading>>
    BY <1>2 DEF ServeSignIn, SessionInv
  <2>3. signin' \in SignIn
    BY <2>1, <2>2 DEF SignIn
  <2> QED BY <2>2, <2>3, ConsoleAssumption DEF SessionInv
<1>3. CASE EndSignIn
  <2>1. signin \in SignIn /\ signin' = None /\ UNCHANGED loading
    BY <1>3 DEF EndSignIn, SessionInv
  <2>2. Shown(signin.cred, signin.cred.role) \in Sessions
    BY <2>1, ShownSession DEF SignIn
  <2>3. CASE store' = None /\ UNCHANGED react
    BY <2>1, <2>3 DEF SessionInv
  <2>4. CASE SetBoth(None) \/ SetBoth(Shown(signin.cred, signin.cred.role))
    BY <2>1, <2>2, <2>4, SessionSet DEF SessionInv
  <2> QED BY <1>3, <2>3, <2>4 DEF EndSignIn
<1>4. CASE Logout
  BY <1>4, SessionSet DEF Logout, SessionInv
<1>5. CASE Reload
  <2>1. /\ react' = store /\ store' = store /\ signin' = None
        /\ loading' \in Load \cup {None}
    BY <1>5 DEF Reload, Load, SessionInv
  <2> QED BY <2>1 DEF SessionInv
<1>6. CASE ServeLoading
  <2>1. PICK v \in {"ok", "401"} : loading' = [loading EXCEPT !.verdict = v]
    BY <1>6 DEF ServeLoading
  <2>2. loading \in Load /\ UNCHANGED <<store, react, signin>>
    BY <1>6 DEF ServeLoading, SessionInv
  <2>3. loading' \in Load
    BY <2>1, <2>2 DEF Load
  <2> QED BY <2>2, <2>3 DEF SessionInv
<1>7. CASE EndLoading
  <2>1. loading.base \in Sessions /\ loading' = None /\ UNCHANGED signin
    BY <1>7 DEF EndLoading, SessionInv, Load
  <2>2. Shown(loading.base.cred, loading.base.cred.role) \in Sessions
    BY <2>1, ShownSession DEF Sessions
  <2>3. CASE UNCHANGED <<store, react>>
    BY <2>1, <2>3 DEF SessionInv
  <2>4. CASE SetBoth(None) \/ SetBoth(Shown(loading.base.cred, loading.base.cred.role))
    BY <2>1, <2>2, <2>4, SessionSet DEF SessionInv
  <2> QED BY <1>7, <2>3, <2>4 DEF EndLoading
<1>8. ASSUME \/ \E c \in Credentials : SetActive(c) \/ TokenExpires(c)
             \/ \E p \in Procs : \/ \E t \in Tenants, k \in DOMAIN EventOf : Write(p, t, k)
                                 \/ Publish(p)
             \/ OnRedisMessage \/ StreamUp \/ StreamBreaks \/ TabReceives \/ FetchServed
             \/ FetchArrives \/ FetchRetries \/ ServeClick \/ EndClick
             \/ \E b \in Buttons : Click(b)
             \/ UNCHANGED vars
      PROVE  SessionInv'
  <2>1. UNCHANGED <<react, signin, loading>> /\ store' \in {store, None}
    BY <1>8 DEF SetActive, TokenExpires, Write, Publish, OnRedisMessage, StreamUp,
                StreamBreaks, TabReceives, FetchServed, FetchArrives, FetchRetries, ServeClick,
                EndClick, Click, vars, session
  <2> QED BY <2>1, SessionKept
<1> QED BY <1>1, <1>2, <1>3, <1>4, <1>5, <1>6, <1>7, <1>8 DEF Next

(* What localStorage has at first is what is shown. *)
LEMMA SessionInit == Init => SessionInv
<1> SUFFICES ASSUME Init PROVE SessionInv
  OBVIOUS
<1>1. PICK s \in Scenarios : store = s.store
  BY DEF Init
<1>2. store \in Sessions \cup {None}
  BY <1>1, ConsoleAssumption, ShownSession DEF Shown
<1> QED BY <1>2 DEF Init, SessionInv, Load

(* The session invariant, by itself. *)
THEOREM SessionInvariance == Spec => []SessionInv
BY SessionInit, SessionNext, PTL DEF Spec

(* AuthContext.tsx:53-61: requests and screen speak for the same person     *)
(* whenever no sign-in is under way.                                        *)
THEOREM StoreShown == Spec => []StoreIsShown
<1>1. SessionInv => StoreIsShown
  BY DEF SessionInv, StoreIsShown
<1> QED BY <1>1, SessionInvariance, PTL

-----------------------------------------------------------------------------
(* Gates and guard *)

(* The buttons of the pages; those of the channels page ask for an ADMIN,   *)
(* as the guard does.                                                       *)
LEMMA ButtonsTyped ==
  ASSUME NEW b \in Buttons
  PROVE  b \in ButtonRow /\ Gated(b)
<1>1. ASSUME NEW path \in {"/", "/channels", "/admin"}, NEW min \in Roles,
             NEW k \in DOMAIN EventOf \cup {"none"}, NEW rs \in SUBSET Queries,
             min = Ungated \/ path = "/" \/ min = "ADMIN", b = Button(path, min, k, rs)
      PROVE  b \in ButtonRow /\ Gated(b)
  BY <1>1 DEF Button, ButtonRow, Gated
<1>2. /\ "OPERATOR" \in Roles /\ "ADMIN" \in Roles /\ Ungated \in Roles
      /\ {"orders", "report"} \in SUBSET Queries /\ {"orders"} \in SUBSET Queries
      /\ {"report"} \in SUBSET Queries /\ {"snapshots", "report"} \in SUBSET Queries
      /\ {"snapshots"} \in SUBSET Queries /\ {} \in SUBSET Queries
      /\ {"transition", "source", "movement", "create", "repair"} \subseteq DOMAIN EventOf
  BY DEF Roles, Ungated, Queries, EventOf
<1>3. CASE b \in OrderButtons \cup CreateOrderButton \cup CreateReturnButton
                   \cup ShipmentButtons \cup ReturnButtons
  BY <1>1, <1>2, <1>3 DEF OrderButtons, CreateOrderButton, CreateReturnButton,
                          ShipmentButtons, ReturnButtons
<1>4. CASE b \in InventoryButtons \cup TransferButton \cup SkuButtons
                   \cup LocationButtons \cup RuleButtons \cup DrainButton
  BY <1>1, <1>2, <1>4 DEF InventoryButtons, TransferButton, SkuButtons, LocationButtons,
                          RuleButtons, DrainButton
<1>5. CASE b \in ChannelButtons \cup ImportButton \cup KeyButtons
                   \cup RepairButton \cup AskButton
  BY <1>1, <1>2, <1>5 DEF ChannelButtons, ImportButton, KeyButtons, RepairButton,
                          AskButton
<1> QED BY <1>3, <1>4, <1>5 DEF Buttons

(* The ranks: a role that passes a gate is no READ_ONLY, and is an ADMIN    *)
(* where the gate asks for one.                                             *)
LEMMA GateMeansGuard ==
  ASSUME NEW role \in Roles, NEW b \in ButtonRow, Gated(b), b.min # Ungated,
         RANK[role] >= RANK[b.min]
  PROVE  Permits(role, b)
  BY DEF RANK, Roles, ButtonRow, Gated, Ungated, Permits

(* A session never ranks above its credential. *)
LEMMA ShownRank ==
  ASSUME NEW s \in Sessions
  PROVE  RANK[s.cred.role] >= RANK[s.role] /\ RANK[s.role] \in Nat
         /\ RANK[s.cred.role] \in Nat
<1>1. s.cred.role \in Roles /\ s.role \in {"READ_ONLY", s.cred.role}
  BY ConsoleAssumption DEF Sessions
<1> QED BY <1>1 DEF RANK, Roles

(* A click on its way is one that its credential is allowed, or that no     *)
(* gate offered.                                                            *)
LEMMA PageNext ==
  ASSUME SessionInv, watched \in Queries, db' \in [Tenants -> Nat], PageInv, [Next]_vars
  PROVE  PageInv'
<1>1. ASSUME NEW b \in Buttons, Click(b) PROVE PageInv'
  <2>1. b \in ButtonRow /\ Gated(b)
    BY ButtonsTyped
  <2>2. PICK bb : bb = [b EXCEPT !.refreshes = @ \cap {watched}]
    OBVIOUS
  <2>3. bb \in ButtonRow /\ bb.min = b.min /\ Gated(bb)
    BY <2>1, <2>2 DEF ButtonRow, Gated
  <2>4. PICK c \in Credentials \cup {None} : c = IF store = None THEN None ELSE store.cred
    BY DEF SessionInv, Sessions
  <2>5. page' = [cred |-> c, button |-> bb, verdict |-> "", version |-> 0]
    BY <1>1, <2>2, <2>4 DEF Click
  <2>6. /\ page' \in PageRow /\ page'.cred = c /\ page'.button = bb
        /\ page'.verdict = ""
    BY <2>3, <2>5 DEF PageRow
  <2>7. c # None => RANK[c.role] >= RANK[b.min]
    <3>1. SUFFICES ASSUME c # None PROVE RANK[c.role] >= RANK[b.min]
      OBVIOUS
    <3>2. react = store /\ store \in Sessions /\ c = store.cred
      BY <1>1, <2>4, <3>1 DEF Click, SessionInv
    <3>3. RANK[store.role] >= RANK[b.min]
      BY <1>1, <3>2 DEF Click, Offers
    <3>4. RANK[b.min] \in Nat
      BY <2>1 DEF ButtonRow, RANK, Roles
    <3> QED BY <3>2, <3>3, <3>4, ShownRank
  <2> QED BY <2>3, <2>6, <2>7 DEF PageInv
<1>2. CASE ServeClick
  <2>1. page \in PageRow /\ Gated(page.button) /\ page # None
    BY <1>2 DEF ServeClick, PageInv
  <2>2. PICK v \in {"ok", "401", "403"}, n \in Nat :
          /\ page' = [page EXCEPT !.verdict = v, !.version = n]
          /\ v = "403" => Accepts(page.cred) /\ ~ Permits(page.cred.role, page.button)
    <3> DEFINE c == page.cred
               g == Accepts(c) /\ Permits(c.role, page.button)
               v == IF ~ Accepts(c) THEN "401" ELSE IF g THEN "ok" ELSE "403"
               n == IF g THEN db'[c.tenant] ELSE 0
    <3>1. v \in {"ok", "401", "403"} /\ (v = "403" => Accepts(c) /\ ~ Permits(c.role, page.button))
      OBVIOUS
    <3>2. n \in Nat
      <4>1. g => c.tenant \in Tenants
        BY <2>1, ConsoleAssumption DEF PageRow, Accepts
      <4> QED BY <4>1
    <3>3. page' = [page EXCEPT !.verdict = v, !.version = n]
      BY <1>2 DEF ServeClick
    <3> QED BY <3>1, <3>2, <3>3
  <2>3. /\ page' \in PageRow /\ page'.button = page.button /\ page'.cred = page.cred
        /\ page'.verdict = v
    BY <2>1, <2>2 DEF PageRow
  <2>4. page.button.min # Ungated => v # "403"
    <3>1. SUFFICES ASSUME page.button.min # Ungated, v = "403" PROVE FALSE
      OBVIOUS
    <3>2. page.cred \in Credentials /\ ~ Permits(page.cred.role, page.button)
      BY <2>1, <2>2, <3>1 DEF PageRow, Accepts
    <3>3. RANK[page.cred.role] >= RANK[page.button.min]
      BY <2>1, <3>2, ConsoleAssumption DEF PageInv
    <3> QED BY <2>1, <3>1, <3>2, <3>3, GateMeansGuard, ConsoleAssumption DEF PageRow
  <2> QED BY <2>1, <2>3, <2>4 DEF PageInv
<1>3. CASE page' \in {page, None}
  BY <1>3 DEF PageInv
<1>4. ASSUME \/ \E c \in Credentials : SetActive(c) \/ TokenExpires(c) \/ SubmitSignIn(c)
             \/ ServeSignIn \/ EndSignIn \/ Logout \/ Reload \/ ServeLoading \/ EndLoading
             \/ \E p \in Procs : \/ \E t \in Tenants, k \in DOMAIN EventOf : Write(p, t, k)
                                 \/ Publish(p)
             \/ OnRedisMessage \/ StreamUp \/ StreamBreaks \/ TabReceives \/ FetchServed
             \/ FetchArrives \/ FetchRetries \/ EndClick \/ UNCHANGED vars
      PROVE  page' \in {page, None}
  BY <1>4 DEF SetActive, TokenExpires, SubmitSignIn, ServeSignIn, EndSignIn, Logout, Reload,
              ServeLoading, EndLoading, Write, Publish, OnRedisMessage, StreamUp,
              StreamBreaks, TabReceives, FetchServed, FetchArrives, FetchRetries, EndClick, vars
<1> QED BY <1>1, <1>2, <1>3, <1>4 DEF Next

-----------------------------------------------------------------------------
(* Events under way *)

(* An event joins the end of a queue. *)
LEMMA AppendIds ==
  ASSUME NEW s \in Seq(EventRow), NEW e \in EventRow, NEW P
  PROVE  /\ Append(s, e) \in Seq(EventRow)
         /\ Ids(Append(s, e), P) = Ids(s, P) \cup (IF e.src \in P THEN {e.id} ELSE {})
         /\ Distinct(s, P) /\ (e.src \in P => e.id \notin Ids(s, P))
              => Distinct(Append(s, e), P)
<1>1. PICK t : t = Append(s, e)
  OBVIOUS
<1>2. /\ t \in Seq(EventRow) /\ DOMAIN t = DOMAIN s \cup {Len(s) + 1}
      /\ Len(s) + 1 \notin DOMAIN s
      /\ t[Len(s) + 1] = e /\ \A i \in DOMAIN s : t[i] = s[i]
  BY <1>1
<1>3. Ids(t, P) = Ids(s, P) \cup (IF e.src \in P THEN {e.id} ELSE {})
  BY <1>2 DEF Ids
<1>4. ASSUME Distinct(s, P), e.src \in P => e.id \notin Ids(s, P)
      PROVE  Distinct(t, P)
  BY <1>2, <1>4 DEF Ids, Distinct
<1> QED BY <1>1, <1>2, <1>3, <1>4

(* The first event leaves it. *)
LEMMA TailIds ==
  ASSUME NEW s \in Seq(EventRow), s # << >>, NEW P
  PROVE  /\ Head(s) \in EventRow /\ Tail(s) \in Seq(EventRow)
         /\ Ids(Tail(s), P) \subseteq Ids(s, P)
         /\ Distinct(s, P) => Distinct(Tail(s), P)
         /\ Head(s).src \in P =>
              /\ Head(s).id \in Ids(s, P)
              /\ Distinct(s, P) => Head(s).id \notin Ids(Tail(s), P)
<1>1. PICK t : t = Tail(s)
  OBVIOUS
<1>2. /\ t \in Seq(EventRow) /\ Head(s) = s[1] /\ 1 \in DOMAIN s /\ s[1] \in EventRow
      /\ \A i \in DOMAIN t : i + 1 \in DOMAIN s /\ t[i] = s[i + 1] /\ i \in Nat /\ i >= 1
  BY <1>1
<1>3. Ids(t, P) \subseteq Ids(s, P)
  BY <1>2 DEF Ids
<1>4. Distinct(s, P) => Distinct(t, P)
  <2>1. SUFFICES ASSUME Distinct(s, P), NEW i \in DOMAIN t, NEW j \in DOMAIN t,
                        t[i].src \in P, t[j].src \in P, t[i].id = t[j].id
                 PROVE  i = j
    BY DEF Distinct
  <2>2. i + 1 = j + 1
    BY <1>2, <2>1 DEF Distinct
  <2> QED BY <1>2, <2>2
<1>5. ASSUME s[1].src \in P
      PROVE  /\ s[1].id \in Ids(s, P)
             /\ Distinct(s, P) => s[1].id \notin Ids(t, P)
  <2>1. s[1].id \in Ids(s, P)
    BY <1>2, <1>5 DEF Ids
  <2>2. SUFFICES ASSUME Distinct(s, P), s[1].id \in Ids(t, P) PROVE FALSE
    BY <2>1
  <2>3. PICK i \in DOMAIN t : t[i].src \in P /\ t[i].id = s[1].id
    BY <2>2 DEF Ids
  <2>4. i + 1 = 1
    BY <1>2, <1>5, <2>2, <2>3 DEF Distinct
  <2> QED BY <1>2, <2>4
<1> QED BY <1>1, <1>2, <1>3, <1>4, <1>5

(* The types of ids. *)
LEMMA IdTypes ==
  ASSUME NEW s \in Seq(EventRow), NEW P
  PROVE  Ids(s, P) \subseteq EventIds
<1>1. ASSUME NEW i \in DOMAIN s PROVE s[i].id \in EventIds
  <2>1. s[i] \in EventRow
    OBVIOUS
  <2> QED BY <2>1 DEF EventRow
<1> QED BY <1>1 DEF Ids

(* No queue, no ids. *)
LEMMA EmptyIds ==
  ASSUME NEW P
  PROVE  /\ << >> \in Seq(EventRow) /\ << >> \in Seq(EventIds)
         /\ Ids(<< >>, P) = {} /\ Distinct(<< >>, P)
  BY DEF Ids, Distinct

(* Ids given out stay given out: the budget of the people only shrinks, and *)
(* a click takes one of it.                                                 *)
UsedKept == \A x \in EventIds : Used(x) => Used(x)'

(* A step of neither, which starts no click. *)
LEMMA UsedSame ==
  ASSUME UNCHANGED budget,
         page' = page \/ page' = None \/ page'.verdict # ""
  PROVE  UsedKept
  BY DEF UsedKept, Used

(* A step of the people: the next id of a click is a lower one. *)
LEMMA UsedPeople ==
  ASSUME budget \in [user : Nat, writes : Nat], People
  PROVE  UsedKept /\ budget' \in [user : Nat, writes : Nat]
<1>1. PICK n \in Nat : n = budget.user - 1 /\ budget' = [budget EXCEPT !.user = n]
  BY DEF People
<1>2. /\ budget' \in [user : Nat, writes : Nat] /\ budget'.user = n
      /\ budget'.writes = budget.writes
  BY <1>1
<1>3. ASSUME NEW x \in EventIds, Used(x) PROVE Used(x)'
  <2>1. x[2] \in Nat /\ budget.user \in Nat
    BY DEF EventIds
  <2>2. CASE x[1] = "other" /\ x[2] > budget.writes
    BY <1>2, <2>2 DEF Used
  <2>3. CASE x[1] = "own" /\ x[2] >= budget.user
    <3>1. x[2] > n /\ x[2] >= n
      BY <1>1, <2>1, <2>3
    <3> QED BY <1>2, <2>3, <3>1 DEF Used
  <2> QED BY <1>3, <2>2, <2>3 DEF Used
<1> QED BY <1>2, <1>3 DEF UsedKept

(* So does the one of the back end. *)
LEMMA UsedWrites ==
  ASSUME budget \in [user : Nat, writes : Nat], budget.writes > 0, UNCHANGED page,
         budget' = [budget EXCEPT !.writes = @ - 1]
  PROVE  /\ UsedKept /\ budget' \in [user : Nat, writes : Nat]
         /\ budget'.writes < budget.writes
<1>1. PICK n \in Nat : n = budget.writes - 1 /\ budget' = [budget EXCEPT !.writes = n]
  OBVIOUS
<1>2. /\ budget' \in [user : Nat, writes : Nat] /\ budget'.writes = n
      /\ budget'.user = budget.user
  BY <1>1
<1>3. ASSUME NEW x \in EventIds, Used(x) PROVE Used(x)'
  <2>1. x[2] \in Nat /\ budget.writes \in Nat
    BY DEF EventIds
  <2>2. CASE x[1] = "other" /\ x[2] > budget.writes
    <3>1. x[2] > n
      BY <1>1, <2>1, <2>2
    <3> QED BY <1>2, <2>2, <3>1 DEF Used
  <2>3. CASE ~ (x[1] = "other" /\ x[2] > budget.writes)
    BY <1>2, <1>3, <2>3 DEF Used
  <2> QED BY <2>2, <2>3
<1> QED BY <1>1, <1>2, <1>3 DEF UsedKept

(* A step that moves no event, or drops those on the stream. *)
LEMMA OnceKept ==
  ASSUME OnceInv, UNCHANGED <<watched, pend, inbox>>, UsedKept,
         budget' \in [user : Nat, writes : Nat],
         tabIn' \in {tabIn, << >>}, heard' \in {heard, << >>}
  PROVE  OnceInv'
<1>1. /\ tabIn' \in Seq(EventRow) /\ heard' \in Seq(EventIds)
      /\ Ids(tabIn', Procs) \subseteq Ids(tabIn, Procs)
      /\ Distinct(tabIn', Procs)
      /\ { heard'[i] : i \in DOMAIN heard' } \subseteq Heard
      /\ \A i, j \in DOMAIN heard' : heard'[i] = heard'[j] => i = j
  <2>3. /\ tabIn' \in Seq(EventRow)
        /\ Ids(tabIn', Procs) \subseteq Ids(tabIn, Procs) /\ Distinct(tabIn', Procs)
    <3>1. CASE tabIn' = tabIn
      BY <3>1 DEF OnceInv, QueueTypes, OncePlaced
    <3>2. CASE tabIn' = << >>
      BY <3>2, EmptyIds
    <3> QED BY <3>1, <3>2
  <2>4. /\ heard' \in Seq(EventIds) /\ { heard'[i] : i \in DOMAIN heard' } \subseteq Heard
        /\ \A i, j \in DOMAIN heard' : heard'[i] = heard'[j] => i = j
    <3>1. CASE heard' = heard
      BY <3>1 DEF OnceInv, QueueTypes, OncePlaced, Heard
    <3>2. CASE heard' = << >>
      BY <3>2
    <3> QED BY <3>1, <3>2
  <2> QED BY <2>3, <2>4
<1>2. QueueTypes'
  BY <1>1 DEF OnceInv, QueueTypes
<1>3. OncePlaced'
  BY <1>1 DEF OnceInv, OncePlaced
<1>4. /\ \A p \in Procs : Pending(p)' = Pending(p)
      /\ Foreign' = Foreign /\ Streamed' \subseteq Streamed /\ Heard' \subseteq Heard
  BY <1>1 DEF Pending, Foreign, Streamed, Heard
<1>5. Disjoint'
  BY <1>4 DEF OnceInv, Disjoint
<1>6. /\ \A p \in Procs : Pending(p) \subseteq EventIds
      /\ Foreign \cup Streamed \cup Heard \subseteq EventIds
  BY IdTypes DEF OnceInv, QueueTypes, Pending, Foreign, Streamed, Heard
<1>7. UsedInv'
  BY <1>4, <1>6 DEF OnceInv, UsedInv, UsedKept
<1> QED BY <1>2, <1>3, <1>5, <1>7 DEF OnceInv

(* Where ids may be. *)
LEMMA PlaceTypes ==
  ASSUME OnceInv
  PROVE  /\ \A p \in Procs : Pending(p) \subseteq EventIds
         /\ Foreign \subseteq EventIds /\ Streamed \subseteq EventIds
         /\ Heard \subseteq EventIds
  BY IdTypes DEF OnceInv, QueueTypes, Pending, Foreign, Streamed, Heard

(* A write puts a new id into the queue of its process. *)
LEMMA OnceCommit ==
  ASSUME OnceInv, UNCHANGED <<watched, tabIn, heard>>, NEW p \in Procs, NEW t \in Tenants,
         NEW k \in DOMAIN EventOf, NEW id \in EventIds, Commit(p, t, k, id),
         ~ Used(id), Used(id)', UsedKept, budget' \in [user : Nat, writes : Nat]
  PROVE  OnceInv'
<1>1. CASE UNCHANGED pend
  BY <1>1, OnceKept DEF Commit
<1>2. CASE EventOf[k] # "none"
  <2>0. UNCHANGED inbox
    BY DEF Commit
  <2>1. PICK e : e = Event(id, t, EventOf[k], p)
    OBVIOUS
  <2>2. EventOf[k] \in {"order.status", "inventory.atp"}
    BY <1>2 DEF EventOf
  <2>3. e \in EventRow /\ e.id = id /\ e.src = p
    BY <2>1, <2>2 DEF Event, EventRow
  <2>4. PICK s \in Seq(EventRow) : s = pend[p]
    BY DEF OnceInv, QueueTypes
  <2>5. PICK r : r = Append(s, e)
    OBVIOUS
  <2>6. id \notin Ids(s, Procs)
    BY <2>4 DEF OnceInv, UsedInv, Pending
  <2>7. /\ r \in Seq(EventRow) /\ Ids(r, Procs) = Ids(s, Procs) \cup {id}
        /\ Distinct(r, Procs) /\ \A i \in DOMAIN r : r[i].src = p
    <3>1. Distinct(s, Procs) /\ \A i \in DOMAIN s : s[i].src = p
      BY <2>4 DEF OnceInv, OncePlaced, QueueTypes
    <3>2. \A i \in DOMAIN r : r[i].src = p
      BY <2>3, <2>5, <3>1
    <3> QED BY <2>3, <2>5, <2>6, <3>1, <3>2, AppendIds
  <2>8. pend' = [pend EXCEPT ![p] = r]
    BY <1>2, <2>1, <2>4, <2>5 DEF Commit
  <2>9. /\ pend' \in [Procs -> Seq(EventRow)] /\ pend'[p] = r
        /\ \A q \in Procs \ {p} : pend'[q] = pend[q]
    BY <2>7, <2>8 DEF OnceInv, QueueTypes
  <2>10. QueueTypes'
    BY <2>0, <2>7, <2>9 DEF OnceInv, QueueTypes
  <2>11. OncePlaced'
    BY <2>0, <2>7, <2>9 DEF OnceInv, OncePlaced
  <2>12. /\ Pending(p)' = Pending(p) \cup {id}
         /\ \A q \in Procs \ {p} : Pending(q)' = Pending(q)
         /\ Foreign' = Foreign /\ Streamed' = Streamed /\ Heard' = Heard
    BY <2>0, <2>4, <2>7, <2>9 DEF Pending, Foreign, Streamed, Heard
  <2>13. Disjoint'
    BY <2>12 DEF OnceInv, Disjoint, UsedInv
  <2>14. UsedInv'
    BY <2>12, PlaceTypes DEF OnceInv, UsedInv, UsedKept
  <2> QED BY <2>10, <2>11, <2>13, <2>14 DEF OnceInv
<1> QED BY <1>1, <1>2 DEF Commit

(* An event may be put on the stream. *)
LEMMA SendsTypes ==
  ASSUME NEW e \in EventRow, tabIn \in Seq(EventRow), Sends(e), e.id \notin Streamed,
         Distinct(tabIn, Procs)
  PROVE  /\ tabIn' \in Seq(EventRow) /\ Distinct(tabIn', Procs)
         /\ Streamed' \subseteq Streamed \cup {e.id}
<1>1. e.src \in Procs
  BY DEF EventRow
<1>2. CASE tabIn' = tabIn
  BY <1>2 DEF Streamed
<1>3. CASE tabIn' = Append(tabIn, e)
  BY <1>1, <1>3, AppendIds DEF Streamed
<1> QED BY <1>2, <1>3 DEF Sends

(* publish: an event leaves its queue, for the streams of its process and   *)
(* for Redis, where only the other processes' events go on.                 *)
LEMMA OncePublish ==
  ASSUME OnceInv, NEW p \in Procs, Publish(p)
  PROVE  OnceInv'
<1>0. UNCHANGED <<budget, watched, page, heard>> /\ pend[p] # << >>
  BY DEF Publish
<1>u. UsedKept
  BY <1>0, UsedSame
<1>1. PICK s \in Seq(EventRow) : s = pend[p]
  BY DEF OnceInv, QueueTypes
<1>2. PICK e : e = Head(s)
  OBVIOUS
<1>3. PICK r : r = Tail(s)
  OBVIOUS
<1>4. /\ e \in EventRow /\ r \in Seq(EventRow) /\ e.src = p /\ Distinct(r, Procs)
      /\ Ids(r, Procs) \subseteq Ids(s, Procs)
      /\ e.id \in Ids(s, Procs) /\ e.id \notin Ids(r, Procs)
      /\ \A i \in DOMAIN r : r[i].src = p
  <2>1. Distinct(s, Procs) /\ \A i \in DOMAIN s : s[i].src = p
    BY <1>1 DEF OnceInv, OncePlaced, QueueTypes
  <2>2. e.src = p /\ \A i \in DOMAIN r : r[i].src = p
    BY <1>0, <1>1, <1>2, <1>3, <2>1
  <2> QED BY <1>0, <1>1, <1>2, <1>3, <2>1, <2>2, TailIds
<1>5. pend' = [pend EXCEPT ![p] = r]
  BY <1>1, <1>2, <1>3 DEF Publish
<1>6. /\ pend' \in [Procs -> Seq(EventRow)] /\ pend'[p] = r
      /\ \A q \in Procs \ {p} : pend'[q] = pend[q]
  BY <1>4, <1>5 DEF OnceInv, QueueTypes
<1>7. /\ Pending(p)' \subseteq Pending(p) \ {e.id} /\ e.id \in Pending(p)
      /\ \A q \in Procs \ {p} : Pending(q)' = Pending(q)
      /\ Heard' = Heard
  BY <1>0, <1>1, <1>4, <1>6 DEF Pending, Heard
<1>8. e.id \notin Foreign /\ e.id \notin Streamed /\ e.id \notin Heard
  BY <1>7 DEF OnceInv, Disjoint
<1>9. /\ inbox' \in Seq(EventRow) /\ Distinct(inbox', Procs \ {Api})
      /\ Foreign' \subseteq Foreign \cup (IF p = Api THEN {} ELSE {e.id})
  <2>1. CASE UNCHANGED inbox
    BY <2>1 DEF OnceInv, QueueTypes, OncePlaced, Foreign
  <2>2. CASE inbox' = Append(inbox, e)
    BY <1>4, <1>8, <2>2, AppendIds DEF OnceInv, QueueTypes, OncePlaced, Foreign
  <2> QED BY <1>1, <1>2, <2>1, <2>2 DEF Publish
<1>10. /\ tabIn' \in Seq(EventRow) /\ Distinct(tabIn', Procs)
       /\ Streamed' \subseteq Streamed \cup (IF p = Api THEN {e.id} ELSE {})
  <2>1. CASE p = Api
    <3>1. Sends(e)
      BY <1>1, <1>2, <2>1 DEF Publish
    <3> QED BY <1>4, <1>8, <2>1, <3>1, SendsTypes DEF OnceInv, QueueTypes, OncePlaced
  <2>2. CASE p # Api
    BY <2>2 DEF Publish, OnceInv, QueueTypes, OncePlaced, Streamed
  <2> QED BY <2>1, <2>2
<1>11. QueueTypes'
  <2>1. \A q \in Procs : \A i \in DOMAIN pend'[q] : pend'[q][i].src = q
    BY <1>4, <1>6 DEF OnceInv, QueueTypes
  <2> QED BY <1>0, <1>6, <1>9, <1>10, <2>1 DEF OnceInv, QueueTypes
<1>12. OncePlaced'
  BY <1>0, <1>4, <1>6, <1>9, <1>10 DEF OnceInv, OncePlaced
<1>13. Disjoint'
  BY <1>7, <1>8, <1>9, <1>10 DEF OnceInv, Disjoint
<1>14. UsedInv'
  <2>1. Used(e.id)' /\ e.id \in EventIds
    BY <1>u, <1>7, PlaceTypes DEF OnceInv, UsedInv, UsedKept
  <2> QED BY <1>u, <1>7, <1>9, <1>10, <2>1, PlaceTypes DEF OnceInv, UsedInv, UsedKept
<1> QED BY <1>11, <1>12, <1>13, <1>14 DEF OnceInv

(* onRedisMessage: an event of another process goes on to the stream, the   *)
(* echo of one of Api's own does not.                                       *)
LEMMA OnceRedis ==
  ASSUME OnceInv, OnRedisMessage
  PROVE  OnceInv'
<1>0. UNCHANGED <<budget, watched, page, heard, pend>> /\ inbox # << >>
  BY DEF OnRedisMessage
<1>u. UsedKept
  BY <1>0, UsedSame
<1>1. PICK e : e = Head(inbox)
  OBVIOUS
<1>2. /\ inbox \in Seq(EventRow) /\ Distinct(inbox, Procs \ {Api})
      /\ tabIn \in Seq(EventRow) /\ Distinct(tabIn, Procs)
  BY DEF OnceInv, QueueTypes, OncePlaced
<1>3. /\ e \in EventRow /\ inbox' \in Seq(EventRow) /\ Distinct(inbox', Procs \ {Api})
      /\ Foreign' \subseteq Foreign
      /\ e.src # Api => e.id \in Foreign /\ e.id \notin Foreign'
  <2>1. PICK r : r = Tail(inbox)
    OBVIOUS
  <2>2. inbox' = r
    BY <2>1 DEF OnRedisMessage
  <2>3. e \in EventRow /\ e.src \in Procs
    BY <1>0, <1>1, <1>2, TailIds DEF EventRow
  <2> QED BY <1>0, <1>1, <1>2, <2>1, <2>2, <2>3, TailIds DEF Foreign
<1>4. /\ tabIn' \in Seq(EventRow) /\ Distinct(tabIn', Procs)
      /\ Streamed' \subseteq Streamed \cup (IF e.src = Api THEN {} ELSE {e.id})
  <2>1. CASE e.src = Api
    BY <1>1, <1>2, <2>1 DEF OnRedisMessage, Streamed
  <2>2. CASE e.src # Api
    <3>1. Sends(e) /\ e.id \notin Streamed
      BY <1>1, <1>3, <2>2 DEF OnRedisMessage, OnceInv, Disjoint
    <3> QED BY <1>2, <1>3, <2>2, <3>1, SendsTypes
  <2> QED BY <2>1, <2>2
<1>5. /\ \A q \in Procs : Pending(q)' = Pending(q)
      /\ Heard' = Heard
  BY <1>0 DEF Pending, Heard
<1>6. QueueTypes'
  BY <1>0, <1>3, <1>4 DEF OnceInv, QueueTypes
<1>7. OncePlaced'
  BY <1>0, <1>3, <1>4 DEF OnceInv, OncePlaced
<1>8. Disjoint'
  BY <1>3, <1>4, <1>5 DEF OnceInv, Disjoint
<1>9. UsedInv'
  BY <1>u, <1>3, <1>4, <1>5, PlaceTypes DEF OnceInv, UsedInv, UsedKept
<1> QED BY <1>6, <1>7, <1>8, <1>9 DEF OnceInv

(* onmessage: an event leaves the stream and is heard. *)
LEMMA OnceReceives ==
  ASSUME OnceInv, TabReceives
  PROVE  OnceInv'
<1>0. UNCHANGED <<budget, watched, page, pend, inbox>> /\ tabIn # << >>
  BY DEF TabReceives, back
<1>u. UsedKept
  BY <1>0, UsedSame
<1>1. PICK x : x = Head(tabIn).id
  OBVIOUS
<1>2. /\ tabIn \in Seq(EventRow) /\ Distinct(tabIn, Procs) /\ heard \in Seq(EventIds)
      /\ \A i, j \in DOMAIN heard : heard[i] = heard[j] => i = j
  BY DEF OnceInv, QueueTypes, OncePlaced
<1>3. /\ tabIn' \in Seq(EventRow) /\ Distinct(tabIn', Procs)
      /\ Streamed' \subseteq Streamed /\ x \in Streamed /\ x \notin Streamed'
      /\ x \in EventIds
  <2>1. PICK r : r = Tail(tabIn)
    OBVIOUS
  <2>2. tabIn' = r
    BY <2>1 DEF TabReceives
  <2>3. Head(tabIn).src \in Procs /\ x \in EventIds
    BY <1>0, <1>1, <1>2, TailIds DEF EventRow
  <2> QED BY <1>0, <1>1, <1>2, <2>1, <2>2, <2>3, TailIds DEF Streamed
<1>4. x \notin Heard
  BY <1>3 DEF OnceInv, Disjoint
<1>5. /\ heard' \in Seq(EventIds) /\ Heard' = Heard \cup {x}
      /\ \A i, j \in DOMAIN heard' : heard'[i] = heard'[j] => i = j
  <2>1. heard' = Append(heard, x)
    BY <1>1 DEF TabReceives
  <2>2. /\ heard' \in Seq(EventIds) /\ DOMAIN heard' = DOMAIN heard \cup {Len(heard) + 1}
        /\ heard'[Len(heard) + 1] = x /\ \A i \in DOMAIN heard : heard'[i] = heard[i]
        /\ Len(heard) + 1 \notin DOMAIN heard
    BY <1>2, <1>3, <2>1
  <2>3. Heard' = Heard \cup {x}
    BY <2>2 DEF Heard
  <2> QED BY <1>2, <1>4, <2>2, <2>3 DEF Heard
<1>6. (\A q \in Procs : Pending(q)' = Pending(q)) /\ Foreign' = Foreign
  BY <1>0 DEF Pending, Foreign
<1>7. QueueTypes'
  BY <1>0, <1>3, <1>5 DEF OnceInv, QueueTypes
<1>8. OncePlaced'
  BY <1>0, <1>3, <1>5 DEF OnceInv, OncePlaced
<1>9. Disjoint'
  BY <1>3, <1>4, <1>5, <1>6 DEF OnceInv, Disjoint
<1>10. UsedInv'
  BY <1>u, <1>3, <1>5, <1>6, PlaceTypes DEF OnceInv, UsedInv, UsedKept
<1> QED BY <1>7, <1>8, <1>9, <1>10 DEF OnceInv

(* What the tab does to its stream besides: it is dropped or left alone. *)
LEMMA StreamResets ==
  ASSUME \/ \E c \in Credentials : SetActive(c) \/ TokenExpires(c) \/ SubmitSignIn(c)
         \/ ServeSignIn \/ EndSignIn \/ Logout \/ Reload \/ ServeLoading \/ EndLoading
         \/ StreamUp \/ StreamBreaks \/ FetchServed \/ FetchArrives \/ FetchRetries \/ EndClick
         \/ \E b \in Buttons : Click(b)
         \/ UNCHANGED vars
  PROVE  /\ UNCHANGED <<watched, pend, inbox>>
         /\ tabIn' \in {tabIn, << >>} /\ heard' \in {heard, << >>}
<1>1. ASSUME Remains \/ (\E s : Mounts(s)) \/ Unmounts \/ UNCHANGED stream
      PROVE  tabIn' \in {tabIn, << >>} /\ heard' \in {heard, << >>}
  BY <1>1 DEF Remains, Mounts, Unmounts, stream
<1>2. ASSUME NEW s, SetBoth(s) PROVE Remains \/ (\E z : Mounts(z)) \/ Unmounts
  BY <1>2 DEF SetBoth, Redraws
<1>3. CASE \/ \E c \in Credentials : SetActive(c) \/ TokenExpires(c) \/ SubmitSignIn(c)
           \/ ServeSignIn \/ ServeLoading \/ FetchServed \/ FetchArrives \/ FetchRetries \/ EndClick
           \/ \E b \in Buttons : Click(b)
           \/ UNCHANGED vars
  BY <1>1, <1>3 DEF SetActive, TokenExpires, SubmitSignIn, ServeSignIn, ServeLoading,
                    FetchServed, FetchArrives, FetchRetries, EndClick, Click, vars, back
<1>4. CASE EndSignIn \/ Logout \/ EndLoading
  <2>1. UNCHANGED <<watched, pend, inbox>>
    BY <1>4 DEF EndSignIn, Logout, EndLoading, back
  <2>2. Remains \/ \E s : SetBoth(s)
    BY <1>4 DEF EndSignIn, Logout, EndLoading
  <2> QED BY <1>1, <1>2, <2>1, <2>2
<1>5. CASE Reload \/ StreamUp \/ StreamBreaks
  BY <1>5 DEF Reload, StreamUp, StreamBreaks, back
<1> QED BY <1>3, <1>4, <1>5

(* A click is served: its event has an id nobody had. *)
LEMMA OnceServes ==
  ASSUME OnceInv, PageInv, PageInv', ServeClick
  PROVE  OnceInv'
<1>0. UNCHANGED <<budget, watched, tabIn, heard>> /\ page # None /\ page.verdict = ""
      /\ page \in PageRow
  BY DEF ServeClick, stream, PageInv
<1>1. page'.verdict # ""
  BY <1>0 DEF ServeClick, PageRow
<1>u. UsedKept /\ budget' \in [user : Nat, writes : Nat]
  BY <1>0, <1>1, UsedSame DEF OnceInv, QueueTypes
<1>2. CASE UNCHANGED back
  BY <1>0, <1>u, <1>2, OnceKept DEF back
<1>3. CASE /\ Accepts(page.cred) /\ page.button.write # "none"
           /\ Commit(Api, page.cred.tenant, page.button.write, <<"own", budget.user>>)
  <2>1. page.cred.tenant \in Tenants /\ page.button.write \in DOMAIN EventOf
    BY <1>0, <1>3, ConsoleAssumption DEF Accepts, PageRow, ButtonRow
  <2>2. PICK id : id = <<"own", budget.user>>
    OBVIOUS
  <2>3. id \in EventIds /\ id[1] = "own" /\ id[2] = budget.user /\ budget.user \in Nat
    BY <2>2 DEF EventIds, OnceInv, QueueTypes
  <2>4. ~ Used(id) /\ Used(id)'
    <3>1. PICK n \in Nat : n = budget.user
      BY <2>3
    <3>a. n >= n /\ ~ (n > n)
      OBVIOUS
    <3>b. budget'.user = n
      BY <1>0, <3>1
    <3>c. id[2] = n
      BY <2>3, <3>1
    <3>2. n >= n /\ ~ (n > n) /\ budget'.user = n /\ id[2] = n
      BY <3>a, <3>b, <3>c
    <3>3. ~ Used(id)
      BY <1>0, <2>3, <3>1, <3>2 DEF Used
    <3>4. Used(id)'
      BY <1>1, <2>3, <3>2 DEF Used
    <3> QED BY <3>3, <3>4
  <2> QED BY <1>0, <1>u, <1>3, <2>1, <2>2, <2>3, <2>4, ConsoleAssumption, OnceCommit
<1> QED BY <1>2, <1>3 DEF ServeClick

(* Every step keeps an event in one place. *)
LEMMA OnceNext ==
  ASSUME OnceInv, PageInv, PageInv', [Next]_vars
  PROVE  OnceInv'
<1>b. budget \in [user : Nat, writes : Nat]
  BY DEF OnceInv, QueueTypes
<1>1. ASSUME NEW p \in Procs, NEW t \in Tenants, NEW k \in DOMAIN EventOf, Write(p, t, k)
      PROVE  OnceInv'
  <2>1. UNCHANGED <<watched, tabIn, heard, page>> /\ budget.writes > 0
        /\ budget' = [budget EXCEPT !.writes = @ - 1]
    BY <1>1 DEF Write, stream
  <2>2. /\ UsedKept /\ budget' \in [user : Nat, writes : Nat]
        /\ budget'.writes < budget.writes
    BY <1>b, <2>1, UsedWrites
  <2>3. PICK id : id = <<"other", budget.writes>>
    OBVIOUS
  <2>4. id \in EventIds /\ id[1] = "other" /\ id[2] = budget.writes /\ budget.writes \in Nat
    BY <1>b, <2>3 DEF EventIds
  <2>5. ~ Used(id) /\ Used(id)'
    BY <2>2, <2>4 DEF Used
  <2>6. Commit(p, t, k, id)
    BY <1>1, <2>3 DEF Write
  <2> QED BY <2>1, <2>2, <2>4, <2>5, <2>6, OnceCommit
<1>2. ASSUME \/ \E c \in Credentials : SetActive(c) \/ TokenExpires(c) \/ SubmitSignIn(c)
             \/ Logout \/ Reload \/ \E b \in Buttons : Click(b)
      PROVE  OnceInv'
  <2>1. People
    BY <1>2 DEF SetActive, TokenExpires, SubmitSignIn, Logout, Reload, Click
  <2> QED BY <1>b, <1>2, <2>1, UsedPeople, StreamResets, OnceKept
<1>3. ASSUME ServeSignIn \/ EndSignIn \/ ServeLoading \/ EndLoading \/ StreamUp
               \/ FetchServed \/ FetchArrives \/ FetchRetries \/ EndClick \/ UNCHANGED vars
      PROVE  OnceInv'
  <2>1. UNCHANGED budget /\ (page' = page \/ page' = None)
    BY <1>3 DEF ServeSignIn, EndSignIn, ServeLoading, EndLoading, StreamUp, FetchServed,
                FetchArrives, FetchRetries, EndClick, vars
  <2> QED BY <1>b, <1>3, <2>1, UsedSame, StreamResets, OnceKept
<1>4. CASE StreamBreaks
  <2>1. UNCHANGED page /\ budget.writes > 0 /\ budget' = [budget EXCEPT !.writes = @ - 1]
    BY <1>4 DEF StreamBreaks
  <2> QED BY <1>b, <1>4, <2>1, UsedWrites, StreamResets, OnceKept
<1> QED BY <1>1, <1>2, <1>3, <1>4, OncePublish, OnceRedis, OnceReceives, OnceServes
        DEF Next

-----------------------------------------------------------------------------
(* The watched query *)

(* A stream is opened with the stored credentials. *)
LEMMA OpensTyped ==
  ASSUME NEW s \in Sessions
  PROVE  Opens(s) \in Streams /\ Opens(s) # None
<1>1. Opens(s) \in Streams
  BY DEF Opens, Sessions, Streams
<1> QED BY <1>1, ConsoleAssumption

(* A fetch that is sent has no answer yet. *)
LEMMA SentTyped ==
  ASSUME NEW z \in Sessions \cup {None}, NEW n \in 0 .. 2
  PROVE  Sent(z, n) \in FetchRow /\ Awaited(Sent(z, n))
  BY DEF Sent, NoFetch, FetchRow, Awaited, Sessions

(* After an invalidation a new answer is awaited, or one escaped. *)
LEMMA RefetchAwaits ==
  ASSUME SessionInv, TabTypes, Refetch
  PROVE  /\ fetch' \in FetchRow /\ missed' \in BOOLEAN
         /\ missed' \/ Awaited(fetch')
<1>1. CASE cache = None /\ fetch.at \in {"sent", "answered"}
  BY <1>1 DEF Refetch, TabTypes, Awaited
<1>2. CASE ~ (cache = None /\ fetch.at \in {"sent", "answered"})
  <2>1. PICK n \in 0 .. 2 : fetch' = Sent(store, n) /\ missed' = FALSE
    BY <1>2 DEF Refetch
  <2> QED BY <2>1, SentTyped DEF SessionInv
<1> QED BY <1>1, <1>2

(* What a step does to the mounted shell. *)
LEMMA ShellTypes ==
  ASSUME TabTypes, NEW s \in Sessions \cup {None}, SetBoth(s)
  PROVE  /\ conn' \in Streams \cup {None}
         /\ conn' = None <=> react' = None
         /\ fetch' \in FetchRow
         /\ cache' \in DataRow \cup {None} /\ own' \in Nat /\ missed' \in BOOLEAN
         /\ \/ Remains
            \/ conn' = None
            \/ own' = 0 /\ (Awaited(fetch') \/ missed')
<1>1. \A z \in Sessions : Sent(z, 1) \in FetchRow /\ Awaited(Sent(z, 1))
  BY SentTyped
<1>3. CASE react = None /\ s # None
  <2>1. Mounts(s) /\ s \in Sessions /\ react' = s
    BY <1>3 DEF SetBoth, Redraws
  <2>2. Opens(s) \in Streams /\ Opens(s) # None
    BY <2>1, OpensTyped
  <2> QED BY <1>1, <1>3, <2>1, <2>2 DEF Mounts, TabTypes, FetchRow, Awaited
<1>4. CASE react # None /\ s = None
  <2>1. Unmounts /\ react' = None
    BY <1>4 DEF SetBoth, Redraws
  <2> QED BY <2>1 DEF Unmounts, TabTypes
<1>5. CASE ~ (react = None /\ s # None) /\ ~ (react # None /\ s = None)
  <2>1. Remains /\ react' = s
    BY <1>5 DEF SetBoth, Redraws
  <2> QED BY <1>5, <2>1 DEF Remains, TabTypes, stream, query
<1> QED BY <1>3, <1>4, <1>5

(* Versions only grow. *)
LEMMA CommitTypes ==
  ASSUME db \in [Tenants -> Nat], NEW p \in Procs, NEW t \in Tenants, NEW k, NEW id,
         Commit(p, t, k, id)
  PROVE  /\ db' \in [Tenants -> Nat] /\ \A u \in Tenants : db[u] <= db'[u]
         /\ \A u \in Tenants : u # t => db'[u] = db[u]
         /\ k \notin Shows[watched] => db' = db
  BY DEF Commit

(* The tab's variables have their types. *)
LEMMA TabTypesNext ==
  ASSUME SessionInv, PageInv, OnceInv, TabTypes, [Next]_vars
  PROVE  TabTypes' /\ \A u \in Tenants : db[u] <= db'[u]
<1>r. \A n \in Nat : n <= n
  OBVIOUS
<1>f. /\ NoFetch \in FetchRow
      /\ \A n \in 0 .. 2 : Sent(store, n) \in FetchRow
  BY SentTyped DEF NoFetch, FetchRow, SessionInv
<1>1. ASSUME UNCHANGED <<db, react, conn, fetch, cache, own>>, missed' \in BOOLEAN
      PROVE  TabTypes' /\ \A u \in Tenants : db[u] <= db'[u]
  BY <1>r, <1>1 DEF TabTypes
<1>2. ASSUME \/ \E c \in Credentials : SetActive(c) \/ TokenExpires(c) \/ SubmitSignIn(c)
             \/ ServeSignIn \/ ServeLoading \/ \E b \in Buttons : Click(b)
             \/ \E p \in Procs : Publish(p)
             \/ OnRedisMessage \/ UNCHANGED vars
      PROVE  UNCHANGED <<db, react, conn, fetch, cache, own>> /\ missed' \in BOOLEAN
  BY <1>2 DEF SetActive, TokenExpires, SubmitSignIn, ServeSignIn, ServeLoading, Click,
              Publish, OnRedisMessage, vars, Remains, stream, query, back, session, Sends,
              Lost, Listens, TabTypes
<1>3. CASE EndSignIn \/ Logout \/ EndLoading
  <2>1. UNCHANGED db
    BY <1>3 DEF EndSignIn, Logout, EndLoading, back
  <2>2. \/ UNCHANGED react /\ Remains
        \/ \E s \in Sessions \cup {None} : SetBoth(s)
    <3>1. signin # None => Shown(signin.cred, signin.cred.role) \in Sessions
      BY ShownSession DEF SessionInv, SignIn
    <3>2. loading # None => Shown(loading.base.cred, loading.base.cred.role) \in Sessions
      BY ShownSession DEF SessionInv, Load, Sessions
    <3> QED BY <1>3, <3>1, <3>2 DEF EndSignIn, Logout, EndLoading
  <2>3. CASE UNCHANGED react /\ Remains
    BY <1>1, <2>1, <2>3 DEF Remains, stream, query, TabTypes
  <2>4. CASE \E s \in Sessions \cup {None} : SetBoth(s)
    BY <1>r, <2>1, <2>4, ShellTypes DEF TabTypes
  <2> QED BY <2>2, <2>3, <2>4
<1>4. CASE Reload
  <2>1. store # None => store \in Sessions
    BY DEF SessionInv
  <2>2. store # None => Opens(store) \in Streams /\ Opens(store) # None
    BY <2>1, OpensTyped
  <2>3. fetch' \in FetchRow
    <3>1. Sent(store, 1) \in FetchRow /\ NoFetch \in FetchRow
      BY <1>f
    <3> QED BY <1>4, <3>1 DEF Reload
  <2>4. /\ UNCHANGED db /\ react' = store /\ cache' = None /\ own' = 0 /\ missed' = FALSE
        /\ conn' = IF store = None THEN None ELSE Opens(store)
    BY <1>4 DEF Reload, back
  <2> QED BY <1>r, <2>2, <2>3, <2>4 DEF TabTypes
<1>5. ASSUME NEW p \in Procs, NEW t \in Tenants, NEW k, NEW id, Commit(p, t, k, id),
             UNCHANGED <<react, conn, fetch, cache, own>>, missed' \in BOOLEAN
      PROVE  TabTypes' /\ \A u \in Tenants : db[u] <= db'[u]
  BY <1>5, CommitTypes DEF TabTypes
<1>6. ASSUME NEW p \in Procs, NEW t \in Tenants, NEW k \in DOMAIN EventOf, Write(p, t, k)
      PROVE  TabTypes' /\ \A u \in Tenants : db[u] <= db'[u]
  <2>1. /\ UNCHANGED <<react, conn, fetch, cache, own>> /\ missed' \in BOOLEAN
        /\ Commit(p, t, k, <<"other", budget.writes>>)
    BY <1>6 DEF Write, session, stream, query
  <2> QED BY <1>5, <2>1
<1>7. CASE ServeClick
  <2>1. UNCHANGED <<react, conn, fetch, cache, own>> /\ missed' \in BOOLEAN
    BY <1>7 DEF ServeClick, session, stream, query
  <2>2. CASE UNCHANGED back
    BY <1>1, <2>1, <2>2 DEF back
  <2>3. CASE /\ Accepts(page.cred)
             /\ Commit(Api, page.cred.tenant, page.button.write, <<"own", budget.user>>)
    <3>1. page.cred.tenant \in Tenants
      BY <1>7, <2>3, ConsoleAssumption DEF ServeClick, PageInv, PageRow, Accepts
    <3> QED BY <1>5, <2>1, <2>3, <3>1, ConsoleAssumption
  <2> QED BY <1>7, <2>2, <2>3 DEF ServeClick
<1>8. CASE StreamUp \/ StreamBreaks
  <2>1. PICK a \in {"connecting", "open", "closed"} : conn' = [conn EXCEPT !.at = a]
    BY <1>8 DEF StreamUp, StreamBreaks
  <2>2. conn' \in Streams /\ react # None
    BY <1>8, <2>1 DEF StreamUp, StreamBreaks, TabTypes, Streams
  <2>3. UNCHANGED <<db, react, fetch, cache, own>> /\ missed' \in BOOLEAN
    BY <1>8 DEF StreamUp, StreamBreaks, session, back, query, TabTypes
  <2>4. conn' # None
    BY <2>2, ConsoleAssumption
  <2> QED BY <1>r, <2>2, <2>3, <2>4 DEF TabTypes
<1>9. CASE TabReceives \/ EndClick
  <2>1. UNCHANGED <<db, react, conn, cache>>
    BY <1>9 DEF TabReceives, EndClick, session, back, stream
  <2>2. fetch' \in FetchRow /\ missed' \in BOOLEAN
    <3>1. Refetch \/ UNCHANGED <<fetch, missed>>
      BY <1>9 DEF TabReceives, EndClick
    <3> QED BY <3>1, RefetchAwaits DEF TabTypes
  <2>3. own' \in Nat
    BY <1>9 DEF TabReceives, EndClick, TabTypes, PageInv, PageRow
  <2> QED BY <1>r, <2>1, <2>2, <2>3 DEF TabTypes
<1>10. CASE FetchServed \/ FetchArrives \/ FetchRetries
  <2>1. UNCHANGED <<db, react, conn, own>>
    BY <1>10 DEF FetchServed, FetchArrives, FetchRetries, back, stream, session
  <2>2. fetch' \in FetchRow /\ cache' \in DataRow \cup {None} /\ missed' \in BOOLEAN
    <3>1. CASE FetchServed
      <4>1. Accepts(fetch.cred) =>
              Data(fetch.cred.tenant, db[fetch.cred.tenant]) \in DataRow
        BY ConsoleAssumption DEF Accepts, Data, DataRow, TabTypes, FetchRow
      <4> QED BY <3>1, <4>1 DEF FetchServed, TabTypes, FetchRow
    <3>2. CASE FetchArrives
      BY <1>f, <3>2 DEF FetchArrives, TabTypes, FetchRow
    <3>3. CASE FetchRetries
      <4>1. Sent(store, 2) \in FetchRow
        BY <1>f
      <4>2. UNCHANGED cache
        BY <3>3 DEF FetchRetries
      <4> QED BY <3>3, <4>1, <4>2 DEF FetchRetries, TabTypes
    <3> QED BY <1>10, <3>1, <3>2, <3>3
  <2> QED BY <1>r, <2>1, <2>2 DEF TabTypes
<1> QED BY <1>1, <1>2, <1>3, <1>4, <1>6, <1>7, <1>8, <1>9, <1>10 DEF Next

(* News joins a queue, and stays news. *)
LEMMA AppendNews ==
  ASSUME NEW s \in Seq(EventRow), NEW e \in EventRow, NEW P, NEW t, NEW w
  PROVE  /\ HasNews(s, P, t, w) => HasNews(Append(s, e), P, t, w)
         /\ e.src \in P /\ IsNews(e, t, w) => HasNews(Append(s, e), P, t, w)
<1>1. PICK r : r = Append(s, e)
  OBVIOUS
<1>2. /\ DOMAIN r = DOMAIN s \cup {Len(s) + 1} /\ r[Len(s) + 1] = e
      /\ \A i \in DOMAIN s : r[i] = s[i]
  BY <1>1
<1> QED BY <1>1, <1>2 DEF HasNews

(* What leaves a queue is its first event. *)
LEMMA TailNews ==
  ASSUME NEW s \in Seq(EventRow), s # << >>, NEW P, NEW t, NEW w, HasNews(s, P, t, w)
  PROVE  \/ HasNews(Tail(s), P, t, w)
         \/ Head(s).src \in P /\ IsNews(Head(s), t, w)
<1>1. PICK i \in DOMAIN s : s[i].src \in P /\ IsNews(s[i], t, w)
  BY DEF HasNews
<1>2. CASE i = 1
  BY <1>1, <1>2
<1>3. CASE i # 1
  <2>1. i - 1 \in DOMAIN Tail(s) /\ Tail(s)[i - 1] = s[i]
    BY <1>3
  <2> QED BY <1>1, <2>1 DEF HasNews
<1> QED BY <1>2, <1>3

(* The tab holds the same data for the same stream as before. *)
Undisturbed == Holding /\ Latest' = Latest /\ conn'.cred = conn.cred

(* A step by which no news is lost. *)
LEMMA FreshKept ==
  ASSUME FreshInv,
         Holding' => /\ Undisturbed /\ UNCHANGED db
                     /\ NewsFor(conn.cred.tenant) => NewsFor(conn.cred.tenant)'
  PROVE  FreshInv'
<1>1. SUFFICES ASSUME Holding'
               PROVE  (Latest.version = db[conn.cred.tenant] \/ NewsFor(conn.cred.tenant))'
  BY DEF FreshInv
<1>2. Latest.version = db[conn.cred.tenant] \/ NewsFor(conn.cred.tenant)
  BY <1>1 DEF FreshInv, Undisturbed
<1> QED BY <1>1, <1>2 DEF Undisturbed

(* Own writes under the same circumstances. *)
LEMMA OwnKept ==
  ASSUME OwnInv, TabTypes, TabTypes', \A u \in Tenants : db[u] <= db'[u],
         UNCHANGED own, conn' # None => conn # None /\ conn'.cred = conn.cred,
         Holding' => Undisturbed
  PROVE  /\ conn' # None => own' <= db'[conn'.cred.tenant]
         /\ Holding' => Latest'.version >= own'
<1>1. ASSUME conn' # None PROVE own' <= db'[conn'.cred.tenant]
  <2>1. conn.cred.tenant \in Tenants /\ own <= db[conn.cred.tenant]
    BY <1>1, ConsoleAssumption DEF OwnInv, TabTypes, Streams
  <2>2. PICK t \in Tenants : t = conn.cred.tenant
    BY <2>1
  <2>3. own \in Nat /\ db[t] \in Nat /\ db'[t] \in Nat /\ db[t] <= db'[t] /\ own <= db[t]
    BY <2>1, <2>2 DEF TabTypes
  <2>4. own <= db'[t]
    BY <2>3
  <2> QED BY <1>1, <2>2, <2>4
<1>2. Holding' => Latest'.version >= own'
  BY DEF OwnInv, Undisturbed
<1> QED BY <1>1, <1>2

(* A version not above one that did not shrink. *)
LEMMA LeqTrans ==
  ASSUME NEW n \in Nat, NEW a \in Nat, NEW b \in Nat, n <= a, a <= b
  PROVE  n <= b
  OBVIOUS

(* The write a click confirmed. *)
LEMMA PageOwnKept ==
  ASSUME OwnInv, PageInv, TabTypes, TabTypes', \A u \in Tenants : db[u] <= db'[u],
         page' \in {page, None} \/ page'.verdict = ""
  PROVE  page' # None /\ page'.verdict = "ok" =>
           page'.cred \in Credentials /\ page'.version <= db'[page'.cred.tenant]
<1>1. SUFFICES ASSUME page' # None, page'.verdict = "ok", page' = page
               PROVE  page.cred \in Credentials /\ page.version <= db'[page.cred.tenant]
  OBVIOUS
<1>2. page.cred \in Credentials /\ page.version <= db[page.cred.tenant]
  BY <1>1 DEF OwnInv
<1>3. PICK t \in Tenants : t = page.cred.tenant
  BY <1>2, ConsoleAssumption
<1>4. page.version \in Nat /\ db[t] \in Nat /\ db'[t] \in Nat /\ db[t] <= db'[t]
  BY <1>1 DEF PageInv, PageRow, TabTypes
<1>5. page.version <= db'[t]
  BY <1>2, <1>3, <1>4, LeqTrans
<1> QED BY <1>2, <1>3, <1>5

(* A write is announced to the watched query, or marked as missed. *)
LEMMA FreshCommit ==
  ASSUME FreshInv, TabTypes, QueueTypes, NEW p \in Procs, NEW t \in Tenants,
         NEW k \in DOMAIN EventOf, NEW id \in EventIds, Commit(p, t, k, id),
         missed' = (missed \/ Unannounced(t, k)),
         UNCHANGED <<watched, conn, fetch, cache, tabIn>>
  PROVE  FreshInv' /\ (Holding' => Undisturbed)
<1>1. SUFFICES ASSUME Holding'
               PROVE  /\ (Latest.version = db[conn.cred.tenant] \/ NewsFor(conn.cred.tenant))'
                      /\ Undisturbed
  BY DEF FreshInv
<1>2. Undisturbed /\ ~ Unannounced(t, k) /\ conn # None
  BY <1>1 DEF Holding, Undisturbed, Latest
<1>3. PICK ct \in Tenants : ct = conn.cred.tenant
  BY <1>2, ConsoleAssumption DEF TabTypes, Streams
<1>q. PICK w \in Queries : w = watched
  BY DEF QueueTypes
<1>4. /\ \A q \in Procs : HasNews(pend[q], Procs, ct, w) => HasNews(pend'[q], Procs, ct, w)
      /\ EventOf[k] # "none" /\ t = ct /\ w \in INVALIDATIONS[EventOf[k]] =>
           HasNews(pend'[p], Procs, ct, w)
  <2>1. CASE EventOf[k] = "none"
    BY <2>1 DEF Commit
  <2>2. CASE EventOf[k] # "none"
    <3>1. PICK e : e = Event(id, t, EventOf[k], p)
      OBVIOUS
    <3>2. EventOf[k] \in {"order.status", "inventory.atp"}
      BY <2>2 DEF EventOf
    <3>3. e \in EventRow /\ e.tenant = t /\ e.type = EventOf[k] /\ e.src \in Procs
      BY <3>1, <3>2 DEF Event, EventRow
    <3>4. PICK s \in Seq(EventRow) : s = pend[p]
      BY DEF QueueTypes
    <3>5. PICK r : r = Append(s, e)
      OBVIOUS
    <3>6. pend' = [pend EXCEPT ![p] = r]
      BY <2>2, <3>1, <3>4, <3>5 DEF Commit
    <3>7. pend'[p] = r /\ \A q \in Procs \ {p} : pend'[q] = pend[q]
      BY <3>6 DEF QueueTypes
    <3>8. /\ HasNews(s, Procs, ct, w) => HasNews(r, Procs, ct, w)
          /\ IsNews(e, ct, w) => HasNews(r, Procs, ct, w)
      BY <3>3, <3>5, AppendNews
    <3>9. t = ct /\ w \in INVALIDATIONS[EventOf[k]] => IsNews(e, ct, w)
      BY <3>3 DEF IsNews
    <3> QED BY <3>4, <3>7, <3>8, <3>9
  <2> QED BY <2>1, <2>2
<1>5. NewsFor(ct) => NewsFor(ct)'
  BY <1>4, <1>q DEF NewsFor, Commit
<1>6. CASE db'[ct] = db[ct]
  <2>1. Latest.version = db[ct] \/ NewsFor(ct)
    BY <1>2, <1>3 DEF FreshInv, Undisturbed
  <2> QED BY <1>2, <1>3, <1>5, <1>6, <2>1 DEF Undisturbed
<1>7. CASE db'[ct] # db[ct]
  <2>1. k \in Shows[w] /\ t = ct
    BY <1>7, <1>q, CommitTypes DEF TabTypes
  <2>2. Listens(t)
    BY <1>2, <1>3, <2>1 DEF Listens
  <2>3. EventOf[k] # "none" /\ ~ (k = "source" /\ w = "orders")
    BY <1>2, <1>q, <2>1, <2>2 DEF Unannounced
  <2>4. w \in INVALIDATIONS[EventOf[k]]
    BY <2>1, <2>3 DEF EventOf, Queries, Shows, INVALIDATIONS
  <2>5. NewsFor(ct)'
    BY <1>4, <1>q, <2>1, <2>3, <2>4 DEF NewsFor
  <2> QED BY <1>2, <1>3, <2>5 DEF Undisturbed
<1> QED BY <1>6, <1>7

(* publish: news goes to the stream or to Redis, or is marked as missed. *)
LEMMA FreshPublish ==
  ASSUME FreshInv, OnceInv, NEW p \in Procs, Publish(p)
  PROVE  FreshInv' /\ (Holding' => Undisturbed)
<1>0. UNCHANGED <<db, watched, conn, fetch, cache>> /\ pend[p] # << >>
      /\ (missed => missed')
  BY DEF Publish, query, Sends, Lost
<1>1. Holding' => Undisturbed
  BY <1>0 DEF Holding, Undisturbed, Latest
<1>2. ASSUME Holding', NewsFor(conn.cred.tenant) PROVE NewsFor(conn.cred.tenant)'
  <2>1. PICK t : t = conn.cred.tenant
    OBVIOUS
  <2>2. conn # None /\ ~ missed'
    BY <1>0, <1>2 DEF Holding
  <2>3. PICK s \in Seq(EventRow) : s = pend[p]
    BY DEF OnceInv, QueueTypes
  <2>4. PICK e : e = Head(s)
    OBVIOUS
  <2>5. PICK r : r = Tail(s)
    OBVIOUS
  <2>6. e \in EventRow /\ e.src = p
    BY <1>0, <2>3, <2>4 DEF OnceInv, QueueTypes
  <2>7. pend' = [pend EXCEPT ![p] = r]
    BY <2>3, <2>5 DEF Publish
  <2>8. pend'[p] = r /\ \A q \in Procs \ {p} : pend'[q] = pend[q]
    BY <2>7 DEF OnceInv, QueueTypes
  <2>9. /\ inbox' \in {inbox, Append(inbox, e)} /\ tabIn' \in {tabIn, Append(tabIn, e)}
        /\ inbox \in Seq(EventRow) /\ tabIn \in Seq(EventRow)
    BY <2>3, <2>4 DEF Publish, Sends, OnceInv, QueueTypes
  <2>10. /\ HasNews(inbox, Procs \ {Api}, t, watched) =>
             HasNews(inbox', Procs \ {Api}, t, watched)
         /\ HasNews(tabIn, Procs, t, watched) => HasNews(tabIn', Procs, t, watched)
    BY <2>6, <2>9, AppendNews
  <2>11. ASSUME IsNews(e, t, watched)
         PROVE  \/ HasNews(inbox', Procs \ {Api}, t, watched)
                \/ HasNews(tabIn', Procs, t, watched)
    <3>1. Listens(e.tenant)
      BY <2>1, <2>2, <2>11 DEF Listens, IsNews
    <3>2. CASE p = Api
      <4>1. tabIn' = Append(tabIn, e)
        BY <2>2, <2>3, <2>4, <3>1, <3>2 DEF Publish, Sends
      <4> QED BY <2>6, <2>9, <2>11, <4>1, AppendNews
    <3>3. CASE p # Api
      <4>1. inbox' = Append(inbox, e)
        BY <2>2, <2>3, <2>4, <3>1, <3>3 DEF Publish, Lost
      <4> QED BY <2>6, <2>9, <2>11, <3>3, <4>1, AppendNews
    <3> QED BY <3>2, <3>3
  <2>12. HasNews(s, Procs, t, watched) =>
           HasNews(r, Procs, t, watched) \/ IsNews(e, t, watched)
    BY <1>0, <2>3, <2>4, <2>5, TailNews
  <2>13. NewsFor(t)
    BY <1>2, <2>1
  <2>14. NewsFor(t)'
    BY <1>0, <2>3, <2>8, <2>10, <2>11, <2>12, <2>13 DEF NewsFor
  <2> QED BY <1>0, <2>1, <2>14
<1> QED BY <1>0, <1>1, <1>2, FreshKept

(* onRedisMessage: so does what Redis brings from other processes. *)
LEMMA FreshRedis ==
  ASSUME FreshInv, OnceInv, OnRedisMessage
  PROVE  FreshInv' /\ (Holding' => Undisturbed)
<1>0. UNCHANGED <<db, watched, conn, fetch, cache, pend>> /\ inbox # << >>
      /\ (missed => missed') /\ inbox \in Seq(EventRow) /\ tabIn \in Seq(EventRow)
  BY DEF OnRedisMessage, query, Sends, OnceInv, QueueTypes
<1>1. Holding' => Undisturbed
  BY <1>0 DEF Holding, Undisturbed, Latest
<1>2. ASSUME Holding', NewsFor(conn.cred.tenant) PROVE NewsFor(conn.cred.tenant)'
  <2>1. PICK t : t = conn.cred.tenant
    OBVIOUS
  <2>2. conn # None /\ ~ missed'
    BY <1>0, <1>2 DEF Holding
  <2>4. PICK e : e = Head(inbox)
    OBVIOUS
  <2>5. PICK r : r = Tail(inbox) /\ r = inbox'
    BY DEF OnRedisMessage
  <2>6. e \in EventRow
    BY <1>0, <2>4
  <2>9. tabIn' \in {tabIn, Append(tabIn, e)}
    BY <2>4 DEF OnRedisMessage, Sends
  <2>10. HasNews(tabIn, Procs, t, watched) => HasNews(tabIn', Procs, t, watched)
    BY <1>0, <2>6, <2>9, AppendNews
  <2>11. ASSUME IsNews(e, t, watched), e.src \in Procs \ {Api}
         PROVE  HasNews(tabIn', Procs, t, watched)
    <3>1. Listens(e.tenant)
      BY <2>1, <2>2, <2>11 DEF Listens, IsNews
    <3>2. tabIn' = Append(tabIn, e)
      BY <2>2, <2>4, <2>11, <3>1 DEF OnRedisMessage, Sends
    <3> QED BY <1>0, <2>6, <2>11, <3>2, AppendNews
  <2>12. HasNews(inbox, Procs \ {Api}, t, watched) =>
           \/ HasNews(r, Procs \ {Api}, t, watched)
           \/ e.src \in Procs \ {Api} /\ IsNews(e, t, watched)
    BY <1>0, <2>4, <2>5, TailNews
  <2>13. NewsFor(t)
    BY <1>2, <2>1
  <2>14. NewsFor(t)'
    BY <1>0, <2>5, <2>10, <2>11, <2>12, <2>13 DEF NewsFor
  <2> QED BY <1>0, <2>1, <2>14
<1> QED BY <1>0, <1>1, <1>2, FreshKept

(* onmessage: news that is heard starts a fetch. *)
LEMMA FreshReceives ==
  ASSUME SessionInv, TabTypes, FreshInv, OnceInv, TabReceives
  PROVE  FreshInv' /\ (Holding' => Undisturbed)
<1>0. UNCHANGED <<db, watched, conn, cache, pend, inbox>> /\ tabIn # << >>
      /\ tabIn \in Seq(EventRow)
  BY DEF TabReceives, back, OnceInv, QueueTypes
<1>1. CASE watched \in INVALIDATIONS[Head(tabIn).type]
  <2>1. missed' \/ Awaited(fetch')
    BY <1>1, RefetchAwaits DEF TabReceives
  <2> QED BY <2>1 DEF FreshInv, Holding
<1>2. CASE watched \notin INVALIDATIONS[Head(tabIn).type]
  <2>1. UNCHANGED <<fetch, missed>>
    BY <1>2 DEF TabReceives
  <2>2. Holding' => Undisturbed
    BY <1>0, <2>1 DEF Holding, Undisturbed, Latest
  <2>3. \A t : HasNews(tabIn, Procs, t, watched) => HasNews(tabIn', Procs, t, watched)
    <3>1. SUFFICES ASSUME NEW t, HasNews(tabIn, Procs, t, watched)
                   PROVE  HasNews(tabIn', Procs, t, watched)
      OBVIOUS
    <3>2. ~ IsNews(Head(tabIn), t, watched)
      BY <1>2 DEF IsNews
    <3>3. HasNews(Tail(tabIn), Procs, t, watched)
      BY <1>0, <3>1, <3>2, TailNews
    <3> QED BY <3>3 DEF TabReceives
  <2>4. NewsFor(conn.cred.tenant) => NewsFor(conn.cred.tenant)'
    BY <1>0, <2>3 DEF NewsFor
  <2> QED BY <1>0, <2>2, <2>4, FreshKept
<1> QED BY <1>1, <1>2

(* The steps that leave what the tab holds and what is on its way. *)
LEMMA FreshIdle ==
  ASSUME FreshInv, UNCHANGED <<db, watched, conn, fetch, cache, missed, pend, inbox, tabIn>>
  PROVE  FreshInv' /\ (Holding' => Undisturbed)
<1>1. Holding' => Undisturbed
  BY DEF Holding, Undisturbed, Latest
<1>2. NewsFor(conn.cred.tenant) => NewsFor(conn.cred.tenant)'
  BY DEF NewsFor
<1> QED BY <1>1, <1>2, FreshKept

(* The tab holds what the server last answered, the news on its way, or a   *)
(* mark that it missed some.                                                *)
LEMMA FreshNext ==
  ASSUME SessionInv, PageInv, OnceInv, TabTypes, FreshInv, OwnInv, [Next]_vars,
         TabTypes', \A u \in Tenants : db[u] <= db'[u]
  PROVE  /\ FreshInv'
         /\ conn' # None => own' <= db'[conn'.cred.tenant]
         /\ Holding' => Latest'.version >= own'
<1>g. SessionInv /\ FreshInv /\ OwnInv /\ TabTypes /\ TabTypes' /\ OnceInv
      /\ \A u \in Tenants : db[u] <= db'[u]
  OBVIOUS
<1> DEFINE Goal == /\ FreshInv'
                   /\ conn' # None => own' <= db'[conn'.cred.tenant]
                   /\ Holding' => Latest'.version >= own'
<1> SUFFICES Goal
  OBVIOUS
<1>s. ASSUME FreshInv' /\ (Holding' => Undisturbed), UNCHANGED own,
             conn' # None => conn # None /\ conn'.cred = conn.cred
      PROVE  Goal
  BY <1>g, <1>s, OwnKept
<1>n. ASSUME ~ Holding', own' = 0, conn' # None => conn'.cred \in Credentials PROVE Goal
  <2>1. FreshInv'
    BY <1>n DEF FreshInv
  <2>2. conn' # None => own' <= db'[conn'.cred.tenant]
    <3>1. SUFFICES ASSUME conn' # None PROVE 0 <= db'[conn'.cred.tenant]
      BY <1>n
    <3>2. db'[conn'.cred.tenant] \in Nat
      BY <1>n, <3>1, ConsoleAssumption DEF TabTypes
    <3> QED BY <3>2
  <2> QED BY <1>n, <2>1, <2>2
<1>1. ASSUME \/ \E c \in Credentials : SetActive(c) \/ TokenExpires(c) \/ SubmitSignIn(c)
             \/ ServeSignIn \/ ServeLoading \/ \E b \in Buttons : Click(b)
             \/ UNCHANGED vars
      PROVE  Goal
  <2>1. UNCHANGED <<db, watched, conn, fetch, cache, missed, pend, inbox, tabIn, own>>
    BY <1>1 DEF SetActive, TokenExpires, SubmitSignIn, ServeSignIn, ServeLoading, Click,
                vars, Remains, stream, query, back
  <2> QED BY <1>s, <2>1, FreshIdle
<1>2. CASE EndSignIn \/ Logout \/ EndLoading
  <2>1. UNCHANGED <<db, watched, pend, inbox>>
    BY <1>2 DEF EndSignIn, Logout, EndLoading, back
  <2>2. Remains \/ \E s \in Sessions \cup {None} : SetBoth(s)
    <3>1. signin # None => Shown(signin.cred, signin.cred.role) \in Sessions
      BY ShownSession DEF SessionInv, SignIn
    <3>2. loading # None => Shown(loading.base.cred, loading.base.cred.role) \in Sessions
      BY ShownSession DEF SessionInv, Load, Sessions
    <3> QED BY <1>2, <3>1, <3>2 DEF EndSignIn, Logout, EndLoading
  <2>3. CASE Remains
    <3>1. UNCHANGED <<conn, fetch, cache, missed, tabIn, own>>
      BY <2>3 DEF Remains, stream, query
    <3> QED BY <1>s, <2>1, <3>1, FreshIdle
  <2>4. CASE conn' = None
    BY <2>4 DEF FreshInv, Holding
  <2>5. CASE own' = 0 /\ (Awaited(fetch') \/ missed')
    BY <1>n, <2>5 DEF Holding, TabTypes, Streams
  <2> QED BY <2>2, <2>3, <2>4, <2>5, ShellTypes
<1>3. CASE Reload
  <2>1. own' = 0 /\ (conn' = None \/ Awaited(fetch'))
    BY <1>3 DEF Reload, Sent, NoFetch, Awaited
  <2> QED BY <1>n, <2>1 DEF Holding, TabTypes, Streams
<1>4. ASSUME NEW p \in Procs, NEW t \in Tenants, NEW k \in DOMAIN EventOf, Write(p, t, k)
      PROVE  Goal
  <2>1. /\ UNCHANGED <<watched, conn, fetch, cache, tabIn, own>>
        /\ missed' = (missed \/ Unannounced(t, k))
    BY <1>4 DEF Write, stream, query
  <2>2. PICK id : id = <<"other", budget.writes>>
    OBVIOUS
  <2>3. id \in EventIds
    BY <2>2 DEF EventIds, OnceInv, QueueTypes
  <2>4. Commit(p, t, k, id)
    BY <1>4, <2>2 DEF Write
  <2> QED BY <1>s, <2>1, <2>3, <2>4, FreshCommit DEF OnceInv
<1>5. ASSUME NEW p \in Procs, Publish(p) PROVE Goal
  <2>1. UNCHANGED <<conn, own>>
    BY <1>5 DEF Publish, query
  <2> QED BY <1>s, <1>5, <2>1, FreshPublish
<1>6. CASE OnRedisMessage
  <2>1. UNCHANGED <<conn, own>>
    BY <1>6 DEF OnRedisMessage, query
  <2> QED BY <1>s, <1>6, <2>1, FreshRedis
<1>7. CASE TabReceives
  <2>1. UNCHANGED <<conn, own>>
    BY <1>7 DEF TabReceives
  <2> QED BY <1>g, <1>s, <1>7, <2>1, FreshReceives
<1>8. CASE StreamUp \/ StreamBreaks
  <2>0. ~ missed' => ~ missed /\ tabIn' = tabIn
    <3>1. \/ UNCHANGED <<tabIn, missed>>
          \/ missed' = (missed \/ tabIn # << >>) /\ tabIn' = << >>
      BY <1>8 DEF StreamUp, StreamBreaks
    <3> QED BY <3>1
  <2>1. /\ UNCHANGED <<db, watched, fetch, cache, own, pend, inbox>> /\ conn # None
        /\ ~ missed' => ~ missed /\ tabIn' = tabIn
    BY <1>8, <2>0 DEF StreamUp, StreamBreaks, back, query
  <2>2. conn'.cred = conn.cred
    BY <1>8 DEF StreamUp, StreamBreaks, TabTypes, Streams
  <2>3. Holding' => Undisturbed /\ tabIn' = tabIn
    BY <2>1, <2>2 DEF Holding, Undisturbed, Latest
  <2>4. tabIn' = tabIn => (NewsFor(conn.cred.tenant) => NewsFor(conn.cred.tenant)')
    BY <2>1, <2>2 DEF NewsFor
  <2> QED BY <1>s, <2>1, <2>2, <2>3, <2>4, FreshKept
<1>9. CASE FetchArrives \/ FetchRetries
  <2>1. UNCHANGED <<db, watched, conn, own, pend, inbox, tabIn>>
    BY <1>9 DEF FetchArrives, FetchRetries, back, stream
  <2>2. Holding' => Undisturbed
    <3>1. CASE FetchRetries
      BY <3>1 DEF FetchRetries, Sent, NoFetch, Holding, Awaited
    <3>2. CASE FetchArrives
      <4>1. missed' \/ Awaited(fetch') \/ (/\ fetch.at = "answered" /\ fetch'.at = "idle"
                                            /\ cache' = fetch.data /\ missed' = missed)
        BY <3>2 DEF FetchArrives, NoFetch, Awaited, TabTypes, FetchRow
      <4> QED BY <2>1, <4>1 DEF Holding, Undisturbed, Latest, Awaited
    <3> QED BY <1>9, <3>1, <3>2
  <2>3. NewsFor(conn.cred.tenant) => NewsFor(conn.cred.tenant)'
    BY <2>1 DEF NewsFor
  <2> QED BY <1>s, <2>1, <2>2, <2>3, FreshKept
<1>10. CASE FetchServed
  <2>1. UNCHANGED <<db, conn, own>>
    BY <1>10 DEF FetchServed, back, stream
  <2>2. conn' # None => own' <= db'[conn'.cred.tenant]
    BY <2>1 DEF OwnInv
  <2>3. CASE ~ Accepts(fetch.cred)
    <3>1. fetch'.at = "answered" /\ fetch'.data = None
      BY <1>10, <2>3 DEF FetchServed, TabTypes, FetchRow
    <3> QED BY <2>2, <3>1 DEF FreshInv, Holding, Latest
  <2>4. CASE Accepts(fetch.cred)
    <3>1. PICK t : t = fetch.cred.tenant
      OBVIOUS
    <3>2. fetch'.at = "answered" /\ fetch'.data = Data(t, db[t])
      BY <1>10, <2>4, <3>1 DEF FetchServed, TabTypes, FetchRow
    <3>3. Latest' = Data(t, db[t])
      BY <3>2 DEF Latest
    <3>4. Latest'.tenant = t /\ Latest'.version = db[t]
      BY <3>3 DEF Data
    <3>5. Holding' => conn' # None /\ Latest'.version = db[conn'.cred.tenant]
      BY <3>4 DEF Holding
    <3>6. FreshInv'
      BY <2>1, <3>5 DEF FreshInv
    <3>7. Holding' => Latest'.version >= own'
      <4>1. SUFFICES ASSUME Holding' PROVE Latest'.version >= own
        BY <2>1
      <4>2. PICK ct \in Tenants : ct = conn.cred.tenant
        BY <2>1, <3>5, <4>1, ConsoleAssumption DEF TabTypes, Streams
      <4>3. own <= db[ct] /\ Latest'.version = db[ct]
        BY <2>1, <3>5, <4>1, <4>2 DEF OwnInv
      <4>4. PICK n \in Nat, m \in Nat : n = db[ct] /\ m = own
        BY DEF TabTypes
      <4>5. n >= m
        BY <4>3, <4>4
      <4> QED BY <4>3, <4>4, <4>5
    <3> QED BY <2>2, <3>6, <3>7
  <2> QED BY <2>3, <2>4
<1>11. CASE ServeClick
  <2>0. /\ UNCHANGED <<watched, conn, fetch, cache, tabIn, own>>
        /\ page # None /\ page \in PageRow
    BY <1>11 DEF ServeClick, stream, query, PageInv
  <2>1. CASE UNCHANGED <<back, missed>>
    BY <1>s, <2>0, <2>1, FreshIdle DEF back
  <2>2. ASSUME Accepts(page.cred), page.button.write # "none",
               Commit(Api, page.cred.tenant, page.button.write, <<"own", budget.user>>),
               missed' = (missed \/ Unannounced(page.cred.tenant, page.button.write))
        PROVE  Goal
    <3>1. page.cred.tenant \in Tenants /\ page.button.write \in DOMAIN EventOf
      BY <2>0, <2>2, ConsoleAssumption DEF Accepts, PageRow, ButtonRow
    <3>2. PICK id : id = <<"own", budget.user>>
      OBVIOUS
    <3>3. id \in EventIds
      BY <3>2 DEF EventIds, OnceInv, QueueTypes
    <3>4. FreshInv' /\ (Holding' => Undisturbed)
      BY <2>0, <2>2, <3>1, <3>2, <3>3, FreshCommit, ConsoleAssumption DEF OnceInv
    <3> QED BY <1>s, <2>0, <3>4
  <2>3. CASE Accepts(page.cred) /\ Permits(page.cred.role, page.button)
               /\ page.button.write # "none"
    BY <1>11, <2>2, <2>3 DEF ServeClick
  <2>4. CASE ~ (Accepts(page.cred) /\ Permits(page.cred.role, page.button)
               /\ page.button.write # "none")
    <3>1. UNCHANGED <<back, missed>>
      BY <1>11, <2>4 DEF ServeClick, TabTypes
    <3> QED BY <2>1, <3>1
  <2> QED BY <2>3, <2>4
<1>12. CASE EndClick
  <2>0. UNCHANGED <<db, watched, conn, cache, pend, inbox, tabIn>> /\ page # None
        /\ page \in PageRow
    BY <1>12 DEF EndClick, back, stream, PageInv
  <2>1. CASE Confirms
    <3>1. Refreshed /\ conn # None /\ conn.cred.tenant = page.cred.tenant
      BY <2>1 DEF Confirms, Listens
    <3>2. react # None
      BY <3>1 DEF TabTypes
    <3>3. (missed' \/ Awaited(fetch')) /\ own' = page.version
      <4>1. own' = page.version
        BY <1>12, <2>1 DEF EndClick
      <4>2. Refetch
        BY <1>12, <3>1, <3>2 DEF EndClick
      <4> QED BY <1>g, <4>1, <4>2, RefetchAwaits
    <3>4. own' <= db'[conn'.cred.tenant]
      BY <2>0, <3>1, <3>3 DEF OwnInv, Refreshed
    <3> QED BY <3>3, <3>4 DEF FreshInv, Holding
  <2>2. CASE ~ Confirms
    <3>1. own' = own
      BY <1>12, <2>2 DEF EndClick
    <3>2. CASE missed' \/ Awaited(fetch')
      <4>1. FreshInv' /\ (Holding' => Undisturbed)
        BY <3>2 DEF FreshInv, Holding
      <4> QED BY <1>s, <2>0, <3>1, <4>1
    <3>3. CASE UNCHANGED <<fetch, missed>>
      BY <1>s, <2>0, <3>1, <3>3, FreshIdle
    <3>4. (missed' \/ Awaited(fetch')) \/ UNCHANGED <<fetch, missed>>
      BY <1>g, <1>12, RefetchAwaits DEF EndClick
    <3> QED BY <3>2, <3>3, <3>4
  <2> QED BY <2>1, <2>2
<1> HIDE DEF Goal
<1> QED
  BY <1>1, <1>2, <1>3, <1>4, <1>5, <1>6, <1>7, <1>8, <1>9, <1>10, <1>11, <1>12 DEF Next

-----------------------------------------------------------------------------
(* The whole *)

(* A click answered with success wrote what its version says, or nothing.   *)
LEMMA PageOwnNext ==
  ASSUME PageInv, OwnInv, TabTypes, TabTypes', \A u \in Tenants : db[u] <= db'[u],
         [Next]_vars
  PROVE  page' # None /\ page'.verdict = "ok" =>
           page'.cred \in Credentials /\ page'.version <= db'[page'.cred.tenant]
<1>1. CASE ServeClick
  <2>1. page \in PageRow /\ page # None
    BY <1>1 DEF ServeClick, PageInv
  <2>2. PICK v, n : /\ page' = [page EXCEPT !.verdict = v, !.version = n]
                    /\ v = "ok" => Accepts(page.cred) /\ n = db'[page.cred.tenant]
    <3> DEFINE c == page.cred
               g == Accepts(c) /\ Permits(c.role, page.button)
               v == IF ~ Accepts(c) THEN "401" ELSE IF g THEN "ok" ELSE "403"
               n == IF g THEN db'[c.tenant] ELSE 0
    <3>1. page' = [page EXCEPT !.verdict = v, !.version = n]
      BY <1>1 DEF ServeClick
    <3>2. v = "ok" => Accepts(c) /\ n = db'[c.tenant]
      OBVIOUS
    <3> HIDE DEF v, n
    <3> QED BY <3>1, <3>2
  <2>3. page'.cred = page.cred /\ page'.verdict = v /\ page'.version = n
    BY <2>1, <2>2 DEF PageRow
  <2>4. SUFFICES ASSUME v = "ok"
                 PROVE  page.cred \in Credentials /\ n <= db'[page.cred.tenant]
    BY <2>3
  <2>5. page.cred \in Credentials
    BY <2>1, <2>2, <2>4 DEF Accepts, PageRow
  <2>6. PICK t \in Tenants : t = page.cred.tenant
    BY <2>5, ConsoleAssumption
  <2>7. n = db'[t] /\ db'[t] \in Nat
    BY <2>2, <2>4, <2>6 DEF TabTypes
  <2>8. n <= db'[t]
    BY <2>7
  <2> QED BY <2>5, <2>6, <2>8
<1>2. CASE ~ ServeClick
  <2>1. page' \in {page, None} \/ page'.verdict = ""
    <3>1. ASSUME NEW b \in Buttons, Click(b) PROVE page'.verdict = ""
      BY <3>1 DEF Click
    <3>2. ASSUME \/ \E c \in Credentials : SetActive(c) \/ TokenExpires(c) \/ SubmitSignIn(c)
                 \/ ServeSignIn \/ EndSignIn \/ Logout \/ Reload \/ ServeLoading \/ EndLoading
                 \/ \E p \in Procs : \/ \E t \in Tenants, k \in DOMAIN EventOf : Write(p, t, k)
                                     \/ Publish(p)
                 \/ OnRedisMessage \/ StreamUp \/ StreamBreaks \/ TabReceives \/ FetchServed
                 \/ FetchArrives \/ FetchRetries \/ EndClick \/ UNCHANGED vars
          PROVE  page' \in {page, None}
      BY <3>2 DEF SetActive, TokenExpires, SubmitSignIn, ServeSignIn, EndSignIn, Logout,
                  Reload, ServeLoading, EndLoading, Write, Publish, OnRedisMessage, StreamUp,
                  StreamBreaks, TabReceives, FetchServed, FetchArrives, FetchRetries, EndClick, vars
    <3> QED BY <1>2, <3>1, <3>2 DEF Next
  <2> QED BY <2>1, PageOwnKept
<1> QED BY <1>1, <1>2

(* A tab just opened: nothing is on its way, and the first fetch starts.    *)
LEMMA ConsoleInit == Init => ConsoleInv
<1> SUFFICES ASSUME Init PROVE ConsoleInv
  OBVIOUS
<1>1. SessionInv
  BY SessionInit
<1>2. PageInv
  BY DEF Init, PageInv
<1>3. OnceInv
  <2>1. PICK s \in Scenarios : /\ budget = [user |-> s.user, writes |-> s.writes]
                               /\ watched = s.watched
    BY DEF Init
  <2>2. budget \in [user : Nat, writes : Nat] /\ watched \in Queries
    BY <2>1, ConsoleAssumption
  <2>3. /\ pend \in [Procs -> Seq(EventRow)] /\ \A p \in Procs : pend[p] = << >>
        /\ inbox = << >> /\ tabIn = << >> /\ heard = << >>
    BY EmptyIds DEF Init
  <2>4. QueueTypes
    BY <2>2, <2>3, EmptyIds DEF QueueTypes
  <2>5. /\ \A p \in Procs : Pending(p) = {} /\ Distinct(pend[p], Procs)
        /\ Foreign = {} /\ Streamed = {} /\ Heard = {}
        /\ Distinct(inbox, Procs \ {Api}) /\ Distinct(tabIn, Procs)
    BY <2>3, EmptyIds DEF Pending, Foreign, Streamed, Heard
  <2>6. OncePlaced
    BY <2>3, <2>5 DEF OncePlaced
  <2>7. Disjoint /\ UsedInv
    BY <2>5 DEF Disjoint, UsedInv
  <2> QED BY <2>4, <2>6, <2>7 DEF OnceInv
<1>4. TabTypes
  <2>1. conn \in Streams \cup {None}
        /\ (conn = None <=> react = None)
    BY <1>1, OpensTyped DEF Init, SessionInv
  <2>2. fetch \in FetchRow
    <3>1. store # None => Sent(store, 1) \in FetchRow
      BY <1>1, SentTyped DEF SessionInv
    <3>2. NoFetch \in FetchRow
      BY DEF NoFetch, FetchRow
    <3> QED BY <3>1, <3>2 DEF Init
  <2> QED BY <2>1, <2>2 DEF Init, TabTypes
<1>5. ~ Holding
  BY DEF Init, Holding, Sent, NoFetch, Awaited
<1>6. conn # None => own <= db[conn.cred.tenant]
  <2>1. SUFFICES ASSUME conn # None PROVE 0 <= db[conn.cred.tenant]
    BY DEF Init
  <2>2. db[conn.cred.tenant] \in Nat
    BY <1>4, <2>1, ConsoleAssumption DEF TabTypes, Streams
  <2> QED BY <2>2
<1>7. page = None
  BY DEF Init
<1> QED BY <1>1, <1>2, <1>3, <1>4, <1>5, <1>6, <1>7 DEF ConsoleInv, FreshInv, OwnInv

(* Each part is kept, with the help of the ones before it. *)
LEMMA ConsoleNext == ConsoleInv /\ [Next]_vars => ConsoleInv'
<1> SUFFICES ASSUME ConsoleInv, [Next]_vars PROVE ConsoleInv'
  OBVIOUS
<1>1. SessionInv /\ PageInv /\ OnceInv /\ TabTypes /\ FreshInv /\ OwnInv
  BY DEF ConsoleInv
<1>2. SessionInv'
  BY <1>1, SessionNext
<1>3. TabTypes' /\ \A u \in Tenants : db[u] <= db'[u]
  BY <1>1, TabTypesNext
<1>4. watched \in Queries /\ db' \in [Tenants -> Nat]
  BY <1>1, <1>3 DEF OnceInv, QueueTypes, TabTypes
<1>5. PageInv'
  BY <1>1, <1>4, PageNext
<1>6. OnceInv'
  BY <1>1, <1>5, OnceNext
<1>7. FreshInv' /\ OwnInv'
  BY <1>1, <1>3, FreshNext, PageOwnNext DEF OwnInv
<1> QED BY <1>2, <1>3, <1>5, <1>6, <1>7 DEF ConsoleInv

(* The inductive invariant of the console, whatever the order in which      *)
(* answers, events and clicks come.                                         *)
THEOREM ConsoleInvariance == Spec => []ConsoleInv
BY ConsoleInit, ConsoleNext, PTL DEF Spec

(* RoleGate.tsx and auth.guard.ts:81-94: a button that a gate offers is     *)
(* never answered with 403, although the gate looks at the screen's role    *)
(* and the guard at the credential that was sent.                           *)
THEOREM OfferedAllowed == Spec => []OfferedIsAllowed
<1>1. ConsoleInv => OfferedIsAllowed
  BY DEF ConsoleInv, PageInv, OfferedIsAllowed
<1> QED BY <1>1, ConsoleInvariance, PTL

(* A sequence without repetition is as long as it has elements. *)
LEMMA DistinctLength ==
  ASSUME NEW S, NEW s \in Seq(S), \A i, j \in DOMAIN s : s[i] = s[j] => i = j
  PROVE  Cardinality({ s[i] : i \in DOMAIN s }) = Len(s)
<1> DEFINE T == { s[i] : i \in 1 .. Len(s) }
<1>1. Len(s) \in Nat /\ DOMAIN s = 1 .. Len(s) /\ s \in [1 .. Len(s) -> T]
  OBVIOUS
<1>2. s \in Surjection(1 .. Len(s), T)
  BY <1>1 DEF Surjection
<1>3. s \in Injection(1 .. Len(s), T)
  BY <1>1 DEF Injection, IsInjective
<1>4. IsFiniteSet(1 .. Len(s)) /\ Cardinality(1 .. Len(s)) = Len(s)
  <2>1. PICK n \in Nat : n = Len(s)
    BY <1>1
  <2>2. IsFiniteSet(1 .. n) /\ Cardinality(1 .. n) = IF 1 > n THEN 0 ELSE n - 1 + 1
    BY FS_Interval
  <2> QED BY <2>1, <2>2
<1>5. Cardinality(T) = Cardinality(1 .. Len(s))
  BY <1>2, <1>3, <1>4, FS_Surjection
<1> QED BY <1>1, <1>4, <1>5

(* events.service.ts:55-58: an event reaches the tab directly or over       *)
(* Redis, never both ways, so that the tab hears of it once at most.        *)
THEOREM EventsDeliveredOnce == Spec => []DeliveredOnce
<1>1. ConsoleInv => DeliveredOnce
  BY DistinctLength DEF ConsoleInv, OnceInv, QueueTypes, OncePlaced, DeliveredOnce
<1> QED BY <1>1, ConsoleInvariance, PTL

(* realtime.ts:47-49: with nothing under way the watched query is up to     *)
(* date, unless the tab has missed an update: no news is lost between a     *)
(* fetch that is answered and the event that would have restarted it, save  *)
(* while the very first answer is on its way.                               *)
THEOREM QueryCurrent == Spec => []CacheCurrent
<1>1. ConsoleInv => CacheCurrent
  <2> SUFFICES ASSUME ConsoleInv, Settled, ~ Underway(conn.cred.tenant)
               PROVE  cache.version = db[conn.cred.tenant]
    BY DEF CacheCurrent
  <2>1. fetch.at = "idle" /\ tabIn = << >>
    BY DEF Underway
  <2>2. conn # None
    BY DEF Settled, ConsoleInv, TabTypes
  <2>3. Holding /\ Latest = cache
    BY <2>1, <2>2 DEF Settled, Holding, Awaited, Latest
  <2>4. ~ NewsFor(conn.cred.tenant)
    BY <2>1 DEF Underway, NewsFor, HasNews, IsNews
  <2> QED BY <2>3, <2>4 DEF ConsoleInv, FreshInv
<1> QED BY <1>1, ConsoleInvariance, PTL

(* order-hooks.ts:37-42: once the fetch that a success message starts has   *)
(* arrived, the query shows the write the message was about.                *)
THEOREM OwnWriteShown == Spec => []OwnWritesShown
<1>1. ConsoleInv => OwnWritesShown
  BY DEF ConsoleInv, TabTypes, OwnInv, OwnWritesShown, Holding, Awaited, Latest
<1> QED BY <1>1, ConsoleInvariance, PTL

(* The server's variables: keys that are revoked and tokens that are good. *)
GuardInv == inactive \subseteq Credentials /\ tokens \subseteq Credentials

(* App.tsx, realtime.ts: every variable has its type, and the shell with    *)
(* its stream lives exactly while someone is signed in, by whatever way     *)
(* they leave.                                                              *)
THEOREM ConsoleTyped == Spec => []TypeOK
<1>1. Init => GuardInv
  BY DEF Init, GuardInv
<1>2. ConsoleInv /\ GuardInv /\ [Next]_vars => GuardInv'
  <2> SUFFICES ASSUME ConsoleInv, GuardInv, [Next]_vars PROVE GuardInv'
    OBVIOUS
  <2>1. ASSUME NEW c \in Credentials, SetActive(c) \/ TokenExpires(c) PROVE GuardInv'
    BY <2>1 DEF SetActive, TokenExpires, GuardInv
  <2>2. CASE ServeSignIn
    <3>1. signin.cred \in Credentials
      BY <2>2 DEF ServeSignIn, ConsoleInv, SessionInv, SignIn
    <3>2. tokens' \in {tokens, tokens \cup {signin.cred}} /\ UNCHANGED inactive
      BY <2>2 DEF ServeSignIn
    <3> QED BY <3>1, <3>2 DEF GuardInv
  <2>3. CASE UNCHANGED <<inactive, tokens>>
    BY <2>3 DEF GuardInv
  <2>4. ASSUME \/ \E c \in Credentials : SubmitSignIn(c)
               \/ EndSignIn \/ Logout \/ Reload \/ ServeLoading \/ EndLoading
               \/ \E p \in Procs : \/ \E t \in Tenants, k \in DOMAIN EventOf : Write(p, t, k)
                                   \/ Publish(p)
               \/ OnRedisMessage \/ StreamUp \/ StreamBreaks \/ TabReceives \/ FetchServed
               \/ FetchArrives \/ FetchRetries \/ ServeClick \/ EndClick
               \/ \E b \in Buttons : Click(b)
               \/ UNCHANGED vars
        PROVE  UNCHANGED <<inactive, tokens>>
    BY <2>4 DEF SubmitSignIn, EndSignIn, Logout, Reload, ServeLoading, EndLoading, Write,
                Publish, OnRedisMessage, StreamUp, StreamBreaks, TabReceives, FetchServed,
                FetchArrives, FetchRetries, ServeClick, EndClick, Click, vars, server
  <2> QED BY <2>1, <2>2, <2>3, <2>4 DEF Next
<1>3. ConsoleInv /\ GuardInv => TypeOK
  BY DEF ConsoleInv, GuardInv, SessionInv, Sessions, TabTypes, DataRow, TypeOK
<1> QED BY <1>1, <1>2, <1>3, ConsoleInvariance, PTL DEF Spec
=============================================================================
