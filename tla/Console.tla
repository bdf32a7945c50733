------------------------------- MODULE Console -------------------------------
(***************************************************************************)
(* One tab of the web console and the servers behind it: signing in and    *)
(* out (AuthContext.tsx, auth-store.ts, api.ts, auth.guard.ts), the gates  *)
(* on its buttons (RoleGate.tsx), and the live updates that keep its       *)
(* queries fresh (events.service.ts, realtime.ts).                         *)
(*                                                                         *)
(* The tab keeps its credentials twice: `store` is the module variable     *)
(* mirrored in localStorage, which every request reads, and `react` the    *)
(* state the screen is drawn from.  Requests are answered when the server  *)
(* pleases, in any order, and a reload drops them.  Events reach the tab   *)
(* from its own API process directly and from the other processes over     *)
(* Redis, on a best-effort basis.                                          *)
(*                                                                         *)
(* One query of the console is watched.  The library that caches queries   *)
(* (external, @tanstack/react-query 5) starts a new fetch of a query that  *)
(* is invalidated, dropping one under way if it has data to show meanwhile *)
(* and otherwise waiting for that one; it retries a failed fetch once.     *)
(***************************************************************************)
EXTENDS Integers, Sequences, FiniteSets

CONSTANTS
  Credentials,  \* [kind, tenant, role, name]: API keys, users, dev tenants
  Tenants,
  Procs, Api,   \* server processes; the tab's streams are served by Api
  None,
  Scenarios     \* bounds: [user, writes] steps of people and of the back end,
                \* the query watched, AUTH_REQUIRED and the credentials stored

Roles == {"READ_ONLY", "OPERATOR", "ADMIN"}
Queries == {"orders", "snapshots", "report"}
SignIn == [cred : Credentials, verdict : {"", "ok", "401"}]
Streams == [cred : Credentials, at : {"connecting", "open", "closed"}]

(* What localStorage has is what an earlier sign-in left there: the role of  *)
(* the credential, or the one a sign-in begins with.                         *)
ASSUME ConsoleAssumption ==
  /\ Api \in Procs /\ None \notin Credentials \cup SignIn \cup Streams
  /\ \A c \in Credentials : c.tenant \in Tenants /\ c.role \in Roles
  /\ \A s \in Scenarios :
       /\ s.user \in Nat /\ s.writes \in Nat /\ s.watched \in Queries
       /\ s.store = None \/ \E c \in Credentials, role \in Roles :
                              /\ s.store = [cred |-> c, role |-> role]
                              /\ role \in {"READ_ONLY", c.role}

RANK == [READ_ONLY |-> 0, OPERATOR |-> 1, ADMIN |-> 2]

VARIABLES
  budget, watched,   \* bounds left; the query that is watched
  authRequired, inactive, tokens,  \* server: AUTH_REQUIRED, revoked keys,
                                   \* users with a token that is not expired
  store, react,      \* None or [cred, role]
  signin, loading,   \* GET /auth/me or POST /auth/login of a sign-in, and
                     \* GET /auth/me of the page load: None or a call
  page,              \* a click on its way: None or a call
  db, pend, inbox,   \* per tenant: version of what the watched query shows;
                     \* per process: events to publish; Redis messages to Api
  conn, tabIn, heard,  \* the EventSource, messages under way, ids received
  fetch, cache,      \* the watched query: its fetch and its data
  own, missed        \* version of the tab's own last confirmed write; has an
                     \* update escaped the tab

session == <<store, react, signin, loading>>
server == <<authRequired, inactive, tokens>>
back == <<db, pend, inbox>>
stream == <<conn, tabIn, heard>>
query == <<fetch, cache, own>>
vars == <<budget, watched, server, session, page, back, stream, query, missed>>

Shown(c, role) == [cred |-> c, role |-> role]
Data(t, version) == [tenant |-> t, version |-> version]

(* A fetch: with which credential it was sent, for the how manieth time,    *)
(* and what the server answered (None: refused).                            *)
NoFetch == [at |-> "idle", cred |-> None, tries |-> 0, data |-> None]
Sent(s, tries) ==
  [NoFetch EXCEPT !.at = "sent", !.tries = tries,
                  !.cred = IF s = None THEN None ELSE s.cred]
Opens(s) == [cred |-> s.cred, at |-> "connecting"]

(* A button: the prefix of its path the guard looks at, the role its        *)
(* RoleGate demands, what it changes and which of the queries that may be   *)
(* watched it refreshes.                                                    *)
Button(path, min, write, refreshes) ==
  [path |-> path, min |-> min, write |-> write, refreshes |-> refreshes]
Ungated == "READ_ONLY"

(* The buttons of the pages, those for what no watched query shows as       *)
(* "none".  What a handler moves besides its main write (the stock a cancel *)
(* frees) is a write of its own, as if by another request.                  *)
OrderButtons ==
  { Button("/", "OPERATOR", k, {"orders", "report"}) :
      k \in {"transition", "source", "movement"} }
CreateOrderButton == { Button("/", "OPERATOR", "create", {"orders"}) }
CreateReturnButton == { Button("/", "OPERATOR", "none", {}) }
ShipmentButtons == { Button("/", "OPERATOR", "transition", {"report"}) }
ReturnButtons == { Button("/", "OPERATOR", "movement", {"report"}) }
InventoryButtons == { Button("/", "OPERATOR", "movement", {"snapshots", "report"}) }
TransferButton == { Button("/", "OPERATOR", "movement", {"snapshots", "report"}) }
SkuButtons == { Button("/", "OPERATOR", "none", {}) }
LocationButtons == { Button("/", "OPERATOR", "none", {}) }
RuleButtons == { Button("/", "OPERATOR", "none", {}) }
DrainButton == { Button("/", "OPERATOR", "none", {}) }
ChannelButtons == { Button("/channels", "ADMIN", "none", {}) }
(* No gate guards the import, the administration page and the assistant. *)
ImportButton == { Button("/channels", Ungated, "movement", {"snapshots"}) }
KeyButtons == { Button("/admin", Ungated, "none", {}) }
RepairButton == { Button("/admin", Ungated, "repair", {}) }
AskButton == { Button("/", Ungated, "none", {}) }
Buttons ==
  OrderButtons \cup CreateOrderButton \cup CreateReturnButton
    \cup ShipmentButtons \cup ReturnButtons \cup InventoryButtons
    \cup TransferButton \cup SkuButtons \cup LocationButtons \cup RuleButtons
    \cup DrainButton \cup ChannelButtons \cup ImportButton \cup KeyButtons
    \cup RepairButton \cup AskButton

(* Which data each query shows: orders come and go in both of theirs. *)
Shows == [orders |-> {"create", "transition", "source"},
          snapshots |-> {"movement", "source", "repair"},
          report |-> {"create", "transition", "movement", "source", "repair"}]

(* The event a write publishes.  Sourcing moves the order on by itself and  *)
(* announces only the stock it took; a new order is not announced (the      *)
(* reservation that may follow is a movement), nor is a repaired snapshot.  *)
EventOf == [transition |-> "order.status", movement |-> "inventory.atp",
            source |-> "inventory.atp", create |-> "none", repair |-> "none"]

(* Mutant of INVALIDATIONS: stock movements do not refresh the reports. *)
InvalidationsWithoutReport ==
  [type \in {"order.status", "inventory.atp"} |->
     IF type = "order.status" THEN {"orders", "order", "shipments", "report"}
     ELSE {"snapshots", "inbound", "outbox"}]
INVALIDATIONS ==
  [type \in {"order.status", "inventory.atp"} |->
     IF type = "order.status" THEN {"orders", "order", "shipments", "report"}
     ELSE {"snapshots", "inbound", "outbox", "report"}]

TenantOf(s) == s.cred.tenant

(* A tab is opened: it takes what localStorage has, perhaps the READ_ONLY   *)
(* stage of a sign-in that a reload cut short, and asks for its role.       *)
Init ==
  /\ \E s \in Scenarios :
       /\ budget = [user |-> s.user, writes |-> s.writes]
       /\ watched = s.watched /\ authRequired = s.authRequired /\ store = s.store
  /\ inactive = {}
  /\ tokens = { c \in Credentials : c.kind = "user" /\ store # None /\ store.cred = c }
  /\ react = store /\ signin = None
  /\ loading = IF store = None THEN None ELSE [base |-> store, verdict |-> ""]
  /\ page = None
  /\ db = [t \in Tenants |-> 0]
  /\ pend = [p \in Procs |-> << >>] /\ inbox = << >>
  /\ conn = IF react = None THEN None ELSE Opens(store)
  /\ tabIn = << >> /\ heard = << >>
  /\ fetch = IF react = None THEN NoFetch ELSE Sent(store, 1)
  /\ cache = None /\ own = 0 /\ missed = FALSE

People == budget.user > 0 /\ budget' = [budget EXCEPT !.user = @ - 1]

-----------------------------------------------------------------------------
(* The guard *)

(* canActivate: a key must be active; a token is good until it expires,     *)
(* whatever becomes of its user; without either the tenant header is        *)
(* trusted only in development.                                             *)
Accepts(c) ==
  /\ c # None
  /\ CASE c.kind = "key" -> c \notin inactive
       [] c.kind = "user" -> c \in tokens
       [] c.kind = "dev" -> ~ authRequired

(* enforceRbac, for the requests of buttons, none of which is a GET. *)
Permits(role, b) ==
  /\ role # "READ_ONLY"
  /\ b.path \in {"/admin", "/channels"} => role = "ADMIN"

(* ApiKeyService.setActive *)
SetActive(c) ==
  /\ People /\ c.kind = "key"
  /\ inactive' = IF c \in inactive THEN inactive \ {c} ELSE inactive \cup {c}
  /\ UNCHANGED <<watched, authRequired, tokens, session, page, back, stream,
                 query, missed>>

TokenExpires(c) ==
  /\ People /\ c \in tokens
  /\ tokens' = tokens \ {c}
  /\ UNCHANGED <<watched, authRequired, inactive, session, page, back, stream,
                 query, missed>>

-----------------------------------------------------------------------------
(* The session *)

(* App mounts the shell: an EventSource is opened with the stored           *)
(* credentials, and the queries are fetched, unless a fetch is still under  *)
(* way, or data of less than staleTime is cached, whoever either was for;   *)
(* data nobody has looked at for long are gone.                             *)
Mounts(s) ==
  /\ conn' = Opens(s)
  /\ tabIn' = << >> /\ heard' = << >>
  /\ own' = 0
  /\ \/ fetch.at = "idle" /\ fetch' = Sent(s, 1) /\ cache' \in {cache, None}
        /\ missed' = FALSE
     \/ fetch.at = "idle" /\ cache # None /\ UNCHANGED <<fetch, cache>>
        /\ missed' = TRUE
     \/ fetch.at # "idle" /\ UNCHANGED <<fetch, cache>>
        /\ missed' = (fetch.at = "answered")

(* The cleanup of useRealtime closes the stream; cached data stay, and a    *)
(* fetch under way goes on, for nothing aborts it.                          *)
Unmounts ==
  /\ conn' = None /\ tabIn' = << >> /\ heard' = << >>
  /\ own' = 0
  /\ UNCHANGED <<fetch, cache, missed>>
Remains == UNCHANGED <<stream, query, missed>>
Redraws(new) ==
  CASE react = None /\ new # None -> Mounts(new)
    [] react # None /\ new = None -> Unmounts
    [] OTHER -> Remains
SetBoth(new) == store' = new /\ react' = new /\ Redraws(new)

(* signIn stages the key in the store; signInWithPassword stores nothing    *)
(* yet.  LoginScreen submits one at a time.                                 *)
SubmitSignIn(c) ==
  /\ People /\ react = None /\ signin = None
  /\ store' = IF c.kind = "user" THEN store ELSE Shown(c, "READ_ONLY")
  /\ signin' = [cred |-> c, verdict |-> ""]
  /\ UNCHANGED <<watched, server, react, loading, page, back>> /\ Remains

(* /auth/me, or login, which issues a token. *)
ServeSignIn ==
  /\ signin # None /\ signin.verdict = ""
  /\ LET c == signin.cred IN
       \/ /\ c.kind = "user"
          /\ tokens' = tokens \cup {c}
          /\ signin' = [signin EXCEPT !.verdict = "ok"]
       \/ /\ c.kind = "user"     \* a wrong password
          /\ signin' = [signin EXCEPT !.verdict = "401"]
          /\ UNCHANGED tokens
       \/ /\ c.kind # "user"
          /\ signin' = [signin EXCEPT !.verdict = IF Accepts(c) THEN "ok" ELSE "401"]
          /\ UNCHANGED tokens
  /\ UNCHANGED <<budget, watched, authRequired, inactive, store, react, loading,
                 page, back>> /\ Remains

(* Mutant of EndSignIn: a refused key stays staged. *)
EndSignInStaged ==
  /\ signin # None /\ signin.verdict # ""
  /\ signin' = None
  /\ IF signin.verdict = "ok" THEN SetBoth(Shown(signin.cred, signin.cred.role))
     ELSE UNCHANGED <<store, react>> /\ Remains
  /\ UNCHANGED <<budget, watched, server, loading, page, back>>

(* The answer: both copies set, or, after request() has emptied the store,  *)
(* cleared (a refused login leaves the screen as it is).                    *)
EndSignIn ==
  /\ signin # None /\ signin.verdict # ""
  /\ signin' = None
  /\ IF signin.verdict = "ok" THEN SetBoth(Shown(signin.cred, signin.cred.role))
     ELSE IF signin.cred.kind = "user"
          THEN store' = None /\ UNCHANGED react /\ Remains
          ELSE SetBoth(None)
  /\ UNCHANGED <<budget, watched, server, loading, page, back>>

Logout ==
  /\ People /\ react # None
  /\ SetBoth(None)
  /\ UNCHANGED <<watched, server, signin, loading, page, back>>

(* A reload starts over from localStorage. *)
Reload ==
  /\ People
  /\ react' = store /\ signin' = None /\ page' = None
  /\ loading' = IF store = None THEN None ELSE [base |-> store, verdict |-> ""]
  /\ conn' = IF store = None THEN None ELSE Opens(store)
  /\ tabIn' = << >> /\ heard' = << >>
  /\ fetch' = (IF store = None THEN NoFetch ELSE Sent(store, 1))
  /\ cache' = None /\ own' = 0 /\ missed' = FALSE
  /\ UNCHANGED <<watched, server, store, back>>

ServeLoading ==
  /\ loading # None /\ loading.verdict = ""
  /\ loading' = [loading EXCEPT
       !.verdict = IF Accepts(loading.base.cred) THEN "ok" ELSE "401"]
  /\ UNCHANGED <<budget, watched, server, store, react, signin, page, back>>
  /\ Remains

(* Mutant of EndLoading: the role goes to whoever is signed in by now. *)
EndLoadingCurrent ==
  /\ loading # None /\ loading.verdict # ""
  /\ loading' = None
  /\ IF loading.verdict = "401" \/ store = None THEN SetBoth(None)
     ELSE SetBoth(Shown(store.cred, loading.base.cred.role))
  /\ UNCHANGED <<budget, watched, server, signin, page, back>>

(* The effect of the page load: a role that differs replaces both copies,   *)
(* made from the credentials of the load; an error clears both.             *)
EndLoading ==
  /\ loading # None /\ loading.verdict # ""
  /\ loading' = None
  /\ IF loading.verdict = "401" THEN SetBoth(None)
     ELSE IF loading.base.role # loading.base.cred.role
          THEN SetBoth(Shown(loading.base.cred, loading.base.cred.role))
          ELSE UNCHANGED <<store, react>> /\ Remains
  /\ UNCHANGED <<budget, watched, server, signin, page, back>>

-----------------------------------------------------------------------------
(* Writes and their events *)

Event(id, t, type, p) == [id |-> id, tenant |-> t, type |-> type, src |-> p]

(* A write of kind k is committed in process p; its event, if it has one,   *)
(* is published by the next statement.  What the watched query shows has a  *)
(* new version.                                                             *)
Commit(p, t, k, id) ==
  /\ db' = IF k \in Shows[watched] THEN [db EXCEPT ![t] = @ + 1] ELSE db
  /\ pend' = IF EventOf[k] = "none" THEN pend
             ELSE [pend EXCEPT ![p] = Append(@, Event(id, t, EventOf[k], p))]
  /\ UNCHANGED inbox

Listens(t) == conn # None /\ conn.cred.tenant = t

(* Writes no event tells the watched query of: lists of orders do not hear  *)
(* of sourcing, nobody hears of a new order or of a repair.                 *)
Unannounced(t, k) ==
  /\ Listens(t)
  /\ \/ k = "source" /\ watched = "orders"
     \/ k \in Shows[watched] /\ EventOf[k] = "none"

(* Someone else's request or a job. *)
Write(p, t, k) ==
  /\ budget.writes > 0 /\ budget' = [budget EXCEPT !.writes = @ - 1]
  /\ Commit(p, t, k, <<"other", budget.writes>>)
  /\ missed' = (missed \/ Unannounced(t, k))
  /\ UNCHANGED <<watched, server, session, page, stream, query>>

(* streamFor: the events of the stream's tenant go out on it; while the     *)
(* connection is not up they are lost.                                      *)
Sends(e) ==
  IF ~ Listens(e.tenant) THEN UNCHANGED <<tabIn, missed>>
  ELSE IF conn.at = "open" THEN tabIn' = Append(tabIn, e) /\ UNCHANGED missed
       ELSE missed' = TRUE /\ UNCHANGED tabIn

Lost(e) == missed' = (missed \/ Listens(e.tenant))

(* publish: to the streams of this process at once, and to Redis, which     *)
(* passes it to every process (Api is the one that matters here), or fails. *)
Publish(p) ==
  /\ pend[p] # << >>
  /\ LET e == Head(pend[p]) IN
       /\ pend' = [pend EXCEPT ![p] = Tail(@)]
       /\ \/ inbox' = Append(inbox, e)
             /\ IF p = Api THEN Sends(e) ELSE UNCHANGED <<tabIn, missed>>
          \/ UNCHANGED inbox
             /\ IF p = Api THEN Sends(e) ELSE Lost(e) /\ UNCHANGED tabIn
  /\ UNCHANGED <<budget, watched, server, session, page, db, conn, heard, query>>

(* Mutant of OnRedisMessage: a process replays its own echo. *)
OnRedisMessageEcho ==
  /\ inbox # << >>
  /\ inbox' = Tail(inbox) /\ Sends(Head(inbox))
  /\ UNCHANGED <<budget, watched, server, session, page, db, pend, conn, heard,
                 query>>

(* onRedisMessage: replayed on the local streams unless it is an echo. *)
OnRedisMessage ==
  /\ inbox # << >>
  /\ inbox' = Tail(inbox)
  /\ IF Head(inbox).src = Api THEN UNCHANGED <<tabIn, missed>> ELSE Sends(Head(inbox))
  /\ UNCHANGED <<budget, watched, server, session, page, db, pend, conn, heard,
                 query>>

(* The connection opens, or the guard refuses the credential it was made    *)
(* with and EventSource gives up; one that breaks is opened again.          *)
StreamUp ==
  /\ conn # None /\ conn.at = "connecting"
  /\ conn' = [conn EXCEPT !.at = IF Accepts(conn.cred) THEN "open" ELSE "closed"]
  /\ UNCHANGED <<budget, watched, server, session, page, back, tabIn, heard,
                 query, missed>>

StreamBreaks ==
  /\ budget.writes > 0 /\ budget' = [budget EXCEPT !.writes = @ - 1]
  /\ conn # None /\ conn.at = "open"
  /\ conn' = [conn EXCEPT !.at = "connecting"]
  /\ missed' = (missed \/ tabIn # << >>) /\ tabIn' = << >>
  /\ UNCHANGED <<watched, server, session, page, back, heard, query>>

-----------------------------------------------------------------------------
(* The watched query *)

(* invalidateQueries: a new fetch, unless there are no data yet and the     *)
(* first fetch is under way.  That one is kept, and the invalidation is     *)
(* lost if the server has answered it already; a retry is hurried on.       *)
Refetch ==
  IF cache = None /\ fetch.at \in {"sent", "answered"}
  THEN missed' = (missed \/ fetch.at = "answered") /\ UNCHANGED fetch
  ELSE /\ fetch' = Sent(store, IF cache = None /\ fetch.at = "retry" THEN 2 ELSE 1)
       /\ missed' = FALSE

(* onmessage *)
TabReceives ==
  /\ tabIn # << >>
  /\ tabIn' = Tail(tabIn) /\ heard' = Append(heard, Head(tabIn).id)
  /\ IF watched \in INVALIDATIONS[Head(tabIn).type] THEN Refetch
     ELSE UNCHANGED <<fetch, missed>>
  /\ UNCHANGED <<budget, watched, server, session, page, back, conn, cache, own>>

(* The server answers for the credential the fetch was sent with. *)
FetchServed ==
  /\ fetch.at = "sent"
  /\ fetch' = [fetch EXCEPT !.at = "answered",
       !.data = IF Accepts(fetch.cred)
                THEN Data(fetch.cred.tenant, db[fetch.cred.tenant]) ELSE None]
  /\ UNCHANGED <<budget, watched, server, session, page, back, stream, cache, own,
                 missed>>

(* The answer fills the cache, whoever is signed in by now.  A refusal      *)
(* empties the store (and only the store) and is retried once; after that,  *)
(* updates escape until the next fetch.                                     *)
FetchArrives ==
  /\ fetch.at = "answered"
  /\ \/ fetch.data # None /\ fetch' = NoFetch /\ cache' = fetch.data
        /\ UNCHANGED <<store, missed>>
     \/ fetch.data = None /\ fetch.tries = 1 /\ fetch' = [fetch EXCEPT !.at = "retry"]
        /\ store' = None /\ UNCHANGED <<cache, missed>>
     \/ fetch.data = None /\ fetch.tries = 2 /\ fetch' = NoFetch
        /\ store' = None /\ missed' = TRUE /\ UNCHANGED cache
  /\ UNCHANGED <<budget, watched, server, react, signin, loading, page, back, stream, own>>

FetchRetries ==
  /\ fetch.at = "retry" /\ fetch' = Sent(store, 2) /\ missed' = FALSE
  /\ UNCHANGED <<budget, watched, server, session, page, back, stream, cache, own>>

-----------------------------------------------------------------------------
(* Buttons *)

(* RoleGate *)
Offers(s, b) == RANK[s.role] >= RANK[b.min]

Click(b) ==
  /\ People /\ react # None /\ page = None /\ Offers(react, b)
  /\ page' = [cred |-> IF store = None THEN None ELSE store.cred,
              button |-> [b EXCEPT !.refreshes = @ \cap {watched}],
              verdict |-> "", version |-> 0]
  /\ UNCHANGED <<watched, server, session, back>> /\ Remains

(* The guard, then the handler, whose write is an event of process Api. *)
ServeClick ==
  /\ page # None /\ page.verdict = ""
  /\ LET c == page.cred
         b == page.button
         granted == Accepts(c) /\ Permits(c.role, b)
     IN  /\ IF granted /\ b.write # "none"
            THEN Commit(Api, c.tenant, b.write, <<"own", budget.user>>)
            ELSE UNCHANGED back
         /\ missed' = (missed \/ (granted /\ b.write # "none"
                                 /\ Unannounced(c.tenant, b.write)))
         /\ page' = [page EXCEPT
              !.verdict = IF ~ Accepts(c) THEN "401" ELSE
                          IF granted THEN "ok" ELSE "403",
              !.version = IF granted THEN db'[c.tenant] ELSE 0]
  /\ UNCHANGED <<budget, watched, server, session, stream, query>>

Refreshed == page.verdict = "ok" /\ page.button.refreshes # {}
Confirms == Refreshed /\ Listens(page.cred.tenant)

(* Mutant of EndClick: success is reported and nothing refreshed. *)
EndClickUnrefreshed ==
  /\ page # None /\ page.verdict # ""
  /\ page' = None
  /\ store' = IF page.verdict = "401" THEN None ELSE store
  /\ own' = IF Confirms THEN page.version ELSE own
  /\ UNCHANGED <<budget, watched, server, react, signin, loading, back, stream,
                 fetch, cache, missed>>

(* onSuccess invalidates the queries of the page; a 401 empties the store. *)
EndClick ==
  /\ page # None /\ page.verdict # ""
  /\ page' = None
  /\ store' = IF page.verdict = "401" THEN None ELSE store
  /\ own' = IF Confirms THEN page.version ELSE own
  /\ IF Refreshed /\ react # None THEN Refetch ELSE UNCHANGED <<fetch, missed>>
  /\ UNCHANGED <<budget, watched, server, react, signin, loading, back, stream,
                 cache>>

Next ==
  \/ \E c \in Credentials : SetActive(c) \/ TokenExpires(c) \/ SubmitSignIn(c)
  \/ ServeSignIn \/ EndSignIn \/ Logout \/ Reload \/ ServeLoading \/ EndLoading
  \/ \E p \in Procs : \/ \E t \in Tenants, k \in DOMAIN EventOf : Write(p, t, k)
                      \/ Publish(p)
  \/ OnRedisMessage \/ StreamUp \/ StreamBreaks \/ TabReceives
  \/ FetchServed \/ FetchArrives \/ FetchRetries
  \/ \E b \in Buttons : Click(b)
  \/ ServeClick \/ EndClick

Spec == Init /\ [][Next]_vars

-----------------------------------------------------------------------------
(* Types, and the shell lives exactly while someone is signed in: App.tsx   *)
(* unmounts it, and realtime.ts closes its stream, on every way out.        *)
TypeOK ==
  /\ \A s \in {store, react} :
       s = None \/ (s.cred \in Credentials /\ s.role \in Roles)
  /\ inactive \subseteq Credentials /\ tokens \subseteq Credentials
  /\ conn = None <=> react = None
  /\ cache = None \/ (cache.tenant \in Tenants /\ cache.version \in Nat)

(* Requests and screen speak for the same person: outside a sign-in, stored *)
(* credentials are those on the screen (AuthContext.tsx:53-61).             *)
StoreIsShown ==
  store # None /\ signin = None => react = store

(* What a RoleGate lets the screen offer, the guard lets through: the ranks *)
(* of RoleGate.tsx and auth.guard.ts:81-94 agree, although the one reads    *)
(* the screen's copy of the role, whatever late answer of an earlier load   *)
(* or sign-in set it (AuthContext.tsx:95-100), and the other the            *)
(* credential sent.                                                         *)
OfferedIsAllowed ==
  page # None /\ page.button.min # Ungated => page.verdict # "403"

(* events.service.ts:55-58: an event that reaches a stream both directly    *)
(* and over Redis is delivered once.                                        *)
DeliveredOnce ==
  Cardinality({ heard[i] : i \in DOMAIN heard }) = Len(heard)

Underway(t) ==
  \/ \E p \in Procs : \E i \in DOMAIN pend[p] : pend[p][i].tenant = t
  \/ \E i \in DOMAIN inbox : inbox[i].tenant = t
  \/ tabIn # << >> \/ fetch.at # "idle"

Settled ==
  /\ react # None /\ conn.at = "open" /\ ~ missed
  /\ store # None /\ TenantOf(store) = conn.cred.tenant
  /\ cache # None /\ cache.tenant = conn.cred.tenant

(* Live updates (realtime.ts:47-49, "so open views refresh live"): once     *)
(* nothing is under way, a query is up to date with every process's writes, *)
(* whatever fetches, events, sign-ins and reloads crossed on the way.       *)
(* Excused (missed) are an event that was lost since the last fetch, one    *)
(* that came while the answer to the very first fetch was on its way, data  *)
(* kept or a fetch left over from an earlier sign-in, and a refused fetch.  *)
(* The stream is not rebuilt for other credentials, so Settled asks that it *)
(* and the requests speak for one tenant.                                   *)
CacheCurrent ==
  Settled /\ ~ Underway(conn.cred.tenant) =>
    cache.version = db[conn.cred.tenant]

(* onSuccess of the buttons (order-hooks.ts:37-42): after a success message *)
(* and the fetch it starts or waits for, the query shows the tab's own      *)
(* write, events or no events, with the same excuses.                       *)
OwnWritesShown ==
  /\ react # None /\ store # None /\ TenantOf(store) = conn.cred.tenant
  /\ ~ missed /\ fetch.at = "idle" /\ cache # None
  /\ cache.tenant = conn.cred.tenant
  => cache.version >= own
=============================================================================
