------------------------------ MODULE WebClient ------------------------------
(***************************************************************************)
(* The web interface in a browser: its tabs and pages, the requests it has *)
(* sent and not heard of, and what it keeps in the browser's database when *)
(* the page is loaded again.                                               *)
(*                                                                         *)
(* Handlers run to their next await.  The server executes one request at a *)
(* time, in any order of those that were sent, and answers arrive in any   *)
(* order or never.  Clicks come after the effects of the last change of    *)
(* page and after the tabs were restored; answers come at any time.        *)
(*                                                                         *)
(* Every database has at most one table, which every change of tables      *)
(* replaces.  Connections that are refused change nothing and are left     *)
(* out.  The list of ObjectsOverview is left out: it is fetched the way    *)
(* Sidebar's is.                                                           *)
(***************************************************************************)
EXTENDS WebTabs, FiniteSets

CONSTANTS
    Databases,
    Expired,                        \* a connection the server has dropped
    Texts,                          \* what a user writes: see Changes and Shows
    Links,                          \* pages that links, back and forward lead to
    MaxClicks, MaxTabs, MaxRequests, MaxConnects, MaxLoads, MaxFaults  \* bounds

Paths == {"home", "query", "gallery", "object", "objects"}

ASSUME LinksAssumption == Links \subseteq Paths

VARIABLES
    store, path, settled,           \* tabs; the page, and whether its effect has run
    conn, list,                     \* ConnectionId, 0 for none; the tables in the sidebar
    reqs,                           \* requests that are under way
    hydrated, restore,              \* whether the tabs were restored; what is read for that
    writing, stored,                \* what the browser's database is to get, and has
    sessions, tables,               \* the server: connections, and the table of each database
    clicks, tabCount, reqCount, loads, faults, \* counters
    ran,                            \* observer: the last query executed in a tab
    mixed,                          \* observer: tabs with an answer that came after a later one
    refreshed, stale,               \* observers: the last request for the list; it cannot be current
    late, early, lost, kept         \* observers of restoring, see there

page == <<store, path, settled, conn, list>>
database == <<hydrated, restore, writing, stored>>
server == <<sessions, tables>>
counters == <<clicks, tabCount, reqCount, loads, faults>>
answers == <<ran, mixed, refreshed, stale>>
restoring == <<late, early, lost, kept>>
vars == <<page, database, server, counters, reqs, answers, restoring>>

(* Text 1 is a SELECT of pictures, text 2 changes the tables.              *)
Shows(text) == text = 1
Changes(text) == text = 2

Table(db) == IF tables[db] = 0 THEN <<>> ELSE <<db, tables[db]>>

NewRequest(n, kind, tab, id, text, db) ==
    [n |-> n, kind |-> kind, tab |-> tab, id |-> id, text |-> text, db |-> db,
     page |-> TRUE, result |-> "sent", got |-> <<>>]

Request(kind, tab, id, text, db) == NewRequest(reqCount + 1, kind, tab, id, text, db)
FirstRequests(n, id) == IF id = 0 THEN {} ELSE {NewRequest(n, "list", NoTab, id, 0, "none")}

Waiting(kind) == {r \in reqs : r.page /\ r.kind = kind}

-----------------------------------------------------------------------------

(* set() of the store: the new state is written to the database.           *)
Set(st) == store' = st /\ writing' = <<partialize(st)>> /\ early' = FALSE

(* navigate().                                                             *)
Navigate(to) == path' = to /\ settled' = (settled /\ to = path)

(* The effect of Sidebar, when the connection or the version has changed.  *)
Refresh(id, others) ==
    /\ reqCount' = reqCount + 1 /\ refreshed' = reqCount + 1
    /\ IF id = 0
       THEN list' = <<>> ELSE list' = list
    /\ reqs' = others \cup FirstRequests(reqCount + 1, id)
    /\ stale' = FALSE

(* The page is opened, with the connection of an earlier time or none.     *)
Init ==
    /\ store = Empty /\ path \in {"home", "query"} /\ settled = FALSE
    /\ conn \in {0, 1} /\ list = <<>>
    /\ hydrated = FALSE /\ restore = <<>> /\ writing = <<>> /\ stored = <<>>
    /\ sessions \in [1..conn -> Databases] /\ tables \in [Databases -> {0, 1}]
    /\ clicks = 0 /\ tabCount = 0 /\ reqCount = 1 /\ loads = 0 /\ faults = 0
    /\ reqs = FirstRequests(1, conn)
    /\ ran = [t \in {} |-> 0] /\ mixed = {} /\ refreshed = 1 /\ stale = FALSE
    /\ late = FALSE /\ early = FALSE /\ lost = FALSE /\ kept = [t \in {} |-> 0]

-----------------------------------------------------------------------------
(* Clicks                                                                  *)

Click == hydrated /\ settled /\ clicks < MaxClicks /\ clicks' = clicks + 1

(* Links of the top bar, back and forward: any page.                       *)
Go(to) ==
    /\ Click /\ to # path
    /\ Navigate(to)
    /\ UNCHANGED <<store, conn, list, database, server, tabCount, reqCount, loads, faults, reqs, answers, restoring>>

(* New Query and Open Query, whose file may come on another page.          *)
Open(text) ==
    /\ Click /\ tabCount < MaxTabs
    /\ tabCount' = tabCount + 1
    /\ LET id == <<"query", tabCount'>>
       IN /\ Set(addTab(store, TabState(id, text, 0, FALSE, <<>>)))
          /\ kept' = [t \in DOMAIN kept \cup {id} |-> IF t = id THEN text ELSE kept[t]]
    /\ Navigate("query")
    /\ UNCHANGED <<conn, list, hydrated, restore, stored, server, reqCount, loads, faults, reqs, answers, late, lost>>

(* handleTabClick.                                                         *)
Select(id) ==
    /\ Click /\ id \in Ids(store)
    /\ Set(setActiveTab(store, id)) /\ Navigate(id[1])
    /\ UNCHANGED <<conn, list, hydrated, restore, stored, server, tabCount, reqCount, loads, faults, reqs, answers, late, lost, kept>>

(* handleTabClose.                                                         *)
Close(id) ==
    /\ Click /\ id \in Ids(store)
    /\ LET next == closeTab(store, id)
       IN /\ Set(next)
          /\ IF Len(store.tabs) > 1 /\ store.active # id
             THEN UNCHANGED <<path, settled>>
             ELSE Navigate(next.active[1])
    /\ kept' = [t \in DOMAIN kept \ {id} |-> kept[t]]
    /\ ran' = [t \in DOMAIN ran \ {id} |-> ran[t]]
    /\ UNCHANGED <<conn, list, hydrated, restore, stored, server, tabCount, reqCount, loads, faults, reqs, mixed, refreshed, stale, late, lost>>

(* The editor shows the active tab, whatever its type.                     *)
Edit(text) ==
    /\ Click /\ path = "query" /\ Active(store) # {}
    /\ Set(updateActiveTabQuery(store, text))
    /\ kept' = [t \in DOMAIN kept |-> IF t = store.active THEN text ELSE kept[t]]
    /\ UNCHANGED <<path, settled, conn, list, hydrated, restore, stored, server, tabCount, reqCount, loads, faults, reqs, answers, late, lost>>

(* runQuery up to its fetch, from Execute or from Refresh of a gallery.    *)
Run ==
    /\ Click /\ conn # 0 /\ reqCount < MaxRequests
    /\ path = "query" \/ (path = "gallery" /\ store.active[1] = "gallery")
    /\ \E i \in Active(store) :
         /\ Set(setTabLoading(store, store.active))
         /\ reqs' = reqs \cup {Request("query", store.active, conn, store.tabs[i].text, "none")}
    /\ reqCount' = reqCount + 1
    /\ ran' = [t \in DOMAIN ran \cup {store.active} |-> IF t = store.active THEN reqCount' ELSE ran[t]]
    /\ mixed' = mixed \ {store.active}
    /\ UNCHANGED <<path, settled, conn, list, hydrated, restore, stored, server, tabCount, loads, faults, refreshed, stale, late, lost, kept>>

(* A column of pictures is clicked in the results.                         *)
ViewGallery ==
    /\ Click /\ path = "query" /\ tabCount < MaxTabs
    /\ tabCount' = tabCount + 1
    /\ \E i \in Active(store) :
         LET t == store.tabs[i]
             id == <<"gallery", tabCount'>>
         IN /\ t.ok /\ ~t.loading
            /\ Set(addTab(store, TabState(id, t.text, t.answer, TRUE, <<>>)))
            /\ kept' = [k \in DOMAIN kept \cup {id} |-> IF k = id THEN t.text ELSE kept[k]]
    /\ Navigate("gallery")
    /\ UNCHANGED <<conn, list, hydrated, restore, stored, server, reqCount, loads, faults, reqs, answers, late, lost>>

(* A table is clicked in the sidebar.                                      *)
OpenTable ==
    /\ Click /\ list # <<>>
    /\ Set(addObjectTab(store, list)) /\ Navigate("object")
    /\ UNCHANGED <<conn, list, hydrated, restore, stored, server, tabCount, reqCount, loads, faults, reqs, answers, late, lost, kept>>

(* Connect and Reconnect up to their fetch; Disconnect.                    *)
Connect(db) ==
    /\ Click /\ reqCount < MaxRequests /\ Cardinality(DOMAIN sessions) < MaxConnects
    /\ reqs' = reqs \cup {Request("connect", NoTab, 0, 0, db)}
    /\ reqCount' = reqCount + 1
    /\ UNCHANGED <<page, database, server, tabCount, loads, faults, answers, restoring>>

Disconnect ==
    /\ Click /\ conn # 0
    /\ conn' = 0 /\ Refresh(0, reqs)
    /\ UNCHANGED <<store, path, settled, database, server, tabCount, loads, faults, ran, mixed, restoring>>

-----------------------------------------------------------------------------
(* The page and the browser                                                *)

(* The effect of MainLayout.                                               *)
Settle ==
    /\ ~settled
    /\ LET next == PageTab(store, path)
       IN IF path = "query" /\ store.tabs = <<>>
          THEN /\ tabCount' = tabCount + 1
               /\ Set(addTab(store, TabState(<<"query", tabCount'>>, 0, 0, FALSE, <<>>)))
          ELSE /\ tabCount' = tabCount
               /\ IF path = "objects" /\ OfType(store, path) = {}
                  THEN Set(addObjectsOverviewTab(store))
                  ELSE IF next = store THEN UNCHANGED <<store, writing, early>> ELSE Set(next)
    /\ IF Redirected(store, path)
       THEN path' = "query" /\ settled' = FALSE
       ELSE path' = path /\ settled' = TRUE
    /\ late' = FALSE
    /\ UNCHANGED <<conn, list, hydrated, restore, stored, server, clicks, reqCount, loads, faults, reqs, answers, lost, kept>>

(* Faulty variant: what the page has by then is kept. *)
Hydrate_KeepsNew ==
    /\ ~hydrated /\ hydrated' = TRUE /\ restore' = <<>>
    /\ store' = IF restore = <<>> \/ store.tabs # <<>> THEN store ELSE restore[1]
    /\ late' = (settled /\ restore # <<>>)
    /\ early' = (writing # <<>> \/ stored # restore)
    /\ stale' = (stale \/ (conn # 0 /\ Waiting("list") = {}))
    /\ UNCHANGED <<path, settled, conn, list, writing, stored, server, counters, reqs, ran, mixed, refreshed, lost, kept>>

(* The tabs of the last time are there.                                    *)
Hydrate ==
    /\ ~hydrated /\ hydrated' = TRUE /\ restore' = <<>>
    /\ store' = IF restore = <<>> THEN store ELSE restore[1]
    /\ late' = (settled /\ restore # <<>>)
    /\ early' = (writing # <<>> \/ stored # restore)
    /\ stale' = (stale \/ (conn # 0 /\ Waiting("list") = {}))
    /\ UNCHANGED <<path, settled, conn, list, writing, stored, server, counters, reqs, ran, mixed, refreshed, lost, kept>>

Write ==
    /\ writing # <<>> /\ loads < MaxLoads
    /\ stored' = writing /\ writing' = <<>>
    /\ UNCHANGED <<page, hydrated, restore, server, counters, reqs, answers, restoring>>

(* The page is loaded again, or opened at its root.  Nobody waits for the  *)
(* answers any more, but a query may still reach the server.               *)
Load(to) ==
    /\ loads < MaxLoads /\ loads' = loads + 1
    /\ path' = to /\ settled' = FALSE
    /\ store' = Empty /\ hydrated' = FALSE /\ restore' = stored /\ writing' = <<>>
    /\ list' = <<>> /\ reqCount' = reqCount + 1 /\ refreshed' = reqCount + 1
    /\ reqs' = {[r EXCEPT !.page = FALSE] : r \in {q \in reqs : q.kind = "query" /\ q.result = "sent"}}
               \cup FirstRequests(reqCount + 1, conn)
    /\ ran' = [t \in {} |-> 0] /\ mixed' = {} /\ stale' = FALSE
    /\ lost' = (lost \/ writing # <<>> \/ early \/ ~hydrated)
    /\ late' = FALSE /\ early' = FALSE
    /\ UNCHANGED <<conn, stored, server, clicks, tabCount, faults, kept>>

-----------------------------------------------------------------------------
(* The server and the network                                              *)

Fault == faults < MaxFaults /\ faults' = faults + 1

Serve(r) ==
    /\ r \in reqs /\ r.result = "sent"
    /\ LET known == sessions[r.id] # Expired
           id == Cardinality(DOMAIN sessions) + 1
       IN CASE r.kind = "connect" ->
                 /\ sessions' = [i \in 1..id |-> IF i = id THEN r.db ELSE sessions[i]]
                 /\ reqs' = (reqs \ {r}) \cup {[r EXCEPT !.result = "ok", !.id = id]}
                 /\ UNCHANGED <<tables, stale>>
            [] r.kind = "list" ->
                 /\ reqs' = (reqs \ {r}) \cup {[r EXCEPT !.result = IF known THEN "ok" ELSE "refused",
                                                         !.got = IF known THEN Table(sessions[r.id]) ELSE <<>>]}
                 /\ UNCHANGED <<sessions, tables, stale>>
            [] r.kind = "query" ->
                 /\ tables' = IF known /\ Changes(r.text) THEN [tables EXCEPT ![sessions[r.id]] = @ + 1] ELSE tables
                 /\ reqs' = (reqs \ {r}) \cup
                            (IF r.page THEN {[r EXCEPT !.result = IF known THEN "ok" ELSE "refused"]} ELSE {})
                 /\ stale' = (stale \/ ~r.page)
                 /\ UNCHANGED sessions
    /\ UNCHANGED <<page, database, counters, ran, mixed, refreshed, restoring>>

(* The server drops a connection nobody has used for a while.              *)
Expire(id) ==
    /\ Fault /\ sessions[id] # Expired
    /\ sessions' = [sessions EXCEPT ![id] = Expired] /\ stale' = TRUE
    /\ UNCHANGED <<page, database, tables, clicks, tabCount, reqCount, loads, reqs, ran, mixed, refreshed, restoring>>

-----------------------------------------------------------------------------
(* Answers                                                                 *)

Overtaken(r) == r.n < ran[r.tab] /\ \A q \in Waiting("query") : q.n # ran[r.tab]
Outdated(r) == r.n < refreshed /\ \A q \in Waiting("list") : q.n # refreshed

(* runQuery after its fetch: the tab shows the answer, or an error.        *)
Shown(r, ok) ==
    /\ Set(updateTabResults(store, r.tab, r.n, ok))
    /\ mixed' = IF r.tab \in DOMAIN ran /\ Overtaken(r) THEN mixed \cup {r.tab} ELSE mixed
    /\ UNCHANGED <<conn, ran>>

(* Faulty variant: the list is not fetched again. *)
QueryAnswered_NoBump(r) ==
    /\ r \in Waiting("query") /\ r.result = "ok"
    /\ Shown(r, Shows(r.text))
    /\ reqs' = reqs \ {r}
    /\ UNCHANGED <<path, settled, list, hydrated, restore, stored, server, counters, refreshed, stale, late, lost, kept>>

QueryAnswered(r) ==
    /\ r \in Waiting("query") /\ r.result = "ok"
    /\ Shown(r, Shows(r.text))
    /\ Refresh(conn, reqs \ {r})
    /\ UNCHANGED <<path, settled, hydrated, restore, stored, server, clicks, tabCount, loads, faults, late, lost, kept>>

(* Not 200, or no answer: the list is not fetched.                         *)
QueryFailed(r) ==
    /\ r \in Waiting("query") /\ r.result # "ok"
    /\ IF r.result = "sent" THEN Fault ELSE UNCHANGED faults
    /\ Shown(r, FALSE)
    /\ reqs' = (reqs \ {r}) \cup (IF r.result = "sent" THEN {[r EXCEPT !.page = FALSE]} ELSE {})
    /\ UNCHANGED <<path, settled, list, hydrated, restore, stored, server, clicks, tabCount, reqCount, loads, refreshed, stale, late, lost, kept>>

(* The answer is lost on its way back.                                     *)
QueryLost(r) ==
    /\ r \in Waiting("query") /\ r.result = "ok" /\ Fault
    /\ Shown(r, FALSE)
    /\ reqs' = reqs \ {r} /\ stale' = TRUE
    /\ UNCHANGED <<path, settled, list, hydrated, restore, stored, server, clicks, tabCount, reqCount, loads, refreshed, late, lost, kept>>

(* fetchTables after its fetch.                                            *)
ListAnswered(r) ==
    /\ r \in Waiting("list") /\ r.result = "ok"
    /\ list' = r.got /\ Set(updateObjectTabs(store, r.got))
    /\ reqs' = reqs \ {r}
    /\ stale' = (stale \/ Outdated(r))
    /\ UNCHANGED <<path, settled, conn, hydrated, restore, stored, server, counters, ran, mixed, refreshed, late, lost, kept>>

ListFailed(r) ==
    /\ r \in Waiting("list")
    /\ IF r.result = "refused" THEN UNCHANGED faults ELSE Fault
    /\ list' = <<>> /\ reqs' = reqs \ {r} /\ stale' = TRUE
    /\ UNCHANGED <<store, path, settled, conn, database, server, clicks, tabCount, reqCount, loads, ran, mixed, refreshed, restoring>>

(* addInfo and setId, in one step.                                         *)
Connected(r) ==
    /\ r \in Waiting("connect") /\ r.result = "ok"
    /\ conn' = r.id
    /\ Refresh(r.id, reqs \ {r})
    /\ UNCHANGED <<store, path, settled, database, server, clicks, tabCount, loads, faults, ran, mixed, restoring>>

Next ==
    \/ \E to \in Links : Go(to)
    \/ \E text \in {0} \cup Texts : Open(text)
    \/ \E id \in Ids(store) : Select(id) \/ Close(id)
    \/ \E text \in Texts : Edit(text)
    \/ Run \/ ViewGallery \/ OpenTable
    \/ \E db \in Databases : Connect(db)
    \/ Disconnect \/ Settle \/ Hydrate \/ Write
    \/ \E to \in {path, "home"} : Load(to)
    \/ \E id \in DOMAIN sessions : Expire(id)
    \/ \E r \in reqs : \/ Serve(r) \/ QueryAnswered(r) \/ QueryFailed(r) \/ QueryLost(r)
                       \/ ListAnswered(r) \/ ListFailed(r) \/ Connected(r)

Spec == Init /\ [][Next]_vars

-----------------------------------------------------------------------------

(* Nothing a tab waits for gets lost: without a query under way its        *)
(* spinner is gone, and it shows what came of the last query executed in   *)
(* it, an answer or an error, unless an older answer came after that       *)
(* (runQuery has no order): also when tabs were closed, the page was       *)
(* loaded again or the connection has changed in between.                  *)
TabsShowTheirLastAnswer ==
    \A i \in DOMAIN store.tabs :
        LET t == store.tabs[i]
        IN (\A r \in Waiting("query") : r.tab # t.id) =>
              /\ ~t.loading
              /\ t.id \in DOMAIN ran /\ t.id \notin mixed => t.answer = ran[t.id]

(* When nothing is under way the sidebar lists the tables of the database  *)
(* the interface is connected to, as they are after all queries sent from  *)
(* it, and object tabs show them: unless a list came after a later one or  *)
(* an answer was lost.                                                     *)
ListIsCurrent ==
    reqs = {} /\ ~stale =>
        /\ list = IF conn = 0 THEN <<>> ELSE Table(sessions[conn])
        /\ conn # 0 /\ list # <<>> /\ hydrated =>
              \A i \in DOMAIN store.tabs : store.tabs[i].id[1] = "object" => store.tabs[i].table = list

(* The page is that of the active tab and the other way round, whichever   *)
(* way either was changed ("which would cause race conditions when         *)
(* setActiveTab and navigate are called together", MainLayout.tsx:15-17).  *)
(* Only the query page shows another tab, and only if no query tab is      *)
(* open; and so may a page whose tabs were restored after its effect.      *)
PageShowsActiveTab ==
    hydrated /\ settled /\ ~late =>
        \/ store.active[1] = path
        \/ path = "query" /\ OfType(store, "query") = {} /\ store.tabs # <<>>

(* Every tab the user opened and has not closed is there with its text     *)
(* when the page is loaded again, whenever that is: unless a write was     *)
(* under way, or the page wrote its own tabs before it had the old ones.   *)
TabsOutliveThePage ==
    hydrated /\ ~lost =>
        \A id \in DOMAIN kept : \E i \in DOMAIN store.tabs :
            store.tabs[i].id = id /\ store.tabs[i].text = kept[id]
=============================================================================
