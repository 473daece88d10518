------------------------------- MODULE WebTabs -------------------------------
(***************************************************************************)
(* The tab store of the web interface (useMultiTabQueryStore) and what the *)
(* pages do with it: each operator gives the store after one call.  A      *)
(* store is [tabs, active].  The first half of an identifier is the type   *)
(* of the tab, which is also the page that shows it; query and gallery     *)
(* tabs are numbered (Date.now() in the code: never the same twice).       *)
(* Titles, panels, file names and whether a query was saved are left out.  *)
(***************************************************************************)
EXTENDS Naturals, Sequences, SequencesExt

NoTab == <<"home", 0>>
Empty == [tabs |-> <<>>, active |-> NoTab]

(* text: the query; answer, ok: the request whose answer it shows, 0 for   *)
(* none, and whether that has pictures; table: what an object tab is about *)
TabState(id, text, answer, ok, table) ==
    [id |-> id, text |-> text, answer |-> answer, ok |-> ok, loading |-> FALSE, table |-> table]

Ids(st) == {st.tabs[i].id : i \in DOMAIN st.tabs}
Active(st) == {i \in DOMAIN st.tabs : st.tabs[i].id = st.active}
OfType(st, type) == {i \in DOMAIN st.tabs : st.tabs[i].id[1] = type}

setActiveTab(st, id) == [st EXCEPT !.active = id]
addTab(st, tab) == [tabs |-> Append(st.tabs, tab), active |-> tab.id]

(* An object tab or the overview that is open already is only activated.   *)
addOnce(st, tab) == IF tab.id \in Ids(st) THEN setActiveTab(st, tab.id) ELSE addTab(st, tab)
addObjectTab(st, table) == addOnce(st, TabState(<<"object", 0>>, 0, 0, FALSE, table))
addObjectsOverviewTab(st) == addOnce(st, TabState(<<"objects", 0>>, 0, 0, FALSE, <<>>))

(* SelectSeq(tabs, LAMBDA t : t.id # id), which the prover cannot expand.  *)
Without(tabs, id) ==
    LET left[i \in 0..Len(tabs)] ==
            IF i = 0 THEN <<>>
            ELSE IF tabs[i].id = id THEN left[i - 1] ELSE Append(left[i - 1], tabs[i])
    IN left[Len(tabs)]

closeTab(st, id) ==
    LET left == Without(st.tabs, id)
    IN [tabs |-> left,
        active |-> IF st.active # id THEN st.active ELSE IF left = <<>> THEN NoTab ELSE left[Len(left)].id]

Changed(st, Which(_), New(_)) ==
    [st EXCEPT !.tabs = [i \in DOMAIN @ |-> IF Which(@[i]) THEN New(@[i]) ELSE @[i]]]

updateActiveTabQuery(st, text) ==
    Changed(st, LAMBDA t : t.id = st.active, LAMBDA t : [t EXCEPT !.text = text])
setTabLoading(st, id) ==
    Changed(st, LAMBDA t : t.id = id, LAMBDA t : [t EXCEPT !.loading = TRUE])
(* Faulty variant: the spinner stays. *)
updateTabResults_KeepsLoading(st, id, answer, ok) ==
    Changed(st, LAMBDA t : t.id = id, LAMBDA t : [t EXCEPT !.answer = answer, !.ok = ok])
updateTabResults(st, id, answer, ok) ==
    Changed(st, LAMBDA t : t.id = id, LAMBDA t : [t EXCEPT !.answer = answer, !.ok = ok, !.loading = FALSE])

updateObjectTabs(st, table) ==
    Changed(st, LAMBDA t : t.id[1] = "object" /\ table # <<>>, LAMBDA t : [t EXCEPT !.table = table])

(* What is written to the browser's database: no responses, no spinners.   *)
partialize(st) == Changed(st, LAMBDA t : TRUE, LAMBDA t : [t EXCEPT !.ok = FALSE, !.loading = FALSE])

(* Faulty variant: any active tab is kept. *)
PageTab_KeepsActive(st, path) ==
    LET open == OfType(st, path)
    IN IF path = "home" THEN setActiveTab(st, NoTab)
       ELSE IF Active(st) # {} \/ open = {} THEN st
       ELSE setActiveTab(st, st.tabs[Max(open)].id)

(* The effect of MainLayout after the page has changed.                    *)
PageTab(st, path) ==
    LET open == OfType(st, path)
    IN IF path = "home" THEN setActiveTab(st, NoTab)
       ELSE IF st.active[1] = path /\ Active(st) # {} THEN st
       ELSE IF open # {} THEN setActiveTab(st, st.tabs[Max(open)].id)
       ELSE st
Redirected(st, path) == path \in {"gallery", "object"} /\ OfType(st, path) = {}
=============================================================================
