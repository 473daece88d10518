---------------------------- MODULE WebClientProofs ----------------------------
(***************************************************************************)
(* What holds of the web interface for any number of tabs, requests,       *)
(* connections and loadings of the page, in every order in which clicks,   *)
(* effects, answers and the browser's database can follow each other.      *)
(***************************************************************************)
EXTENDS WebClient, NatSets, FiniteSetTheorems

-----------------------------------------------------------------------------
(* Stores of tabs.                                                         *)

TabId == ({"query", "gallery"} \X Nat) \cup {<<"object", 0>>, <<"objects", 0>>}
Text == {0} \cup Texts
Listing == {<<>>} \cup (Databases \X Nat)

Tab == [id : TabId, text : Text, answer : Nat, ok : BOOLEAN, loading : BOOLEAN,
        table : Listing]
Store == [tabs : Seq(Tab), active : {NoTab} \cup TabId]

OneOfEach(st) ==
    \A i, j \in DOMAIN st.tabs : st.tabs[i].id = st.tabs[j].id => i = j

Numbered(id, n) == id[1] \in {"query", "gallery"} => id[2] <= n

(* A store when n tabs have been numbered.                                 *)
StoreOf(st, n) ==
    /\ st \in Store /\ OneOfEach(st)
    /\ \A i \in DOMAIN st.tabs : Numbered(st.tabs[i].id, n)

(* The tabs of u are those of st, with other contents.                     *)
Alike(st, u) ==
    /\ u \in Store /\ u.active = st.active
    /\ DOMAIN u.tabs = DOMAIN st.tabs
    /\ \A i \in DOMAIN st.tabs : u.tabs[i].id = st.tabs[i].id

SameTexts(st, u) == \A i \in DOMAIN st.tabs : u.tabs[i].text = st.tabs[i].text
SameAnswers(st, u) ==
    \A i \in DOMAIN st.tabs : /\ u.tabs[i].loading = st.tabs[i].loading
                              /\ u.tabs[i].answer = st.tabs[i].answer
NoSpinner(st) == \A i \in DOMAIN st.tabs : st.tabs[i].loading = FALSE
SameTables(st, u) == \A i \in DOMAIN st.tabs : u.tabs[i].table = st.tabs[i].table

LEMMA TabsOf ==
  ASSUME NEW st \in Store
  PROVE  /\ Len(st.tabs) \in Nat /\ DOMAIN st.tabs = 1 .. Len(st.tabs)
         /\ \A i \in DOMAIN st.tabs : st.tabs[i] \in Tab
BY DEF Store

LEMMA AlikeStores ==
  ASSUME NEW st, NEW n, StoreOf(st, n), NEW u, Alike(st, u)
  PROVE  StoreOf(u, n) /\ Ids(u) = Ids(st)
<1>1. StoreOf(u, n)
  BY DEF StoreOf, Alike, OneOfEach
<1>2. Ids(u) = Ids(st)
  BY DEF Ids, Alike
<1>3. QED
  BY <1>1, <1>2

LEMMA Rewritten ==
  ASSUME NEW st \in Store, NEW f \in [DOMAIN st.tabs -> Tab],
         \A i \in DOMAIN st.tabs : f[i].id = st.tabs[i].id,
         NEW u, u = [st EXCEPT !.tabs = f]
  PROVE  u.tabs = f /\ Alike(st, u)
<1>1. Len(st.tabs) \in Nat /\ DOMAIN st.tabs = 1 .. Len(st.tabs)
  BY TabsOf
<1>2. f \in Seq(Tab)
  BY <1>1
<1>3. u.tabs = f /\ u.active = st.active /\ u \in Store
  BY <1>2 DEF Store
<1>4. QED
  BY <1>3 DEF Alike

LEMMA Edited ==
  ASSUME NEW st \in Store, NEW text \in Text, NEW u, u = updateActiveTabQuery(st, text)
  PROVE  /\ Alike(st, u) /\ SameAnswers(st, u) /\ SameTables(st, u)
         /\ \A i \in DOMAIN st.tabs :
              u.tabs[i].text = IF st.tabs[i].id = st.active THEN text ELSE st.tabs[i].text
<1> DEFINE new(t) == IF t.id = st.active THEN [t EXCEPT !.text = text] ELSE t
           f == [i \in DOMAIN st.tabs |-> new(st.tabs[i])]
<1>1. ASSUME NEW t \in Tab
      PROVE  /\ new(t) \in Tab /\ new(t).id = t.id /\ new(t).table = t.table
             /\ new(t).loading = t.loading /\ new(t).answer = t.answer
             /\ new(t).text = IF t.id = st.active THEN text ELSE t.text
  BY DEF Tab
<1>2. u = [st EXCEPT !.tabs = f]
  BY DEF updateActiveTabQuery, Changed
<1>3. \A i \in DOMAIN st.tabs : st.tabs[i] \in Tab /\ f[i] = new(st.tabs[i])
  BY TabsOf
<1> HIDE DEF new
<1>4. f \in [DOMAIN st.tabs -> Tab] /\ \A i \in DOMAIN st.tabs : f[i].id = st.tabs[i].id
  BY <1>1, <1>3
<1> HIDE DEF f
<1>5. u.tabs = f /\ Alike(st, u)
  BY <1>2, <1>4, Rewritten
<1>6. QED
  BY <1>1, <1>3, <1>5 DEF SameAnswers, SameTables

LEMMA SetLoading ==
  ASSUME NEW st \in Store, NEW id, NEW u, u = setTabLoading(st, id)
  PROVE  /\ Alike(st, u) /\ SameTexts(st, u) /\ SameTables(st, u)
         /\ \A i \in DOMAIN st.tabs :
              /\ u.tabs[i].answer = st.tabs[i].answer
              /\ st.tabs[i].id # id => u.tabs[i].loading = st.tabs[i].loading
<1> DEFINE new(t) == IF t.id = id THEN [t EXCEPT !.loading = TRUE] ELSE t
           f == [i \in DOMAIN st.tabs |-> new(st.tabs[i])]
<1>1. ASSUME NEW t \in Tab
      PROVE  /\ new(t) \in Tab /\ new(t).id = t.id /\ new(t).table = t.table
             /\ new(t).text = t.text /\ new(t).answer = t.answer
             /\ t.id # id => new(t).loading = t.loading
  BY DEF Tab
<1>2. u = [st EXCEPT !.tabs = f]
  BY DEF setTabLoading, Changed
<1>3. \A i \in DOMAIN st.tabs : st.tabs[i] \in Tab /\ f[i] = new(st.tabs[i])
  BY TabsOf
<1> HIDE DEF new
<1>4. f \in [DOMAIN st.tabs -> Tab] /\ \A i \in DOMAIN st.tabs : f[i].id = st.tabs[i].id
  BY <1>1, <1>3
<1> HIDE DEF f
<1>5. u.tabs = f /\ Alike(st, u)
  BY <1>2, <1>4, Rewritten
<1>6. QED
  BY <1>1, <1>3, <1>5 DEF SameTexts, SameTables

AnsweredAs(st, u, id, n) ==
    /\ Alike(st, u) /\ SameTexts(st, u) /\ SameTables(st, u)
    /\ \A i \in DOMAIN st.tabs :
         /\ u.tabs[i].answer = IF st.tabs[i].id = id THEN n ELSE st.tabs[i].answer
         /\ u.tabs[i].loading = IF st.tabs[i].id = id THEN FALSE ELSE st.tabs[i].loading

LEMMA Answered ==
  ASSUME NEW st \in Store, NEW id, NEW n \in Nat, NEW ok \in BOOLEAN
  PROVE  AnsweredAs(st, updateTabResults(st, id, n, ok), id, n)
<1> DEFINE u == updateTabResults(st, id, n, ok)
           new(t) == IF t.id = id THEN [t EXCEPT !.answer = n, !.ok = ok, !.loading = FALSE] ELSE t
           f == [i \in DOMAIN st.tabs |-> new(st.tabs[i])]
<1>1. ASSUME NEW t \in Tab
      PROVE  /\ new(t) \in Tab /\ new(t).id = t.id /\ new(t).table = t.table
             /\ new(t).text = t.text
             /\ new(t).answer = IF t.id = id THEN n ELSE t.answer
             /\ new(t).loading = IF t.id = id THEN FALSE ELSE t.loading
  BY DEF Tab
<1>2. u = [st EXCEPT !.tabs = f]
  BY DEF updateTabResults, Changed
<1>3. \A i \in DOMAIN st.tabs : st.tabs[i] \in Tab /\ f[i] = new(st.tabs[i])
  BY TabsOf
<1> HIDE DEF new
<1>4. f \in [DOMAIN st.tabs -> Tab] /\ \A i \in DOMAIN st.tabs : f[i].id = st.tabs[i].id
  BY <1>1, <1>3
<1> HIDE DEF f, u
<1>5. u.tabs = f /\ Alike(st, u)
  BY <1>2, <1>4, Rewritten
<1>6. ASSUME NEW i \in DOMAIN st.tabs
      PROVE  /\ f[i].text = st.tabs[i].text /\ f[i].table = st.tabs[i].table
             /\ f[i].answer = IF st.tabs[i].id = id THEN n ELSE st.tabs[i].answer
             /\ f[i].loading = IF st.tabs[i].id = id THEN FALSE ELSE st.tabs[i].loading
  <2>1. PICK t \in Tab : t = st.tabs[i] /\ f[i] = new(t)
    BY <1>3
  <2>2. /\ new(t).table = t.table /\ new(t).text = t.text
        /\ new(t).answer = IF t.id = id THEN n ELSE t.answer
        /\ new(t).loading = IF t.id = id THEN FALSE ELSE t.loading
    BY <1>1
  <2>3. QED
    BY <2>1, <2>2, Zenon
<1>7. SameTexts(st, u) /\ SameTables(st, u)
  BY <1>5, <1>6 DEF SameTexts, SameTables
<1>8. QED
  BY <1>5, <1>6, <1>7 DEF AnsweredAs, u

LEMMA Listed ==
  ASSUME NEW st \in Store, NEW tbl \in Listing, NEW u, u = updateObjectTabs(st, tbl)
  PROVE  /\ Alike(st, u) /\ SameTexts(st, u) /\ SameAnswers(st, u)
         /\ \A i \in DOMAIN st.tabs :
              st.tabs[i].id[1] = "object" /\ tbl # <<>> => u.tabs[i].table = tbl
<1> DEFINE new(t) == IF t.id[1] = "object" /\ tbl # <<>> THEN [t EXCEPT !.table = tbl] ELSE t
           f == [i \in DOMAIN st.tabs |-> new(st.tabs[i])]
<1>1. ASSUME NEW t \in Tab
      PROVE  /\ new(t) \in Tab /\ new(t).id = t.id /\ new(t).text = t.text
             /\ new(t).answer = t.answer /\ new(t).loading = t.loading
             /\ t.id[1] = "object" /\ tbl # <<>> => new(t).table = tbl
  BY DEF Tab
<1>2. u = [st EXCEPT !.tabs = f]
  BY DEF updateObjectTabs, Changed
<1>3. \A i \in DOMAIN st.tabs : st.tabs[i] \in Tab /\ f[i] = new(st.tabs[i])
  BY TabsOf
<1> HIDE DEF new
<1>4. f \in [DOMAIN st.tabs -> Tab] /\ \A i \in DOMAIN st.tabs : f[i].id = st.tabs[i].id
  BY <1>1, <1>3
<1> HIDE DEF f
<1>5. u.tabs = f /\ Alike(st, u)
  BY <1>2, <1>4, Rewritten
<1>6. QED
  BY <1>1, <1>3, <1>5 DEF SameTexts, SameAnswers

LEMMA Written ==
  ASSUME NEW st \in Store, NEW u, u = partialize(st)
  PROVE  Alike(st, u) /\ SameTexts(st, u) /\ NoSpinner(u)
<1> DEFINE new(t) == [t EXCEPT !.ok = FALSE, !.loading = FALSE]
           f == [i \in DOMAIN st.tabs |-> new(st.tabs[i])]
<1>1. ASSUME NEW t \in Tab
      PROVE  /\ new(t) \in Tab /\ new(t).id = t.id /\ new(t).text = t.text
             /\ new(t).loading = FALSE
  BY DEF Tab
<1>2. u = [st EXCEPT !.tabs = f]
  BY DEF partialize, Changed
<1>3. \A i \in DOMAIN st.tabs : st.tabs[i] \in Tab /\ f[i] = new(st.tabs[i])
  BY TabsOf
<1> HIDE DEF new
<1>4. f \in [DOMAIN st.tabs -> Tab] /\ \A i \in DOMAIN st.tabs : f[i].id = st.tabs[i].id
  BY <1>1, <1>3
<1> HIDE DEF f
<1>5. u.tabs = f /\ Alike(st, u)
  BY <1>2, <1>4, Rewritten
<1>6. ASSUME NEW i \in DOMAIN st.tabs
      PROVE  f[i].text = st.tabs[i].text /\ f[i].loading = FALSE
  <2>1. PICK t \in Tab : t = st.tabs[i] /\ f[i] = new(t)
    BY <1>3
  <2>2. new(t).text = t.text /\ new(t).loading = FALSE
    BY <1>1
  <2>3. QED
    BY <2>1, <2>2, Zenon
<1>7. DOMAIN u.tabs = DOMAIN st.tabs
  BY <1>5 DEF Alike
<1>8. QED
  BY <1>5, <1>6, <1>7 DEF SameTexts, NoSpinner

LEMMA Added ==
  ASSUME NEW st, NEW n, StoreOf(st, n), NEW tab \in Tab, tab.id \notin Ids(st),
         Numbered(tab.id, n), NEW u, u = addTab(st, tab)
  PROVE  /\ StoreOf(u, n) /\ u.active = tab.id
         /\ DOMAIN u.tabs = 1 .. (Len(st.tabs) + 1)
         /\ u.tabs[Len(st.tabs) + 1] = tab
         /\ \A i \in DOMAIN st.tabs : u.tabs[i] = st.tabs[i]
<1>1. /\ Len(st.tabs) \in Nat /\ DOMAIN st.tabs = 1 .. Len(st.tabs)
      /\ st.tabs \in Seq(Tab) /\ tab.id \in TabId
  BY TabsOf DEF StoreOf, Store, Tab
<1>2. u.tabs = Append(st.tabs, tab) /\ u.active = tab.id /\ u = [tabs |-> u.tabs, active |-> u.active]
  BY DEF addTab
<1>3. u \in Store
  <2>1. Append(st.tabs, tab) \in Seq(Tab)
    BY <1>1
  <2>2. QED
    BY <1>1, <1>2, <2>1 DEF Store
<1>4. /\ DOMAIN u.tabs = 1 .. (Len(st.tabs) + 1)
      /\ u.tabs[Len(st.tabs) + 1] = tab
      /\ \A i \in DOMAIN st.tabs : u.tabs[i] = st.tabs[i]
  BY <1>1, <1>2
<1>5. \A i \in DOMAIN u.tabs : i \in DOMAIN st.tabs \/ i = Len(st.tabs) + 1
  BY <1>1, <1>4
<1>6. \A i \in DOMAIN st.tabs : st.tabs[i].id # tab.id
  BY DEF Ids
<1>7. OneOfEach(u)
  BY <1>4, <1>5, <1>6 DEF StoreOf, OneOfEach
<1>8. \A i \in DOMAIN u.tabs : Numbered(u.tabs[i].id, n)
  BY <1>4, <1>5 DEF StoreOf
<1>9. QED
  BY <1>2, <1>3, <1>4, <1>7, <1>8 DEF StoreOf

LEMMA Activated ==
  ASSUME NEW st, NEW n, StoreOf(st, n), NEW id \in {NoTab} \cup TabId,
         NEW u, u = setActiveTab(st, id)
  PROVE  StoreOf(u, n) /\ u.tabs = st.tabs /\ u.active = id
<1>1. u.tabs = st.tabs /\ u.active = id /\ u \in Store
  BY DEF StoreOf, Store, setActiveTab
<1>2. QED
  BY <1>1 DEF StoreOf, OneOfEach

LEMMA Later ==
  ASSUME NEW st, NEW n \in Nat, StoreOf(st, n)
  PROVE  StoreOf(st, n + 1)
<1>1. ASSUME NEW i \in DOMAIN st.tabs
      PROVE  Numbered(st.tabs[i].id, n + 1)
  <2>1. Numbered(st.tabs[i].id, n) /\ st.tabs[i] \in Tab
    BY TabsOf DEF StoreOf
  <2>2. st.tabs[i].id \in TabId
    BY <2>1 DEF Tab
  <2>3. QED
    BY <2>1, <2>2 DEF Numbered, TabId
<1>2. QED
  BY <1>1 DEF StoreOf

LEMMA Fresh ==
  ASSUME NEW st, NEW n \in Nat, StoreOf(st, n), NEW type \in {"query", "gallery"}
  PROVE  <<type, n + 1>> \notin Ids(st)
<1>1. SUFFICES ASSUME NEW i \in DOMAIN st.tabs, st.tabs[i].id = <<type, n + 1>>
               PROVE  FALSE
  BY DEF Ids
<1>2. Numbered(<<type, n + 1>>, n)
  BY <1>1 DEF StoreOf
<1>3. QED
  BY <1>2 DEF Numbered

(* s has the tabs before i+1 that are not id.                              *)
LeftOf(s, tabs, id, i) ==
    /\ s \in Seq(Tab)
    /\ \A j \in DOMAIN s : \E k \in 1 .. i : s[j] = tabs[k] /\ tabs[k].id # id
    /\ \A k \in 1 .. i : tabs[k].id # id => \E j \in DOMAIN s : s[j] = tabs[k]
    /\ \A j, l \in DOMAIN s : s[j].id = s[l].id => j = l

LEMMA LeftOfNext ==
  ASSUME NEW tabs \in Seq(Tab), \A i, j \in DOMAIN tabs : tabs[i].id = tabs[j].id => i = j,
         NEW id, NEW i \in Nat, i + 1 \in DOMAIN tabs, NEW s, LeftOf(s, tabs, id, i)
  PROVE  LeftOf(IF tabs[i + 1].id = id THEN s ELSE Append(s, tabs[i + 1]), tabs, id, i + 1)
<1>1. \A k \in 1 .. (i + 1) : k \in 1 .. i \/ k = i + 1
  OBVIOUS
<1>2. \A k \in 1 .. i : k \in 1 .. (i + 1) /\ k \in DOMAIN tabs /\ k # i + 1
  OBVIOUS
<1>3. CASE tabs[i + 1].id = id
  BY <1>1, <1>2, <1>3 DEF LeftOf
<1>4. CASE tabs[i + 1].id # id
  <2> DEFINE t == tabs[i + 1]
             a == Append(s, t)
             e == Len(s) + 1
  <2>1. s \in Seq(Tab) /\ t \in Tab /\ i + 1 \in 1 .. (i + 1)
    BY DEF LeftOf
  <2>2. /\ a \in Seq(Tab) /\ DOMAIN a = 1 .. e /\ a[e] = t /\ e \in DOMAIN a
        /\ \A j \in DOMAIN s : a[j] = s[j] /\ j \in DOMAIN a
        /\ \A j \in DOMAIN a : j \in DOMAIN s \/ j = e
    BY <2>1
  <2>3. t.id # id
    BY <1>4
  <2>4. \A k \in 1 .. i : tabs[k].id # t.id
    BY <1>2
  <2>5. t = tabs[i + 1]
    OBVIOUS
  <2> HIDE DEF t, a, e
  <2>6. \A j \in DOMAIN a : \E k \in 1 .. (i + 1) : a[j] = tabs[k] /\ tabs[k].id # id
    BY <1>2, <2>1, <2>2, <2>3, <2>5 DEF LeftOf
  <2>7. \A k \in 1 .. (i + 1) : tabs[k].id # id => \E j \in DOMAIN a : a[j] = tabs[k]
    BY <1>1, <2>2, <2>5 DEF LeftOf
  <2>8. \A j \in DOMAIN s : s[j].id # t.id
    BY <2>4 DEF LeftOf
  <2>9. \A j, l \in DOMAIN a : a[j].id = a[l].id => j = l
    BY <2>2, <2>8 DEF LeftOf
  <2>10. LeftOf(a, tabs, id, i + 1)
    BY <2>2, <2>6, <2>7, <2>9 DEF LeftOf
  <2>11. QED
    BY <1>4, <2>10 DEF a, t
<1>5. QED
  BY <1>3, <1>4

LEMMA WithoutHolds ==
  ASSUME NEW tabs \in Seq(Tab), \A i, j \in DOMAIN tabs : tabs[i].id = tabs[j].id => i = j,
         NEW id
  PROVE  LeftOf(Without(tabs, id), tabs, id, Len(tabs))
<1> DEFINE step(s, i) == IF tabs[i].id = id THEN s ELSE Append(s, tabs[i])
           next(F, n) == [i \in 0 .. n |-> IF i = 0 THEN <<>>
                                           ELSE IF tabs[i].id = id THEN F[i - 1]
                                           ELSE Append(F[i - 1], tabs[i])]
           left == CHOOSE F : F = next(F, Len(tabs))
<1>1. Without(tabs, id) = left[Len(tabs)]
  BY DEF Without
<1>2. Len(tabs) \in Nat /\ DOMAIN tabs = 1 .. Len(tabs)
  OBVIOUS
<1>3. ASSUME NEW n \in Nat, NEW F, F = next(F, n)
      PROVE  \E G : G = next(G, n + 1)
  <2> DEFINE G == [i \in 0 .. (n + 1) |-> IF i = n + 1 THEN step(F[n], n + 1) ELSE F[i]]
  <2>1. ASSUME NEW i \in 0 .. (n + 1)
        PROVE  G[i] = next(G, n + 1)[i]
    <3>1. CASE i = 0
      BY <1>3, <3>1
    <3>2. CASE i \in 1 .. n
      <4>1. i - 1 \in 0 .. n /\ i \in 0 .. n /\ i # n + 1 /\ i - 1 # n + 1 /\ i # 0
        BY <3>2
      <4>2. F[i] = next(F, n)[i]
        BY <1>3
      <4>3. F[i] = step(F[i - 1], i)
        BY <4>1, <4>2
      <4>4. G[i] = F[i] /\ G[i - 1] = F[i - 1]
        BY <4>1
      <4>5. QED
        BY <4>1, <4>3, <4>4
    <3>3. CASE i = n + 1
      <4>1. i - 1 = n /\ n \in 0 .. (n + 1) /\ n # n + 1 /\ i # 0
        BY <3>3
      <4>2. G[n] = F[n] /\ G[i] = step(F[n], i)
        BY <3>3, <4>1
      <4>3. QED
        BY <4>1, <4>2
    <3>4. QED
      BY <3>1, <3>2, <3>3
  <2>2. G = next(G, n + 1)
    BY <2>1
  <2>3. QED
    BY <2>2
<1>4. \E F : F = next(F, 0)
  <2> DEFINE F == [i \in 0 .. 0 |-> <<>>]
  <2>1. F = next(F, 0)
    OBVIOUS
  <2>2. QED
    BY <2>1
<1>5. \A n \in Nat : \E F : F = next(F, n)
  <2> DEFINE Bad == {n \in Nat : ~\E F : F = next(F, n)}
  <2> HIDE DEF next
  <2>1. SUFFICES ASSUME Bad # {} PROVE FALSE
    OBVIOUS
  <2>2. PICK m \in Bad : \A n \in Bad : m <= n
    BY <2>1, LeastElement
  <2>3. m \in Nat /\ m # 0
    BY <1>4
  <2>4. m - 1 \in Nat /\ (m - 1) + 1 = m /\ ~(m <= m - 1)
    BY <2>3
  <2>5. m - 1 \notin Bad
    BY <2>2, <2>4
  <2>6. PICK F : F = next(F, m - 1)
    BY <2>4, <2>5
  <2>7. \E G : G = next(G, m)
    BY <1>3, <2>4, <2>6
  <2>8. QED
    BY <2>7
<1>6. left = next(left, Len(tabs))
  <2> HIDE DEF next
  <2>1. \E F : F = next(F, Len(tabs))
    BY <1>2, <1>5
  <2>2. QED
    BY <2>1
<1>7. PICK F : F = left
  OBVIOUS
<1>8. /\ F[0] = <<>>
      /\ \A i \in 1 .. Len(tabs) : F[i] = step(F[i - 1], i)
  <2> HIDE DEF left
  <2>1. F = next(F, Len(tabs))
    BY <1>6, <1>7
  <2>2. \A i \in 0 .. Len(tabs) : F[i] = next(F, Len(tabs))[i]
    BY <2>1
  <2>3. QED
    BY <1>2, <2>2
<1>9. \A n \in 0 .. Len(tabs) : LeftOf(F[n], tabs, id, n)
  <2> HIDE DEF left, next
  <2> DEFINE Bad == {n \in 0 .. Len(tabs) : ~LeftOf(F[n], tabs, id, n)}
  <2>1. SUFFICES ASSUME Bad # {} PROVE FALSE
    OBVIOUS
  <2>2. Bad \in SUBSET Nat
    BY <1>2
  <2> HIDE DEF Bad
  <2>3. PICK m \in Bad : \A n \in Bad : m <= n
    BY <2>1, <2>2, LeastElement
  <2>4. LeftOf(<<>>, tabs, id, 0)
    BY DEF LeftOf
  <2>5. m # 0
    BY <1>8, <2>4 DEF Bad
  <2>6. /\ m - 1 \in Nat /\ (m - 1) + 1 = m /\ m \in DOMAIN tabs /\ m - 1 \in 0 .. Len(tabs)
        /\ ~(m <= m - 1)
    BY <1>2, <2>5 DEF Bad
  <2>7. LeftOf(F[m - 1], tabs, id, m - 1)
    BY <2>3, <2>6 DEF Bad
  <2>8. PICK k, G : k \in Nat /\ k = m - 1 /\ G = F[m - 1]
    BY <2>6
  <2>9. LeftOf(IF tabs[k + 1].id = id THEN G ELSE Append(G, tabs[k + 1]), tabs, id, k + 1)
    BY <2>6, <2>7, <2>8, LeftOfNext
  <2>10. F[m] = step(F[m - 1], m)
    BY <1>2, <1>8, <2>6
  <2>11. LeftOf(F[m], tabs, id, m)
    BY <2>6, <2>8, <2>9, <2>10
  <2>12. QED
    BY <2>11 DEF Bad
<1>10. Without(tabs, id) = F[Len(tabs)] /\ Len(tabs) \in 0 .. Len(tabs)
  BY <1>1, <1>2, <1>7
<1> HIDE DEF left, next, step
<1>11. QED
  BY <1>9, <1>10

LEMMA Closed ==
  ASSUME NEW st, NEW n, StoreOf(st, n), NEW id, NEW u, u = closeTab(st, id)
  PROVE  /\ StoreOf(u, n)
         /\ \A j \in DOMAIN u.tabs :
              \E i \in DOMAIN st.tabs : u.tabs[j] = st.tabs[i] /\ st.tabs[i].id # id
         /\ \A i \in DOMAIN st.tabs :
              st.tabs[i].id # id => \E j \in DOMAIN u.tabs : u.tabs[j] = st.tabs[i]
         /\ st.active # id => u.active = st.active
<1> DEFINE w == Without(st.tabs, id)
<1>1. st.tabs \in Seq(Tab) /\ DOMAIN st.tabs = 1 .. Len(st.tabs)
  BY DEF StoreOf, Store
<1>2. LeftOf(w, st.tabs, id, Len(st.tabs))
  BY <1>1, WithoutHolds DEF StoreOf, OneOfEach
<1>3. /\ u.tabs = w /\ u = [tabs |-> u.tabs, active |-> u.active]
      /\ u.active = IF st.active # id THEN st.active ELSE IF w = <<>> THEN NoTab ELSE w[Len(w)].id
  BY DEF closeTab
<1> HIDE DEF w
<1>4. w \in Seq(Tab) /\ \A j \in DOMAIN w : w[j] \in Tab
  BY <1>2 DEF LeftOf
<1>5. u.active \in {NoTab} \cup TabId
  <2>1. w # <<>> => Len(w) \in DOMAIN w
    BY <1>4
  <2>2. w # <<>> => w[Len(w)].id \in TabId
    BY <1>4, <2>1 DEF Tab
  <2>3. QED
    BY <1>3, <2>2 DEF StoreOf, Store
<1>6. u \in Store
  BY <1>3, <1>4, <1>5 DEF Store
<1>7. OneOfEach(u)
  BY <1>2, <1>3 DEF OneOfEach, LeftOf
<1>8. \A j \in DOMAIN w :
        \E i \in DOMAIN st.tabs : w[j] = st.tabs[i] /\ st.tabs[i].id # id
  BY <1>1, <1>2 DEF LeftOf
<1>9. \A j \in DOMAIN w : Numbered(w[j].id, n)
  BY <1>8 DEF StoreOf
<1>10. \A i \in DOMAIN st.tabs :
         st.tabs[i].id # id => \E j \in DOMAIN w : w[j] = st.tabs[i]
  BY <1>1, <1>2 DEF LeftOf
<1>11. QED
  BY <1>3, <1>6, <1>7, <1>8, <1>9, <1>10 DEF StoreOf
-----------------------------------------------------------------------------
(* Tabs, in the page and in the browser's database.                        *)

Saved(db, n) == db # <<>> => db = <<db[1]>> /\ StoreOf(db[1], n) /\ NoSpinner(db[1])

TabsInv ==
    /\ tabCount \in Nat /\ path \in Paths
    /\ StoreOf(store, tabCount)
    /\ Saved(restore, tabCount) /\ Saved(writing, tabCount) /\ Saved(stored, tabCount)

Req == [n : Nat, kind : {"query", "list", "connect"}, tab : {NoTab} \cup TabId,
        id : Nat, text : Text, db : Databases \cup {"none"}, page : BOOLEAN,
        result : {"sent", "ok", "refused"}, got : Listing]

RequestInv(r) ==
    /\ r \in Req /\ r.n <= reqCount
    /\ r.kind = "connect" => r.db \in Databases
    /\ r.kind # "connect" \/ r.result = "ok" => r.id \in DOMAIN sessions

NetInv ==
    /\ reqCount \in Nat
    /\ \E n \in Nat : sessions \in [1 .. n -> Databases \cup {Expired}]
    /\ tables \in [Databases -> Nat]
    /\ conn \in {0} \cup DOMAIN sessions
    /\ list \in Listing
    /\ \A r \in reqs : RequestInv(r)

(* Ways in which a step may change the tabs.                               *)
Grows(tab) ==
    /\ tab \in Tab /\ tab.id \notin Ids(store) /\ store'.active = tab.id
    /\ DOMAIN store'.tabs = 1 .. (Len(store.tabs) + 1)
    /\ store'.tabs[Len(store.tabs) + 1] = tab
    /\ \A i \in DOMAIN store.tabs : store'.tabs[i] = store.tabs[i]
Activates(id) == store'.tabs = store.tabs /\ store'.active = id
Shrinks(id) ==
    /\ \A j \in DOMAIN store'.tabs :
         \E i \in DOMAIN store.tabs : store'.tabs[j] = store.tabs[i] /\ store.tabs[i].id # id
    /\ \A i \in DOMAIN store.tabs :
         store.tabs[i].id # id => \E j \in DOMAIN store'.tabs : store'.tabs[j] = store.tabs[i]
    /\ store.active # id => store'.active = store.active

LEMMA SavedLater ==
  ASSUME NEW db, NEW n \in Nat, Saved(db, n)
  PROVE  Saved(db, n + 1)
BY Later DEF Saved

LEMMA SetSaves ==
  ASSUME NEW st, NEW n, StoreOf(st, n)
  PROVE  Saved(<<partialize(st)>>, n)
<1> DEFINE u == partialize(st)
<1>1. st \in Store
  BY DEF StoreOf
<1>2. Alike(st, u) /\ NoSpinner(u)
  BY <1>1, Written
<1>3. StoreOf(u, n)
  BY <1>2, AlikeStores
<1> HIDE DEF u
<1>4. QED
  BY <1>2, <1>3 DEF Saved, u

LEMMA SetTabs ==
  ASSUME TabsInv, NEW st, Set(st), tabCount' \in {tabCount, tabCount + 1},
         StoreOf(st, tabCount'), restore' = restore, stored' = stored, path' \in Paths
  PROVE  TabsInv'
<1>1. PICK n : n = tabCount'
  OBVIOUS
<1>2. /\ Saved(restore, n) /\ Saved(stored, n) /\ n \in Nat
  BY <1>1, SavedLater DEF TabsInv
<1>3. Saved(<<partialize(st)>>, n)
  BY <1>1, SetSaves
<1>4. store' = st /\ writing' = <<partialize(st)>>
  BY DEF Set
<1>5. QED
  BY <1>1, <1>2, <1>3, <1>4 DEF TabsInv

LEMMA SameTabs ==
  ASSUME TabsInv, store' = store, tabCount' = tabCount, path' \in Paths,
         restore' \in {restore, writing, stored, <<>>},
         writing' \in {restore, writing, stored, <<>>},
         stored' \in {restore, writing, stored, <<>>}
  PROVE  TabsInv'
<1>1. Saved(<<>>, tabCount)
  BY DEF Saved
<1>2. PICK n : n = tabCount
  OBVIOUS
<1>3. Saved(restore', n) /\ Saved(writing', n) /\ Saved(stored', n)
  BY <1>1, <1>2 DEF TabsInv
<1>4. QED
  BY <1>2, <1>3 DEF TabsInv

LEMMA AddTabs ==
  ASSUME TabsInv, NEW tab \in Tab, tab.id \notin Ids(store), Numbered(tab.id, tabCount'),
         Set(addTab(store, tab)), tabCount' \in {tabCount, tabCount + 1},
         restore' = restore, stored' = stored, path' \in Paths
  PROVE  TabsInv' /\ Grows(tab)
<1>1. StoreOf(store, tabCount')
  BY Later DEF TabsInv
<1>2. PICK n, u : n = tabCount' /\ u = addTab(store, tab)
  OBVIOUS
<1>3. /\ StoreOf(u, n) /\ u.active = tab.id
      /\ DOMAIN u.tabs = 1 .. (Len(store.tabs) + 1)
      /\ u.tabs[Len(store.tabs) + 1] = tab
      /\ \A i \in DOMAIN store.tabs : u.tabs[i] = store.tabs[i]
  BY <1>1, <1>2, Added
<1>4. TabsInv'
  BY <1>2, <1>3, SetTabs
<1>5. Grows(tab)
  BY <1>2, <1>3 DEF Grows, Set
<1>6. QED
  BY <1>4, <1>5

LEMMA ActivateTabs ==
  ASSUME TabsInv, NEW id \in {NoTab} \cup TabId, Set(setActiveTab(store, id)),
         tabCount' = tabCount, restore' = restore, stored' = stored, path' \in Paths
  PROVE  TabsInv' /\ Activates(id)
<1>1. PICK u : u = setActiveTab(store, id)
  OBVIOUS
<1>2. StoreOf(u, tabCount) /\ u.tabs = store.tabs /\ u.active = id
  BY <1>1, Activated DEF TabsInv
<1>3. TabsInv'
  BY <1>1, <1>2, SetTabs
<1>4. QED
  BY <1>1, <1>2, <1>3 DEF Activates, Set

LEMMA AlikeTabs ==
  ASSUME TabsInv, NEW u, Set(u), Alike(store, u),
         UNCHANGED <<tabCount, restore, stored, path>>
  PROVE  TabsInv' /\ Alike(store, store')
<1>1. StoreOf(u, tabCount)
  BY AlikeStores DEF TabsInv
<1>2. TabsInv'
  BY <1>1, SetTabs DEF TabsInv
<1>3. QED
  BY <1>2 DEF Set
-----------------------------------------------------------------------------
(* What each step does to the tabs.                                        *)

LEMMA NewTab ==
  ASSUME TabsInv, NEW type \in {"query", "gallery"}, NEW text \in Text, NEW n \in Nat,
         NEW ok \in BOOLEAN,
         NEW tab, tab = TabState(<<type, tabCount + 1>>, text, n, ok, <<>>)
  PROVE  /\ tab \in Tab /\ tab.id = <<type, tabCount + 1>>
         /\ tab.id \notin Ids(store) /\ Numbered(tab.id, tabCount + 1)
<1>1. /\ tab \in Tab /\ tab.id = <<type, tabCount + 1>>
  BY DEF TabState, Tab, TabId, Listing, TabsInv
<1>2. tab.id \notin Ids(store)
  BY <1>1, Fresh DEF TabsInv
<1>3. Numbered(tab.id, tabCount + 1)
  BY <1>1 DEF Numbered, TabsInv
<1>4. QED
  BY <1>1, <1>2, <1>3

LEMMA OpenTabs ==
  ASSUME TabsInv, NEW text \in Text, Open(text)
  PROVE  /\ TabsInv'
         /\ Grows(TabState(<<"query", tabCount + 1>>, text, 0, FALSE, <<>>))
<1>1. PICK tab : tab = TabState(<<"query", tabCount + 1>>, text, 0, FALSE, <<>>)
  OBVIOUS
<1>2. /\ tab \in Tab /\ tab.id = <<"query", tabCount + 1>>
      /\ tab.id \notin Ids(store) /\ Numbered(tab.id, tabCount + 1)
  BY <1>1, NewTab
<1>3. /\ tabCount' = tabCount + 1 /\ Set(addTab(store, tab))
      /\ restore' = restore /\ stored' = stored /\ path' = "query"
  BY <1>1 DEF Open, Navigate
<1>4. TabsInv' /\ Grows(tab)
  BY <1>2, <1>3, AddTabs DEF Paths
<1>5. QED
  BY <1>1, <1>4

LEMMA GalleryTabs ==
  ASSUME TabsInv, ViewGallery
  PROVE  /\ TabsInv'
         /\ \E i \in Active(store) :
              Grows(TabState(<<"gallery", tabCount + 1>>, store.tabs[i].text,
                             store.tabs[i].answer, TRUE, <<>>))
<1>1. PICK i \in Active(store) :
        Set(addTab(store, TabState(<<"gallery", tabCount + 1>>, store.tabs[i].text,
                                   store.tabs[i].answer, TRUE, <<>>)))
  BY DEF ViewGallery
<1>2. store.tabs[i].text \in Text /\ store.tabs[i].answer \in Nat
  BY TabsOf DEF Active, TabsInv, StoreOf, Tab
<1>3. PICK tab : tab = TabState(<<"gallery", tabCount + 1>>, store.tabs[i].text,
                                store.tabs[i].answer, TRUE, <<>>)
  OBVIOUS
<1>4. /\ tab \in Tab /\ tab.id = <<"gallery", tabCount + 1>>
      /\ tab.id \notin Ids(store) /\ Numbered(tab.id, tabCount + 1)
  BY <1>2, <1>3, NewTab
<1>5. /\ tabCount' = tabCount + 1
      /\ restore' = restore /\ stored' = stored /\ path' = "gallery"
  BY DEF ViewGallery, Navigate
<1>6. TabsInv' /\ Grows(tab)
  BY <1>1, <1>3, <1>4, <1>5, AddTabs DEF Paths
<1>7. QED
  BY <1>3, <1>6

LEMMA OnlyTabs ==
  ASSUME TabsInv, NEW type \in {"object", "objects"}, NEW tbl \in Listing,
         Set(addOnce(store, TabState(<<type, 0>>, 0, 0, FALSE, tbl))),
         UNCHANGED <<tabCount, restore, stored>>, path' \in Paths
  PROVE  /\ TabsInv'
         /\ \/ Grows(TabState(<<type, 0>>, 0, 0, FALSE, tbl))
            \/ Activates(<<type, 0>>)
<1>1. PICK tab : tab = TabState(<<type, 0>>, 0, 0, FALSE, tbl)
  OBVIOUS
<1>2. tab \in Tab /\ tab.id = <<type, 0>>
  BY <1>1 DEF TabState, Tab, TabId, Text
<1>3. Numbered(tab.id, tabCount)
  BY <1>2 DEF Numbered
<1>4. CASE tab.id \in Ids(store)
  <2>1. Set(setActiveTab(store, tab.id))
    BY <1>1, <1>4 DEF addOnce
  <2>2. tab.id \in TabId
    BY <1>2 DEF Tab
  <2>3. TabsInv' /\ Activates(tab.id)
    BY <2>1, <2>2, ActivateTabs
  <2>4. QED
    BY <1>2, <2>3
<1>5. CASE tab.id \notin Ids(store)
  <2>1. Set(addTab(store, tab))
    BY <1>1, <1>5 DEF addOnce
  <2>2. TabsInv' /\ Grows(tab)
    BY <1>2, <1>3, <1>5, <2>1, AddTabs
  <2>3. QED
    BY <1>1, <2>2
<1>6. QED
  BY <1>4, <1>5

LEMMA OpenTableTabs ==
  ASSUME TabsInv, list \in Listing, OpenTable
  PROVE  /\ TabsInv'
         /\ \/ Grows(TabState(<<"object", 0>>, 0, 0, FALSE, list))
            \/ Activates(<<"object", 0>>)
<1>1. /\ Set(addOnce(store, TabState(<<"object", 0>>, 0, 0, FALSE, list)))
      /\ UNCHANGED <<tabCount, restore, stored>> /\ path' = "object"
  BY DEF OpenTable, Navigate, addObjectTab
<1>2. QED
  BY <1>1, OnlyTabs DEF Paths

LEMMA SelectTabs ==
  ASSUME TabsInv, NEW id \in Ids(store), Select(id)
  PROVE  TabsInv' /\ Activates(id) /\ path' = id[1]
<1>1. id \in TabId
  BY TabsOf DEF Ids, TabsInv, StoreOf, Tab
<1>2. id[1] \in Paths
  BY <1>1 DEF TabId, Paths
<1>3. QED
  BY <1>1, <1>2, ActivateTabs DEF Select, Navigate

LEMMA CloseTabs ==
  ASSUME TabsInv, NEW id \in Ids(store), Close(id)
  PROVE  TabsInv' /\ Shrinks(id)
<1>1. PICK u : u = closeTab(store, id)
  OBVIOUS
<1>2. Set(u) /\ restore' = restore /\ stored' = stored /\ tabCount' = tabCount
  BY <1>1 DEF Close
<1>3. /\ StoreOf(u, tabCount)
      /\ \A j \in DOMAIN u.tabs :
           \E i \in DOMAIN store.tabs : u.tabs[j] = store.tabs[i] /\ store.tabs[i].id # id
      /\ \A i \in DOMAIN store.tabs :
           store.tabs[i].id # id => \E j \in DOMAIN u.tabs : u.tabs[j] = store.tabs[i]
      /\ store.active # id => u.active = store.active
  BY <1>1, Closed DEF TabsInv
<1>4. u.active[1] \in Paths
  BY <1>3 DEF StoreOf, Store, NoTab, TabId, Paths
<1>5. path' \in Paths
  BY <1>1, <1>4 DEF Close, Navigate, TabsInv
<1>6. TabsInv'
  BY <1>2, <1>3, <1>5, SetTabs
<1>7. Shrinks(id)
  BY <1>2, <1>3 DEF Set, Shrinks
<1>8. QED
  BY <1>6, <1>7

LEMMA EditTabs ==
  ASSUME TabsInv, NEW text \in Texts, Edit(text)
  PROVE  /\ TabsInv' /\ Alike(store, store')
         /\ SameAnswers(store, store') /\ SameTables(store, store')
         /\ \A i \in DOMAIN store.tabs :
              store'.tabs[i].text = IF store.tabs[i].id = store.active
                                    THEN text ELSE store.tabs[i].text
<1>1. PICK u : u = updateActiveTabQuery(store, text)
  OBVIOUS
<1>2. /\ Alike(store, u) /\ SameAnswers(store, u) /\ SameTables(store, u)
      /\ \A i \in DOMAIN store.tabs :
           u.tabs[i].text = IF store.tabs[i].id = store.active THEN text ELSE store.tabs[i].text
  BY <1>1, Edited DEF TabsInv, StoreOf, Text
<1>3. Set(u) /\ UNCHANGED <<tabCount, restore, stored, path>>
  BY <1>1 DEF Edit
<1>4. TabsInv' /\ store' = u
  BY <1>2, <1>3, AlikeTabs DEF Set
<1>5. QED
  BY <1>2, <1>4

LEMMA RunTabs ==
  ASSUME TabsInv, Run
  PROVE  /\ TabsInv' /\ Alike(store, store')
         /\ SameTexts(store, store') /\ SameTables(store, store')
         /\ \A i \in DOMAIN store.tabs :
              /\ store'.tabs[i].answer = store.tabs[i].answer
              /\ store.tabs[i].id # store.active =>
                   store'.tabs[i].loading = store.tabs[i].loading
<1>1. PICK u : u = setTabLoading(store, store.active)
  OBVIOUS
<1>2. /\ Alike(store, u) /\ SameTexts(store, u) /\ SameTables(store, u)
      /\ \A i \in DOMAIN store.tabs :
           /\ u.tabs[i].answer = store.tabs[i].answer
           /\ store.tabs[i].id # store.active => u.tabs[i].loading = store.tabs[i].loading
  BY <1>1, SetLoading DEF TabsInv, StoreOf
<1>3. Set(u) /\ UNCHANGED <<tabCount, restore, stored, path>>
  BY <1>1 DEF Run
<1>4. TabsInv' /\ store' = u
  BY <1>2, <1>3, AlikeTabs DEF Set
<1>5. QED
  BY <1>2, <1>4

LEMMA ShownTabs ==
  ASSUME TabsInv, NEW r, r.n \in Nat, NEW ok \in BOOLEAN, Shown(r, ok),
         UNCHANGED <<tabCount, restore, stored, path>>
  PROVE  /\ TabsInv' /\ Alike(store, store')
         /\ SameTexts(store, store') /\ SameTables(store, store')
         /\ \A i \in DOMAIN store.tabs :
              /\ store'.tabs[i].answer = IF store.tabs[i].id = r.tab THEN r.n
                                         ELSE store.tabs[i].answer
              /\ store'.tabs[i].loading = IF store.tabs[i].id = r.tab THEN FALSE
                                          ELSE store.tabs[i].loading
<1>1. PICK u : u = updateTabResults(store, r.tab, r.n, ok)
  OBVIOUS
<1>2. /\ Alike(store, u) /\ SameTexts(store, u) /\ SameTables(store, u)
      /\ \A i \in DOMAIN store.tabs :
           /\ u.tabs[i].answer = IF store.tabs[i].id = r.tab THEN r.n
                                 ELSE store.tabs[i].answer
           /\ u.tabs[i].loading = IF store.tabs[i].id = r.tab THEN FALSE
                                  ELSE store.tabs[i].loading
  <2>1. AnsweredAs(store, updateTabResults(store, r.tab, r.n, ok), r.tab, r.n)
    BY Answered DEF TabsInv, StoreOf
  <2>2. QED
    BY <1>1, <2>1 DEF AnsweredAs
<1>3. Set(u)
  BY <1>1 DEF Shown
<1>4. TabsInv' /\ store' = u
  BY <1>2, <1>3, AlikeTabs DEF Set
<1>5. QED
  BY <1>2, <1>4

LEMMA ListedTabs ==
  ASSUME TabsInv, NEW r, r.got \in Listing, ListAnswered(r)
  PROVE  /\ TabsInv' /\ Alike(store, store')
         /\ SameTexts(store, store') /\ SameAnswers(store, store')
         /\ \A i \in DOMAIN store.tabs :
              store.tabs[i].id[1] = "object" /\ r.got # <<>> => store'.tabs[i].table = r.got
<1>1. PICK u : u = updateObjectTabs(store, r.got)
  OBVIOUS
<1>2. /\ Alike(store, u) /\ SameTexts(store, u) /\ SameAnswers(store, u)
      /\ \A i \in DOMAIN store.tabs :
           store.tabs[i].id[1] = "object" /\ r.got # <<>> => u.tabs[i].table = r.got
  BY <1>1, Listed DEF TabsInv, StoreOf
<1>3. Set(u) /\ UNCHANGED <<tabCount, restore, stored, path>>
  BY <1>1 DEF ListAnswered, counters
<1>4. TabsInv' /\ store' = u
  BY <1>2, <1>3, AlikeTabs DEF Set
<1>5. QED
  BY <1>2, <1>4

(* The last tab of a type, if there is one, has that type.                 *)
LEMMA LastOfType ==
  ASSUME NEW st \in Store, NEW type, OfType(st, type) # {}
  PROVE  /\ Max(OfType(st, type)) \in DOMAIN st.tabs
         /\ st.tabs[Max(OfType(st, type))].id[1] = type
<1> DEFINE S == OfType(st, type)
<1>1. S \in SUBSET (0 .. Len(st.tabs)) /\ Len(st.tabs) \in Nat
  BY TabsOf DEF OfType
<1>2. \A i \in S : i \in DOMAIN st.tabs /\ st.tabs[i].id[1] = type
  BY DEF OfType
<1> HIDE DEF S
<1>3. PICK m \in S : \A i \in S : i <= m
  BY <1>1, GreatestElement DEF S
<1>4. Max(S) \in S
  BY <1>1, <1>3 DEF Max
<1>5. QED
  BY <1>2, <1>4 DEF S

(* The ways in which the effect of a page changes the tabs, and what it    *)
(* leaves when it stays on the page.                                       *)
SettlesBy ==
    \/ UNCHANGED <<store, writing, early>>
    \/ /\ Set(store')
       /\ \/ \E tab : Grows(tab) /\ tab.id[1] # "object" /\ tab.loading = FALSE
          \/ \E id : Activates(id)
LeavesShown(to) ==
    \/ store'.active[1] = to
    \/ to = "query" /\ store' = store /\ OfType(store, "query") = {} /\ store.tabs # <<>>

LEMMA SettleTabs ==
  ASSUME TabsInv, Settle
  PROVE  TabsInv' /\ SettlesBy /\ (settled' => path' = path /\ LeavesShown(path))
<1>1. /\ restore' = restore /\ stored' = stored /\ path' \in Paths
      /\ settled' => path' = path /\ ~Redirected(store, path)
  BY DEF Settle, TabsInv, Paths
<1>2. store \in Store /\ <<>> \in Listing /\ path \in Paths
  BY DEF TabsInv, StoreOf, Listing
<1>3. CASE path = "query" /\ store.tabs = <<>>
  <2>1. PICK tab : tab = TabState(<<"query", tabCount + 1>>, 0, 0, FALSE, <<>>)
    OBVIOUS
  <2>2. /\ tab \in Tab /\ tab.id = <<"query", tabCount + 1>>
        /\ tab.id \notin Ids(store) /\ Numbered(tab.id, tabCount + 1)
    BY <2>1, NewTab DEF Text
  <2>3. tabCount' = tabCount + 1 /\ Set(addTab(store, tab))
    BY <1>3, <2>1 DEF Settle
  <2>4. TabsInv' /\ Grows(tab)
    BY <1>1, <2>2, <2>3, AddTabs
  <2>5. tab.loading = FALSE /\ tab.id[1] = "query"
    BY <2>1 DEF TabState
  <2>6. Set(store')
    BY <2>3 DEF Set
  <2>7. SettlesBy
    BY <2>4, <2>5, <2>6 DEF SettlesBy
  <2>8. LeavesShown(path)
    BY <1>3, <2>4, <2>5 DEF LeavesShown, Grows
  <2>9. QED
    BY <1>1, <2>4, <2>7, <2>8
<1>4. CASE path = "objects" /\ OfType(store, path) = {}
  <2>1. PICK tab : tab = TabState(<<"objects", 0>>, 0, 0, FALSE, <<>>)
    OBVIOUS
  <2>2. Set(addOnce(store, tab)) /\ tabCount' = tabCount
    BY <1>4, <2>1 DEF Settle, addObjectsOverviewTab
  <2>3. TabsInv' /\ (Grows(tab) \/ Activates(<<"objects", 0>>))
    BY <1>1, <1>2, <2>1, <2>2, OnlyTabs
  <2>4. tab.loading = FALSE /\ tab.id = <<"objects", 0>> /\ tab.id[1] = "objects"
    BY <2>1 DEF TabState
  <2>5. Set(store')
    BY <2>2 DEF Set
  <2>6. SettlesBy
    BY <2>3, <2>4, <2>5 DEF SettlesBy
  <2>7. LeavesShown(path)
    BY <1>4, <2>3, <2>4 DEF LeavesShown, Grows, Activates
  <2>8. QED
    BY <1>1, <2>3, <2>6, <2>7
<1>5. CASE ~(path = "query" /\ store.tabs = <<>>) /\ ~(path = "objects" /\ OfType(store, path) = {})
  <2>1. /\ tabCount' = tabCount
        /\ IF PageTab(store, path) = store THEN UNCHANGED <<store, writing, early>>
           ELSE Set(PageTab(store, path))
    BY <1>5 DEF Settle
  <2>2. CASE PageTab(store, path) = store
    <3>1. UNCHANGED <<store, writing, early>>
      BY <2>1, <2>2
    <3>2. TabsInv'
      BY <1>1, <2>1, <3>1, SameTabs
    <3>3. ASSUME ~Redirected(store, path), store.active[1] # path
          PROVE  path = "query" /\ OfType(store, "query") = {} /\ store.tabs # <<>>
      <4>1. ASSUME path = "home" PROVE FALSE
        <5>1. [store EXCEPT !.active = NoTab] = store
          BY <2>2, <4>1 DEF PageTab, setActiveTab
        <5>2. store.active = NoTab
          BY <1>2, <5>1 DEF Store
        <5>3. QED
          BY <3>3, <4>1, <5>2 DEF NoTab
      <4>2. OfType(store, path) = {}
        <5>1. SUFFICES ASSUME OfType(store, path) # {} PROVE FALSE
          OBVIOUS
        <5>2. store.active = store.tabs[Max(OfType(store, path))].id
          BY <1>2, <2>2, <3>3, <4>1, <5>1 DEF PageTab, setActiveTab, Store
        <5>3. QED
          BY <1>2, <3>3, <5>1, <5>2, LastOfType
      <4>3. path # "gallery" /\ path # "object" /\ path # "objects"
        BY <1>5, <3>3, <4>2 DEF Redirected
      <4>4. QED
        BY <1>2, <1>5, <4>1, <4>2, <4>3 DEF Paths
    <3>4. settled' => LeavesShown(path)
      BY <1>1, <3>1, <3>3 DEF LeavesShown
    <3>5. QED
      BY <1>1, <3>1, <3>2, <3>4 DEF SettlesBy
  <2>3. CASE PageTab(store, path) # store
    <3>1. PICK id \in {NoTab} \cup TabId :
            PageTab(store, path) = setActiveTab(store, id) /\ id[1] = path
      <4>1. CASE path = "home"
        BY <4>1 DEF PageTab, NoTab
      <4>2. CASE path # "home"
        <5>1. /\ OfType(store, path) # {}
              /\ PageTab(store, path) = setActiveTab(store, store.tabs[Max(OfType(store, path))].id)
          BY <2>3, <4>2 DEF PageTab
        <5>2. /\ Max(OfType(store, path)) \in DOMAIN store.tabs
              /\ store.tabs[Max(OfType(store, path))].id[1] = path
          BY <1>2, <5>1, LastOfType
        <5>3. store.tabs[Max(OfType(store, path))].id \in TabId
          BY <1>2, <5>2, TabsOf DEF Tab
        <5>4. QED
          BY <5>1, <5>2, <5>3
      <4>3. QED
        BY <4>1, <4>2
    <3>2. Set(setActiveTab(store, id))
      BY <2>1, <2>3, <3>1
    <3>3. TabsInv' /\ Activates(id)
      BY <1>1, <2>1, <3>2, ActivateTabs
    <3>4. Set(store')
      BY <3>2 DEF Set
    <3>5. LeavesShown(path)
      BY <3>1, <3>3 DEF LeavesShown, Activates
    <3>6. QED
      BY <1>1, <3>3, <3>4, <3>5 DEF SettlesBy
  <2>4. QED
    BY <2>2, <2>3
<1>6. QED
  BY <1>3, <1>4, <1>5

LEMMA HydrateTabs ==
  ASSUME TabsInv, Hydrate
  PROVE  TabsInv'
<1>1. /\ store' = IF restore = <<>> THEN store ELSE restore[1]
      /\ restore' = <<>> /\ UNCHANGED <<path, writing, stored, tabCount>>
  BY DEF Hydrate, counters
<1>2. StoreOf(store', tabCount)
  BY <1>1 DEF TabsInv, Saved
<1>3. QED
  BY <1>1, <1>2 DEF TabsInv, Saved

LEMMA LoadTabs ==
  ASSUME TabsInv, NEW to \in {path, "home"}, Load(to)
  PROVE  TabsInv' /\ store'.tabs = <<>>
<1>1. /\ store' = Empty /\ path' = to /\ restore' = stored /\ writing' = <<>>
      /\ UNCHANGED <<stored, tabCount>>
  BY DEF Load
<1>2. Empty.tabs = <<>> /\ Empty \in Store
  BY DEF Empty, Store
<1>3. \A n : StoreOf(Empty, n)
  BY <1>2 DEF StoreOf, OneOfEach
<1>4. path' \in Paths
  BY <1>1 DEF TabsInv, Paths
<1>5. QED
  BY <1>1, <1>2, <1>3, <1>4 DEF TabsInv, Saved

(* Steps after which the page has the tabs it had.                         *)
Elsewhere ==
    \/ \E to \in Links : Go(to)
    \/ \E db \in Databases : Connect(db)
    \/ Disconnect \/ Write
    \/ \E id \in DOMAIN sessions : Expire(id)
    \/ \E r \in reqs : Serve(r) \/ ListFailed(r) \/ Connected(r)

LEMMA ElsewhereTabs ==
  ASSUME TabsInv, Elsewhere
  PROVE  TabsInv' /\ store' = store
<1>1. CASE \E to \in Links : Go(to)
  <2>1. PICK to \in Links : Go(to)
    BY <1>1
  <2>2. UNCHANGED <<store, tabCount, restore, writing, stored>> /\ path' \in Paths
    BY <2>1, LinksAssumption DEF Go, Navigate, database
  <2>3. QED
    BY <2>2, SameTabs
<1>2. CASE Write
  <2>1. /\ store' = store /\ tabCount' = tabCount /\ path' = path /\ restore' = restore
        /\ stored' = writing /\ writing' = <<>>
    BY <1>2 DEF Write, page, counters
  <2>2. QED
    BY <2>1, SameTabs DEF TabsInv
<1>3. CASE Elsewhere /\ ~Write /\ ~(\E to \in Links : Go(to))
  <2>1. UNCHANGED <<store, path, tabCount, restore, writing, stored>>
    BY <1>3 DEF Elsewhere, Connect, Disconnect, Expire, Serve, ListFailed, Connected,
                Refresh, page, database, counters
  <2>2. QED
    BY <2>1, SameTabs DEF TabsInv
<1>4. QED
  BY <1>1, <1>2, <1>3

LEMMA NextTabs ==
  ASSUME TabsInv, NetInv, [Next]_vars
  PROVE  TabsInv'
<1>1. list \in Listing /\ \A r \in reqs : r.n \in Nat /\ r.got \in Listing
  BY DEF NetInv, RequestInv, Req
<1>2. CASE UNCHANGED vars
  BY <1>2 DEF vars, page, database, counters, TabsInv
<1>3. CASE Elsewhere
  BY <1>3, ElsewhereTabs
<1>4. CASE \E text \in {0} \cup Texts : Open(text)
  BY <1>4, OpenTabs DEF Text
<1>5. CASE \E id \in Ids(store) : Select(id) \/ Close(id)
  BY <1>5, SelectTabs, CloseTabs
<1>6. CASE \E text \in Texts : Edit(text)
  BY <1>6, EditTabs
<1>7. CASE Run \/ ViewGallery \/ OpenTable
  BY <1>1, <1>7, RunTabs, GalleryTabs, OpenTableTabs
<1>8. CASE Settle \/ Hydrate
  BY <1>8, SettleTabs, HydrateTabs
<1>9. CASE \E to \in {path, "home"} : Load(to)
  BY <1>9, LoadTabs
<1>10. CASE \E r \in reqs : QueryAnswered(r) \/ QueryFailed(r) \/ QueryLost(r)
  <2>1. PICK r \in reqs : QueryAnswered(r) \/ QueryFailed(r) \/ QueryLost(r)
    BY <1>10
  <2>2. PICK ok \in BOOLEAN : Shown(r, ok)
    BY <2>1 DEF QueryAnswered, QueryFailed, QueryLost, Shows
  <2>3. UNCHANGED <<tabCount, restore, stored, path>>
    BY <2>1 DEF QueryAnswered, QueryFailed, QueryLost
  <2>4. QED
    BY <1>1, <2>2, <2>3, ShownTabs
<1>11. CASE \E r \in reqs : ListAnswered(r)
  BY <1>1, <1>11, ListedTabs
<1>12. QED
  BY <1>2, <1>3, <1>4, <1>5, <1>6, <1>7, <1>8, <1>9, <1>10, <1>11 DEF Next, Elsewhere
-----------------------------------------------------------------------------
(* Page and active tab.                                                    *)

OnPage ==
    \/ store.active[1] = path
    \/ path = "query" /\ OfType(store, "query") = {} /\ store.tabs # <<>>

PageInv ==
    /\ settled /\ ~late => OnPage
    /\ ~hydrated => ~late

(* A page stays right when its tabs are changed in their contents only.    *)
LEMMA AlikePage ==
  ASSUME TabsInv, PageInv, Alike(store, store'), UNCHANGED <<path, settled, hydrated, late>>
  PROVE  PageInv'
<1>1. OfType(store, "query")' = OfType(store, "query")
  BY DEF OfType, Alike
<1>2. store.tabs # <<>> => store'.tabs # <<>>
  BY TabsOf DEF Alike, TabsInv, StoreOf
<1>3. OnPage => OnPage'
  BY <1>1, <1>2 DEF OnPage, Alike
<1>4. QED
  BY <1>3 DEF PageInv

LEMMA ClosePage ==
  ASSUME TabsInv, PageInv, NEW id \in Ids(store), Close(id)
  PROVE  PageInv'
<1>1. hydrated /\ UNCHANGED <<hydrated, late>> /\ Shrinks(id)
  BY CloseTabs DEF Close, Click
<1>2. CASE Len(store.tabs) > 1 /\ store.active # id
  <2>1. path' = path /\ settled' = settled /\ store'.active = store.active
    BY <1>1, <1>2 DEF Close, Shrinks
  <2>2. OfType(store, "query") = {} => OfType(store, "query")' = {}
    BY <1>1 DEF OfType, Shrinks
  <2>3. store'.tabs # <<>>
    <3>1. \E i \in DOMAIN store.tabs : store.tabs[i].id # id
      <4>1. 1 \in DOMAIN store.tabs /\ 2 \in DOMAIN store.tabs /\ 1 # 2
        BY <1>2, TabsOf DEF TabsInv, StoreOf
      <4>2. store.tabs[1].id # store.tabs[2].id
        BY <4>1 DEF TabsInv, StoreOf, OneOfEach
      <4>3. QED
        BY <4>1, <4>2
    <3>2. QED
      BY <1>1, <3>1 DEF Shrinks
  <2>4. OnPage => OnPage'
    BY <2>1, <2>2, <2>3 DEF OnPage
  <2>5. QED
    BY <1>1, <2>1, <2>4 DEF PageInv
<1>3. CASE ~(Len(store.tabs) > 1 /\ store.active # id)
  <2>1. path' = store'.active[1]
    BY <1>3 DEF Close, Navigate, Set
  <2>2. OnPage'
    BY <2>1 DEF OnPage
  <2>3. QED
    BY <1>1, <2>2 DEF PageInv
<1>4. QED
  BY <1>2, <1>3

LEMMA NewPage ==
  ASSUME PageInv, hydrated, UNCHANGED <<hydrated, late>>, store'.active[1] = path'
  PROVE  PageInv'
BY DEF PageInv, OnPage

LEMMA ElsewherePage ==
  ASSUME TabsInv, PageInv, Elsewhere
  PROVE  PageInv'
<1>1. CASE \E to \in Links : Go(to)
  <2>1. ~settled' /\ UNCHANGED <<hydrated, late>>
    BY <1>1 DEF Go, Navigate, database, restoring
  <2>2. QED
    BY <2>1 DEF PageInv
<1>2. CASE ~\E to \in Links : Go(to)
  <2>1. UNCHANGED <<store, path, settled, hydrated, late>>
    BY <1>2 DEF Elsewhere, Connect, Disconnect, Write, Expire, Serve, ListFailed, Connected,
                Refresh, page, database, restoring
  <2>2. QED
    BY <2>1 DEF PageInv, OnPage
<1>3. QED
  BY <1>1, <1>2

LEMMA NextPage ==
  ASSUME TabsInv, NetInv, PageInv, [Next]_vars
  PROVE  PageInv'
<1>1. list \in Listing /\ \A r \in reqs : r.n \in Nat /\ r.got \in Listing
  BY DEF NetInv, RequestInv, Req
<1>2. CASE UNCHANGED vars
  BY <1>2 DEF vars, page, database, restoring, PageInv, OnPage
<1>3. CASE Elsewhere
  BY <1>3, ElsewherePage
<1>4. CASE \E text \in {0} \cup Texts : Open(text)
  <2>1. PICK text \in Text : Open(text)
    BY <1>4 DEF Text
  <2>2. store'.active = <<"query", tabCount + 1>>
    BY <2>1, OpenTabs DEF Grows, TabState
  <2>3. path' = "query" /\ hydrated /\ UNCHANGED <<hydrated, late>>
    BY <2>1 DEF Open, Navigate, Click
  <2>4. QED
    BY <2>2, <2>3, NewPage
<1>5. CASE \E id \in Ids(store) : Select(id) \/ Close(id)
  <2>1. PICK id \in Ids(store) : Select(id) \/ Close(id)
    BY <1>5
  <2>2. CASE Select(id)
    <3>1. hydrated /\ UNCHANGED <<hydrated, late>> /\ store'.active[1] = path'
      BY <2>2, SelectTabs DEF Select, Click, Activates
    <3>2. QED
      BY <3>1, NewPage
  <2>3. QED
    BY <2>1, <2>2, ClosePage
<1>6. CASE \E text \in Texts : Edit(text)
  <2>1. PICK text \in Texts : Edit(text)
    BY <1>6
  <2>2. Alike(store, store')
    BY <2>1, EditTabs
  <2>3. QED
    BY <2>1, <2>2, AlikePage DEF Edit
<1>7. CASE Run
  BY <1>7, RunTabs, AlikePage DEF Run
<1>8. CASE ViewGallery
  <2>1. store'.active = <<"gallery", tabCount + 1>>
    BY <1>8, GalleryTabs DEF Grows, TabState
  <2>2. path' = "gallery" /\ hydrated /\ UNCHANGED <<hydrated, late>>
    BY <1>8 DEF ViewGallery, Navigate, Click
  <2>3. QED
    BY <2>1, <2>2, NewPage
<1>9. CASE OpenTable
  <2>1. store'.active = <<"object", 0>>
    BY <1>1, <1>9, OpenTableTabs DEF Grows, TabState, Activates
  <2>2. path' = "object" /\ hydrated /\ UNCHANGED <<hydrated, late>>
    BY <1>9 DEF OpenTable, Navigate, Click
  <2>3. QED
    BY <2>1, <2>2, NewPage
<1>10. CASE Settle
  <2>1. /\ late' = FALSE /\ hydrated' = hydrated
        /\ settled' => path' = path /\ LeavesShown(path)
    BY <1>10, SettleTabs DEF Settle
  <2>2. QED
    BY <2>1 DEF LeavesShown, PageInv, OnPage
<1>11. CASE Hydrate
  <2>1. /\ hydrated' /\ path' = path /\ settled' = settled /\ ~hydrated
        /\ late' = (settled /\ restore # <<>>)
        /\ restore = <<>> => store' = store
    BY <1>11 DEF Hydrate
  <2>2. QED
    BY <2>1 DEF PageInv, OnPage
<1>12. CASE \E to \in {path, "home"} : Load(to)
  BY <1>12 DEF Load, PageInv
<1>13. CASE \E r \in reqs : QueryAnswered(r) \/ QueryFailed(r) \/ QueryLost(r)
  <2>1. PICK r \in reqs : QueryAnswered(r) \/ QueryFailed(r) \/ QueryLost(r)
    BY <1>13
  <2>2. PICK ok \in BOOLEAN : Shown(r, ok)
    BY <2>1 DEF QueryAnswered, QueryFailed, QueryLost, Shows
  <2>3. UNCHANGED <<tabCount, restore, stored, path, settled, hydrated, late>>
    BY <2>1 DEF QueryAnswered, QueryFailed, QueryLost
  <2>4. QED
    BY <1>1, <2>2, <2>3, ShownTabs, AlikePage
<1>14. CASE \E r \in reqs : ListAnswered(r)
  <2>1. PICK r \in reqs : ListAnswered(r)
    BY <1>14
  <2>2. Alike(store, store')
    BY <1>1, <2>1, ListedTabs
  <2>3. QED
    BY <2>1, <2>2, AlikePage DEF ListAnswered
<1>15. QED
  BY <1>2, <1>3, <1>4, <1>5, <1>6, <1>7, <1>8, <1>9, <1>10, <1>11, <1>12, <1>13, <1>14
     DEF Next, Elsewhere
-----------------------------------------------------------------------------
(* Requests, connections and tables.                                       *)

LEMMA RequestLater ==
  ASSUME NEW r, RequestInv(r), reqCount \in Nat, reqCount' \in {reqCount, reqCount + 1},
         DOMAIN sessions \subseteq DOMAIN sessions'
  PROVE  RequestInv(r)'
BY DEF RequestInv, Req

LEMMA Connections ==
  ASSUME NetInv
  PROVE  DOMAIN sessions \subseteq Nat /\ 0 \notin DOMAIN sessions
BY DEF NetInv

LEMMA TableListed ==
  ASSUME NetInv, NEW db \in Databases
  PROVE  Table(db) \in Listing
BY DEF NetInv, Table, Listing

(* A step of the page: the server is as it was.                            *)
LEMMA PageNet ==
  ASSUME NetInv, UNCHANGED server, reqCount' \in {reqCount, reqCount + 1},
         conn' \in {0} \cup DOMAIN sessions, list' \in Listing,
         \A r \in reqs' : r \in reqs \/ RequestInv(r)'
  PROVE  NetInv'
<1>1. sessions' = sessions /\ tables' = tables
  BY DEF server
<1>2. \A r \in reqs' : RequestInv(r)'
  BY <1>1, RequestLater DEF NetInv
<1>3. QED
  BY <1>1, <1>2 DEF NetInv

(* Requests that are sent, and those nobody waits for any more.            *)
LEMMA SentIs ==
  ASSUME NEW n \in Nat, NEW kind \in {"query", "list", "connect"},
         NEW tab \in {NoTab} \cup TabId, NEW id \in Nat, NEW text \in Text,
         NEW db \in Databases \cup {"none"}
  PROVE  NewRequest(n, kind, tab, id, text, db) \in Req
BY DEF NewRequest, Req, Listing

FirstAre(n, id) ==
    \A r \in FirstRequests(n, id) :
        /\ r \in Req /\ r.n = n /\ r.kind = "list" /\ r.id = id /\ id \in DOMAIN sessions
        /\ r.result = "sent" /\ r.page = TRUE

LEMMA FirstRequestsAre ==
  ASSUME NetInv, NEW n \in Nat, NEW id, id = 0 \/ id \in DOMAIN sessions
  PROVE  FirstAre(n, id)
<1> SUFFICES ASSUME NEW r \in FirstRequests(n, id)
             PROVE  /\ r \in Req /\ r.n = n /\ r.kind = "list" /\ r.id = id
                    /\ id \in DOMAIN sessions /\ r.result = "sent" /\ r.page = TRUE
  BY DEF FirstAre
<1>1. id # 0 /\ r = NewRequest(n, "list", NoTab, id, 0, "none") /\ id \in Nat
  BY Connections DEF FirstRequests
<1>2. r.n = n /\ r.kind = "list" /\ r.id = id /\ r.result = "sent" /\ r.page = TRUE
  BY <1>1 DEF NewRequest
<1>3. 0 \in Text /\ "none" \in Databases \cup {"none"} /\ NoTab \in {NoTab} \cup TabId
  BY DEF Text
<1>4. r \in Req
  BY <1>1, <1>3, SentIs
<1>5. QED
  BY <1>1, <1>2, <1>4

LEMMA Unheard ==
  ASSUME NEW r, RequestInv(r), NEW q, q = [r EXCEPT !.page = FALSE]
  PROVE  /\ RequestInv(q) /\ q.page = FALSE /\ q.n = r.n /\ q.kind = r.kind
         /\ q.tab = r.tab /\ q.result = r.result
BY DEF RequestInv, Req

LEMMA RefreshNet ==
  ASSUME NetInv, NEW id, id \in {0} \cup DOMAIN sessions, NEW others \in SUBSET reqs,
         Refresh(id, others), UNCHANGED server, conn' \in {0} \cup DOMAIN sessions
  PROVE  NetInv'
<1>1. reqCount' = reqCount + 1 /\ reqCount \in Nat /\ reqCount' \in Nat
  BY DEF Refresh, NetInv
<1>2. list' \in Listing
  BY DEF Refresh, NetInv, Listing
<1>3. sessions' = sessions
  BY DEF server
<1>4. ASSUME NEW r \in FirstRequests(reqCount + 1, id)
      PROVE  RequestInv(r)'
  <2>1. PICK n \in Nat : n = reqCount + 1
    BY <1>1
  <2>2. FirstAre(n, id)
    BY <2>1, FirstRequestsAre
  <2>3. r \in Req /\ r.n = n /\ r.kind = "list" /\ r.id = id /\ id \in DOMAIN sessions
    BY <1>4, <2>1, <2>2 DEF FirstAre
  <2>4. QED
    BY <1>1, <1>3, <2>1, <2>3 DEF RequestInv
<1>5. \A r \in reqs' : r \in reqs \/ RequestInv(r)'
  BY <1>4 DEF Refresh
<1>6. QED
  BY <1>1, <1>2, <1>5, PageNet

LEMMA RunNet ==
  ASSUME TabsInv, NetInv, Run
  PROVE  NetInv'
<1>1. PICK i \in Active(store) :
        reqs' = reqs \cup {Request("query", store.active, conn, store.tabs[i].text, "none")}
  BY DEF Run
<1>2. PICK r : r = NewRequest(reqCount + 1, "query", store.active, conn, store.tabs[i].text, "none")
  OBVIOUS
<1>3. /\ reqCount' = reqCount + 1 /\ reqCount \in Nat /\ conn \in DOMAIN sessions
      /\ UNCHANGED <<sessions, tables, conn, list>>
  BY DEF Run, NetInv, server
<1>4. store.active \in {NoTab} \cup TabId /\ store.tabs[i].text \in Text
  BY TabsOf DEF TabsInv, StoreOf, Store, Active, Tab
<1>5. r.n = reqCount + 1 /\ r.kind = "query" /\ r.id = conn
  BY <1>2 DEF NewRequest
<1>6. r \in Req
  <2>1. PICK n \in Nat : n = reqCount + 1
    BY <1>3
  <2>2. conn \in Nat /\ "none" \in Databases \cup {"none"}
    BY <1>3, Connections
  <2>3. QED
    BY <1>2, <1>4, <2>1, <2>2, SentIs
<1>7. RequestInv(r)'
  BY <1>3, <1>5, <1>6 DEF RequestInv
<1>8. \A q \in reqs' : q \in reqs \/ q = r
  BY <1>1, <1>2 DEF Request
<1>9. QED
  BY <1>3, <1>7, <1>8, PageNet DEF NetInv, server

LEMMA ConnectNet ==
  ASSUME NetInv, NEW db \in Databases, Connect(db)
  PROVE  NetInv'
<1>1. PICK r : r = NewRequest(reqCount + 1, "connect", NoTab, 0, 0, db)
  OBVIOUS
<1>2. /\ reqCount' = reqCount + 1 /\ reqCount \in Nat
      /\ UNCHANGED <<sessions, tables, conn, list>> /\ reqs' = reqs \cup {r}
  BY <1>1 DEF Connect, NetInv, server, page, Request
<1>3. r.n = reqCount + 1 /\ r.kind = "connect" /\ r.db = db /\ r.result = "sent"
  BY <1>1 DEF NewRequest
<1>4. r \in Req
  <2>1. PICK n \in Nat : n = reqCount + 1
    BY <1>2
  <2>2. 0 \in Text /\ 0 \in Nat /\ db \in Databases \cup {"none"} /\ NoTab \in {NoTab} \cup TabId
    BY DEF Text
  <2>3. QED
    BY <1>1, <2>1, <2>2, SentIs
<1>5. RequestInv(r)'
  BY <1>2, <1>3, <1>4 DEF RequestInv
<1>6. QED
  BY <1>2, <1>5, PageNet DEF NetInv, server

LEMMA LoadNet ==
  ASSUME NetInv, NEW to, Load(to)
  PROVE  NetInv'
<1>1. /\ reqCount' = reqCount + 1 /\ reqCount \in Nat /\ list' = <<>> /\ conn' = conn
      /\ sessions' = sessions /\ tables' = tables
      /\ reqs' = {[r EXCEPT !.page = FALSE] : r \in {q \in reqs : q.kind = "query" /\ q.result = "sent"}}
                 \cup FirstRequests(reqCount + 1, conn)
  BY DEF Load, NetInv, server
<1>2. ASSUME NEW r \in FirstRequests(reqCount + 1, conn)
      PROVE  RequestInv(r)'
  <2>1. PICK n \in Nat : n = reqCount + 1
    BY <1>1
  <2>2. FirstAre(n, conn)
    BY <2>1, FirstRequestsAre DEF NetInv
  <2>3. r \in Req /\ r.n = n /\ r.kind = "list" /\ r.id = conn /\ conn \in DOMAIN sessions
    BY <1>2, <2>1, <2>2 DEF FirstAre
  <2>4. QED
    BY <1>1, <2>1, <2>3 DEF RequestInv
<1>3. ASSUME NEW r \in reqs, NEW q, q = [r EXCEPT !.page = FALSE]
      PROVE  RequestInv(q)'
  <2>1. RequestInv(q)
    BY <1>3, Unheard DEF NetInv
  <2>2. QED
    BY <1>1, <2>1, RequestLater
<1>4. \A r \in reqs' : RequestInv(r)'
  BY <1>1, <1>2, <1>3
<1>5. QED
  BY <1>1, <1>4 DEF NetInv, Listing

(* What becomes of a request the server has executed.                      *)
ServedAs(r, q) ==
    /\ q.n = r.n /\ q.kind = r.kind /\ q.tab = r.tab /\ q.text = r.text /\ q.page = r.page
    /\ q.result \in {"ok", "refused"}
    /\ r.kind # "connect" => q.id = r.id

HasRun(q) == tables' # tables => q.result = "ok" /\ Changes(q.text)

LEMMA ConnectServed ==
  ASSUME NetInv, NEW r \in reqs, Serve(r), r.kind = "connect"
  PROVE  /\ NetInv' /\ UNCHANGED <<tables, stale>>
         /\ \A i \in DOMAIN sessions : i \in DOMAIN sessions' /\ sessions'[i] = sessions[i]
         /\ \E q : ServedAs(r, q) /\ reqs' = (reqs \ {r}) \cup {q}
<1>1. PICK n \in Nat : sessions \in [1 .. n -> Databases \cup {Expired}]
  BY DEF NetInv
<1>2. Cardinality(DOMAIN sessions) = n
  BY <1>1, FS_Interval
<1>3. /\ sessions' = [i \in 1 .. n + 1 |-> IF i = n + 1 THEN r.db ELSE sessions[i]]
      /\ reqs' = (reqs \ {r}) \cup {[r EXCEPT !.result = "ok", !.id = n + 1]}
      /\ UNCHANGED <<tables, stale>>
  BY <1>2 DEF Serve
<1>4. RequestInv(r) /\ r.db \in Databases
  BY DEF NetInv, RequestInv
<1>5. /\ sessions' \in [1 .. n + 1 -> Databases \cup {Expired}]
      /\ \A i \in DOMAIN sessions : i \in DOMAIN sessions' /\ sessions'[i] = sessions[i]
  BY <1>1, <1>3, <1>4
<1>6. UNCHANGED <<conn, list, reqCount>>
  BY DEF Serve, page, counters
<1>7. PICK q : q = [r EXCEPT !.result = "ok", !.id = n + 1]
  OBVIOUS
<1>8. q \in Req /\ q.id = n + 1 /\ q.db = r.db /\ ServedAs(r, q)
  <2>1. PICK id \in Nat : id = n + 1
    BY <1>1
  <2>2. r \in Req /\ q = [r EXCEPT !.result = "ok", !.id = id]
    BY <1>4, <1>7, <2>1 DEF RequestInv
  <2>3. q \in Req /\ q.id = id /\ q.db = r.db
    BY <2>2 DEF Req
  <2>4. /\ q.n = r.n /\ q.kind = r.kind /\ q.tab = r.tab /\ q.text = r.text /\ q.page = r.page
        /\ q.result = "ok"
    BY <2>2 DEF Req
  <2>5. QED
    BY <2>1, <2>3, <2>4 DEF ServedAs
<1>9. RequestInv(q)'
  BY <1>1, <1>4, <1>5, <1>6, <1>8 DEF RequestInv, ServedAs
<1>10. \A p \in reqs : RequestInv(p)'
  BY <1>5, <1>6, RequestLater DEF NetInv
<1>11. \A p \in reqs' : RequestInv(p)'
  BY <1>3, <1>7, <1>9, <1>10
<1>12. NetInv'
  BY <1>1, <1>3, <1>5, <1>6, <1>11 DEF NetInv
<1>13. QED
  BY <1>3, <1>5, <1>7, <1>8, <1>12

LEMMA ListServed ==
  ASSUME NetInv, NEW r \in reqs, Serve(r), r.kind = "list"
  PROVE  /\ NetInv' /\ UNCHANGED <<sessions, tables, stale>>
         /\ \E q : /\ ServedAs(r, q) /\ reqs' = (reqs \ {r}) \cup {q}
                   /\ q.result = "ok" => q.got = Table(sessions[r.id])
<1>1. /\ RequestInv(r) /\ r.id \in DOMAIN sessions
  BY DEF NetInv, RequestInv
<1>2. PICK known \in BOOLEAN : known = (sessions[r.id] # Expired)
  OBVIOUS
<1>3. PICK q : q = [r EXCEPT !.result = IF known THEN "ok" ELSE "refused",
                             !.got = IF known THEN Table(sessions[r.id]) ELSE <<>>]
  OBVIOUS
<1>4. reqs' = (reqs \ {r}) \cup {q} /\ UNCHANGED <<sessions, tables, stale>>
  BY <1>2, <1>3 DEF Serve
<1>5. known => Table(sessions[r.id]) \in Listing
  BY <1>1, <1>2, TableListed DEF NetInv
<1>6. /\ q \in Req /\ ServedAs(r, q) /\ q.db = r.db
      /\ q.result = "ok" => q.got = Table(sessions[r.id])
  BY <1>1, <1>3, <1>5 DEF RequestInv, Req, ServedAs, Listing
<1>7. RequestInv(q)
  BY <1>1, <1>6 DEF RequestInv, ServedAs
<1>8. UNCHANGED <<conn, list, reqCount>>
  BY DEF Serve, page, counters
<1>9. NetInv'
  BY <1>4, <1>7, <1>8, RequestLater DEF NetInv
<1>10. QED
  BY <1>4, <1>6, <1>9

LEMMA QueryServed ==
  ASSUME NetInv, NEW r \in reqs, Serve(r), r.kind = "query"
  PROVE  /\ NetInv' /\ sessions' = sessions /\ stale' = (stale \/ ~r.page)
         /\ \E q : /\ ServedAs(r, q) /\ HasRun(q)
                   /\ reqs' = (reqs \ {r}) \cup (IF r.page THEN {q} ELSE {})
<1>1. /\ RequestInv(r) /\ r.id \in DOMAIN sessions
  BY DEF NetInv, RequestInv
<1>2. PICK known \in BOOLEAN : known = (sessions[r.id] # Expired)
  OBVIOUS
<1>3. PICK q : q = [r EXCEPT !.result = IF known THEN "ok" ELSE "refused"]
  OBVIOUS
<1>4. /\ tables' = IF known /\ Changes(r.text) THEN [tables EXCEPT ![sessions[r.id]] = @ + 1]
                   ELSE tables
      /\ reqs' = (reqs \ {r}) \cup (IF r.page THEN {q} ELSE {})
      /\ sessions' = sessions /\ stale' = (stale \/ ~r.page)
  BY <1>2, <1>3 DEF Serve
<1>5. tables' \in [Databases -> Nat]
  <2>1. known => sessions[r.id] \in Databases
    BY <1>1, <1>2 DEF NetInv
  <2>2. tables \in [Databases -> Nat]
    BY DEF NetInv
  <2>3. ASSUME NEW db \in Databases
        PROVE  [tables EXCEPT ![db] = @ + 1] \in [Databases -> Nat]
    BY <2>2
  <2>4. tables' = tables \/ (known /\ tables' = [tables EXCEPT ![sessions[r.id]] = @ + 1])
    BY <1>4
  <2>5. QED
    BY <2>1, <2>2, <2>3, <2>4
<1>6. /\ q \in Req /\ ServedAs(r, q) /\ q.db = r.db
      /\ q.result = IF known THEN "ok" ELSE "refused"
  BY <1>1, <1>3 DEF RequestInv, Req, ServedAs
<1>7. RequestInv(q)
  BY <1>1, <1>6 DEF RequestInv, ServedAs
<1>8. UNCHANGED <<conn, list, reqCount>>
  BY DEF Serve, page, counters
<1>9. \A p \in reqs' : RequestInv(p)'
  BY <1>4, <1>7, <1>8, RequestLater DEF NetInv
<1>10. NetInv'
  BY <1>4, <1>5, <1>8, <1>9 DEF NetInv
<1>11. q.text = r.text
  BY <1>6 DEF ServedAs
<1>12. HasRun(q)
  BY <1>4, <1>6, <1>11 DEF HasRun
<1>13. QED
  BY <1>4, <1>6, <1>10, <1>12

LEMMA ExpireNet ==
  ASSUME NetInv, NEW id \in DOMAIN sessions, Expire(id)
  PROVE  NetInv'
<1>1. /\ sessions' = [sessions EXCEPT ![id] = Expired]
      /\ UNCHANGED <<tables, reqs, reqCount, conn, list>>
  BY DEF Expire, page
<1>2. PICK n \in Nat : sessions \in [1 .. n -> Databases \cup {Expired}]
  BY DEF NetInv
<1>3. sessions' \in [1 .. n -> Databases \cup {Expired}] /\ DOMAIN sessions' = DOMAIN sessions
  BY <1>1, <1>2
<1>4. \A r \in reqs' : RequestInv(r)'
  BY <1>1, <1>3, RequestLater DEF NetInv
<1>5. QED
  BY <1>1, <1>3, <1>4 DEF NetInv

LEMMA AnswerNet ==
  ASSUME NetInv, NEW r \in reqs,
         QueryAnswered(r) \/ QueryFailed(r) \/ QueryLost(r) \/ ListAnswered(r)
           \/ ListFailed(r) \/ Connected(r)
  PROVE  NetInv'
<1>1. UNCHANGED server
  BY DEF QueryAnswered, QueryFailed, QueryLost, ListAnswered, ListFailed, Connected
<1>2. RequestInv(r) /\ r.got \in Listing
  BY DEF NetInv, RequestInv, Req
<1>3. CASE QueryAnswered(r)
  BY <1>1, <1>3, RefreshNet DEF QueryAnswered, Shown, NetInv
<1>4. CASE Connected(r)
  <2>1. r.id \in DOMAIN sessions
    BY <1>2, <1>4 DEF Connected, RequestInv
  <2>2. QED
    BY <1>1, <1>4, <2>1, RefreshNet DEF Connected
<1>5. CASE QueryFailed(r)
  <2>1. /\ UNCHANGED <<conn, list, reqCount>>
        /\ \A q \in reqs' : q \in reqs \/ q = [r EXCEPT !.page = FALSE]
    BY <1>5 DEF QueryFailed, Shown
  <2>2. \A q \in reqs' : RequestInv(q)
    BY <1>2, <2>1, Unheard DEF NetInv
  <2>3. \A q \in reqs' : RequestInv(q)'
    BY <1>1, <2>1, <2>2, RequestLater DEF NetInv, server
  <2>4. QED
    BY <1>1, <2>1, <2>3, PageNet DEF NetInv
<1>6. CASE QueryLost(r) \/ ListAnswered(r) \/ ListFailed(r)
  <2>1. /\ reqs' = reqs \ {r} /\ UNCHANGED <<conn, reqCount>>
        /\ list' = list \/ list' = r.got \/ list' = <<>>
    BY <1>6 DEF QueryLost, ListAnswered, ListFailed, Shown, counters
  <2>2. QED
    BY <1>1, <1>2, <2>1, PageNet DEF NetInv, Listing
<1>7. QED
  BY <1>3, <1>4, <1>5, <1>6

(* Steps that send nothing and hear of nothing.                            *)
Local ==
    \/ \E to \in Links : Go(to)
    \/ \E text \in {0} \cup Texts : Open(text)
    \/ \E id \in Ids(store) : Select(id) \/ Close(id)
    \/ \E text \in Texts : Edit(text)
    \/ ViewGallery \/ OpenTable \/ Settle \/ Hydrate \/ Write

LEMMA LocalNet ==
  ASSUME Local
  PROVE  UNCHANGED <<server, reqs, reqCount, conn, list>>
BY DEF Local, Go, Open, Select, Close, Edit, ViewGallery, OpenTable, Settle, Hydrate, Write,
       page, counters

LEMMA NextNet ==
  ASSUME TabsInv, NetInv, [Next]_vars
  PROVE  NetInv'
<1>1. CASE UNCHANGED vars \/ Local
  <2>1. UNCHANGED <<server, reqs, reqCount, conn, list>>
    BY <1>1, LocalNet DEF vars, page, counters
  <2>2. QED
    BY <2>1, PageNet DEF NetInv
<1>2. CASE Run
  BY <1>2, RunNet
<1>3. CASE \E db \in Databases : Connect(db)
  BY <1>3, ConnectNet
<1>4. CASE Disconnect
  <2>1. conn' = 0 /\ Refresh(0, reqs) /\ UNCHANGED server
    BY <1>4 DEF Disconnect
  <2>2. QED
    BY <2>1, RefreshNet
<1>5. CASE \E to \in {path, "home"} : Load(to)
  BY <1>5, LoadNet
<1>6. CASE \E id \in DOMAIN sessions : Expire(id)
  BY <1>6, ExpireNet
<1>7. CASE \E r \in reqs : Serve(r)
  <2>1. PICK r \in reqs : Serve(r)
    BY <1>7
  <2>2. r.kind \in {"query", "list", "connect"}
    BY DEF NetInv, RequestInv, Req
  <2>3. QED
    BY <2>1, <2>2, ConnectServed, ListServed, QueryServed
<1>8. CASE \E r \in reqs : QueryAnswered(r) \/ QueryFailed(r) \/ QueryLost(r)
                             \/ ListAnswered(r) \/ ListFailed(r) \/ Connected(r)
  BY <1>8, AnswerNet
<1>9. QED
  BY <1>1, <1>2, <1>3, <1>4, <1>5, <1>6, <1>7, <1>8 DEF Next, Local
-----------------------------------------------------------------------------
(* The texts a user has written.                                           *)

KeptIn(st) ==
    \A id \in DOMAIN kept : \E i \in DOMAIN st.tabs :
        st.tabs[i].id = id /\ st.tabs[i].text = kept[id]
KeptInDb(db) == IF db = <<>> THEN DOMAIN kept = {} ELSE KeptIn(db[1])

(* The database is right, or will be after the write that is under way.    *)
KeptInv ==
    ~lost => /\ hydrated => /\ KeptIn(store)
                            /\ ~early => KeptInDb(IF writing = <<>> THEN stored ELSE writing)
             /\ ~hydrated => KeptInDb(restore)

LEMMA SetKeeps ==
  ASSUME TabsInv', KeptInv, Set(store'), UNCHANGED <<lost, hydrated, restore>>,
         hydrated /\ KeptIn(store) => KeptIn(store)',
         ~hydrated => kept' = kept
  PROVE  KeptInv'
<1>1. CASE ~hydrated
  BY <1>1 DEF KeptInv, KeptInDb, KeptIn
<1>2. CASE hydrated /\ ~lost
  <2>1. KeptIn(store)'
    BY <1>2 DEF KeptInv
  <2>2. PICK u : u = partialize(store')
    OBVIOUS
  <2>3. Alike(store', u) /\ SameTexts(store', u)
    <3>1. PICK st : st = store'
      OBVIOUS
    <3>2. st \in Store /\ u = partialize(st)
      BY <2>2, <3>1 DEF TabsInv, StoreOf
    <3>3. Alike(st, u) /\ SameTexts(st, u)
      BY <3>2, Written
    <3>4. QED
      BY <3>1, <3>3
  <2>4. KeptIn(u)'
    BY <2>1, <2>3 DEF KeptIn, Alike, SameTexts
  <2>5. writing' = <<u>> /\ writing' # <<>> /\ writing'[1] = u
    BY <2>2 DEF Set
  <2>6. KeptInDb(writing)'
    BY <2>4, <2>5 DEF KeptInDb
  <2>7. QED
    BY <1>2, <2>1, <2>5, <2>6 DEF KeptInv
<1>3. QED
  BY <1>1, <1>2 DEF KeptInv

(* The tab that is new has the text that is new.                           *)
LEMMA GrowsKeeps ==
  ASSUME TabsInv, NEW tab, Grows(tab), KeptIn(store),
         \A id \in DOMAIN kept' : \/ id \in DOMAIN kept /\ kept'[id] = kept[id]
                                  \/ id = tab.id /\ kept'[id] = tab.text
  PROVE  KeptIn(store)'
<1>1. DOMAIN store.tabs = 1 .. Len(store.tabs) /\ Len(store.tabs) \in Nat
  BY TabsOf DEF TabsInv, StoreOf
<1>2. /\ \A i \in DOMAIN store.tabs : i \in DOMAIN store'.tabs /\ store'.tabs[i] = store.tabs[i]
      /\ Len(store.tabs) + 1 \in DOMAIN store'.tabs /\ store'.tabs[Len(store.tabs) + 1] = tab
  BY <1>1 DEF Grows
<1>3. QED
  BY <1>2 DEF KeptIn

LEMMA AlikeKeeps ==
  ASSUME Alike(store, store'), SameTexts(store, store'), KeptIn(store), kept' = kept
  PROVE  KeptIn(store)'
BY DEF Alike, SameTexts, KeptIn

LEMMA NewKept ==
  ASSUME NEW id, NEW text,
         kept' = [t \in DOMAIN kept \cup {id} |-> IF t = id THEN text ELSE kept[t]]
  PROVE  \A t \in DOMAIN kept' : \/ t \in DOMAIN kept /\ kept'[t] = kept[t]
                                 \/ t = id /\ kept'[t] = text
OBVIOUS

LEMMA ActivatesKeeps ==
  ASSUME NEW id, Activates(id), KeptIn(store), kept' = kept
  PROVE  KeptIn(store)'
BY DEF Activates, KeptIn

LEMMA ElsewhereKept ==
  ASSUME KeptInv, Elsewhere \/ UNCHANGED vars
  PROVE  KeptInv'
<1>1. CASE Write
  <2>1. /\ UNCHANGED <<store, hydrated, restore, lost, early, kept>>
        /\ writing # <<>> /\ stored' = writing /\ writing' = <<>>
    BY <1>1 DEF Write, page, restoring
  <2>2. QED
    BY <2>1 DEF KeptInv, KeptInDb, KeptIn
<1>2. CASE ~Write
  <2>1. UNCHANGED <<store, hydrated, restore, writing, stored, lost, early, kept>>
    BY <1>2 DEF Elsewhere, Go, Connect, Disconnect, Expire, Serve, ListFailed, Connected,
                Refresh, page, database, restoring, vars
  <2>2. QED
    BY <2>1 DEF KeptInv, KeptInDb, KeptIn
<1>3. QED
  BY <1>1, <1>2

LEMMA NextKept ==
  ASSUME TabsInv, NetInv, KeptInv, [Next]_vars
  PROVE  KeptInv'
<1>1. list \in Listing /\ \A r \in reqs : r.n \in Nat /\ r.got \in Listing
  BY DEF NetInv, RequestInv, Req
<1>2. TabsInv'
  BY NextTabs
<1>3. CASE Elsewhere \/ UNCHANGED vars
  BY <1>3, ElsewhereKept
<1>4. CASE \E text \in {0} \cup Texts : Open(text)
  <2>1. PICK text \in Text : Open(text)
    BY <1>4 DEF Text
  <2>2. PICK tab : tab = TabState(<<"query", tabCount + 1>>, text, 0, FALSE, <<>>)
    OBVIOUS
  <2>3. Grows(tab) /\ tab.id = <<"query", tabCount + 1>> /\ tab.text = text
    BY <2>1, <2>2, OpenTabs DEF TabState
  <2>4. \A id \in DOMAIN kept' : \/ id \in DOMAIN kept /\ kept'[id] = kept[id]
                                 \/ id = tab.id /\ kept'[id] = tab.text
    BY <2>1, <2>3, NewKept DEF Open
  <2>5. KeptIn(store) => KeptIn(store)'
    BY <2>3, <2>4, GrowsKeeps
  <2>6. Set(store') /\ UNCHANGED <<lost, hydrated, restore>> /\ hydrated
    BY <2>1 DEF Open, Set, Click
  <2>7. QED
    BY <1>2, <2>5, <2>6, SetKeeps
<1>5. CASE \E id \in Ids(store) : Select(id)
  <2>1. PICK id \in Ids(store) : Select(id)
    BY <1>5
  <2>2. Set(store') /\ UNCHANGED <<lost, hydrated, restore, kept>>
    BY <2>1 DEF Select, Set
  <2>3. QED
    BY <1>2, <2>1, <2>2, SelectTabs, ActivatesKeeps, SetKeeps
<1>6. CASE \E id \in Ids(store) : Close(id)
  <2>1. PICK id \in Ids(store) : Close(id)
    BY <1>6
  <2>2. /\ Set(store') /\ UNCHANGED <<lost, hydrated, restore>> /\ hydrated
        /\ kept' = [t \in DOMAIN kept \ {id} |-> kept[t]]
    BY <2>1 DEF Close, Set, Click
  <2>3. KeptIn(store) => KeptIn(store)'
    <3>1. \A i \in DOMAIN store.tabs :
            store.tabs[i].id # id => \E j \in DOMAIN store'.tabs : store'.tabs[j] = store.tabs[i]
      BY <2>1, CloseTabs DEF Shrinks
    <3>2. QED
      BY <2>2, <3>1 DEF KeptIn
  <2>4. QED
    BY <1>2, <2>2, <2>3, SetKeeps
<1>7. CASE \E text \in Texts : Edit(text)
  <2>1. PICK text \in Texts : Edit(text)
    BY <1>7
  <2>2. /\ Set(store') /\ UNCHANGED <<lost, hydrated, restore>> /\ hydrated
        /\ kept' = [t \in DOMAIN kept |-> IF t = store.active THEN text ELSE kept[t]]
    BY <2>1 DEF Edit, Set, Click
  <2>3. KeptIn(store) => KeptIn(store)'
    BY <2>1, <2>2, EditTabs DEF KeptIn, Alike
  <2>4. QED
    BY <1>2, <2>2, <2>3, SetKeeps
<1>8. CASE ViewGallery
  <2>1. PICK i, tab :
          /\ i \in Active(store)
          /\ tab = TabState(<<"gallery", tabCount + 1>>, store.tabs[i].text,
                            store.tabs[i].answer, TRUE, <<>>)
          /\ Set(addTab(store, tab))
          /\ kept' = [k \in DOMAIN kept \cup {<<"gallery", tabCount + 1>>} |->
                        IF k = <<"gallery", tabCount + 1>> THEN store.tabs[i].text ELSE kept[k]]
    BY <1>8 DEF ViewGallery
  <2>2. tab.id = <<"gallery", tabCount + 1>> /\ tab.text = store.tabs[i].text
    BY <2>1 DEF TabState
  <2>3. Grows(tab)
    <3>1. store.tabs[i].text \in Text /\ store.tabs[i].answer \in Nat
      <4>1. i \in DOMAIN store.tabs
        BY <2>1 DEF Active
      <4>2. QED
        BY <4>1, TabsOf DEF TabsInv, StoreOf, Tab
    <3>2. /\ tab \in Tab /\ tab.id \notin Ids(store) /\ Numbered(tab.id, tabCount + 1)
      BY <2>1, <3>1, NewTab
    <3>3. /\ tabCount' = tabCount + 1
          /\ restore' = restore /\ stored' = stored /\ path' = "gallery"
      BY <1>8 DEF ViewGallery, Navigate
    <3>4. QED
      BY <2>1, <3>2, <3>3, AddTabs DEF Paths
  <2>4. \A id \in DOMAIN kept' : \/ id \in DOMAIN kept /\ kept'[id] = kept[id]
                                 \/ id = tab.id /\ kept'[id] = tab.text
    BY <2>1, <2>2, NewKept
  <2>5. KeptIn(store) => KeptIn(store)'
    BY <2>3, <2>4, GrowsKeeps
  <2>6. Set(store') /\ UNCHANGED <<lost, hydrated, restore>> /\ hydrated
    BY <1>8 DEF ViewGallery, Set, Click
  <2>7. QED
    BY <1>2, <2>5, <2>6, SetKeeps
<1>9. CASE OpenTable
  <2>1. Set(store') /\ UNCHANGED <<lost, hydrated, restore, kept>>
    BY <1>9 DEF OpenTable, Set
  <2>2. KeptIn(store) => KeptIn(store)'
    BY <1>1, <1>9, <2>1, OpenTableTabs, GrowsKeeps, ActivatesKeeps
  <2>3. QED
    BY <1>2, <2>1, <2>2, SetKeeps
<1>10. CASE Run
  <2>1. Set(store') /\ UNCHANGED <<lost, hydrated, restore, kept>>
    BY <1>10 DEF Run, Set
  <2>2. QED
    BY <1>2, <1>10, <2>1, RunTabs, AlikeKeeps, SetKeeps
<1>11. CASE Settle
  <2>1. UNCHANGED <<lost, hydrated, restore, stored, kept>> /\ SettlesBy
    BY <1>11, SettleTabs DEF Settle
  <2>2. CASE UNCHANGED <<store, writing, early>>
    BY <2>1, <2>2 DEF KeptInv, KeptInDb, KeptIn
  <2>3. CASE ~UNCHANGED <<store, writing, early>>
    <3>1. Set(store') /\ ((\E tab : Grows(tab)) \/ (\E id : Activates(id)))
      BY <2>1, <2>3 DEF SettlesBy
    <3>2. KeptIn(store) => KeptIn(store)'
      BY <2>1, <3>1, GrowsKeeps, ActivatesKeeps
    <3>3. QED
      BY <1>2, <2>1, <3>1, <3>2, SetKeeps
  <2>4. QED
    BY <2>2, <2>3
<1>12. CASE Hydrate
  <2>1. /\ ~hydrated /\ hydrated' /\ lost' = lost /\ kept' = kept
        /\ store' = IF restore = <<>> THEN store ELSE restore[1]
        /\ early' = (writing # <<>> \/ stored # restore)
        /\ writing' = writing /\ stored' = stored
    BY <1>12 DEF Hydrate
  <2>2. ASSUME ~lost
        PROVE  KeptIn(store)' /\ KeptInDb(restore)
    <3>1. KeptInDb(restore)
      BY <2>1, <2>2 DEF KeptInv
    <3>2. QED
      BY <2>1, <3>1 DEF KeptInDb, KeptIn
  <2>3. ASSUME ~lost, ~early'
        PROVE  writing' = <<>> /\ KeptInDb(stored)
    <3>1. writing = <<>> /\ stored = restore
      BY <2>1, <2>3
    <3>2. KeptInDb(stored)
      BY <2>2, <2>3, <3>1
    <3>3. QED
      BY <2>1, <3>1, <3>2
  <2>4. KeptInDb(stored)' <=> KeptInDb(stored)
    BY <2>1 DEF KeptInDb, KeptIn
  <2>5. QED
    BY <2>1, <2>2, <2>3, <2>4 DEF KeptInv
<1>13. CASE \E to \in {path, "home"} : Load(to)
  <2>1. /\ ~hydrated' /\ restore' = stored /\ kept' = kept
        /\ lost' = (lost \/ writing # <<>> \/ early \/ ~hydrated)
    BY <1>13 DEF Load
  <2>2. QED
    BY <2>1 DEF KeptInv, KeptInDb, KeptIn
<1>14. CASE \E r \in reqs : QueryAnswered(r) \/ QueryFailed(r) \/ QueryLost(r)
  <2>1. PICK r \in reqs : QueryAnswered(r) \/ QueryFailed(r) \/ QueryLost(r)
    BY <1>14
  <2>2. PICK ok \in BOOLEAN : Shown(r, ok)
    BY <2>1 DEF QueryAnswered, QueryFailed, QueryLost, Shows
  <2>3. /\ UNCHANGED <<tabCount, restore, stored, path, hydrated, lost, kept>>
        /\ Set(store')
    BY <2>1 DEF QueryAnswered, QueryFailed, QueryLost, Shown, Set
  <2>4. Alike(store, store') /\ SameTexts(store, store')
    BY <1>1, <2>2, <2>3, ShownTabs
  <2>5. QED
    BY <1>2, <2>3, <2>4, AlikeKeeps, SetKeeps
<1>15. CASE \E r \in reqs : ListAnswered(r)
  <2>1. PICK r \in reqs : ListAnswered(r)
    BY <1>15
  <2>2. Alike(store, store') /\ SameTexts(store, store')
    BY <1>1, <2>1, ListedTabs
  <2>3. Set(store') /\ UNCHANGED <<lost, hydrated, restore, kept>>
    BY <2>1 DEF ListAnswered, Set
  <2>4. QED
    BY <1>2, <2>2, <2>3, AlikeKeeps, SetKeeps
<1>16. QED
  BY <1>3, <1>4, <1>5, <1>6, <1>7, <1>8, <1>9, <1>10, <1>11, <1>12, <1>13, <1>14, <1>15
     DEF Next, Elsewhere
-----------------------------------------------------------------------------
(* The answers tabs show.                                                  *)

Queries == Waiting("query")
Awaited(id) == \E q \in Queries : q.tab = id

RanInv ==
    /\ \A q \in Queries, t \in DOMAIN ran : q.n = ran[t] => q.tab = t
    /\ \A q \in Queries : q.tab \in DOMAIN ran => q.n <= ran[q.tab]
    /\ \A t \in DOMAIN ran : ran[t] \in Nat /\ ran[t] <= reqCount
    /\ DOMAIN ran \subseteq Ids(store)
    /\ ~hydrated => DOMAIN ran = {}

Settled(t) ==
    /\ t.loading = FALSE
    /\ t.id \in DOMAIN ran /\ t.id \notin mixed => t.answer = ran[t.id]

AnswerInv ==
    RanInv /\ \A i \in DOMAIN store.tabs : Awaited(store.tabs[i].id) \/ Settled(store.tabs[i])

(* The same queries are waited for: the server may have executed some.     *)
SameQueries ==
    /\ \A q \in Queries : \E p \in Queries' : p.n = q.n /\ p.tab = q.tab
    /\ \A p \in Queries' : \E q \in Queries : p.n = q.n /\ p.tab = q.tab

LEMMA RanSame ==
  ASSUME NetInv, NetInv', RanInv, SameQueries, UNCHANGED <<ran, hydrated>>, reqCount' >= reqCount,
         DOMAIN ran \subseteq Ids(store)'
  PROVE  RanInv'
<1>1. \A t \in DOMAIN ran : ran[t] \in Nat /\ ran[t] <= reqCount'
  BY DEF RanInv, NetInv
<1>2. QED
  BY <1>1 DEF RanInv, SameQueries

LEMMA SettledSame ==
  ASSUME SameQueries, UNCHANGED <<ran, mixed>>, NEW t, NEW u, u.id = t.id,
         u.loading = t.loading, u.answer = t.answer, Awaited(t.id) \/ Settled(t)
  PROVE  (Awaited(u.id) \/ Settled(u))'
BY DEF SameQueries, Awaited, Settled

LEMMA AnswersSame ==
  ASSUME TabsInv, NetInv, NetInv', AnswerInv, SameQueries, UNCHANGED <<ran, mixed, hydrated>>,
         reqCount' >= reqCount, Alike(store, store'), SameAnswers(store, store')
  PROVE  AnswerInv'
<1>1. Ids(store)' = Ids(store)
  BY AlikeStores DEF TabsInv
<1>2. RanInv'
  BY <1>1, RanSame DEF AnswerInv, RanInv
<1>3. ASSUME NEW i \in DOMAIN store'.tabs
      PROVE  (Awaited(store.tabs[i].id) \/ Settled(store.tabs[i]))'
  <2>1. /\ i \in DOMAIN store.tabs /\ store'.tabs[i].id = store.tabs[i].id
        /\ store'.tabs[i].loading = store.tabs[i].loading
        /\ store'.tabs[i].answer = store.tabs[i].answer
    BY <1>3 DEF Alike, SameAnswers
  <2>2. Awaited(store.tabs[i].id) \/ Settled(store.tabs[i])
    BY <2>1 DEF AnswerInv
  <2>3. QED
    BY <2>1, <2>2, SettledSame
<1>4. QED
  BY <1>2, <1>3 DEF AnswerInv

(* Tabs are moved, closed or added.                                        *)
LEMMA AnswersMoved ==
  ASSUME NetInv, NetInv', AnswerInv, SameQueries, UNCHANGED <<ran, mixed, hydrated>>,
         reqCount' >= reqCount,
         \A j \in DOMAIN store'.tabs :
           \/ \E i \in DOMAIN store.tabs : store'.tabs[j] = store.tabs[i]
           \/ store'.tabs[j].id \notin Ids(store) /\ store'.tabs[j].loading = FALSE,
         \A i \in DOMAIN store.tabs : \E j \in DOMAIN store'.tabs : store'.tabs[j] = store.tabs[i]
  PROVE  AnswerInv'
<1>1. Ids(store) \subseteq Ids(store)'
  BY DEF Ids
<1>2. DOMAIN ran \subseteq Ids(store)
  BY DEF AnswerInv, RanInv
<1>3. RanInv'
  BY <1>1, <1>2, RanSame DEF AnswerInv
<1>4. ASSUME NEW j \in DOMAIN store'.tabs
      PROVE  (Awaited(store.tabs[j].id) \/ Settled(store.tabs[j]))'
  <2>1. CASE \E i \in DOMAIN store.tabs : store'.tabs[j] = store.tabs[i]
    BY <2>1, SettledSame DEF AnswerInv
  <2>2. CASE store'.tabs[j].id \notin Ids(store) /\ store'.tabs[j].loading = FALSE
    BY <1>2, <2>2 DEF Settled
  <2>3. QED
    BY <1>4, <2>1, <2>2
<1>5. QED
  BY <1>3, <1>4 DEF AnswerInv

(* Only Execute adds a query; only answers and a new page take them away.  *)
Quiet ==
    \/ Local
    \/ \E db \in Databases : Connect(db)
    \/ Disconnect
    \/ \E id \in DOMAIN sessions : Expire(id)
    \/ \E r \in reqs : Serve(r) \/ ListAnswered(r) \/ ListFailed(r) \/ Connected(r)

LEMMA ServeQueries ==
  ASSUME NetInv, NEW r \in reqs, Serve(r)
  PROVE  SameQueries
<1>1. CASE r.kind = "query" /\ ~r.page
  <2>1. reqs' = reqs \ {r}
    BY <1>1, QueryServed
  <2>2. Queries' = Queries
    BY <1>1, <2>1 DEF Queries, Waiting
  <2>3. QED
    BY <2>2 DEF SameQueries
<1>2. CASE ~(r.kind = "query" /\ ~r.page)
  <2>1. PICK q : ServedAs(r, q) /\ reqs' = (reqs \ {r}) \cup {q}
    <3>1. r.kind \in {"query", "list", "connect"}
      BY DEF NetInv, RequestInv, Req
    <3>2. CASE r.kind = "connect"
      <4>1. PICK q : ServedAs(r, q) /\ reqs' = (reqs \ {r}) \cup {q}
        BY <3>2, ConnectServed
      <4>2. QED
        BY <4>1
    <3>3. CASE r.kind = "list"
      <4>1. PICK q : ServedAs(r, q) /\ reqs' = (reqs \ {r}) \cup {q}
        BY <3>3, ListServed
      <4>2. QED
        BY <4>1
    <3>4. CASE r.kind = "query"
      <4>1. PICK q : ServedAs(r, q) /\ reqs' = (reqs \ {r}) \cup (IF r.page THEN {q} ELSE {})
        BY <3>4, QueryServed
      <4>2. QED
        BY <1>2, <3>4, <4>1
    <3>5. QED
      BY <3>1, <3>2, <3>3, <3>4
  <2>2. q.n = r.n /\ q.tab = r.tab /\ q.kind = r.kind /\ q.page = r.page
    BY <2>1 DEF ServedAs
  <2>3. ASSUME NEW p \in Queries
        PROVE  \E s \in Queries' : s.n = p.n /\ s.tab = p.tab
    <3>1. p \in reqs /\ p.page /\ p.kind = "query"
      BY DEF Queries, Waiting
    <3>2. CASE p # r
      BY <2>1, <3>1, <3>2 DEF Queries, Waiting
    <3>3. CASE p = r
      BY <2>1, <2>2, <3>1, <3>3 DEF Queries, Waiting
    <3>4. QED
      BY <3>2, <3>3
  <2>4. ASSUME NEW p \in Queries'
        PROVE  \E s \in Queries : p.n = s.n /\ p.tab = s.tab
    <3>1. p \in reqs' /\ p.page /\ p.kind = "query"
      BY DEF Queries, Waiting
    <3>2. CASE p # q
      BY <2>1, <3>1, <3>2 DEF Queries, Waiting
    <3>3. CASE p = q
      BY <2>1, <2>2, <3>1, <3>3 DEF Queries, Waiting
    <3>4. QED
      BY <3>2, <3>3
  <2>5. QED
    BY <2>3, <2>4 DEF SameQueries
<1>3. QED
  BY <1>1, <1>2

(* The list and nothing else is asked for.                                 *)
LEMMA RefreshQueries ==
  ASSUME NetInv, NEW id \in {0} \cup DOMAIN sessions, NEW others \in SUBSET reqs,
         Refresh(id, others)
  PROVE  Queries' = {q \in Queries : q \in others} /\ reqCount' = reqCount + 1
<1>1. reqCount + 1 \in Nat /\ reqCount' = reqCount + 1
  BY DEF NetInv, Refresh
<1>2. \A r \in FirstRequests(reqCount + 1, id) : r.kind = "list"
  <2>1. PICK n \in Nat : n = reqCount + 1
    BY <1>1
  <2>2. FirstAre(n, id)
    BY <2>1, FirstRequestsAre
  <2>3. QED
    BY <2>1, <2>2 DEF FirstAre
<1>3. QED
  BY <1>1, <1>2 DEF Refresh, Queries, Waiting

LEMMA QuietQueries ==
  ASSUME NetInv, Quiet \/ UNCHANGED vars
  PROVE  SameQueries /\ reqCount' >= reqCount
<1>1. SUFFICES ~(\E r \in reqs : Serve(r)) =>
                 Queries' = Queries /\ reqCount' \in {reqCount, reqCount + 1}
  <2>1. ASSUME NEW r \in reqs, Serve(r)
        PROVE  SameQueries /\ reqCount' = reqCount
    BY <2>1, ServeQueries DEF Serve, counters
  <2>2. reqCount \in Nat
    BY DEF NetInv
  <2>3. QED
    BY <2>1, <2>2 DEF SameQueries
<1>2. CASE Local \/ (\E id \in DOMAIN sessions : Expire(id)) \/ UNCHANGED vars
  <2>1. reqs' = reqs /\ reqCount' = reqCount
    BY <1>2, LocalNet DEF Expire, vars, counters
  <2>2. QED
    BY <2>1 DEF Queries, Waiting
<1>3. CASE \E db \in Databases : Connect(db)
  <2>1. PICK r : r.kind = "connect" /\ reqs' = reqs \cup {r} /\ reqCount' = reqCount + 1
    BY <1>3 DEF Connect, Request, NewRequest
  <2>2. QED
    BY <2>1 DEF Queries, Waiting
<1>4. CASE Disconnect
  <2>1. Refresh(0, reqs)
    BY <1>4 DEF Disconnect
  <2>2. Queries' = {q \in Queries : q \in reqs} /\ reqCount' = reqCount + 1
    BY <2>1, RefreshQueries
  <2>3. QED
    BY <2>2 DEF Queries, Waiting
<1>5. CASE \E r \in reqs : ListAnswered(r) \/ ListFailed(r)
  <2>1. PICK r \in reqs : r.kind = "list" /\ reqs' = reqs \ {r} /\ reqCount' = reqCount
    BY <1>5 DEF ListAnswered, ListFailed, Waiting, counters
  <2>2. QED
    BY <2>1 DEF Queries, Waiting
<1>6. CASE \E r \in reqs : Connected(r)
  <2>1. PICK r \in reqs : r.kind = "connect" /\ r.result = "ok" /\ Refresh(r.id, reqs \ {r})
    BY <1>6 DEF Connected, Waiting
  <2>2. r.id \in DOMAIN sessions
    BY <2>1 DEF NetInv, RequestInv
  <2>3. Queries' = {q \in Queries : q \in reqs \ {r}} /\ reqCount' = reqCount + 1
    BY <2>1, <2>2, RefreshQueries
  <2>4. QED
    BY <2>1, <2>3 DEF Queries, Waiting
<1>7. QED
  BY <1>2, <1>3, <1>4, <1>5, <1>6 DEF Quiet

LEMMA GrowsAnswers ==
  ASSUME TabsInv, NetInv, NetInv', AnswerInv, SameQueries, UNCHANGED <<ran, mixed, hydrated>>,
         reqCount' >= reqCount,
         (\E tab : Grows(tab) /\ tab.loading = FALSE) \/ (\E id : Activates(id))
  PROVE  AnswerInv'
<1>1. CASE \E id : Activates(id)
  BY <1>1, AnswersMoved DEF Activates
<1>2. CASE \E tab : Grows(tab) /\ tab.loading = FALSE
  <2>1. PICK tab : Grows(tab) /\ tab.loading = FALSE
    BY <1>2
  <2>2. DOMAIN store.tabs = 1 .. Len(store.tabs) /\ Len(store.tabs) \in Nat
    BY TabsOf DEF TabsInv, StoreOf
  <2>3. PICK n \in Nat : n = Len(store.tabs)
    BY <2>2
  <2>4. /\ DOMAIN store.tabs = 1 .. n /\ DOMAIN store'.tabs = 1 .. n + 1
        /\ store'.tabs[n + 1] = tab /\ tab.id \notin Ids(store)
        /\ \A i \in DOMAIN store.tabs : store'.tabs[i] = store.tabs[i]
    BY <2>1, <2>2, <2>3 DEF Grows
  <2>5. /\ \A j \in DOMAIN store'.tabs : j \in DOMAIN store.tabs \/ j = n + 1
        /\ \A i \in DOMAIN store.tabs : i \in DOMAIN store'.tabs
    BY <2>4
  <2>6. QED
    BY <2>1, <2>4, <2>5, AnswersMoved
<1>3. QED
  BY <1>1, <1>2

LEMMA CloseAnswers ==
  ASSUME TabsInv, NetInv, NetInv', AnswerInv, NEW id \in Ids(store), Close(id)
  PROVE  AnswerInv'
<1>1. Shrinks(id)
  BY CloseTabs
<1>2. /\ Queries' = Queries /\ UNCHANGED <<reqCount, mixed, hydrated>>
      /\ ran' = [t \in DOMAIN ran \ {id} |-> ran[t]]
  BY DEF Close, Queries, Waiting
<1>3. Ids(store) \ {id} \subseteq Ids(store)'
  BY <1>1 DEF Shrinks, Ids
<1>4. RanInv'
  BY <1>2, <1>3 DEF AnswerInv, RanInv
<1>5. ASSUME NEW j \in DOMAIN store'.tabs
      PROVE  (Awaited(store.tabs[j].id) \/ Settled(store.tabs[j]))'
  <2>1. PICK i \in DOMAIN store.tabs : store'.tabs[j] = store.tabs[i] /\ store.tabs[i].id # id
    BY <1>1 DEF Shrinks
  <2>2. Awaited(store.tabs[i].id) \/ Settled(store.tabs[i])
    BY DEF AnswerInv
  <2>3. QED
    BY <1>2, <2>1, <2>2 DEF Awaited, Settled
<1>6. QED
  BY <1>4, <1>5 DEF AnswerInv

LEMMA RunAnswers ==
  ASSUME TabsInv, NetInv, NetInv', AnswerInv, Run
  PROVE  AnswerInv'
<1>1. PICK i \in Active(store) :
        reqs' = reqs \cup {Request("query", store.active, conn, store.tabs[i].text, "none")}
  BY DEF Run
<1>2. PICK r : r = Request("query", store.active, conn, store.tabs[i].text, "none")
  OBVIOUS
<1>3. r.n = reqCount + 1 /\ r.kind = "query" /\ r.tab = store.active /\ r.page
  BY <1>2 DEF Request, NewRequest
<1>4. Queries' = Queries \cup {r}
  BY <1>1, <1>2, <1>3 DEF Queries, Waiting
<1>5. PICK a : a = store.active /\ a \in Ids(store)
  BY <1>1 DEF Active, Ids
<1>6. /\ ran' = [t \in DOMAIN ran \cup {a} |-> IF t = a THEN reqCount + 1 ELSE ran[t]]
      /\ mixed' = mixed \ {a} /\ reqCount' = reqCount + 1 /\ hydrated' = hydrated /\ hydrated
      /\ reqCount \in Nat
  BY <1>5 DEF Run, Click, NetInv
<1>7. \A q \in Queries : q.n \in Nat /\ q.n <= reqCount
  BY DEF Queries, Waiting, NetInv, RequestInv, Req
<1>8. \A t \in DOMAIN ran : ran[t] \in Nat /\ ran[t] <= reqCount
  BY DEF AnswerInv, RanInv
<1>9. /\ Alike(store, store')
      /\ \A j \in DOMAIN store.tabs :
           /\ store'.tabs[j].answer = store.tabs[j].answer
           /\ store.tabs[j].id # a => store'.tabs[j].loading = store.tabs[j].loading
  BY <1>5, RunTabs
<1>10. Ids(store)' = Ids(store)
  BY <1>9, AlikeStores DEF TabsInv
<1>11. RanInv'
  <2>1. ASSUME NEW q \in Queries', NEW t \in DOMAIN ran', q.n = ran'[t]
        PROVE  q.tab = t
    <3>1. CASE t = a
      BY <1>3, <1>4, <1>5, <1>6, <1>7, <2>1, <3>1
    <3>2. CASE t # a
      BY <1>3, <1>4, <1>6, <1>8, <2>1, <3>2 DEF AnswerInv, RanInv
    <3>3. QED
      BY <3>1, <3>2
  <2>2. ASSUME NEW q \in Queries', q.tab \in DOMAIN ran'
        PROVE  q.n <= ran'[q.tab]
    <3>1. CASE q.tab = a
      BY <1>3, <1>4, <1>6, <1>7, <3>1
    <3>2. CASE q.tab # a
      BY <1>3, <1>4, <1>5, <1>6, <2>2, <3>2 DEF AnswerInv, RanInv
    <3>3. QED
      BY <3>1, <3>2
  <2>3. \A t \in DOMAIN ran' : ran'[t] \in Nat /\ ran'[t] <= reqCount'
    BY <1>6, <1>8
  <2>4. DOMAIN ran' \subseteq Ids(store)'
    BY <1>5, <1>6, <1>10 DEF AnswerInv, RanInv
  <2>5. QED
    BY <1>6, <2>1, <2>2, <2>3, <2>4 DEF RanInv
<1>12. ASSUME NEW j \in DOMAIN store'.tabs
       PROVE  (Awaited(store.tabs[j].id) \/ Settled(store.tabs[j]))'
  <2>1. /\ j \in DOMAIN store.tabs /\ store'.tabs[j].id = store.tabs[j].id
        /\ store'.tabs[j].answer = store.tabs[j].answer
        /\ store.tabs[j].id # a => store'.tabs[j].loading = store.tabs[j].loading
    BY <1>9, <1>12 DEF Alike
  <2>2. CASE store.tabs[j].id = a
    BY <1>3, <1>4, <1>5, <2>1, <2>2 DEF Awaited
  <2>3. CASE store.tabs[j].id # a
    <3>1. Awaited(store.tabs[j].id) \/ Settled(store.tabs[j])
      BY <2>1 DEF AnswerInv
    <3>2. QED
      BY <1>4, <1>6, <2>1, <2>3, <3>1 DEF Awaited, Settled
  <2>4. QED
    BY <2>2, <2>3
<1>13. QED
  BY <1>11, <1>12 DEF AnswerInv

LEMMA HydrateAnswers ==
  ASSUME TabsInv, AnswerInv, Hydrate
  PROVE  AnswerInv'
<1>1. /\ DOMAIN ran = {} /\ hydrated' /\ UNCHANGED <<reqs, ran, mixed, reqCount>>
      /\ store' = IF restore = <<>> THEN store ELSE restore[1]
  BY DEF AnswerInv, RanInv, Hydrate, counters
<1>2. RanInv'
  BY <1>1 DEF RanInv
<1>3. CASE restore = <<>>
  BY <1>1, <1>2, <1>3 DEF AnswerInv, Awaited, Settled, Queries, Waiting
<1>4. CASE restore # <<>>
  BY <1>1, <1>2, <1>4 DEF AnswerInv, Settled, TabsInv, Saved, NoSpinner
<1>5. QED
  BY <1>3, <1>4

LEMMA LoadAnswers ==
  ASSUME TabsInv, NEW to \in {path, "home"}, Load(to)
  PROVE  AnswerInv'
<1>1. store'.tabs = <<>> /\ ran' = [t \in {} |-> 0]
  BY LoadTabs DEF Load
<1>2. DOMAIN ran' = {} /\ DOMAIN store'.tabs = {}
  BY <1>1
<1>3. QED
  BY <1>2 DEF AnswerInv, RanInv

(* An answer is overtaken, the last one, or waited for by nobody else but  *)
(* the one that is the last.                                               *)
LEMMA ShownAnswers ==
  ASSUME TabsInv, NetInv, NetInv', AnswerInv, NEW r \in Queries, NEW ok \in BOOLEAN,
         Shown(r, ok), Queries' = Queries \ {r}, reqCount' >= reqCount,
         UNCHANGED <<tabCount, restore, stored, path, hydrated>>
  PROVE  AnswerInv'
<1>1. r \in reqs /\ r.n \in Nat
  BY DEF Queries, Waiting, NetInv, RequestInv, Req
<1>2. /\ Alike(store, store')
      /\ \A j \in DOMAIN store.tabs :
           /\ store'.tabs[j].answer = IF store.tabs[j].id = r.tab THEN r.n
                                      ELSE store.tabs[j].answer
           /\ store'.tabs[j].loading = IF store.tabs[j].id = r.tab THEN FALSE
                                       ELSE store.tabs[j].loading
  BY <1>1, ShownTabs
<1>3. Ids(store)' = Ids(store)
  BY <1>2, AlikeStores DEF TabsInv
<1>4. /\ ran' = ran
      /\ mixed' = IF r.tab \in DOMAIN ran /\ Overtaken(r) THEN mixed \cup {r.tab} ELSE mixed
  BY DEF Shown
<1>5. RanInv'
  <2>1. \A t \in DOMAIN ran : ran[t] \in Nat /\ ran[t] <= reqCount'
    BY DEF AnswerInv, RanInv, NetInv
  <2>2. QED
    BY <1>3, <1>4, <2>1 DEF AnswerInv, RanInv
<1>6. ASSUME r.tab \in DOMAIN ran, r.tab \notin mixed', ~Awaited(r.tab)'
      PROVE  r.n = ran[r.tab]
  <2>1. r.n <= ran[r.tab] /\ ran[r.tab] \in Nat
    BY <1>6 DEF AnswerInv, RanInv
  <2>2. ASSUME r.n < ran[r.tab]
        PROVE  FALSE
    <3>1. PICK q \in Queries : q.n = ran[r.tab]
      BY <1>4, <1>6, <2>2 DEF Overtaken, Queries
    <3>2. q.tab = r.tab /\ q # r
      BY <1>1, <1>6, <2>1, <2>2, <3>1 DEF AnswerInv, RanInv
    <3>3. QED
      BY <1>6, <3>1, <3>2 DEF Awaited
  <2>3. QED
    BY <1>1, <2>1, <2>2
<1>7. ASSUME NEW j \in DOMAIN store'.tabs
      PROVE  (Awaited(store.tabs[j].id) \/ Settled(store.tabs[j]))'
  <2>1. /\ j \in DOMAIN store.tabs /\ store'.tabs[j].id = store.tabs[j].id
        /\ store'.tabs[j].answer = IF store.tabs[j].id = r.tab THEN r.n
                                   ELSE store.tabs[j].answer
        /\ store'.tabs[j].loading = IF store.tabs[j].id = r.tab THEN FALSE
                                    ELSE store.tabs[j].loading
    BY <1>2, <1>7 DEF Alike
  <2>2. CASE store.tabs[j].id = r.tab
    BY <1>4, <1>6, <2>1, <2>2 DEF Settled
  <2>3. CASE store.tabs[j].id # r.tab
    <3>1. Awaited(store.tabs[j].id) \/ Settled(store.tabs[j])
      BY <2>1 DEF AnswerInv
    <3>2. CASE Awaited(store.tabs[j].id)
      BY <2>1, <2>3, <3>2 DEF Awaited
    <3>3. CASE Settled(store.tabs[j])
      BY <1>4, <2>1, <2>3, <3>3 DEF Settled
    <3>4. QED
      BY <3>1, <3>2, <3>3
  <2>4. QED
    BY <2>2, <2>3
<1>8. QED
  BY <1>5, <1>7 DEF AnswerInv

LEMMA AnswerQueries ==
  ASSUME NetInv, NEW r \in reqs, QueryAnswered(r) \/ QueryFailed(r) \/ QueryLost(r)
  PROVE  r \in Queries /\ Queries' = Queries \ {r} /\ reqCount' >= reqCount
<1>1. r \in Queries /\ reqCount \in Nat
  BY DEF QueryAnswered, QueryFailed, QueryLost, Queries, NetInv
<1>2. CASE QueryAnswered(r)
  <2>1. Refresh(conn, reqs \ {r}) /\ conn \in {0} \cup DOMAIN sessions
    BY <1>2 DEF QueryAnswered, NetInv
  <2>2. Queries' = {q \in Queries : q \in reqs \ {r}} /\ reqCount' = reqCount + 1
    BY <2>1, RefreshQueries
  <2>3. QED
    BY <1>1, <2>2 DEF Queries, Waiting
<1>3. CASE QueryFailed(r)
  <2>1. PICK q : q = [r EXCEPT !.page = FALSE]
    OBVIOUS
  <2>2. q.page = FALSE
    BY <2>1, Unheard DEF NetInv
  <2>3. reqs' = (reqs \ {r}) \cup (IF r.result = "sent" THEN {q} ELSE {}) /\ reqCount' = reqCount
    BY <1>3, <2>1 DEF QueryFailed
  <2>4. QED
    BY <1>1, <2>2, <2>3 DEF Queries, Waiting
<1>4. CASE QueryLost(r)
  BY <1>1, <1>4 DEF QueryLost, Queries, Waiting
<1>5. QED
  BY <1>2, <1>3, <1>4

LEMMA NextAnswers ==
  ASSUME TabsInv, NetInv, AnswerInv, [Next]_vars
  PROVE  AnswerInv'
<1>1. list \in Listing /\ \A r \in reqs : r.n \in Nat /\ r.got \in Listing
  BY DEF NetInv, RequestInv, Req
<1>2. NetInv'
  BY NextNet
<1>3. Quiet \/ UNCHANGED vars => SameQueries /\ reqCount' >= reqCount
  BY QuietQueries
<1>4. CASE Elsewhere \/ UNCHANGED vars
  <2>1. store' = store
    BY <1>4, ElsewhereTabs DEF vars, page
  <2>2. UNCHANGED <<ran, mixed, hydrated>>
    BY <1>4 DEF Elsewhere, Go, Connect, Disconnect, Write, Expire, Serve, ListFailed, Connected,
                Refresh, database, answers, vars
  <2>3. SameQueries /\ reqCount' >= reqCount
    BY <1>3, <1>4 DEF Elsewhere, Quiet, Local
  <2>4. QED
    BY <1>2, <2>1, <2>2, <2>3, AnswersMoved
<1>5. CASE Local /\ ~Elsewhere /\ ~Hydrate /\ ~(\E id \in Ids(store) : Close(id))
             /\ ~(\E text \in Texts : Edit(text))
  <2>1. SameQueries /\ reqCount' >= reqCount
    BY <1>3, <1>5 DEF Quiet
  <2>2. UNCHANGED <<ran, mixed, hydrated>>
    BY <1>5 DEF Local, Elsewhere, Open, Select, ViewGallery, OpenTable, Settle, answers
  <2>3. CASE Settle
    <3>1. SettlesBy
      BY <2>3, SettleTabs
    <3>2. CASE store' = store
      BY <1>2, <2>1, <2>2, <3>2, AnswersMoved
    <3>3. CASE store' # store
      BY <1>2, <2>1, <2>2, <3>1, <3>3, GrowsAnswers DEF SettlesBy
    <3>4. QED
      BY <3>2, <3>3
  <2>4. CASE ~Settle
    <3>1. (\E tab : Grows(tab) /\ tab.loading = FALSE) \/ (\E id : Activates(id))
      <4>1. CASE \E text \in {0} \cup Texts : Open(text)
        <5>1. PICK text \in Text : Open(text)
          BY <4>1 DEF Text
        <5>2. PICK tab : /\ tab = TabState(<<"query", tabCount + 1>>, text, 0, FALSE, <<>>)
                         /\ Grows(tab)
          BY <5>1, OpenTabs
        <5>3. QED
          BY <5>2 DEF TabState
      <4>2. CASE ViewGallery
        <5>1. PICK i, tab :
                /\ i \in Active(store)
                /\ tab = TabState(<<"gallery", tabCount + 1>>, store.tabs[i].text,
                                  store.tabs[i].answer, TRUE, <<>>)
                /\ Grows(tab)
          BY <4>2, GalleryTabs
        <5>2. QED
          BY <5>1 DEF TabState
      <4>3. CASE OpenTable
        <5>1. PICK tab : tab = TabState(<<"object", 0>>, 0, 0, FALSE, list)
          OBVIOUS
        <5>2. Grows(tab) \/ Activates(<<"object", 0>>)
          BY <1>1, <4>3, <5>1, OpenTableTabs
        <5>3. QED
          BY <5>1, <5>2 DEF TabState
      <4>4. CASE \E id \in Ids(store) : Select(id)
        BY <4>4, SelectTabs
      <4>5. QED
        BY <1>5, <2>4, <4>1, <4>2, <4>3, <4>4 DEF Local, Elsewhere
    <3>2. QED
      BY <1>2, <2>1, <2>2, <3>1, GrowsAnswers
  <2>5. QED
    BY <2>3, <2>4
<1>6. CASE \E id \in Ids(store) : Close(id)
  BY <1>2, <1>6, CloseAnswers
<1>7. CASE \E text \in Texts : Edit(text)
  <2>1. PICK text \in Texts : Edit(text)
    BY <1>7
  <2>2. Alike(store, store') /\ SameAnswers(store, store')
    BY <2>1, EditTabs
  <2>3. UNCHANGED <<ran, mixed, hydrated>>
    BY <2>1 DEF Edit, answers
  <2>4. SameQueries /\ reqCount' >= reqCount
    BY <1>3, <1>7 DEF Quiet, Local
  <2>5. QED
    BY <1>2, <2>2, <2>3, <2>4, AnswersSame
<1>8. CASE Run
  BY <1>2, <1>8, RunAnswers
<1>9. CASE Hydrate
  BY <1>9, HydrateAnswers
<1>10. CASE \E to \in {path, "home"} : Load(to)
  BY <1>10, LoadAnswers
<1>11. CASE \E r \in reqs : QueryAnswered(r) \/ QueryFailed(r) \/ QueryLost(r)
  <2>1. PICK r \in reqs : QueryAnswered(r) \/ QueryFailed(r) \/ QueryLost(r)
    BY <1>11
  <2>2. PICK ok \in BOOLEAN : Shown(r, ok)
    BY <2>1 DEF QueryAnswered, QueryFailed, QueryLost, Shows
  <2>3. UNCHANGED <<tabCount, restore, stored, path, hydrated>>
    BY <2>1 DEF QueryAnswered, QueryFailed, QueryLost
  <2>4. r \in Queries /\ Queries' = Queries \ {r} /\ reqCount' >= reqCount
    BY <2>1, AnswerQueries
  <2>5. QED
    BY <1>2, <2>2, <2>3, <2>4, ShownAnswers
<1>12. CASE \E r \in reqs : ListAnswered(r)
  <2>1. PICK r \in reqs : ListAnswered(r)
    BY <1>12
  <2>2. Alike(store, store') /\ SameAnswers(store, store')
    BY <1>1, <2>1, ListedTabs
  <2>3. UNCHANGED <<ran, mixed, hydrated>>
    BY <2>1 DEF ListAnswered
  <2>4. SameQueries /\ reqCount' >= reqCount
    BY <1>3, <1>12 DEF Quiet
  <2>5. QED
    BY <1>2, <2>2, <2>3, <2>4, AnswersSame
<1>13. QED
  BY <1>4, <1>5, <1>6, <1>7, <1>8, <1>9, <1>10, <1>11, <1>12 DEF Next, Elsewhere, Local
-----------------------------------------------------------------------------
(* The list of tables.                                                     *)

Lists == Waiting("list")
Asked == {r \in Lists : r.n = refreshed}        \* the last request for the list
Changing == \E q \in Queries : q.result = "ok" /\ Changes(q.text)
Objects(st) == {i \in DOMAIN st.tabs : st.tabs[i].id[1] = "object"}

AskedInv ==
    /\ refreshed \in Nat /\ refreshed <= reqCount
    /\ \A r \in Lists : r.n <= refreshed /\ (r.n = refreshed => r.id = conn)
    /\ conn = 0 => Asked = {}
    /\ ~hydrated => \A r \in reqs : r.page => r.kind = "list" /\ r.n = refreshed

(* The list is right, or will be when the last request is answered, unless *)
(* the answer to a change of tables is on its way: then it is asked again. *)
CurrentInv ==
    /\ conn = 0 => list = <<>>
    /\ conn # 0 /\ ~Changing => /\ \A r \in Asked : r.result = "ok" => r.got = Table(sessions[conn])
                                /\ Asked = {} => list = Table(sessions[conn])

ObjectInv ==
    conn # 0 /\ Asked = {} /\ hydrated /\ list # <<>> =>
        \A i \in Objects(store) : store.tabs[i].table = list

ListInv == AskedInv /\ (~stale => CurrentInv /\ ObjectInv)

(* No step but an answer changes what the list is compared with.           *)
SameLists ==
    /\ UNCHANGED <<conn, list, refreshed, tables, hydrated>>
    /\ \A i \in DOMAIN sessions : sessions'[i] = sessions[i]
    /\ reqCount' >= reqCount /\ reqCount' \in Nat
    /\ Lists' = Lists /\ (Changing => Changing') /\ (stale => stale')
    /\ ~hydrated => \A r \in reqs' : r.page => r \in reqs

SameObjects ==
    \A j \in Objects(store') :
        \/ store'.tabs[j].table = list
        \/ \E i \in Objects(store) : store.tabs[i].table = store'.tabs[j].table

LEMMA AskedSame ==
  ASSUME NetInv, AskedInv, SameLists
  PROVE  AskedInv' /\ Asked' = Asked
<1>1. Asked' = Asked
  BY DEF SameLists, Asked
<1>2. refreshed' \in Nat /\ refreshed' <= reqCount'
  BY DEF AskedInv, SameLists, NetInv
<1>3. QED
  BY <1>1, <1>2 DEF AskedInv, SameLists

LEMMA ListsSame ==
  ASSUME NetInv, ListInv, SameLists, SameObjects
  PROVE  ListInv'
<1>1. AskedInv' /\ Asked' = Asked
  BY AskedSame DEF ListInv
<1>2. conn # 0 => sessions'[conn] = sessions[conn]
  BY DEF SameLists, NetInv
<1>3. conn # 0 => Table(sessions[conn])' = Table(sessions[conn])
  BY <1>2 DEF SameLists, Table
<1>4. CASE ~stale'
  <2>1. ~stale /\ CurrentInv /\ ObjectInv
    BY <1>4 DEF ListInv, SameLists
  <2>2. CurrentInv'
    BY <1>1, <1>3, <2>1 DEF CurrentInv, SameLists
  <2>3. ObjectInv'
    BY <1>1, <2>1 DEF ObjectInv, SameLists, SameObjects
  <2>4. QED
    BY <1>1, <2>2, <2>3 DEF ListInv
<1>5. QED
  BY <1>1, <1>4 DEF ListInv

(* The list is asked for.                                                  *)
LEMMA ListsAsked ==
  ASSUME NetInv, reqCount' = reqCount + 1, refreshed' = reqCount + 1,
         conn' \in {0} \cup DOMAIN sessions, conn' = 0 => list' = <<>>,
         FirstRequests(reqCount + 1, conn') \subseteq reqs',
         \A r \in reqs' : \/ r \in FirstRequests(reqCount + 1, conn')
                          \/ r.page => hydrated' /\ r.n \in Nat /\ r.n <= reqCount
  PROVE  ListInv'
<1>1. reqCount \in Nat /\ reqCount + 1 \in Nat
  BY DEF NetInv
<1>2. PICK F : F = FirstRequests(reqCount + 1, conn')
  OBVIOUS
<1>3. ASSUME NEW r \in F
      PROVE  /\ r.n = refreshed' /\ r.kind = "list" /\ r.id = conn' /\ conn' # 0
             /\ r.result = "sent" /\ r.page
  <2>1. PICK id : id = conn'
    OBVIOUS
  <2>2. id # 0
    BY <1>2, <1>3, <2>1 DEF FirstRequests
  <2>3. PICK n \in Nat : n = reqCount + 1
    BY <1>1
  <2>4. FirstAre(n, id)
    BY <2>1, <2>3, FirstRequestsAre
  <2>5. r \in FirstRequests(n, id)
    BY <1>2, <1>3, <2>1, <2>3
  <2>6. QED
    BY <2>1, <2>2, <2>3, <2>4, <2>5 DEF FirstAre
<1>4. \A r \in reqs' : r \in F \/ (r.page => hydrated' /\ r.n \in Nat /\ r.n < refreshed')
  BY <1>1, <1>2
<1>5. \A r \in Lists' : r \in reqs' /\ r.page
  BY DEF Lists, Waiting
<1>6. Asked' \subseteq F
  BY <1>4, <1>5 DEF Asked
<1>7. conn' # 0 => Asked' # {}
  <2>1. ASSUME conn' # 0
        PROVE  F # {}
    <3>1. PICK id : id = conn'
      OBVIOUS
    <3>2. QED
      BY <1>2, <2>1, <3>1 DEF FirstRequests
  <2>2. F \subseteq Asked'
    BY <1>2, <1>3 DEF Asked, Lists, Waiting
  <2>3. QED
    BY <2>1, <2>2
<1>8. AskedInv'
  <2>1. \A r \in Lists' : r.n <= refreshed' /\ (r.n = refreshed' => r.id = conn')
    BY <1>1, <1>3, <1>4, <1>5
  <2>2. QED
    BY <1>1, <1>3, <1>4, <1>6, <2>1 DEF AskedInv
<1>9. CurrentInv' /\ ObjectInv'
  BY <1>3, <1>6, <1>7 DEF CurrentInv, ObjectInv
<1>10. QED
  BY <1>8, <1>9 DEF ListInv

LEMMA RefreshLists ==
  ASSUME NetInv, AskedInv, NEW id \in {0} \cup DOMAIN sessions, NEW others \in SUBSET reqs,
         Refresh(id, others), conn' = id, hydrated'
  PROVE  ListInv'
<1>1. \A r \in reqs : r.n \in Nat /\ r.n <= reqCount
  BY DEF NetInv, RequestInv, Req
<1>2. QED
  BY <1>1, ListsAsked DEF Refresh

LEMMA AnswerLists ==
  ASSUME NetInv, ListInv, NEW r \in reqs, QueryAnswered(r) \/ Connected(r)
  PROVE  ListInv'
<1>1. hydrated' = hydrated /\ r.page /\ r.kind # "list"
  BY DEF QueryAnswered, Connected, Waiting, database
<1>2. hydrated /\ AskedInv
  BY <1>1 DEF ListInv, AskedInv
<1>3. CASE QueryAnswered(r)
  <2>1. Refresh(conn, reqs \ {r}) /\ conn' = conn /\ conn \in {0} \cup DOMAIN sessions
    BY <1>3 DEF QueryAnswered, Shown, NetInv
  <2>2. QED
    BY <1>1, <1>2, <2>1, RefreshLists
<1>4. CASE Connected(r)
  <2>1. Refresh(r.id, reqs \ {r}) /\ conn' = r.id /\ r.id \in DOMAIN sessions
    BY <1>4 DEF Connected, NetInv, RequestInv
  <2>2. QED
    BY <1>1, <1>2, <2>1, RefreshLists
<1>5. QED
  BY <1>3, <1>4

LEMMA DisconnectLists ==
  ASSUME NetInv, ListInv, Disconnect
  PROVE  ListInv'
<1>1. Refresh(0, reqs) /\ conn' = 0 /\ hydrated'
  BY DEF Disconnect, Click, database
<1>2. QED
  BY <1>1, RefreshLists DEF ListInv

LEMMA LoadLists ==
  ASSUME NetInv, NEW to, Load(to)
  PROVE  ListInv'
<1>1. /\ reqCount' = reqCount + 1 /\ refreshed' = reqCount + 1 /\ list' = <<>> /\ conn' = conn
      /\ reqs' = {[r EXCEPT !.page = FALSE] : r \in {q \in reqs : q.kind = "query" /\ q.result = "sent"}}
                 \cup FirstRequests(reqCount + 1, conn)
      /\ conn \in {0} \cup DOMAIN sessions
  BY DEF Load, NetInv
<1>2. ASSUME NEW r \in reqs, NEW q, q = [r EXCEPT !.page = FALSE]
      PROVE  q.page = FALSE
    BY <1>2, Unheard DEF NetInv
<1>3. \A r \in reqs' : r \in FirstRequests(reqCount + 1, conn) \/ r.page = FALSE
  BY <1>1, <1>2
<1>4. QED
  BY <1>1, <1>3, ListsAsked

(* The answer that is known to be wrong.                                   *)
LEMMA StaleLists ==
  ASSUME NetInv, AskedInv, stale' = TRUE, UNCHANGED <<conn, refreshed, reqCount, hydrated>>,
         \A q \in reqs' : q \in reqs \/ q.page = FALSE
  PROVE  ListInv'
<1>1. /\ \A q \in Lists' : q \in Lists
      /\ Asked' \subseteq Asked
  BY DEF Lists, Waiting, Asked
<1>2. AskedInv'
  BY <1>1 DEF AskedInv
<1>3. QED
  BY <1>2 DEF ListInv

LEMMA ListAnsweredLists ==
  ASSUME TabsInv, NetInv, ListInv, NEW r \in reqs, ListAnswered(r)
  PROVE  ListInv'
<1>1. /\ r \in Lists /\ r.result = "ok" /\ list' = r.got /\ reqs' = reqs \ {r}
      /\ stale' = (stale \/ Outdated(r))
      /\ UNCHANGED <<conn, hydrated, reqCount, refreshed, sessions, tables>>
  BY DEF ListAnswered, Lists, server, counters
<1>2. Lists' = Lists \ {r} /\ Asked' = Asked \ {r} /\ Queries' = Queries
  BY <1>1 DEF Lists, Waiting, Asked, Queries
<1>3. AskedInv'
  BY <1>1, <1>2 DEF ListInv, AskedInv
<1>4. ASSUME ~stale'
      PROVE  CurrentInv' /\ ObjectInv'
  <2>1. ~stale /\ ~Outdated(r) /\ AskedInv /\ CurrentInv
    BY <1>1, <1>4 DEF ListInv
  <2>2. r.n <= refreshed /\ r.n \in Nat /\ refreshed \in Nat
    BY <1>1, <2>1 DEF AskedInv, NetInv, RequestInv, Req
  <2>3. r \in Asked \/ Asked' # {}
    <3>1. CASE r.n = refreshed
      BY <1>1, <3>1 DEF Asked
    <3>2. CASE r.n < refreshed
      <4>1. PICK q \in Lists : q.n = refreshed
        BY <2>1, <3>2 DEF Outdated, Lists
      <4>2. q \in Asked /\ q # r
        BY <2>2, <3>2, <4>1 DEF Asked
      <4>3. QED
        BY <1>2, <4>2
    <3>3. QED
      BY <2>2, <3>1, <3>2
  <2>4. conn # 0
    BY <1>2, <2>1, <2>3 DEF AskedInv
  <2>5. Asked' = {} => r \in Asked
    BY <2>3
  <2>6. CurrentInv'
    <3>1. Changing' = Changing /\ (Table(sessions[conn]))' = Table(sessions[conn])
      BY <1>1, <1>2 DEF Changing, Table
    <3>2. QED
      BY <1>1, <1>2, <2>1, <2>4, <2>5, <3>1 DEF CurrentInv
  <2>7. ASSUME r.got # <<>>, NEW j \in Objects(store')
        PROVE  store'.tabs[j].table = r.got
    <3>1. r.got \in Listing
      BY DEF NetInv, RequestInv, Req
    <3>2. /\ j \in DOMAIN store.tabs /\ store.tabs[j].id[1] = "object"
      BY <2>7, <3>1, ListedTabs DEF Objects, Alike
    <3>3. QED
      BY <2>7, <3>1, <3>2, ListedTabs
  <2>8. ObjectInv'
    BY <1>1, <2>7 DEF ObjectInv
  <2>9. QED
    BY <2>6, <2>8
<1>5. QED
  BY <1>3, <1>4 DEF ListInv

LEMMA HydrateLists ==
  ASSUME NetInv, ListInv, Hydrate
  PROVE  ListInv'
<1>1. /\ UNCHANGED <<conn, list, reqs, refreshed, reqCount, sessions, tables>>
      /\ ~hydrated /\ hydrated' /\ stale' = (stale \/ (conn # 0 /\ Waiting("list") = {}))
  BY DEF Hydrate, server, counters
<1>2. Lists' = Lists /\ Asked' = Asked /\ Queries' = Queries
  BY <1>1 DEF Lists, Waiting, Asked, Queries
<1>3. AskedInv'
  BY <1>1, <1>2 DEF ListInv, AskedInv
<1>4. ASSUME ~stale'
      PROVE  CurrentInv' /\ ObjectInv'
  <2>1. AskedInv /\ CurrentInv /\ (conn = 0 \/ Lists # {})
    BY <1>1, <1>4 DEF ListInv, Lists
  <2>2. Lists = Asked
    BY <1>1, <2>1 DEF AskedInv, Asked, Lists, Waiting
  <2>3. ObjectInv'
    BY <1>1, <1>2, <2>1, <2>2 DEF ObjectInv
  <2>4. Changing' = Changing /\ Table(sessions[conn])' = Table(sessions[conn])
    BY <1>1, <1>2 DEF Changing, Table
  <2>5. CurrentInv'
    BY <1>1, <1>2, <2>1, <2>4 DEF CurrentInv
  <2>6. QED
    BY <2>3, <2>5
<1>5. QED
  BY <1>3, <1>4 DEF ListInv

(* A list the server has made is of the tables there are; a query it has   *)
(* executed changes them only if its answer will have the list made again. *)
LEMMA ServeLists ==
  ASSUME NetInv, ListInv, NEW r \in reqs, Serve(r)
  PROVE  ListInv'
<1>1. UNCHANGED <<store, conn, list, refreshed, hydrated, reqCount>> /\ r.result = "sent"
  BY DEF Serve, page, database, counters
<1>2. r.kind \in {"query", "list", "connect"} /\ reqCount \in Nat
  BY DEF NetInv, RequestInv, Req
<1>3. SameObjects
  BY <1>1 DEF SameObjects, Objects
<1>4. CASE r.kind = "connect"
  <2>1. /\ UNCHANGED <<tables, stale>> /\ \A i \in DOMAIN sessions : sessions'[i] = sessions[i]
        /\ \E q : ServedAs(r, q) /\ reqs' = (reqs \ {r}) \cup {q}
    BY <1>4, ConnectServed
  <2>2. PICK q : /\ q.kind = "connect" /\ q.page = r.page
                 /\ reqs' = (reqs \ {r}) \cup {q}
    BY <1>4, <2>1 DEF ServedAs
  <2>3. Lists' = Lists /\ Queries' = Queries
    BY <1>4, <2>2 DEF Lists, Queries, Waiting
  <2>4. ~hydrated => \A p \in reqs' : p.page => p \in reqs
    BY <1>4, <2>2 DEF ListInv, AskedInv
  <2>5. SameLists
    BY <1>1, <1>2, <2>1, <2>3, <2>4 DEF SameLists, Changing
  <2>6. QED
    BY <1>3, <2>5, ListsSame
<1>5. CASE r.kind = "query" /\ (~r.page \/ tables' = tables)
  <2>1. /\ sessions' = sessions /\ stale' = (stale \/ ~r.page)
        /\ \E q : ServedAs(r, q) /\ reqs' = (reqs \ {r}) \cup (IF r.page THEN {q} ELSE {})
    BY <1>5, QueryServed
  <2>2. PICK q : /\ q.kind = "query" /\ q.page = r.page
                 /\ reqs' = (reqs \ {r}) \cup (IF r.page THEN {q} ELSE {})
    BY <1>5, <2>1 DEF ServedAs
  <2>3. Lists' = Lists /\ (Changing => Changing')
    BY <1>1, <1>5, <2>2 DEF Lists, Queries, Waiting, Changing
  <2>4. ~hydrated => \A p \in reqs' : p.page => p \in reqs
    BY <1>5, <2>2 DEF ListInv, AskedInv
  <2>5. CASE tables' = tables
    <3>1. stale => stale'
      BY <2>1, Zenon
    <3>2. reqCount' >= reqCount /\ reqCount' \in Nat
      BY <1>1, <1>2
    <3>3. \A i \in DOMAIN sessions : sessions'[i] = sessions[i]
      BY <2>1
    <3>4. SameLists
      BY <1>1, <2>3, <2>4, <2>5, <3>1, <3>2, <3>3, Zenon DEF SameLists
    <3>5. QED
      BY <1>3, <3>4, ListsSame
  <2>6. CASE ~r.page
    <3>1. stale'
      BY <2>1, <2>6
    <3>2. Asked' = Asked
      BY <1>1, <2>3 DEF Asked
    <3>3. AskedInv'
      BY <1>1, <2>3, <2>4, <3>2 DEF ListInv, AskedInv
    <3>4. QED
      BY <3>1, <3>3 DEF ListInv
  <2>7. QED
    BY <1>5, <2>5, <2>6
<1>6. CASE r.kind = "query" /\ r.page /\ tables' # tables
  <2>1. stale' = (stale \/ ~r.page)
    BY <1>6, QueryServed
  <2>2. PICK q : /\ q.kind = "query" /\ q.page = r.page /\ q.result = "ok" /\ Changes(q.text)
                 /\ reqs' = (reqs \ {r}) \cup {q}
    <3>1. \E q : /\ ServedAs(r, q) /\ HasRun(q)
                /\ reqs' = (reqs \ {r}) \cup (IF r.page THEN {q} ELSE {})
      BY <1>6, QueryServed
    <3>2. PICK q : /\ ServedAs(r, q) /\ HasRun(q)
                   /\ reqs' = (reqs \ {r}) \cup (IF r.page THEN {q} ELSE {})
      BY <3>1
    <3>3. q.result = "ok" /\ Changes(q.text)
      BY <1>6, <3>2 DEF HasRun
    <3>4. reqs' = (reqs \ {r}) \cup {q}
      BY <1>6, <3>2
    <3>5. QED
      BY <1>6, <3>2, <3>3, <3>4 DEF ServedAs
  <2>3. Lists' = Lists /\ Changing' /\ hydrated
    BY <1>6, <2>2 DEF Lists, Queries, Waiting, Changing, ListInv, AskedInv
  <2>4. Asked' = Asked
    BY <1>1, <2>3 DEF Asked
  <2>5. AskedInv'
    BY <1>1, <2>3, <2>4 DEF ListInv, AskedInv
  <2>6. ~stale' => CurrentInv' /\ ObjectInv'
    BY <1>1, <1>6, <2>1, <2>3, <2>4 DEF ListInv, CurrentInv, ObjectInv
  <2>7. QED
    BY <2>5, <2>6 DEF ListInv
<1>7. CASE r.kind = "list"
  <2>1. UNCHANGED <<sessions, tables, stale>>
    BY <1>7, ListServed
  <2>2. PICK q : /\ q.kind = "list" /\ q.page = r.page /\ q.n = r.n /\ q.id = r.id
                 /\ reqs' = (reqs \ {r}) \cup {q}
                 /\ q.result = "ok" => q.got = Table(sessions[r.id])
    BY <1>7, ListServed DEF ServedAs
  <2>3. Queries' = Queries /\ Changing' = Changing
    BY <1>7, <2>2 DEF Queries, Waiting, Changing
  <2>4. /\ \A p \in Lists' : p \in Lists \/ (p = q /\ r \in Lists)
        /\ \A p \in Lists : p \in Lists' \/ (p = r /\ q \in Lists')
    BY <1>7, <2>2 DEF Lists, Waiting
  <2>5. /\ \A p \in Asked' : p \in Asked \/ (p = q /\ r \in Asked)
        /\ (Asked' = {}) <=> (Asked = {})
    BY <1>1, <2>2, <2>4 DEF Asked
  <2>6. AskedInv'
    <3>1. \A p \in Lists' : p.n <= refreshed /\ (p.n = refreshed => p.id = conn)
      BY <2>2, <2>4 DEF ListInv, AskedInv
    <3>2. ~hydrated => \A p \in reqs' : p.page => p.kind = "list" /\ p.n = refreshed
      BY <1>7, <2>2 DEF ListInv, AskedInv
    <3>3. QED
      BY <1>1, <2>5, <3>1, <3>2 DEF ListInv, AskedInv
  <2>7. Table(sessions[conn])' = Table(sessions[conn])
    BY <1>1, <2>1 DEF Table
  <2>8. r \in Asked => r.id = conn
    BY DEF Asked, ListInv, AskedInv
  <2>9. ASSUME ~stale'
        PROVE  CurrentInv' /\ ObjectInv'
    <3>1. CurrentInv /\ ObjectInv
      BY <2>1, <2>9 DEF ListInv
    <3>2. ASSUME conn # 0, ~Changing, NEW p \in Asked', p.result = "ok"
          PROVE  p.got = Table(sessions[conn])
      BY <2>2, <2>5, <2>8, <3>1, <3>2 DEF CurrentInv
    <3>3. CurrentInv'
      BY <1>1, <2>3, <2>5, <2>7, <3>1, <3>2 DEF CurrentInv
    <3>4. ObjectInv'
      BY <1>1, <2>5, <3>1 DEF ObjectInv
    <3>5. QED
      BY <3>3, <3>4
  <2>10. QED
    BY <2>6, <2>9 DEF ListInv
<1>8. QED
  BY <1>2, <1>4, <1>5, <1>6, <1>7

(* The contents of object tabs are those there were, or the list.          *)
LEMMA AlikeObjects ==
  ASSUME Alike(store, store'), SameTables(store, store')
  PROVE  SameObjects
BY DEF Alike, SameTables, SameObjects, Objects

LEMMA GrowsObjects ==
  ASSUME TabsInv, NEW tab, Grows(tab), tab.id[1] # "object" \/ tab.table = list
  PROVE  SameObjects
<1>1. DOMAIN store.tabs = 1 .. Len(store.tabs) /\ Len(store.tabs) \in Nat
  BY TabsOf DEF TabsInv, StoreOf
<1>2. PICK n \in Nat : n = Len(store.tabs)
  BY <1>1
<1>3. \A j \in DOMAIN store'.tabs : j \in DOMAIN store.tabs \/ j = n + 1
  BY <1>1, <1>2 DEF Grows
<1>4. QED
  BY <1>2, <1>3 DEF Grows, SameObjects, Objects

LEMMA ActivatesObjects ==
  ASSUME NEW id, Activates(id)
  PROVE  SameObjects
BY DEF Activates, SameObjects, Objects

LEMMA LocalObjects ==
  ASSUME TabsInv, list \in Listing, Local, ~Hydrate
  PROVE  SameObjects
<1>1. CASE \E text \in {0} \cup Texts : Open(text)
  BY <1>1, OpenTabs, GrowsObjects DEF Text, TabState
<1>2. CASE ViewGallery
  BY <1>2, GalleryTabs, GrowsObjects DEF TabState
<1>3. CASE OpenTable
  BY <1>3, OpenTableTabs, GrowsObjects, ActivatesObjects DEF TabState
<1>4. CASE \E id \in Ids(store) : Select(id)
  BY <1>4, SelectTabs, ActivatesObjects
<1>5. CASE \E id \in Ids(store) : Close(id)
  BY <1>5, CloseTabs DEF Shrinks, SameObjects, Objects
<1>6. CASE \E text \in Texts : Edit(text)
  BY <1>6, EditTabs, AlikeObjects
<1>7. CASE Settle
  <2>1. SettlesBy
    BY <1>7, SettleTabs
  <2>2. CASE store' = store
    BY <2>2 DEF SameObjects, Objects
  <2>3. CASE store' # store
    BY <2>1, <2>3, GrowsObjects, ActivatesObjects DEF SettlesBy
  <2>4. QED
    BY <2>2, <2>3
<1>8. CASE Write \/ \E to \in Links : Go(to)
  <2>1. store' = store
    BY <1>8 DEF Write, Go, page
  <2>2. QED
    BY <2>1 DEF SameObjects, Objects
<1>9. QED
  BY <1>1, <1>2, <1>3, <1>4, <1>5, <1>6, <1>7, <1>8 DEF Local

LEMMA LocalLists ==
  ASSUME TabsInv, NetInv, ListInv, Local, ~Hydrate
  PROVE  ListInv'
<1>1. UNCHANGED <<server, reqs, reqCount, conn, list>> /\ reqCount \in Nat /\ list \in Listing
  BY LocalNet DEF NetInv
<1>2. UNCHANGED <<refreshed, stale, hydrated>>
  BY DEF Local, Go, Open, Select, Close, Edit, ViewGallery, OpenTable, Settle, Write,
         answers, database
<1>3. SameObjects
  BY <1>1, LocalObjects
<1>4. SameLists
  BY <1>1, <1>2 DEF SameLists, Lists, Queries, Waiting, Changing, server
<1>5. QED
  BY <1>3, <1>4, ListsSame

LEMMA SentLists ==
  ASSUME TabsInv, NetInv, ListInv, Run \/ \E db \in Databases : Connect(db)
  PROVE  ListInv'
<1>1. /\ UNCHANGED <<conn, list, refreshed, tables, hydrated, sessions, stale>> /\ hydrated
      /\ reqCount' = reqCount + 1 /\ reqCount \in Nat
  BY DEF Run, Connect, Click, page, database, server, answers, NetInv
<1>2. PICK r : r.kind \in {"query", "connect"} /\ reqs' = reqs \cup {r}
  <2>1. CASE Run
    <3>1. PICK i \in Active(store) :
             reqs' = reqs \cup {Request("query", store.active, conn, store.tabs[i].text, "none")}
      BY <2>1 DEF Run
    <3>2. Request("query", store.active, conn, store.tabs[i].text, "none").kind = "query"
      BY DEF Request, NewRequest
    <3>3. QED
      BY <3>1, <3>2
  <2>2. CASE \E db \in Databases : Connect(db)
    <3>1. PICK db \in Databases : reqs' = reqs \cup {Request("connect", NoTab, 0, 0, db)}
      BY <2>2 DEF Connect
    <3>2. Request("connect", NoTab, 0, 0, db).kind = "connect"
      BY DEF Request, NewRequest
    <3>3. QED
      BY <3>1, <3>2
  <2>3. QED
    BY <2>1, <2>2
<1>3. Lists' = Lists /\ (Changing => Changing')
  BY <1>2 DEF Lists, Queries, Waiting, Changing
<1>4. SameLists
  BY <1>1, <1>3 DEF SameLists
<1>5. SameObjects
  <2>1. CASE Run
    BY <2>1, RunTabs, AlikeObjects
  <2>2. CASE \E db \in Databases : Connect(db)
    BY <2>2 DEF Connect, page, SameObjects, Objects
  <2>3. QED
    BY <2>1, <2>2
<1>6. QED
  BY <1>4, <1>5, ListsSame

LEMMA FailedLists ==
  ASSUME TabsInv, NetInv, ListInv, NEW r \in reqs, QueryFailed(r)
  PROVE  ListInv'
<1>1. /\ UNCHANGED <<conn, list, refreshed, tables, hydrated, sessions, stale, reqCount>>
      /\ UNCHANGED <<tabCount, restore, stored, path>>
      /\ r.page /\ r.kind = "query" /\ r.result # "ok" /\ Shown(r, FALSE)
      /\ r.n \in Nat /\ reqCount \in Nat
  BY DEF QueryFailed, Shown, Waiting, server, NetInv, RequestInv, Req
<1>2. hydrated
  BY <1>1 DEF ListInv, AskedInv
<1>3. PICK q : q = [r EXCEPT !.page = FALSE]
  OBVIOUS
<1>4. q.page = FALSE
  BY <1>3, Unheard DEF NetInv
<1>5. reqs' = (reqs \ {r}) \cup (IF r.result = "sent" THEN {q} ELSE {})
  BY <1>3 DEF QueryFailed
<1>6. Lists' = Lists /\ (Changing => Changing')
  BY <1>1, <1>4, <1>5 DEF Lists, Queries, Waiting, Changing
<1>7. SameLists
  BY <1>1, <1>2, <1>6 DEF SameLists
<1>8. SameObjects
  BY <1>1, ShownTabs, AlikeObjects
<1>9. QED
  BY <1>7, <1>8, ListsSame

LEMMA NextLists ==
  ASSUME TabsInv, NetInv, ListInv, [Next]_vars
  PROVE  ListInv'
<1>1. AskedInv
  BY DEF ListInv
<1>2. CASE UNCHANGED vars
  BY <1>2 DEF vars, page, database, server, counters, answers, ListInv, AskedInv, CurrentInv,
              ObjectInv, Asked, Lists, Queries, Waiting, Changing, Objects, Table
<1>3. CASE Local
  BY <1>3, LocalLists, HydrateLists
<1>4. CASE Run \/ \E db \in Databases : Connect(db)
  BY <1>4, SentLists
<1>5. CASE Disconnect
  BY <1>5, DisconnectLists
<1>6. CASE \E to \in {path, "home"} : Load(to)
  BY <1>6, LoadLists
<1>7. CASE \E id \in DOMAIN sessions : Expire(id)
  <2>1. stale' = TRUE /\ UNCHANGED <<conn, refreshed, reqCount, hydrated, reqs>>
    BY <1>7 DEF Expire, page, database
  <2>2. QED
    BY <1>1, <2>1, StaleLists
<1>8. CASE \E r \in reqs : Serve(r)
  BY <1>8, ServeLists
<1>9. CASE \E r \in reqs : QueryAnswered(r) \/ Connected(r)
  BY <1>9, AnswerLists
<1>10. CASE \E r \in reqs : QueryFailed(r)
  BY <1>10, FailedLists
<1>11. CASE \E r \in reqs : QueryLost(r) \/ ListFailed(r)
  <2>1. /\ stale' = TRUE /\ UNCHANGED <<conn, refreshed, reqCount, hydrated>>
        /\ \A q \in reqs' : q \in reqs
    BY <1>11 DEF QueryLost, ListFailed, Shown, database
  <2>2. QED
    BY <1>1, <2>1, StaleLists
<1>12. CASE \E r \in reqs : ListAnswered(r)
  BY <1>12, ListAnsweredLists
<1>13. QED
  BY <1>2, <1>3, <1>4, <1>5, <1>6, <1>7, <1>8, <1>9, <1>10, <1>11, <1>12 DEF Next, Local
-----------------------------------------------------------------------------
(* What holds of the specification.                                        *)

Inv == TabsInv /\ NetInv /\ PageInv /\ KeptInv /\ AnswerInv /\ ListInv

LEMMA InitInv ==
  ASSUME Init
  PROVE  Inv
<1>1. /\ store = Empty /\ conn \in {0, 1} /\ tabCount = 0 /\ reqCount = 1
      /\ reqs = FirstRequests(1, conn) /\ sessions \in [1 .. conn -> Databases]
      /\ tables \in [Databases -> {0, 1}] /\ list = <<>> /\ refreshed = 1
      /\ hydrated = FALSE /\ settled = FALSE /\ restore = <<>>
      /\ late = FALSE
  BY DEF Init
<1>2. DOMAIN store.tabs = {} /\ \A n : StoreOf(store, n)
  BY <1>1 DEF Empty, StoreOf, Store, OneOfEach
<1>3. DOMAIN ran = {} /\ DOMAIN kept = {}
  BY DEF Init
<1>4. TabsInv
  BY <1>1, <1>2 DEF Init, TabsInv, Saved, Paths
<1>5. /\ conn \in {0} \cup DOMAIN sessions /\ \E n \in Nat : sessions \in [1 .. n -> Databases \cup {Expired}]
      /\ tables \in [Databases -> Nat]
  BY <1>1
<1>6. ASSUME NEW r \in reqs
      PROVE  RequestInv(r) /\ r.kind = "list" /\ r.n = 1 /\ r.id = conn /\ conn # 0 /\ r.result = "sent"
  <2>1. r = NewRequest(1, "list", NoTab, conn, 0, "none") /\ conn = 1
    BY <1>1, <1>6 DEF FirstRequests
  <2>2. r.n = 1 /\ r.kind = "list" /\ r.id = conn /\ r.result = "sent"
    BY <2>1 DEF NewRequest
  <2>3. 0 \in Text /\ "none" \in Databases \cup {"none"} /\ NoTab \in {NoTab} \cup TabId
    BY DEF Text
  <2>4. r \in Req
    BY <2>1, <2>3, SentIs
  <2>5. QED
    BY <1>1, <1>5, <2>1, <2>2, <2>4 DEF RequestInv
<1>7. NetInv
  BY <1>1, <1>5, <1>6 DEF NetInv, Listing
<1>8. PageInv /\ KeptInv
  BY <1>1, <1>3 DEF PageInv, KeptInv, KeptInDb
<1>9. AnswerInv
  BY <1>2, <1>3 DEF AnswerInv, RanInv
<1>10. ListInv
  <2>1. conn # 0 => NewRequest(1, "list", NoTab, conn, 0, "none") \in Asked
    BY <1>1 DEF FirstRequests, NewRequest, Asked, Lists, Waiting
  <2>2. AskedInv
    BY <1>1, <1>6 DEF AskedInv, Asked, Lists, Waiting
  <2>3. CurrentInv /\ ObjectInv
    BY <1>1, <1>6, <2>1 DEF CurrentInv, ObjectInv, Asked, Lists, Waiting
  <2>4. QED
    BY <2>2, <2>3 DEF ListInv
<1>11. QED
  BY <1>4, <1>7, <1>8, <1>9, <1>10 DEF Inv

LEMMA Invariant == Spec => []Inv
<1>1. Init => Inv
  BY InitInv
<1>2. Inv /\ [Next]_vars => Inv'
  BY NextTabs, NextNet, NextPage, NextKept, NextAnswers, NextLists DEF Inv
<1>3. QED
  BY <1>1, <1>2, PTL DEF Spec

(* The page and the active tab agree, whichever of the two a click, an     *)
(* effect, a restored store or a closed tab changed first.                 *)
THEOREM PageIsThatOfTheTab == Spec => []PageShowsActiveTab
<1>1. Inv => PageShowsActiveTab
  BY DEF Inv, PageInv, OnPage, PageShowsActiveTab
<1>2. QED
  BY <1>1, Invariant, PTL

(* No text a user wrote is lost by loading the page again, for any number  *)
(* of tabs and of loadings.                                                *)
THEOREM TextsSurviveLoading == Spec => []TabsOutliveThePage
<1>1. Inv => TabsOutliveThePage
  BY DEF Inv, KeptInv, KeptIn, TabsOutliveThePage
<1>2. QED
  BY <1>1, Invariant, PTL

(* No spinner outlives its query, and a tab shows the last answer there    *)
(* was, for any number of queries that are under way at once.              *)
THEOREM AnswersReachTheirTabs == Spec => []TabsShowTheirLastAnswer
<1>1. Inv => TabsShowTheirLastAnswer
  <2>1. SUFFICES ASSUME Inv, NEW i \in DOMAIN store.tabs,
                        \A r \in Waiting("query") : r.tab # store.tabs[i].id
                 PROVE  /\ ~store.tabs[i].loading
                        /\ store.tabs[i].id \in DOMAIN ran /\ store.tabs[i].id \notin mixed =>
                             store.tabs[i].answer = ran[store.tabs[i].id]
    BY DEF TabsShowTheirLastAnswer
  <2>2. Settled(store.tabs[i])
    BY <2>1 DEF Inv, AnswerInv, Awaited, Queries
  <2>3. QED
    BY <2>2 DEF Settled
<1>2. QED
  BY <1>1, Invariant, PTL

(* When nothing is under way the sidebar and the object tabs show what the *)
(* server has, whatever was sent, answered or disconnected in between.     *)
THEOREM SidebarIsCurrent == Spec => []ListIsCurrent
<1>1. Inv => ListIsCurrent
  <2>1. SUFFICES ASSUME Inv, reqs = {}, ~stale
                 PROVE  /\ list = IF conn = 0 THEN <<>> ELSE Table(sessions[conn])
                        /\ conn # 0 /\ list # <<>> /\ hydrated =>
                             \A i \in DOMAIN store.tabs :
                               store.tabs[i].id[1] = "object" => store.tabs[i].table = list
    BY DEF ListIsCurrent
  <2>2. Asked = {} /\ ~Changing
    BY <2>1 DEF Asked, Lists, Queries, Waiting, Changing
  <2>3. QED
    BY <2>1, <2>2 DEF Inv, ListInv, CurrentInv, ObjectInv, Objects
<1>2. QED
  BY <1>1, Invariant, PTL
=============================================================================
