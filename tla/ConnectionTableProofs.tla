------------------------ MODULE ConnectionTableProofs ------------------------
(***************************************************************************)
(* Theorems of ConnectionTable.  The inductive invariant has a part that   *)
(* always holds (shape of the tables, room for the next key) and a part    *)
(* that holds as long as every key lies at its home: the entries of the    *)
(* table, the identifiers that were given and the free list tell the same  *)
(* story.  That a freed ConnectionData is in no entry is not inductive by  *)
(* itself: it needs that the free list is a list, each link of it going to *)
(* another freed one and no two to the same.                               *)
(***************************************************************************)
EXTENDS ConnectionTable, FiniteSetTheorems, TLAPS

(* The shape of a table. *)
IsTable(tab) ==
  /\ tab.capacity \in Nat \ {0}
  /\ tab.meta \subseteq Slots(tab)
  /\ tab.keys \in [Slots(tab) -> Nat]
  /\ tab.values \in [Slots(tab) -> Nat]
  /\ tab.count = Cardinality(tab.meta)

(* The keys that are stored lie at their homes. *)
AtHome(tab) == \A i \in tab.meta : Home(tab, tab.keys[i]) = i

(* Types of all but the tables. *)
PlainOK ==
  /\ now \in Nat /\ last \in Nat /\ nodes \in Nat
  /\ next \in [Nodes -> 0..nodes]
  /\ conn \in [Nodes -> Sessions \cup {Freed}]
  /\ lastUse \in [Nodes -> Nat]
  /\ free \in 0..nodes
  /\ pc \in {"idle", "drop", "copy", "put"}
  /\ at \in Nat /\ asked \in Sessions /\ apart \in BOOLEAN
  /\ pc \in {"copy", "put"} => data \in Nodes

(* Types; every entry is of a ConnectionData that exists. *)
TypeOK ==
  /\ PlainOK
  /\ IsTable(table) /\ IsTable(copied)
  /\ \A i \in table.meta : table.values[i] \in Nodes
  /\ \A i \in copied.meta : copied.values[i] \in Nodes

(* Room for the next key. *)
RoomInv ==
  /\ table.capacity >= FirstCapacity
  /\ pc = "drop" => at <= table.capacity
  /\ pc = "copy" => /\ copied.capacity = Grown(table.capacity)
                    /\ copied.count <= at
                    /\ at <= table.capacity
  /\ pc = "put" => table.count < table.capacity

(* Keys are identifiers that were given; the one to be put is new. *)
KeysInv ==
  /\ \A i \in table.meta : table.keys[i] \in 1..last
  /\ \A i \in copied.meta : copied.keys[i] \in 1..last
  /\ pc \in {"copy", "put"} =>
       /\ last > 0
       /\ \A i \in table.meta : table.keys[i] < last
       /\ pc = "copy" => \A i \in copied.meta : copied.keys[i] < last

IsFreed(d) == conn[d] = Freed

(* The free list is one: its links go to freed data, and no two to the same. *)
FreeInv ==
  /\ free # 0 => IsFreed(free)
  /\ \A d \in Nodes : IsFreed(d) /\ next[d] # 0 =>
       /\ IsFreed(next[d])
       /\ next[d] # free
       /\ \A e \in Nodes : IsFreed(e) /\ next[e] = next[d] => e = d

(* An entry has a ConnectionData of its own, and it is not freed. *)
EntryInv ==
  /\ \A i \in table.meta : ~IsFreed(table.values[i])
  /\ \A i, j \in table.meta : table.values[i] = table.values[j] => i = j
  /\ pc \in {"copy", "put"} =>
       /\ conn[data] = asked
       /\ lastUse[data] = now
       /\ \A i \in table.meta : table.values[i] # data

(* The entries are the identifiers that were given and not dropped. *)
GivenInv ==
  /\ DOMAIN used = DOMAIN given
  /\ \A id \in DOMAIN given : \E i \in table.meta : table.keys[i] = id
  /\ \A i \in table.meta :
       /\ table.keys[i] \in DOMAIN given
       /\ given[table.keys[i]] = conn[table.values[i]]
       /\ used[table.keys[i]] = lastUse[table.values[i]]

Same(t, i, u, j) == t.keys[i] = u.keys[j] /\ t.values[i] = u.values[j]

(* What is copied so far. *)
CopyInv ==
  pc = "copy" =>
    /\ \A i \in copied.meta : \E j \in table.meta : j < at /\ Same(copied, i, table, j)
    /\ \A j \in table.meta : j < at => \E i \in copied.meta : Same(copied, i, table, j)

Story == AtHome(table) /\ AtHome(copied) /\ FreeInv /\ EntryInv /\ GivenInv /\ CopyInv

IndInv == TypeOK /\ RoomInv /\ KeysInv /\ HomesUntilWrap /\ (apart => Story)

-----------------------------------------------------------------------------
(* Tables *)

(* The occupied slots of a table are finitely many, and there are as many  *)
(* slots as its capacity says.                                             *)
LEMMA TableFinite ==
  ASSUME NEW tab, IsTable(tab)
  PROVE  /\ IsFiniteSet(tab.meta)
         /\ tab.count \in Nat
<1>1. IsFiniteSet(Slots(tab))
  <2>1. 0 \in Int /\ tab.capacity - 1 \in Int
    BY DEF IsTable
  <2> QED
    BY <2>1, FS_Interval DEF Slots
<1>2. IsFiniteSet(tab.meta)
  BY <1>1, FS_Subset DEF IsTable
<1> QED
  BY <1>2, FS_CardinalityType DEF IsTable

(* A new table has nothing in it. *)
LEMMA NewTableIsTable ==
  ASSUME NEW capacity \in Nat \ {0}
  PROVE  /\ IsTable(NewTable(capacity))
         /\ AtHome(NewTable(capacity))
         /\ NewTable(capacity).capacity = capacity
         /\ NewTable(capacity).meta = {}
         /\ NewTable(capacity).count = 0
BY FS_EmptySet DEF IsTable, AtHome, NewTable, Slots

LEMMA GrownCapacity == ASSUME NEW c \in Nat PROVE Grown(c) \in Nat \ {0}
BY DEF Grown

(* A table that is not crowded has a free slot. *)
LEMMA RoomUnlessCrowded ==
  ASSUME NEW tab, IsTable(tab), ~Crowded(tab)
  PROVE  tab.count < tab.capacity
<1> DEFINE n == tab.count
           c == tab.capacity
<1>1. n \in Nat /\ c \in Nat
  BY TableFinite DEF IsTable
<1>2. ~(n * 100 >= 70 * c) /\ c # 0
  BY DEF Crowded, IsTable
<1> HIDE DEF n, c
<1>3. n < c
  BY <1>1, <1>2
<1> QED
  BY <1>3 DEF n, c

(* Homes are slots. *)
LEMMA HomeIsSlot ==
  ASSUME NEW tab, IsTable(tab), NEW key \in Nat
  PROVE  Home(tab, key) \in Slots(tab)
BY DEF IsTable, Home, Slots

(* A key put in one of its places leaves a table. *)
LEMMA PutIsTable ==
  ASSUME NEW tab, IsTable(tab), NEW key \in Nat, NEW value \in Nat,
         NEW i \in Slots(tab)
  PROVE  /\ IsTable(PutAt(tab, key, value, i))
         /\ PutAt(tab, key, value, i).capacity = tab.capacity
         /\ PutAt(tab, key, value, i).count <= tab.count + 1
<1> DEFINE new == PutAt(tab, key, value, i)
<1>1. /\ new.capacity = tab.capacity
      /\ new.meta = tab.meta \cup {i}
      /\ new.keys = [tab.keys EXCEPT ![i] = key]
      /\ new.values = [tab.values EXCEPT ![i] = value]
      /\ new.count = IF i \in tab.meta THEN tab.count ELSE tab.count + 1
  BY DEF PutAt
<1>2. new.count = Cardinality(new.meta)
  <2>1. Cardinality(tab.meta \cup {i}) =
          IF i \in tab.meta THEN Cardinality(tab.meta) ELSE Cardinality(tab.meta) + 1
    BY TableFinite, FS_AddElement
  <2>2. tab.count = Cardinality(tab.meta)
    BY DEF IsTable
  <2> HIDE DEF new
  <2> QED
    BY <1>1, <2>1, <2>2
<1>3. Slots(new) = Slots(tab)
  BY <1>1 DEF Slots
<1>4. IsTable(new)
  <2>1. new.keys \in [Slots(tab) -> Nat] /\ new.values \in [Slots(tab) -> Nat]
    BY <1>1 DEF IsTable
  <2>2. new.meta \subseteq Slots(tab)
    BY <1>1 DEF IsTable
  <2> HIDE DEF new
  <2> QED
    BY <1>1, <1>2, <1>3, <2>1, <2>2 DEF IsTable
<1>5. new.count <= tab.count + 1
  BY <1>1, TableFinite
<1> QED
  BY <1>1, <1>4, <1>5

(* Removing leaves a table, and frees the home of the key. *)
LEMMA RemoveIsTable ==
  ASSUME NEW tab, IsTable(tab), NEW key \in Nat
  PROVE  /\ IsTable(Remove(tab, key))
         /\ Remove(tab, key).capacity = tab.capacity
<1> DEFINE new == Remove(tab, key)
           home == Home(tab, key)
<1>1. /\ new.capacity = tab.capacity
      /\ new.meta = tab.meta \ {home}
      /\ new.keys = tab.keys
      /\ new.values = tab.values
      /\ new.count = IF home \in tab.meta THEN tab.count - 1 ELSE tab.count
  BY DEF Remove
<1>2. new.count = Cardinality(new.meta)
  <2>1. Cardinality(tab.meta \ {home}) =
          IF home \in tab.meta THEN Cardinality(tab.meta) - 1 ELSE Cardinality(tab.meta)
    BY TableFinite, FS_RemoveElement
  <2>2. tab.count = Cardinality(tab.meta)
    BY DEF IsTable
  <2> HIDE DEF home, new
  <2> QED
    BY <1>1, <2>1, <2>2
<1>3. Slots(new) = Slots(tab)
  BY <1>1 DEF Slots
<1> HIDE DEF new, home
<1> QED
  BY <1>1, <1>2, <1>3 DEF IsTable, new

(* Keys that lie at their homes are distinct. *)
LEMMA HomesDistinct ==
  ASSUME NEW tab, AtHome(tab), NEW i \in tab.meta, NEW j \in tab.meta,
         tab.keys[i] = tab.keys[j]
  PROVE  i = j
BY DEF AtHome

(* A walk from a free home ends there. *)
LEMMA FreeHomeMet ==
  ASSUME NEW tab, IsTable(tab), NEW key \in Nat, Home(tab, key) \notin tab.meta,
         NEW i \in Slots(tab), Meets(tab, key, Places(tab, key), i)
  PROVE  i = Home(tab, key)
<1> DEFINE home == Home(tab, key)
<1>1. home \in Slots(tab)
  BY HomeIsSlot
<1>2. home \in Places(tab, key)
  BY <1>1 DEF Places
<1>3. Distance(tab, key, i) <= Distance(tab, key, home)
  BY <1>2 DEF Meets
<1>4. home \in Int /\ i \in Int /\ tab.capacity \in Nat /\ home < tab.capacity /\ i >= 0 /\ home >= 0
  BY <1>1 DEF Slots, IsTable
<1>5. Distance(tab, key, home) = 0
  BY <1>4 DEF Distance
<1>6. CASE i >= home
  BY <1>3, <1>4, <1>5, <1>6 DEF Distance
<1>7. CASE i < home
  <2>1. Distance(tab, key, i) = i - home + tab.capacity
    BY <1>4, <1>7 DEF Distance
  <2> QED
    BY <1>3, <1>4, <1>5, <2>1
<1> QED
  BY <1>4, <1>6, <1>7

(* The first keys, as many as a table has slots, have homes of their own.  *)
LEMMA FirstHomesDistinct ==
  ASSUME NEW tab, IsTable(tab), NEW k \in Nat \ {0}, NEW m \in Nat \ {0},
         k < m, m <= tab.capacity
  PROVE  Home(tab, k) # Home(tab, m)
<1> DEFINE c == tab.capacity
<1>1. c \in Nat \ {0}
  BY DEF IsTable
<1> HIDE DEF c
<1>2. k % c = k
  BY <1>1 DEF c
<1>3. m < c => m % c = m
  BY <1>1
<1>4. m = c => m % c = 0
  BY <1>1
<1> QED
  BY <1>1, <1>2, <1>3, <1>4 DEF Home, c

-----------------------------------------------------------------------------
(* The invariant, action by action *)

USE ConnectionAssumption

LEMMA InitInd == Init => IndInv
<1> SUFFICES ASSUME Init PROVE IndInv
  OBVIOUS
<1>1. /\ IsTable(table) /\ AtHome(table)
      /\ table.capacity = FirstCapacity /\ table.meta = {} /\ table.count = 0
  BY NewTableIsTable DEF Init
<1>2. TypeOK
  <2>1. copied = table
    BY DEF Init
  <2>2. Nodes = {}
    BY DEF Init, Nodes
  <2>3. table.meta = {} /\ copied.meta = {} /\ IsTable(table) /\ IsTable(copied)
    BY <1>1, <2>1
  <2> QED
    BY <2>2, <2>3 DEF Init, TypeOK, PlainOK
<1>3. RoomInv /\ KeysInv /\ HomesUntilWrap
  BY <1>1 DEF Init, RoomInv, KeysInv, HomesUntilWrap
<1>4. Story
  <2>1. Nodes = {}
    BY DEF Init, Nodes
  <2> QED
    BY <1>1, <2>1 DEF Init, Story, FreeInv, EntryInv, GivenInv, CopyInv
<1> QED
  BY <1>2, <1>3, <1>4 DEF IndInv

(* Nothing of the invariant is about the clock between requests. *)
LEMMA TickInd == IndInv /\ Tick => IndInv'
<1> SUFFICES ASSUME IndInv, Tick PROVE IndInv'
  OBVIOUS
<1> USE DEF Tick, nodeVars, request, observers, IndInv
<1>1. TypeOK'
  BY DEF TypeOK, PlainOK, Nodes
<1>2. RoomInv' /\ KeysInv' /\ HomesUntilWrap'
  BY DEF RoomInv, KeysInv, HomesUntilWrap
<1>3. apart' => Story'
  BY DEF Story, FreeInv, EntryInv, GivenInv, CopyInv, Nodes, IsFreed, Same, AtHome, Home
<1> QED
  BY <1>1, <1>2, <1>3

LEMMA ConnectInd == ASSUME NEW s \in Sessions PROVE IndInv /\ Connect(s) => IndInv'
<1> SUFFICES ASSUME IndInv, Connect(s) PROVE IndInv'
  OBVIOUS
<1> USE DEF Connect, nodeVars, observers, IndInv
<1>1. TypeOK'
  BY DEF TypeOK, PlainOK, Nodes
<1>2. RoomInv' /\ KeysInv' /\ HomesUntilWrap'
  <2>1. table.capacity \in Nat
    BY DEF TypeOK, PlainOK, IsTable
  <2> QED
    BY <2>1 DEF RoomInv, KeysInv, HomesUntilWrap
<1>3. apart' => Story'
  BY DEF Story, FreeInv, EntryInv, GivenInv, CopyInv, Nodes, IsFreed, Same, AtHome, Home
<1> QED
  BY <1>1, <1>2, <1>3

LEMMA UseInd == ASSUME NEW id \in 1..MaxIds PROVE IndInv /\ Use(id) => IndInv'
<1> SUFFICES ASSUME IndInv, Use(id) PROVE IndInv'
  OBVIOUS
<1> USE DEF IndInv
<1>1. PICK i \in Slots(table) : i \in table.meta /\ table.keys[i] = id /\
                                lastUse' = [lastUse EXCEPT ![table.values[i]] = now]
  BY DEF Use, Meets, Holders
<1>2. UNCHANGED <<now, table, nodes, next, conn, free, last, pc, at, asked, data, copied, given, apart>>
  BY DEF Use, request
<1>3. pc = "idle" /\ table.values[i] \in Nodes
  BY <1>1 DEF Use, TypeOK, PlainOK
<1>4. TypeOK'
  <2>1. lastUse' \in [Nodes -> Nat]
    BY <1>1, <1>3 DEF TypeOK, PlainOK
  <2> QED
    BY <1>2, <2>1 DEF TypeOK, PlainOK, Nodes
<1>5. RoomInv' /\ KeysInv' /\ HomesUntilWrap'
  BY <1>2 DEF RoomInv, KeysInv, HomesUntilWrap
<1>6. ASSUME apart PROVE Story'
  <2>1. Story
    BY <1>6
  <2>2. AtHome(table)' /\ AtHome(copied)' /\ FreeInv' /\ CopyInv'
    BY <1>2, <2>1 DEF Story, AtHome, Home, FreeInv, CopyInv, Nodes, IsFreed, Same
  <2>3. EntryInv'
    BY <1>2, <1>3, <2>1 DEF Story, EntryInv, IsFreed
  <2>4. GivenInv'
    <3>1. id \in DOMAIN used /\ DOMAIN used = DOMAIN given
      BY <1>1, <2>1 DEF Story, GivenInv
    <3>2. used' = [used EXCEPT ![id] = now] /\ DOMAIN used' = DOMAIN used
      BY <3>1 DEF Use
    <3>3. ASSUME NEW j \in table.meta PROVE used'[table.keys[j]] = lastUse'[table.values[j]]
      <4>1. CASE j = i
        BY <1>1, <1>3, <3>1, <3>2, <4>1 DEF TypeOK, PlainOK
      <4>2. CASE j # i
        <5>1. table.keys[j] # id /\ table.values[j] # table.values[i] /\ table.values[j] \in Nodes
          BY <1>1, <2>1, <4>2, HomesDistinct DEF Story, EntryInv, TypeOK, PlainOK
        <5>2. table.keys[j] \in DOMAIN used /\ used[table.keys[j]] = lastUse[table.values[j]]
          BY <2>1, <3>1 DEF Story, GivenInv
        <5> QED
          BY <1>1, <3>2, <5>1, <5>2 DEF TypeOK, PlainOK
      <4> QED
        BY <4>1, <4>2
    <3> QED
      BY <1>2, <2>1, <3>1, <3>2, <3>3 DEF Story, GivenInv
  <2> QED
    BY <2>2, <2>3, <2>4 DEF Story
<1> QED
  BY <1>2, <1>4, <1>5, <1>6

LEMMA KeepInd == IndInv /\ Keep => IndInv'
<1> SUFFICES ASSUME IndInv, Keep PROVE IndInv'
  OBVIOUS
<1> USE DEF Keep, nodeVars, observers, IndInv
<1>1. TypeOK'
  BY DEF TypeOK, PlainOK, Nodes
<1>2. RoomInv' /\ KeysInv' /\ HomesUntilWrap'
  <2>1. table.capacity \in Nat /\ at \in Nat
    BY DEF TypeOK, PlainOK, IsTable
  <2> QED
    BY <2>1 DEF RoomInv, KeysInv, HomesUntilWrap
<1>3. apart' => Story'
  BY DEF Story, FreeInv, EntryInv, GivenInv, CopyInv, Nodes, IsFreed, Same, AtHome, Home
<1> QED
  BY <1>1, <1>2, <1>3

(* The freed data gets in front of the free list; with the keys at their   *)
(* homes, the entry that goes is its own.                                  *)
LEMMA DropInd == IndInv /\ Drop => IndInv'
<1> SUFFICES ASSUME IndInv, Drop PROVE IndInv'
  OBVIOUS
<1> USE DEF IndInv
<1> DEFINE d == table.values[at]
           key == table.keys[at]
<1>1. /\ pc = "drop" /\ at < table.capacity /\ at \in table.meta
      /\ conn' = [conn EXCEPT ![d] = Freed]
      /\ next' = [next EXCEPT ![d] = free]
      /\ free' = d
      /\ table' = Remove(table, key)
      /\ given' = [i \in DOMAIN given \ {key} |-> given[i]]
      /\ used' = [i \in DOMAIN used \ {key} |-> used[i]]
      /\ at' = at + 1
  BY DEF Drop, Drops
<1>2. UNCHANGED <<now, nodes, lastUse, last, pc, asked, data, copied, apart>>
  BY DEF Drop
<1>3. d \in Nodes /\ key \in Nat /\ at \in Slots(table) /\ nodes \in Nat
  BY <1>1 DEF TypeOK, PlainOK, IsTable
<1>4. /\ IsTable(table') /\ table'.capacity = table.capacity
      /\ table'.meta = table.meta \ {Home(table, key)}
      /\ table'.keys = table.keys /\ table'.values = table.values
  BY <1>1, <1>3, RemoveIsTable DEF TypeOK, PlainOK, Remove
<1> HIDE DEF d, key
<1>5. TypeOK'
  <2>1. next' \in [Nodes -> 0..nodes] /\ conn' \in [Nodes -> Sessions \cup {Freed}] /\ free' \in 0..nodes
    BY <1>1, <1>3 DEF TypeOK, PlainOK, Nodes
  <2>2. \A i \in table'.meta : table'.values[i] \in Nodes
    BY <1>4 DEF TypeOK, PlainOK
  <2>3. at' \in Nat
    BY <1>1 DEF TypeOK, PlainOK
  <2> QED
    BY <1>1, <1>2, <1>4, <2>1, <2>2, <2>3 DEF TypeOK, PlainOK, Nodes
<1>6. RoomInv'
  <2>1. at \in Nat /\ table.capacity \in Nat
    BY DEF TypeOK, PlainOK, IsTable
  <2> QED
    BY <1>1, <1>2, <1>4, <2>1 DEF RoomInv
<1>7. KeysInv' /\ HomesUntilWrap'
  BY <1>1, <1>2, <1>4 DEF KeysInv, HomesUntilWrap
<1>8. ASSUME apart PROVE Story'
  <2>1. Story
    BY <1>8
  <2>2. Home(table, key) = at
    BY <1>1, <2>1 DEF Story, AtHome, key
  <2>3. AtHome(table') /\ AtHome(copied')
    BY <1>2, <1>4, <2>1 DEF Story, AtHome, Home
  <2>4. ~IsFreed(d)
    BY <1>1, <2>1 DEF Story, EntryInv, d
  <2>5. \A e \in Nodes : e # d => conn'[e] = conn[e] /\ next'[e] = next[e]
    BY <1>1, <1>3 DEF TypeOK, PlainOK
  <2>6. conn'[d] = Freed /\ next'[d] = free
    BY <1>1, <1>3 DEF TypeOK, PlainOK
  <2>7. FreeInv'
    <3>1. free' = d /\ conn'[free'] = Freed
      BY <1>1, <2>6
    <3>2. \A e \in Nodes : next[e] \in 0..nodes /\ next'[e] \in 0..nodes
      BY <1>2, <1>5 DEF TypeOK, PlainOK, Nodes
    <3>3. ASSUME NEW e \in Nodes, conn'[e] = Freed, next'[e] # 0
          PROVE  /\ conn'[next'[e]] = Freed
                 /\ next'[e] # d
                 /\ \A f \in Nodes : conn'[f] = Freed /\ next'[f] = next'[e] => f = e
      <4>1. CASE e = d
        <5>1. free # 0 /\ free \in Nodes /\ conn[free] = Freed /\ free # d
          BY <2>1, <2>4, <2>6, <3>3, <4>1 DEF Story, FreeInv, IsFreed, TypeOK, PlainOK, Nodes
        <5>2. \A f \in Nodes : f # d /\ conn'[f] = Freed => next'[f] # free
          BY <2>1, <2>5, <5>1 DEF Story, FreeInv, IsFreed
        <5> QED
          BY <2>5, <2>6, <4>1, <5>1, <5>2
      <4>2. CASE e # d
        <5>1. conn[e] = Freed /\ next'[e] = next[e] /\ next[e] # 0
          BY <2>5, <3>3, <4>2
        <5>2. conn[next[e]] = Freed /\ next[e] # free /\ next[e] \in Nodes
          BY <2>1, <3>2, <5>1 DEF Story, FreeInv, IsFreed, Nodes
        <5>3. next[e] # d /\ conn'[next[e]] = Freed
          BY <2>4, <2>5, <5>2 DEF IsFreed
        <5>4. ASSUME NEW f \in Nodes, conn'[f] = Freed, next'[f] = next[e] PROVE f = e
          <6>1. f # d
            BY <2>6, <5>2, <5>4
          <6>2. conn[f] = Freed /\ next[f] = next[e]
            BY <2>5, <5>4, <6>1
          <6> QED
            BY <2>1, <5>1, <6>2 DEF Story, FreeInv, IsFreed
        <5> QED
          BY <5>1, <5>3, <5>4
      <4> QED
        BY <4>1, <4>2
    <3> QED
      BY <1>1, <1>2, <3>1, <3>3 DEF FreeInv, IsFreed, Nodes
  <2>8. \A i \in table'.meta : i \in table.meta /\ i # at /\ table.values[i] # d /\ table.keys[i] # key
    BY <1>1, <1>4, <2>1, <2>2, HomesDistinct DEF Story, EntryInv, d, key
  <2>9. EntryInv'
    <3>1. \A i \in table'.meta : conn'[table'.values[i]] # Freed
      <4>1. \A i \in table'.meta : table.values[i] \in Nodes /\ table.values[i] # d /\ conn[table.values[i]] # Freed
        BY <2>1, <2>8 DEF Story, EntryInv, IsFreed, TypeOK, PlainOK
      <4> QED
        BY <1>4, <2>5, <4>1
    <3> QED
      BY <1>1, <1>2, <1>4, <2>1, <2>8, <3>1 DEF Story, EntryInv, IsFreed
  <2>10. GivenInv'
    <3>1. \A i \in table'.meta : table.values[i] \in Nodes /\ conn'[table.values[i]] = conn[table.values[i]]
      BY <2>5, <2>8 DEF TypeOK, PlainOK
    <3>2. DOMAIN given' = DOMAIN given \ {key} /\ DOMAIN used' = DOMAIN used \ {key}
      BY <1>1
    <3>3. \A i \in table'.meta : /\ table.keys[i] \in DOMAIN given'
                                 /\ given'[table.keys[i]] = given[table.keys[i]]
                                 /\ used'[table.keys[i]] = used[table.keys[i]]
      BY <1>1, <2>1, <2>8, <3>2 DEF Story, GivenInv
    <3>4. \A id \in DOMAIN given' : \E i \in table'.meta : table'.keys[i] = id
      BY <1>4, <2>1, <2>2, <3>2 DEF Story, GivenInv, key
    <3> QED
      BY <1>2, <1>4, <2>1, <2>8, <3>1, <3>2, <3>3, <3>4 DEF Story, GivenInv
  <2>11. CopyInv'
    BY <1>1, <1>2 DEF CopyInv
  <2> QED
    BY <2>3, <2>7, <2>9, <2>10, <2>11 DEF Story
<1> QED
  BY <1>2, <1>5, <1>6, <1>7, <1>8

(* The data that is ready is new or from the head of the free list. *)
LEMMA ReadyKeeps ==
  ASSUME NEW d, IndInv, Ready(d), nodes' \in Nat, nodes <= nodes', d \in 1..nodes',
         next' \in [1..nodes' -> 0..nodes'], conn' \in [1..nodes' -> Sessions \cup {Freed}],
         lastUse' \in [1..nodes' -> Nat], free' \in 0..nodes'
  PROVE  /\ TypeOK' /\ RoomInv' /\ KeysInv' /\ HomesUntilWrap'
         /\ AtHome(copied) => AtHome(copied')
         /\ apart => CopyInv'
<1> USE DEF IndInv
<1>1. /\ pc = "drop" /\ at = table.capacity
      /\ data' = d /\ last' = last + 1 /\ at' = 0
      /\ UNCHANGED <<now, table, asked, given, used, apart>>
  BY DEF Ready, observers
<1>2. CASE Crowded(table)
  <2>1. pc' = "copy" /\ copied' = NewTable(Grown(table.capacity))
    BY <1>2 DEF Ready
  <2>2. table.capacity \in Nat /\ Grown(table.capacity) \in Nat \ {0}
    <3>1. IsTable(table)
      BY DEF TypeOK
    <3>2. table.capacity \in Nat
      BY <3>1 DEF IsTable
    <3> QED
      BY <3>2, GrownCapacity
  <2>3. /\ IsTable(copied') /\ AtHome(copied') /\ copied'.meta = {} /\ copied'.count = 0
        /\ copied'.capacity = Grown(table.capacity)
    BY <2>1, <2>2, NewTableIsTable
  <2>4. TypeOK'
    <3>1. \A i \in table.meta : table.values[i] \in 1..nodes'
      BY DEF TypeOK, PlainOK, Nodes
    <3> QED
      BY <1>1, <2>1, <2>3, <3>1 DEF TypeOK, PlainOK, Nodes
  <2>5. RoomInv' /\ KeysInv' /\ HomesUntilWrap'
    <3>1. \A i \in table.meta : table.keys[i] \in 1..last /\ table.keys[i] \in 1..last + 1 /\ table.keys[i] < last + 1
      <4>1. last \in Nat /\ \A i \in table.meta : table.keys[i] \in 1..last
        BY DEF KeysInv, TypeOK, PlainOK
      <4>2. \A k \in 1..last : k \in 1..last + 1 /\ k < last + 1
        BY <4>1
      <4> QED
        BY <4>1, <4>2
    <3>2. \A i \in copied.meta : copied.keys[i] \in 1..last + 1
      BY DEF KeysInv, TypeOK, PlainOK
    <3>3. last \in Nat /\ last + 1 > 0
      BY DEF TypeOK, PlainOK
    <3>4. KeysInv'
      BY <1>1, <2>1, <2>3, <3>1, <3>2, <3>3 DEF KeysInv
    <3>5. RoomInv'
      BY <1>1, <2>1, <2>2, <2>3 DEF RoomInv, TypeOK, PlainOK
    <3>6. HomesUntilWrap'
      BY <1>1, <3>3 DEF HomesUntilWrap
    <3> QED
      BY <3>4, <3>5, <3>6
  <2>6. CopyInv'
    <3>1. \A j \in table.meta : ~(j < 0)
      BY <2>2 DEF TypeOK, PlainOK, IsTable, Slots
    <3> QED
      BY <1>1, <2>3, <3>1 DEF CopyInv
  <2> QED
    BY <2>3, <2>4, <2>5, <2>6
<1>3. CASE ~Crowded(table)
  <2>1. pc' = "put" /\ copied' = copied
    BY <1>3 DEF Ready
  <2>2. TypeOK'
    <3>1. \A e \in Nodes : e \in 1..nodes'
      BY DEF Nodes, TypeOK, PlainOK
    <3>2. \A i \in table.meta : table.values[i] \in 1..nodes'
      BY <3>1 DEF TypeOK
    <3>3. \A i \in copied.meta : copied.values[i] \in 1..nodes'
      BY <3>1 DEF TypeOK
    <3> QED
      BY <1>1, <2>1, <3>2, <3>3 DEF TypeOK, PlainOK, Nodes
  <2>3. table.count < table.capacity
    <3>1. IsTable(table)
      BY DEF TypeOK, PlainOK
    <3> QED
      BY <1>3, <3>1, RoomUnlessCrowded
  <2>4. RoomInv' /\ KeysInv' /\ HomesUntilWrap'
    <3>1. \A i \in table.meta : table.keys[i] \in 1..last /\ table.keys[i] \in 1..last + 1 /\ table.keys[i] < last + 1
      <4>1. last \in Nat /\ \A i \in table.meta : table.keys[i] \in 1..last
        BY DEF KeysInv, TypeOK, PlainOK
      <4>2. \A k \in 1..last : k \in 1..last + 1 /\ k < last + 1
        BY <4>1
      <4> QED
        BY <4>1, <4>2
    <3>2. \A i \in copied.meta : copied.keys[i] \in 1..last + 1
      BY DEF KeysInv, TypeOK, PlainOK
    <3>3. last \in Nat /\ last + 1 > 0
      BY DEF TypeOK, PlainOK
    <3>4. KeysInv'
      BY <1>1, <2>1, <3>1, <3>2, <3>3 DEF KeysInv
    <3>5. RoomInv'
      BY <1>1, <2>1, <2>3 DEF RoomInv, TypeOK, PlainOK
    <3>6. HomesUntilWrap'
      BY <1>1, <3>3 DEF HomesUntilWrap
    <3> QED
      BY <3>4, <3>5, <3>6
  <2> QED
    BY <2>1, <2>2, <2>4 DEF CopyInv
<1> QED
  BY <1>2, <1>3

LEMMA AllocateInd == IndInv /\ Allocate => IndInv'
<1> SUFFICES ASSUME IndInv, Allocate PROVE IndInv'
  OBVIOUS
<1> USE DEF IndInv
<1> DEFINE d == nodes + 1
<1>1. /\ Ready(d) /\ nodes' = d /\ free = 0 /\ free' = 0
      /\ next' = [e \in 1..d |-> IF e \in Nodes THEN next[e] ELSE 0]
      /\ conn' = [e \in 1..d |-> IF e \in Nodes THEN conn[e] ELSE asked]
      /\ lastUse' = [e \in 1..d |-> IF e \in Nodes THEN lastUse[e] ELSE now]
  BY DEF Allocate
<1>2. /\ pc = "drop" /\ at = table.capacity /\ pc' \in {"copy", "put"} /\ data' = d
      /\ UNCHANGED <<now, table, asked, given, used, apart>>
  BY <1>1 DEF Ready, observers
<1>3. nodes \in Nat /\ d \in Nat /\ d \in 1..d /\ d \notin Nodes /\ Nodes \subseteq 1..d /\ nodes <= d
  BY DEF TypeOK, PlainOK, Nodes
<1>4. /\ next' \in [1..d -> 0..d]
      /\ conn' \in [1..d -> Sessions \cup {Freed}]
      /\ lastUse' \in [1..d -> Nat]
  <2>1. \A e \in Nodes : next[e] \in 0..d
    BY <1>3 DEF TypeOK, PlainOK, Nodes
  <2> HIDE DEF d
  <2> QED
    BY <1>1, <1>3, <2>1 DEF TypeOK, PlainOK
<1>5. \A e \in Nodes : next'[e] = next[e] /\ conn'[e] = conn[e] /\ lastUse'[e] = lastUse[e]
  BY <1>1, <1>3
<1>6. conn'[d] = asked /\ lastUse'[d] = now
  BY <1>1, <1>3
<1>7. conn'[d] # Freed
  BY <1>6 DEF TypeOK, PlainOK
<1>8. \A e \in 1..d : e \in Nodes \/ e = d
  BY <1>3 DEF Nodes
<1> HIDE DEF d
<1>9. /\ TypeOK' /\ RoomInv' /\ KeysInv' /\ HomesUntilWrap'
      /\ AtHome(copied) => AtHome(copied')
      /\ apart => CopyInv'
  BY <1>1, <1>3, <1>4, ReadyKeeps
<1>10. ASSUME apart PROVE Story'
  <2>1. Story
    BY <1>10
  <2>2. FreeInv'
    <3>1. \A e \in 1..d : conn'[e] = Freed => e \in Nodes /\ conn[e] = Freed /\ next'[e] = next[e]
      BY <1>5, <1>7, <1>8
    <3>2. \A e \in Nodes : next[e] # 0 => next[e] \in Nodes
      BY <1>3 DEF TypeOK, PlainOK, Nodes
    <3>3. ASSUME NEW e \in 1..d, conn'[e] = Freed, next'[e] # 0
          PROVE  /\ conn'[next'[e]] = Freed
                 /\ next'[e] # 0
                 /\ \A f \in 1..d : conn'[f] = Freed /\ next'[f] = next'[e] => f = e
      <4>1. /\ e \in Nodes /\ conn[e] = Freed /\ next'[e] = next[e]
            /\ next[e] \in Nodes /\ conn[next[e]] = Freed
            /\ \A f \in Nodes : conn[f] = Freed /\ next[f] = next[e] => f = e
        BY <2>1, <3>1, <3>2, <3>3 DEF Story, FreeInv, IsFreed
      <4> QED
        BY <1>5, <3>1, <3>3, <4>1
    <3>4. nodes' = d /\ free' = 0
      BY <1>1
    <3> QED
      BY <3>3, <3>4 DEF FreeInv, IsFreed, Nodes
  <2>3. \A i \in table.meta : /\ conn'[table.values[i]] = conn[table.values[i]]
                             /\ lastUse'[table.values[i]] = lastUse[table.values[i]]
                             /\ table.values[i] # d
    BY <1>3, <1>5 DEF TypeOK, PlainOK
  <2>4. EntryInv'
    BY <1>2, <1>6, <2>1, <2>3 DEF Story, EntryInv, IsFreed
  <2>5. GivenInv'
    BY <1>2, <2>1, <2>3 DEF Story, GivenInv
  <2>6. AtHome(table') /\ AtHome(copied')
    BY <1>2, <1>9, <2>1 DEF Story
  <2> QED
    BY <1>9, <1>10, <2>2, <2>4, <2>5, <2>6 DEF Story
<1> QED
  BY <1>2, <1>9, <1>10

LEMMA RecycleInd == IndInv /\ Recycle => IndInv'
<1> SUFFICES ASSUME IndInv, Recycle PROVE IndInv'
  OBVIOUS
<1> USE DEF IndInv
<1>1. /\ Ready(free) /\ nodes' = nodes /\ next' = next /\ free # 0 /\ free' = next[free]
      /\ conn' = [conn EXCEPT ![free] = asked]
      /\ lastUse' = [lastUse EXCEPT ![free] = now]
  BY DEF Recycle
<1>2. /\ pc = "drop" /\ at = table.capacity /\ pc' \in {"copy", "put"} /\ data' = free
      /\ UNCHANGED <<now, table, asked, given, used, apart>>
  BY <1>1 DEF Ready, observers
<1>3. nodes \in Nat /\ free \in Nodes
  BY <1>1 DEF TypeOK, PlainOK, Nodes
<1>4. /\ next' \in [Nodes -> 0..nodes] /\ free' \in 0..nodes
      /\ conn' \in [Nodes -> Sessions \cup {Freed}]
      /\ lastUse' \in [Nodes -> Nat]
  BY <1>1, <1>3 DEF TypeOK, PlainOK
<1>5. \A e \in Nodes : e # free => conn'[e] = conn[e] /\ lastUse'[e] = lastUse[e]
  BY <1>1, <1>3 DEF TypeOK, PlainOK
<1>6. conn'[free] = asked /\ lastUse'[free] = now /\ asked # Freed
  BY <1>1, <1>3 DEF TypeOK, PlainOK
<1>7. /\ TypeOK' /\ RoomInv' /\ KeysInv' /\ HomesUntilWrap'
      /\ AtHome(copied) => AtHome(copied')
      /\ apart => CopyInv'
  <2>1. nodes' \in Nat /\ nodes <= nodes' /\ free \in 1..nodes'
    BY <1>1, <1>3 DEF Nodes
  <2>2. /\ next' \in [1..nodes' -> 0..nodes'] /\ free' \in 0..nodes'
        /\ conn' \in [1..nodes' -> Sessions \cup {Freed}]
        /\ lastUse' \in [1..nodes' -> Nat]
    BY <1>1, <1>4 DEF Nodes
  <2> QED
    BY <1>1, <2>1, <2>2, ReadyKeeps
<1>8. ASSUME apart PROVE Story'
  <2>1. Story
    BY <1>8
  <2>2. conn[free] = Freed
    BY <1>1, <2>1 DEF Story, FreeInv, IsFreed
  <2>3. \A e \in Nodes : conn'[e] = Freed => e # free /\ conn[e] = Freed
    BY <1>5, <1>6
  <2>4. FreeInv'
    <3>1. \A e \in Nodes : next[e] # 0 => next[e] \in Nodes
      BY <1>3 DEF TypeOK, PlainOK, Nodes
    <3>2. free' # 0 => free' \in Nodes /\ free' # free /\ conn'[free'] = Freed
      <4>1. next[free] # 0 => next[free] \in Nodes /\ next[free] # free /\ conn[next[free]] = Freed
        BY <1>3, <2>1, <2>2, <3>1 DEF Story, FreeInv, IsFreed
      <4> QED
        BY <1>1, <1>5, <4>1
    <3>3. ASSUME NEW e \in Nodes, conn'[e] = Freed, next[e] # 0
          PROVE  /\ conn'[next[e]] = Freed
                 /\ next[e] # free'
                 /\ \A f \in Nodes : conn'[f] = Freed /\ next[f] = next[e] => f = e
      <4>1. /\ conn[e] = Freed /\ next[e] \in Nodes /\ e # free
            /\ conn[next[e]] = Freed /\ next[e] # free
            /\ \A f \in Nodes : conn[f] = Freed /\ next[f] = next[e] => f = e
        BY <2>1, <2>3, <3>1, <3>3 DEF Story, FreeInv, IsFreed
      <4>2. next[e] # next[free]
        BY <1>3, <2>2, <4>1
      <4> QED
        BY <1>1, <1>5, <2>3, <4>1, <4>2
    <3>4. nodes' = nodes /\ next' = next
      BY <1>1
    <3> QED
      BY <3>2, <3>3, <3>4 DEF FreeInv, IsFreed, Nodes
  <2>5. \A i \in table.meta : /\ table.values[i] \in Nodes /\ table.values[i] # free
                             /\ conn'[table.values[i]] = conn[table.values[i]]
                             /\ lastUse'[table.values[i]] = lastUse[table.values[i]]
    BY <1>5, <2>1, <2>2 DEF Story, EntryInv, IsFreed, TypeOK, PlainOK
  <2>6. EntryInv'
    BY <1>2, <1>6, <2>1, <2>5 DEF Story, EntryInv, IsFreed
  <2>7. GivenInv'
    BY <1>2, <2>1, <2>5 DEF Story, GivenInv
  <2>8. AtHome(table') /\ AtHome(copied')
    BY <1>2, <1>7, <2>1 DEF Story
  <2> QED
    BY <1>7, <1>8, <2>4, <2>6, <2>7, <2>8 DEF Story
<1> QED
  BY <1>2, <1>7, <1>8

(* What a put does to the entries, if its place is the home of the key and *)
(* the key is new.                                                         *)
LEMMA PutEntries ==
  ASSUME NEW tab, IsTable(tab), NEW key \in Nat, NEW value \in Nat, NEW i \in Slots(tab),
         NEW new, new = PutAt(tab, key, value, i)
  PROVE  /\ new.meta = tab.meta \cup {i}
         /\ new.keys[i] = key /\ new.values[i] = value
         /\ \A j \in tab.meta : j # i => Same(new, j, tab, j)
         /\ AtHome(tab) /\ i = Home(tab, key) => AtHome(new)
<1>1. /\ new.capacity = tab.capacity
      /\ new.meta = tab.meta \cup {i}
      /\ new.keys = [tab.keys EXCEPT ![i] = key]
      /\ new.values = [tab.values EXCEPT ![i] = value]
  BY DEF PutAt
<1>2. new.keys[i] = key /\ new.values[i] = value /\ \A j \in tab.meta : j # i => Same(new, j, tab, j)
  BY <1>1 DEF IsTable, Same
<1>3. AtHome(tab) /\ i = Home(tab, key) => AtHome(new)
  BY <1>1, <1>2 DEF AtHome, Home, Same
<1> QED
  BY <1>1, <1>2, <1>3

(* A place that holds another key is no place. *)
LEMMA PlaceFreeOrOwn ==
  ASSUME NEW tab, NEW key, NEW i \in Slots(tab), Meets(tab, key, Places(tab, key), i), i \in tab.meta
  PROVE  tab.keys[i] = key
BY DEF Meets, Places, Holders

LEMMA CopyInd == IndInv /\ Copy => IndInv'
<1> SUFFICES ASSUME IndInv, Copy PROVE IndInv'
  OBVIOUS
<1> USE DEF IndInv
<1>1. /\ pc = "copy" /\ at < table.capacity /\ at' = at + 1 /\ at \in Nat /\ pc' = "copy"
      /\ UNCHANGED <<now, table, nodes, next, conn, lastUse, free, last, asked, data, given, used>>
  BY DEF Copy, nodeVars, TypeOK, PlainOK
<1>2. table.capacity \in Nat /\ copied.count \in Nat /\ last \in Nat
  BY TableFinite DEF TypeOK, PlainOK, IsTable
<1>3. CASE at \notin table.meta
  <2>1. copied' = copied /\ apart' = apart
    BY <1>3 DEF Copy
  <2>2. TypeOK'
    BY <1>1, <2>1 DEF TypeOK, PlainOK, Nodes
  <2>3. RoomInv'
    BY <1>1, <1>2, <2>1 DEF RoomInv
  <2>4. KeysInv' /\ HomesUntilWrap'
    BY <1>1, <2>1 DEF KeysInv, HomesUntilWrap
  <2>5. ASSUME apart PROVE Story'
    <3>1. Story
      BY <2>5
    <3>2. AtHome(table)' /\ AtHome(copied)' /\ FreeInv' /\ EntryInv' /\ GivenInv'
      BY <1>1, <2>1, <3>1 DEF Story, AtHome, Home, FreeInv, EntryInv, GivenInv, IsFreed, Nodes
    <3>3. \A j \in table.meta : j \in Nat /\ j # at
      BY <1>3 DEF TypeOK, PlainOK, IsTable, Slots
    <3>4. CopyInv'
      <4>1. \A j \in table.meta : j < at + 1 => j < at
        BY <1>1, <3>3
      <4>2. \A j \in table.meta : j < at => j < at + 1
        BY <1>1, <3>3
      <4> QED
        BY <1>1, <2>1, <3>1, <4>1, <4>2 DEF Story, CopyInv, Same
    <3> QED
      BY <3>2, <3>4 DEF Story
  <2> QED
    BY <2>1, <2>2, <2>3, <2>4, <2>5
<1>4. CASE at \in table.meta
  <2> DEFINE key == table.keys[at]
             value == table.values[at]
  <2>1. PICK i \in Slots(copied) :
          /\ Meets(copied, key, Places(copied, key), i)
          /\ copied' = PutAt(copied, key, value, i)
          /\ apart' = (apart /\ i = Home(copied, key))
    BY <1>4 DEF Copy
  <2>2. key \in Nat /\ value \in Nat /\ value \in Nodes /\ key \in 1..last /\ key < last
    <3>1. value \in Nodes /\ Nodes \subseteq Nat
      BY <1>4 DEF TypeOK, PlainOK, Nodes
    <3>2. key \in 1..last /\ key < last
      BY <1>1, <1>4 DEF KeysInv
    <3> HIDE DEF key, value
    <3>3. key \in Nat
      BY <1>2, <3>2
    <3>4. value \in Nat
      BY <3>1
    <3> QED
      BY <3>1, <3>2, <3>3, <3>4
  <2> HIDE DEF key, value
  <2>3. /\ IsTable(copied') /\ copied'.capacity = copied.capacity
        /\ copied'.count <= copied.count + 1 /\ copied'.count \in Nat
    <3>1. IsTable(copied)
      BY DEF TypeOK, PlainOK
    <3>2. IsTable(copied') /\ copied'.capacity = copied.capacity /\ copied'.count <= copied.count + 1
      BY <2>1, <2>2, <3>1, PutIsTable
    <3> QED
      BY <3>2, TableFinite
  <2>4. /\ copied'.meta = copied.meta \cup {i}
        /\ copied'.keys[i] = key /\ copied'.values[i] = value
        /\ \A j \in copied.meta : j # i => Same(copied', j, copied, j)
        /\ AtHome(copied) /\ i = Home(copied, key) => AtHome(copied')
    BY <2>1, <2>2, PutEntries DEF TypeOK, PlainOK
  <2>5. TypeOK'
    <3>1. \A j \in copied'.meta : copied'.values[j] \in Nodes
      BY <2>2, <2>4 DEF TypeOK, PlainOK, Same
    <3>2. apart' \in BOOLEAN
      BY <2>1 DEF TypeOK, PlainOK
    <3>3. PlainOK'
      BY <1>1, <3>2 DEF TypeOK, PlainOK, Nodes
    <3>4. IsTable(table') /\ \A j \in table.meta : table.values[j] \in Nodes
      BY <1>1 DEF TypeOK
    <3>5. Nodes' = Nodes
      BY <1>1 DEF Nodes
    <3> QED
      BY <1>1, <2>3, <3>1, <3>3, <3>4, <3>5 DEF TypeOK
  <2>6. RoomInv'
    BY <1>1, <1>2, <2>3 DEF RoomInv
  <2>7. KeysInv'
    <3>1. \A j \in copied'.meta : copied'.keys[j] \in 1..last /\ copied'.keys[j] < last
      BY <1>1, <2>2, <2>4 DEF KeysInv, Same
    <3> QED
      BY <1>1, <3>1 DEF KeysInv
  <2>8. ASSUME apart
        PROVE  /\ i \in copied.meta => FALSE
               /\ \A j \in copied.meta : copied.keys[j] # key
    <3>1. \A j \in copied.meta : copied.keys[j] # key
      <4>1. SUFFICES ASSUME NEW j \in copied.meta, copied.keys[j] = key PROVE FALSE
        OBVIOUS
      <4>2. PICK k \in table.meta : k < at /\ table.keys[k] = key
        BY <1>1, <2>8, <4>1 DEF Story, CopyInv, Same
      <4>3. k = at
        BY <1>4, <2>8, <4>2, HomesDistinct DEF Story, key
      <4> QED
        BY <1>1, <4>2, <4>3
    <3> QED
      BY <2>1, <3>1, PlaceFreeOrOwn
  <2>9. HomesUntilWrap'
    <3>1. SUFFICES ASSUME last <= FirstCapacity PROVE apart'
      BY <1>1 DEF HomesUntilWrap
    <3>2. apart
      BY <3>1 DEF HomesUntilWrap
    <3>3. Home(copied, key) \notin copied.meta
      <4>1. SUFFICES ASSUME Home(copied, key) \in copied.meta PROVE FALSE
        OBVIOUS
      <4> DEFINE m == copied.keys[Home(copied, key)]
      <4>2. m \in 1..last /\ m # key /\ Home(copied, m) = Home(copied, key)
        BY <2>8, <3>2, <4>1 DEF KeysInv, Story, AtHome
      <4>3. last <= copied.capacity
        BY <1>1, <1>2, <3>1 DEF RoomInv, Grown
      <4> HIDE DEF m
      <4>4. m \in Nat \ {0} /\ key \in Nat \ {0} /\ m <= copied.capacity /\ key <= copied.capacity
        BY <1>2, <2>2, <4>2, <4>3 DEF TypeOK, PlainOK, IsTable
      <4>5. IsTable(copied)
        BY DEF TypeOK, PlainOK
      <4>6. CASE m < key
        BY <4>2, <4>4, <4>5, <4>6, FirstHomesDistinct
      <4>7. CASE key < m
        BY <4>2, <4>4, <4>5, <4>7, FirstHomesDistinct
      <4> QED
        BY <4>2, <4>4, <4>6, <4>7
    <3> QED
      BY <2>1, <2>2, <3>2, <3>3, FreeHomeMet DEF TypeOK, PlainOK
  <2>10. ASSUME apart' PROVE Story'
    <3>1. apart /\ Story /\ i = Home(copied, key) /\ i \notin copied.meta
      BY <2>1, <2>8, <2>10
    <3>2. AtHome(table)' /\ AtHome(copied)' /\ FreeInv' /\ EntryInv' /\ GivenInv'
      BY <1>1, <2>4, <3>1 DEF Story, AtHome, Home, FreeInv, EntryInv, GivenInv, IsFreed, Nodes
    <3>3. \A j \in table.meta : j \in Nat
      BY DEF TypeOK, PlainOK, IsTable, Slots
    <3>4. \A j \in copied.meta : j # i /\ Same(copied', j, copied, j)
      BY <2>4, <3>1
    <3>5. Same(copied', i, table, at)
      BY <2>4 DEF Same, key, value
    <3>6. ASSUME NEW j \in copied'.meta
          PROVE  \E k \in table.meta : k < at + 1 /\ Same(copied', j, table, k)
      <4>1. CASE j = i
        BY <1>1, <1>4, <3>5, <4>1
      <4>2. CASE j # i
        <5>1. j \in copied.meta
          BY <2>4, <4>2
        <5>2. PICK k \in table.meta : k < at /\ Same(copied, j, table, k)
          BY <1>1, <3>1, <5>1 DEF Story, CopyInv
        <5>3. k < at + 1 /\ Same(copied', j, table, k)
          BY <1>1, <3>3, <3>4, <5>1, <5>2 DEF Same
        <5> QED
          BY <5>3
      <4> QED
        BY <4>1, <4>2
    <3>7. ASSUME NEW k \in table.meta, k < at + 1
          PROVE  \E j \in copied'.meta : Same(copied', j, table, k)
      <4>1. CASE k = at
        BY <2>4, <3>5, <4>1
      <4>2. CASE k # at
        <5>1. k < at
          BY <1>1, <3>3, <3>7, <4>2
        <5>2. PICK j \in copied.meta : Same(copied, j, table, k)
          BY <1>1, <3>1, <5>1 DEF Story, CopyInv
        <5> QED
          BY <2>4, <3>4, <5>2 DEF Same
      <4> QED
        BY <4>1, <4>2
    <3>8. CopyInv'
      BY <1>1, <3>6, <3>7 DEF CopyInv, Same
    <3> QED
      BY <3>2, <3>8 DEF Story
  <2> QED
    BY <2>5, <2>6, <2>7, <2>9, <2>10
<1> QED
  BY <1>3, <1>4

LEMMA CopiedInd == IndInv /\ Copied => IndInv'
<1> SUFFICES ASSUME IndInv, Copied PROVE IndInv'
  OBVIOUS
<1> USE DEF IndInv
<1>1. /\ pc = "copy" /\ at = table.capacity /\ at' = 0 /\ pc' = "put" /\ table' = copied
      /\ UNCHANGED <<now, nodes, next, conn, lastUse, free, last, asked, data, copied, given, used, apart>>
  BY DEF Copied, nodeVars, observers
<1>2. table.capacity \in Nat /\ copied.count \in Nat /\ last \in Nat
  BY TableFinite DEF TypeOK, PlainOK, IsTable
<1>3. TypeOK'
  BY <1>1 DEF TypeOK, PlainOK, Nodes
<1>4. RoomInv'
  BY <1>1, <1>2 DEF RoomInv, Grown
<1>5. KeysInv' /\ HomesUntilWrap'
  BY <1>1 DEF KeysInv, HomesUntilWrap
<1>6. ASSUME apart PROVE Story'
  <2>1. Story
    BY <1>6
  <2>2. \A j \in table.meta : j < at
    BY <1>1, <1>2 DEF TypeOK, PlainOK, IsTable, Slots
  <2>3. \A i \in copied.meta : \E j \in table.meta : Same(copied, i, table, j)
    BY <1>1, <2>1 DEF Story, CopyInv
  <2>4. \A j \in table.meta : \E i \in copied.meta : Same(copied, i, table, j)
    BY <1>1, <2>1, <2>2 DEF Story, CopyInv
  <2>5. AtHome(table)' /\ AtHome(copied)' /\ FreeInv' /\ CopyInv'
    BY <1>1, <2>1 DEF Story, AtHome, Home, FreeInv, CopyInv, IsFreed, Nodes
  <2>6. EntryInv'
    <3>1. ASSUME NEW i \in copied.meta, NEW j \in copied.meta, copied.values[i] = copied.values[j] PROVE i = j
      <4>1. PICK k \in table.meta : Same(copied, i, table, k)
        BY <2>3
      <4>2. PICK m \in table.meta : Same(copied, j, table, m)
        BY <2>3
      <4>3. k = m
        BY <2>1, <3>1, <4>1, <4>2 DEF Same, Story, EntryInv
      <4> QED
        BY <2>1, <4>1, <4>2, <4>3, HomesDistinct DEF Same, Story
    <3>2. \A i \in copied.meta : ~IsFreed(copied.values[i]) /\ copied.values[i] # data
      BY <1>1, <2>1, <2>3 DEF Same, Story, EntryInv
    <3>3. conn[data] = asked /\ lastUse[data] = now
      BY <1>1, <2>1 DEF Story, EntryInv
    <3> QED
      BY <1>1, <3>1, <3>2, <3>3 DEF EntryInv, IsFreed
  <2>7. GivenInv'
    <3>1. \A id \in DOMAIN given : \E i \in copied.meta : copied.keys[i] = id
      BY <2>1, <2>4 DEF Story, GivenInv, Same
    <3>2. \A i \in copied.meta :
            /\ copied.keys[i] \in DOMAIN given
            /\ given[copied.keys[i]] = conn[copied.values[i]]
            /\ used[copied.keys[i]] = lastUse[copied.values[i]]
      BY <2>1, <2>3 DEF Story, GivenInv, Same
    <3> QED
      BY <1>1, <2>1, <3>1, <3>2 DEF Story, GivenInv
  <2> QED
    BY <2>5, <2>6, <2>7 DEF Story
<1> QED
  BY <1>1, <1>3, <1>4, <1>5, <1>6

LEMMA PutInd == IndInv /\ Put => IndInv'
<1> SUFFICES ASSUME IndInv, Put PROVE IndInv'
  OBVIOUS
<1> USE DEF IndInv
<1>1. /\ pc = "put" /\ pc' = "idle" /\ copied' = table'
      /\ given' = [k \in DOMAIN given \cup {last} |-> IF k = last THEN asked ELSE given[k]]
      /\ used' = [k \in DOMAIN used \cup {last} |-> IF k = last THEN now ELSE used[k]]
      /\ UNCHANGED <<now, nodes, next, conn, lastUse, free, last, at, asked>>
  BY DEF Put, nodeVars
<1>2. PICK i \in Slots(table) :
        /\ Meets(table, last, Places(table, last), i)
        /\ table' = PutAt(table, last, data, i)
        /\ apart' = (apart /\ i = Home(table, last))
  BY DEF Put
<1>3. last \in Nat \ {0} /\ data \in Nat /\ data \in Nodes
  BY <1>1 DEF TypeOK, PlainOK, KeysInv, Nodes
<1>4. IsTable(table') /\ table'.capacity = table.capacity
  BY <1>2, <1>3, PutIsTable DEF TypeOK, PlainOK
<1>5. /\ table'.meta = table.meta \cup {i}
      /\ table'.keys[i] = last /\ table'.values[i] = data
      /\ \A j \in table.meta : j # i => Same(table', j, table, j)
      /\ AtHome(table) /\ i = Home(table, last) => AtHome(table')
  BY <1>2, <1>3, PutEntries DEF TypeOK, PlainOK
<1>6. \A j \in table.meta : table.keys[j] \in 1..last /\ table.keys[j] # last
  BY <1>1, <1>3 DEF KeysInv
<1>7. i \notin table.meta
  BY <1>2, <1>6, PlaceFreeOrOwn
<1>8. \A j \in table'.meta : j = i \/ (j \in table.meta /\ j # i /\ Same(table', j, table, j))
  BY <1>5, <1>7
<1>9. TypeOK'
  <2>1. \A j \in table'.meta : table'.values[j] \in Nodes
    BY <1>3, <1>5, <1>8 DEF TypeOK, PlainOK, Same
  <2>2. apart' \in BOOLEAN
    BY <1>2 DEF TypeOK, PlainOK
  <2> QED
    BY <1>1, <1>4, <2>1, <2>2 DEF TypeOK, PlainOK, Nodes
<1>10. RoomInv'
  BY <1>1, <1>4 DEF RoomInv
<1>11. KeysInv'
  <2>1. \A j \in table'.meta : table'.keys[j] \in 1..last
    BY <1>3, <1>5, <1>6, <1>8 DEF Same
  <2> QED
    BY <1>1, <2>1 DEF KeysInv
<1>12. HomesUntilWrap'
  <2>1. SUFFICES ASSUME last <= FirstCapacity PROVE apart'
    BY <1>1 DEF HomesUntilWrap
  <2>2. apart
    BY <2>1 DEF HomesUntilWrap
  <2>3. Home(table, last) \notin table.meta
    <3>1. SUFFICES ASSUME Home(table, last) \in table.meta PROVE FALSE
      OBVIOUS
    <3> DEFINE m == table.keys[Home(table, last)]
    <3>2. m \in 1..last /\ m # last /\ Home(table, m) = Home(table, last)
      BY <1>6, <2>2, <3>1 DEF Story, AtHome
    <3>3. last <= table.capacity
      BY <1>3, <2>1 DEF RoomInv, TypeOK, PlainOK, IsTable
    <3> HIDE DEF m
    <3>4. m \in Nat \ {0} /\ m < last
      BY <1>3, <3>2
    <3> QED
      BY <1>3, <3>2, <3>3, <3>4, FirstHomesDistinct DEF TypeOK, PlainOK
  <2> QED
    BY <1>2, <1>3, <2>2, <2>3, FreeHomeMet DEF TypeOK, PlainOK
<1>13. ASSUME apart' PROVE Story'
  <2>1. Story /\ AtHome(table')
    BY <1>2, <1>5, <1>13 DEF Story
  <2>2. FreeInv' /\ CopyInv'
    BY <1>1, <2>1 DEF Story, FreeInv, CopyInv, IsFreed, Nodes
  <2>3. /\ conn[data] = asked /\ lastUse[data] = now /\ asked # Freed
        /\ \A j \in table.meta : table.values[j] # data
    BY <1>1, <2>1 DEF Story, EntryInv, TypeOK, PlainOK
  <2>4. EntryInv'
    <3>1. \A j \in table'.meta : conn[table'.values[j]] # Freed
      BY <1>5, <1>8, <2>1, <2>3 DEF Story, EntryInv, IsFreed, Same
    <3>2. \A j, k \in table'.meta : table'.values[j] = table'.values[k] => j = k
      BY <1>5, <1>8, <2>1, <2>3 DEF Story, EntryInv, Same
    <3> QED
      BY <1>1, <3>1, <3>2 DEF EntryInv, IsFreed
  <2>5. GivenInv'
    <3>1. /\ DOMAIN given' = DOMAIN given \cup {last} /\ DOMAIN used' = DOMAIN used \cup {last}
          /\ given'[last] = asked /\ used'[last] = now
          /\ \A k \in DOMAIN given : k # last => given'[k] = given[k]
          /\ \A k \in DOMAIN used : k # last => used'[k] = used[k]
      BY <1>1
    <3>2. \A k \in DOMAIN given' : \E j \in table'.meta : table'.keys[j] = k
      <4>1. \A k \in DOMAIN given : \E j \in table.meta : table.keys[j] = k
        BY <2>1 DEF Story, GivenInv
      <4>2. \A j \in table.meta : j \in table'.meta /\ table'.keys[j] = table.keys[j]
        BY <1>5, <1>7 DEF Same
      <4> QED
        BY <1>5, <3>1, <4>1, <4>2
    <3>3. ASSUME NEW j \in table'.meta
          PROVE  /\ table'.keys[j] \in DOMAIN given'
                 /\ given'[table'.keys[j]] = conn[table'.values[j]]
                 /\ used'[table'.keys[j]] = lastUse[table'.values[j]]
      <4>1. CASE j = i
        BY <1>5, <2>3, <3>1, <4>1
      <4>2. CASE j # i
        <5>1. j \in table.meta /\ Same(table', j, table, j) /\ table.keys[j] # last
          BY <1>6, <1>8, <4>2
        <5>2. /\ table.keys[j] \in DOMAIN given /\ table.keys[j] \in DOMAIN used
              /\ given[table.keys[j]] = conn[table.values[j]]
              /\ used[table.keys[j]] = lastUse[table.values[j]]
          BY <2>1, <5>1 DEF Story, GivenInv
        <5> QED
          BY <3>1, <5>1, <5>2 DEF Same
      <4> QED
        BY <4>1, <4>2
    <3> QED
      BY <1>1, <2>1, <3>1, <3>2, <3>3 DEF Story, GivenInv
  <2> QED
    BY <1>1, <2>1, <2>2, <2>4, <2>5 DEF Story
<1> QED
  BY <1>9, <1>10, <1>11, <1>12, <1>13

-----------------------------------------------------------------------------
(* Theorems *)

LEMMA StutterInd == IndInv /\ UNCHANGED vars => IndInv'
<1> SUFFICES ASSUME IndInv, UNCHANGED vars PROVE IndInv'
  OBVIOUS
<1> USE DEF vars, nodeVars, request, observers, IndInv
<1>1. TypeOK'
  BY DEF TypeOK, PlainOK, Nodes
<1>2. RoomInv' /\ KeysInv' /\ HomesUntilWrap'
  BY DEF RoomInv, KeysInv, HomesUntilWrap
<1>3. apart' => Story'
  BY DEF Story, FreeInv, EntryInv, GivenInv, CopyInv, Nodes, IsFreed, Same, AtHome, Home
<1> QED
  BY <1>1, <1>2, <1>3

LEMMA SpecInd == Spec => []IndInv
<1>1. IndInv /\ [Next]_vars => IndInv'
  BY TickInd, UseInd, ConnectInd, DropInd, KeepInd, AllocateInd, RecycleInd, CopyInd, CopiedInd,
     PutInd, StutterInd DEF Next
<1> QED
  BY <1>1, InitInd, PTL DEF Spec

(* put finds a free slot for every connection, whatever was removed from   *)
(* the table before: the load it computes is that of the occupied slots    *)
(* (put, ok.hpp:1495).                                                     *)
THEOREM SpecPutFindsRoom == Spec => []PutFindsRoom
<1>1. IndInv => PutFindsRoom
  <2> SUFFICES ASSUME IndInv PROVE PutFindsRoom
    OBVIOUS
  <2>1. table.count = Cardinality(table.meta) /\ copied.count = Cardinality(copied.meta)
    BY DEF IndInv, TypeOK, PlainOK, IsTable
  <2>2. pc = "put" => table.count < table.capacity
    BY DEF IndInv, RoomInv
  <2>3. pc = "copy" /\ at < table.capacity => copied.count < copied.capacity
    <3>1. table.capacity \in Nat /\ copied.count \in Nat /\ at \in Nat
      BY TableFinite DEF IndInv, TypeOK, PlainOK, IsTable
    <3> QED
      BY <3>1 DEF IndInv, RoomInv, Grown
  <2> QED
    BY <2>1, <2>2, <2>3 DEF PutFindsRoom
<1> QED
  BY <1>1, SpecInd, PTL

(* The first identifiers, as many as the first table has slots, lie at     *)
(* their homes, in that table and in its larger copies (put, ok.hpp:1495). *)
THEOREM SpecHomesUntilWrap == Spec => []HomesUntilWrap
<1>1. IndInv => HomesUntilWrap
  BY DEF IndInv
<1> QED
  BY <1>1, SpecInd, PTL

(* As long as keys lie at their homes, an identifier leads to the session  *)
(* it was given for until it is dropped (gen_connection, get_connection_   *)
(* data, connection.cpp).                                                  *)
THEOREM SpecIdsLeadToTheirSessions == Spec => []IdsLeadToTheirSessions
<1>1. IndInv => IdsLeadToTheirSessions
  <2> SUFFICES ASSUME IndInv, apart, pc = "idle", NEW id \in Ids
               PROVE  Answers(id) = IF id \in DOMAIN given THEN {given[id]} ELSE {}
    BY DEF IdsLeadToTheirSessions
  <2>1. GivenInv /\ AtHome(table)
    BY DEF IndInv, Story
  <2>2. CASE id \in DOMAIN given
    <3>1. PICK i \in table.meta : table.keys[i] = id
      BY <2>1, <2>2 DEF GivenInv
    <3>2. Holders(table, id) = {i}
      BY <2>1, <3>1, HomesDistinct DEF Holders
    <3>3. conn[table.values[i]] = given[id]
      BY <2>1, <3>1 DEF GivenInv
    <3> QED
      BY <2>2, <3>2, <3>3 DEF Answers
  <2>3. CASE id \notin DOMAIN given
    <3>1. Holders(table, id) = {}
      BY <2>1, <2>3 DEF GivenInv, Holders
    <3> QED
      BY <2>3, <3>1 DEF Answers
  <2> QED
    BY <2>2, <2>3
<1> QED
  BY <1>1, SpecInd, PTL

(* As long as keys lie at their homes, only a connection that was not used *)
(* for Timeout is dropped (gen_connection, connection.cpp:44).             *)
THEOREM SpecOnlyIdleDropped == Spec => OnlyIdleDropped
<1> DEFINE Dropping == apart => \A id \in DOMAIN given : id \notin DOMAIN given' => now - used[id] >= Timeout
<1>1. IndInv /\ [Next]_vars => Dropping
  <2> SUFFICES ASSUME IndInv, [Next]_vars, apart, NEW id \in DOMAIN given, id \notin DOMAIN given'
               PROVE  now - used[id] >= Timeout
    OBVIOUS
  <2>1. CASE Drop
    <3>1. /\ at \in table.meta /\ now - lastUse[table.values[at]] >= Timeout
          /\ DOMAIN given' = DOMAIN given \ {table.keys[at]}
      BY <2>1 DEF Drop, Drops, Idle
    <3>2. id = table.keys[at]
      BY <3>1
    <3>3. used[id] = lastUse[table.values[at]]
      BY <3>1, <3>2 DEF IndInv, Story, GivenInv
    <3> QED
      BY <3>1, <3>3
  <2>2. CASE Put
    <3>1. DOMAIN given' = DOMAIN given \cup {last}
      BY <2>2 DEF Put
    <3> QED
      BY <3>1
  <2>3. CASE ~Drop /\ ~Put
    <3>1. given' = given
      BY <2>3 DEF Next, Tick, Use, Connect, Keep, Allocate, Recycle, Ready, Copy, Copied, vars, observers
    <3> QED
      BY <3>1
  <2> QED
    BY <2>1, <2>2, <2>3
<1> QED
  BY <1>1, SpecInd, PTL DEF Spec, OnlyIdleDropped
=============================================================================
