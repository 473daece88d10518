--------------------------- MODULE CatalogProofs ---------------------------
(***************************************************************************)
(* Theorems of Catalog.  The first part is about the file: what a save     *)
(* wrote to its end is what a load reads, whatever was in the file before, *)
(* for the entries of a list do not overlap.                               *)
(*                                                                         *)
(* The inductive invariant is the type invariant with what the file holds, *)
(* the uniqueness of names, and what is left of it when a save was stopped *)
(* with parts of two lists in the file: every session holds the first      *)
(* database of its name, which is the one that the compiler finds.         *)
(***************************************************************************)
EXTENDS Catalog, NatSets, SequenceTheorems

(* A failed assertion is the last step of a process. *)
CulpritDown == culprit # {} => status = "trapped"

(* Only a closed session has no descriptor. *)
ClosedHasNone == \A s \in Sessions : sessions[s].db = 0 => sessions[s] = NoSession

(* The list beside the file is the one in it. *)
FileHolds == catalog = Contents(file) /\ (torn \/ Readable(file))

(* No database before it in the list has the name of the one at i. *)
IsFirst(list, i) == \A j \in 1 .. i - 1 : list[j].name # list[i].name

(* What a session holds, if the list still has it, is the first of its name. *)
HoldsFirst ==
  \A s \in Sessions : \A i \in DOMAIN dbs : dbs[i] = sessions[s].db => IsFirst(Listed, i)

IndInv ==
  /\ TypeOK
  /\ FileHolds
  /\ NamesUnique
  /\ ClosedHasNone
  /\ HoldsFirst
  /\ CulpritDown
  /\ TrapOnlyAfterDrop

(* The part of UniqueNames that is about one database. *)
UniqueWithin(d) == HasNoDuplicates(d.users) /\ IsInjective(d.tables)
-----------------------------------------------------------------------------
(* Positions one after the other. *)

IsChain(at, first, n, step) == at[0] = first /\ \A i \in 1 .. n : at[i] = step[i][at[i - 1]]

LEMMA ChainUnique ==
  ASSUME NEW first, NEW n \in Nat, NEW step, NEW f, NEW g,
         IsChain(f, first, n, step), IsChain(g, first, n, step)
  PROVE  \A i \in 0 .. n : f[i] = g[i]
<1> DEFINE D == {i \in 0 .. n : f[i] # g[i]}
<1>1. SUFFICES ASSUME D # {} PROVE FALSE
  OBVIOUS
<1>2. D \in SUBSET Nat
  OBVIOUS
<1>3. PICK m \in D : \A k \in D : m <= k
  BY <1>1, <1>2, LeastElement
<1>4. m \in 1 .. n /\ m - 1 \in 0 .. n /\ m - 1 < m
  <2>1. m \in 0 .. n /\ m # 0
    BY DEF IsChain
  <2>2. QED
    BY <2>1
<1>5. f[m - 1] = g[m - 1]
  <2>1. m - 1 \notin D
    BY <1>2, <1>3, <1>4
  <2>2. QED
    BY <1>4, <2>1
<1>6. f[m] = g[m]
  BY <1>4, <1>5 DEF IsChain
<1>7. QED
  BY <1>6

LEMMA ChainExists ==
  ASSUME NEW first \in Nat, NEW n \in Nat, NEW step \in [1 .. n -> [Nat -> Nat]]
  PROVE  \E g \in [0 .. n -> Nat] : /\ g[0] = first
                                    /\ \A i \in 1 .. n : g[i] = step[i][g[i - 1]]
<1> DEFINE Is(g, k) == g[0] = first /\ \A i \in 1 .. k : g[i] = step[i][g[i - 1]]
           There(k) == \E g \in [0 .. k -> Nat] : Is(g, k)
           D == {k \in 0 .. n : ~There(k)}
<1>1. There(n) => \E g \in [0 .. n -> Nat] : /\ g[0] = first
                                             /\ \A i \in 1 .. n : g[i] = step[i][g[i - 1]]
  OBVIOUS
<1>2. SUFFICES ASSUME D # {} PROVE FALSE
  <2> HIDE DEF There
  <2>1. n \notin D => There(n)
    OBVIOUS
  <2>2. QED
    BY <1>1, <2>1
<1>3. D \in SUBSET Nat
  <2> HIDE DEF There
  <2> QED
    OBVIOUS
<1>4. PICK m \in D : \A k \in D : m <= k
  BY <1>2, <1>3, LeastElement
<1>5. m # 0
  <2> DEFINE g == [k \in 0 .. 0 |-> first]
  <2>1. g \in [0 .. 0 -> Nat] /\ Is(g, 0)
    OBVIOUS
  <2>2. 0 \notin D
    BY <2>1
  <2>3. QED
    BY <2>2
<1>6. m \in 1 .. n /\ m - 1 \in 0 .. n /\ m - 1 < m
  <2>1. m \in 0 .. n
    OBVIOUS
  <2>2. QED
    BY <1>5, <2>1
<1>7. There(m - 1)
  <2> HIDE DEF There
  <2>1. m - 1 \notin D
    BY <1>3, <1>4, <1>6
  <2>2. QED
    BY <1>6, <2>1
<1>8. PICK g \in [0 .. m - 1 -> Nat] : Is(g, m - 1)
  BY <1>7
<1> DEFINE h == [k \in 0 .. m |-> IF k = m THEN step[m][g[m - 1]] ELSE g[k]]
<1>9. h \in [0 .. m -> Nat]
  <2>1. step[m][g[m - 1]] \in Nat
    <3>1. g[m - 1] \in Nat
      BY <1>6
    <3>2. step[m] \in [Nat -> Nat]
      BY <1>6
    <3>3. QED
      BY <3>1, <3>2
  <2>2. \A k \in 0 .. m : k # m => k \in 0 .. m - 1
    BY <1>6
  <2>3. QED
    BY <2>1, <2>2
<1>10. Is(h, m)
  <2>1. h[0] = first
    BY <1>6, <1>8
  <2>2. ASSUME NEW i \in 1 .. m
        PROVE  h[i] = step[i][h[i - 1]]
    <3>1. i - 1 \in 0 .. m /\ i - 1 # m /\ h[i - 1] = g[i - 1]
      BY <1>6
    <3>2. CASE i = m
      BY <1>6, <3>1, <3>2
    <3>3. CASE i # m
      <4>1. i \in 1 .. m - 1 /\ i \in 0 .. m
        BY <1>6, <3>3
      <4>2. h[i] = g[i]
        BY <3>3, <4>1
      <4>3. QED
        BY <1>8, <3>1, <4>1, <4>2
    <3>4. QED
      BY <3>2, <3>3
  <2>3. QED
    BY <2>1, <2>2
<1>11. m \notin D
  BY <1>9, <1>10
<1>12. QED
  BY <1>11

LEMMA ChainIs ==
  ASSUME NEW first \in Nat, NEW n \in Nat, NEW step \in [1 .. n -> [Nat -> Nat]]
  PROVE  /\ Chain(first, n, step) \in [0 .. n -> Nat]
         /\ IsChain(Chain(first, n, step), first, n, step)
<1> DEFINE Rec(g) == [i \in 0 .. n |-> IF i = 0 THEN first ELSE step[i][g[i - 1]]]
           at == CHOOSE g : g = Rec(g)
<1>1. Chain(first, n, step) = at
  BY DEF Chain
<1>2. PICK g \in [0 .. n -> Nat] : /\ g[0] = first
                                   /\ \A i \in 1 .. n : g[i] = step[i][g[i - 1]]
  BY ChainExists
<1>3. g = Rec(g)
  <2>1. \A i \in 0 .. n : i # 0 => i \in 1 .. n
    OBVIOUS
  <2>2. QED
    BY <1>2, <2>1
<1>4. at = Rec(at)
  BY <1>3
<1> HIDE DEF at
<1>5. at[0] = first /\ \A i \in 1 .. n : at[i] = step[i][at[i - 1]]
  <2>1. \A i \in 0 .. n : at[i] = IF i = 0 THEN first ELSE step[i][at[i - 1]]
    BY <1>4, Zenon
  <2>2. at[0] = first
    BY <2>1
  <2>3. ASSUME NEW i \in 1 .. n
        PROVE  at[i] = step[i][at[i - 1]]
    <3>1. i \in 0 .. n /\ i # 0
      OBVIOUS
    <3>2. QED
      BY <2>1, <3>1
  <2>4. QED
    BY <2>2, <2>3
<1>6. \A i \in 0 .. n : at[i] = g[i]
  <2>1. IsChain(at, first, n, step) /\ IsChain(g, first, n, step)
    BY <1>2, <1>5 DEF IsChain
  <2>2. QED
    BY <2>1, ChainUnique
<1>7. at \in [0 .. n -> Nat]
  <2>1. DOMAIN at = 0 .. n /\ at = [i \in 0 .. n |-> at[i]]
    BY <1>4
  <2>2. QED
    BY <1>2, <1>6, <2>1
<1>8. QED
  BY <1>1, <1>5, <1>7 DEF IsChain
-----------------------------------------------------------------------------
(* The places of a list. *)

LEMMA EndIs ==
  ASSUME NEW d \in Database, NEW o \in Nat
  PROVE  /\ EntryOf(d) \in Entry
         /\ Len(d.users) \in Nat
         /\ Len(d.tables) \in Nat
         /\ EndOf(o, EntryOf(d)) \in Nat
         /\ EndOf(o, EntryOf(d)) = o + 80 + 97 * Len(d.users) + 139 * Len(d.tables)
         /\ EndOf(o, EntryOf(d)) >= o + 80
<1> DEFINE u == Len(d.users)
           t == Len(d.tables)
<1>1. u \in Nat /\ t \in Nat /\ d.name \in DbNames
  BY DEF Database
<1>2. EntryOf(d).users = u /\ EntryOf(d).tables = t /\ EntryOf(d) \in Entry
  BY <1>1 DEF EntryOf, Entry
<1>3. EndOf(o, EntryOf(d)) = o + 80 + 97 * u + 139 * (t + 1 - 1)
  BY <1>2 DEF EndOf, TablePlace, DbSize, UserSize, TableSize, TableEntry
<1> HIDE DEF u, t
<1>4. o + 80 + 97 * u + 139 * (t + 1 - 1) = o + 80 + 97 * u + 139 * t
  BY <1>1
<1>5. /\ o + 80 + 97 * u + 139 * t \in Nat
      /\ o + 80 + 97 * u + 139 * t >= o + 80
  BY <1>1
<1>6. QED
  BY <1>1, <1>2, <1>3, <1>4, <1>5 DEF u, t

LEMMA PlacesAre ==
  ASSUME NEW l \in Seq(Database)
  PROVE  /\ Places(l) \in [0 .. Len(l) -> Nat]
         /\ Places(l)[0] = 24
         /\ \A i \in 1 .. Len(l) :
              Places(l)[i] = EndOf(Places(l)[i - 1], EntryOf(l[i]))
<1> DEFINE n == Len(l)
           step == [i \in DOMAIN l |-> [o \in Nat |-> EndOf(o, EntryOf(l[i]))]]
<1>1. n \in Nat /\ DOMAIN l = 1 .. n /\ \A i \in 1 .. n : l[i] \in Database
  OBVIOUS
<1>2. step \in [1 .. n -> [Nat -> Nat]]
  BY <1>1, EndIs
<1>3. Places(l) = Chain(24, n, step)
  BY DEF Places, HeaderSize
<1> HIDE DEF step, n
<1>4. Places(l) \in [0 .. n -> Nat] /\ IsChain(Places(l), 24, n, step)
  <2>1. 24 \in Nat /\ n \in Nat
    BY <1>1
  <2>2. Chain(24, n, step) \in [0 .. n -> Nat] /\ IsChain(Chain(24, n, step), 24, n, step)
    BY <1>2, <2>1, ChainIs
  <2>3. QED
    BY <1>3, <2>2, Zenon
<1>5. ASSUME NEW i \in 1 .. n
      PROVE  Places(l)[i] = EndOf(Places(l)[i - 1], EntryOf(l[i]))
  <2>1. i - 1 \in 0 .. n /\ Places(l)[i - 1] \in Nat
    BY <1>1, <1>4
  <2>2. Places(l)[i] = step[i][Places(l)[i - 1]]
    BY <1>4 DEF IsChain
  <2>3. QED
    BY <1>1, <2>1, <2>2 DEF step
<1>6. QED
  BY <1>4, <1>5 DEF IsChain, n

LEMMA NextPlace ==
  ASSUME NEW l \in Seq(Database), NEW i \in 1 .. Len(l)
  PROVE  /\ l[i] \in Database
         /\ Places(l)[i - 1] \in Nat
         /\ Places(l)[i] \in Nat
         /\ Len(l[i].users) \in Nat
         /\ Len(l[i].tables) \in Nat
         /\ Places(l)[i] = Places(l)[i - 1] + 80 + 97 * Len(l[i].users) + 139 * Len(l[i].tables)
         /\ Places(l)[i] >= Places(l)[i - 1] + 80
<1>1. l[i] \in Database /\ i - 1 \in 0 .. Len(l) /\ i \in 0 .. Len(l)
  OBVIOUS
<1>2. Places(l)[i - 1] \in Nat /\ Places(l)[i] \in Nat
  BY <1>1, PlacesAre
<1> DEFINE d == l[i]
           o == Places(l)[i - 1]
<1>3. Places(l)[i] = EndOf(o, EntryOf(d))
  BY PlacesAre
<1>4. d \in Database /\ o \in Nat
  BY <1>1, <1>2
<1> HIDE DEF d, o
<1>5. /\ Len(d.users) \in Nat
      /\ Len(d.tables) \in Nat
      /\ EndOf(o, EntryOf(d)) = o + 80 + 97 * Len(d.users) + 139 * Len(d.tables)
      /\ EndOf(o, EntryOf(d)) >= o + 80
  BY <1>4, EndIs
<1>6. QED
  BY <1>2, <1>3, <1>5 DEF d, o

LEMMA PlacesGrow ==
  ASSUME NEW l \in Seq(Database), NEW k \in 0 .. Len(l), NEW i \in k .. Len(l)
  PROVE  Places(l)[k] <= Places(l)[i]
<1> DEFINE P == Places(l)
           n == Len(l)
           D == {x \in k .. n : P[k] > P[x]}
<1>1. SUFFICES ASSUME D # {} PROVE FALSE
  <2>1. P \in [0 .. n -> Nat]
    BY PlacesAre
  <2>2. n \in Nat /\ i \in 0 .. n
    OBVIOUS
  <2>3. P[i] \in Nat /\ P[k] \in Nat
    BY <2>1, <2>2
  <2>4. QED
    BY <2>3
<1>2. n \in Nat /\ D \in SUBSET Nat
  OBVIOUS
<1>3. PICK m \in D : \A x \in D : m <= x
  BY <1>1, <1>2, LeastElement
<1>4. m \in k .. n /\ m # k /\ P[k] > P[m]
  <2>1. P[k] \in Nat
    BY PlacesAre
  <2>2. QED
    BY <1>3, <2>1
<1>5. m \in 1 .. n /\ m - 1 \in k .. n /\ m - 1 \in 0 .. n /\ m - 1 < m
  BY <1>2, <1>4
<1>6. ~(P[k] > P[m - 1])
  <2>1. m - 1 \notin D
    BY <1>2, <1>3, <1>5
  <2>2. QED
    BY <1>5, <2>1
<1>7. P[m - 1] \in Nat /\ P[k] \in Nat /\ P[m] \in Nat /\ P[m] >= P[m - 1] + 80
  <2>1. P \in [0 .. n -> Nat]
    BY PlacesAre
  <2> HIDE DEF P
  <2>2. P[k] \in Nat
    BY <2>1
  <2>3. QED
    BY <1>5, <2>2, NextPlace DEF P
<1>8. QED
  <2> HIDE DEF P
  <2>1. QED
    BY <1>4, <1>6, <1>7

(* Entries do not overlap, and the last one ends at SizeOf(l).             *)
LEMMA Apart ==
  ASSUME NEW l \in Seq(Database), NEW k \in 1 .. Len(l)
  PROVE  /\ Places(l)[k] <= SizeOf(l)
         /\ \A i \in 1 .. Len(l) : k < i => Places(l)[k] <= Places(l)[i - 1]
<1>1. Len(l) \in Nat /\ k \in 0 .. Len(l) /\ Len(l) \in k .. Len(l)
  OBVIOUS
<1>2. ASSUME NEW i \in 1 .. Len(l), k < i
      PROVE  Places(l)[k] <= Places(l)[i - 1]
  <2>1. i - 1 \in k .. Len(l)
    BY <1>1, <1>2
  <2>2. QED
    BY <1>1, <2>1, PlacesGrow
<1>3. QED
  BY <1>1, <1>2, PlacesGrow DEF SizeOf

(* The users and the tables of an entry are one after the other in it.     *)
LEMMA UserPlaceIn ==
  ASSUME NEW l \in Seq(Database), NEW i \in 1 .. Len(l), NEW j \in 1 .. Len(l[i].users)
  PROVE  /\ UserPlace(Places(l)[i - 1], j) = Places(l)[i - 1] + 80 + 97 * (j - 1)
         /\ UserPlace(Places(l)[i - 1], j) \in Nat
         /\ UserPlace(Places(l)[i - 1], j) + 97 <= Places(l)[i]
         /\ UserPlace(Places(l)[i - 1], j) >= Places(l)[i - 1] + 80
<1> DEFINE o == Places(l)[i - 1]
           e == Places(l)[i]
           u == Len(l[i].users)
           t == Len(l[i].tables)
<1>1. o \in Nat /\ e \in Nat /\ u \in Nat /\ t \in Nat /\ e = o + 80 + 97 * u + 139 * t
  BY NextPlace
<1>2. UserPlace(o, j) = o + 80 + 97 * (j - 1)
  BY DEF UserPlace, DbSize, UserSize
<1>3. j \in 1 .. u
  OBVIOUS
<1> HIDE DEF o, e, u, t
<1>4. /\ o + 80 + 97 * (j - 1) \in Nat
      /\ o + 80 + 97 * (j - 1) + 97 <= e
      /\ o + 80 + 97 * (j - 1) >= o + 80
  BY <1>1, <1>3
<1>5. QED
  BY <1>2, <1>4 DEF o, e, u, t

LEMMA TablePlaceIn ==
  ASSUME NEW l \in Seq(Database), NEW i \in 1 .. Len(l), NEW j \in 1 .. Len(l[i].tables)
  PROVE  LET o == TablePlace(Places(l)[i - 1], Len(l[i].users), j) IN
         /\ o = Places(l)[i - 1] + 80 + 97 * Len(l[i].users) + 139 * (j - 1)
         /\ o \in Nat
         /\ o + 139 <= Places(l)[i]
         /\ o >= Places(l)[i - 1] + 80
<1> DEFINE o == Places(l)[i - 1]
           e == Places(l)[i]
           u == Len(l[i].users)
           t == Len(l[i].tables)
<1>1. o \in Nat /\ e \in Nat /\ u \in Nat /\ t \in Nat /\ e = o + 80 + 97 * u + 139 * t
  BY NextPlace
<1>2. TablePlace(o, u, j) = o + 80 + 97 * u + 139 * (j - 1)
  BY DEF TablePlace, DbSize, UserSize, TableSize, TableEntry
<1>3. j \in 1 .. t
  OBVIOUS
<1> HIDE DEF o, e, u, t
<1>4. /\ o + 80 + 97 * u + 139 * (j - 1) \in Nat
      /\ o + 80 + 97 * u + 139 * (j - 1) + 139 <= e
      /\ o + 80 + 97 * u + 139 * (j - 1) >= o + 80
  BY <1>1, <1>3
<1>5. QED
  BY <1>2, <1>4 DEF o, e, u, t

(* Positions in two parts of the same entry are not those of two entries.  *)
LEMMA SameEntry ==
  ASSUME NEW l \in Seq(Database), NEW i \in 1 .. Len(l), NEW k \in 1 .. Len(l), NEW x \in Nat,
         Places(l)[i - 1] <= x, x < Places(l)[i],
         Places(l)[k - 1] <= x, x < Places(l)[k]
  PROVE  k = i
<1>1. /\ Places(l)[i - 1] \in Nat /\ Places(l)[i] \in Nat
      /\ Places(l)[k - 1] \in Nat /\ Places(l)[k] \in Nat
  BY NextPlace
<1>2. k < i => Places(l)[k] <= Places(l)[i - 1]
  BY Apart
<1>3. i < k => Places(l)[i] <= Places(l)[k - 1]
  BY Apart
<1>4. ~(k < i) /\ ~(i < k)
  BY <1>1, <1>2, <1>3
<1>5. QED
  BY <1>4

(* What a list has at a place is one entry.                                *)
LEMMA DbOnce ==
  ASSUME NEW l \in Seq(Database), NEW i \in 1 .. Len(l), NEW c \in DbEntries(l),
         c[1] = Places(l)[i - 1]
  PROVE  c[2] = EntryOf(l[i])
<1>1. DOMAIN l = 1 .. Len(l)
  OBVIOUS
<1>2. PICK k \in 1 .. Len(l) : c = <<Places(l)[k - 1], EntryOf(l[k])>>
  BY <1>1 DEF DbEntries
<1>3. k = i
  <2>1. /\ Places(l)[i - 1] \in Nat /\ Places(l)[i] \in Nat
        /\ Places(l)[k - 1] \in Nat /\ Places(l)[k] \in Nat
        /\ Places(l)[i] >= Places(l)[i - 1] + 80
        /\ Places(l)[k] >= Places(l)[k - 1] + 80
    BY NextPlace
  <2>2. Places(l)[k - 1] = Places(l)[i - 1]
    BY <1>2
  <2>3. /\ Places(l)[i - 1] <= Places(l)[k - 1] /\ Places(l)[k - 1] < Places(l)[i]
        /\ Places(l)[k - 1] <= Places(l)[k - 1] /\ Places(l)[k - 1] < Places(l)[k]
    BY <2>1, <2>2
  <2>4. QED
    BY <2>1, <2>3, SameEntry
<1>4. QED
  BY <1>2, <1>3

LEMMA UserOnce ==
  ASSUME NEW l \in Seq(Database), NEW i \in 1 .. Len(l), NEW j \in 1 .. Len(l[i].users),
         NEW c \in UserEntries(l), c[1] = UserPlace(Places(l)[i - 1], j)
  PROVE  c[2] = l[i].users[j]
<1>1. DOMAIN l = 1 .. Len(l) /\ \A k \in 1 .. Len(l) : l[k] \in Database
  OBVIOUS
<1>2. \A k \in 1 .. Len(l) : DOMAIN l[k].users = 1 .. Len(l[k].users)
  BY <1>1 DEF Database
<1>3. PICK k \in 1 .. Len(l) :
        c \in {<<UserPlace(Places(l)[k - 1], m), l[k].users[m]>> : m \in 1 .. Len(l[k].users)}
  BY <1>1, <1>2 DEF UserEntries
<1>4. PICK m \in 1 .. Len(l[k].users) : c = <<UserPlace(Places(l)[k - 1], m), l[k].users[m]>>
  BY <1>3
<1> DEFINE x == UserPlace(Places(l)[i - 1], j)
<1>5. /\ x = Places(l)[i - 1] + 80 + 97 * (j - 1)
      /\ x \in Nat
      /\ x + 97 <= Places(l)[i]
      /\ x >= Places(l)[i - 1] + 80
  BY UserPlaceIn
<1>6. /\ x = Places(l)[k - 1] + 80 + 97 * (m - 1)
      /\ x + 97 <= Places(l)[k]
      /\ x >= Places(l)[k - 1] + 80
  <2>1. x = UserPlace(Places(l)[k - 1], m)
    BY <1>4
  <2>2. QED
    BY <2>1, UserPlaceIn
<1>7. k = i
  <2> DEFINE a == Places(l)[i - 1]
             b == Places(l)[i]
             d == Places(l)[k - 1]
             e == Places(l)[k]
  <2>1. a \in Nat /\ b \in Nat /\ d \in Nat /\ e \in Nat
    BY NextPlace
  <2>2. x \in Nat /\ x + 97 <= b /\ x >= a + 80 /\ x + 97 <= e /\ x >= d + 80
    BY <1>5, <1>6
  <2>3. a <= x /\ x < b /\ d <= x /\ x < e
    <3> HIDE DEF x, a, b, d, e
    <3>1. QED
      BY <2>1, <2>2
  <2>4. QED
    BY <1>5, <2>3, SameEntry
<1>8. m = j
  <2>1. Places(l)[i - 1] \in Nat
    BY NextPlace
  <2> HIDE DEF x
  <2>2. QED
    BY <1>5, <1>6, <1>7, <2>1
<1>9. QED
  BY <1>4, <1>7, <1>8

LEMMA TableOnce ==
  ASSUME NEW l \in Seq(Database), NEW i \in 1 .. Len(l), NEW j \in 1 .. Len(l[i].tables),
         NEW c \in TableEntries(l), c[1] = TablePlace(Places(l)[i - 1], Len(l[i].users), j)
  PROVE  c[2] = l[i].tables[j]
<1>1. DOMAIN l = 1 .. Len(l) /\ \A k \in 1 .. Len(l) : l[k] \in Database
  OBVIOUS
<1>2. \A k \in 1 .. Len(l) : DOMAIN l[k].tables = 1 .. Len(l[k].tables)
  BY <1>1 DEF Database
<1>3. PICK k \in 1 .. Len(l) :
        c \in {<<TablePlace(Places(l)[k - 1], Len(l[k].users), m), l[k].tables[m]>>
               : m \in 1 .. Len(l[k].tables)}
  BY <1>1, <1>2 DEF TableEntries
<1>4. PICK m \in 1 .. Len(l[k].tables) :
        c = <<TablePlace(Places(l)[k - 1], Len(l[k].users), m), l[k].tables[m]>>
  BY <1>3
<1> DEFINE x == TablePlace(Places(l)[i - 1], Len(l[i].users), j)
<1>5. /\ x = Places(l)[i - 1] + 80 + 97 * Len(l[i].users) + 139 * (j - 1)
      /\ x \in Nat
      /\ x + 139 <= Places(l)[i]
      /\ x >= Places(l)[i - 1] + 80
  BY TablePlaceIn
<1>6. /\ x = Places(l)[k - 1] + 80 + 97 * Len(l[k].users) + 139 * (m - 1)
      /\ x + 139 <= Places(l)[k]
      /\ x >= Places(l)[k - 1] + 80
  <2>1. x = TablePlace(Places(l)[k - 1], Len(l[k].users), m)
    BY <1>4
  <2>2. QED
    BY <2>1, TablePlaceIn
<1>7. k = i
  <2> DEFINE a == Places(l)[i - 1]
             b == Places(l)[i]
             d == Places(l)[k - 1]
             e == Places(l)[k]
  <2>1. a \in Nat /\ b \in Nat /\ d \in Nat /\ e \in Nat
    BY NextPlace
  <2>2. x \in Nat /\ x + 139 <= b /\ x >= a + 80 /\ x + 139 <= e /\ x >= d + 80
    BY <1>5, <1>6
  <2>3. a <= x /\ x < b /\ d <= x /\ x < e
    <3> HIDE DEF x, a, b, d, e
    <3>1. QED
      BY <2>1, <2>2
  <2>4. QED
    BY <1>5, <2>3, SameEntry
<1>8. m = j
  <2> DEFINE o == Places(l)[i - 1]
             u == Len(l[i].users)
  <2>1. o \in Nat /\ u \in Nat
    BY NextPlace
  <2>2. x = o + 80 + 97 * u + 139 * (j - 1)
    BY <1>5
  <2>3. x = o + 80 + 97 * u + 139 * (m - 1)
    BY <1>6, <1>7
  <2>4. m \in Int /\ j \in Int
    OBVIOUS
  <2> HIDE DEF x, o, u
  <2>5. QED
    BY <2>1, <2>2, <2>3, <2>4
<1>9. QED
  BY <1>4, <1>7, <1>8
-----------------------------------------------------------------------------
(* What a load reads. *)

LEMMA ReadAtType ==
  ASSUME NEW X, NEW entries \in SUBSET (Nat \X X), NEW o, Found(entries, o) # {}
  PROVE  ReadAt(entries, o) \in X
<1>1. ReadAt(entries, o) \in Found(entries, o)
  BY DEF ReadAt
<1>2. PICK c \in entries : ReadAt(entries, o) = c[2]
  BY <1>1 DEF Found
<1>3. QED
  BY <1>2

LEMMA FileParts ==
  ASSUME NEW f \in File
  PROVE  /\ f.size \in Nat
         /\ f.count \in Nat
         /\ f.dbs \in SUBSET (Nat \X Entry)
         /\ f.users \in SUBSET (Nat \X User)
         /\ f.tables \in SUBSET (Nat \X TableNames)
  BY DEF File

(* The places a load goes to, whatever the file is.                        *)
LEMMA ReadPlacesAre ==
  ASSUME NEW f \in File
  PROVE  /\ ReadPlaces(f) \in [0 .. f.count -> Nat]
         /\ IsChain(ReadPlaces(f), 24, f.count,
                    [i \in 1 .. f.count |->
                      [o \in Nat |-> IF Whole(f, o) THEN EndOf(o, ReadAt(f.dbs, o)) ELSE o]])
<1> DEFINE step == [i \in 1 .. f.count |->
                     [o \in Nat |-> IF Whole(f, o) THEN EndOf(o, ReadAt(f.dbs, o)) ELSE o]]
<1>1. f.count \in Nat
  BY FileParts
<1>2. ASSUME NEW o \in Nat, Whole(f, o)
      PROVE  EndOf(o, ReadAt(f.dbs, o)) \in Nat
  <2> DEFINE e == ReadAt(f.dbs, o)
  <2>1. e \in Entry
    BY <1>2, ReadAtType, FileParts DEF Whole
  <2>2. e.users \in Nat /\ e.tables \in Nat
    BY <2>1 DEF Entry
  <2>3. EndOf(o, e) = o + 80 + 97 * e.users + (74 + 65) * ((e.tables + 1) - 1)
    BY DEF EndOf, TablePlace, DbSize, UserSize, TableSize, TableEntry
  <2> HIDE DEF e
  <2>4. EndOf(o, e) \in Nat
    BY <2>2, <2>3
  <2>5. QED
    BY <2>4 DEF e
<1>3. step \in [1 .. f.count -> [Nat -> Nat]]
  BY <1>2
<1>4. ReadPlaces(f) = Chain(24, f.count, step)
  BY DEF ReadPlaces, HeaderSize
<1> HIDE DEF step
<1>5. /\ Chain(24, f.count, step) \in [0 .. f.count -> Nat]
      /\ IsChain(Chain(24, f.count, step), 24, f.count, step)
  <2>1. 24 \in Nat
    OBVIOUS
  <2>2. QED
    BY <1>1, <1>3, <2>1, ChainIs
<1>6. QED
  BY <1>4, <1>5, Zenon DEF step

LEMMA DatabaseAtType ==
  ASSUME NEW f \in File, NEW o, Whole(f, o)
  PROVE  DatabaseAt(f, o) \in Database
<1> DEFINE e == ReadAt(f.dbs, o)
           users == [j \in 1 .. e.users |-> ReadAt(f.users, UserPlace(o, j))]
           tables == [j \in 1 .. e.tables |-> ReadAt(f.tables, TablePlace(o, e.users, j))]
<1>1. e \in Entry
  BY ReadAtType, FileParts DEF Whole
<1>2. e.name \in DbNames /\ e.users \in Nat /\ e.tables \in Nat
  BY <1>1 DEF Entry
<1>3. users \in Seq(User)
  <2>1. ASSUME NEW j \in 1 .. e.users
        PROVE  ReadAt(f.users, UserPlace(o, j)) \in User
    BY ReadAtType, FileParts DEF Whole
  <2> HIDE DEF e
  <2>2. QED
    BY <1>2, <2>1
<1>4. tables \in Seq(TableNames)
  <2>1. ASSUME NEW j \in 1 .. e.tables
        PROVE  ReadAt(f.tables, TablePlace(o, e.users, j)) \in TableNames
    BY ReadAtType, FileParts DEF Whole
  <2> HIDE DEF e
  <2>2. QED
    BY <1>2, <2>1
<1>5. DatabaseAt(f, o) = [name |-> e.name, users |-> users, tables |-> tables]
  BY DEF DatabaseAt
<1> HIDE DEF e, users, tables
<1>6. QED
  BY <1>2, <1>3, <1>4, <1>5 DEF Database

LEMMA ContentsType ==
  ASSUME NEW f \in File
  PROVE  /\ Contents(f) \in Seq(Database)
         /\ Loadable(f) \in SUBSET Seq(Database)
         /\ Readable(f) => Loadable(f) = {Contents(f)}
<1>1. Readable(f) => Reading(f) \in Seq(Database)
  <2>1. SUFFICES ASSUME Readable(f)
                 PROVE  Reading(f) \in Seq(Database)
    OBVIOUS
  <2>2. \A i \in 1 .. f.count : DatabaseAt(f, ReadPlaces(f)[i - 1]) \in Database
    BY <2>1, DatabaseAtType DEF Readable
  <2>3. f.count \in Nat
    BY FileParts
  <2>4. QED
    BY <2>2, <2>3 DEF Reading
<1>2. <<>> \in Seq(Database)
  OBVIOUS
<1>3. QED
  BY <1>1, <1>2, MisreadAssumption DEF Contents, Loadable

(* At o there is x, and a load reads it. *)
HasAt(entries, o, x) == Found(entries, o) # {} /\ ReadAt(entries, o) = x

(* Every part of the list is at its place. *)
Holds(f, l) ==
  /\ f.count = Len(l)
  /\ \A i \in 1 .. Len(l) :
       /\ HasAt(f.dbs, Places(l)[i - 1], EntryOf(l[i]))
       /\ \A j \in 1 .. Len(l[i].users) :
            HasAt(f.users, UserPlace(Places(l)[i - 1], j), l[i].users[j])
       /\ \A j \in 1 .. Len(l[i].tables) :
            HasAt(f.tables, TablePlace(Places(l)[i - 1], Len(l[i].users), j), l[i].tables[j])

LEMMA HoldsReads ==
  ASSUME NEW f \in File, NEW l \in Seq(Database), Holds(f, l)
  PROVE  Readable(f) /\ Reading(f) = l
<1> DEFINE n == Len(l)
           P == Places(l)
           R == ReadPlaces(f)
           step == [i \in 1 .. n |->
                     [o \in Nat |-> IF Whole(f, o) THEN EndOf(o, ReadAt(f.dbs, o)) ELSE o]]
<1>1. n \in Nat /\ f.count = n /\ l = [i \in 1 .. n |-> l[i]]
  BY DEF Holds
<1>2. ASSUME NEW i \in 1 .. n
      PROVE  /\ Whole(f, P[i - 1])
             /\ ReadAt(f.dbs, P[i - 1]) = EntryOf(l[i])
             /\ DatabaseAt(f, P[i - 1]) = l[i]
  <2> DEFINE o == P[i - 1]
             u == Len(l[i].users)
             t == Len(l[i].tables)
             e == EntryOf(l[i])
  <2>1. /\ HasAt(f.dbs, o, e)
        /\ \A j \in 1 .. u : HasAt(f.users, UserPlace(o, j), l[i].users[j])
        /\ \A j \in 1 .. t : HasAt(f.tables, TablePlace(o, u, j), l[i].tables[j])
    BY DEF Holds
  <2>2. e.name = l[i].name /\ e.users = u /\ e.tables = t
    BY DEF EntryOf
  <2>3. l[i] \in Database
    BY NextPlace
  <2>4. /\ l[i] = [name |-> l[i].name, users |-> l[i].users, tables |-> l[i].tables]
        /\ l[i].users \in Seq(User)
        /\ l[i].tables \in Seq(TableNames)
    BY <2>3 DEF Database
  <2>5. /\ l[i].users = [j \in 1 .. u |-> l[i].users[j]]
        /\ l[i].tables = [j \in 1 .. t |-> l[i].tables[j]]
    BY <2>4
  <2>6. ReadAt(f.dbs, o) = e
    BY <2>1 DEF HasAt
  <2> HIDE DEF o, u, t, e
  <2>7. Whole(f, o)
    BY <2>1, <2>2 DEF Whole, HasAt
  <2>8. DatabaseAt(f, o) = l[i]
    <3>1. [j \in 1 .. e.users |-> ReadAt(f.users, UserPlace(o, j))] = l[i].users
      BY <2>1, <2>2, <2>5 DEF HasAt
    <3>2. [j \in 1 .. e.tables |-> ReadAt(f.tables, TablePlace(o, e.users, j))] = l[i].tables
      BY <2>1, <2>2, <2>5 DEF HasAt
    <3>3. DatabaseAt(f, o) = [name |-> l[i].name, users |-> l[i].users, tables |-> l[i].tables]
      BY <2>2, <2>6, <3>1, <3>2 DEF DatabaseAt
    <3>4. QED
      BY <2>4, <3>3
  <2>9. QED
    BY <2>6, <2>7, <2>8 DEF o, e
<1>3. IsChain(P, 24, n, step)
  <2>1. ASSUME NEW i \in 1 .. n
        PROVE  P[i] = step[i][P[i - 1]]
    <3>1. P[i - 1] \in Nat
      BY NextPlace
    <3>2. step[i][P[i - 1]] = EndOf(P[i - 1], EntryOf(l[i]))
      BY <1>2, <3>1
    <3>3. QED
      BY <3>2, PlacesAre
  <2>2. P[0] = 24
    BY PlacesAre
  <2> HIDE DEF P, step
  <2>3. QED
    BY <2>1, <2>2 DEF IsChain
<1>4. IsChain(R, 24, n, step)
  BY <1>1, ReadPlacesAre
<1>5. \A i \in 0 .. n : R[i] = P[i]
  <2>1. n \in Nat
    BY <1>1
  <2> HIDE DEF P, R, step, n
  <2>2. \A i \in 0 .. n : P[i] = R[i]
    BY <1>3, <1>4, <2>1, ChainUnique
  <2>3. QED
    BY <2>2
<1>6. \A i \in 1 .. n : i - 1 \in 0 .. n /\ R[i - 1] = P[i - 1]
  BY <1>1, <1>5
<1>7. Readable(f)
  BY <1>1, <1>2, <1>6 DEF Readable
<1>8. Reading(f) = l
  <2>1. Reading(f) = [i \in 1 .. n |-> DatabaseAt(f, R[i - 1])]
    BY <1>1 DEF Reading
  <2>2. \A i \in 1 .. n : DatabaseAt(f, R[i - 1]) = l[i]
    BY <1>2, <1>6
  <2> HIDE DEF R, n
  <2>3. QED
    BY <1>1, <2>1, <2>2
<1>9. QED
  BY <1>7, <1>8
-----------------------------------------------------------------------------
(* What a save writes. *)

(* A whole new entry is what there is at its place.                        *)
LEMMA OverNew ==
  ASSUME NEW old, NEW new, NEW width \in Nat, NEW cut \in Nat, NEW o \in Nat, NEW x,
         <<o, x>> \in new, \A c \in new : c[1] = o => c[2] = x,
         o + width <= cut, width > 0
  PROVE  HasAt(Over(old, new, width, cut), o, x)
<1> DEFINE entries == Over(old, new, width, cut)
<1>1. <<o, x>> \in entries
  BY DEF Over
<1>2. ASSUME NEW c \in entries, c[1] = o
      PROVE  c[2] = x
  <2>1. ~(c[1] >= cut)
    BY <1>2
  <2>2. c \in new
    BY <2>1 DEF Over
  <2>3. QED
    BY <1>2, <2>2
<1>3. Found(entries, o) = {x}
  <2> HIDE DEF entries
  <2>1. x \in Found(entries, o)
    <3>1. <<o, x>>[1] = o /\ <<o, x>>[2] = x
      OBVIOUS
    <3>2. QED
      BY <1>1, <3>1 DEF Found
  <2>2. \A y \in Found(entries, o) : y = x
    BY <1>2 DEF Found
  <2>3. QED
    BY <2>1, <2>2
<1>4. QED
  BY <1>3 DEF HasAt, ReadAt

LEMMA SizeIs ==
  ASSUME NEW l \in Seq(Database)
  PROVE  /\ SizeOf(l) \in Nat
         /\ SizeOf(l) >= 24
         /\ \A i \in 1 .. Len(l) : Places(l)[i] <= SizeOf(l)
<1>1. Len(l) \in Nat /\ 0 \in 0 .. Len(l) /\ Len(l) \in 0 .. Len(l)
  OBVIOUS
<1>2. SizeOf(l) \in Nat /\ Places(l)[0] = 24
  BY <1>1, PlacesAre DEF SizeOf
<1>3. Places(l)[0] <= SizeOf(l)
  BY <1>1, PlacesGrow DEF SizeOf
<1>4. QED
  BY <1>2, <1>3, Apart

LEMMA EntriesType ==
  ASSUME NEW l \in Seq(Database)
  PROVE  /\ DbEntries(l) \in SUBSET (Nat \X Entry)
         /\ UserEntries(l) \in SUBSET (Nat \X User)
         /\ TableEntries(l) \in SUBSET (Nat \X TableNames)
<1>1. DOMAIN l = 1 .. Len(l)
  OBVIOUS
<1>2. ASSUME NEW i \in 1 .. Len(l)
      PROVE  /\ Places(l)[i - 1] \in Nat
             /\ EntryOf(l[i]) \in Entry
             /\ l[i].users \in Seq(User) /\ DOMAIN l[i].users = 1 .. Len(l[i].users)
             /\ l[i].tables \in Seq(TableNames) /\ DOMAIN l[i].tables = 1 .. Len(l[i].tables)
  <2>1. Places(l)[i - 1] \in Nat /\ l[i] \in Database
    BY NextPlace
  <2>2. l[i].users \in Seq(User) /\ l[i].tables \in Seq(TableNames)
    BY <2>1 DEF Database
  <2>3. EntryOf(l[i]) \in Entry
    BY <2>1, EndIs
  <2>4. QED
    BY <2>1, <2>2, <2>3
<1>3. DbEntries(l) \in SUBSET (Nat \X Entry)
  BY <1>1, <1>2 DEF DbEntries
<1>4. UserEntries(l) \in SUBSET (Nat \X User)
  <2>1. ASSUME NEW i \in 1 .. Len(l), NEW j \in 1 .. Len(l[i].users)
        PROVE  <<UserPlace(Places(l)[i - 1], j), l[i].users[j]>> \in Nat \X User
    <3>1. UserPlace(Places(l)[i - 1], j) \in Nat
      BY UserPlaceIn
    <3>2. l[i].users[j] \in User
      BY <1>2
    <3>3. QED
      BY <3>1, <3>2
  <2>2. QED
    BY <1>1, <1>2, <2>1 DEF UserEntries
<1>5. TableEntries(l) \in SUBSET (Nat \X TableNames)
  <2>1. ASSUME NEW i \in 1 .. Len(l), NEW j \in 1 .. Len(l[i].tables)
        PROVE  <<TablePlace(Places(l)[i - 1], Len(l[i].users), j), l[i].tables[j]>>
                 \in Nat \X TableNames
    <3>1. TablePlace(Places(l)[i - 1], Len(l[i].users), j) \in Nat
      BY TablePlaceIn
    <3>2. l[i].tables[j] \in TableNames
      BY <1>2
    <3>3. QED
      BY <3>1, <3>2
  <2>2. ASSUME NEW c \in TableEntries(l)
        PROVE  c \in Nat \X TableNames
    <3>1. PICK i \in 1 .. Len(l) :
            c \in {<<TablePlace(Places(l)[i - 1], Len(l[i].users), j), l[i].tables[j]>>
                    : j \in 1 .. Len(l[i].tables)}
      BY <1>1, <1>2 DEF TableEntries
    <3>2. QED
      BY <2>1, <3>1
  <2>3. QED
    BY <2>2
<1>6. QED
  BY <1>3, <1>4, <1>5

LEMMA WrittenType ==
  ASSUME NEW f \in File, NEW l \in Seq(Database), NEW cut \in Nat
  PROVE  Written(f, l, cut) \in File
<1> DEFINE ds == Over(f.dbs, DbEntries(l), DbSize, cut)
           us == Over(f.users, UserEntries(l), UserSize, cut)
           ts == Over(f.tables, TableEntries(l), TableSize, cut)
           size == IF cut > f.size THEN cut ELSE f.size
           count == IF cut = 0 THEN f.count ELSE Len(l)
<1>1. /\ ds \in SUBSET (Nat \X Entry)
      /\ us \in SUBSET (Nat \X User)
      /\ ts \in SUBSET (Nat \X TableNames)
  <2>1. ds \in SUBSET (Nat \X Entry)
    <3>1. f.dbs \in SUBSET (Nat \X Entry) /\ DbEntries(l) \in SUBSET (Nat \X Entry)
      BY FileParts, EntriesType
    <3>2. QED
      BY <3>1 DEF Over
  <2>2. us \in SUBSET (Nat \X User)
    <3>1. f.users \in SUBSET (Nat \X User) /\ UserEntries(l) \in SUBSET (Nat \X User)
      BY FileParts, EntriesType
    <3>2. QED
      BY <3>1 DEF Over
  <2>3. ts \in SUBSET (Nat \X TableNames)
    <3>1. f.tables \in SUBSET (Nat \X TableNames) /\ TableEntries(l) \in SUBSET (Nat \X TableNames)
      BY FileParts, EntriesType
    <3>2. QED
      BY <3>1 DEF Over
  <2>4. QED
    BY <2>1, <2>2, <2>3
<1>2. size \in Nat /\ count \in Nat
  BY FileParts
<1>3. Written(f, l, cut) =
        [size |-> size, count |-> count, dbs |-> ds, users |-> us, tables |-> ts]
  BY DEF Written
<1> HIDE DEF ds, us, ts, size, count
<1>4. QED
  BY <1>1, <1>2, <1>3 DEF File

LEMMA CutsType ==
  ASSUME NEW l \in Seq(Database)
  PROVE  Cuts(l) \in SUBSET Nat
<1>1. \A c \in DbEntries(l) \cup UserEntries(l) \cup TableEntries(l) : c[1] \in Nat
  BY EntriesType
<1>2. QED
  BY <1>1 DEF Cuts, HeaderSize, DbSize, UserSize, TableEntry, TableSize

(* After all its writes a load reads the list.                             *)
LEMMA ReadBack ==
  ASSUME NEW f \in File, NEW l \in Seq(Database)
  PROVE  /\ Readable(Written(f, l, SizeOf(l)))
         /\ Contents(Written(f, l, SizeOf(l))) = l
<1> DEFINE g == Written(f, l, SizeOf(l))
<1>1. g \in File
  BY SizeIs, WrittenType
<1>2. g.count = Len(l)
  BY SizeIs DEF Written
<1>3. ASSUME NEW i \in 1 .. Len(l)
      PROVE  HasAt(g.dbs, Places(l)[i - 1], EntryOf(l[i]))
  <2> DEFINE o == Places(l)[i - 1]
  <2>1. o \in Nat /\ Places(l)[i] \in Nat /\ o + 80 <= Places(l)[i]
    BY NextPlace
  <2>2. o + 80 <= SizeOf(l) /\ SizeOf(l) \in Nat
    BY <2>1, SizeIs
  <2>3. <<o, EntryOf(l[i])>> \in DbEntries(l)
    BY DEF DbEntries
  <2>4. \A c \in DbEntries(l) : c[1] = o => c[2] = EntryOf(l[i])
    BY DbOnce
  <2> HIDE DEF o
  <2>5. HasAt(Over(f.dbs, DbEntries(l), 80, SizeOf(l)), o, EntryOf(l[i]))
    BY <2>1, <2>2, <2>3, <2>4, OverNew
  <2>6. QED
    BY <2>5 DEF Written, DbSize, o
<1>4. ASSUME NEW i \in 1 .. Len(l), NEW j \in 1 .. Len(l[i].users)
      PROVE  HasAt(g.users, UserPlace(Places(l)[i - 1], j), l[i].users[j])
  <2> DEFINE o == UserPlace(Places(l)[i - 1], j)
  <2>1. o \in Nat /\ Places(l)[i] \in Nat /\ o + 97 <= Places(l)[i]
    BY UserPlaceIn, NextPlace
  <2>2. o + 97 <= SizeOf(l) /\ SizeOf(l) \in Nat
    BY <2>1, SizeIs
  <2>3. <<o, l[i].users[j]>> \in UserEntries(l)
    <3>1. i \in DOMAIN l /\ l[i] \in Database
      OBVIOUS
    <3>2. j \in DOMAIN l[i].users
      BY <3>1 DEF Database
    <3>3. QED
      BY <3>1, <3>2 DEF UserEntries
  <2>4. \A c \in UserEntries(l) : c[1] = o => c[2] = l[i].users[j]
    BY UserOnce
  <2> HIDE DEF o
  <2>5. HasAt(Over(f.users, UserEntries(l), 97, SizeOf(l)), o, l[i].users[j])
    BY <2>1, <2>2, <2>3, <2>4, OverNew
  <2>6. QED
    BY <2>5 DEF Written, UserSize, o
<1>5. ASSUME NEW i \in 1 .. Len(l), NEW j \in 1 .. Len(l[i].tables)
      PROVE  HasAt(g.tables, TablePlace(Places(l)[i - 1], Len(l[i].users), j), l[i].tables[j])
  <2> DEFINE o == TablePlace(Places(l)[i - 1], Len(l[i].users), j)
  <2>1. o \in Nat /\ Places(l)[i] \in Nat /\ o + 139 <= Places(l)[i]
    BY TablePlaceIn, NextPlace
  <2>2. o + 139 <= SizeOf(l) /\ SizeOf(l) \in Nat
    BY <2>1, SizeIs
  <2>3. <<o, l[i].tables[j]>> \in TableEntries(l)
    <3>1. i \in DOMAIN l /\ l[i] \in Database
      OBVIOUS
    <3>2. j \in DOMAIN l[i].tables
      BY <3>1 DEF Database
    <3>3. QED
      BY <3>1, <3>2 DEF TableEntries
  <2>4. \A c \in TableEntries(l) : c[1] = o => c[2] = l[i].tables[j]
    BY TableOnce
  <2> HIDE DEF o
  <2> DEFINE new == TableEntries(l)
             cut == SizeOf(l)
             x   == l[i].tables[j]
  <2>5. o \in Nat /\ cut \in Nat /\ o + 139 <= cut /\ <<o, x>> \in new
        /\ \A c \in new : c[1] = o => c[2] = x
    BY <2>1, <2>2, <2>3, <2>4
  <2> HIDE DEF new, cut, x
  <2>6. HasAt(Over(f.tables, new, 139, cut), o, x)
    BY <2>5, OverNew
  <2>7. QED
    BY <2>6 DEF Written, TableSize, TableEntry, o, new, cut, x
<1> HIDE DEF g
<1>6. Holds(g, l)
  BY <1>2, <1>3, <1>4, <1>5 DEF Holds
<1>7. QED
  BY <1>1, <1>6, HoldsReads DEF Contents, g
-----------------------------------------------------------------------------
(* Lists and names. *)

(* A name of the list is found, at the first position that has it.         *)
LEMMA FirstNamedThere ==
  ASSUME NEW list, DOMAIN list = 1 .. Len(list), Len(list) \in Nat, NEW n \in Names(list)
  PROVE  /\ FirstNamed(list, n) \in DOMAIN list
         /\ list[FirstNamed(list, n)].name = n
         /\ IsFirst(list, FirstNamed(list, n))
<1> DEFINE D == {i \in DOMAIN list : list[i].name = n}
           First(i) == list[i].name = n /\ \A j \in 1 .. i - 1 : list[j].name # n
<1>1. D # {} /\ D \in SUBSET Nat
  BY DEF Names
<1>2. PICK m \in D : \A k \in D : m <= k
  BY <1>1, LeastElement
<1>3. First(m)
  <2>1. ASSUME NEW j \in 1 .. m - 1, list[j].name = n
        PROVE  FALSE
    <3>1. j \in D /\ j < m
      BY <2>1
    <3>2. QED
      BY <1>2, <3>1
  <2>2. QED
    BY <2>1
<1>4. FirstNamed(list, n) = CHOOSE i \in DOMAIN list : First(i)
  BY DEF FirstNamed
<1>5. FirstNamed(list, n) \in DOMAIN list /\ First(FirstNamed(list, n))
  <2> HIDE DEF First
  <2>1. QED
    BY <1>3, <1>4
<1>6. QED
  BY <1>5 DEF IsFirst

LEMMA FirstNamedIs ==
  ASSUME NEW list, DOMAIN list = 1 .. Len(list), Len(list) \in Nat,
         NEW i \in DOMAIN list, IsFirst(list, i)
  PROVE  FirstNamed(list, list[i].name) = i
<1> DEFINE k == FirstNamed(list, list[i].name)
<1>1. list[i].name \in Names(list)
  BY DEF Names
<1>2. k \in DOMAIN list /\ list[k].name = list[i].name /\ IsFirst(list, k)
  BY <1>1, FirstNamedThere
<1> HIDE DEF k
<1>3. ~(k < i) /\ ~(i < k)
  BY <1>2 DEF IsFirst
<1>4. QED
  BY <1>2, <1>3 DEF k

(* An existing name is found at the one position that has it.              *)
LEMMA FirstNamedFound ==
  ASSUME NEW list, HasNoDuplicates(list), NEW i \in DOMAIN list, DOMAIN list = 1 .. Len(list),
         Len(list) \in Nat
  PROVE  FirstNamed(list, list[i].name) = i
<1> DEFINE First(k) == list[k].name = list[i].name /\ \A j \in 1 .. k - 1 : list[j].name # list[i].name
<1>1. First(i)
  <2>1. ASSUME NEW j \in 1 .. i - 1, list[j].name = list[i].name
        PROVE  FALSE
    <3>1. j \in DOMAIN list /\ j # i
      OBVIOUS
    <3>2. QED
      BY <2>1, <3>1 DEF HasNoDuplicates
  <2>2. QED
    BY <2>1
<1>2. ASSUME NEW k \in DOMAIN list, First(k)
      PROVE  k = i
  BY <1>2 DEF HasNoDuplicates
<1>3. FirstNamed(list, list[i].name) = CHOOSE k \in DOMAIN list : First(k)
  BY DEF FirstNamed
<1>4. QED
  BY <1>1, <1>2, <1>3

(* Taking one element out of a list keeps its type, and every element left
   has a place of its own in the list before.                              *)
LEMMA RemovedAt ==
  ASSUME NEW S, NEW list \in Seq(S), NEW i \in DOMAIN list
  PROVE  /\ RemoveAt(list, i) \in Seq(S)
         /\ Len(RemoveAt(list, i)) = Len(list) - 1
         /\ \A k \in 1 .. Len(list) - 1 :
              RemoveAt(list, i)[k] = list[IF k < i THEN k ELSE k + 1]
<1>1. Len(list) \in Nat /\ i \in 1 .. Len(list)
  OBVIOUS
<1>2. /\ SubSeq(list, 1, i - 1) \in Seq(S)
      /\ Len(SubSeq(list, 1, i - 1)) = i - 1
      /\ \A k \in 1 .. i - 1 : SubSeq(list, 1, i - 1)[k] = list[k]
  BY <1>1
<1>3. /\ SubSeq(list, i + 1, Len(list)) \in Seq(S)
      /\ Len(SubSeq(list, i + 1, Len(list))) = Len(list) - i
      /\ \A k \in 1 .. Len(list) - i : SubSeq(list, i + 1, Len(list))[k] = list[i + k]
  BY <1>1
<1> DEFINE a == SubSeq(list, 1, i - 1)
           b == SubSeq(list, i + 1, Len(list))
<1>4. a \in Seq(S) /\ b \in Seq(S) /\ Len(a) = i - 1 /\ Len(a) + Len(b) = Len(list) - 1
  <2>1. a \in Seq(S) /\ b \in Seq(S)
    BY <1>2, <1>3
  <2>2. Len(a) = i - 1 /\ Len(b) = Len(list) - i
    BY <1>2, <1>3, Zenon
  <2> HIDE DEF a, b
  <2>3. Len(a) + Len(b) = Len(list) - 1
    BY <1>1, <2>2
  <2>4. QED
    BY <2>1, <2>2, <2>3
<1>5. RemoveAt(list, i) = a \o b
  BY DEF RemoveAt
<1>6. /\ a \o b \in Seq(S)
      /\ Len(a \o b) = Len(a) + Len(b)
      /\ \A k \in 1 .. Len(a) + Len(b) :
           (a \o b)[k] = IF k <= Len(a) THEN a[k] ELSE b[k - Len(a)]
  <2> HIDE DEF a, b
  <2>1. QED
    BY <1>4, ConcatProperties
<1>7. a \o b \in Seq(S) /\ Len(a \o b) = Len(list) - 1
  <2> HIDE DEF a, b
  <2>1. QED
    BY <1>4, <1>6
<1>8. \A k \in 1 .. Len(list) - 1 : (a \o b)[k] = IF k <= i - 1 THEN a[k] ELSE b[k - (i - 1)]
  <2> HIDE DEF a, b
  <2>1. QED
    BY <1>4, <1>6
<1>9. ASSUME NEW k \in 1 .. Len(list) - 1
      PROVE  (a \o b)[k] = list[IF k < i THEN k ELSE k + 1]
  <2>1. CASE k < i
    BY <1>1, <1>2, <1>8, <2>1
  <2>2. CASE ~(k < i)
    <3>1. k - (i - 1) \in 1 .. Len(list) - i /\ ~(k <= i - 1) /\ i + (k - (i - 1)) = k + 1
      BY <1>1, <2>2
    <3>2. QED
      BY <1>3, <1>8, <2>2, <3>1
  <2>3. QED
    BY <2>1, <2>2
<1>10. QED
  BY <1>5, <1>7, <1>9

LEMMA Reversed ==
  ASSUME NEW S, NEW list \in Seq(S)
  PROVE  /\ Reverse(list) \in Seq(S)
         /\ Len(Reverse(list)) = Len(list)
         /\ DOMAIN Reverse(list) = DOMAIN list
         /\ \A i \in DOMAIN list : /\ Len(list) - i + 1 \in DOMAIN list
                                   /\ Reverse(list)[i] = list[Len(list) - i + 1]
<1>1. Len(list) \in Nat /\ DOMAIN list = 1 .. Len(list) /\ \A i \in DOMAIN list : list[i] \in S
  OBVIOUS
<1>2. \A i \in 1 .. Len(list) : (Len(list) - i) + 1 \in 1 .. Len(list)
  BY <1>1
<1>3. Reverse(list) \in [1 .. Len(list) -> S]
  BY <1>1, <1>2 DEF Reverse
<1>4. Reverse(list) \in Seq(S)
  BY <1>1, <1>3, SeqDef
<1>5. DOMAIN Reverse(list) = 1 .. Len(list)
  BY DEF Reverse
<1>6. Len(Reverse(list)) = Len(list)
  BY <1>1, <1>4, <1>5, LenProperties
<1>7. \A i \in DOMAIN list : Reverse(list)[i] = list[(Len(list) - i) + 1]
  BY <1>1 DEF Reverse
<1>8. QED
  BY <1>1, <1>2, <1>4, <1>5, <1>6, <1>7

LEMMA ReversedInjective ==
  ASSUME NEW S, NEW list \in Seq(S), IsInjective(list)
  PROVE  IsInjective(Reverse(list))
<1>1. ASSUME NEW i \in DOMAIN list, NEW j \in DOMAIN list, Reverse(list)[i] = Reverse(list)[j]
      PROVE  i = j
  <2>1. list[Len(list) - i + 1] = list[Len(list) - j + 1]
    BY <1>1, Reversed
  <2>2. Len(list) - i + 1 \in DOMAIN list /\ Len(list) - j + 1 \in DOMAIN list
    BY Reversed
  <2>3. Len(list) - i + 1 = Len(list) - j + 1
    BY <2>1, <2>2 DEF IsInjective
  <2>4. QED
    BY <2>3
<1>2. QED
  BY <1>1, Reversed DEF IsInjective

LEMMA ReversedUnique ==
  ASSUME NEW S, NEW list \in Seq(S), HasNoDuplicates(list)
  PROVE  HasNoDuplicates(Reverse(list))
<1>1. ASSUME NEW i \in DOMAIN list, NEW j \in DOMAIN list, Reverse(list)[i].name = Reverse(list)[j].name
      PROVE  i = j
  <2>1. list[Len(list) - i + 1].name = list[Len(list) - j + 1].name
    BY <1>1, Reversed
  <2>2. Len(list) - i + 1 \in DOMAIN list /\ Len(list) - j + 1 \in DOMAIN list
    BY Reversed
  <2>3. Len(list) - i + 1 = Len(list) - j + 1
    BY <2>1, <2>2 DEF HasNoDuplicates
  <2>4. QED
    BY <2>3
<1>2. QED
  BY <1>1, Reversed DEF HasNoDuplicates

LEMMA RemovedInjective ==
  ASSUME NEW S, NEW list \in Seq(S), NEW i \in DOMAIN list, IsInjective(list)
  PROVE  IsInjective(RemoveAt(list, i))
<1> DEFINE From(k) == IF k < i THEN k ELSE k + 1
<1>1. RemoveAt(list, i) \in Seq(S) /\ DOMAIN RemoveAt(list, i) = 1 .. Len(list) - 1
  BY RemovedAt
<1>2. \A k \in 1 .. Len(list) - 1 : From(k) \in DOMAIN list /\ RemoveAt(list, i)[k] = list[From(k)]
  BY RemovedAt
<1>3. \A k, m \in 1 .. Len(list) - 1 : From(k) = From(m) => k = m
  OBVIOUS
<1> HIDE DEF From
<1>4. QED
  BY <1>1, <1>2, <1>3 DEF IsInjective
-----------------------------------------------------------------------------
(* What a session's statement sees. *)

LEMMA ListedType ==
  ASSUME TypeOK
  PROVE  /\ Listed \in Seq(Database)
         /\ Len(dbs) \in Nat /\ Len(Listed) = Len(dbs)
         /\ DOMAIN dbs = 1 .. Len(dbs) /\ DOMAIN Listed = DOMAIN dbs
         /\ \A i \in DOMAIN dbs : /\ dbs[i] \in DOMAIN descriptors
                                  /\ Listed[i] = descriptors[dbs[i]]
                                  /\ Listed[i] \in Database
<1>1. /\ Len(dbs) \in Nat /\ DOMAIN dbs = 1 .. Len(dbs)
      /\ \A i \in DOMAIN dbs : dbs[i] \in DOMAIN descriptors
  BY DEF TypeOK
<1>2. \A k \in DOMAIN descriptors : descriptors[k] \in Database
  BY DEF TypeOK
<1>3. DOMAIN Listed = DOMAIN dbs /\ \A i \in DOMAIN dbs : Listed[i] = descriptors[dbs[i]]
  BY DEF Listed
<1>4. Listed \in [1 .. Len(dbs) -> Database]
  BY <1>1, <1>2 DEF Listed
<1>5. Listed \in Seq(Database)
  BY <1>1, <1>4, SeqDef
<1>6. Len(Listed) = Len(dbs)
  BY <1>1, <1>3, <1>5, LenProperties
<1>7. QED
  BY <1>1, <1>2, <1>3, <1>5, <1>6

LEMMA SessionType ==
  ASSUME IndInv, NEW s \in Sessions, Request(s)
  PROVE  /\ sessions[s].db \in DOMAIN descriptors
         /\ sessions[s] \in [db : {0} \cup DOMAIN descriptors, active : Nat, admin : BOOLEAN]
         /\ Mine(s) \in Database
         /\ torn \/ UniqueWithin(Mine(s))
<1>1. sessions[s] \in [db : {0} \cup DOMAIN descriptors, active : Nat, admin : BOOLEAN]
  BY DEF IndInv, TypeOK
<1>2. sessions[s].db \in DOMAIN descriptors
  BY <1>1 DEF IndInv, ClosedHasNone, Request
<1>3. Mine(s) \in Database /\ Mine(s) \in Range(descriptors)
  BY <1>2 DEF IndInv, TypeOK, Mine, Range
<1>4. QED
  BY <1>1, <1>2, <1>3 DEF IndInv, NamesUnique, UniqueNames, UniqueWithin

(* The position the compiler takes is that of the session's descriptor, if
   the list still has it.                                                  *)
LEMMA ActiveIsMine ==
  ASSUME IndInv, NEW s \in Sessions, Request(s), sessions[s].db \in Range(dbs)
  PROVE  Active(s) \in DOMAIN dbs /\ dbs[Active(s)] = sessions[s].db
<1>1. PICK i \in DOMAIN dbs : dbs[i] = sessions[s].db
  BY DEF Range
<1>2. Listed[i] = Mine(s) /\ i \in DOMAIN Listed
  BY <1>1, ListedType DEF IndInv, Mine
<1>3. Mine(s).name \in Names(Listed)
  BY <1>2 DEF Names
<1>4. FirstNamed(Listed, Listed[i].name) = i
  <2>1. IsFirst(Listed, i)
    BY <1>1 DEF IndInv, HoldsFirst
  <2>2. QED
    BY <1>2, <2>1, ListedType, FirstNamedIs DEF IndInv
<1>5. Active(s) = i
  BY <1>2, <1>3, <1>4 DEF Active
<1>6. QED
  BY <1>1, <1>5

LEMMA ActiveNat ==
  ASSUME IndInv, NEW s \in Sessions, Request(s)
  PROVE  Active(s) \in Nat
<1>1. CASE Mine(s).name \in Names(Listed)
  <2>1. FirstNamed(Listed, Mine(s).name) \in DOMAIN Listed
    BY <1>1, ListedType, FirstNamedThere DEF IndInv
  <2>2. QED
    BY <1>1, <2>1, ListedType DEF Active, IndInv
<1>2. CASE Mine(s).name \notin Names(Listed)
  BY <1>2, SessionType DEF Active
<1>3. QED
  BY <1>1, <1>2

LEMMA SameHolders ==
  ASSUME IndInv, UNCHANGED <<descriptors, dbs>>,
         \A s \in Sessions : sessions'[s].db = sessions[s].db \/ sessions'[s].db = 0
  PROVE  HoldsFirst'
<1>1. Listed' = Listed
  BY DEF Listed
<1>2. \A i \in DOMAIN dbs : dbs[i] # 0
  BY DEF IndInv, TypeOK
<1>3. QED
  BY <1>1, <1>2 DEF IndInv, HoldsFirst, IsFirst

(* Compiling a statement leaves every session where it was. *)
LEMMA CompilesKeeps ==
  ASSUME IndInv, NEW s \in Sessions, Request(s), Compiles(s)
  PROVE  /\ sessions' \in [Sessions -> [db : {0} \cup DOMAIN descriptors, active : Nat, admin : BOOLEAN]]
         /\ \A r \in Sessions : sessions'[r].db = sessions[r].db
         /\ ClosedHasNone'
         /\ UNCHANGED <<descriptors, dbs>> => HoldsFirst'
<1> DEFINE SessionSet == [db : {0} \cup DOMAIN descriptors, active : Nat, admin : BOOLEAN]
           moved == [sessions[s] EXCEPT !.active = Active(s)]
<1>1. sessions \in [Sessions -> SessionSet]
  BY DEF IndInv, TypeOK
<1>2. sessions' = [sessions EXCEPT ![s] = moved]
  BY DEF Compiles
<1>3. moved \in SessionSet /\ moved.db = sessions[s].db /\ moved.db # 0
  <2>1. sessions[s] \in SessionSet /\ sessions[s].db \in DOMAIN descriptors
    BY SessionType
  <2>2. sessions[s].db # 0
    BY <2>1 DEF IndInv, TypeOK
  <2>3. Active(s) \in Nat
    BY ActiveNat
  <2>4. QED
    BY <2>1, <2>2, <2>3
<1> HIDE DEF moved, SessionSet
<1>4. sessions' \in [Sessions -> SessionSet]
  BY <1>1, <1>2, <1>3
<1>5. \A r \in Sessions : sessions'[r] = IF r = s THEN moved ELSE sessions[r]
  BY <1>1, <1>2
<1>6. \A r \in Sessions : sessions'[r].db = sessions[r].db
  BY <1>3, <1>5
<1>7. ClosedHasNone'
  <2>1. SUFFICES ASSUME NEW r \in Sessions, sessions'[r].db = 0
                 PROVE  sessions'[r] = NoSession
    BY DEF ClosedHasNone
  <2>2. r # s
    BY <1>3, <1>5, <2>1
  <2>3. sessions'[r] = sessions[r] /\ sessions[r].db = 0
    BY <1>5, <2>1, <2>2
  <2>4. QED
    BY <2>3 DEF IndInv, ClosedHasNone
<1>8. QED
  BY <1>4, <1>6, <1>7, SameHolders DEF SessionSet
-----------------------------------------------------------------------------
(* The invariant, action by action. *)

LEMMA SameNames ==
  ASSUME IndInv, UNCHANGED <<descriptors, dbs, file, catalog, torn>>
  PROVE  NamesUnique' /\ FileHolds'
<1>1. Listed' = Listed
  BY DEF Listed
<1>2. NamesUnique'
  BY <1>1 DEF IndInv, NamesUnique, UniqueNames, HasNoDuplicates
<1>3. FileHolds'
  BY DEF IndInv, FileHolds
<1>4. QED
  BY <1>2, <1>3

(* The file and what is known of it. *)
LEMMA SameFile ==
  ASSUME IndInv, UNCHANGED <<file, catalog, torn>>
  PROVE  FileHolds'
  BY DEF IndInv, FileHolds

(* A server that is up has no culprit, and a statement makes none. *)
LEMMA NoCulprit ==
  ASSUME IndInv, status = "up", UNCHANGED culprit
  PROVE  culprit' = {} /\ CulpritDown' /\ TrapOnlyAfterDrop'
BY DEF IndInv, CulpritDown, TrapOnlyAfterDrop

(* The first save, into no file. *)
LEMMA InitCatalog ==
  ASSUME Init
  PROVE  /\ file \in File /\ Readable(file) /\ catalog = Contents(file)
         /\ catalog = descriptors /\ catalog = Listed
<1>1. NoFile \in File
  BY DEF NoFile, File
<1>2. <<FirstDatabase>> \in Seq(Database)
  <2> DEFINE u == [name |-> Admin, password |-> AdminPassword, admin |-> TRUE]
  <2>1. <<u>> \in Seq(User)
    BY NameAssumption DEF User
  <2>2. FirstDatabase \in Database
    BY <2>1, NameAssumption DEF FirstDatabase, Database
  <2>3. QED
    BY <2>2
<1>3. /\ file = Written(NoFile, <<FirstDatabase>>, SizeOf(<<FirstDatabase>>))
      /\ catalog = Contents(file)
      /\ descriptors = <<FirstDatabase>>
      /\ dbs = <<1>>
  BY DEF Init
<1>4. Listed = descriptors
  BY <1>3 DEF Listed
<1>5. QED
  BY <1>1, <1>2, <1>3, <1>4, SizeIs, WrittenType, ReadBack

LEMMA InitInv == Init => IndInv
<1> SUFFICES ASSUME Init PROVE IndInv
  OBVIOUS
<1> DEFINE u == [name |-> Admin, password |-> AdminPassword, admin |-> TRUE]
<1>1. <<u>> \in Seq(User) /\ Len(<<u>>) = 1 /\ <<u>>[1] = u
  BY NameAssumption DEF User
<1>2. FirstDatabase \in Database /\ FirstDatabase.name = Default
  BY <1>1, NameAssumption DEF FirstDatabase, Database
<1>3. descriptors \in Seq(Database) /\ Len(descriptors) = 1 /\ DOMAIN descriptors = 1 .. 1
      /\ descriptors[1] = FirstDatabase
  BY <1>2 DEF Init
<1>4. file \in File /\ Readable(file) /\ catalog = Contents(file) /\ catalog = descriptors
  BY InitCatalog
<1>5. dbs \in Seq(DOMAIN descriptors) /\ DOMAIN dbs = 1 .. 1 /\ IsInjective(dbs)
  BY <1>3 DEF Init, IsInjective
<1>6. TypeOK
  <2>1. sessions \in [Sessions -> [db : {0} \cup DOMAIN descriptors, active : Nat, admin : BOOLEAN]]
    BY DEF Init, NoSession
  <2>2. pc = "idle" /\ status = "up" /\ culprit = {} /\ refused = FALSE /\ torn = FALSE
        /\ changes = 0 /\ starts = 0
    BY DEF Init
  <2>3. changes \in 0 .. MaxChanges /\ starts \in 0 .. MaxStarts
    BY <2>2, BoundAssumption
  <2>4. QED
    BY <1>3, <1>4, <1>5, <2>1, <2>2, <2>3, Zenon DEF TypeOK
<1>7. UniqueWithin(FirstDatabase)
  <2>1. FirstDatabase.users = <<u>> /\ FirstDatabase.tables = <<>>
    BY DEF FirstDatabase
  <2>2. HasNoDuplicates(<<u>>)
    BY DEF HasNoDuplicates
  <2>3. IsInjective(<<>>)
    BY DEF IsInjective
  <2>4. QED
    BY <2>1, <2>2, <2>3 DEF UniqueWithin
<1>8. NamesUnique
  <2>1. HasNoDuplicates(Listed) /\ HasNoDuplicates(catalog)
    BY <1>3, <1>4, <1>5 DEF Listed, HasNoDuplicates
  <2>2. \A d \in Range(descriptors) \cup Range(catalog) : d = FirstDatabase
    BY <1>3, <1>4 DEF Range
  <2>3. QED
    BY <1>7, <2>1, <2>2 DEF NamesUnique, UniqueNames, UniqueWithin
<1>9. HoldsFirst
  <2>1. \A i \in DOMAIN dbs : i = 1
    BY <1>5
  <2>2. QED
    BY <2>1 DEF HoldsFirst, IsFirst
<1>10. QED
  BY <1>4, <1>6, <1>8, <1>9 DEF Init, IndInv, FileHolds, ClosedHasNone, CulpritDown, TrapOnlyAfterDrop

LEMMA StepFailsAssertion ==
  ASSUME IndInv, NEW s \in Sessions, FailsAssertion(s)
  PROVE  IndInv'
<1>1. Request(s) /\ Compiles(s) /\ culprit' = {s} /\ status' = "trapped"
      /\ UNCHANGED <<descriptors, dbs, file, catalog, pc, refused, torn, changes, starts>>
  BY DEF FailsAssertion, Trap
<1>2. TypeOK'
  BY <1>1, CompilesKeeps DEF IndInv, TypeOK
<1>3. sessions[s].db \notin Range(dbs)
  <2>1. SUFFICES ASSUME sessions[s].db \in Range(dbs) PROVE FALSE
    OBVIOUS
  <2>2. Active(s) \in DOMAIN dbs /\ Listed[Active(s)] = Mine(s)
    BY <1>1, <2>1, ActiveIsMine, ListedType DEF IndInv, Mine
  <2>3. InBounds(s) /\ \A t \in TableNames : KnownTable(s, t) => HasTable(s, t)
    BY <2>2 DEF InBounds, KnownTable, HasTable
  <2>4. QED
    BY <2>3 DEF FailsAssertion
<1>4. TrapOnlyAfterDrop'
  BY <1>1, <1>3, CompilesKeeps DEF TrapOnlyAfterDrop
<1>5. QED
  BY <1>1, <1>2, <1>4, CompilesKeeps, SameNames DEF IndInv, CulpritDown

(* A statement on the session's own descriptor keeps the descriptor's name,
   and the new content is as well-formed as the old one.                   *)
LEMMA StepChangeMine ==
  ASSUME IndInv, NEW s \in Sessions, Change(s), NEW d \in Database, ChangeMine(s, d),
         torn \/ UniqueWithin(d), d.name = Mine(s).name
  PROVE  IndInv'
<1> DEFINE k == sessions[s].db
<1>1. Request(s) /\ Compiles(s) /\ k \in DOMAIN descriptors /\ status = "up"
  BY SessionType DEF Change, Request
<1>2. /\ descriptors' \in Seq(Database)
      /\ DOMAIN descriptors' = DOMAIN descriptors
      /\ \A i \in DOMAIN descriptors : descriptors'[i] = IF i = k THEN d ELSE descriptors[i]
  <2>1. descriptors \in Seq(Database) /\ DOMAIN descriptors = 1 .. Len(descriptors)
    BY DEF IndInv, TypeOK
  <2>2. descriptors' = [descriptors EXCEPT ![k] = d]
    BY DEF ChangeMine
  <2> HIDE DEF k
  <2>3. QED
    BY <1>1, <2>1, <2>2, ExceptSeq
<1>3. TypeOK'
  <2>1. /\ UNCHANGED <<dbs, file, catalog, status, culprit, refused, torn, starts>> /\ pc' = "save"
        /\ changes' \in 0 .. MaxChanges
    BY BoundAssumption DEF ChangeMine, Change, IndInv, TypeOK
  <2>2. QED
    BY <1>1, <1>2, <2>1, CompilesKeeps DEF IndInv, TypeOK
<1>4. DOMAIN Listed' = DOMAIN Listed /\ \A i \in DOMAIN Listed : Listed'[i].name = Listed[i].name
  <2>1. \A i \in DOMAIN descriptors : descriptors'[i].name = descriptors[i].name
    BY <1>2 DEF Mine
  <2>2. dbs' = dbs
    BY DEF ChangeMine
  <2>3. QED
    BY <2>1, <2>2, ListedType DEF IndInv, Listed
<1>5. NamesUnique'
  <2>1. SUFFICES ASSUME ~torn PROVE UniqueNames'
    BY DEF ChangeMine, NamesUnique
  <2>2. UniqueNames /\ UniqueWithin(d) /\ catalog' = catalog
    BY <2>1 DEF IndInv, NamesUnique, ChangeMine
  <2>3. HasNoDuplicates(Listed)' /\ HasNoDuplicates(catalog)'
    BY <1>4, <2>2 DEF UniqueNames, HasNoDuplicates
  <2>4. \A e \in Range(descriptors') : e = d \/ e \in Range(descriptors)
    BY <1>2 DEF Range
  <2>5. \A e \in Range(descriptors) \cup Range(catalog) : UniqueWithin(e)
    BY <2>2 DEF UniqueNames, UniqueWithin
  <2>6. \A e \in Range(descriptors') \cup Range(catalog') : UniqueWithin(e)
    BY <2>2, <2>4, <2>5
  <2>7. QED
    BY <2>3, <2>6 DEF UniqueNames, UniqueWithin, HasNoDuplicates
<1>6. HoldsFirst'
  <2>1. dbs' = dbs /\ \A r \in Sessions : sessions'[r].db = sessions[r].db
    BY <1>1, CompilesKeeps DEF ChangeMine
  <2>2. ASSUME NEW r \in Sessions, NEW i \in DOMAIN dbs, dbs[i] = sessions[r].db
        PROVE  IsFirst(Listed', i)
    <3>1. IsFirst(Listed, i)
      BY <2>2 DEF IndInv, HoldsFirst
    <3>2. i \in DOMAIN Listed /\ \A j \in 1 .. i - 1 : j \in DOMAIN Listed
      BY ListedType DEF IndInv
    <3>3. QED
      BY <1>4, <3>1, <3>2 DEF IsFirst
  <2>3. QED
    BY <2>1, <2>2 DEF HoldsFirst, IsFirst
<1>7. culprit' = culprit /\ FileHolds'
  BY SameFile DEF ChangeMine
<1>8. QED
  BY <1>1, <1>3, <1>5, <1>6, <1>7, CompilesKeeps, NoCulprit DEF IndInv

(* A database with other tables is one, and the same but for them. *)
LEMMA WithTables ==
  ASSUME NEW e \in Database, NEW ts \in Seq(TableNames)
  PROVE  LET f == [e EXCEPT !.tables = ts] IN
         f \in Database /\ f.name = e.name /\ f.users = e.users /\ f.tables = ts
BY DEF Database

LEMMA StepCreateTable ==
  ASSUME IndInv, NEW s \in Sessions, CreateTable(s)
  PROVE  IndInv'
<1>1. PICK t \in TableNames : ~HasTable(s, t) /\ ChangeMine(s, [Mine(s) EXCEPT !.tables = Append(@, t)])
  BY DEF CreateTable
<1>2. Change(s) /\ Request(s)
  BY DEF CreateTable, Change
<1> DEFINE tables == Mine(s).tables
           d == [Mine(s) EXCEPT !.tables = Append(@, t)]
<1>3. Mine(s) \in Database /\ (torn \/ UniqueWithin(Mine(s)))
  BY <1>2, SessionType
<1>4. tables \in Seq(TableNames)
  BY <1>3 DEF Database
<1>5. d \in Database /\ d.name = Mine(s).name /\ d.users = Mine(s).users /\ d.tables = Append(tables, t)
  <2>1. Append(tables, t) \in Seq(TableNames)
    BY <1>4
  <2> QED BY <1>3, <2>1, WithTables
<1>6. ASSUME ~torn PROVE IsInjective(Append(tables, t))
  <2>1. IsInjective(tables) /\ \A i \in 1 .. Len(tables) : tables[i] # t
    BY <1>1, <1>3, <1>6 DEF UniqueWithin, HasTable, Contains
  <2>2. /\ Len(Append(tables, t)) = Len(tables) + 1 /\ Len(tables) \in Nat
        /\ DOMAIN Append(tables, t) = 1 .. Len(tables) + 1
        /\ \A i \in 1 .. Len(tables) + 1 : Append(tables, t)[i] = IF i <= Len(tables) THEN tables[i] ELSE t
    BY <1>4
  <2> HIDE DEF tables
  <2>3. ASSUME NEW i \in 1 .. Len(tables) + 1, NEW j \in 1 .. Len(tables) + 1,
               Append(tables, t)[i] = Append(tables, t)[j]
        PROVE  i = j
    <3>1. DOMAIN tables = 1 .. Len(tables)
      BY <1>4
    <3>2. CASE i <= Len(tables) /\ j <= Len(tables)
      <4>1. tables[i] = tables[j] /\ i \in DOMAIN tables /\ j \in DOMAIN tables
        BY <2>2, <2>3, <3>1, <3>2
      <4>2. QED
        BY <2>1, <4>1 DEF IsInjective
    <3>3. CASE i <= Len(tables) /\ ~(j <= Len(tables))
      BY <2>1, <2>2, <2>3, <3>3
    <3>4. CASE ~(i <= Len(tables)) /\ j <= Len(tables)
      BY <2>1, <2>2, <2>3, <3>4
    <3>5. CASE ~(i <= Len(tables)) /\ ~(j <= Len(tables))
      BY <2>2, <3>5
    <3>6. QED
      BY <3>2, <3>3, <3>4, <3>5
  <2>4. QED
    BY <2>2, <2>3 DEF IsInjective
<1>7. torn \/ UniqueWithin(d)
  BY <1>3, <1>5, <1>6 DEF UniqueWithin
<1> HIDE DEF d
<1>8. ChangeMine(s, d)
  BY <1>1 DEF d
<1>9. QED
  BY <1>2, <1>5, <1>7, <1>8, StepChangeMine

LEMMA StepDropTable ==
  ASSUME IndInv, NEW s \in Sessions, DropTable(s)
  PROVE  IndInv'
<1>1. PICK i \in DOMAIN Mine(s).tables :
        ChangeMine(s, [Mine(s) EXCEPT !.tables = RemoveAt(Mine(s).tables, i)])
  BY DEF DropTable
<1>2. Change(s) /\ Request(s)
  BY DEF DropTable, Change
<1> DEFINE left == RemoveAt(Mine(s).tables, i)
           d == [Mine(s) EXCEPT !.tables = left]
<1>3. Mine(s) \in Database /\ (torn \/ UniqueWithin(Mine(s))) /\ Mine(s).tables \in Seq(TableNames)
  BY <1>2, SessionType DEF Database
<1>4. left \in Seq(TableNames) /\ (torn \/ IsInjective(left))
  BY <1>3, RemovedAt, RemovedInjective DEF UniqueWithin
<1>5. ChangeMine(s, d)
  BY <1>1
<1> HIDE DEF left
<1>6. d \in Database /\ d.name = Mine(s).name /\ d.users = Mine(s).users /\ d.tables = left
  BY <1>3, <1>4 DEF Database
<1>7. torn \/ UniqueWithin(d)
  BY <1>3, <1>4, <1>6 DEF UniqueWithin
<1> HIDE DEF d
<1>8. QED
  BY <1>2, <1>5, <1>6, <1>7, StepChangeMine

LEMMA StepCreateUser ==
  ASSUME IndInv, NEW s \in Sessions, CreateUser(s)
  PROVE  IndInv'
<1>1. PICK u \in UserNames \ Names(Mine(s).users) :
        ChangeMine(s, [Mine(s) EXCEPT !.users = <<NewUser(u)>> \o @])
  BY DEF CreateUser
<1>2. Change(s) /\ Request(s)
  BY DEF CreateUser, Change
<1> DEFINE old == Mine(s).users
           users == <<NewUser(u)>> \o old
           d == [Mine(s) EXCEPT !.users = users]
<1>3. Mine(s) \in Database /\ (torn \/ UniqueWithin(Mine(s))) /\ old \in Seq(User)
  BY <1>2, SessionType DEF Database
<1>4. NewUser(u) \in User /\ NewUser(u).name = u
  BY NameAssumption DEF NewUser, User
<1>5. /\ users \in Seq(User) /\ Len(old) \in Nat
      /\ DOMAIN users = 1 .. Len(old) + 1 /\ DOMAIN old = 1 .. Len(old)
      /\ \A i \in 1 .. Len(old) + 1 : users[i] = IF i = 1 THEN NewUser(u) ELSE old[i - 1]
  <2> HIDE DEF old
  <2> DEFINE one == <<NewUser(u)>>
  <2>1. one \in Seq(User) /\ Len(one) = 1 /\ one[1] = NewUser(u)
    BY <1>4
  <2>2. Len(old) \in Nat /\ DOMAIN old = 1 .. Len(old)
    BY <1>3
  <2> HIDE DEF one
  <2>3. /\ one \o old \in Seq(User) /\ Len(one \o old) = Len(one) + Len(old)
        /\ \A i \in 1 .. Len(one) + Len(old) :
             (one \o old)[i] = IF i <= Len(one) THEN one[i] ELSE old[i - Len(one)]
    <3>1. one \in Seq(User) /\ old \in Seq(User)
      BY <1>3, <2>1
    <3>2. QED
      BY <3>1, ConcatProperties
  <2>4. QED
    BY <2>1, <2>2, <2>3 DEF one
<1> HIDE DEF users
<1>6. ASSUME ~torn PROVE HasNoDuplicates(users)
  <2>1. HasNoDuplicates(old) /\ \A i \in DOMAIN old : old[i].name # u
    BY <1>3, <1>6 DEF UniqueWithin, Names
  <2> HIDE DEF old
  <2>2. ASSUME NEW i \in DOMAIN users, NEW j \in DOMAIN users, users[i].name = users[j].name
        PROVE  i = j
    <3>1. CASE i = 1 /\ j = 1
      BY <3>1
    <3>2. CASE i = 1 /\ j # 1
      <4>1. j - 1 \in DOMAIN old /\ users[j] = old[j - 1]
        BY <1>5, <3>2
      <4>2. QED
        BY <1>4, <1>5, <2>1, <2>2, <3>2, <4>1
    <3>3. CASE i # 1 /\ j = 1
      <4>1. i - 1 \in DOMAIN old /\ users[i] = old[i - 1]
        BY <1>5, <3>3
      <4>2. QED
        BY <1>4, <1>5, <2>1, <2>2, <3>3, <4>1
    <3>4. CASE i # 1 /\ j # 1
      <4>1. /\ i - 1 \in DOMAIN old /\ users[i] = old[i - 1]
            /\ j - 1 \in DOMAIN old /\ users[j] = old[j - 1]
        BY <1>5, <3>4
      <4>2. i - 1 = j - 1
        BY <2>1, <2>2, <4>1 DEF HasNoDuplicates
      <4>3. QED
        BY <1>5, <4>2
    <3>5. QED
      BY <3>1, <3>2, <3>3, <3>4
  <2>3. QED
    BY <2>2 DEF HasNoDuplicates
<1>7. ChangeMine(s, d)
  BY <1>1 DEF users
<1>8. d \in Database /\ d.name = Mine(s).name /\ d.users = users /\ d.tables = Mine(s).tables
  BY <1>3, <1>5 DEF Database
<1>9. torn \/ UniqueWithin(d)
  BY <1>3, <1>6, <1>8 DEF UniqueWithin
<1> HIDE DEF d
<1>10. QED
  BY <1>2, <1>7, <1>8, <1>9, StepChangeMine

LEMMA StepAlterUser ==
  ASSUME IndInv, NEW s \in Sessions, AlterUser(s)
  PROVE  IndInv'
<1>1. PICK u \in Names(Mine(s).users), p \in Passwords :
        ChangeMine(s, [Mine(s) EXCEPT !.users[FirstNamed(Mine(s).users, u)].password = p])
  BY DEF AlterUser
<1>2. Change(s) /\ Request(s)
  BY DEF AlterUser, Change
<1> DEFINE old == Mine(s).users
<1>3. Mine(s) \in Database /\ (torn \/ UniqueWithin(Mine(s))) /\ old \in Seq(User)
  BY <1>2, SessionType DEF Database
<1> DEFINE k == FirstNamed(old, u)
<1>4. DOMAIN old = 1 .. Len(old) /\ Len(old) \in Nat
  <2> HIDE DEF old
  <2>1. QED
    BY <1>3
<1>5. k \in DOMAIN old /\ old[k] \in User
  <2>1. k \in DOMAIN old
    BY <1>4, FirstNamedThere
  <2> HIDE DEF k, old
  <2>2. QED
    BY <1>3, <1>4, <2>1
<1>6. ChangeMine(s, [Mine(s) EXCEPT !.users[k].password = p])
  BY <1>1
<1> HIDE DEF k
<1> DEFINE user == [old[k] EXCEPT !.password = p]
           users == [old EXCEPT ![k] = user]
           d == [Mine(s) EXCEPT !.users = users]
<1>7. ChangeMine(s, d)
  BY <1>6
<1>8. user \in User /\ user.name = old[k].name
  BY <1>5 DEF User
<1> HIDE DEF user
<1>9. /\ users \in Seq(User) /\ DOMAIN users = DOMAIN old
      /\ \A i \in DOMAIN old : users[i] = IF i = k THEN user ELSE old[i]
  <2> HIDE DEF old
  <2>1. QED
    BY <1>3, <1>4, <1>5, <1>8, ExceptSeq
<1> HIDE DEF users
<1>10. torn \/ HasNoDuplicates(users)
  BY <1>3, <1>8, <1>9 DEF UniqueWithin, HasNoDuplicates
<1>11. d \in Database /\ d.name = Mine(s).name /\ d.users = users /\ d.tables = Mine(s).tables
  BY <1>3, <1>9 DEF Database
<1>12. torn \/ UniqueWithin(d)
  BY <1>3, <1>10, <1>11 DEF UniqueWithin
<1> HIDE DEF d
<1>13. QED
  BY <1>2, <1>7, <1>11, <1>12, StepChangeMine

(* The new database is the first of the list, and no other has its name.   *)
LEMMA StepCreateDatabase ==
  ASSUME IndInv, NEW s \in Sessions, CreateDatabase(s)
  PROVE  IndInv'
<1> DEFINE new == Len(descriptors) + 1
<1>1. PICK n \in DbNames \ Names(Listed) : descriptors' = Append(descriptors, NewDatabase(n))
  BY DEF CreateDatabase
<1>2. /\ Request(s) /\ Compiles(s) /\ status = "up" /\ changes' \in 0 .. MaxChanges
      /\ dbs' = <<new>> \o dbs
      /\ UNCHANGED <<file, catalog, pc, status, culprit, refused, torn, starts>>
  BY BoundAssumption DEF CreateDatabase, Change, Request, IndInv, TypeOK
<1>3. NewDatabase(n) \in Database /\ NewDatabase(n).name = n /\ UniqueWithin(NewDatabase(n))
  <2>1. NewDatabase(n) \in Database /\ NewDatabase(n).name = n
    BY DEF NewDatabase, Database
  <2>2. NewDatabase(n).users = <<>> /\ NewDatabase(n).tables = <<>>
    BY DEF NewDatabase
  <2>3. QED
    BY <2>1, <2>2 DEF UniqueWithin, HasNoDuplicates, IsInjective
<1>4. /\ Len(descriptors) \in Nat /\ DOMAIN descriptors = 1 .. Len(descriptors)
      /\ descriptors' \in Seq(Database)
      /\ DOMAIN descriptors' = 1 .. new
      /\ descriptors'[new] = NewDatabase(n)
      /\ \A k \in DOMAIN descriptors : descriptors'[k] = descriptors[k]
  <2>1. descriptors \in Seq(Database)
    BY DEF IndInv, TypeOK
  <2>2. QED
    BY <1>1, <1>3, <2>1
<1>5. /\ dbs \in Seq(1 .. new) /\ Len(dbs) \in Nat /\ DOMAIN dbs = 1 .. Len(dbs)
      /\ \A i \in DOMAIN dbs : dbs[i] \in DOMAIN descriptors
      /\ IsInjective(dbs)
  <2>1. dbs \in Seq(DOMAIN descriptors) /\ DOMAIN descriptors \subseteq 1 .. new
    BY <1>4 DEF IndInv, TypeOK
  <2>2. dbs \in Seq(1 .. new)
    BY <2>1, SeqMonotonic
  <2>3. QED
    BY <2>1, <2>2 DEF IndInv, TypeOK
<1>6. /\ dbs' \in Seq(DOMAIN descriptors')
      /\ DOMAIN dbs' = 1 .. Len(dbs) + 1
      /\ dbs'[1] = new
      /\ \A i \in DOMAIN dbs' : i # 1 => i - 1 \in DOMAIN dbs /\ dbs'[i] = dbs[i - 1]
  <2> DEFINE one == <<new>>
  <2>1. one \in Seq(1 .. new) /\ Len(one) = 1 /\ one[1] = new
    BY <1>4
  <2>2. dbs' = one \o dbs
    BY <1>2
  <2> HIDE DEF one, new
  <2>3. /\ one \o dbs \in Seq(1 .. new) /\ Len(one \o dbs) = 1 + Len(dbs)
        /\ \A i \in 1 .. 1 + Len(dbs) : (one \o dbs)[i] = IF i <= 1 THEN one[i] ELSE dbs[i - 1]
    <3>1. one \in Seq(1 .. new) /\ dbs \in Seq(1 .. new)
      BY <1>5, <2>1
    <3>2. /\ one \o dbs \in Seq(1 .. new) /\ Len(one \o dbs) = Len(one) + Len(dbs)
          /\ \A i \in 1 .. Len(one) + Len(dbs) :
               (one \o dbs)[i] = IF i <= Len(one) THEN one[i] ELSE dbs[i - Len(one)]
      BY <3>1, ConcatProperties
    <3>3. QED
      BY <2>1, <3>2
  <2>4. DOMAIN dbs' = 1 .. Len(dbs) + 1
    BY <1>5, <2>2, <2>3
  <2>5. QED
    BY <1>4, <1>5, <2>1, <2>2, <2>3, <2>4
<1>7. IsInjective(dbs')
  <2>1. ASSUME NEW i \in DOMAIN dbs', NEW j \in DOMAIN dbs', dbs'[i] = dbs'[j]
        PROVE  i = j
    <3>1. \A m \in DOMAIN dbs' : m # 1 => dbs'[m] # new
      BY <1>4, <1>5, <1>6
    <3>2. CASE i = 1 \/ j = 1
      BY <1>6, <2>1, <3>1, <3>2
    <3>3. CASE i # 1 /\ j # 1
      <4>1. i - 1 = j - 1
        BY <1>5, <1>6, <2>1, <3>3 DEF IsInjective
      <4>2. QED
        BY <1>6, <4>1
    <3>4. QED
      BY <3>2, <3>3
  <2>2. QED
    BY <2>1 DEF IsInjective
<1>8. TypeOK'
  <2>1. sessions' \in [Sessions -> [db : {0} \cup DOMAIN descriptors', active : Nat, admin : BOOLEAN]]
    <3> DEFINE Old == [db : {0} \cup DOMAIN descriptors, active : Nat, admin : BOOLEAN]
               New == [db : {0} \cup DOMAIN descriptors', active : Nat, admin : BOOLEAN]
    <3>1. Old \subseteq New
      BY <1>4
    <3>2. sessions' \in [Sessions -> Old]
      BY <1>2, CompilesKeeps
    <3> HIDE DEF Old, New
    <3>3. sessions' \in [Sessions -> New]
      BY <3>1, <3>2
    <3>4. QED
      BY <3>3 DEF New
  <2>2. QED
    BY <1>2, <1>4, <1>6, <1>7, <2>1 DEF IndInv, TypeOK
<1>9. /\ DOMAIN Listed' = DOMAIN dbs' /\ Listed'[1].name = n
      /\ \A i \in DOMAIN dbs' : i # 1 => i - 1 \in DOMAIN Listed /\ Listed'[i] = Listed[i - 1]
      /\ \A i \in DOMAIN Listed : Listed[i].name # n
  <2> HIDE DEF new
  <2>1. DOMAIN Listed' = DOMAIN dbs' /\ Listed'[1].name = n
    BY <1>3, <1>4, <1>5, <1>6 DEF Listed
  <2>2. \A i \in DOMAIN dbs' : i # 1 => i - 1 \in DOMAIN Listed /\ Listed'[i] = Listed[i - 1]
    BY <1>4, <1>5, <1>6 DEF Listed
  <2>3. \A i \in DOMAIN Listed : Listed[i].name # n
    BY DEF Names
  <2>4. QED
    BY <2>1, <2>2, <2>3
<1>10. NamesUnique'
  <2> HIDE DEF new
  <2>1. SUFFICES ASSUME ~torn PROVE UniqueNames'
    BY <1>2 DEF NamesUnique
  <2>2. UniqueNames
    BY <2>1 DEF IndInv, NamesUnique
  <2>3. ASSUME NEW i \in DOMAIN dbs', NEW j \in DOMAIN dbs', Listed'[i].name = Listed'[j].name
        PROVE  i = j
    <3>1. CASE i = 1 \/ j = 1
      BY <1>9, <2>3, <3>1
    <3>2. CASE i # 1 /\ j # 1
      <4>1. i - 1 = j - 1
        BY <1>9, <2>2, <2>3, <3>2 DEF UniqueNames, HasNoDuplicates
      <4>2. QED
        BY <1>6, <4>1
    <3>3. QED
      BY <3>1, <3>2
  <2>4. HasNoDuplicates(Listed)' /\ HasNoDuplicates(catalog)'
    BY <1>2, <1>9, <2>2, <2>3 DEF HasNoDuplicates, UniqueNames
  <2>5. \A d \in Range(descriptors') : d = NewDatabase(n) \/ d \in Range(descriptors)
    <3>1. \A k \in DOMAIN descriptors' : k = new \/ k \in DOMAIN descriptors
      BY <1>4 DEF new
    <3>2. QED
      BY <1>4, <3>1 DEF Range
  <2>6. \A d \in Range(descriptors) \cup Range(catalog) : UniqueWithin(d)
    BY <2>2 DEF UniqueNames, UniqueWithin
  <2>7. \A d \in Range(descriptors') \cup Range(catalog') : UniqueWithin(d)
    BY <1>2, <1>3, <2>5, <2>6
  <2>8. QED
    BY <2>4, <2>7 DEF UniqueNames, UniqueWithin, HasNoDuplicates
<1>11. HoldsFirst'
  <2>1. ASSUME NEW r \in Sessions, NEW i \in DOMAIN dbs', dbs'[i] = sessions'[r].db
        PROVE  IsFirst(Listed', i)
    <3>1. sessions'[r].db = sessions[r].db /\ sessions[r].db # new
      <4>1. sessions'[r].db = sessions[r].db
        BY <1>2, CompilesKeeps
      <4>2. sessions[r].db \in {0} \cup DOMAIN descriptors
        BY DEF IndInv, TypeOK
      <4>3. QED
        BY <1>4, <4>1, <4>2
    <3> HIDE DEF new
    <3>2. i # 1 /\ i - 1 \in DOMAIN dbs /\ dbs[i - 1] = sessions[r].db
      BY <1>6, <2>1, <3>1
    <3>3. IsFirst(Listed, i - 1) /\ i - 1 \in DOMAIN Listed /\ i \in Nat
      BY <1>6, <3>2, ListedType DEF IndInv, HoldsFirst
    <3>4. Listed'[i] = Listed[i - 1] /\ Listed[i - 1].name # n
      BY <1>9, <3>2, <3>3
    <3>5. ASSUME NEW j \in 1 .. i - 1
          PROVE  Listed'[j].name # Listed'[i].name
      <4>1. CASE j = 1
        BY <1>9, <3>4, <4>1
      <4>2. CASE j # 1
        <5>1. j \in DOMAIN dbs' /\ j - 1 \in 1 .. (i - 1) - 1
          BY <1>5, <1>6, <3>3, <4>2
        <5>2. Listed'[j] = Listed[j - 1]
          BY <1>9, <4>2, <5>1
        <5>3. QED
          BY <3>3, <3>4, <5>1, <5>2 DEF IsFirst
      <4>3. QED
        BY <4>1, <4>2
    <3>6. QED
      BY <3>5 DEF IsFirst
  <2>2. QED
    BY <2>1 DEF HoldsFirst, IsFirst
<1>12. QED
  BY <1>2, <1>8, <1>10, <1>11, CompilesKeeps, SameFile, NoCulprit DEF IndInv

LEMMA StepDropDatabase ==
  ASSUME IndInv, NEW s \in Sessions, DropDatabase(s)
  PROVE  IndInv'
<1>1. PICK n \in Names(Listed) :
        dbs' = IF FirstNamed(Listed, n) = 1 THEN <<>> ELSE RemoveAt(dbs, FirstNamed(Listed, n))
  BY DEF DropDatabase
<1> DEFINE k == FirstNamed(Listed, n)
<1>2. k \in DOMAIN dbs /\ Listed[k].name = n
  BY ListedType, FirstNamedThere DEF IndInv
<1>3. dbs' = IF k = 1 THEN <<>> ELSE RemoveAt(dbs, k)
  BY <1>1
<1> HIDE DEF k
<1>4. /\ Request(s) /\ Compiles(s) /\ status = "up" /\ pc' = "save" /\ changes' \in 0 .. MaxChanges
      /\ UNCHANGED <<descriptors, file, catalog, status, culprit, refused, torn, starts>>
  BY BoundAssumption DEF DropDatabase, Change, Request, IndInv, TypeOK
<1>5. dbs \in Seq(DOMAIN descriptors) /\ IsInjective(dbs) /\ k \in DOMAIN dbs
  BY <1>2 DEF IndInv, TypeOK
<1> DEFINE From(i) == IF i < k THEN i ELSE i + 1
<1>6. \/ dbs' = <<>>
      \/ /\ dbs' \in Seq(DOMAIN descriptors) /\ IsInjective(dbs')
         /\ \A i \in DOMAIN dbs' : From(i) \in DOMAIN dbs /\ dbs'[i] = dbs[From(i)]
  <2>1. CASE k # 1
    <3>1. dbs' = RemoveAt(dbs, k)
      BY <1>3, <2>1
    <3>2. dbs' \in Seq(DOMAIN descriptors) /\ DOMAIN dbs' = 1 .. Len(dbs) - 1
      BY <1>5, <3>1, RemovedAt
    <3>3. \A i \in 1 .. Len(dbs) - 1 : dbs'[i] = dbs[From(i)]
      BY <1>5, <3>1, RemovedAt
    <3>4. \A i \in 1 .. Len(dbs) - 1 : From(i) \in DOMAIN dbs
      BY <1>5
    <3>5. QED
      BY <1>5, <3>1, <3>2, <3>3, <3>4, RemovedInjective
  <2>2. QED
    BY <1>3, <2>1
<1>7. dbs' \in Seq(DOMAIN descriptors) /\ IsInjective(dbs') /\ DOMAIN dbs' = 1 .. Len(dbs')
  <2>1. CASE dbs' = <<>>
    <3>1. IsInjective(<<>>)
      BY DEF IsInjective
    <3>2. <<>> \in Seq(DOMAIN descriptors)
      OBVIOUS
    <3>3. QED
      BY <2>1, <3>1, <3>2
  <2>2. CASE dbs' # <<>>
    BY <1>6, <2>2
  <2>3. QED
    BY <2>1, <2>2
<1>8. TypeOK'
  BY <1>4, <1>7, CompilesKeeps DEF IndInv, TypeOK
<1>9. dbs' # <<>> =>
        /\ DOMAIN Listed' = DOMAIN dbs'
        /\ \A i \in DOMAIN dbs' : From(i) \in DOMAIN Listed /\ Listed'[i] = Listed[From(i)]
  BY <1>4, <1>6 DEF Listed
<1>10. NamesUnique'
  <2>1. SUFFICES ASSUME ~torn PROVE UniqueNames'
    BY <1>4 DEF NamesUnique
  <2>2. UniqueNames
    BY <2>1 DEF IndInv, NamesUnique
  <2>3. HasNoDuplicates(Listed)'
    <3>1. CASE dbs' = <<>>
      BY <3>1 DEF Listed, HasNoDuplicates
    <3>2. CASE dbs' # <<>>
      <4>1. \A i, j \in DOMAIN dbs' : From(i) = From(j) => i = j
        <5>1. \A i \in DOMAIN dbs' : i \in Int
          BY <1>7
        <5>2. k \in Int
          BY <1>5
        <5>3. QED
          BY <5>1, <5>2
      <4> HIDE DEF From
      <4>2. QED
        BY <1>9, <2>2, <3>2, <4>1 DEF UniqueNames, HasNoDuplicates
    <3>3. QED
      BY <3>1, <3>2
  <2>4. QED
    BY <1>4, <2>2, <2>3 DEF UniqueNames, HasNoDuplicates
<1>11. HoldsFirst'
  <2>1. ASSUME NEW r \in Sessions, NEW i \in DOMAIN dbs', dbs'[i] = sessions'[r].db
        PROVE  IsFirst(Listed', i)
    <3>1. dbs' # <<>>
      BY <2>1
    <3>2. From(i) \in DOMAIN dbs /\ dbs[From(i)] = sessions[r].db
      BY <1>4, <1>6, <2>1, <3>1, CompilesKeeps
    <3>3. IsFirst(Listed, From(i))
      BY <3>2 DEF IndInv, HoldsFirst
    <3>4. ASSUME NEW j \in 1 .. i - 1
          PROVE  Listed'[j].name # Listed'[i].name
      <4>1. j \in DOMAIN dbs' /\ i \in Int /\ k \in Int /\ From(i) \in Int
        BY <1>5, <1>7, <3>2
      <4>2. From(j) \in 1 .. From(i) - 1
        <5>1. 1 <= From(j) /\ From(j) < From(i)
          BY <1>5, <1>7, <4>1
        <5>2. From(j) \in Int
          BY <4>1
        <5>3. QED
          BY <4>1, <5>1, <5>2
      <4> HIDE DEF From
      <4>3. Listed'[j] = Listed[From(j)] /\ Listed'[i] = Listed[From(i)]
        BY <1>9, <3>1, <4>1
      <4>4. QED
        BY <3>3, <4>2, <4>3 DEF IsFirst
    <3>5. QED
      BY <3>4 DEF IsFirst
  <2>2. QED
    BY <2>1 DEF HoldsFirst, IsFirst
<1>12. QED
  BY <1>4, <1>8, <1>10, <1>11, CompilesKeeps, SameFile, NoCulprit DEF IndInv

LEMMA StepConnect ==
  ASSUME IndInv, NEW s \in Sessions, Connect(s)
  PROVE  IndInv'
<1> DEFINE SessionSet == [db : {0} \cup DOMAIN descriptors, active : Nat, admin : BOOLEAN]
<1>1. PICK n \in Names(Listed), u \in UserNames :
        LET i     == FirstNamed(Listed, n)
            users == Listed[i].users
            user  == users[FirstNamed(users, u)] IN
        /\ u \in Names(users)
        /\ sessions' = [sessions EXCEPT ![s] = [db |-> dbs[i], active |-> 1, admin |-> user.admin]]
  BY DEF Connect
<1> DEFINE i == FirstNamed(Listed, n)
           users == Listed[i].users
           k == FirstNamed(users, u)
<1>2. i \in DOMAIN dbs /\ IsFirst(Listed, i)
  BY ListedType, FirstNamedThere DEF IndInv
<1>3. u \in Names(users)
      /\ sessions' = [sessions EXCEPT ![s] = [db |-> dbs[i], active |-> 1, admin |-> users[k].admin]]
  BY <1>1
<1> HIDE DEF i
<1>4. users \in Seq(User)
  <2>1. Listed[i] \in Database
    BY <1>2, ListedType DEF IndInv
  <2>2. QED
    BY <2>1 DEF Database
<1>5. DOMAIN users = 1 .. Len(users) /\ Len(users) \in Nat
  <2> HIDE DEF users
  <2>1. QED
    BY <1>4
<1>6. users[k] \in User
  <2>1. k \in DOMAIN users
    BY <1>3, <1>5, FirstNamedThere
  <2> HIDE DEF users, k
  <2>2. QED
    BY <1>4, <1>5, <2>1
<1> HIDE DEF k
<1> DEFINE opened == [db |-> dbs[i], active |-> 1, admin |-> users[k].admin]
<1>7. sessions' = [sessions EXCEPT ![s] = opened]
  BY <1>3
<1>8. opened \in SessionSet /\ opened.db # 0
  BY <1>2, <1>6, ListedType DEF User, IndInv, TypeOK
<1> HIDE DEF opened, SessionSet
<1>9. /\ sessions \in [Sessions -> SessionSet]
      /\ UNCHANGED <<descriptors, dbs, file, catalog, pc, status, culprit, refused, torn, changes, starts>>
      /\ status = "up"
  BY DEF IndInv, TypeOK, Connect, SessionSet
<1>10. sessions' \in [Sessions -> SessionSet]
       /\ \A r \in Sessions : sessions'[r] = IF r = s THEN opened ELSE sessions[r]
  BY <1>7, <1>8, <1>9
<1>11. TypeOK'
  BY <1>9, <1>10 DEF IndInv, TypeOK, SessionSet
<1>12. ClosedHasNone'
  BY <1>8, <1>10 DEF IndInv, ClosedHasNone
<1>13. HoldsFirst'
  <2>1. Listed' = Listed
    BY <1>9 DEF Listed
  <2>2. ASSUME NEW r \in Sessions, NEW j \in DOMAIN dbs, dbs[j] = sessions'[r].db
        PROVE  IsFirst(Listed, j)
    <3>1. CASE r = s
      <4>1. dbs[j] = dbs[i]
        BY <1>10, <2>2, <3>1 DEF opened
      <4>2. j = i
        BY <1>2, <4>1 DEF IndInv, TypeOK, IsInjective
      <4>3. QED
        BY <1>2, <4>2
    <3>2. CASE r # s
      BY <1>10, <2>2, <3>2 DEF IndInv, HoldsFirst
    <3>3. QED
      BY <3>1, <3>2
  <2>3. QED
    BY <1>9, <2>1, <2>2 DEF HoldsFirst, IsFirst
<1>14. QED
  BY <1>9, <1>11, <1>12, <1>13, SameNames, NoCulprit DEF IndInv

LEMMA StepExpire ==
  ASSUME IndInv, NEW s \in Sessions, Expire(s)
  PROVE  IndInv'
<1> DEFINE SessionSet == [db : {0} \cup DOMAIN descriptors, active : Nat, admin : BOOLEAN]
<1>1. /\ UNCHANGED <<descriptors, dbs, file, catalog, pc, status, culprit, refused, torn, changes, starts>>
      /\ status = "up"
  BY DEF Expire, Request
<1>2. sessions \in [Sessions -> SessionSet] /\ NoSession \in SessionSet
  BY DEF IndInv, TypeOK, NoSession
<1> HIDE DEF SessionSet
<1>3. sessions' \in [Sessions -> SessionSet]
      /\ \A r \in Sessions : sessions'[r] = IF r = s THEN NoSession ELSE sessions[r]
  BY <1>2 DEF Expire
<1>4. TypeOK'
  BY <1>1, <1>3 DEF IndInv, TypeOK, SessionSet
<1>5. ClosedHasNone'
  BY <1>3 DEF IndInv, ClosedHasNone
<1>6. HoldsFirst'
  BY <1>1, <1>3, SameHolders DEF NoSession
<1>7. QED
  BY <1>1, <1>4, <1>5, <1>6, SameNames, NoCulprit DEF IndInv

LEMMA StepAnswer ==
  ASSUME IndInv, NEW s \in Sessions, Answer(s)
  PROVE  IndInv'
<1>1. /\ UNCHANGED <<descriptors, dbs, file, catalog, pc, status, culprit, refused, torn, changes, starts>>
      /\ status = "up" /\ Request(s) /\ Compiles(s)
  BY DEF Answer, Request
<1>2. TypeOK'
  BY <1>1, CompilesKeeps DEF IndInv, TypeOK
<1>3. QED
  BY <1>1, <1>2, CompilesKeeps, SameNames, NoCulprit DEF IndInv

LEMMA StepUseDatabase ==
  ASSUME IndInv, NEW s \in Sessions, UseDatabase(s)
  PROVE  IndInv'
<1> DEFINE SessionSet == [db : {0} \cup DOMAIN descriptors, active : Nat, admin : BOOLEAN]
<1>1. /\ UNCHANGED <<descriptors, dbs, file, catalog, pc, status, culprit, refused, torn, changes, starts>>
      /\ status = "up" /\ Request(s)
  BY DEF UseDatabase, Request
<1>2. PICK n \in Names(Listed) :
        LET i == FirstNamed(Listed, n) IN
        sessions' = [sessions EXCEPT ![s] = [db |-> dbs[i], active |-> i, admin |-> sessions[s].admin]]
  BY DEF UseDatabase
<1> DEFINE i == FirstNamed(Listed, n)
           moved == [db |-> dbs[i], active |-> i, admin |-> sessions[s].admin]
<1>3. i \in DOMAIN dbs /\ IsFirst(Listed, i)
  BY ListedType, FirstNamedThere DEF IndInv
<1>4. sessions' = [sessions EXCEPT ![s] = moved]
  BY <1>2
<1> HIDE DEF i
<1>6. moved \in SessionSet /\ moved.db # 0
  BY <1>1, <1>3, SessionType, ListedType DEF IndInv, TypeOK
<1>7. sessions \in [Sessions -> SessionSet]
  BY DEF IndInv, TypeOK
<1> HIDE DEF moved, SessionSet
<1>8. sessions' \in [Sessions -> SessionSet]
      /\ \A r \in Sessions : sessions'[r] = IF r = s THEN moved ELSE sessions[r]
  BY <1>4, <1>6, <1>7
<1>9. TypeOK'
  BY <1>1, <1>8 DEF IndInv, TypeOK, SessionSet
<1>10. ClosedHasNone'
  BY <1>6, <1>8 DEF IndInv, ClosedHasNone
<1>11. HoldsFirst'
  <2>1. Listed' = Listed
    BY <1>1 DEF Listed
  <2>2. ASSUME NEW r \in Sessions, NEW j \in DOMAIN dbs, dbs[j] = sessions'[r].db
        PROVE  IsFirst(Listed, j)
    <3>1. CASE r = s
      <4>1. dbs[j] = dbs[i]
        BY <1>8, <2>2, <3>1 DEF moved
      <4>2. j = i
        BY <1>3, <4>1 DEF IndInv, TypeOK, IsInjective
      <4>3. QED
        BY <1>3, <4>2
    <3>2. CASE r # s
      BY <1>8, <2>2, <3>2 DEF IndInv, HoldsFirst
    <3>3. QED
      BY <3>1, <3>2
  <2>3. QED
    BY <1>1, <2>1, <2>2 DEF HoldsFirst, IsFirst
<1>12. QED
  BY <1>1, <1>9, <1>10, <1>11, SameNames, NoCulprit DEF IndInv

(* The parts of a save: only the last writes the catalog as it will be read. *)
LEMMA SaveEndsHas ==
  ASSUME IndInv, SaveEnds
  PROVE  file' \in File /\ Readable(file') /\ catalog' = Contents(file') /\ catalog' = Listed
<1>1. file \in File /\ Listed \in Seq(Database)
  BY ListedType DEF IndInv, TypeOK
<1>2. file' = Written(file, Listed, SizeOf(Listed)) /\ catalog' = Contents(file')
  BY DEF SaveEnds, Saved
<1>3. QED
  BY <1>1, <1>2, SizeIs, WrittenType, ReadBack

LEMMA StepSave ==
  ASSUME IndInv, SaveRefused \/ SaveBegins \/ SaveEnds
  PROVE  IndInv'
<1>1. UNCHANGED <<descriptors, dbs, sessions, status, culprit, torn, changes, starts>> /\ status = "up"
      /\ pc' \in {"idle", "save", "writing"} /\ refused' \in BOOLEAN
  BY DEF SaveRefused, SaveBegins, SaveEnds, IndInv, TypeOK
<1>2. CASE SaveRefused \/ SaveBegins
  <2>1. UNCHANGED <<file, catalog>>
    BY <1>2 DEF SaveRefused, SaveBegins
  <2>2. TypeOK'
    BY <1>1, <2>1 DEF IndInv, TypeOK
  <2>3. ClosedHasNone' /\ HoldsFirst'
    BY <1>1, SameHolders DEF IndInv, ClosedHasNone
  <2>4. QED
    BY <1>1, <2>1, <2>2, <2>3, SameNames, NoCulprit DEF IndInv
<1>3. CASE SaveEnds
  <2>1. file' \in File /\ Readable(file') /\ catalog' = Contents(file') /\ catalog' = Listed
    BY <1>3, SaveEndsHas
  <2>2. TypeOK'
    BY <1>1, <2>1, ListedType DEF IndInv, TypeOK
  <2>3. FileHolds'
    BY <2>1 DEF FileHolds
  <2>4. NamesUnique'
    <3>1. SUFFICES ASSUME ~torn PROVE UniqueNames'
      BY <1>1 DEF NamesUnique
    <3>2. UniqueNames /\ Listed' = Listed
      BY <1>1, <3>1 DEF IndInv, NamesUnique, Listed
    <3>3. Range(Listed) \subseteq Range(descriptors)
      BY ListedType DEF IndInv, Range
    <3>4. HasNoDuplicates(Listed)' /\ HasNoDuplicates(catalog)'
      BY <2>1, <3>2 DEF UniqueNames, HasNoDuplicates
    <3>5. \A d \in Range(descriptors') \cup Range(catalog') : d \in Range(descriptors)
      BY <1>1, <2>1, <3>3
    <3>6. QED
      BY <3>2, <3>4, <3>5 DEF UniqueNames, HasNoDuplicates
  <2>5. ClosedHasNone' /\ HoldsFirst'
    BY <1>1, SameHolders DEF IndInv, ClosedHasNone
  <2>6. QED
    BY <1>1, <2>2, <2>3, <2>4, <2>5, NoCulprit DEF IndInv
<1>4. QED
  BY <1>2, <1>3

LEMMA StepStop ==
  ASSUME IndInv, Stop
  PROVE  IndInv'
<1>1. UNCHANGED <<descriptors, dbs, file, catalog, sessions, pc, culprit, refused, torn, changes, starts>>
      /\ status = "up" /\ status' = "stopped"
  BY DEF Stop
<1>2. culprit' = {}
  BY <1>1, NoCulprit
<1>3. TypeOK'
  BY <1>1 DEF IndInv, TypeOK
<1>4. ClosedHasNone' /\ HoldsFirst'
  BY <1>1, SameHolders DEF IndInv, ClosedHasNone
<1>5. QED
  BY <1>1, <1>2, <1>3, <1>4, SameNames DEF IndInv, CulpritDown, TrapOnlyAfterDrop

(* Where a save is stopped the file is still one that can be described, and
   if it is not torn it has a list that was unique before.                 *)
LEMMA StopSavingHas ==
  ASSUME IndInv, StopSaving
  PROVE  /\ file' \in File
         /\ catalog' = Contents(file')
         /\ torn' \in BOOLEAN
         /\ torn => torn'
         /\ ~torn' => Readable(file') /\ catalog' \in {catalog, Listed}
<1>1. PICK cut \in Cuts(Listed) : file' = Written(file, Listed, cut)
  BY DEF StopSaving, Saved
<1>2. file \in File /\ Listed \in Seq(Database) /\ torn \in BOOLEAN
  BY ListedType DEF IndInv, TypeOK
<1>3. file' \in File
  <2>1. cut \in Nat
    BY <1>2, CutsType
  <2>2. QED
    BY <1>1, <1>2, <2>1, WrittenType
<1>4. catalog' = Contents(file') /\ torn' = (torn \/ ~Readable(file') \/ catalog' \notin {catalog, Listed})
  BY DEF StopSaving, Saved
<1>5. QED
  BY <1>2, <1>3, <1>4

LEMMA StepStopSaving ==
  ASSUME IndInv, StopSaving
  PROVE  IndInv'
<1>1. UNCHANGED <<descriptors, dbs, sessions, pc, culprit, refused, changes, starts>>
      /\ status = "up" /\ status' = "stopped"
  BY DEF StopSaving
<1>2. culprit' = {}
  BY <1>1, NoCulprit
<1>3. TypeOK'
  <2>1. catalog' \in Seq(Database)
    BY StopSavingHas, ContentsType
  <2>2. QED
    BY <1>1, <2>1, StopSavingHas DEF IndInv, TypeOK
<1>4. FileHolds'
  BY StopSavingHas DEF FileHolds
<1>5. NamesUnique'
  <2>1. SUFFICES ASSUME ~torn' PROVE UniqueNames'
    BY DEF NamesUnique
  <2>2. ~torn /\ catalog' \in {catalog, Listed}
    BY <2>1, StopSavingHas
  <2>3. UniqueNames /\ Listed' = Listed
    BY <1>1, <2>2 DEF IndInv, NamesUnique, Listed
  <2>4. Range(Listed) \subseteq Range(descriptors)
    BY ListedType DEF IndInv, Range
  <2>5. HasNoDuplicates(Listed)' /\ HasNoDuplicates(catalog)'
    BY <2>2, <2>3 DEF UniqueNames, HasNoDuplicates
  <2>6. \A d \in Range(descriptors') \cup Range(catalog') : d \in Range(descriptors) \cup Range(catalog)
    BY <1>1, <2>2, <2>4
  <2>7. QED
    BY <2>3, <2>5, <2>6 DEF UniqueNames, HasNoDuplicates
<1>6. ClosedHasNone' /\ HoldsFirst'
  BY <1>1, SameHolders DEF IndInv, ClosedHasNone
<1>7. QED
  BY <1>1, <1>2, <1>3, <1>4, <1>5, <1>6 DEF IndInv, CulpritDown, TrapOnlyAfterDrop

(* What is loaded has the names of the list in the file, in the opposite
   order.                                                                  *)
LEMMA StepStart ==
  ASSUME IndInv, Start
  PROVE  IndInv'
<1>1. PICK list \in Loadable(file) : descriptors' = [i \in DOMAIN list |-> Loaded(list[i])]
  BY DEF Start
<1> DEFINE ids == [i \in DOMAIN list |-> i]
<1>2. /\ descriptors' = [i \in DOMAIN list |-> Loaded(list[i])]
      /\ dbs' = Reverse(ids)
      /\ sessions' = [s \in Sessions |-> NoSession]
      /\ pc' = "idle" /\ status' = "up" /\ culprit' = {} /\ refused' = FALSE
      /\ UNCHANGED <<file, catalog, torn, changes>>
      /\ starts' \in 0 .. MaxStarts
  <2>1. DOMAIN descriptors' = DOMAIN list
    BY <1>1
  <2>2. QED
    BY <1>1, <2>1, BoundAssumption DEF Start, IndInv, TypeOK
<1>3. /\ list \in Seq(Database) /\ Len(list) \in Nat /\ DOMAIN list = 1 .. Len(list)
      /\ \A i \in DOMAIN list : list[i] \in Database
  BY <1>1, ContentsType DEF IndInv, TypeOK
<1>4. torn \/ (UniqueNames /\ list = catalog)
  BY <1>1, ContentsType DEF IndInv, TypeOK, FileHolds, NamesUnique
<1>5. ASSUME NEW i \in DOMAIN list
      PROVE  /\ Loaded(list[i]) \in Database
             /\ Loaded(list[i]).name = list[i].name
             /\ torn \/ UniqueWithin(Loaded(list[i]))
  <2> DEFINE e == list[i]
  <2>1. e \in Database /\ e.users \in Seq(User) /\ e \in Range(list)
    BY <1>3 DEF Database, Range
  <2>2. torn \/ UniqueWithin(e)
    BY <1>4, <2>1 DEF UniqueNames, UniqueWithin
  <2>3. Reverse(e.users) \in Seq(User) /\ (torn \/ HasNoDuplicates(Reverse(e.users)))
    BY <2>1, <2>2, Reversed, ReversedUnique DEF UniqueWithin
  <2> HIDE DEF e
  <2>4. Loaded(e) \in Database /\ Loaded(e).name = e.name
        /\ Loaded(e).users = Reverse(e.users) /\ Loaded(e).tables = e.tables
    BY <2>1, <2>3 DEF Loaded, Database
  <2>5. torn \/ UniqueWithin(Loaded(e))
    BY <2>2, <2>3, <2>4 DEF UniqueWithin
  <2>6. QED
    BY <2>4, <2>5 DEF e
<1>6. descriptors' \in Seq(Database) /\ DOMAIN descriptors' = 1 .. Len(list)
  <2>1. descriptors' \in [1 .. Len(list) -> Database]
    BY <1>2, <1>3, <1>5
  <2>2. QED
    BY <1>3, <2>1, SeqDef
<1>7. ids \in Seq(1 .. Len(list)) /\ DOMAIN ids = 1 .. Len(list) /\ Len(ids) = Len(list)
  <2>1. ids \in [1 .. Len(list) -> 1 .. Len(list)]
    BY <1>3
  <2>2. ids \in Seq(1 .. Len(list))
    BY <1>3, <2>1, SeqDef
  <2>3. QED
    BY <1>3, <2>1, <2>2, LenProperties
<1>8. IsInjective(ids) /\ \A i \in 1 .. Len(list) : ids[i] = i
  BY <1>3 DEF IsInjective
<1> HIDE DEF ids
<1>9. /\ dbs' \in Seq(DOMAIN descriptors') /\ IsInjective(dbs')
      /\ DOMAIN dbs' = 1 .. Len(list)
  BY <1>2, <1>6, <1>7, <1>8, Reversed, ReversedInjective
<1>10. \A i \in 1 .. Len(list) : /\ Len(list) - i + 1 \in 1 .. Len(list)
                               /\ dbs'[i] = Len(list) - i + 1
  <2>1. \A i \in DOMAIN ids : /\ Len(ids) - i + 1 \in DOMAIN ids
                             /\ dbs'[i] = ids[Len(ids) - i + 1]
    BY <1>2, <1>7, Reversed
  <2>2. QED
    BY <1>7, <1>8, <2>1
<1>11. TypeOK'
  <2>1. sessions' \in [Sessions -> [db : {0} \cup DOMAIN descriptors', active : Nat, admin : BOOLEAN]]
    BY <1>2 DEF NoSession
  <2>2. changes' \in 0 .. MaxChanges /\ file' \in File /\ catalog' \in Seq(Database) /\ torn' \in BOOLEAN
    BY <1>2 DEF IndInv, TypeOK
  <2>3. QED
    BY <1>2, <1>6, <1>9, <2>1, <2>2 DEF TypeOK
<1>12. NamesUnique'
  <2>1. SUFFICES ASSUME ~torn PROVE UniqueNames'
    BY <1>2 DEF NamesUnique
  <2>2. /\ DOMAIN Listed' = DOMAIN list
        /\ \A i \in DOMAIN list : Listed'[i].name = list[Len(list) - i + 1].name
    BY <1>2, <1>3, <1>5, <1>9, <1>10 DEF Listed
  <2>3. UniqueNames /\ list = catalog
    BY <1>4, <2>1
  <2>4. ASSUME NEW i \in DOMAIN list, NEW j \in DOMAIN list, Listed'[i].name = Listed'[j].name
        PROVE  i = j
    <3> DEFINE p == Len(list) - i + 1
               q == Len(list) - j + 1
    <3>1. p \in DOMAIN list /\ q \in DOMAIN list
      BY <1>3
    <3>2. list[p].name = list[q].name
      BY <2>2, <2>4
    <3>3. p = q
      BY <2>3, <3>1, <3>2 DEF UniqueNames, HasNoDuplicates
    <3>4. QED
      BY <1>3, <3>3
  <2>5. HasNoDuplicates(Listed)' /\ HasNoDuplicates(catalog)'
    BY <1>2, <2>2, <2>3, <2>4 DEF UniqueNames, HasNoDuplicates
  <2>6. \A d \in Range(descriptors') : UniqueWithin(d)
    BY <1>2, <1>5, <2>1 DEF Range
  <2>7. \A d \in Range(catalog) : UniqueWithin(d)
    BY <2>3 DEF UniqueNames, UniqueWithin
  <2>8. \A d \in Range(descriptors') \cup Range(catalog') : UniqueWithin(d)
    BY <1>2, <2>6, <2>7
  <2>9. QED
    BY <2>5, <2>8 DEF UniqueNames, UniqueWithin, HasNoDuplicates
<1>13. HoldsFirst'
  <2>1. \A r \in Sessions : sessions'[r].db = 0
    BY <1>2 DEF NoSession
  <2>2. \A i \in DOMAIN dbs' : dbs'[i] # 0
    BY <1>9, <1>10
  <2>3. QED
    BY <2>1, <2>2 DEF HoldsFirst
<1>14. QED
  BY <1>2, <1>11, <1>12, <1>13, SameFile DEF IndInv, ClosedHasNone, CulpritDown, TrapOnlyAfterDrop

LEMMA StepInv == IndInv /\ [Next]_vars => IndInv'
<1> SUFFICES ASSUME IndInv, [Next]_vars PROVE IndInv'
  OBVIOUS
<1>1. CASE UNCHANGED vars
  <2>1. TypeOK' /\ ClosedHasNone' /\ CulpritDown' /\ TrapOnlyAfterDrop' /\ HoldsFirst'
    BY <1>1, SameHolders DEF vars, IndInv, TypeOK, ClosedHasNone, CulpritDown, TrapOnlyAfterDrop
  <2>2. QED
    BY <1>1, <2>1, SameNames DEF vars, IndInv
<1>2. ASSUME NEW s \in Sessions, Connect(s) \/ Expire(s) \/ Statement(s)
      PROVE  IndInv'
  BY <1>2, StepConnect, StepExpire, StepAnswer, StepFailsAssertion, StepUseDatabase, StepCreateDatabase,
     StepDropDatabase, StepCreateTable, StepDropTable, StepCreateUser, StepAlterUser DEF Statement
<1>3. CASE SaveRefused \/ SaveBegins \/ SaveEnds
  BY <1>3, StepSave
<1>4. CASE Stop \/ StopSaving
  BY <1>4, StepStop, StepStopSaving
<1>5. CASE Start
  BY <1>5, StepStart
<1>6. QED
  BY <1>1, <1>2, <1>3, <1>4, <1>5 DEF Next
-----------------------------------------------------------------------------
(* The theorems. *)

(* The inductive invariant holds in every reachable state.                 *)
THEOREM SpecInv == Spec => []IndInv
BY InitInv, StepInv, PTL DEF Spec

(* No pointer of the list or of a session dangles, for any number of
   databases, users, tables and sessions.                                  *)
THEOREM SpecTypeOK == Spec => []TypeOK
<1>1. IndInv => TypeOK
  BY DEF IndInv
<1>2. QED
  BY <1>1, SpecInv, PTL

(* No two databases of the list or of the catalog, and no two users or
   tables of one database, have the same name, whatever is dropped, made
   again, saved and loaded, and whatever a stopped save leaves in the file
   but parts of two lists.                                                 *)
THEOREM SpecNamesUnique == Spec => []NamesUnique
<1>1. IndInv => NamesUnique
  BY DEF IndInv
<1>2. QED
  BY <1>1, SpecInv, PTL

(* A statement the compiler accepts fails an assertion only in a session
   whose database was dropped by another statement.                        *)
THEOREM SpecTrapOnlyAfterDrop == Spec => []TrapOnlyAfterDrop
<1>1. IndInv => TrapOnlyAfterDrop
  BY DEF IndInv
<1>2. QED
  BY <1>1, SpecInv, PTL
-----------------------------------------------------------------------------
(***************************************************************************)
(* Catalog implements Directory, while DROP DATABASE does not name the     *)
(* head of the list: every statement changes one database, whatever lists  *)
(* and pointers it goes through, and a restart finds what was saved, or    *)
(* was being saved, until a save is stopped with parts of two lists in the *)
(* file.  The lists are compared by their trees, for which the uniqueness  *)
(* of names is needed: only then is "the first of that name" the one at a  *)
(* position, and a list and its reverse have the same tree.                *)
(***************************************************************************)

(* A list that is one, for the lemmas about its tree. *)
IsList(list) == Len(list) \in Nat /\ DOMAIN list = 1 .. Len(list) /\ HasNoDuplicates(list)
-----------------------------------------------------------------------------
(* Trees of lists. *)

LEMMA TreeAt ==
  ASSUME NEW list, IsList(list)
  PROVE  /\ DOMAIN TreeOf(list) = Names(list)
         /\ TreeOf(list) = [n \in Names(list) |-> TreeOf(list)[n]]
         /\ \A i \in DOMAIN list : /\ list[i].name \in Names(list)
                                   /\ TreeOf(list)[list[i].name] = Content(list[i])
<1>1. \A i \in DOMAIN list : list[i].name \in Names(list) /\ FirstNamed(list, list[i].name) = i
  BY FirstNamedFound DEF IsList, Names
<1>2. TreeOf(list) = [n \in Names(list) |-> Content(list[FirstNamed(list, n)])]
  BY DEF TreeOf
<1>3. QED
  BY <1>1, <1>2

(* A function with the content of the databases of a list is its tree. *)
LEMMA TreeIs ==
  ASSUME NEW list, IsList(list), NEW t, t = [n \in DOMAIN t |-> t[n]],
         DOMAIN t = Names(list),
         \A i \in DOMAIN list : t[list[i].name] = Content(list[i])
  PROVE  TreeOf(list) = t
<1>1. \A n \in Names(list) : \E i \in DOMAIN list : list[i].name = n
  BY DEF Names
<1>2. \A n \in Names(list) : TreeOf(list)[n] = t[n]
  BY <1>1, TreeAt
<1>3. QED
  BY <1>2, TreeAt

LEMMA AccountAt ==
  ASSUME NEW users, IsList(users)
  PROVE  /\ DOMAIN Accounts(users) = Names(users)
         /\ Accounts(users) = [u \in Names(users) |-> Accounts(users)[u]]
         /\ \A i \in DOMAIN users :
              /\ users[i].name \in Names(users)
              /\ Accounts(users)[users[i].name] =
                   [password |-> users[i].password, admin |-> users[i].admin]
<1>1. \A i \in DOMAIN users : users[i].name \in Names(users) /\ FirstNamed(users, users[i].name) = i
  BY FirstNamedFound DEF IsList, Names
<1>2. QED
  BY <1>1 DEF Accounts

LEMMA AccountsAre ==
  ASSUME NEW users, IsList(users), NEW t, t = [u \in DOMAIN t |-> t[u]],
         DOMAIN t = Names(users),
         \A i \in DOMAIN users :
           t[users[i].name] = [password |-> users[i].password, admin |-> users[i].admin]
  PROVE  Accounts(users) = t
<1>1. \A u \in Names(users) : \E i \in DOMAIN users : users[i].name = u
  BY DEF Names
<1>2. ASSUME NEW u \in Names(users)
      PROVE  Accounts(users)[u] = t[u]
  <2>1. PICK i \in DOMAIN users : users[i].name = u
    BY <1>1
  <2>2. Accounts(users)[users[i].name] = [password |-> users[i].password, admin |-> users[i].admin]
    BY AccountAt
  <2>3. QED
    BY <2>1, <2>2
<1>3. QED
  BY <1>2, AccountAt

LEMMA UsersAreList ==
  ASSUME NEW d \in Database, UniqueWithin(d)
  PROVE  IsList(d.users)
BY DEF Database, UniqueWithin, IsList

LEMMA ListsAreLists ==
  ASSUME IndInv, ~torn
  PROVE  /\ IsList(Listed)
         /\ IsList(catalog)
         /\ \A i \in DOMAIN catalog : catalog[i] \in Database /\ UniqueWithin(catalog[i])
<1>1. IsList(Listed)
  BY ListedType DEF IsList, IndInv, NamesUnique, UniqueNames
<1>2. catalog \in Seq(Database) /\ HasNoDuplicates(catalog)
  BY DEF IndInv, TypeOK, NamesUnique, UniqueNames
<1>3. \A d \in Range(catalog) : UniqueWithin(d)
  BY DEF IndInv, NamesUnique, UniqueNames, UniqueWithin
<1>4. QED
  BY <1>1, <1>2, <1>3 DEF IsList, Range

(* What a load reverses is the same by name. *)
LEMMA LoadedContent ==
  ASSUME NEW d \in Database, UniqueWithin(d)
  PROVE  Content(Loaded(d)) = Content(d)
<1> DEFINE old == d.users
           new == Reverse(old)
<1>1. old \in Seq(User) /\ IsList(old) /\ HasNoDuplicates(old)
  BY UsersAreList DEF Database, UniqueWithin
<1>2. Loaded(d).tables = d.tables /\ Loaded(d).users = new
  BY DEF Loaded, Database
<1> HIDE DEF old
<1>3. /\ DOMAIN new = 1 .. Len(old) /\ DOMAIN old = 1 .. Len(old) /\ Len(old) \in Nat
      /\ new \in Seq(User) /\ HasNoDuplicates(new)
      /\ \A i \in 1 .. Len(old) : Len(old) - i + 1 \in 1 .. Len(old) /\ new[i] = old[Len(old) - i + 1]
  BY <1>1, Reversed, ReversedUnique DEF IsList
<1> HIDE DEF new
<1>4. IsList(new)
  BY <1>3 DEF IsList
<1>5. Names(new) = Names(old)
  <2>1. Names(new) \subseteq Names(old)
    BY <1>3 DEF Names
  <2>2. \A i \in 1 .. Len(old) : Len(old) - (Len(old) - i + 1) + 1 = i
    BY <1>3
  <2>3. \A i \in 1 .. Len(old) : old[i] = new[Len(old) - i + 1]
    BY <1>3, <2>2
  <2>4. Names(old) \subseteq Names(new)
    BY <1>3, <2>3 DEF Names
  <2>5. QED
    BY <2>1, <2>4
<1>6. \A i \in DOMAIN new :
        Accounts(old)[new[i].name] = [password |-> new[i].password, admin |-> new[i].admin]
  BY <1>1, <1>3, AccountAt
<1>7. Accounts(new) = Accounts(old)
  <2>1. Accounts(old) = [u \in DOMAIN Accounts(old) |-> Accounts(old)[u]] /\ DOMAIN Accounts(old) = Names(new)
    BY <1>1, <1>5, AccountAt
  <2>2. QED
    BY <1>4, <1>6, <2>1, AccountsAre
<1>8. QED
  BY <1>2, <1>7 DEF Content, old
-----------------------------------------------------------------------------
(* The tree of the list after each kind of step. *)

LEMMA ListedAfter ==
  ASSUME IndInv', ~torn'
  PROVE  IsList(Listed')
<1>1. /\ Len(dbs') \in Nat /\ DOMAIN dbs' = 1 .. Len(dbs')
      /\ \A i \in DOMAIN dbs' : dbs'[i] \in DOMAIN descriptors'
  BY DEF IndInv, TypeOK
<1>2. DOMAIN Listed' = DOMAIN dbs' /\ Listed' \in [1 .. Len(dbs') -> Database]
  BY <1>1 DEF Listed, IndInv, TypeOK
<1>3. Len(Listed') = Len(dbs')
  <2>1. Listed' \in Seq(Database)
    BY <1>1, <1>2, SeqDef
  <2>2. QED
    BY <1>1, <1>2, <2>1, LenProperties
<1>4. HasNoDuplicates(Listed')
  BY DEF IndInv, NamesUnique, UniqueNames, HasNoDuplicates
<1>5. QED
  BY <1>1, <1>2, <1>3, <1>4 DEF IsList

LEMMA TreeAfterChange ==
  ASSUME IndInv, IndInv', ~torn, ~torn', NEW s \in Sessions, Change(s), NEW d \in Database, ChangeMine(s, d),
         d.name = Mine(s).name
  PROVE  \/ TreeOf(Listed') = TreeOf(Listed)
         \/ /\ d.name \in Names(Listed)
            /\ TreeOf(Listed)[d.name] = Content(Mine(s))
            /\ TreeOf(Listed') = [TreeOf(Listed) EXCEPT ![d.name] = Content(d)]
<1> DEFINE k == sessions[s].db
<1>1. k \in DOMAIN descriptors /\ dbs' = dbs /\ descriptors' = [descriptors EXCEPT ![k] = d]
  BY SessionType DEF Change, ChangeMine
<1>2. /\ DOMAIN Listed = DOMAIN dbs /\ DOMAIN Listed' = DOMAIN dbs
      /\ \A i \in DOMAIN dbs : /\ Listed[i] = descriptors[dbs[i]]
                               /\ Listed'[i] = IF dbs[i] = k THEN d ELSE Listed[i]
  BY <1>1, ListedType DEF Listed, IndInv
<1>3. CASE k \notin Range(dbs)
  <2>1. \A i \in DOMAIN dbs : Listed'[i] = Listed[i]
    BY <1>2, <1>3 DEF Range
  <2>2. Listed' = Listed
    BY <1>1, <1>2, <2>1 DEF Listed
  <2>3. QED
    BY <2>2
<1>4. CASE k \in Range(dbs)
  <2>1. PICK i \in DOMAIN dbs : dbs[i] = k
    BY <1>4 DEF Range
  <2>2. Listed[i] = Mine(s) /\ Listed'[i] = d
    BY <1>2, <2>1 DEF Mine
  <2>3. \A j \in DOMAIN dbs : j # i => /\ Listed'[j] = Listed[j]
                                       /\ Listed[j].name # d.name
    <3>1. \A j \in DOMAIN dbs : j # i => dbs[j] # k
      BY <2>1 DEF IndInv, TypeOK, IsInjective
    <3>2. \A j \in DOMAIN dbs : j # i => Listed[j].name # d.name
      BY <1>2, <2>2 DEF IndInv, NamesUnique, UniqueNames, HasNoDuplicates
    <3>3. QED
      BY <1>2, <3>1, <3>2
  <2>4. Names(Listed') = Names(Listed) /\ d.name \in Names(Listed)
    BY <1>2, <2>2, <2>3 DEF Names
  <2> DEFINE old == TreeOf(Listed)
             new == [old EXCEPT ![d.name] = Content(d)]
  <2>5. /\ DOMAIN old = Names(Listed) /\ old[d.name] = Content(Mine(s))
        /\ \A j \in DOMAIN dbs : old[Listed[j].name] = Content(Listed[j])
    BY <1>2, <2>2, ListsAreLists, TreeAt
  <2>6. /\ DOMAIN new = Names(Listed') /\ new = [n \in DOMAIN new |-> new[n]]
        /\ \A j \in DOMAIN dbs : new[Listed'[j].name] = Content(Listed'[j])
    <3> HIDE DEF old
    <3>1. new[d.name] = Content(d) /\ \A n \in Names(Listed) : n # d.name => new[n] = old[n]
      BY <2>4, <2>5
    <3>2. \A j \in DOMAIN dbs : Listed[j].name \in Names(Listed)
      BY <1>2 DEF Names
    <3>3. DOMAIN new = Names(Listed') /\ new = [n \in DOMAIN new |-> new[n]]
      BY <2>4, <2>5
    <3> HIDE DEF new
    <3>4. ASSUME NEW j \in DOMAIN dbs
          PROVE  new[Listed'[j].name] = Content(Listed'[j])
      <4>1. CASE j = i
        BY <2>2, <3>1, <4>1
      <4>2. CASE j # i
        <5>1. Listed'[j] = Listed[j] /\ Listed[j].name # d.name /\ Listed[j].name \in Names(Listed)
          BY <2>3, <3>2, <4>2
        <5>2. new[Listed[j].name] = old[Listed[j].name]
          BY <3>1, <5>1
        <5>3. QED
          BY <2>5, <5>1, <5>2
      <4>3. QED
        BY <4>1, <4>2
    <3>5. QED
      BY <3>3, <3>4
  <2> HIDE DEF old, new
  <2>7. TreeOf(Listed') = new
    BY <1>2, <2>6, ListedAfter, TreeIs
  <2>8. QED
    BY <2>4, <2>5, <2>7 DEF old, new
<1>5. QED
  BY <1>3, <1>4

LEMMA TreeAfterCreate ==
  ASSUME IndInv, IndInv', ~torn, ~torn', NEW s \in Sessions, CreateDatabase(s)
  PROVE  \E n \in DbNames \ Names(Listed) :
           TreeOf(Listed') = [m \in Names(Listed) \cup {n} |->
                                IF m = n THEN Content(NewDatabase(n)) ELSE TreeOf(Listed)[m]]
<1>1. PICK n \in DbNames \ Names(Listed) : descriptors' = Append(descriptors, NewDatabase(n))
  BY DEF CreateDatabase
<1>2. dbs' = <<Len(descriptors) + 1>> \o dbs
  BY DEF CreateDatabase
<1>3. /\ DOMAIN dbs = 1 .. Len(dbs) /\ Len(dbs) \in Nat /\ DOMAIN Listed = DOMAIN dbs
      /\ \A i \in DOMAIN dbs : dbs[i] \in DOMAIN descriptors /\ Listed[i] = descriptors[dbs[i]]
  BY ListedType DEF IndInv
<1>4. /\ descriptors \in Seq(Database) /\ Len(descriptors) \in Nat
      /\ DOMAIN descriptors = 1 .. Len(descriptors)
      /\ dbs \in Seq(1 .. Len(descriptors))
  BY DEF IndInv, TypeOK
<1> DEFINE top == Len(descriptors) + 1
<1>5. descriptors'[top] = NewDatabase(n) /\ \A k \in DOMAIN descriptors : descriptors'[k] = descriptors[k]
  <2>1. NewDatabase(n) \in Database
    BY DEF NewDatabase, Database
  <2>2. QED
    BY <1>1, <1>4, <2>1
<1>6. /\ DOMAIN dbs' = 1 .. Len(dbs) + 1 /\ dbs'[1] = top
      /\ \A i \in 1 .. Len(dbs) + 1 : i # 1 => dbs'[i] = dbs[i - 1]
  <2> DEFINE one == <<top>>
  <2>1. one \in Seq(1 .. top) /\ Len(one) = 1 /\ one[1] = top
    BY <1>4
  <2>2. dbs \in Seq(1 .. top)
    <3>1. 1 .. Len(descriptors) \subseteq 1 .. top
      BY <1>4
    <3>2. QED
      BY <1>4, <3>1, SeqMonotonic
  <2>3. dbs' = one \o dbs
    BY <1>2
  <2> HIDE DEF one
  <2>4. /\ one \o dbs \in Seq(1 .. top) /\ Len(one \o dbs) = Len(one) + Len(dbs)
        /\ \A i \in 1 .. Len(one) + Len(dbs) :
             (one \o dbs)[i] = IF i <= Len(one) THEN one[i] ELSE dbs[i - Len(one)]
    BY <2>1, <2>2, ConcatProperties
  <2> HIDE DEF top
  <2>5. dbs' \in Seq(1 .. top) /\ Len(dbs') = Len(dbs) + 1
    BY <1>3, <2>1, <2>3, <2>4
  <2>6. \A i \in 1 .. Len(dbs) + 1 : dbs'[i] = IF i <= 1 THEN one[i] ELSE dbs[i - 1]
    BY <1>3, <2>1, <2>3, <2>4
  <2>7. QED
    BY <1>3, <2>1, <2>5, <2>6
<1>7. /\ DOMAIN Listed' = 1 .. Len(dbs) + 1 /\ Listed'[1] = NewDatabase(n)
      /\ \A i \in 1 .. Len(dbs) + 1 : i # 1 => i - 1 \in DOMAIN Listed /\ Listed'[i] = Listed[i - 1]
  <2> HIDE DEF top
  <2>1. DOMAIN Listed' = DOMAIN dbs' /\ \A i \in DOMAIN dbs' : Listed'[i] = descriptors'[dbs'[i]]
    BY DEF Listed
  <2>2. DOMAIN Listed' = 1 .. Len(dbs) + 1 /\ Listed'[1] = NewDatabase(n)
    BY <1>3, <1>5, <1>6, <2>1
  <2>3. ASSUME NEW i \in 1 .. Len(dbs) + 1, i # 1
        PROVE  i - 1 \in DOMAIN Listed /\ Listed'[i] = Listed[i - 1]
    <3>1. i - 1 \in DOMAIN dbs
      BY <1>3, <2>3
    <3>2. Listed'[i] = descriptors'[dbs[i - 1]]
      BY <1>6, <2>1, <2>3
    <3>3. QED
      BY <1>3, <1>5, <3>1, <3>2
  <2>4. QED
    BY <2>2, <2>3
<1>8. Names(Listed') = Names(Listed) \cup {n}
  <2>1. NewDatabase(n).name = n
    BY DEF NewDatabase
  <2>2. Names(Listed') \subseteq Names(Listed) \cup {n}
    BY <1>7, <2>1 DEF Names
  <2>3. \A i \in DOMAIN Listed : i + 1 \in 1 .. Len(dbs) + 1 /\ Listed'[i + 1] = Listed[i]
    <3>1. \A i \in DOMAIN Listed : i + 1 \in 1 .. Len(dbs) + 1 /\ i + 1 # 1 /\ (i + 1) - 1 = i
      BY <1>3
    <3>2. QED
      BY <1>7, <3>1
  <2>4. Names(Listed) \cup {n} \subseteq Names(Listed')
    BY <1>3, <1>7, <2>1, <2>3 DEF Names
  <2>5. QED
    BY <2>2, <2>4
<1> DEFINE old == TreeOf(Listed)
           new == [m \in Names(Listed) \cup {n} |-> IF m = n THEN Content(NewDatabase(n)) ELSE old[m]]
<1>9. \A i \in DOMAIN Listed' : new[Listed'[i].name] = Content(Listed'[i])
  <2>1. NewDatabase(n).name = n
    BY DEF NewDatabase
  <2>2. new[n] = Content(NewDatabase(n)) /\ \A m \in Names(Listed) : new[m] = old[m]
    OBVIOUS
  <2>3. \A i \in DOMAIN Listed : Listed[i].name \in Names(Listed) /\ old[Listed[i].name] = Content(Listed[i])
    BY ListsAreLists, TreeAt
  <2> HIDE DEF new, old
  <2>4. QED
    BY <1>7, <2>1, <2>2, <2>3
<1>10. TreeOf(Listed') = new
  <2>1. DOMAIN new = Names(Listed') /\ new = [m \in DOMAIN new |-> new[m]]
    BY <1>8
  <2> HIDE DEF new
  <2>2. QED
    BY <1>9, <2>1, ListedAfter, TreeIs
<1>11. QED
  BY <1>10

LEMMA TreeAfterDrop ==
  ASSUME IndInv, IndInv', ~torn, ~torn', NEW s \in Sessions, DropDatabase(s), ~DropsFirst
  PROVE  \E n \in Names(Listed) :
           TreeOf(Listed') = [m \in Names(Listed) \ {n} |-> TreeOf(Listed)[m]]
<1>1. PICK n \in Names(Listed) :
        /\ FirstNamed(Listed, n) # 1 \/ DropsFirst
        /\ dbs' = IF FirstNamed(Listed, n) = 1 THEN <<>> ELSE RemoveAt(dbs, FirstNamed(Listed, n))
  BY DEF DropDatabase
<1>2. /\ DOMAIN dbs = 1 .. Len(dbs) /\ Len(dbs) \in Nat /\ DOMAIN Listed = DOMAIN dbs
      /\ \A i \in DOMAIN dbs : Listed[i] = descriptors[dbs[i]]
      /\ dbs \in Seq(DOMAIN descriptors)
  BY ListedType DEF IndInv, TypeOK
<1>3. PICK k \in DOMAIN dbs : Listed[k].name = n
  BY <1>2 DEF Names
<1>4. FirstNamed(Listed, n) = k
  BY <1>2, <1>3, ListsAreLists, FirstNamedFound DEF IsList
<1>5. dbs' = RemoveAt(dbs, k) /\ descriptors' = descriptors
  BY <1>1, <1>4 DEF DropDatabase
<1> DEFINE From(i) == IF i < k THEN i ELSE i + 1
<1>6. /\ DOMAIN dbs' = 1 .. Len(dbs) - 1
      /\ \A i \in 1 .. Len(dbs) - 1 : dbs'[i] = dbs[From(i)]
  <2>1. dbs' \in Seq(DOMAIN descriptors) /\ Len(dbs') = Len(dbs) - 1
    BY <1>2, <1>5, RemovedAt
  <2>2. \A i \in 1 .. Len(dbs) - 1 : dbs'[i] = dbs[From(i)]
    BY <1>2, <1>5, RemovedAt
  <2>3. DOMAIN dbs' = 1 .. Len(dbs) - 1
    BY <2>1
  <2>4. QED
    BY <2>2, <2>3
<1>7. /\ \A i \in 1 .. Len(dbs) - 1 : From(i) \in DOMAIN dbs /\ From(i) # k
      /\ \A j \in DOMAIN dbs : j # k => \E i \in 1 .. Len(dbs) - 1 : From(i) = j
  <2>1. \A i \in 1 .. Len(dbs) - 1 : From(i) \in DOMAIN dbs /\ From(i) # k
    BY <1>2, <1>3
  <2>2. ASSUME NEW j \in DOMAIN dbs, j # k
        PROVE  \E i \in 1 .. Len(dbs) - 1 : From(i) = j
    <3>1. CASE j < k
      <4>1. j \in 1 .. Len(dbs) - 1 /\ From(j) = j
        BY <1>2, <1>3, <3>1
      <4>2. QED
        BY <4>1
    <3>2. CASE ~(j < k)
      <4>1. j - 1 \in 1 .. Len(dbs) - 1 /\ From(j - 1) = j
        BY <1>2, <1>3, <2>2, <3>2
      <4>2. QED
        BY <4>1
    <3>3. QED
      BY <3>1, <3>2
  <2>3. QED
    BY <2>1, <2>2
<1> HIDE DEF From
<1>8. /\ DOMAIN Listed' = 1 .. Len(dbs) - 1
      /\ \A i \in 1 .. Len(dbs) - 1 : Listed'[i] = Listed[From(i)]
  <2>1. DOMAIN Listed' = DOMAIN dbs' /\ \A i \in DOMAIN dbs' : Listed'[i] = descriptors'[dbs'[i]]
    BY DEF Listed
  <2>2. ASSUME NEW i \in 1 .. Len(dbs) - 1
        PROVE  Listed'[i] = Listed[From(i)]
    <3>1. Listed'[i] = descriptors[dbs[From(i)]]
      BY <1>5, <1>6, <2>1
    <3>2. QED
      BY <1>2, <1>7, <3>1
  <2>3. QED
    BY <1>6, <2>1, <2>2
<1>9. \A j \in DOMAIN dbs : j # k => Listed[j].name # n
  BY <1>2, <1>3, ListsAreLists DEF IsList, HasNoDuplicates
<1>10. Names(Listed') = Names(Listed) \ {n}
  <2>1. Names(Listed') \subseteq Names(Listed) \ {n}
    BY <1>2, <1>7, <1>8, <1>9 DEF Names
  <2>2. ASSUME NEW m \in Names(Listed), m # n
        PROVE  m \in Names(Listed')
    <3>1. PICK j \in DOMAIN dbs : Listed[j].name = m
      BY <1>2 DEF Names
    <3>2. PICK i \in 1 .. Len(dbs) - 1 : From(i) = j
      BY <1>3, <1>7, <2>2, <3>1
    <3>3. Listed'[i].name = m
      BY <1>8, <3>1, <3>2
    <3>4. QED
      BY <1>8, <3>3 DEF Names
  <2>3. QED
    BY <2>1, <2>2
<1> DEFINE old == TreeOf(Listed)
           new == [m \in Names(Listed) \ {n} |-> old[m]]
<1>11. \A i \in DOMAIN Listed' : new[Listed'[i].name] = Content(Listed'[i])
  <2>1. \A j \in DOMAIN Listed : Listed[j].name \in Names(Listed) /\ old[Listed[j].name] = Content(Listed[j])
    BY ListsAreLists, TreeAt
  <2>2. \A m \in Names(Listed) : m # n => new[m] = old[m]
    OBVIOUS
  <2> HIDE DEF old, new
  <2>3. ASSUME NEW i \in DOMAIN Listed'
        PROVE  new[Listed'[i].name] = Content(Listed'[i])
    <3>1. /\ From(i) \in DOMAIN Listed /\ From(i) # k
          /\ Listed'[i] = Listed[From(i)]
      BY <1>2, <1>7, <1>8, <2>3
    <3>2. Listed[From(i)].name \in Names(Listed) /\ Listed[From(i)].name # n
      BY <1>2, <1>9, <2>1, <3>1
    <3>3. QED
      BY <2>1, <2>2, <3>1, <3>2
  <2>4. QED
    BY <2>3
<1>12. TreeOf(Listed') = new
  <2>1. DOMAIN new = Names(Listed') /\ new = [m \in DOMAIN new |-> new[m]]
    BY <1>10
  <2> HIDE DEF new
  <2>2. QED
    BY <1>11, <2>1, ListedAfter, TreeIs
<1>13. QED
  BY <1>12

(* What is loaded has the tree of the catalog. *)
LEMMA TreeAfterStart ==
  ASSUME IndInv, IndInv', ~torn, ~torn', Start
  PROVE  TreeOf(Listed') = TreeOf(catalog)
<1> DEFINE ids == [i \in DOMAIN catalog |-> i]
           len == Len(catalog)
<1>1. descriptors' = [i \in DOMAIN catalog |-> Loaded(catalog[i])]
  <2>1. Loadable(file) = {catalog}
    BY ContentsType DEF IndInv, TypeOK, FileHolds
  <2>2. QED
    BY <2>1 DEF Start
<1>2. descriptors' = [i \in DOMAIN catalog |-> Loaded(catalog[i])] /\ dbs' = Reverse(ids)
  <2>1. DOMAIN descriptors' = DOMAIN catalog
    BY <1>1
  <2>2. QED
    BY <1>1, <2>1 DEF Start
<1>3. /\ IsList(catalog) /\ len \in Nat /\ DOMAIN catalog = 1 .. len
      /\ \A i \in DOMAIN catalog : catalog[i] \in Database /\ UniqueWithin(catalog[i])
  BY ListsAreLists DEF IsList
<1>4. /\ DOMAIN dbs' = 1 .. len
      /\ \A i \in 1 .. len : len - i + 1 \in 1 .. len /\ dbs'[i] = len - i + 1
  <2>1. ids \in [1 .. len -> 1 .. len] /\ \A i \in 1 .. len : ids[i] = i
    BY <1>3
  <2>2. ids \in Seq(1 .. len) /\ DOMAIN ids = 1 .. len
    BY <1>3, <2>1, SeqDef
  <2>3. Len(ids) = len
    BY <1>3, <2>2, LenProperties
  <2> HIDE DEF ids, len
  <2>4. /\ DOMAIN dbs' = DOMAIN ids
        /\ \A i \in DOMAIN ids : /\ Len(ids) - i + 1 \in DOMAIN ids
                                 /\ dbs'[i] = ids[Len(ids) - i + 1]
    BY <1>2, <2>2, Reversed
  <2>5. QED
    BY <2>1, <2>2, <2>3, <2>4
<1>5. /\ DOMAIN Listed' = 1 .. len
      /\ \A i \in 1 .. len : Listed'[i] = Loaded(catalog[len - i + 1])
  <2>1. DOMAIN Listed' = DOMAIN dbs' /\ \A i \in DOMAIN dbs' : Listed'[i] = descriptors'[dbs'[i]]
    BY DEF Listed
  <2>2. QED
    BY <1>2, <1>3, <1>4, <2>1
<1>6. \A i \in DOMAIN catalog : /\ Loaded(catalog[i]).name = catalog[i].name
                               /\ Content(Loaded(catalog[i])) = Content(catalog[i])
  <2>1. \A d \in Database : Loaded(d).name = d.name
    BY DEF Loaded, Database
  <2>2. QED
    BY <1>3, <2>1, LoadedContent
<1> DEFINE Mirror(i) == len - i + 1
<1>7. \A i \in 1 .. len : Mirror(i) \in 1 .. len /\ Mirror(Mirror(i)) = i
  BY <1>3
<1>8. \A i \in 1 .. len : /\ Listed'[i].name = catalog[Mirror(i)].name
                          /\ Content(Listed'[i]) = Content(catalog[Mirror(i)])
  BY <1>3, <1>5, <1>6, <1>7
<1> HIDE DEF Mirror, len
<1>9. Names(Listed') = Names(catalog)
  <2>1. Names(Listed') \subseteq Names(catalog)
    BY <1>3, <1>5, <1>7, <1>8 DEF Names
  <2>2. \A i \in 1 .. len : catalog[i].name = Listed'[Mirror(i)].name
    BY <1>7, <1>8
  <2>3. Names(catalog) \subseteq Names(Listed')
    BY <1>3, <1>5, <1>7, <2>2 DEF Names
  <2>4. QED
    BY <2>1, <2>3
<1>10. /\ DOMAIN TreeOf(catalog) = Names(Listed')
      /\ TreeOf(catalog) = [n \in DOMAIN TreeOf(catalog) |-> TreeOf(catalog)[n]]
      /\ \A i \in DOMAIN Listed' : TreeOf(catalog)[Listed'[i].name] = Content(Listed'[i])
  BY <1>3, <1>5, <1>7, <1>8, <1>9, TreeAt
<1>11. QED
  BY <1>10, ListedAfter, TreeIs
-----------------------------------------------------------------------------
(* What a stop can lose. *)

(* Every database of memory is in the file as it is, or is empty and not in
   it, and the file has no other.                                          *)
Recorded(memory, saved) ==
  \A n \in DOMAIN memory \cup DOMAIN saved :
    \/ n \in DOMAIN memory \cap DOMAIN saved /\ memory[n] = saved[n]
    \/ n \in DOMAIN memory \ DOMAIN saved /\ memory[n] = Content(NewDatabase(n))

LEMMA NewTree ==
  ASSUME NEW n
  PROVE  TreeOf(<<NewDatabase(n)>>)[n] = Content(NewDatabase(n))
<1> DEFINE list == <<NewDatabase(n)>>
<1>1. NewDatabase(n).name = n
  BY DEF NewDatabase
<1>2. Len(list) = 1 /\ DOMAIN list = 1 .. 1 /\ list[1] = NewDatabase(n)
  OBVIOUS
<1> HIDE DEF list
<1>3. IsList(list)
  BY <1>2 DEF IsList, HasNoDuplicates
<1>4. TreeOf(list)[list[1].name] = Content(list[1])
  BY <1>2, <1>3, TreeAt
<1>5. QED
  BY <1>1, <1>2, <1>4 DEF list

LEMMA UnsavedIsRecorded ==
  OnlyEmptyUnsaved <=>
    (status = "up" /\ pc = "idle" /\ ~refused /\ ~torn => Recorded(TreeOf(Listed), TreeOf(catalog)))
BY NewTree DEF OnlyEmptyUnsaved, Recorded

(* Once a save tore the file nothing is known of it, and only a save does. *)
LEMMA TornStays ==
  ASSUME IndInv, [Next]_vars
  PROVE  /\ torn => torn'
         /\ torn' /\ ~torn => StopSaving
<1>1. StopSaving => (torn => torn')
  BY StopSavingHas
<1>2. ~StopSaving => torn' = torn
  <2>1. ASSUME NEW s \in Sessions, Connect(s) \/ Expire(s) \/ Statement(s)
        PROVE  torn' = torn
    BY <2>1 DEF Connect, Expire, Statement, Answer, FailsAssertion, Trap, UseDatabase, CreateDatabase,
       DropDatabase, CreateTable, DropTable, CreateUser, AlterUser, ChangeMine
  <2>2. SaveRefused \/ SaveBegins \/ SaveEnds \/ Stop \/ Start => torn' = torn
    BY DEF SaveRefused, SaveBegins, SaveEnds, Stop, Start
  <2>3. UNCHANGED vars => torn' = torn
    BY DEF vars
  <2>4. QED
    BY <2>1, <2>2, <2>3 DEF Next
<1>3. QED
  BY <1>1, <1>2

LEMMA StepUnsaved == IndInv /\ IndInv' /\ OnlyEmptyUnsaved /\ [Next]_vars => OnlyEmptyUnsaved'
<1> SUFFICES ASSUME IndInv, IndInv', OnlyEmptyUnsaved, [Next]_vars,
                    status' = "up", pc' = "idle", ~refused', ~torn'
             PROVE  Recorded(TreeOf(Listed'), TreeOf(catalog'))
  <2>1. OnlyEmptyUnsaved' <=>
          (status' = "up" /\ pc' = "idle" /\ ~refused' /\ ~torn' => Recorded(TreeOf(Listed'), TreeOf(catalog')))
    BY NewTree DEF OnlyEmptyUnsaved, Recorded
  <2>2. QED
    BY <2>1
<1>1. ~torn /\ ~StopSaving
  BY TornStays DEF StopSaving
<1>2. CASE Start
  <2>1. TreeOf(Listed') = TreeOf(catalog) /\ catalog' = catalog
    BY <1>1, <1>2, TreeAfterStart DEF Start
  <2>2. QED
    BY <2>1 DEF Recorded
<1>3. CASE SaveEnds
  <2>1. Listed' = Listed /\ catalog' = Listed
    BY <1>3, SaveEndsHas DEF SaveEnds, Listed
  <2>2. QED
    BY <2>1 DEF Recorded
<1>4. ASSUME NEW s \in Sessions, CreateDatabase(s)
      PROVE  Recorded(TreeOf(Listed'), TreeOf(catalog'))
  <2>1. status = "up" /\ pc = "idle" /\ ~refused /\ ~torn /\ catalog' = catalog
    BY <1>1, <1>4 DEF CreateDatabase, Change, Request
  <2> DEFINE memory == TreeOf(Listed)
             saved  == TreeOf(catalog)
  <2>2. Recorded(memory, saved) /\ DOMAIN memory = Names(Listed)
    BY <2>1, UnsavedIsRecorded, ListsAreLists, TreeAt
  <2>3. PICK n \in DbNames \ Names(Listed) :
          TreeOf(Listed') = [m \in Names(Listed) \cup {n} |->
                               IF m = n THEN Content(NewDatabase(n)) ELSE memory[m]]
    BY <1>1, <1>4, TreeAfterCreate
  <2> HIDE DEF memory, saved
  <2>4. n \notin DOMAIN saved
    BY <2>2 DEF Recorded
  <2>5. Recorded(TreeOf(Listed'), saved)
    BY <2>2, <2>3, <2>4 DEF Recorded
  <2>6. QED
    BY <2>1, <2>5 DEF saved
<1>5. CASE UNCHANGED <<descriptors, dbs, catalog, pc, status, refused>>
  <2>1. Listed' = Listed
    BY <1>5 DEF Listed
  <2>2. QED
    BY <1>1, <1>5, <2>1, UnsavedIsRecorded
<1>6. CASE UNCHANGED vars
  BY <1>5, <1>6 DEF vars
<1>7. CASE SaveRefused \/ SaveBegins \/ Stop
  BY <1>7 DEF SaveRefused, SaveBegins, Stop
<1>8. ASSUME NEW s \in Sessions, Connect(s) \/ Expire(s) \/ Statement(s)
      PROVE  Recorded(TreeOf(Listed'), TreeOf(catalog'))
  <2>1. CASE Connect(s) \/ Expire(s) \/ Answer(s) \/ UseDatabase(s)
    BY <1>5, <2>1 DEF Connect, Expire, Answer, UseDatabase
  <2>2. CASE FailsAssertion(s)
    BY <2>2 DEF FailsAssertion, Trap
  <2>3. CASE CreateDatabase(s)
    BY <1>4, <2>3
  <2>4. CASE DropDatabase(s)
    BY <2>4 DEF DropDatabase
  <2>5. CASE CreateTable(s) \/ DropTable(s) \/ CreateUser(s) \/ AlterUser(s)
    BY <2>5 DEF CreateTable, DropTable, CreateUser, AlterUser, ChangeMine
  <2>6. QED
    BY <1>8, <2>1, <2>2, <2>3, <2>4, <2>5 DEF Statement
<1>9. QED
  BY <1>1, <1>2, <1>3, <1>6, <1>7, <1>8 DEF Next

(* While no save is refused, and none was stopped with parts of two lists in
   the file, the catalog holds every database of the running server but
   those that CREATE DATABASE made and nothing was put in since, and no
   other: a stop between two statements loses no more than those, DROP
   DATABASE of the head of the list included.                              *)
THEOREM SpecOnlyEmptyUnsaved == Spec => []OnlyEmptyUnsaved
<1>1. Init => OnlyEmptyUnsaved
  <2> SUFFICES ASSUME Init PROVE OnlyEmptyUnsaved
    OBVIOUS
  <2>1. Listed = catalog
    BY InitCatalog
  <2>2. Recorded(TreeOf(Listed), TreeOf(catalog))
    BY <2>1 DEF Recorded
  <2>3. QED
    BY <2>2, UnsavedIsRecorded
<1>2. QED
  BY <1>1, StepUnsaved, SpecInv, PTL DEF Spec
-----------------------------------------------------------------------------
(* The directory, step by step. *)

(* The lists and pointers that leave the trees alone. *)
LEMMA SameTrees ==
  ASSUME UNCHANGED <<descriptors, dbs, catalog>>
  PROVE  TreeOf(Listed') = TreeOf(Listed) /\ TreeOf(catalog') = TreeOf(catalog)
<1>1. Listed' = Listed
  BY DEF Listed
<1>2. QED
  BY <1>1

(* A statement on a session's own database changes the content of one
   database of the directory, or none.                                     *)
LEMMA ChangeMineDirectory ==
  ASSUME IndInv, IndInv', ~torn, ~torn', NEW s \in Sessions, Change(s), NEW d \in Database, ChangeMine(s, d),
         d.name = Mine(s).name,
         ASSUME d.name \in Names(Listed), TreeOf(Listed)[d.name] = Content(Mine(s)),
                TreeOf(Listed') = [TreeOf(Listed) EXCEPT ![d.name] = Content(d)]
         PROVE  Directory!ChangeTables(d.name) \/ Directory!ChangeUsers(d.name)
  PROVE  Directory!Next
<1>1. DirectoryPhase = "idle" /\ DirectoryPhase' = "changed"
  BY DEF DirectoryPhase, Change, Request, ChangeMine
<1>2. TreeOf(catalog') = TreeOf(catalog)
  BY DEF ChangeMine
<1>3. CASE TreeOf(Listed') = TreeOf(Listed)
  BY <1>1, <1>2, <1>3 DEF Directory!Next, Directory!ChangeNothing
<1>4. CASE /\ d.name \in Names(Listed)
           /\ TreeOf(Listed)[d.name] = Content(Mine(s))
           /\ TreeOf(Listed') = [TreeOf(Listed) EXCEPT ![d.name] = Content(d)]
  <2>1. Directory!ChangeTables(d.name) \/ Directory!ChangeUsers(d.name)
    BY <1>4
  <2>2. d.name \in DOMAIN TreeOf(Listed)
    BY <1>4, ListsAreLists, TreeAt
  <2>3. Directory!Change
    BY <1>1, <1>2, <2>1, <2>2 DEF Directory!Change
  <2>4. QED
    BY <2>3 DEF Directory!Next
<1>5. QED
  BY <1>3, <1>4, TreeAfterChange

LEMMA CreateTableDirectory ==
  ASSUME IndInv, IndInv', ~torn, ~torn', NEW s \in Sessions, CreateTable(s)
  PROVE  Directory!Next
<1>1. PICK t \in TableNames : ~HasTable(s, t) /\ ChangeMine(s, [Mine(s) EXCEPT !.tables = Append(@, t)])
  BY DEF CreateTable
<1>2. Change(s) /\ Request(s)
  BY DEF CreateTable, Change
<1> DEFINE tables == Mine(s).tables
           d == [Mine(s) EXCEPT !.tables = Append(tables, t)]
<1>3. Mine(s) \in Database /\ tables \in Seq(TableNames)
  BY <1>2, SessionType DEF Database
<1>4. /\ d \in Database /\ d.name = Mine(s).name
      /\ d.users = Mine(s).users /\ d.tables = Append(tables, t)
  <2>1. Append(tables, t) \in Seq(TableNames)
    BY <1>3
  <2>2. QED
    BY <1>3, <2>1, WithTables
<1>5. ChangeMine(s, d)
  BY <1>1
<1>6. t \notin Range(tables) /\ Range(Append(tables, t)) = Range(tables) \cup {t}
  <2>1. t \notin Range(tables)
    BY <1>1 DEF HasTable, Contains, Range
  <2>2. /\ Len(tables) \in Nat /\ DOMAIN tables = 1 .. Len(tables)
        /\ DOMAIN Append(tables, t) = 1 .. Len(tables) + 1
        /\ \A i \in 1 .. Len(tables) + 1 : Append(tables, t)[i] = IF i <= Len(tables) THEN tables[i] ELSE t
    BY <1>3
  <2> HIDE DEF tables
  <2>3. \A x \in Range(Append(tables, t)) : x \in Range(tables) \cup {t}
    BY <2>2 DEF Range
  <2>4. ASSUME NEW x \in Range(tables) \cup {t}
        PROVE  x \in Range(Append(tables, t))
    <3>1. \E i \in 1 .. Len(tables) + 1 : Append(tables, t)[i] = x
      <4>1. CASE x = t
        <5>1. Len(tables) + 1 \in 1 .. Len(tables) + 1 /\ Append(tables, t)[Len(tables) + 1] = t
          BY <2>2
        <5>2. QED
          BY <4>1, <5>1
      <4>2. CASE x # t
        <5>1. PICK i \in 1 .. Len(tables) : tables[i] = x
          BY <2>2, <4>2 DEF Range
        <5>2. i \in 1 .. Len(tables) + 1 /\ Append(tables, t)[i] = x
          BY <2>2, <5>1
        <5>3. QED
          BY <5>2
      <4>3. QED
        BY <4>1, <4>2
    <3>2. QED
      BY <2>2, <3>1 DEF Range
  <2>5. QED
    BY <2>1, <2>3, <2>4
<1>7. /\ Content(Mine(s)) = [tables |-> Range(tables), users |-> Accounts(Mine(s).users)]
      /\ Content(d) = [tables |-> Range(tables) \cup {t}, users |-> Accounts(Mine(s).users)]
  BY <1>4, <1>6 DEF Content
<1> HIDE DEF d, tables
<1>8. ASSUME d.name \in Names(Listed), TreeOf(Listed)[d.name] = Content(Mine(s)),
             TreeOf(Listed') = [TreeOf(Listed) EXCEPT ![d.name] = Content(d)]
      PROVE  Directory!ChangeTables(d.name)
  <2> DEFINE now == TreeOf(Listed)
  <2>1. t \notin now[d.name].tables /\ Content(d) = [now[d.name] EXCEPT !.tables = @ \cup {t}]
    BY <1>6, <1>7, <1>8
  <2>2. TreeOf(Listed') = [now EXCEPT ![d.name].tables = @ \cup {t}]
    BY <1>8, <2>1
  <2>3. QED
    BY <2>1, <2>2 DEF Directory!ChangeTables
<1>9. QED
  BY <1>2, <1>4, <1>5, <1>8, ChangeMineDirectory

LEMMA RemovedRange ==
  ASSUME NEW S, NEW list \in Seq(S), NEW k \in DOMAIN list, IsInjective(list)
  PROVE  Range(RemoveAt(list, k)) = Range(list) \ {list[k]}
<1> DEFINE From(i) == IF i < k THEN i ELSE i + 1
           left == RemoveAt(list, k)
<1>1. Len(list) \in Nat /\ DOMAIN list = 1 .. Len(list)
  OBVIOUS
<1>2. /\ DOMAIN left = 1 .. Len(list) - 1
      /\ \A i \in 1 .. Len(list) - 1 : left[i] = list[From(i)]
  <2>1. left \in Seq(S) /\ Len(left) = Len(list) - 1
    BY RemovedAt
  <2>2. \A i \in 1 .. Len(list) - 1 : left[i] = list[From(i)]
    BY RemovedAt
  <2> HIDE DEF left
  <2>3. DOMAIN left = 1 .. Len(list) - 1
    BY <2>1
  <2>4. QED
    BY <2>2, <2>3
<1>3. ASSUME NEW i \in 1 .. Len(list) - 1
      PROVE  left[i] \in Range(list) \ {list[k]}
  <2>1. From(i) \in DOMAIN list /\ From(i) # k
    BY <1>1
  <2> HIDE DEF left, From
  <2>2. left[i] = list[From(i)] /\ list[From(i)] # list[k]
    BY <1>2, <2>1 DEF IsInjective
  <2>3. QED
    BY <2>1, <2>2 DEF Range
<1>4. ASSUME NEW x \in Range(list), x # list[k]
      PROVE  \E i \in 1 .. Len(list) - 1 : left[i] = x
  <2>1. PICK j \in DOMAIN list : list[j] = x
    BY DEF Range
  <2>2. j # k
    BY <1>4, <2>1
  <2>3. CASE j < k
    <3>1. j \in 1 .. Len(list) - 1 /\ From(j) = j
      BY <1>1, <2>3
    <3> HIDE DEF left, From
    <3>2. QED
      BY <1>2, <2>1, <3>1
  <2>4. CASE ~(j < k)
    <3>1. j - 1 \in 1 .. Len(list) - 1 /\ From(j - 1) = j
      BY <1>1, <2>2, <2>4
    <3> HIDE DEF left, From
    <3>2. QED
      BY <1>2, <2>1, <3>1
  <2>5. QED
    BY <2>3, <2>4
<1> HIDE DEF left
<1>5. Range(left) \subseteq Range(list) \ {list[k]}
  BY <1>2, <1>3 DEF Range
<1>6. Range(list) \ {list[k]} \subseteq Range(left)
  BY <1>2, <1>4 DEF Range
<1>7. QED
  BY <1>5, <1>6 DEF left

LEMMA DropTableDirectory ==
  ASSUME IndInv, IndInv', ~torn, ~torn', NEW s \in Sessions, DropTable(s)
  PROVE  Directory!Next
<1>1. PICK k \in DOMAIN Mine(s).tables :
        ChangeMine(s, [Mine(s) EXCEPT !.tables = RemoveAt(Mine(s).tables, k)])
  BY DEF DropTable
<1>2. Change(s) /\ Request(s)
  BY DEF DropTable, Change
<1> DEFINE tables == Mine(s).tables
           t == tables[k]
           left == RemoveAt(tables, k)
           d == [Mine(s) EXCEPT !.tables = left]
<1>3. Mine(s) \in Database /\ tables \in Seq(TableNames) /\ IsInjective(tables)
  BY <1>2, SessionType DEF Database, UniqueWithin
<1>4. t \in TableNames /\ t \in Range(tables)
  BY <1>3 DEF Range
<1>5. left \in Seq(TableNames) /\ Range(left) = Range(tables) \ {t}
  BY <1>3, RemovedAt, RemovedRange
<1>6. ChangeMine(s, d)
  BY <1>1
<1> HIDE DEF left, t
<1>7. d \in Database /\ d.name = Mine(s).name /\ d.users = Mine(s).users /\ d.tables = left
  BY <1>3, <1>5, WithTables
<1>8. /\ Content(Mine(s)) = [tables |-> Range(tables), users |-> Accounts(Mine(s).users)]
      /\ Content(d) = [tables |-> Range(tables) \ {t}, users |-> Accounts(Mine(s).users)]
  BY <1>5, <1>7 DEF Content
<1> HIDE DEF d, tables
<1>9. ASSUME d.name \in Names(Listed), TreeOf(Listed)[d.name] = Content(Mine(s)),
             TreeOf(Listed') = [TreeOf(Listed) EXCEPT ![d.name] = Content(d)]
      PROVE  Directory!ChangeTables(d.name)
  <2> DEFINE now == TreeOf(Listed)
  <2>1. t \in now[d.name].tables /\ Content(d) = [now[d.name] EXCEPT !.tables = @ \ {t}]
    BY <1>4, <1>8, <1>9
  <2>2. TreeOf(Listed') = [now EXCEPT ![d.name].tables = @ \ {t}]
    BY <1>9, <2>1
  <2>3. QED
    BY <1>4, <2>1, <2>2 DEF Directory!ChangeTables
<1>10. QED
  BY <1>2, <1>6, <1>7, <1>9, ChangeMineDirectory

(* A database with other users is one, and the same but for them. *)
LEMMA WithUsers ==
  ASSUME NEW e \in Database, NEW us \in Seq(User)
  PROVE  LET f == [e EXCEPT !.users = us] IN
         f \in Database /\ f.name = e.name /\ f.tables = e.tables /\ f.users = us
BY DEF Database

(* One account given a value, as the directory says it. *)
Given(accounts, u, v) == [w \in DOMAIN accounts \cup {u} |-> IF w = u THEN v ELSE accounts[w]]

(* The trees before and after CREATE USER and ALTER USER in database n. *)
AddsUser(tree, tree2, n) ==
  \E u \in UserNames, p \in Passwords :
    /\ u \notin DOMAIN tree[n].users
    /\ tree2 = [tree EXCEPT ![n].users = Given(tree[n].users, u, [password |-> p, admin |-> FALSE])]

AltersUser(tree, tree2, n) ==
  \E u \in UserNames, p \in Passwords :
    /\ u \in DOMAIN tree[n].users
    /\ tree2 = [tree EXCEPT ![n].users =
                  Given(tree[n].users, u, [tree[n].users[u] EXCEPT !.password = p])]

LEMMA ChangesUsers ==
  ASSUME NEW n, LET now == TreeOf(IF torn THEN <<>> ELSE Listed) IN
                AddsUser(now, now', n) \/ AltersUser(now, now', n)
  PROVE  Directory!ChangeUsers(n)
  BY Zenon DEF AddsUser, AltersUser, Given, Directory!ChangeUsers

LEMMA CreateUserDirectory ==
  ASSUME IndInv, IndInv', ~torn, ~torn', NEW s \in Sessions, CreateUser(s)
  PROVE  Directory!Next
<1>1. PICK u \in UserNames \ Names(Mine(s).users) :
        ChangeMine(s, [Mine(s) EXCEPT !.users = <<NewUser(u)>> \o @])
  BY DEF CreateUser
<1>2. Change(s) /\ Request(s)
  BY DEF CreateUser, Change
<1> DEFINE old == Mine(s).users
           users == <<NewUser(u)>> \o old
           d == [Mine(s) EXCEPT !.users = users]
           account == [password |-> NoPassword, admin |-> FALSE]
<1>3. Mine(s) \in Database /\ old \in Seq(User) /\ IsList(old)
  BY <1>2, SessionType, UsersAreList DEF Database
<1>4. NewUser(u) \in User /\ NewUser(u).name = u
      /\ [password |-> NewUser(u).password, admin |-> NewUser(u).admin] = account
  BY NameAssumption DEF NewUser, User
<1>5. /\ users \in Seq(User) /\ Len(users) = Len(old) + 1
      /\ \A i \in 1 .. Len(old) + 1 : users[i] = IF i = 1 THEN NewUser(u) ELSE old[i - 1]
  <2> DEFINE one == <<NewUser(u)>>
  <2>1. one \in Seq(User) /\ Len(one) = 1 /\ one[1] = NewUser(u)
    BY <1>4
  <2> HIDE DEF one, old
  <2>2. /\ one \o old \in Seq(User) /\ Len(one \o old) = Len(one) + Len(old)
        /\ \A i \in 1 .. Len(one) + Len(old) :
             (one \o old)[i] = IF i <= Len(one) THEN one[i] ELSE old[i - Len(one)]
    BY <1>3, <2>1, ConcatProperties
  <2>3. Len(old) \in Nat
    BY <1>3 DEF IsList
  <2>4. QED
    BY <2>1, <2>2, <2>3 DEF one
<1>6. ChangeMine(s, d)
  BY <1>1
<1> HIDE DEF users
<1>7. d \in Database /\ d.name = Mine(s).name /\ d.tables = Mine(s).tables /\ d.users = users
  BY <1>3, <1>5, WithUsers
<1> HIDE DEF d, old, account
<1>8. /\ Len(old) \in Nat /\ DOMAIN old = 1 .. Len(old) /\ DOMAIN users = 1 .. Len(old) + 1
      /\ users[1] = NewUser(u)
      /\ \A i \in DOMAIN users : i # 1 => i - 1 \in DOMAIN old /\ users[i] = old[i - 1]
      /\ \A i \in DOMAIN old : i + 1 \in DOMAIN users /\ users[i + 1] = old[i]
  <2>1. Len(old) \in Nat /\ DOMAIN old = 1 .. Len(old) /\ DOMAIN users = 1 .. Len(old) + 1
    BY <1>3, <1>5 DEF IsList
  <2>2. \A i \in DOMAIN old : i + 1 \in 1 .. Len(old) + 1 /\ i + 1 # 1 /\ (i + 1) - 1 = i
    BY <2>1
  <2>3. QED
    BY <1>5, <2>1, <2>2
<1>9. u \notin Names(old)
  BY DEF old
<1>10. Names(users) = Names(old) \cup {u}
  <2>1. Names(users) \subseteq Names(old) \cup {u}
    BY <1>4, <1>8 DEF Names
  <2>2. \A i \in DOMAIN users : users[i].name \in Names(users)
    BY DEF Names
  <2>3. u \in Names(users)
    <3>1. 1 \in DOMAIN users
      BY <1>8
    <3>2. QED
      BY <1>4, <1>8, <2>2, <3>1
  <2>4. Names(old) \subseteq Names(users)
    <3>1. \A i \in DOMAIN old : old[i].name \in Names(users)
      BY <1>8, <2>2
    <3>2. QED
      BY <3>1 DEF Names
  <2>5. QED
    BY <2>1, <2>3, <2>4
<1>11. IsList(users)
  <2>1. HasNoDuplicates(users)
    <3>1. SUFFICES ASSUME NEW i \in DOMAIN users, NEW j \in DOMAIN users, users[i].name = users[j].name
                   PROVE  i = j
      BY DEF HasNoDuplicates
    <3>2. \A m \in DOMAIN old : old[m].name # u
      BY <1>9 DEF Names
    <3>3. CASE i = 1 \/ j = 1
      BY <1>4, <1>8, <3>1, <3>2, <3>3
    <3>4. CASE i # 1 /\ j # 1
      <4>1. i - 1 = j - 1
        BY <1>3, <1>8, <3>1, <3>4 DEF IsList, HasNoDuplicates
      <4>2. QED
        BY <1>8, <4>1
    <3>5. QED
      BY <3>3, <3>4
  <2>2. QED
    BY <1>5, <1>8, <2>1 DEF IsList
<1>12. Accounts(users) = Given(Accounts(old), u, account)
  <2> DEFINE new == Given(Accounts(old), u, account)
  <2>1. DOMAIN new = Names(users) /\ new = [w \in DOMAIN new |-> new[w]]
    BY <1>3, <1>10, AccountAt DEF Given
  <2>2. new[u] = account /\ \A w \in Names(old) : new[w] = Accounts(old)[w]
    BY <1>3, <1>9, AccountAt DEF Given
  <2> HIDE DEF new
  <2>3. ASSUME NEW i \in DOMAIN users
        PROVE  new[users[i].name] = [password |-> users[i].password, admin |-> users[i].admin]
    <3>1. CASE i = 1
      BY <1>4, <1>8, <2>2, <3>1
    <3>2. CASE i # 1
      <4>1. i - 1 \in DOMAIN old /\ users[i] = old[i - 1]
        BY <1>8, <3>2
      <4>2. /\ old[i - 1].name \in Names(old)
            /\ Accounts(old)[old[i - 1].name] = [password |-> old[i - 1].password, admin |-> old[i - 1].admin]
        BY <1>3, <4>1, AccountAt
      <4>3. QED
        BY <2>2, <4>1, <4>2
    <3>3. QED
      BY <3>1, <3>2
  <2>4. QED
    BY <1>11, <2>1, <2>3, AccountsAre DEF new
<1>13. /\ Content(Mine(s)) = [tables |-> Range(Mine(s).tables), users |-> Accounts(old)]
       /\ Content(d) = [tables |-> Range(Mine(s).tables), users |-> Given(Accounts(old), u, account)]
  BY <1>7, <1>12 DEF Content, old
<1>14. ASSUME d.name \in Names(Listed), TreeOf(Listed)[d.name] = Content(Mine(s)),
              TreeOf(Listed') = [TreeOf(Listed) EXCEPT ![d.name] = Content(d)]
       PROVE  Directory!ChangeUsers(d.name)
  <2> DEFINE now == TreeOf(Listed)
  <2>1. now[d.name].users = Accounts(old) /\ u \notin DOMAIN now[d.name].users
    BY <1>3, <1>9, <1>13, <1>14, AccountAt
  <2>2. Content(d) = [now[d.name] EXCEPT !.users = Given(Accounts(old), u, account)]
    BY <1>13, <1>14
  <2>3. TreeOf(Listed') = [now EXCEPT ![d.name].users = Given(now[d.name].users, u, account)]
    BY <1>14, <2>1, <2>2
  <2>4. u \in UserNames /\ NoPassword \in Passwords
    BY NameAssumption
  <2>5. AddsUser(now, TreeOf(Listed'), d.name)
    BY <2>1, <2>3, <2>4 DEF AddsUser, account
  <2>6. /\ TreeOf(IF torn THEN <<>> ELSE Listed) = now
        /\ TreeOf(IF torn THEN <<>> ELSE Listed)' = TreeOf(Listed')
    OBVIOUS
  <2>7. QED
    BY <2>5, <2>6, ChangesUsers
<1>15. QED
  BY <1>2, <1>6, <1>7, <1>14, ChangeMineDirectory

LEMMA AlterUserDirectory ==
  ASSUME IndInv, IndInv', ~torn, ~torn', NEW s \in Sessions, AlterUser(s)
  PROVE  Directory!Next
<1>1. PICK u \in Names(Mine(s).users), p \in Passwords :
        ChangeMine(s, [Mine(s) EXCEPT !.users[FirstNamed(Mine(s).users, u)].password = p])
  BY DEF AlterUser
<1>2. Change(s) /\ Request(s)
  BY DEF AlterUser, Change
<1> DEFINE old == Mine(s).users
<1>3. Mine(s) \in Database /\ old \in Seq(User) /\ IsList(old)
  BY <1>2, SessionType, UsersAreList DEF Database
<1>4. PICK k \in DOMAIN old : old[k].name = u
  BY DEF Names
<1>5. FirstNamed(old, u) = k /\ old[k] \in User
  BY <1>3, <1>4, FirstNamedFound DEF IsList
<1> DEFINE user == [old[k] EXCEPT !.password = p]
           users == [old EXCEPT ![k] = user]
           d == [Mine(s) EXCEPT !.users = users]
           account == [password |-> p, admin |-> old[k].admin]
<1>6. ChangeMine(s, d)
  BY <1>1, <1>5
<1>7. user \in User /\ user.name = u /\ u \in UserNames
      /\ [password |-> user.password, admin |-> user.admin] = account
  BY <1>4, <1>5 DEF User
<1> HIDE DEF user
<1>8. /\ users \in Seq(User) /\ DOMAIN users = DOMAIN old /\ Len(users) = Len(old)
      /\ users[k] = user
      /\ \A i \in DOMAIN old : i # k => users[i] = old[i]
  <2> HIDE DEF old
  <2>1. users \in Seq(User) /\ Len(users) = Len(old)
        /\ \A i \in DOMAIN old : users[i] = IF i = k THEN user ELSE old[i]
    BY <1>3, <1>7, ExceptSeq
  <2>2. QED
    BY <2>1
<1> HIDE DEF users
<1>9. d \in Database /\ d.name = Mine(s).name /\ d.tables = Mine(s).tables /\ d.users = users
  BY <1>3, <1>8, WithUsers
<1> HIDE DEF d
<1>10. \A i \in DOMAIN old : i # k => old[i].name # u
  BY <1>3, <1>4 DEF IsList, HasNoDuplicates
<1>11. IsList(users) /\ Names(users) = Names(old)
  <2>1. \A i \in DOMAIN old : users[i].name = old[i].name
    BY <1>4, <1>7, <1>8
  <2> HIDE DEF old
  <2>2. QED
    BY <1>3, <1>8, <2>1 DEF IsList, HasNoDuplicates, Names
<1>12. Accounts(old)[u] = [password |-> old[k].password, admin |-> old[k].admin]
       /\ u \in DOMAIN Accounts(old)
  BY <1>3, <1>4, AccountAt
<1>13. Accounts(users) = Given(Accounts(old), u, account)
  <2> DEFINE new == Given(Accounts(old), u, account)
  <2>1. DOMAIN new = Names(users) /\ new = [w \in DOMAIN new |-> new[w]]
    BY <1>3, <1>11, <1>12, AccountAt DEF Given
  <2>2. new[u] = account /\ \A w \in Names(old) : w # u => new[w] = Accounts(old)[w]
    BY <1>3, <1>12, AccountAt DEF Given
  <2> HIDE DEF new, account, old
  <2>3. ASSUME NEW i \in DOMAIN users
        PROVE  new[users[i].name] = [password |-> users[i].password, admin |-> users[i].admin]
    <3>1. CASE i = k
      BY <1>7, <1>8, <2>2, <3>1
    <3>2. CASE i # k
      <4>1. i \in DOMAIN old /\ users[i] = old[i] /\ old[i].name # u
        BY <1>8, <1>10, <3>2
      <4>2. /\ old[i].name \in Names(old)
            /\ Accounts(old)[old[i].name] = [password |-> old[i].password, admin |-> old[i].admin]
        BY <1>3, <4>1, AccountAt
      <4>3. QED
        BY <2>2, <4>1, <4>2
    <3>3. QED
      BY <3>1, <3>2
  <2>4. QED
    BY <1>11, <2>1, <2>3, AccountsAre DEF new
<1>14. /\ Content(Mine(s)) = [tables |-> Range(Mine(s).tables), users |-> Accounts(old)]
       /\ Content(d) = [tables |-> Range(Mine(s).tables), users |-> Given(Accounts(old), u, account)]
  BY <1>9, <1>13 DEF Content
<1>15. account = [Accounts(old)[u] EXCEPT !.password = p]
  BY <1>12
<1> HIDE DEF old, account
<1>16. ASSUME d.name \in Names(Listed), TreeOf(Listed)[d.name] = Content(Mine(s)),
              TreeOf(Listed') = [TreeOf(Listed) EXCEPT ![d.name] = Content(d)]
       PROVE  Directory!ChangeUsers(d.name)
  <2> DEFINE now == TreeOf(Listed)
  <2>1. now[d.name].users = Accounts(old)
    BY <1>14, <1>16
  <2>2. Content(d) = [now[d.name] EXCEPT !.users = Given(Accounts(old), u, account)]
    BY <1>14, <1>16
  <2>3. TreeOf(Listed') = [now EXCEPT ![d.name].users = Given(now[d.name].users, u, account)]
    BY <1>16, <2>1, <2>2
  <2>4. u \in DOMAIN now[d.name].users /\ account = [now[d.name].users[u] EXCEPT !.password = p]
    BY <1>12, <1>15, <2>1
  <2>5. AltersUser(now, TreeOf(Listed'), d.name)
    <3> DEFINE later == TreeOf(Listed')
               n     == d.name
    <3>1. /\ u \in UserNames /\ p \in Passwords /\ u \in DOMAIN now[n].users
          /\ later = [now EXCEPT ![n].users =
                        Given(now[n].users, u, [now[n].users[u] EXCEPT !.password = p])]
      BY <1>7, <2>3, <2>4
    <3> HIDE DEF now, later, n
    <3>2. AltersUser(now, later, n)
      BY Zenon, <3>1 DEF AltersUser
    <3>3. QED
      BY <3>2 DEF now, later, n
  <2>6. /\ TreeOf(IF torn THEN <<>> ELSE Listed) = now
        /\ TreeOf(IF torn THEN <<>> ELSE Listed)' = TreeOf(Listed')
    OBVIOUS
  <2>7. QED
    BY <2>5, <2>6, ChangesUsers
<1>17. QED
  BY <1>2, <1>6, <1>9, <1>16, ChangeMineDirectory

LEMMA StatementDirectory ==
  ASSUME IndInv, IndInv', ~torn, ~torn', ~DropsFirst, NEW s \in Sessions, Statement(s)
  PROVE  Directory!Next \/ UNCHANGED Directory!vars
<1>1. CASE Answer(s) \/ UseDatabase(s)
  <2>1. UNCHANGED <<descriptors, dbs, catalog, status, pc, torn>>
    BY <1>1 DEF Answer, UseDatabase
  <2>2. UNCHANGED Directory!vars
    BY <2>1, SameTrees DEF Directory!vars, DirectoryPhase
  <2>3. QED
    BY <2>2
<1>2. CASE FailsAssertion(s)
  <2>1. UNCHANGED <<descriptors, dbs, catalog>>
    BY <1>2 DEF FailsAssertion, Trap
  <2>2. DirectoryPhase = "idle" /\ DirectoryPhase' = "down"
    BY <1>2 DEF FailsAssertion, Request, Trap, DirectoryPhase
  <2>3. QED
    BY <2>1, <2>2, SameTrees DEF Directory!Next, Directory!Stop
<1>3. CASE CreateDatabase(s)
  <2>1. PICK n \in DbNames \ Names(Listed) :
          TreeOf(Listed') = [m \in Names(Listed) \cup {n} |->
                               IF m = n THEN Content(NewDatabase(n)) ELSE TreeOf(Listed)[m]]
    BY <1>3, TreeAfterCreate
  <2>2. DOMAIN TreeOf(Listed) = Names(Listed)
    BY ListsAreLists, TreeAt
  <2>3. Content(NewDatabase(n)) = Directory!Empty
    <3>1. Range(<<>>) = {}
      BY DEF Range
    <3>2. Accounts(<<>>) = [u \in {} |-> u]
      BY DEF Accounts, Names
    <3>3. NewDatabase(n).users = <<>> /\ NewDatabase(n).tables = <<>>
      BY DEF NewDatabase
    <3>4. QED
      BY <3>1, <3>2, <3>3 DEF Content, Directory!Empty
  <2>4. DirectoryPhase = "idle" /\ DirectoryPhase' = "idle" /\ TreeOf(catalog') = TreeOf(catalog)
    BY <1>3 DEF CreateDatabase, Change, Request, DirectoryPhase
  <2>5. QED
    BY <2>1, <2>2, <2>3, <2>4 DEF Directory!Next, Directory!AddDatabase
<1>4. CASE DropDatabase(s)
  <2>1. PICK n \in Names(Listed) : TreeOf(Listed') = [m \in Names(Listed) \ {n} |-> TreeOf(Listed)[m]]
    BY <1>4, TreeAfterDrop
  <2>2. DOMAIN TreeOf(Listed) = Names(Listed)
    BY ListsAreLists, TreeAt
  <2>3. DirectoryPhase = "idle" /\ DirectoryPhase' = "changed" /\ TreeOf(catalog') = TreeOf(catalog)
    BY <1>4 DEF DropDatabase, Change, Request, DirectoryPhase
  <2>4. QED
    BY <2>1, <2>2, <2>3 DEF Directory!Next, Directory!RemoveDatabase
<1>5. QED
  BY <1>1, <1>2, <1>3, <1>4, CreateTableDirectory, DropTableDirectory, CreateUserDirectory,
     AlterUserDirectory DEF Statement

LEMMA WholeDirectory ==
  ASSUME IndInv, IndInv', ~torn, ~torn', ~DropsFirst, [Next]_vars
  PROVE  Directory!Next \/ UNCHANGED Directory!vars
<1>1. ASSUME UNCHANGED <<descriptors, dbs, catalog, status, pc, torn>>
      PROVE  UNCHANGED Directory!vars
  BY <1>1, SameTrees DEF Directory!vars, DirectoryPhase
<1>2. CASE UNCHANGED vars
  BY <1>1, <1>2 DEF vars
<1>3. ASSUME NEW s \in Sessions, Connect(s) \/ Expire(s)
      PROVE  UNCHANGED Directory!vars
  BY <1>1, <1>3 DEF Connect, Expire
<1>4. ASSUME NEW s \in Sessions, Statement(s)
      PROVE  Directory!Next \/ UNCHANGED Directory!vars
  BY <1>4, StatementDirectory
<1>5. CASE SaveRefused
  <2>1. UNCHANGED <<descriptors, dbs, catalog>>
    BY <1>5 DEF SaveRefused
  <2>2. DirectoryPhase = "changed" /\ DirectoryPhase' = "idle"
    BY <1>5 DEF SaveRefused, DirectoryPhase
  <2>3. QED
    BY <2>1, <2>2, SameTrees DEF Directory!Next, Directory!SaveRefused
<1>6. CASE SaveBegins
  <2>1. UNCHANGED <<descriptors, dbs, catalog>>
    BY <1>6 DEF SaveBegins
  <2>2. DirectoryPhase = "changed" /\ DirectoryPhase' = "saving"
    BY <1>6 DEF SaveBegins, DirectoryPhase
  <2>3. QED
    BY <2>1, <2>2, SameTrees DEF Directory!Next, Directory!SaveBegins
<1>7. CASE SaveEnds
  <2>1. Listed' = Listed /\ catalog' = Listed
    BY <1>7, SaveEndsHas DEF SaveEnds, Listed
  <2>2. DirectoryPhase = "saving" /\ DirectoryPhase' = "idle"
    BY <1>7 DEF SaveEnds, DirectoryPhase
  <2>3. TreeOf(catalog') = TreeOf(Listed) /\ TreeOf(Listed') = TreeOf(Listed)
    BY <2>1
  <2>4. QED
    BY <2>2, <2>3 DEF Directory!Next, Directory!SaveEnds
<1>8. CASE Stop \/ StopSaving
  <2>1. CASE Stop
    <3>1. UNCHANGED <<descriptors, dbs, catalog>>
      BY <2>1 DEF Stop
    <3>2. /\ status = "up" /\ status' = "stopped"
          /\ pc \in {"idle", "save"}
      BY <2>1 DEF Stop, IndInv, TypeOK
    <3>3. DirectoryPhase \notin {"saving", "down", "torn"} /\ DirectoryPhase' = "down"
      BY <3>2 DEF DirectoryPhase
    <3>4. QED
      BY <3>1, <3>3, SameTrees DEF Directory!Next, Directory!Stop
  <2>2. CASE StopSaving
    <3>1. catalog' \in {catalog, Listed} /\ Listed' = Listed
      BY <2>2, StopSavingHas DEF StopSaving, Listed
    <3>2. DirectoryPhase = "saving" /\ DirectoryPhase' = "down"
      BY <2>2 DEF StopSaving, DirectoryPhase
    <3>3. TreeOf(catalog') \in {TreeOf(catalog), TreeOf(Listed)} /\ TreeOf(Listed') = TreeOf(Listed)
      BY <3>1
    <3>4. QED
      BY <3>2, <3>3 DEF Directory!Next, Directory!StopSaving
  <2>3. QED
    BY <1>8, <2>1, <2>2
<1>9. CASE Start
  <2>1. TreeOf(Listed') = TreeOf(catalog) /\ catalog' = catalog
    BY <1>9, TreeAfterStart DEF Start
  <2>2. DirectoryPhase = "down" /\ DirectoryPhase' = "idle"
    BY <1>9 DEF Start, DirectoryPhase
  <2>3. QED
    BY <2>1, <2>2 DEF Directory!Next, Directory!Start
<1>10. QED
  BY <1>2, <1>3, <1>4, <1>5, <1>6, <1>7, <1>8, <1>9 DEF Next

(* Nothing is promised of what is in a torn file. *)
LEMMA TornDirectory ==
  TreeOf(<<>>) = [n \in {} |-> Directory!Empty]
<1>1. Names(<<>>) = {}
  BY DEF Names
<1>2. QED
  BY <1>1 DEF TreeOf

LEMMA StepDirectory ==
  ASSUME ~DropsFirst
  PROVE  IndInv /\ IndInv' /\ [Next]_vars => [Directory!Next]_(Directory!vars)
<1> SUFFICES ASSUME IndInv, IndInv', [Next]_vars
             PROVE  Directory!Next \/ UNCHANGED Directory!vars
  OBVIOUS
<1>1. CASE torn
  BY <1>1, TornStays DEF Directory!vars, DirectoryPhase
<1>2. CASE ~torn /\ torn'
  <2>1. StopSaving
    BY <1>2, TornStays
  <2>2. DirectoryPhase = "saving" /\ DirectoryPhase' = "torn"
    BY <1>2, <2>1 DEF StopSaving, DirectoryPhase
  <2>3. QED
    BY <1>2, <2>2, TornDirectory DEF Directory!Next, Directory!Tear
<1>3. CASE ~torn /\ ~torn'
  BY <1>3, WholeDirectory
<1>4. QED
  BY <1>1, <1>2, <1>3

LEMMA InitDirectory == Init => Directory!Init
<1> SUFFICES ASSUME Init PROVE Directory!Init
  OBVIOUS
<1>1. IndInv
  BY InitInv
<1> DEFINE us == Accounts(FirstDatabase.users)
<1>2. catalog = Listed /\ DOMAIN Listed = {1} /\ Listed[1] = FirstDatabase /\ ~torn
  <2>1. catalog = Listed /\ catalog = descriptors
    BY InitCatalog
  <2>2. descriptors = <<FirstDatabase>> /\ ~torn
    BY DEF Init
  <2>3. QED
    BY <2>1, <2>2
<1>3. FirstDatabase.name = Default /\ Content(FirstDatabase) = [tables |-> {}, users |-> us]
  BY DEF FirstDatabase, Content, Range
<1>4. us \in Directory!Users
  <2> DEFINE users == FirstDatabase.users
             u == [name |-> Admin, password |-> AdminPassword, admin |-> TRUE]
  <2>1. Len(users) = 1 /\ DOMAIN users = 1 .. 1 /\ users[1] = u
    BY DEF FirstDatabase
  <2>2. u.name = Admin /\ u.password = AdminPassword /\ u.admin = TRUE
    OBVIOUS
  <2> HIDE DEF users, u
  <2>3. IsList(users)
    BY <2>1 DEF IsList, HasNoDuplicates
  <2>4. Names(users) = {Admin}
    BY <2>1, <2>2 DEF Names
  <2>5. Accounts(users)[users[1].name] = [password |-> users[1].password, admin |-> users[1].admin]
    BY <2>1, <2>3, AccountAt
  <2>6. Accounts(users) = [n \in {Admin} |-> Accounts(users)[n]]
        /\ Accounts(users)[Admin] = [password |-> AdminPassword, admin |-> TRUE]
    BY <2>1, <2>2, <2>3, <2>4, <2>5, AccountAt
  <2>7. Accounts(users)[Admin] \in [password : Passwords, admin : BOOLEAN]
    <3>1. [password |-> AdminPassword, admin |-> TRUE] \in [password : Passwords, admin : BOOLEAN]
      BY NameAssumption
    <3>2. QED
      BY <2>6, <3>1
  <2>8. us = Accounts(users)
    BY DEF users
  <2> HIDE DEF us
  <2>9. us \in [{Admin} -> [password : Passwords, admin : BOOLEAN]]
    BY <2>6, <2>7, <2>8
  <2>10. {Admin} \in SUBSET UserNames
    BY NameAssumption
  <2>11. QED
    BY <2>9, <2>10 DEF Directory!Users
<1> HIDE DEF us
<1>5. TreeOf(Listed) = [m \in {Default} |-> [tables |-> {}, users |-> us]]
  <2> DEFINE t == [m \in {Default} |-> [tables |-> {}, users |-> us]]
  <2>1. Names(Listed) = {Default}
    BY <1>2, <1>3 DEF Names
  <2>2. DOMAIN t = Names(Listed) /\ t = [m \in DOMAIN t |-> t[m]]
        /\ \A i \in DOMAIN Listed : t[Listed[i].name] = Content(Listed[i])
    BY <1>2, <1>3, <2>1
  <2> HIDE DEF t
  <2>3. IsList(Listed)
    BY <1>1, <1>2, ListsAreLists
  <2>4. QED
    BY <2>2, <2>3, TreeIs DEF t
<1>6. DirectoryPhase = "idle"
  BY DEF Init, DirectoryPhase
<1>7. QED
  BY <1>2, <1>4, <1>5, <1>6, NameAssumption DEF Directory!Init

(* While DROP DATABASE does not name the head of the list, the lists, the
   pointers of the sessions and the catalog are a directory: every statement
   changes the content of one database, as the directory says, or of none,
   and a restart has the databases that were saved last, also after a stop
   in a save that left the old list in the file or the new one.  Only a stop
   that leaves parts of both, or what is no catalog, ends this.            *)
THEOREM SpecImplementsDirectory ==
  ASSUME ~DropsFirst
  PROVE  Spec => DirectorySpec
<1>1. IndInv /\ IndInv' /\ [Next]_vars => [Directory!Next]_(Directory!vars)
  BY StepDirectory
<1>2. QED
  BY <1>1, InitDirectory, SpecInv, PTL DEF Spec, DirectorySpec, Directory!Spec
=============================================================================
