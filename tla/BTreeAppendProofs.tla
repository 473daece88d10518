------------------------- MODULE BTreeAppendProofs -------------------------
(***************************************************************************)
(* What holds of the index for every order T of the tree while its file is *)
(* open for the first time and no key is below the one before it, which is *)
(* how a table numbers its rows: the pages form one balanced tree, the     *)
(* tree is what the header and the root in memory say it is, no assertion  *)
(* stops the process, and every key is stored as often as it was inserted. *)
(*                                                                         *)
(* In this order an insert only ever goes down to the last child and only  *)
(* ever writes behind the last key, so no key or child moves to make room: *)
(* the loops of InsertKey and AdoptChild that shift are not entered.       *)
(***************************************************************************)
EXTENDS BTreeIndexProofs, FiniteSetTheorems

USE OrderAssumption, KeysAssumption

(* The pages written since the last reset, when the number of the last page *)
(* was b: page 0 and those after b.                                         *)
Live(b, n) == {0} \cup (b + 1) .. n

HasKid(t, x, s) == ~t[x].leaf /\ s \in 0 .. t[x].count

(* Where the pages t hold the key k. *)
Places(t, b, n, k) ==
  {at \in Live(b, n) \X KeySlots : /\ at[2] < t[at[1]].count
                                   /\ t[at[1]].keys[at[2]] = k}

TreePages(t, b, n, B) ==
  \A x \in Live(b, n) :
    /\ t[x] \in Page
    /\ \A s \in KeySlots : s < t[x].count => t[x].keys[s] <= B

(* d gives every page its depth; the leaves are those at depth h-1. *)
TreeDepths(t, b, n, h, d) ==
  /\ d \in [Live(b, n) -> 0 .. (h - 1)]
  /\ d[0] = 0
  /\ \A x \in Live(b, n) : t[x].leaf <=> d[x] = h - 1

TreeKids(t, b, n, d) ==
  \A x \in Live(b, n), s \in Nat :
    HasKid(t, x, s) => /\ t[x].kids[s] \in (b + 1) .. n
                       /\ s < t[x].kids[s]
                       /\ d[t[x].kids[s]] = d[x] + 1

TreeOneParent(t, b, n) ==
  \A x, y \in Live(b, n), s, r \in Nat :
    HasKid(t, x, s) /\ HasKid(t, y, r) /\ t[x].kids[s] = t[y].kids[r]
      => x = y /\ s = r

TreeReached(t, b, n) ==
  \A y \in (b + 1) .. n :
    \E x \in Live(b, n), s \in Nat : HasKid(t, x, s) /\ t[x].kids[s] = y

(* The pages t form one tree of height h whose keys are at most B. *)
Tree(t, b, n, h, d, B) ==
  /\ b \in Nat /\ n \in Nat /\ b <= n
  /\ h \in Nat /\ 1 <= h /\ h <= n - b + 1
  /\ TreePages(t, b, n, B)
  /\ TreeDepths(t, b, n, h, d)
  /\ TreeKids(t, b, n, d)
  /\ TreeOneParent(t, b, n)
  /\ TreeReached(t, b, n)
-----------------------------------------------------------------------------
(* In this order the slot of an insert is behind the last key. *)

LEMMA SlotAtEnd ==
  ASSUME NEW p \in Page, NEW k \in Nat,
         \A s \in KeySlots : s < p.count => p.keys[s] <= k
  PROVE  InsertSlot(p, k) = p.count
<1> DEFINE i == InsertSlot(p, k)
<1>1. p.count \in Nat /\ p.count <= 2 * T - 1 /\ p.keys \in [KeySlots -> Nat]
  BY DEF Page, MaxKeys
<1>2. i \in 0 .. p.count
  BY InsertSlotRange
<1>3. \A j \in p.count .. (p.count - 1) : k < p.keys[j]
  BY <1>1
<1>4. p.count > 0 => k >= p.keys[p.count - 1]
  BY <1>1 DEF KeySlots
<1>5. \A j \in i .. (p.count - 1) : k < p.keys[j]
  BY <1>1, <1>3, <1>4 DEF InsertSlot
<1>6. SUFFICES ASSUME i < p.count PROVE FALSE
  BY <1>1, <1>2
<1>7. i \in i .. (p.count - 1) /\ i \in KeySlots
  BY <1>1, <1>2, <1>6 DEF KeySlots
<1>8. k < p.keys[i] /\ p.keys[i] <= k
  BY <1>5, <1>6, <1>7
<1>9. p.keys[i] \in Nat
  BY <1>1, <1>7
<1>10. QED
  BY <1>8, <1>9

(* So an insert into a leaf appends, and moves nothing. *)
LEMMA InsertAppends ==
  ASSUME NEW p \in Page, NEW k \in Nat, ~IsFull(p),
         \A s \in KeySlots : s < p.count => p.keys[s] <= k
  PROVE  /\ InsertKey(p, k) \in Page
         /\ InsertKey(p, k).leaf = p.leaf
         /\ InsertKey(p, k).count = p.count + 1
         /\ InsertKey(p, k).kids = p.kids
         /\ p.count \in KeySlots
         /\ InsertKey(p, k).keys[p.count] = k
         /\ \A s \in KeySlots : s < p.count => InsertKey(p, k).keys[s] = p.keys[s]
<1>1. /\ p.count \in Nat /\ p.count < 2 * T - 1
      /\ p.keys \in [KeySlots -> Nat] /\ p.kids \in [KidSlots -> Nat]
  BY DEF Page, MaxKeys, IsFull
<1>2. InsertSlot(p, k) = p.count
  BY SlotAtEnd
<1> DEFINE ks == [s \in KeySlots |->
                    IF s = p.count THEN k
                    ELSE IF s > p.count /\ s <= p.count THEN p.keys[s - 1]
                    ELSE p.keys[s]]
<1>3. InsertKey(p, k) = [p EXCEPT !.count = p.count + 1, !.keys = ks]
  BY <1>2 DEF InsertKey
<1>4. InsertKey(p, k) \in Page
  BY InsertKeyType
<1>5. p.count \in KeySlots
  BY <1>1 DEF KeySlots
<1>6. ks[p.count] = k
  BY <1>5
<1>7. ASSUME NEW s \in KeySlots, s < p.count
      PROVE  ks[s] = p.keys[s]
  BY <1>1, <1>7 DEF KeySlots
<1> HIDE DEF ks
<1>8. /\ InsertKey(p, k).leaf = p.leaf
      /\ InsertKey(p, k).count = p.count + 1
      /\ InsertKey(p, k).kids = p.kids
      /\ InsertKey(p, k).keys = ks
  BY <1>3 DEF Page
<1>9. QED
  BY <1>4, <1>5, <1>6, <1>7, <1>8

(* What the halves of a full page hold. *)
LEMMA HalvesHold ==
  ASSUME NEW p \in Page, IsFull(p)
  PROVE  /\ p.count = 2 * T - 1
         /\ LeftHalf(p) \in Page
         /\ LeftHalf(p).leaf = p.leaf
         /\ LeftHalf(p).count = T - 1
         /\ LeftHalf(p).keys = p.keys
         /\ LeftHalf(p).kids = p.kids
         /\ RightHalf(p) \in Page
         /\ RightHalf(p).leaf = p.leaf
         /\ RightHalf(p).count = T - 1
         /\ \A s \in 0 .. (T - 2) : RightHalf(p).keys[s] = p.keys[T + s]
         /\ ~p.leaf => \A s \in 0 .. (T - 1) : RightHalf(p).kids[s] = p.kids[T + s]
<1>1. p.count = 2 * T - 1
  BY DEF IsFull, MaxKeys
<1>2. LeftHalf(p) \in Page /\ RightHalf(p) \in Page
  BY HalvesType
<1>3. /\ LeftHalf(p).leaf = p.leaf
      /\ LeftHalf(p).count = T - 1
      /\ LeftHalf(p).keys = p.keys
      /\ LeftHalf(p).kids = p.kids
  BY DEF LeftHalf, Page
<1>4. RightHalf(p).leaf = p.leaf /\ RightHalf(p).count = T - 1
  BY DEF RightHalf
<1>5. ASSUME NEW s \in 0 .. (T - 2)
      PROVE  RightHalf(p).keys[s] = p.keys[T + s]
  BY DEF RightHalf, KeySlots
<1>6. ASSUME NEW s \in 0 .. (T - 1), ~p.leaf
      PROVE  RightHalf(p).kids[s] = p.kids[T + s]
  BY <1>6 DEF RightHalf, KidSlots
<1>7. QED
  BY <1>1, <1>2, <1>3, <1>4, <1>5, <1>6

LEMMA KidSlotOf ==
  ASSUME NEW s \in Nat, NEW e \in Nat, s <= e, e <= 2 * T - 1
  PROVE  s \in KidSlots
BY DEF KidSlots

LEMMA SlotsUnder ==
  ASSUME NEW i \in Nat, i < 2 * T - 1
  PROVE  i \in KeySlots /\ i + 1 \in KidSlots
BY DEF KeySlots, KidSlots

(* What a parent holds that adopts a page at its end. *)
LEMMA AdoptHolds ==
  ASSUME NEW p \in Page, ~IsFull(p), NEW median \in Nat, NEW newId \in Nat,
         NEW a, a = Adopt(p, p.count, median, newId)
  PROVE  /\ a \in Page
         /\ a.leaf = p.leaf
         /\ a.count = p.count + 1
         /\ p.count \in KeySlots
         /\ a.keys[p.count] = median
         /\ a.kids[p.count + 1] = newId
         /\ \A s \in KeySlots : s # p.count => a.keys[s] = p.keys[s]
         /\ \A s \in KidSlots : s # p.count + 1 => a.kids[s] = p.kids[s]
<1>1. /\ p.count \in Nat /\ p.count < 2 * T - 1
      /\ p.keys \in [KeySlots -> Nat] /\ p.kids \in [KidSlots -> Nat]
  BY DEF Page, MaxKeys, IsFull
<1>2. p.count \in KeySlots /\ p.count + 1 \in KidSlots
  BY <1>1, SlotsUnder
<1>3. a \in Page
  BY <1>1, AdoptType
<1>4. /\ a.leaf = p.leaf
      /\ a.count = p.count + 1
      /\ a.keys = [p.keys EXCEPT ![p.count] = median]
      /\ a.kids = [p.kids EXCEPT ![p.count + 1] = newId]
  BY DEF Adopt
<1>5. QED
  BY <1>1, <1>2, <1>3, <1>4
-----------------------------------------------------------------------------
(* Trees. *)

LEMMA LiveIs ==
  ASSUME NEW b \in Nat, NEW n \in Nat, b <= n
  PROVE  /\ Live(b, n) \subseteq 0 .. n
         /\ 0 \in Live(b, n)
         /\ \A y : y \in Live(b, n) <=> y = 0 \/ y \in (b + 1) .. n
         /\ \A y \in (b + 1) .. n : y \in Nat /\ y > b /\ y <= n
         /\ IsFiniteSet(Live(b, n))
         /\ Cardinality(Live(b, n)) = n - b + 1
<1>1. /\ IsFiniteSet((b + 1) .. n)
      /\ Cardinality((b + 1) .. n) = n - b
  <2>1. b + 1 \in Int /\ n \in Int /\ (b + 1 > n => n - b = 0) /\ n - (b + 1) + 1 = n - b
    OBVIOUS
  <2>2. QED
    BY <2>1, FS_Interval
<1>2. 0 \notin (b + 1) .. n
  OBVIOUS
<1>3. Live(b, n) = (b + 1) .. n \cup {0}
  BY DEF Live
<1>4. IsFiniteSet(Live(b, n)) /\ Cardinality(Live(b, n)) = n - b + 1
  <2> DEFINE S == (b + 1) .. n
  <2>1. IsFiniteSet(S) /\ Cardinality(S) = n - b /\ 0 \notin S /\ Live(b, n) = S \cup {0}
    BY <1>1, <1>2, <1>3
  <2> HIDE DEF S
  <2>2. IsFiniteSet(S \cup {0}) /\ Cardinality(S \cup {0}) = Cardinality(S) + 1
    BY <2>1, FS_AddElement
  <2>3. QED
    BY <2>1, <2>2
<1>5. QED
  BY <1>3, <1>4

LEMMA PlaceOf ==
  ASSUME NEW t, NEW b, NEW n, NEW k, NEW at
  PROVE  at \in Places(t, b, n, k) <=>
           \E x \in Live(b, n), s \in KeySlots :
             at = <<x, s>> /\ s < t[x].count /\ t[x].keys[s] = k
BY DEF Places

LEMMA PlacesFinite ==
  ASSUME NEW t, NEW b \in Nat, NEW n \in Nat, b <= n, NEW k
  PROVE  IsFiniteSet(Places(t, b, n, k)) /\ Cardinality(Places(t, b, n, k)) \in Nat
<1>1. IsFiniteSet(KeySlots)
  BY FS_Interval DEF KeySlots
<1>2. IsFiniteSet(Live(b, n) \X KeySlots)
  BY <1>1, LiveIs, FS_Product
<1>3. Places(t, b, n, k) \in SUBSET (Live(b, n) \X KeySlots)
  BY DEF Places
<1>4. QED
  BY <1>2, <1>3, FS_Subset, FS_CardinalityType

(* Two finite sets have the same size when one is a renaming of the other. *)
LEMMA SameSize ==
  ASSUME NEW S, NEW R, IsFiniteSet(S), NEW f \in [S -> R],
         \A v, w \in S : f[v] = f[w] => v = w,
         \A r \in R : \E v \in S : f[v] = r
  PROVE  IsFiniteSet(R) /\ Cardinality(R) = Cardinality(S)
<1>1. f \in Bijection(S, R)
  BY DEF Bijection, Injection, Surjection, IsInjective
<1>2. ExistsBijection(S, R)
  BY <1>1 DEF ExistsBijection
<1>3. QED
  BY <1>2, FS_Bijection

(* A tree is made of what its own pages say.                               *)
LEMMA TreeOfEqualPages ==
  ASSUME NEW t, NEW u, NEW b, NEW n, NEW h, NEW d, NEW B,
         Tree(t, b, n, h, d, B), \A x \in Live(b, n) : u[x] = t[x]
  PROVE  Tree(u, b, n, h, d, B)
<1>1. TreePages(u, b, n, B)
  BY DEF Tree, TreePages
<1>2. TreeDepths(u, b, n, h, d)
  BY DEF Tree, TreeDepths
<1>3. \A x \in Live(b, n), s \in Nat : HasKid(u, x, s) <=> HasKid(t, x, s)
  BY DEF HasKid
<1>4. TreeKids(u, b, n, d)
  BY <1>3 DEF Tree, TreeKids
<1>5. TreeOneParent(u, b, n)
  <2>1. ASSUME NEW x \in Live(b, n), NEW y \in Live(b, n), NEW s \in Nat, NEW r \in Nat,
               HasKid(u, x, s), HasKid(u, y, r), u[x].kids[s] = u[y].kids[r]
        PROVE  x = y /\ s = r
    <3>1. HasKid(t, x, s) /\ HasKid(t, y, r) /\ t[x].kids[s] = t[y].kids[r]
      BY <1>3, <2>1
    <3>2. QED
      BY <3>1 DEF Tree, TreeOneParent
  <2>2. QED
    BY <2>1 DEF TreeOneParent
<1>6. TreeReached(u, b, n)
  BY <1>3, Zenon DEF Tree, TreeReached
<1>7. QED
  BY <1>1, <1>2, <1>4, <1>5, <1>6 DEF Tree

LEMMA PlacesOfEqualPages ==
  ASSUME NEW t, NEW u, NEW b, NEW n, \A x \in Live(b, n) : u[x] = t[x], NEW k
  PROVE  Places(u, b, n, k) = Places(t, b, n, k)
BY DEF Places

LEMMA TreeUnder ==
  ASSUME NEW t, NEW b, NEW n, NEW h, NEW d, NEW B \in Nat, NEW C \in Nat,
         Tree(t, b, n, h, d, B), B <= C
  PROVE  Tree(t, b, n, h, d, C)
<1>1. ASSUME NEW x \in Live(b, n), NEW s \in KeySlots, s < t[x].count
      PROVE  t[x].keys[s] <= C
  <2>1. t[x] \in Page /\ t[x].keys[s] <= B
    BY <1>1 DEF Tree, TreePages
  <2>2. t[x].keys[s] \in Nat
    BY <2>1 DEF Page
  <2>3. QED
    BY <2>1, <2>2
<1>2. TreePages(t, b, n, C)
  BY <1>1 DEF Tree, TreePages
<1>3. QED
  BY <1>2 DEF Tree

(* A reset leaves a tree of one empty page.                                *)
LEMMA EmptyTree ==
  ASSUME NEW t, NEW b \in Nat, NEW B \in Nat, t[0] = EmptyLeaf
  PROVE  /\ \E d : Tree(t, b, b, 1, d, B)
         /\ \A k : Places(t, b, b, k) = {}
<1> DEFINE d == [x \in Live(b, b) |-> 0]
<1>1. Live(b, b) = {0} /\ (b + 1) .. b = {}
  BY DEF Live
<1>2. /\ EmptyLeaf \in Page
      /\ EmptyLeaf.count = 0
      /\ EmptyLeaf.leaf = TRUE
  BY BlankPages DEF EmptyLeaf, BlankPage
<1>3. TreePages(t, b, b, B)
  BY <1>1, <1>2 DEF TreePages, KeySlots
<1>4. TreeDepths(t, b, b, 1, d)
  BY <1>1, <1>2 DEF TreeDepths
<1>5. \A x \in Live(b, b), s \in Nat : ~HasKid(t, x, s)
  BY <1>1, <1>2 DEF HasKid
<1>6. TreeKids(t, b, b, d) /\ TreeOneParent(t, b, b) /\ TreeReached(t, b, b)
  BY <1>1, <1>5 DEF TreeKids, TreeOneParent, TreeReached
<1>7. Tree(t, b, b, 1, d, B)
  BY <1>3, <1>4, <1>6 DEF Tree
<1>8. \A k : Places(t, b, b, k) = {}
  BY <1>1, <1>2 DEF Places, KeySlots
<1>9. QED
  BY <1>7, <1>8

(* The pages u hold k once more than the pages t, all other keys alike.    *)
OneMore(u, t, b, n, k) ==
  \A v : Cardinality(Places(u, b, n, v)) =
           Cardinality(Places(t, b, n, v)) + IF v = k THEN 1 ELSE 0

(* A key that is not below the others joins a leaf with room.              *)
LEMMA LeafInsert ==
  ASSUME NEW t, NEW u, NEW b, NEW n, NEW h, NEW d, NEW k \in Nat,
         Tree(t, b, n, h, d, k), NEW l \in Live(b, n),
         t[l].leaf, ~IsFull(t[l]),
         u[l] = InsertKey(t[l], k), \A x \in Live(b, n) \ {l} : u[x] = t[x]
  PROVE  Tree(u, b, n, h, d, k) /\ OneMore(u, t, b, n, k)
<1> DEFINE e == t[l].count
<1>1. t[l] \in Page /\ \A s \in KeySlots : s < t[l].count => t[l].keys[s] <= k
  BY DEF Tree, TreePages
<1>2. /\ u[l] \in Page /\ u[l].leaf = t[l].leaf /\ u[l].count = e + 1
      /\ u[l].kids = t[l].kids
      /\ e \in KeySlots
      /\ u[l].keys[e] = k
      /\ \A s \in KeySlots : s < e => u[l].keys[s] = t[l].keys[s]
  <2> DEFINE p == t[l]
  <2>1. p \in Page /\ ~IsFull(p) /\ \A s \in KeySlots : s < p.count => p.keys[s] <= k
    BY <1>1
  <2>2. u[l] = InsertKey(p, k)
    OBVIOUS
  <2> HIDE DEF p
  <2>3. /\ u[l] \in Page /\ u[l].leaf = p.leaf /\ u[l].count = p.count + 1
        /\ u[l].kids = p.kids
        /\ p.count \in KeySlots
        /\ u[l].keys[p.count] = k
        /\ \A s \in KeySlots : s < p.count => u[l].keys[s] = p.keys[s]
    BY <2>1, <2>2, InsertAppends
  <2>4. QED
    BY <2>3 DEF p
<1>3. e \in Nat /\ \A s \in KeySlots : s \in Nat
  BY <1>1 DEF Page, MaxKeys, KeySlots
<1> HIDE DEF e
<1>4. ASSUME NEW x \in Live(b, n), NEW s \in KeySlots, s < u[x].count
      PROVE  u[x].keys[s] <= k
  <2>1. CASE x # l
    BY <1>4, <2>1 DEF Tree, TreePages
  <2>2. CASE x = l /\ s = e
    BY <1>2, <2>2
  <2>3. CASE x = l /\ s # e
    <3>1. s < e
      BY <1>2, <1>3, <1>4, <2>3
    <3>2. QED
      BY <1>1, <1>2, <2>3, <3>1 DEF e
  <2>4. QED
    BY <2>1, <2>2, <2>3
<1>5. TreePages(u, b, n, k)
  <2>1. \A x \in Live(b, n) : u[x] \in Page
    BY <1>2 DEF Tree, TreePages
  <2>2. QED
    BY <1>4, <2>1 DEF TreePages
<1>6. \A x \in Live(b, n) : u[x].leaf = t[x].leaf
  BY <1>2
<1>7. TreeDepths(u, b, n, h, d)
  BY <1>6 DEF Tree, TreeDepths
<1>8. \A x \in Live(b, n), s \in Nat :
        /\ HasKid(u, x, s) <=> HasKid(t, x, s)
        /\ HasKid(t, x, s) => u[x].kids[s] = t[x].kids[s]
  BY <1>2 DEF HasKid
<1>9. TreeKids(u, b, n, d)
  BY <1>8 DEF Tree, TreeKids
<1>10. TreeOneParent(u, b, n)
  BY <1>8 DEF Tree, TreeOneParent
<1>11. TreeReached(u, b, n)
  <2>1. ASSUME NEW y \in (b + 1) .. n
        PROVE  \E x \in Live(b, n), s \in Nat : HasKid(u, x, s) /\ u[x].kids[s] = y
    <3>1. PICK x \in Live(b, n), s \in Nat : HasKid(t, x, s) /\ t[x].kids[s] = y
      BY DEF Tree, TreeReached
    <3>2. HasKid(u, x, s) /\ u[x].kids[s] = y
      BY <1>8, <3>1
    <3>3. QED
      BY <3>2
  <2>2. QED
    BY <2>1 DEF TreeReached
<1>12. Tree(u, b, n, h, d, k)
  BY <1>5, <1>7, <1>9, <1>10, <1>11 DEF Tree
<1>13. ASSUME NEW v
       PROVE  Cardinality(Places(u, b, n, v)) =
                Cardinality(Places(t, b, n, v)) + IF v = k THEN 1 ELSE 0
  <2>1. ASSUME NEW x \in Live(b, n), NEW s \in KeySlots
        PROVE  s < u[x].count /\ u[x].keys[s] = v <=>
                 \/ s < t[x].count /\ t[x].keys[s] = v
                 \/ x = l /\ s = e /\ v = k
    <3>1. CASE x # l
      BY <3>1
    <3>2. CASE x = l
      BY <1>2, <1>3, <3>2 DEF e
    <3>3. QED
      BY <3>1, <3>2
  <2>2. IsFiniteSet(Places(t, b, n, v)) /\ Cardinality(Places(t, b, n, v)) \in Nat
    BY PlacesFinite DEF Tree
  <2>3. CASE v = k
    <3>1. Places(u, b, n, v) = Places(t, b, n, v) \cup {<<l, e>>}
      <4>1. ASSUME NEW at
            PROVE  at \in Places(u, b, n, v) <=> at \in Places(t, b, n, v) \/ at = <<l, e>>
        BY <1>2, <2>1, <2>3, PlaceOf
      <4>2. QED
        BY <4>1
    <3>2. <<l, e>> \notin Places(t, b, n, v)
      BY <1>3 DEF Places, e
    <3> DEFINE S == Places(t, b, n, v)
    <3>3. IsFiniteSet(S) /\ <<l, e>> \notin S
      BY <2>2, <3>2
    <3> HIDE DEF S
    <3>4. Cardinality(S \cup {<<l, e>>}) = Cardinality(S) + 1
      BY <3>3, FS_AddElement
    <3>5. QED
      BY <2>3, <3>1, <3>4 DEF S
  <2>4. CASE v # k
    <3>1. Places(u, b, n, v) = Places(t, b, n, v)
      <4>1. ASSUME NEW at
            PROVE  at \in Places(u, b, n, v) <=> at \in Places(t, b, n, v)
        BY <2>1, <2>4, PlaceOf
      <4>2. QED
        BY <4>1
    <3>2. QED
      BY <2>2, <2>4, <3>1
  <2>5. QED
    BY <2>3, <2>4
<1>14. QED
  BY <1>12, <1>13 DEF OneMore

(* The pages u form a tree of height h that holds what the pages t held.    *)
Regrown(t, n, u, m, b, h, B) ==
  /\ \E e : Tree(u, b, m, h, e, B)
  /\ \A v : Cardinality(Places(u, b, m, v)) = Cardinality(Places(t, b, n, v))

(* The root of a tree moves to a new page, and a page without keys above it *)
(* becomes the root.                                                        *)
LEMMA Lift ==
  ASSUME NEW t, NEW u, NEW b, NEW n, NEW h, NEW d, NEW B,
         Tree(t, b, n, h, d, B),
         u[0] \in Page, u[0].leaf = FALSE, u[0].count = 0, u[0].kids[0] = n + 1,
         u[n + 1] = t[0], \A x \in (b + 1) .. n : u[x] = t[x]
  PROVE  Regrown(t, n, u, n + 1, b, h + 1, B)
<1> DEFINE m == n + 1
           old(x) == IF x = m THEN 0 ELSE x
           new(x) == IF x = 0 THEN m ELSE x
           e == [x \in Live(b, m) |-> IF x = 0 THEN 0 ELSE d[old(x)] + 1]
<1>1. b \in Nat /\ n \in Nat /\ b <= n /\ h \in Nat /\ 1 <= h /\ h <= n - b + 1
  BY DEF Tree
<1>2. /\ \A x : x \in Live(b, n) <=> x = 0 \/ x \in (b + 1) .. n
      /\ \A x : x \in Live(b, m) <=> x = 0 \/ x = m \/ x \in (b + 1) .. n
      /\ m \notin Live(b, n) /\ 0 \notin (b + 1) .. n /\ m # 0
  BY <1>1 DEF Live
<1>3. ASSUME NEW x \in Live(b, m), x # 0
      PROVE  old(x) \in Live(b, n) /\ u[x] = t[old(x)] /\ e[x] = d[old(x)] + 1
  BY <1>2, <1>3
<1>4. \A x \in Live(b, n) : new(x) \in Live(b, m) /\ new(x) # 0 /\ old(new(x)) = x
  BY <1>2
<1>5. \A x, y \in Live(b, m) : x # 0 /\ y # 0 /\ old(x) = old(y) => x = y
  BY <1>2
<1>6. /\ d \in [Live(b, n) -> 0 .. (h - 1)] /\ d[0] = 0
      /\ \A x \in Live(b, n) : t[x].leaf <=> d[x] = h - 1
  BY DEF Tree, TreeDepths
<1>7. TreePages(u, b, m, B)
  <2>1. ASSUME NEW x \in Live(b, m)
        PROVE  /\ u[x] \in Page
               /\ \A s \in KeySlots : s < u[x].count => u[x].keys[s] <= B
    <3>1. CASE x = 0
      BY <3>1 DEF KeySlots
    <3>2. CASE x # 0
      BY <1>3, <3>2 DEF Tree, TreePages
    <3>3. QED
      BY <3>1, <3>2
  <2>2. QED
    BY <2>1 DEF TreePages
<1>8. TreeDepths(u, b, m, h + 1, e)
  <2>1. ASSUME NEW x \in Live(b, m)
        PROVE  e[x] \in 0 .. ((h + 1) - 1) /\ (u[x].leaf <=> e[x] = (h + 1) - 1)
    <3>1. CASE x = 0
      BY <1>1, <3>1
    <3>2. CASE x # 0
      <4>1. d[old(x)] \in 0 .. (h - 1) /\ (t[old(x)].leaf <=> d[old(x)] = h - 1)
        BY <1>3, <1>6, <3>2
      <4>2. u[x] = t[old(x)] /\ e[x] = d[old(x)] + 1
        BY <1>3, <3>2
      <4> HIDE DEF e, old
      <4>3. QED
        BY <1>1, <4>1, <4>2
    <3>3. QED
      BY <3>1, <3>2
  <2>2. e[0] = 0
    BY <1>2
  <2>3. QED
    BY <2>1, <2>2 DEF TreeDepths
<1>9. \A s \in Nat : HasKid(u, 0, s) <=> s = 0
  BY DEF HasKid
<1>10. ASSUME NEW x \in Live(b, m), x # 0, NEW s \in Nat
       PROVE  /\ HasKid(u, x, s) <=> HasKid(t, old(x), s)
              /\ u[x].kids[s] = t[old(x)].kids[s]
  BY <1>3, <1>10 DEF HasKid
<1>11. ASSUME NEW x \in Live(b, n), NEW s \in Nat, HasKid(t, x, s)
       PROVE  /\ t[x].kids[s] \in (b + 1) .. n /\ t[x].kids[s] \in Live(b, n)
              /\ s < t[x].kids[s]
              /\ d[t[x].kids[s]] = d[x] + 1
  BY <1>2, <1>11 DEF Tree, TreeKids
<1>12. TreeKids(u, b, m, e)
  <2>1. ASSUME NEW x \in Live(b, m), NEW s \in Nat, HasKid(u, x, s)
        PROVE  /\ u[x].kids[s] \in (b + 1) .. m
               /\ s < u[x].kids[s]
               /\ e[u[x].kids[s]] = e[x] + 1
    <3>1. CASE x = 0
      <4>1. s = 0 /\ u[x].kids[s] = m
        BY <1>9, <2>1, <3>1
      <4>2. e[m] = 1 /\ e[0] = 0
        BY <1>2, <1>6
      <4>3. QED
        BY <1>1, <3>1, <4>1, <4>2
    <3>2. CASE x # 0
      <4> DEFINE q == u[x].kids[s]
      <4>1. /\ q \in (b + 1) .. n /\ q \in Live(b, n) /\ s < q
            /\ d[q] = d[old(x)] + 1
        BY <1>3, <1>10, <1>11, <2>1, <3>2
      <4>2. q \in Live(b, m) /\ q # 0 /\ old(q) = q
        BY <1>2, <4>1
      <4>3. e[q] = d[q] + 1 /\ e[x] = d[old(x)] + 1
        BY <1>3, <3>2, <4>2
      <4>4. q \in (b + 1) .. m
        BY <1>1, <4>1
      <4> HIDE DEF e, old
      <4>5. QED
        BY <4>1, <4>3, <4>4
    <3>3. QED
      BY <3>1, <3>2
  <2>2. QED
    BY <2>1 DEF TreeKids
<1>13. TreeOneParent(u, b, m)
  <2>1. ASSUME NEW x \in Live(b, m), NEW y \in Live(b, m), NEW s \in Nat, NEW r \in Nat,
               HasKid(u, x, s), HasKid(u, y, r), u[x].kids[s] = u[y].kids[r]
        PROVE  x = y /\ s = r
    <3>1. CASE x = 0 /\ y = 0
      BY <1>9, <2>1, <3>1
    <3>2. CASE x # 0 /\ y # 0
      <4>1. /\ HasKid(t, old(x), s) /\ HasKid(t, old(y), r)
            /\ t[old(x)].kids[s] = t[old(y)].kids[r]
        BY <1>10, <2>1, <3>2
      <4>2. old(x) = old(y) /\ s = r
        BY <1>3, <3>2, <4>1 DEF Tree, TreeOneParent
      <4>3. QED
        BY <1>5, <3>2, <4>2
    <3>3. ASSUME NEW w \in Live(b, m), w # 0, NEW q \in Nat, HasKid(u, w, q)
          PROVE  u[w].kids[q] # m
      BY <1>2, <1>3, <1>10, <1>11, <3>3
    <3>4. QED
      BY <1>9, <2>1, <3>1, <3>2, <3>3
  <2>2. QED
    BY <2>1 DEF TreeOneParent
<1>14. TreeReached(u, b, m)
  <2>1. ASSUME NEW y \in (b + 1) .. m
        PROVE  \E x \in Live(b, m), s \in Nat : HasKid(u, x, s) /\ u[x].kids[s] = y
    <3>1. CASE y = m
      <4>1. 0 \in Live(b, m) /\ HasKid(u, 0, 0) /\ u[0].kids[0] = y
        BY <1>2, <1>9, <3>1
      <4>2. QED
        BY <4>1
    <3>2. CASE y # m
      <4>1. y \in (b + 1) .. n
        BY <1>1, <3>2
      <4>2. PICK x \in Live(b, n), s \in Nat : HasKid(t, x, s) /\ t[x].kids[s] = y
        BY <4>1 DEF Tree, TreeReached
      <4>3. HasKid(u, new(x), s) /\ u[new(x)].kids[s] = y
        BY <1>4, <1>10, <4>2
      <4>4. QED
        BY <1>4, <4>3
    <3>3. QED
      BY <3>1, <3>2
  <2>2. QED
    BY <2>1 DEF TreeReached
<1>15. \E f : Tree(u, b, m, h + 1, f, B)
  <2>1. m \in Nat /\ b <= m /\ h + 1 \in Nat /\ 1 <= h + 1 /\ h + 1 <= m - b + 1
    BY <1>1
  <2>2. Tree(u, b, m, h + 1, e, B)
    BY <1>1, <1>7, <1>8, <1>12, <1>13, <1>14, <2>1 DEF Tree
  <2>3. QED
    BY <2>2
<1>16. ASSUME NEW v
       PROVE  Cardinality(Places(u, b, m, v)) = Cardinality(Places(t, b, n, v))
  <2> DEFINE S == Places(t, b, n, v)
             R == Places(u, b, m, v)
             f == [at \in S |-> <<new(at[1]), at[2]>>]
  <2>1. ASSUME NEW x \in Live(b, n), NEW s \in KeySlots
        PROVE  <<x, s>> \in S <=> <<new(x), s>> \in R
    <3>1. u[new(x)] = t[x] /\ new(x) \in Live(b, m)
      BY <1>3, <1>4
    <3>2. QED
      BY <3>1 DEF Places
  <2>2. \A at \in S : \E x \in Live(b, n), s \in KeySlots : at = <<x, s>>
    BY PlaceOf
  <2>3. ASSUME NEW at \in R
        PROVE  \E x \in Live(b, n), s \in KeySlots : at = <<new(x), s>>
    <3>1. PICK x \in Live(b, m), s \in KeySlots :
            at = <<x, s>> /\ s < u[x].count /\ u[x].keys[s] = v
      BY PlaceOf
    <3>2. x # 0
      BY <3>1 DEF KeySlots
    <3>3. old(x) \in Live(b, n) /\ new(old(x)) = x
      BY <1>2, <3>2
    <3>4. QED
      BY <3>1, <3>3
  <2>4. f \in [S -> R]
    BY <2>1, <2>2
  <2>5. ASSUME NEW y \in S, NEW w \in S, f[y] = f[w]
        PROVE  y = w
    <3>1. PICK x1 \in Live(b, n), s1 \in KeySlots : y = <<x1, s1>>
      BY <2>2
    <3>2. PICK x2 \in Live(b, n), s2 \in KeySlots : w = <<x2, s2>>
      BY <2>2
    <3>3. new(x1) = new(x2) /\ s1 = s2
      BY <2>5, <3>1, <3>2
    <3>4. QED
      BY <1>4, <3>1, <3>2, <3>3
  <2>6. ASSUME NEW r \in R
        PROVE  \E y \in S : f[y] = r
    <3>1. PICK x \in Live(b, n), s \in KeySlots : r = <<new(x), s>>
      BY <2>3
    <3>2. <<x, s>> \in S /\ f[<<x, s>>] = r
      BY <2>1, <3>1
    <3>3. QED
      BY <3>2
  <2>7. IsFiniteSet(S)
    BY <1>1, PlacesFinite
  <2> HIDE DEF S, R, f
  <2>8. Cardinality(R) = Cardinality(S)
    BY <2>4, <2>5, <2>6, <2>7, SameSize
  <2>9. QED
    BY <2>8 DEF S, R
<1>17. QED
  BY <1>15, <1>16 DEF Regrown

(* The last child of a page with room is split when it is full: the median *)
(* moves up, the upper half to a new page behind it.                       *)
SplitsTo(t, u, b, n, p, c) ==
  /\ ~t[p].leaf /\ ~IsFull(t[p])
  /\ c = t[p].kids[t[p].count] /\ IsFull(t[c])
  /\ u[p] = Adopt(t[p], t[p].count, t[c].keys[T - 1], n + 1)
  /\ u[c] = LeftHalf(t[c]) /\ u[n + 1] = RightHalf(t[c])
  /\ \A x \in Live(b, n) \ {p, c} : u[x] = t[x]

LEMMA SplitLastChild ==
  ASSUME NEW t, NEW u, NEW b, NEW n, NEW h, NEW d, NEW B,
         Tree(t, b, n, h, d, B),
         NEW p \in Live(b, n), NEW c, SplitsTo(t, u, b, n, p, c)
  PROVE  /\ Regrown(t, n, u, n + 1, b, h, B)
         /\ c \in (b + 1) .. n /\ c # p
<1> DEFINE m == n + 1
           cp == t[p].count
           med == t[c].keys[T - 1]
           e == [x \in Live(b, m) |-> IF x = m THEN d[c] ELSE d[x]]
<1>1. b \in Nat /\ n \in Nat /\ b <= n /\ h \in Nat /\ 1 <= h /\ h <= n - b + 1
  BY DEF Tree
<1>2. /\ \A x : x \in Live(b, m) <=> x = m \/ x \in Live(b, n)
      /\ \A x \in Live(b, n) : x \in Nat /\ x <= n
      /\ \A x \in (b + 1) .. n : x \in Live(b, n) /\ x # 0
      /\ m \notin Live(b, n) /\ 0 \in Live(b, n) /\ m \in (b + 1) .. m
  BY <1>1 DEF Live
<1>3. \A x \in Live(b, n) : t[x] \in Page
  BY DEF Tree, TreePages
<1>3a. d \in [Live(b, n) -> 0 .. (h - 1)] /\ d[0] = 0
  BY DEF Tree, TreeDepths
<1>3b. \A x \in Live(b, n) : t[x].leaf <=> d[x] = h - 1
  BY DEF Tree, TreeDepths
<1>4. ASSUME NEW x \in Live(b, n), NEW s \in Nat, HasKid(t, x, s)
      PROVE  /\ t[x].kids[s] \in (b + 1) .. n /\ t[x].kids[s] \in Live(b, n)
             /\ s < t[x].kids[s]
             /\ d[t[x].kids[s]] = d[x] + 1
  BY <1>2, <1>4 DEF Tree, TreeKids
<1>5. cp \in Nat /\ cp < 2 * T - 1 /\ HasKid(t, p, cp)
  <2>1. ~t[p].leaf /\ ~IsFull(t[p]) /\ t[p] \in Page
    BY <1>3 DEF SplitsTo
  <2>2. QED
    BY <2>1 DEF Page, MaxKeys, IsFull, HasKid
<1>6. c \in (b + 1) .. n /\ c \in Live(b, n) /\ cp < c /\ d[c] = d[p] + 1
  <2>1. c = t[p].kids[cp]
    BY DEF SplitsTo
  <2>2. QED
    BY <1>4, <1>5, <2>1
<1>7. c # p
  BY <1>3a, <1>6
<1>8. /\ t[c].count = 2 * T - 1 /\ u[c].count = T - 1 /\ u[m].count = T - 1
      /\ u[c] \in Page /\ u[m] \in Page
      /\ u[c].leaf = t[c].leaf /\ u[m].leaf = t[c].leaf
      /\ u[c].keys = t[c].keys /\ u[c].kids = t[c].kids
      /\ \A s \in 0 .. (T - 2) : u[m].keys[s] = t[c].keys[T + s]
      /\ ~t[c].leaf => \A s \in 0 .. (T - 1) : u[m].kids[s] = t[c].kids[T + s]
  <2> DEFINE pg == t[c]
  <2>1. pg \in Page /\ IsFull(pg) /\ u[c] = LeftHalf(pg) /\ u[m] = RightHalf(pg)
    BY <1>3, <1>6 DEF SplitsTo
  <2> HIDE DEF pg
  <2>2. /\ pg.count = 2 * T - 1 /\ u[c].count = T - 1 /\ u[m].count = T - 1
        /\ u[c] \in Page /\ u[m] \in Page
        /\ u[c].leaf = pg.leaf /\ u[m].leaf = pg.leaf
        /\ u[c].keys = pg.keys /\ u[c].kids = pg.kids
        /\ \A s \in 0 .. (T - 2) : u[m].keys[s] = pg.keys[T + s]
        /\ ~pg.leaf => \A s \in 0 .. (T - 1) : u[m].kids[s] = pg.kids[T + s]
    BY <2>1, HalvesHold
  <2>3. QED
    BY <2>2 DEF pg
<1>8a. t[c].count = 2 * T - 1 /\ u[c].count = T - 1 /\ u[m].count = T - 1
  BY <1>8
<1>8b. /\ u[c].keys = t[c].keys /\ u[c].kids = t[c].kids
       /\ \A s \in 0 .. (T - 2) : u[m].keys[s] = t[c].keys[T + s]
  BY <1>8
<1>8c. u[c] \in Page /\ u[m] \in Page /\ u[c].leaf = t[c].leaf /\ u[m].leaf = t[c].leaf
  BY <1>8
<1>8d. ~t[c].leaf => \A s \in 0 .. (T - 1) : u[m].kids[s] = t[c].kids[T + s]
  BY <1>8
<1>9. med \in Nat /\ med <= B
  <2>1. T - 1 \in KeySlots /\ T - 1 < t[c].count
    BY <1>8a DEF KeySlots
  <2>2. t[c].keys \in [KeySlots -> Nat]
    BY <1>3, <1>6 DEF Page
  <2>3. t[c].keys[T - 1] <= B
    BY <1>6, <2>1 DEF Tree, TreePages
  <2>4. QED
    BY <2>1, <2>2, <2>3
<1>10. /\ u[p] \in Page /\ u[p].leaf = FALSE /\ u[p].count = cp + 1
       /\ cp \in KeySlots
       /\ u[p].keys[cp] = med
       /\ u[p].kids[cp + 1] = m
       /\ \A s \in KeySlots : s # cp => u[p].keys[s] = t[p].keys[s]
       /\ \A s \in KidSlots : s # cp + 1 => u[p].kids[s] = t[p].kids[s]
  <2> DEFINE pg == t[p]
             a == u[p]
  <2>1. pg \in Page /\ ~IsFull(pg) /\ pg.leaf = FALSE /\ m \in Nat
    BY <1>1, <1>3 DEF Page, SplitsTo
  <2>2. a = Adopt(pg, pg.count, med, m)
    BY DEF SplitsTo
  <2> HIDE DEF pg, a, med
  <2>3. /\ a \in Page /\ a.leaf = pg.leaf /\ a.count = pg.count + 1
        /\ pg.count \in KeySlots
        /\ a.keys[pg.count] = med
        /\ a.kids[pg.count + 1] = m
        /\ \A s \in KeySlots : s # pg.count => a.keys[s] = pg.keys[s]
        /\ \A s \in KidSlots : s # pg.count + 1 => a.kids[s] = pg.kids[s]
    BY <1>9, <2>1, <2>2, AdoptHolds
  <2>4. QED
    BY <2>1, <2>3 DEF pg, a
<1>10a. u[p].count = cp + 1 /\ cp \in KeySlots
  BY <1>10
<1>10b. u[p].keys[cp] = med /\ \A s \in KeySlots : s # cp => u[p].keys[s] = t[p].keys[s]
  BY <1>10
<1>10c. /\ u[p].kids[cp + 1] = m
        /\ \A s \in KidSlots : s # cp + 1 => u[p].kids[s] = t[p].kids[s]
  BY <1>10
<1>10d. u[p] \in Page /\ u[p].leaf = FALSE
  BY <1>10
<1>11. \A x \in Live(b, n) : x # p /\ x # c => u[x] = t[x]
  BY DEF SplitsTo
<1>12. \A s \in KeySlots : s \in Nat /\ s <= 2 * T - 2
  BY DEF KeySlots
<1> HIDE DEF med, cp, e
<1>13. TreePages(u, b, m, B)
  <2>1. ASSUME NEW x \in Live(b, m)
        PROVE  u[x] \in Page
    BY <1>2, <1>3, <1>8c, <1>10, <1>11
  <2>2. ASSUME NEW x \in Live(b, n), NEW s \in KeySlots, s < t[x].count
        PROVE  t[x].keys[s] <= B
    BY <2>2 DEF Tree, TreePages
  <2>3. ASSUME NEW x \in Live(b, m), NEW s \in KeySlots, s < u[x].count
        PROVE  u[x].keys[s] <= B
    <3>1. CASE x = p /\ s = cp
      BY <1>9, <1>10, <3>1
    <3>2. CASE x = p /\ s # cp
      <4>1. s < cp
        BY <1>5, <1>10a, <1>12, <2>3, <3>2
      <4>2. QED
        BY <1>10b, <2>2, <3>2, <4>1 DEF cp
    <3>3. CASE x = c
      <4>1. s < t[c].count
        BY <1>8a, <1>12, <2>3, <3>3
      <4>2. QED
        BY <1>6, <1>8b, <2>2, <3>3, <4>1
    <3>4. CASE x = m
      <4>1. s \in 0 .. (T - 2) /\ T + s \in KeySlots /\ T + s < t[c].count
        BY <1>8a, <2>3, <3>4 DEF KeySlots
      <4>2. QED
        BY <1>6, <1>8b, <2>2, <3>4, <4>1
    <3>5. CASE x # p /\ x # c /\ x # m
      BY <1>2, <1>11, <2>2, <2>3, <3>5
    <3>6. QED
      BY <3>1, <3>2, <3>3, <3>4, <3>5
  <2>4. QED
    BY <2>1, <2>3 DEF TreePages
<1>14. /\ \A x \in Live(b, n) : e[x] = d[x]
       /\ e[m] = d[c]
       /\ e \in [Live(b, m) -> 0 .. (h - 1)]
  BY <1>2, <1>3a, <1>6 DEF e
<1>15. TreeDepths(u, b, m, h, e)
  <2>1. ASSUME NEW x \in Live(b, m)
        PROVE  u[x].leaf <=> e[x] = h - 1
    <3>1. CASE x = m
      <4>1. u[m].leaf = t[c].leaf /\ e[m] = d[c] /\ (t[c].leaf <=> d[c] = h - 1)
        BY <1>3b, <1>6, <1>8c, <1>14
      <4>2. QED
        BY <3>1, <4>1
    <3>2. CASE x = c
      <4>1. u[c].leaf = t[c].leaf /\ e[c] = d[c] /\ (t[c].leaf <=> d[c] = h - 1)
        BY <1>3b, <1>6, <1>8c, <1>14
      <4>2. QED
        BY <3>2, <4>1
    <3>3. CASE x = p
      <4>1. u[p].leaf = FALSE /\ e[p] = d[p] /\ ~(d[p] = h - 1)
        BY <1>3b, <1>10d, <1>14 DEF SplitsTo
      <4>2. QED
        BY <3>3, <4>1
    <3>4. CASE x # m /\ x # c /\ x # p
      BY <1>2, <1>3b, <1>11, <1>14, <3>4
    <3>5. QED
      BY <3>1, <3>2, <3>3, <3>4
  <2>2. QED
    BY <1>2, <1>3a, <1>14, <2>1 DEF TreeDepths
(* The slot (x, s) of the new tree is the slot (ox(x), os(x, s)) of the old. *)
<1> DEFINE ox(x) == IF x = m THEN c ELSE x
           os(x, s) == IF x = m THEN T + s ELSE s
<1>16. ASSUME NEW x \in Live(b, m), NEW s \in Nat, HasKid(u, x, s), ~(x = p /\ s = cp + 1)
       PROVE  /\ ox(x) \in Live(b, n) /\ os(x, s) \in Nat /\ s <= os(x, s)
              /\ HasKid(t, ox(x), os(x, s))
              /\ u[x].kids[s] = t[ox(x)].kids[os(x, s)]
              /\ x = c => s < T
  <2>1. CASE x = m
    <3>1. s \in 0 .. (T - 1) /\ ~t[c].leaf
      BY <1>8a, <1>8c, <1>16, <2>1 DEF HasKid
    <3>2. T + s \in 0 .. t[c].count /\ T + s \in Nat /\ s <= T + s
      BY <1>8a, <3>1
    <3>3. HasKid(t, c, T + s)
      BY <3>1, <3>2 DEF HasKid
    <3>4. u[m].kids[s] = t[c].kids[T + s]
      BY <1>8d, <3>1
    <3>5. QED
      BY <1>2, <1>6, <2>1, <3>2, <3>3, <3>4
  <2>2. CASE x = c
    <3>1. s \in 0 .. (T - 1) /\ ~t[c].leaf
      BY <1>8a, <1>8c, <1>16, <2>2 DEF HasKid
    <3>2. s \in 0 .. t[c].count /\ s < T /\ s <= s
      BY <1>8a, <3>1
    <3>3. HasKid(t, c, s)
      BY <3>1, <3>2 DEF HasKid
    <3>4. QED
      BY <1>2, <1>6, <1>8b, <2>2, <3>2, <3>3
  <2>3. CASE x = p
    <3>1. s \in 0 .. u[p].count
      BY <1>16, <2>3 DEF HasKid
    <3>2. s \in 0 .. cp /\ s <= s
      BY <1>5, <1>10a, <1>16, <2>3, <3>1
    <3>3. s \in KidSlots /\ s # cp + 1
      <4>1. s \in Nat /\ cp \in Nat /\ s <= cp /\ cp <= 2 * T - 1
        BY <1>5, <3>2
      <4>2. s \in KidSlots
        BY <4>1, KidSlotOf
      <4>3. QED
        BY <1>5, <4>1, <4>2
    <3>4. HasKid(t, p, s)
      <4>1. ~t[p].leaf /\ s \in 0 .. t[p].count
        BY <3>2 DEF SplitsTo, cp
      <4>2. QED
        BY <4>1 DEF HasKid
    <3>5. u[p].kids[s] = t[p].kids[s]
      BY <1>10c, <3>3
    <3>6. QED
      BY <1>2, <1>7, <2>3, <3>2, <3>4, <3>5
  <2>4. CASE x # m /\ x # c /\ x # p
    BY <1>2, <1>11, <1>16, <2>4 DEF HasKid
  <2>5. QED
    BY <2>1, <2>2, <2>3, <2>4
<1>17. TreeKids(u, b, m, e)
  <2>1. ASSUME NEW x \in Live(b, m), NEW s \in Nat, HasKid(u, x, s)
        PROVE  /\ u[x].kids[s] \in (b + 1) .. m
               /\ s < u[x].kids[s]
               /\ e[u[x].kids[s]] = e[x] + 1
    <3>1. CASE x = p /\ s = cp + 1
      <4>1. u[x].kids[s] = m /\ m \in (b + 1) .. m
        BY <1>2, <1>10, <3>1
      <4>2. cp + 1 < m
        BY <1>1, <1>5, <1>6
      <4>3. e[m] = e[p] + 1
        BY <1>6, <1>14
      <4>4. QED
        BY <3>1, <4>1, <4>2, <4>3
    <3>2. CASE ~(x = p /\ s = cp + 1)
      <4> DEFINE q == t[ox(x)].kids[os(x, s)]
      <4>1. /\ ox(x) \in Live(b, n) /\ os(x, s) \in Nat /\ s <= os(x, s)
            /\ HasKid(t, ox(x), os(x, s)) /\ u[x].kids[s] = q
        BY <1>16, <2>1, <3>2
      <4>2. /\ q \in (b + 1) .. n /\ q \in Live(b, n) /\ os(x, s) < q
            /\ d[q] = d[ox(x)] + 1
        BY <1>4, <4>1
      <4>3. e[q] = d[q] /\ e[x] = d[ox(x)]
        BY <1>2, <1>14, <4>2
      <4> HIDE DEF q, ox, os
      <4>4. q \in (b + 1) .. m /\ s < q
        BY <1>1, <4>1, <4>2
      <4>5. QED
        BY <4>1, <4>2, <4>3, <4>4
    <3>3. QED
      BY <3>1, <3>2
  <2>2. QED
    BY <2>1 DEF TreeKids
<1>18. TreeOneParent(u, b, m)
  <2>1. ASSUME NEW x \in Live(b, m), NEW y \in Live(b, m), NEW s \in Nat, NEW r \in Nat,
               HasKid(u, x, s), HasKid(u, y, r), u[x].kids[s] = u[y].kids[r]
        PROVE  x = y /\ s = r
    <3>1. CASE (x = p /\ s = cp + 1) /\ (y = p /\ r = cp + 1)
      BY <3>1
    <3>2. CASE ~(x = p /\ s = cp + 1) /\ ~(y = p /\ r = cp + 1)
      <4>1. /\ ox(x) \in Live(b, n) /\ os(x, s) \in Nat
            /\ HasKid(t, ox(x), os(x, s))
            /\ u[x].kids[s] = t[ox(x)].kids[os(x, s)]
            /\ x = c => s < T
        BY <1>16, <2>1, <3>2
      <4>2. /\ ox(y) \in Live(b, n) /\ os(y, r) \in Nat
            /\ HasKid(t, ox(y), os(y, r))
            /\ u[y].kids[r] = t[ox(y)].kids[os(y, r)]
            /\ y = c => r < T
        BY <1>16, <2>1, <3>2
      <4>3. ox(x) = ox(y) /\ os(x, s) = os(y, r)
        <5> HIDE DEF ox, os
        <5>1. t[ox(x)].kids[os(x, s)] = t[ox(y)].kids[os(y, r)]
          BY <2>1, <4>1, <4>2
        <5>2. TreeOneParent(t, b, n)
          BY DEF Tree
        <5>3. QED
          BY <4>1, <4>2, <5>1, <5>2 DEF TreeOneParent
      <4>4. QED
        BY <4>1, <4>2, <4>3
    <3>3. ASSUME NEW w \in Live(b, m), NEW q \in Nat, HasKid(u, w, q), ~(w = p /\ q = cp + 1)
          PROVE  u[w].kids[q] # m
      <4>1. ox(w) \in Live(b, n) /\ os(w, q) \in Nat /\ HasKid(t, ox(w), os(w, q))
        BY <1>16, <3>3
      <4>2. u[w].kids[q] = t[ox(w)].kids[os(w, q)]
        BY <1>16, <3>3
      <4> HIDE DEF ox, os
      <4>3. u[w].kids[q] \in Live(b, n)
        BY <1>4, <4>1, <4>2
      <4>4. QED
        BY <1>2, <4>3
    <3>4. u[p].kids[cp + 1] = m
      BY <1>10
    <3>5. QED
      BY <2>1, <3>1, <3>2, <3>3, <3>4
  <2>2. QED
    BY <2>1 DEF TreeOneParent
<1>19. TreeReached(u, b, m)
  <2>1. ASSUME NEW y \in (b + 1) .. m
        PROVE  \E x \in Live(b, m), s \in Nat : HasKid(u, x, s) /\ u[x].kids[s] = y
    <3>1. CASE y = m
      <4>1. p \in Live(b, m) /\ cp + 1 \in Nat /\ HasKid(u, p, cp + 1)
        <5>1. cp + 1 \in 0 .. u[p].count /\ cp + 1 \in Nat
          BY <1>5, <1>10a
        <5>2. HasKid(u, p, cp + 1)
          BY <1>10d, <5>1 DEF HasKid
        <5>3. QED
          BY <1>2, <5>1, <5>2
      <4>2. QED
        BY <1>10, <3>1, <4>1
    <3>2. CASE y # m
      <4>1. y \in (b + 1) .. n
        BY <1>1, <3>2
      <4>2. PICK x \in Live(b, n), s \in Nat : HasKid(t, x, s) /\ t[x].kids[s] = y
        BY <4>1 DEF Tree, TreeReached
      <4>3. CASE x = c /\ s >= T
        <5>0. s \in 0 .. t[c].count /\ ~t[c].leaf
          BY <4>2, <4>3 DEF HasKid
        <5>1. s - T \in 0 .. (T - 1) /\ T + (s - T) = s /\ s - T \in 0 .. u[m].count
          BY <1>8a, <4>3, <5>0
        <5>2. HasKid(u, m, s - T) /\ u[m].kids[s - T] = t[c].kids[s]
          BY <1>8c, <1>8d, <5>0, <5>1 DEF HasKid
        <5>3. m \in Live(b, m) /\ s - T \in Nat
          BY <1>2, <5>1
        <5>4. QED
          BY <4>2, <4>3, <5>2, <5>3
      <4>4. CASE ~(x = c /\ s >= T)
        <5>1. HasKid(u, x, s) /\ u[x].kids[s] = y
          <6>1. CASE x = c
            <7>1. ~t[c].leaf /\ s \in 0 .. t[c].count
              BY <4>2, <6>1 DEF HasKid
            <7>2. s \in 0 .. u[c].count
              BY <1>8a, <4>4, <6>1, <7>1
            <7>3. QED
              BY <1>8b, <1>8c, <4>2, <6>1, <7>1, <7>2 DEF HasKid
          <6>2. CASE x = p
            <7>1. s \in 0 .. cp
              BY <4>2, <6>2 DEF HasKid, cp
            <7>2. s \in KidSlots /\ s # cp + 1 /\ s \in 0 .. (cp + 1)
              BY <1>5, <7>1 DEF KidSlots
            <7>3. QED
              BY <1>10a, <1>10c, <1>10d, <4>2, <6>2, <7>2 DEF HasKid
          <6>3. CASE x # c /\ x # p
            BY <1>11, <4>2, <6>3 DEF HasKid
          <6>4. QED
            BY <6>1, <6>2, <6>3
        <5>2. QED
          BY <1>2, <5>1
      <4>5. QED
        BY <4>3, <4>4
    <3>3. QED
      BY <3>1, <3>2
  <2>2. QED
    BY <2>1 DEF TreeReached
<1>20. \E f : Tree(u, b, m, h, f, B)
  <2>1. m \in Nat /\ b <= m /\ h <= m - b + 1
    BY <1>1
  <2>2. Tree(u, b, m, h, e, B)
    BY <1>1, <1>13, <1>15, <1>17, <1>18, <1>19, <2>1 DEF Tree
  <2>3. QED
    BY <2>2
<1>21. ASSUME NEW v
       PROVE  Cardinality(Places(u, b, m, v)) = Cardinality(Places(t, b, n, v))
  <2> DEFINE S == Places(t, b, n, v)
             R == Places(u, b, m, v)
             g(x, s) == IF x # c \/ s < T - 1 THEN <<x, s>>
                        ELSE IF s = T - 1 THEN <<p, cp>> ELSE <<m, s - T>>
             f == [at \in S |-> g(at[1], at[2])]
  <2>1. ASSUME NEW x \in Live(b, n), NEW s \in KeySlots, <<x, s>> \in S
        PROVE  g(x, s) \in R /\ (x = p => s < cp)
    <3>1. s \in Nat /\ s < t[x].count /\ t[x].keys[s] = v
      BY <1>12, <2>1 DEF Places
    <3>2. CASE x # c /\ x # p
      BY <1>2, <1>11, <3>1, <3>2 DEF Places
    <3>3. CASE x = p
      <4>1. s < cp /\ s < u[p].count /\ s # cp
        BY <1>5, <1>10a, <3>1, <3>3 DEF cp
      <4>2. u[p].keys[s] = v /\ g(x, s) = <<p, s>>
        BY <1>7, <1>10b, <3>1, <3>3, <4>1
      <4>3. QED
        BY <1>2, <3>3, <4>1, <4>2 DEF Places
    <3>4. CASE x = c /\ s < T - 1
      <4>1. s < u[c].count /\ u[c].keys[s] = v /\ g(x, s) = <<c, s>>
        BY <1>8a, <1>8b, <3>1, <3>4
      <4>2. QED
        BY <1>2, <1>7, <3>4, <4>1 DEF Places
    <3>5. CASE x = c /\ s = T - 1
      <4>1. cp < u[p].count /\ u[p].keys[cp] = v
        <5>1. cp < u[p].count
          BY <1>5, <1>10a
        <5>2. u[p].keys[cp] = t[c].keys[T - 1]
          BY <1>10b DEF med
        <5>3. QED
          BY <3>1, <3>5, <5>1, <5>2
      <4>2. g(x, s) = <<p, cp>>
        BY <3>1, <3>5
      <4>3. QED
        BY <1>2, <1>7, <1>10a, <3>5, <4>1, <4>2 DEF Places
    <3>6. CASE x = c /\ s >= T
      <4>1. s - T \in 0 .. (T - 2) /\ s - T \in KeySlots /\ T + (s - T) = s
        BY <1>8a, <3>1, <3>6 DEF KeySlots
      <4>2. s - T < u[m].count /\ u[m].keys[s - T] = v
        <5>1. s - T < u[m].count
          BY <1>8a, <3>1, <3>6, <4>1
        <5>2. u[m].keys[s - T] = t[c].keys[T + (s - T)]
          BY <1>8b, <4>1
        <5>3. QED
          BY <3>1, <3>6, <4>1, <5>1, <5>2
      <4>3. g(x, s) = <<m, s - T>>
        BY <3>1, <3>6
      <4>4. QED
        BY <1>2, <1>7, <3>6, <4>1, <4>2, <4>3 DEF Places
    <3>7. QED
      BY <3>1, <3>2, <3>3, <3>4, <3>5, <3>6
  <2>2. \A at \in S : \E x \in Live(b, n), s \in KeySlots : at = <<x, s>>
    BY PlaceOf
  <2>3. ASSUME NEW at \in R
        PROVE  \E x \in Live(b, n), s \in KeySlots : <<x, s>> \in S /\ at = g(x, s)
    <3>1. PICK x \in Live(b, m), s \in KeySlots :
            at = <<x, s>> /\ s < u[x].count /\ u[x].keys[s] = v
      BY PlaceOf
    <3>2. CASE x # c /\ x # p /\ x # m
      BY <1>2, <1>11, <3>1, <3>2 DEF Places
    <3>3. CASE x = p /\ s = cp
      <4>1. T - 1 \in KeySlots /\ T - 1 < t[c].count /\ ~(T - 1 < T - 1)
        BY <1>8a DEF KeySlots
      <4>2. <<c, T - 1>> \in S
        BY <1>6, <1>10b, <3>1, <3>3, <4>1 DEF Places, med
      <4>3. g(c, T - 1) = at
        BY <3>1, <3>3, <4>1
      <4>4. QED
        BY <1>6, <4>1, <4>2, <4>3
    <3>4. CASE x = p /\ s # cp
      <4>1. s < t[p].count
        BY <1>5, <1>10a, <1>12, <3>1, <3>4 DEF cp
      <4>2. <<p, s>> \in S /\ g(p, s) = at
        BY <1>7, <1>10b, <3>1, <3>4, <4>1 DEF Places
      <4>3. QED
        BY <4>2
    <3>5. CASE x = c
      <4>1. s < T - 1 /\ s < t[c].count
        BY <1>8a, <1>12, <3>1, <3>5
      <4>2. <<c, s>> \in S /\ g(c, s) = at
        BY <1>6, <1>8b, <3>1, <3>5, <4>1 DEF Places
      <4>3. QED
        BY <1>6, <4>2
    <3>6. CASE x = m
      <4>1. /\ s \in 0 .. (T - 2) /\ T + s \in KeySlots /\ T + s < t[c].count
            /\ (T + s) - T = s /\ ~(T + s < T - 1) /\ T + s # T - 1
        BY <1>8a, <3>1, <3>6 DEF KeySlots
      <4>2. <<c, T + s>> \in S
        BY <1>6, <1>8b, <3>1, <3>6, <4>1 DEF Places
      <4>3. g(c, T + s) = at
        BY <3>1, <3>6, <4>1
      <4>4. QED
        BY <1>6, <4>1, <4>2, <4>3
    <3>7. QED
      BY <3>2, <3>3, <3>4, <3>5, <3>6
  <2>4. f \in [S -> R]
    <3>1. ASSUME NEW at \in S
          PROVE  f[at] \in R
      <4>1. PICK x \in Live(b, n), s \in KeySlots : at = <<x, s>>
        BY <2>2
      <4>2. g(x, s) \in R
        BY <2>1, <4>1
      <4>3. f[at] = g(x, s)
        BY <4>1
      <4>4. QED
        BY <4>2, <4>3
    <3>2. QED
      BY <3>1
  <2>5. ASSUME NEW y \in S, NEW w \in S, f[y] = f[w]
        PROVE  y = w
    <3>1. PICK x1 \in Live(b, n), s1 \in KeySlots : y = <<x1, s1>>
      BY <2>2
    <3>2. PICK x2 \in Live(b, n), s2 \in KeySlots : w = <<x2, s2>>
      BY <2>2
    <3>3. g(x1, s1) = g(x2, s2)
      BY <2>5, <3>1, <3>2
    <3>4. (x1 = p => s1 < cp) /\ (x2 = p => s2 < cp) /\ x1 # m /\ x2 # m
      BY <1>2, <2>1, <3>1, <3>2
    <3>5. s1 \in Nat /\ s2 \in Nat
      BY <1>12
    <3>6. x1 = x2 /\ s1 = s2
      BY <1>2, <1>5, <1>6, <1>7, <3>3, <3>4, <3>5
    <3>7. QED
      BY <3>1, <3>2, <3>6
  <2>6. ASSUME NEW r \in R
        PROVE  \E y \in S : f[y] = r
    <3>1. PICK x \in Live(b, n), s \in KeySlots : <<x, s>> \in S /\ r = g(x, s)
      BY <2>3
    <3>2. f[<<x, s>>] = g(x, s)
      BY <3>1
    <3>3. QED
      BY <3>1, <3>2
  <2>7. IsFiniteSet(S)
    BY <1>1, PlacesFinite
  <2> HIDE DEF S, R, f
  <2>8. Cardinality(R) = Cardinality(S)
    BY <2>4, <2>5, <2>6, <2>7, SameSize
  <2>9. QED
    BY <2>8 DEF S, R
<1>22. Regrown(t, n, u, m, b, h, B)
  BY <1>20, <1>21 DEF Regrown
<1>23. QED
  BY <1>6, <1>7, <1>22
-----------------------------------------------------------------------------
(* The tree as the file shows it. *)

LEMMA ReachableIs ==
  \A x : x \in Reachable <=> x \in DOMAIN pages /\ \E i \in DOMAIN Level : x \in Level[i]
BY DEF Reachable

(* The pages at depth i are those the tree has there, so every live page is *)
(* reached, and no other.                                                   *)
LEMMA LevelsOfTree ==
  ASSUME NEW b, NEW n, NEW h, NEW d, NEW B,
         Tree(pages, b, n, h, d, B), DOMAIN pages = 0 .. n
  PROVE  /\ DOMAIN Level = 0 .. (n + 1)
         /\ \A i \in 0 .. (n + 1) : Level[i] = {x \in Live(b, n) : d[x] = i}
         /\ Reachable = Live(b, n)
<1> DEFINE D == 0 .. Cardinality(DOMAIN pages)
           F(f) == [i \in D |-> IF i = 0 THEN {0}
                                ELSE UNION {KidsOf(q) : q \in f[i - 1] \cap DOMAIN pages}]
           at(i) == {x \in Live(b, n) : d[x] = i}
           g == [i \in D |-> at(i)]
<1>1. b \in Nat /\ n \in Nat /\ b <= n /\ h \in Nat /\ 1 <= h /\ h <= n - b + 1
  BY DEF Tree
<1>2. D = 0 .. (n + 1)
  <2>1. Cardinality(0 .. n) = n + 1
    BY <1>1, FS_Interval
  <2>2. QED
    BY <2>1
<1> HIDE DEF D
<1>3. /\ Live(b, n) \subseteq 0 .. n /\ 0 \in Live(b, n)
      /\ \A y : y \in Live(b, n) <=> y = 0 \/ y \in (b + 1) .. n
      /\ 0 \notin (b + 1) .. n
  <2>1. 0 \notin (b + 1) .. n
    BY <1>1
  <2>2. QED
    BY <1>1, <2>1, LiveIs
<1>4. d \in [Live(b, n) -> 0 .. (h - 1)] /\ d[0] = 0
  BY DEF Tree, TreeDepths
<1>5. ASSUME NEW x \in Live(b, n), NEW s \in Nat, HasKid(pages, x, s)
      PROVE  /\ pages[x].kids[s] \in (b + 1) .. n
             /\ d[pages[x].kids[s]] = d[x] + 1
  BY <1>5 DEF Tree, TreeKids
<1>6. ASSUME NEW i \in D, i # 0
      PROVE  at(i) = UNION {KidsOf(q) : q \in at(i - 1) \cap DOMAIN pages}
  <2>1. ASSUME NEW y \in at(i)
        PROVE  \E q \in at(i - 1) \cap DOMAIN pages : y \in KidsOf(q)
    <3>1. y \in (b + 1) .. n
      BY <1>3, <1>4, <1>6
    <3>2. PICK x \in Live(b, n), s \in Nat : HasKid(pages, x, s) /\ pages[x].kids[s] = y
      BY <3>1 DEF Tree, TreeReached
    <3>3. d[y] = d[x] + 1 /\ d[y] = i
      BY <1>5, <3>2
    <3>4. d[x] \in Nat /\ d[x] = i - 1
      BY <1>2, <1>4, <3>3
    <3>5. y \in KidsOf(x)
      BY <3>2 DEF KidsOf, HasKid
    <3>6. QED
      BY <1>3, <3>4, <3>5
  <2>2. ASSUME NEW q \in at(i - 1), NEW y \in KidsOf(q)
        PROVE  y \in at(i)
    <3>1. ~pages[q].leaf /\ \E s \in 0 .. pages[q].count : y = pages[q].kids[s]
      BY DEF KidsOf
    <3>2. PICK s \in 0 .. pages[q].count : y = pages[q].kids[s]
      BY <3>1
    <3>3. s \in Nat /\ HasKid(pages, q, s)
      BY <3>1, <3>2 DEF HasKid
    <3>4. y \in Live(b, n) /\ d[y] = (i - 1) + 1
      BY <1>3, <1>5, <3>2, <3>3
    <3>5. QED
      BY <1>2, <3>4
  <2>3. QED
    BY <2>1, <2>2
<1>7. at(0) = {0}
  <2>1. ASSUME NEW y \in at(0), y # 0
        PROVE  FALSE
    <3>1. y \in (b + 1) .. n
      BY <1>3, <2>1
    <3>2. PICK x \in Live(b, n), s \in Nat : HasKid(pages, x, s) /\ pages[x].kids[s] = y
      BY <3>1 DEF Tree, TreeReached
    <3>3. d[x] \in Nat /\ 0 = d[x] + 1
      BY <1>4, <1>5, <3>2
    <3>4. QED
      BY <3>3
  <2>2. QED
    BY <1>3, <1>4, <2>1
<1>8. g = F(g)
  <2>1. ASSUME NEW i \in D
        PROVE  g[i] = F(g)[i]
    <3>1. CASE i = 0
      BY <1>7, <3>1
    <3>2. CASE i # 0
      <4>1. i - 1 \in D
        BY <1>1, <1>2, <3>2
      <4>2. g[i - 1] = at(i - 1)
        BY <4>1
      <4>3. F(g)[i] = UNION {KidsOf(q) : q \in g[i - 1] \cap DOMAIN pages}
        BY <3>2
      <4> HIDE DEF at
      <4>4. QED
        BY <1>6, <3>2, <4>2, <4>3
    <3>3. QED
      BY <3>1, <3>2
  <2>2. QED
    BY <2>1
<1>9. Level = CHOOSE f : f = F(f)
  BY DEF Level, D
<1>10. Level = F(Level)
  BY <1>8, <1>9
<1>11. DOMAIN Level = D
  BY <1>10
<1> HIDE DEF g
<1>12. \A i \in D : Level[i] = at(i)
  <2> DEFINE bad == {i \in D : Level[i] # at(i)}
  <2>1. SUFFICES ASSUME bad # {} PROVE FALSE
    BY <2>1
  <2>2. bad \in SUBSET Nat
    BY <1>2
  <2>3. PICK i \in bad : \A j \in bad : i <= j
    BY <2>1, <2>2, LeastElement
  <2>4. i # 0
    BY <1>7, <1>10, <2>3
  <2>5. i - 1 \in D /\ i \in D
    BY <1>1, <1>2, <2>3, <2>4
  <2>6. i - 1 \notin bad
    BY <2>2, <2>3
  <2>7. Level[i - 1] = at(i - 1)
    BY <2>5, <2>6
  <2>8. Level[i] = UNION {KidsOf(q) : q \in Level[i - 1] \cap DOMAIN pages}
    BY <1>10, <2>4, <2>5
  <2> HIDE DEF at
  <2>9. Level[i] = at(i)
    BY <1>6, <2>4, <2>5, <2>7, <2>8
  <2>10. QED
    BY <2>3, <2>9
<1>13. Reachable = Live(b, n)
  <2>1. ASSUME NEW x \in Live(b, n)
        PROVE  x \in Reachable
    <3> DEFINE i == d[x]
    <3>1. i \in 0 .. (h - 1)
      BY <1>4
    <3>2. i \in D
      BY <1>1, <1>2, <3>1
    <3>3. x \in DOMAIN pages
      BY <1>3
    <3>4. x \in Level[i]
      BY <1>12, <3>2
    <3> HIDE DEF i
    <3>5. QED
      BY <1>11, <3>2, <3>3, <3>4, ReachableIs
  <2>2. ASSUME NEW x \in Reachable
        PROVE  x \in Live(b, n)
    BY <1>11, <1>12, ReachableIs
  <2>3. QED
    BY <2>1, <2>2
<1>14. QED
  BY <1>2, <1>11, <1>12, <1>13
-----------------------------------------------------------------------------
(* The inductive invariant.  While pages of a split wait to be written, the *)
(* tree is in memory: t says what the file will hold.  Before the first of  *)
(* these writes the file still holds the tree from before the split.        *)

Bound == IF step = "idle" THEN LastKey ELSE key

Times(k) == Cardinality(Inserted(k)) + IF step = "writeHeader" /\ key = k THEN 1 ELSE 0

Counted(t, b, n) == \A k : Cardinality(Places(t, b, n, k)) = Times(k)

InFile(b, n, h) ==
  /\ DOMAIN pages = 0 .. n
  /\ \E d : Tree(pages, b, n, h, d, Bound)
  /\ Counted(pages, b, n)

Pending ==
  (IF step = "writeParent" THEN {cur.id} ELSE {}) \cup
  (IF step = "writeSibling" THEN {} ELSE {child.id}) \cup {sibling.id}

InMemory(b, t) ==
  /\ \E d : Tree(t, b, lastId, header.height, d, key)
  /\ Counted(t, b, lastId)
  /\ root = [id |-> 0, page |-> t[0]]
  /\ cur.id \in Live(b, lastId) /\ child.id \in Live(b, lastId)
  /\ sibling.id = lastId /\ b < lastId
  /\ cur.id # child.id /\ cur.id # lastId /\ child.id # lastId /\ child.id # 0
  /\ cur.page = t[cur.id] /\ child.page = t[child.id] /\ sibling.page = t[lastId]
  /\ atRoot <=> cur.id = 0
  /\ DOMAIN pages \subseteq 0 .. lastId
  /\ \A x \in Live(b, lastId) \ Pending : x \in DOMAIN pages /\ pages[x] = t[x]

AtLivePage(b) ==
  /\ cur.id \in Live(b, lastId)
  /\ cur.page = pages[cur.id]
  /\ atRoot <=> cur.id = 0

RootIsFirstPage == root = [id |-> 0, page |-> pages[0]]

Shape(b) ==
  /\ b <= lastId
  /\ header.nodes = lastId - b + 1
  /\ step \notin {"writeChild", "writeSibling"} => \E n, h : InFile(b, n, h)
  /\ ~Splitting => InFile(b, lastId, header.height) /\ RootIsFirstPage
  /\ Splitting => \E t : InMemory(b, t)
  /\ step = "descend" => AtLivePage(b)

AppendInv ==
  /\ status \in {"open", "closed"}
  /\ opens = 0 => DOMAIN pages = {} /\ lastId = 0 /\ history = <<>>
  /\ status = "open" => opens >= 1 /\ \E b \in Nat : Shape(b)

LEMMA InitAppendInv == Init => AppendInv
BY DEF Init, AppendInv

LEMMA LastKeyType ==
  ASSUME IndInv
  PROVE  LastKey \in Nat
<1>1. history \in Seq(Nat)
  BY DEF IndInv, TypeOK
<1>2. CASE history = <<>>
  BY <1>2 DEF LastKey
<1>3. CASE history # <<>>
  <2>1. Len(history) \in DOMAIN history
    BY <1>1, <1>3
  <2>2. history[Len(history)] \in Nat
    BY <1>1, <2>1
  <2>3. QED
    BY <1>3, <2>2 DEF LastKey
<1>4. QED
  BY <1>2, <1>3

LEMMA InsertedCount ==
  ASSUME IndInv, NEW v
  PROVE  Cardinality(Inserted(v)) \in Nat
<1>1. history \in Seq(Nat)
  BY DEF IndInv, TypeOK
<1>2. IsFiniteSet(DOMAIN history)
  <2>1. DOMAIN history = 1 .. Len(history) /\ Len(history) \in Nat
    BY <1>1
  <2>2. QED
    BY <2>1, FS_Interval
<1>3. Inserted(v) \in SUBSET DOMAIN history
  BY DEF Inserted
<1>4. QED
  BY <1>2, <1>3, FS_Subset, FS_CardinalityType

Occurrences(hs, v) == {i \in DOMAIN hs : hs[i] = v}

(* A completed insert counts once more.                                    *)
LEMMA AppendCounts ==
  ASSUME NEW hs \in Seq(Nat), NEW k \in Nat, NEW v
  PROVE  Cardinality(Occurrences(Append(hs, k), v)) =
           Cardinality(Occurrences(hs, v)) + IF k = v THEN 1 ELSE 0
<1> DEFINE n == Len(hs)
           S == {i \in DOMAIN hs : hs[i] = v}
           R == {i \in DOMAIN Append(hs, k) : Append(hs, k)[i] = v}
<1>1. n \in Nat /\ DOMAIN hs = 1 .. n /\ DOMAIN Append(hs, k) = 1 .. (n + 1)
  OBVIOUS
<1>2. Append(hs, k)[n + 1] = k /\ \A i \in 1 .. n : Append(hs, k)[i] = hs[i]
  OBVIOUS
<1>3. IsFiniteSet(S)
  <2>1. IsFiniteSet(1 .. n)
    BY <1>1, FS_Interval
  <2>2. S \in SUBSET (1 .. n)
    BY <1>1
  <2>3. QED
    BY <2>1, <2>2, FS_Subset
<1>4. n + 1 \notin S
  BY <1>1
<1>5. R = IF k = v THEN S \cup {n + 1} ELSE S
  <2>1. ASSUME NEW i
        PROVE  i \in R <=> i \in S \/ (k = v /\ i = n + 1)
    <3>1. i \in 1 .. (n + 1) <=> i \in 1 .. n \/ i = n + 1
      BY <1>1
    <3>2. QED
      BY <1>1, <1>2, <3>1
  <2>2. QED
    BY <2>1
<1>6. Cardinality(S) \in Nat
  BY <1>3, FS_CardinalityType
<1> HIDE DEF S, R, n
<1>7. Cardinality(R) = Cardinality(S) + IF k = v THEN 1 ELSE 0
  <2>1. Cardinality(S \cup {n + 1}) = Cardinality(S) + 1
    BY <1>3, <1>4, FS_AddElement
  <2>2. QED
    BY <1>5, <1>6, <2>1
<1>8. QED
  BY <1>7 DEF S, R, Occurrences

LEMMA WrittenPages ==
  ASSUME NEW n \in Node
  PROVE  /\ DOMAIN Written(n) = DOMAIN pages \cup 0 .. n.id
         /\ Written(n)[n.id] = n.page
         /\ \A x \in DOMAIN pages : x # n.id => Written(n)[x] = pages[x]
<1>1. n.id \in Nat
  BY DEF Node
<1>2. QED
  BY <1>1 DEF Written

(* While the index is open and no insert has closed its books, a key counts *)
(* as often as before.                                                      *)
LEMMA TimesKept ==
  ASSUME history' = history, step # "writeHeader", step' # "writeHeader"
  PROVE  \A k : Times(k)' = Times(k)
BY DEF Times, Inserted
-----------------------------------------------------------------------------
(* The life of the file. *)

LEMMA EmptyTreeShape ==
  ASSUME IndInv, WriteEmptyTree, NEW b \in Nat, lastId' = b,
         DOMAIN pages' = 0 .. b, history' = <<>>, step' = "idle"
  PROVE  Shape(b)'
<1>1. /\ pages'[0] = EmptyLeaf
      /\ header'.nodes = 1 /\ header'.height = 1
      /\ root' = [id |-> 0, page |-> EmptyLeaf]
  BY DEF WriteEmptyTree
<1>2. Bound' = 0
  BY DEF Bound, LastKey
<1>3. /\ \E d : Tree(pages', b, b, 1, d, 0)
      /\ \A k : Places(pages', b, b, k) = {}
  BY <1>1, EmptyTree
<1>4. ASSUME NEW k
      PROVE  Times(k)' = 0
  <2>1. Inserted(k)' = {}
    BY DEF Inserted
  <2>2. QED
    BY <2>1, FS_EmptySet DEF Times
<1>5. Counted(pages, b, b)'
  BY <1>3, <1>4, FS_EmptySet DEF Counted
<1>6. InFile(b, lastId, header.height)'
  BY <1>1, <1>2, <1>3, <1>5 DEF InFile
<1>7. QED
  BY <1>1, <1>6 DEF Shape, RootIsFirstPage, Splitting

LEMMA LifeAppend ==
  ASSUME IndInv, AppendInv, MaxOpens <= 1, Create \/ Reload \/ Stop \/ Reset
  PROVE  AppendInv'
<1>1. opens \in Nat /\ MaxOpens \in Nat
  BY BoundsAssumption DEF IndInv, TypeOK
<1>2. CASE Create
  <2>1. /\ opens = 0 /\ opens' = 1 /\ status' = "open" /\ status # "open"
        /\ WriteEmptyTree /\ lastId' = lastId /\ step' = step /\ history' = history
    BY <1>1, <1>2 DEF Create, insert
  <2>2. step' = "idle"
    BY <2>1 DEF IndInv, StepInv
  <2>3. lastId' = 0 /\ history' = <<>> /\ DOMAIN pages' = 0 .. 0
    BY <2>1 DEF AppendInv, WriteEmptyTree
  <2>4. Shape(0)'
    BY <2>1, <2>2, <2>3, EmptyTreeShape
  <2>5. QED
    BY <2>1, <2>4 DEF AppendInv
<1>3. CASE Reload
  BY <1>1, <1>3 DEF Reload, AppendInv
<1>4. CASE Stop
  BY <1>1, <1>4 DEF Stop, AppendInv, file
<1>5. CASE Reset
  <2>1. /\ status = "open" /\ status' = status /\ opens' = opens
        /\ WriteEmptyTree /\ lastId' = lastId /\ step = "idle" /\ step' = step
        /\ history' = <<>>
    BY <1>5 DEF Reset, insert
  <2>2. PICK b \in Nat : Shape(b)
    BY <2>1 DEF AppendInv
  <2>3. DOMAIN pages = 0 .. lastId /\ lastId \in Nat
    BY <2>1, <2>2 DEF Shape, Splitting, InFile, IndInv, TypeOK
  <2>4. DOMAIN pages' = 0 .. lastId
    BY <2>1, <2>3 DEF WriteEmptyTree
  <2>5. Shape(lastId)'
    BY <2>1, <2>3, <2>4, EmptyTreeShape
  <2>6. QED
    BY <2>1, <2>3, <2>5 DEF AppendInv
<1>6. QED
  BY <1>2, <1>3, <1>4, <1>5
-----------------------------------------------------------------------------
(* Inserts. *)

LEMMA OrderKept ==
  ASSUME IndInv, InsertOrder = "append", NEW k \in Keys, InOrder(k)
  PROVE  k \in Nat /\ LastKey <= k
<1>1. k \in Nat /\ LastKey \in Nat /\ k - LastKey \in {0, 1}
  BY LastKeyType DEF InOrder
<1>2. QED
  BY <1>1

LEMMA BeginAppend ==
  ASSUME IndInv, AppendInv, InsertOrder = "append", NEW k \in Keys, BeginInsert(k)
  PROVE  AppendInv'
<1>1. /\ status = "open" /\ status' = status /\ step = "idle" /\ step' = "descend"
      /\ pages' = pages /\ header' = header /\ root' = root /\ lastId' = lastId
      /\ history' = history /\ opens' = opens
      /\ key' = k /\ cur' = root /\ atRoot' = TRUE /\ InOrder(k)
  BY DEF BeginInsert, Starts, file, memory
<1>2. PICK b \in Nat : Shape(b)
  BY <1>1 DEF AppendInv
<1>3. /\ InFile(b, lastId, header.height) /\ root = [id |-> 0, page |-> pages[0]]
  BY <1>1, <1>2 DEF Shape, Splitting, RootIsFirstPage
<1>4. PICK d : Tree(pages, b, lastId, header.height, d, LastKey)
  BY <1>1, <1>3 DEF InFile, Bound
<1>5. Tree(pages, b, lastId, header.height, d, k)
  BY <1>1, <1>4, OrderKept, LastKeyType, TreeUnder
<1>6. InFile(b, lastId, header.height)'
  <2>1. Counted(pages, b, lastId)'
    BY <1>1, <1>3, TimesKept DEF InFile, Counted
  <2>2. Bound' = k
    BY <1>1 DEF Bound
  <2>3. QED
    BY <1>1, <1>3, <1>5, <2>1, <2>2 DEF InFile
<1>7. 0 \in Live(b, lastId)
  BY DEF Live
<1>8. Shape(b)'
  BY <1>1, <1>2, <1>3, <1>6, <1>7
  DEF Shape, Splitting, RootIsFirstPage, AtLivePage
<1>9. QED
  BY <1>1, <1>8 DEF AppendInv

(* The root is split: it is lifted onto a page of its own and is then the   *)
(* last child of the new root.                                              *)
LEMMA BeginFullRootAppend ==
  ASSUME IndInv, AppendInv, InsertOrder = "append", NEW k \in Keys,
         BeginInsertFullRoot(k)
  PROVE  AppendInv'
<1>0. PICK n, full : n = lastId /\ full = root.page
  OBVIOUS
<1> DEFINE m == n + 1
           w == n + 2
           newRoot == [BlankPage EXCEPT !.kids = [@ EXCEPT ![0] = m]]
           top == Adopt(newRoot, 0, full.keys[T - 1], w)
<1>1. /\ status = "open" /\ status' = status /\ step = "idle" /\ step' = "writeParent"
      /\ pages' = pages /\ lastId' = w
      /\ history' = history /\ opens' = opens
      /\ key' = k /\ atRoot' = TRUE /\ InOrder(k)
      /\ IsFull(full)
      /\ child' = [id |-> m, page |-> LeftHalf(full)]
      /\ sibling' = [id |-> w, page |-> RightHalf(full)]
      /\ root' = [id |-> 0, page |-> top] /\ cur' = root'
  BY <1>0 DEF BeginInsertFullRoot, Starts, file
<1>2. header'.nodes = header.nodes + 2 /\ header'.height = header.height + 1
  BY DEF BeginInsertFullRoot, IndInv, TypeOK, Header
<1>3. PICK b \in Nat : Shape(b)
  BY <1>1 DEF AppendInv
<1>4. InFile(b, lastId, header.height) /\ root = [id |-> 0, page |-> pages[0]]
  BY <1>1, <1>3 DEF Shape, Splitting, RootIsFirstPage
<1>5. PICK d : Tree(pages, b, n, header.height, d, LastKey)
  BY <1>0, <1>1, <1>4 DEF InFile, Bound
<1>6. Tree(pages, b, n, header.height, d, k)
  BY <1>1, <1>5, OrderKept, LastKeyType, TreeUnder
<1>7. /\ n \in Nat /\ b <= n /\ header.nodes = n - b + 1 /\ header.nodes \in Nat
      /\ header.height \in Nat
  BY <1>0, <1>3 DEF Shape, IndInv, TypeOK, Header
<1>8. /\ newRoot \in Page /\ newRoot.leaf = FALSE /\ newRoot.count = 0
      /\ newRoot.kids[0] = m /\ ~IsFull(newRoot)
  <2> DEFINE ks == [BlankPage.kids EXCEPT ![0] = m]
  <2>1. BlankPage.kids \in [KidSlots -> Nat] /\ 0 \in KidSlots /\ m \in Nat
    BY <1>7, BlankPages DEF KidSlots
  <2>2. ks \in [KidSlots -> Nat] /\ ks[0] = m
    BY <2>1
  <2>3. newRoot = [BlankPage EXCEPT !.kids = ks]
    OBVIOUS
  <2> HIDE DEF ks
  <2>4. newRoot \in Page /\ newRoot.count = 0 /\ newRoot.kids = ks
    BY <2>2, <2>3, BlankPages DEF Page
  <2>5. newRoot.leaf = FALSE
    BY <2>3 DEF BlankPage
  <2>6. ~IsFull(newRoot)
    BY <2>4 DEF IsFull, MaxKeys
  <2>7. QED
    BY <2>2, <2>4, <2>5, <2>6
<1> HIDE DEF newRoot
<1>9. /\ Live(b, n) \subseteq 0 .. n /\ 0 \in Live(b, n)
      /\ \A y : y \in Live(b, n) <=> y = 0 \/ y \in (b + 1) .. n
      /\ \A y : y \in Live(b, m) <=> y = m \/ y \in Live(b, n)
      /\ \A y : y \in Live(b, w) <=> y = w \/ y \in Live(b, m)
  BY <1>7 DEF Live
<1> DEFINE lifted == [x \in Live(b, m) |-> IF x = 0 THEN newRoot
                                           ELSE IF x = m THEN pages[0] ELSE pages[x]]
<1>9a. PICK t : t = [x \in Live(b, w) |-> IF x = 0 THEN top
                                          ELSE IF x = m THEN LeftHalf(full)
                                          ELSE IF x = w THEN RightHalf(full)
                                          ELSE pages[x]]
  OBVIOUS
<1>10. /\ lifted[0] = newRoot /\ lifted[m] = pages[0]
       /\ \A x \in (b + 1) .. n : lifted[x] = pages[x]
       /\ 0 \in Live(b, m)
  <2>1. m # 0 /\ m \notin (b + 1) .. n /\ 0 \notin (b + 1) .. n
    BY <1>7
  <2>2. QED
    BY <1>9, <2>1
<1>11. /\ \E e : Tree(lifted, b, m, header.height + 1, e, k)
       /\ \A v : Cardinality(Places(lifted, b, m, v)) = Cardinality(Places(pages, b, n, v))
  <2> HIDE DEF lifted
  <2>1. /\ lifted[0] \in Page /\ lifted[0].leaf = FALSE /\ lifted[0].count = 0
        /\ lifted[0].kids[0] = n + 1 /\ lifted[n + 1] = pages[0]
        /\ \A x \in (b + 1) .. n : lifted[x] = pages[x]
    BY <1>8, <1>10
  <2>2. Regrown(pages, n, lifted, m, b, header.height + 1, k)
    BY <1>6, <2>1, Lift
  <2> HIDE DEF m
  <2>3. QED
    BY <2>2 DEF Regrown
<1>12. PICK e : Tree(lifted, b, m, header.height + 1, e, k)
  BY <1>11
<1>13. /\ t[0] = Adopt(lifted[0], lifted[0].count, lifted[m].keys[T - 1], m + 1)
       /\ t[m] = LeftHalf(lifted[m]) /\ t[m + 1] = RightHalf(lifted[m])
       /\ \A x \in Live(b, m) \ {0, m} : t[x] = lifted[x]
       /\ m = lifted[0].kids[lifted[0].count] /\ IsFull(lifted[m])
       /\ t[0] = top /\ t[w] = RightHalf(full) /\ t[m] = LeftHalf(full)
  <2>1. /\ m # 0 /\ w # 0 /\ w # m /\ m + 1 = w /\ m \in Live(b, w) /\ w \in Live(b, w)
        /\ 0 \in Live(b, w) /\ w \notin Live(b, m)
    BY <1>7, <1>9 DEF Live
  <2>2. full = pages[0] /\ lifted[m] = full
    BY <1>0, <1>4, <1>10
  <2>3. t[0] = top /\ t[w] = RightHalf(full) /\ t[m] = LeftHalf(full)
    BY <1>9a, <2>1
  <2>4. \A x \in Live(b, m) \ {0, m} : t[x] = lifted[x]
    BY <1>9, <1>9a, <2>1
  <2>5. lifted[0].count = 0 /\ m = lifted[0].kids[lifted[0].count]
    BY <1>8, <1>10
  <2> HIDE DEF lifted
  <2>6. QED
    BY <1>1, <1>8, <1>10, <2>1, <2>2, <2>3, <2>4, <2>5
<1>14. /\ \E f : Tree(t, b, m + 1, header.height + 1, f, k)
       /\ \A v : Cardinality(Places(t, b, m + 1, v)) = Cardinality(Places(lifted, b, m, v))
  <2>1. lifted[0] = newRoot /\ ~lifted[0].leaf /\ ~IsFull(lifted[0]) /\ 0 \in Live(b, m)
    BY <1>8, <1>10
  <2>2. PICK c : c = m
    OBVIOUS
  <2> HIDE DEF lifted, m, top
  <2>3. Regrown(lifted, m, t, m + 1, b, header.height + 1, k)
    BY <1>12, <1>13, <2>1, <2>2, SplitLastChild DEF SplitsTo
  <2>4. QED
    BY <2>3 DEF Regrown
<1>15. InMemory(b, t)'
  <2>1. m + 1 = w
    BY <1>7
  <2>2. Counted(t, b, w)'
    <3>1. ASSUME NEW v
          PROVE  Cardinality(Places(t, b, w, v)) = Times(v)'
      <4>1. Cardinality(Places(pages, b, n, v)) = Times(v)
        BY <1>0, <1>4 DEF InFile, Counted
      <4>2. Times(v)' = Times(v)
        BY <1>1, TimesKept
      <4> HIDE DEF lifted, w, m
      <4>3. QED
        BY <1>11, <1>14, <2>1, <4>1, <4>2
    <3> HIDE DEF w
    <3>2. QED
      BY <3>1 DEF Counted
  <2>3. \E f : Tree(t, b, w, header'.height, f, k)
    <3> HIDE DEF w, m
    <3>1. QED
      BY <1>2, <1>14, <2>1
  <2>4. /\ root' = [id |-> 0, page |-> t[0]]
        /\ cur'.id = 0 /\ cur'.page = t[0]
        /\ child'.id = m /\ child'.page = t[m]
        /\ sibling'.id = w /\ sibling'.page = t[w]
    <3> HIDE DEF top
    <3>1. QED
      BY <1>1, <1>13
  <2>5. Pending' = {0, m, w}
    BY <1>1, <2>4 DEF Pending
  <2>6. \A x \in Live(b, w) \ {0, m, w} : x \in DOMAIN pages /\ pages[x] = t[x]
    BY <1>0, <1>4, <1>9, <1>9a DEF InFile
  <2>7. DOMAIN pages \subseteq 0 .. w
    BY <1>0, <1>4, <1>7 DEF InFile
  <2>8. 0 \in Live(b, w) /\ m \in Live(b, w) /\ b < w /\ 0 # m /\ 0 # w /\ m # w
    BY <1>7, <1>9
  <2> HIDE DEF w, m
  <2>9. QED
    BY <1>1, <2>2, <2>3, <2>4, <2>5, <2>6, <2>7, <2>8 DEF InMemory
<1>16. \E l, g : InFile(b, l, g)'
  <2>1. PICK g : g = header.height
    OBVIOUS
  <2>2. Counted(pages, b, n)'
    BY <1>0, <1>1, <1>4, TimesKept DEF InFile, Counted
  <2>3. Bound' = k
    BY <1>1 DEF Bound
  <2>4. InFile(b, n, g)'
    BY <1>0, <1>1, <1>4, <1>6, <2>1, <2>2, <2>3 DEF InFile
  <2>5. QED
    BY <2>4
<1>17. Shape(b)'
  BY <1>0, <1>1, <1>2, <1>7, <1>15, <1>16 DEF Shape, Splitting
<1>18. QED
  BY <1>1, <1>17 DEF AppendInv

(* The way down leads through the last child, which is in the file and      *)
(* numbered above the keys of its parent: no assertion fails.               *)
LEMMA LastKid ==
  ASSUME IndInv, AtInnerNode, NEW b \in Nat, Shape(b)
  PROVE  /\ cur.page \in Page /\ cur.page.count \in Nat
         /\ HasKid(pages, cur.id, cur.page.count)
         /\ Slot = cur.page.count
         /\ KidId = pages[cur.id].kids[pages[cur.id].count]
         /\ KidId \in (b + 1) .. lastId
         /\ KidId \in DOMAIN pages
         /\ ~ShiftOutOfBounds(cur.page, KidId)
<1>1. /\ cur.page \in Page /\ key \in Nat /\ lastId \in Nat
      /\ step = "descend" /\ ~cur.page.leaf
  BY DEF IndInv, TypeOK, AtInnerNode, Node
<1>2. /\ cur.id \in Live(b, lastId) /\ cur.page = pages[cur.id]
      /\ InFile(b, lastId, header.height)
  BY <1>1 DEF Shape, Splitting, AtLivePage
<1>3. PICK d : Tree(pages, b, lastId, header.height, d, key)
  BY <1>1, <1>2 DEF InFile, Bound
<1>4. \A s \in KeySlots : s < cur.page.count => cur.page.keys[s] <= key
  BY <1>2, <1>3 DEF Tree, TreePages
<1>5. Slot = cur.page.count
  BY <1>1, <1>4, SlotAtEnd DEF Slot
<1>6. cur.page.count \in Nat
  BY <1>1 DEF Page, MaxKeys
<1>7. HasKid(pages, cur.id, cur.page.count)
  BY <1>1, <1>2, <1>6 DEF HasKid
<1>8. KidId = pages[cur.id].kids[pages[cur.id].count]
  BY <1>2, <1>5 DEF KidId
<1>9. /\ pages[cur.id].kids[cur.page.count] \in (b + 1) .. lastId
      /\ cur.page.count < pages[cur.id].kids[cur.page.count]
  BY <1>2, <1>3, <1>6, <1>7 DEF Tree, TreeKids
<1>10. KidId \in (b + 1) .. lastId /\ cur.page.count < KidId
  BY <1>2, <1>8, <1>9
<1>11. KidId \in DOMAIN pages
  BY <1>1, <1>2, <1>10 DEF InFile
<1>12. ~ShiftOutOfBounds(cur.page, KidId)
  BY <1>1, <1>6, <1>10 DEF ShiftOutOfBounds
<1>13. QED
  BY <1>1, <1>5, <1>6, <1>7, <1>8, <1>10, <1>11, <1>12

LEMMA DescendAppend ==
  ASSUME IndInv, AppendInv, Descend \/ DescendShortRead \/ DescendOutOfBounds
  PROVE  AppendInv'
<1>1. AtInnerNode /\ status = "open" /\ step = "descend"
  BY DEF Descend, DescendShortRead, DescendOutOfBounds, AtInnerNode
<1>2. PICK b \in Nat : Shape(b)
  BY <1>1 DEF AppendInv
<1>3. Descend
  BY <1>1, <1>2, LastKid DEF DescendShortRead, DescendOutOfBounds
<1>4. /\ status' = status /\ step' = step /\ pages' = pages /\ header' = header
      /\ root' = root /\ lastId' = lastId /\ history' = history /\ opens' = opens
      /\ key' = key
      /\ cur' = [id |-> KidId, page |-> pages[KidId]] /\ atRoot' = FALSE
  BY <1>3 DEF Descend, file, memory, ghosts
<1>5. InFile(b, lastId, header.height) /\ RootIsFirstPage
  BY <1>1, <1>2 DEF Shape, Splitting
<1>6. InFile(b, lastId, header.height)'
  BY <1>1, <1>4, <1>5, TimesKept DEF InFile, Counted, Bound
<1>7. KidId \in Live(b, lastId) /\ KidId # 0
  BY <1>1, <1>2, LastKid DEF Live
<1>8. AtLivePage(b)'
  BY <1>4, <1>7 DEF AtLivePage
<1>9. Shape(b)'
  BY <1>1, <1>2, <1>4, <1>5, <1>6, <1>8 DEF Shape, Splitting, RootIsFirstPage
<1>10. QED
  BY <1>1, <1>4, <1>9 DEF AppendInv

LEMMA DescendFullAppend ==
  ASSUME IndInv, AppendInv, DescendFullChild
  PROVE  AppendInv'
<1>0. PICK n, c, p, k, g : n = lastId /\ c = KidId /\ p = cur.id /\ k = key /\ g = header.height
  OBVIOUS
<1> DEFINE m == n + 1
<1>1. PICK above : above = Adopt(cur.page, Slot, pages[c].keys[T - 1], m)
  OBVIOUS
<1>2. PICK left, right : left = LeftHalf(pages[c]) /\ right = RightHalf(pages[c])
  OBVIOUS
<1>3. /\ AtInnerNode /\ status = "open" /\ step = "descend" /\ ~cur.page.leaf
      /\ IsFull(pages[c])
      /\ child' = [id |-> c, page |-> left]
      /\ sibling' = [id |-> m, page |-> right]
      /\ cur' = [cur EXCEPT !.page = above]
      /\ root' = IF atRoot THEN cur' ELSE root
      /\ lastId' = m /\ header' = [header EXCEPT !.nodes = header.nodes + 1]
      /\ step' = "writeParent" /\ key' = key /\ atRoot' = atRoot
      /\ status' = status /\ pages' = pages /\ history' = history /\ opens' = opens
  BY <1>0, <1>1, <1>2 DEF DescendFullChild, AtInnerNode, file, ghosts
<1>4. PICK b \in Nat : Shape(b)
  BY <1>3 DEF AppendInv
<1>5. /\ InFile(b, lastId, header.height) /\ RootIsFirstPage /\ AtLivePage(b)
      /\ b <= lastId /\ header.nodes = lastId - b + 1
  BY <1>3, <1>4 DEF Shape, Splitting
<1>6. PICK d : Tree(pages, b, n, g, d, k)
  BY <1>0, <1>3, <1>5 DEF InFile, Bound
<1>7. /\ n \in Nat /\ header \in Header /\ cur \in Node /\ root \in Node /\ ~IsFull(cur.page)
  BY <1>0, <1>3 DEF IndInv, TypeOK, InsertHasRoom
<1>8. header'.nodes = header.nodes + 1 /\ header'.height = g
  BY <1>0, <1>3, <1>7 DEF Header
<1>9. cur'.id = p /\ cur'.page = above /\ cur' = [id |-> p, page |-> above]
  BY <1>0, <1>3, <1>7 DEF Node
<1>10. /\ p \in Live(b, n) /\ cur.page = pages[p] /\ (atRoot <=> p = 0)
  BY <1>0, <1>5 DEF AtLivePage
<1>11. /\ c = pages[p].kids[pages[p].count] /\ Slot = pages[p].count
       /\ c \in (b + 1) .. n
  BY <1>0, <1>3, <1>4, <1>10, LastKid
<1>12. /\ \A y : y \in Live(b, n) <=> y = 0 \/ y \in (b + 1) .. n
       /\ \A y : y \in Live(b, m) <=> y = m \/ y \in Live(b, n)
       /\ m \notin Live(b, n) /\ Live(b, n) \subseteq 0 .. n /\ 0 \in Live(b, n)
  BY <1>0, <1>5, <1>7 DEF Live
<1>13. PICK t : t = [x \in Live(b, m) |-> IF x = p THEN above
                                          ELSE IF x = c THEN left
                                          ELSE IF x = m THEN right
                                          ELSE pages[x]]
  OBVIOUS
<1>14. c # p
  <2>1. HasKid(pages, p, pages[p].count) /\ pages[p].count \in Nat
    BY <1>0, <1>3, <1>4, <1>10, LastKid
  <2>2. d[c] = d[p] + 1
    BY <1>6, <1>10, <1>11, <2>1 DEF Tree, TreeKids
  <2>3. d[p] \in Nat
    BY <1>6, <1>10 DEF Tree, TreeDepths
  <2>4. QED
    BY <2>2, <2>3
<1>15. t[p] = above /\ t[c] = left /\ t[m] = right
  BY <1>10, <1>11, <1>12, <1>13, <1>14
<1>16. \A x \in Live(b, n) \ {p, c} : t[x] = pages[x]
  BY <1>12, <1>13
<1>17. Regrown(pages, n, t, m, b, g, k)
  <2>1. /\ ~pages[p].leaf /\ ~IsFull(pages[p])
        /\ t[p] = Adopt(pages[p], pages[p].count, pages[c].keys[T - 1], n + 1)
        /\ t[c] = LeftHalf(pages[c]) /\ t[n + 1] = RightHalf(pages[c])
    BY <1>1, <1>2, <1>3, <1>7, <1>10, <1>11, <1>15
  <2>2. QED
    BY <1>3, <1>6, <1>10, <1>11, <1>16, <2>1, SplitLastChild DEF SplitsTo
<1>18. InMemory(b, t)'
  <2>1. \E f : Tree(t, b, lastId, header.height, f, key)'
    BY <1>0, <1>3, <1>8, <1>17 DEF Regrown
  <2>2. Counted(t, b, lastId)'
    <3>1. ASSUME NEW v
          PROVE  Cardinality(Places(t, b, m, v)) = Times(v)'
      <4>1. Cardinality(Places(pages, b, n, v)) = Times(v)
        BY <1>0, <1>5 DEF InFile, Counted
      <4>2. Times(v)' = Times(v)
        BY <1>3, TimesKept
      <4> HIDE DEF m
      <4>3. QED
        BY <1>17, <4>1, <4>2 DEF Regrown
    <3> HIDE DEF m
    <3>2. QED
      BY <1>3, <3>1 DEF Counted
  <2>3. root' = [id |-> 0, page |-> t[0]]
    <3>1. CASE p = 0
      BY <1>3, <1>9, <1>10, <1>15, <3>1
    <3>2. CASE p # 0
      <4>1. t[0] = pages[0]
        BY <1>11, <1>12, <1>16, <3>2
      <4>2. QED
        BY <1>3, <1>5, <1>10, <3>2, <4>1 DEF RootIsFirstPage
    <3>3. QED
      BY <3>1, <3>2
  <2>4. /\ cur'.page = t[p] /\ child'.id = c /\ child'.page = t[c]
        /\ sibling'.id = m /\ sibling'.page = t[m]
    BY <1>3, <1>9, <1>15
  <2>5. Pending' = {p, c, m}
    BY <1>3, <1>9, <2>4 DEF Pending
  <2>6. \A x \in Live(b, m) \ {p, c, m} : x \in DOMAIN pages /\ pages[x] = t[x]
    BY <1>0, <1>5, <1>12, <1>16 DEF InFile
  <2>7. DOMAIN pages \subseteq 0 .. m
    BY <1>0, <1>5, <1>7 DEF InFile
  <2>8. /\ p \in Live(b, m) /\ c \in Live(b, m) /\ b < m
        /\ p # m /\ c # m /\ c # 0
    BY <1>0, <1>5, <1>7, <1>10, <1>11, <1>12
  <2> HIDE DEF m
  <2>9. QED
    BY <1>3, <1>9, <1>10, <1>14, <2>1, <2>2, <2>3, <2>4, <2>5, <2>6, <2>7, <2>8 DEF InMemory
<1>19. \E l, f : InFile(b, l, f)'
  <2>1. Counted(pages, b, n)'
    BY <1>0, <1>3, <1>5, TimesKept DEF InFile, Counted
  <2>2. Bound' = k
    BY <1>0, <1>3 DEF Bound
  <2>3. InFile(b, n, g)'
    BY <1>0, <1>3, <1>5, <1>6, <2>1, <2>2 DEF InFile
  <2>4. QED
    BY <2>3
<1>20. Shape(b)'
  BY <1>0, <1>3, <1>5, <1>7, <1>8, <1>18, <1>19 DEF Shape, Splitting
<1>21. QED
  BY <1>3, <1>20 DEF AppendInv

(* The page writes of a split bring the file to what memory says.           *)
LEMMA SplitWriteAppend ==
  ASSUME IndInv, AppendInv, WriteParent \/ WriteChild
  PROVE  AppendInv'
<1>1. PICK w : w = IF step = "writeParent" THEN cur ELSE child
  OBVIOUS
<1>2. /\ status = "open" /\ status' = status
      /\ \/ step = "writeParent" /\ step' = "writeChild"
         \/ step = "writeChild" /\ step' = "writeSibling"
      /\ pages' = Written(w) /\ header' = header /\ root' = root /\ lastId' = lastId
      /\ key' = key /\ cur' = cur /\ atRoot' = atRoot /\ child' = child
      /\ sibling' = sibling /\ history' = history /\ opens' = opens
  BY <1>1 DEF WriteParent, WriteChild, memory, ghosts
<1>3. PICK b \in Nat : Shape(b)
  BY <1>2 DEF AppendInv
<1>4. PICK t : InMemory(b, t)
  BY <1>2, <1>3 DEF Shape, Splitting
<1>5. w \in Node /\ lastId \in Nat
  BY <1>1 DEF IndInv, TypeOK
<1>6. w.id \in Live(b, lastId) /\ w.page = t[w.id]
  BY <1>1, <1>4 DEF InMemory
<1>7. /\ DOMAIN pages' = DOMAIN pages \cup 0 .. w.id
      /\ pages'[w.id] = w.page
      /\ \A x \in DOMAIN pages : x # w.id => pages'[x] = pages[x]
  BY <1>2, <1>5, WrittenPages
<1>8. w.id \in 0 .. lastId
  BY <1>5, <1>6 DEF Live
<1>9. DOMAIN pages' \subseteq 0 .. lastId
  BY <1>4, <1>5, <1>7, <1>8 DEF InMemory
<1>10. w.id \in DOMAIN pages'
  BY <1>5, <1>7 DEF Node
<1>11. \A x \in Live(b, lastId) : x \notin Pending' => x \notin Pending \/ x = w.id
  BY <1>1, <1>2, <1>4 DEF Pending, InMemory
<1>12. \A x \in Live(b, lastId) \ Pending' : x \in DOMAIN pages' /\ pages'[x] = t[x]
  BY <1>4, <1>6, <1>7, <1>10, <1>11 DEF InMemory
<1>13. Counted(t, b, lastId)'
  BY <1>2, <1>4, TimesKept DEF InMemory, Counted
<1>14. InMemory(b, t)'
  BY <1>2, <1>4, <1>9, <1>12, <1>13 DEF InMemory
<1>15. Shape(b)'
  BY <1>2, <1>3, <1>14 DEF Shape, Splitting
<1>16. QED
  BY <1>2, <1>15 DEF AppendInv

LEMMA SiblingWriteAppend ==
  ASSUME IndInv, AppendInv, WriteSibling
  PROVE  AppendInv'
<1>1. /\ status = "open" /\ status' = status
      /\ step = "writeSibling" /\ step' = "descend"
      /\ pages' = Written(sibling) /\ header' = header /\ root' = root
      /\ lastId' = lastId /\ key' = key /\ history' = history /\ opens' = opens
      /\ IF resume = "child" THEN cur' = child /\ atRoot' = FALSE
                             ELSE cur' = cur /\ atRoot' = atRoot
  BY DEF WriteSibling, memory, ghosts
<1>2. PICK b \in Nat : Shape(b)
  BY <1>1 DEF AppendInv
<1>3. PICK t : InMemory(b, t)
  BY <1>1, <1>2 DEF Shape, Splitting
<1>4. sibling \in Node /\ lastId \in Nat
  BY DEF IndInv, TypeOK
<1>5. /\ sibling.id = lastId /\ sibling.page = t[lastId] /\ b < lastId
      /\ DOMAIN pages \subseteq 0 .. lastId
  BY <1>3 DEF InMemory
<1>6. /\ DOMAIN pages' = 0 .. lastId
      /\ pages'[lastId] = t[lastId]
      /\ \A x \in DOMAIN pages : x # lastId => pages'[x] = pages[x]
  BY <1>1, <1>4, <1>5, WrittenPages
<1>7. \A x \in Live(b, lastId) : pages'[x] = t[x]
  <2>1. \A x \in Live(b, lastId) : x # lastId => x \notin Pending
    BY <1>1, <1>5 DEF Pending
  <2>2. QED
    BY <1>3, <1>6, <2>1 DEF InMemory
<1>8. PICK d : Tree(t, b, lastId, header.height, d, key)
  BY <1>3 DEF InMemory
<1>9. /\ Tree(pages', b, lastId, header.height, d, key)
      /\ \A k : Places(pages', b, lastId, k) = Places(t, b, lastId, k)
  BY <1>7, <1>8, TreeOfEqualPages, PlacesOfEqualPages
<1>10. Counted(pages, b, lastId)'
  BY <1>1, <1>3, <1>9, TimesKept DEF InMemory, Counted
<1>11. Bound' = key
  BY <1>1 DEF Bound
<1>12. InFile(b, lastId, header.height)'
  BY <1>1, <1>6, <1>9, <1>10, <1>11 DEF InFile
<1>13. RootIsFirstPage'
  <2>1. 0 \in Live(b, lastId)
    BY DEF Live
  <2>2. QED
    BY <1>1, <1>3, <1>7, <2>1 DEF InMemory, RootIsFirstPage
<1>14. AtLivePage(b)'
  <2>1. /\ cur.id \in Live(b, lastId) /\ child.id \in Live(b, lastId) /\ child.id # 0
        /\ cur.page = t[cur.id] /\ child.page = t[child.id] /\ (atRoot <=> cur.id = 0)
    BY <1>3 DEF InMemory
  <2>2. QED
    BY <1>1, <1>7, <2>1 DEF AtLivePage
<1>15. Shape(b)'
  BY <1>1, <1>2, <1>12, <1>13, <1>14 DEF Shape, Splitting
<1>16. QED
  BY <1>1, <1>15 DEF AppendInv

LEMMA LeafAppend ==
  ASSUME IndInv, AppendInv, WriteLeaf
  PROVE  AppendInv'
<1>1. PICK l, leaf : l = cur.id /\ leaf = InsertKey(cur.page, key)
  OBVIOUS
<1>2. /\ status = "open" /\ status' = status
      /\ step = "descend" /\ step' = "writeHeader" /\ cur.page.leaf
      /\ cur' = [cur EXCEPT !.page = leaf] /\ pages' = Written(cur')
      /\ root' = IF atRoot THEN cur' ELSE root
      /\ header' = header /\ lastId' = lastId /\ key' = key
      /\ history' = history /\ opens' = opens
  BY <1>1 DEF WriteLeaf, ghosts
<1>3. PICK b \in Nat : Shape(b)
  BY <1>2 DEF AppendInv
<1>4. InFile(b, lastId, header.height) /\ RootIsFirstPage /\ AtLivePage(b)
  BY <1>2, <1>3 DEF Shape, Splitting
<1>5. /\ key \in Nat /\ lastId \in Nat /\ cur \in Node /\ cur.page \in Page
      /\ ~IsFull(cur.page) /\ root \in Node
  BY <1>2 DEF IndInv, TypeOK, InsertHasRoom, Node
<1>6. leaf \in Page
  BY <1>1, <1>5, InsertKeyType
<1>7. cur' = [id |-> l, page |-> leaf] /\ cur' \in Node
  BY <1>1, <1>2, <1>5, <1>6 DEF Node
<1>8. /\ l \in Live(b, lastId) /\ cur.page = pages[l] /\ (atRoot <=> l = 0)
      /\ DOMAIN pages = 0 .. lastId
  BY <1>1, <1>4 DEF AtLivePage, InFile
<1>9. Live(b, lastId) \subseteq 0 .. lastId /\ 0 \in Live(b, lastId)
  BY <1>5 DEF Live
<1>10. cur'.id = l /\ cur'.page = leaf
  BY <1>7
<1>11. /\ DOMAIN pages' = DOMAIN pages \cup 0 .. l
       /\ pages'[l] = leaf
       /\ \A x \in DOMAIN pages : x # l => pages'[x] = pages[x]
  <2>1. PICK c : c = cur'
    OBVIOUS
  <2>2. c \in Node /\ c.id = l /\ c.page = leaf /\ pages' = Written(c)
    BY <1>2, <1>7, <1>10, <2>1
  <2>3. QED
    BY <2>2, WrittenPages
<1>12. DOMAIN pages' = 0 .. lastId
  BY <1>5, <1>8, <1>9, <1>11
<1>13. /\ pages'[l] = InsertKey(pages[l], key)
       /\ \A x \in Live(b, lastId) \ {l} : pages'[x] = pages[x]
       /\ pages[l].leaf /\ ~IsFull(pages[l])
  BY <1>1, <1>2, <1>5, <1>8, <1>9, <1>11
<1>14. PICK d : Tree(pages, b, lastId, header.height, d, key)
  BY <1>2, <1>4 DEF InFile, Bound
<1>15. Tree(pages', b, lastId, header.height, d, key)
  BY <1>5, <1>8, <1>13, <1>14, LeafInsert
<1>16. ASSUME NEW v
       PROVE  Cardinality(Places(pages', b, lastId, v)) = Times(v)'
  <2>1. Cardinality(Places(pages', b, lastId, v)) =
          Cardinality(Places(pages, b, lastId, v)) + IF v = key THEN 1 ELSE 0
    <3>1. OneMore(pages', pages, b, lastId, key)
      BY <1>5, <1>8, <1>13, <1>14, LeafInsert
    <3>2. QED
      BY <3>1 DEF OneMore
  <2>2. Cardinality(Places(pages, b, lastId, v)) = Cardinality(Inserted(v)) + 0
    BY <1>2, <1>4 DEF InFile, Counted, Times
  <2>3. Cardinality(Places(pages, b, lastId, v)) \in Nat
    BY <1>5, <1>14, PlacesFinite DEF Tree
  <2>4. Inserted(v)' = Inserted(v)
    BY <1>2 DEF Inserted
  <2>5. Times(v)' = Cardinality(Inserted(v)) + IF key = v THEN 1 ELSE 0
    BY <1>2, <2>4 DEF Times
  <2>6. Cardinality(Inserted(v)) = Cardinality(Places(pages, b, lastId, v))
    BY <2>2, InsertedCount
  <2>7. QED
    BY <2>1, <2>5, <2>6
<1>17. InFile(b, lastId, header.height)'
  <2>1. Bound' = key
    BY <1>2 DEF Bound
  <2>2. Counted(pages, b, lastId)'
    BY <1>2, <1>16 DEF Counted
  <2>3. QED
    BY <1>2, <1>12, <1>15, <2>1, <2>2 DEF InFile
<1>18. RootIsFirstPage'
  <2>1. CASE l = 0
    BY <1>2, <1>7, <1>8, <1>11, <2>1 DEF RootIsFirstPage
  <2>2. CASE l # 0
    BY <1>2, <1>4, <1>8, <1>9, <1>13, <2>2 DEF RootIsFirstPage
  <2>3. QED
    BY <2>1, <2>2
<1>19. Shape(b)'
  BY <1>2, <1>3, <1>17, <1>18 DEF Shape, Splitting
<1>20. QED
  BY <1>2, <1>19 DEF AppendInv

LEMMA HeaderAppend ==
  ASSUME IndInv, AppendInv, WriteHeader
  PROVE  AppendInv'
<1>1. /\ status = "open" /\ status' = status
      /\ step = "writeHeader" /\ step' = "idle"
      /\ header' = [header EXCEPT !.kv = header.kv + 1]
      /\ pages' = pages /\ root' = root /\ lastId' = lastId
      /\ history' = Append(history, key) /\ opens' = opens
  BY DEF WriteHeader, NoInsert
<1>2. PICK b \in Nat : Shape(b)
  BY <1>1 DEF AppendInv
<1>3. InFile(b, lastId, header.height) /\ RootIsFirstPage
  BY <1>1, <1>2 DEF Shape, Splitting
<1>4. history \in Seq(Nat) /\ key \in Nat /\ header \in Header
  BY DEF IndInv, TypeOK
<1>5. header'.nodes = header.nodes /\ header'.height = header.height
  BY <1>1, <1>4 DEF Header
<1>6. Bound = key /\ Bound' = key
  <2>1. /\ Append(history, key) # <<>>
        /\ Append(history, key)[Len(Append(history, key))] = key
    BY <1>4
  <2>2. QED
    BY <1>1, <2>1 DEF Bound, LastKey
<1>7. ASSUME NEW v
      PROVE  Times(v)' = Times(v)
  <2>1. Inserted(v) = Occurrences(history, v)
    BY DEF Inserted, Occurrences
  <2>1a. Inserted(v)' = Occurrences(Append(history, key), v)
    BY <1>1 DEF Inserted, Occurrences
  <2>2. Cardinality(Inserted(v)') = Cardinality(Inserted(v)) + IF key = v THEN 1 ELSE 0
    BY <1>4, <2>1, <2>1a, AppendCounts
  <2>3. Times(v)' = Cardinality(Inserted(v)') + 0
    BY <1>1 DEF Times
  <2>4. Times(v) = Cardinality(Inserted(v)) + IF key = v THEN 1 ELSE 0
    BY <1>1 DEF Times
  <2>5. Cardinality(Inserted(v)') \in Nat
    BY <2>2, InsertedCount
  <2>6. QED
    BY <2>2, <2>3, <2>4, <2>5
<1>8. InFile(b, lastId, header.height)'
  BY <1>1, <1>3, <1>5, <1>6, <1>7 DEF InFile, Counted
<1>9. Shape(b)'
  BY <1>1, <1>2, <1>3, <1>5, <1>8 DEF Shape, Splitting, RootIsFirstPage
<1>10. QED
  BY <1>1, <1>9 DEF AppendInv

LEMMA StutterAppend ==
  ASSUME AppendInv, UNCHANGED vars
  PROVE  AppendInv'
<1>1. /\ pages' = pages /\ header' = header /\ root' = root /\ lastId' = lastId
      /\ step' = step /\ key' = key /\ cur' = cur /\ atRoot' = atRoot
      /\ child' = child /\ sibling' = sibling /\ status' = status
      /\ history' = history /\ opens' = opens
  BY DEF vars, file, memory, insert, ghosts
<1>2. Bound' = Bound /\ Pending' = Pending /\ (Splitting' <=> Splitting)
  BY <1>1 DEF Bound, LastKey, Pending, Splitting
<1>3. ASSUME NEW v
      PROVE  Times(v)' = Times(v)
  BY <1>1 DEF Times, Inserted
<1>4. ASSUME NEW t, NEW b, NEW n, Counted(t, b, n)
      PROVE  Counted(t, b, n)'
  BY <1>3, <1>4 DEF Counted
<1>5. ASSUME NEW b, NEW n, NEW h, InFile(b, n, h)
      PROVE  InFile(b, n, h)'
  BY <1>1, <1>2, <1>3, <1>5 DEF InFile, Counted
<1>6. ASSUME NEW b, NEW t, InMemory(b, t)
      PROVE  InMemory(b, t)'
  BY <1>1, <1>2, <1>4, <1>6 DEF InMemory
<1>7. ASSUME NEW b, Shape(b)
      PROVE  Shape(b)'
  <2>1. AtLivePage(b)' <=> AtLivePage(b)
    BY <1>1 DEF AtLivePage
  <2>2. RootIsFirstPage' <=> RootIsFirstPage
    BY <1>1 DEF RootIsFirstPage
  <2>3. (step \notin {"writeChild", "writeSibling"} => \E n, h : InFile(b, n, h))'
    BY <1>1, <1>5, <1>7 DEF Shape
  <2>4. (~Splitting => InFile(b, lastId, header.height) /\ RootIsFirstPage)'
    <3>1. InFile(b, lastId, header.height) => InFile(b, lastId, header.height)'
      BY <1>1, <1>2, <1>3 DEF InFile, Counted
    <3>2. QED
      BY <1>2, <1>7, <2>2, <3>1 DEF Shape
  <2>5. (Splitting => \E t : InMemory(b, t))'
    BY <1>2, <1>6, <1>7 DEF Shape
  <2>6. QED
    BY <1>1, <1>7, <2>1, <2>3, <2>4, <2>5 DEF Shape
<1>8. QED
  BY <1>1, <1>7 DEF AppendInv

(* One process on a fresh file, and keys in order. *)
InOrderLife == InsertOrder = "append" /\ MaxOpens <= 1

LEMMA NextAppendInv ==
  ASSUME InOrderLife, IndInv, AppendInv, [Next]_vars
  PROVE  AppendInv'
<1>1. CASE UNCHANGED vars
  BY <1>1, StutterAppend
<1>2. CASE InsertStep
  BY <1>2, DescendAppend, DescendFullAppend, SplitWriteAppend, SiblingWriteAppend,
     LeafAppend, HeaderAppend DEF InsertStep
<1>3. CASE Create \/ Reload \/ Stop \/ Reset
  BY <1>3, LifeAppend DEF InOrderLife
<1>4. CASE \E k \in Keys : BeginInsert(k) \/ BeginInsertFullRoot(k)
  BY <1>4, BeginAppend, BeginFullRootAppend DEF InOrderLife
<1>5. QED
  BY <1>1, <1>2, <1>3, <1>4 DEF Next

LEMMA SpecAppendInv ==
  ASSUME InOrderLife
  PROVE  Spec => [](IndInv /\ AppendInv)
<1>1. Init => IndInv /\ AppendInv
  BY InitIndInv, InitAppendInv
<1>2. IndInv /\ AppendInv /\ [Next]_vars => (IndInv /\ AppendInv)'
  BY NextInv, NextAppendInv
<1>3. QED
  BY <1>1, <1>2, PTL DEF Spec

(* What the tree in the file holds is what was inserted. *)
LEMMA StoredAsOften ==
  ASSUME NEW b \in Nat, NEW n, NEW h, InFile(b, n, h), NEW k
  PROVE  Cardinality(StoredIn(Reachable, k)) = Times(k)
<1>1. PICK d : Tree(pages, b, n, h, d, Bound)
  BY DEF InFile
<1>2. Reachable = Live(b, n)
  BY <1>1, LevelsOfTree DEF InFile
<1>3. StoredIn(Reachable, k) = Places(pages, b, n, k)
  BY <1>2 DEF StoredIn, Places
<1>4. QED
  BY <1>3 DEF InFile, Counted

(* The children of a page are one more than its keys, and its alone.       *)
LEMMA KidsInTree ==
  ASSUME NEW b, NEW n, NEW h, NEW d, NEW B, Tree(pages, b, n, h, d, B),
         NEW p \in Live(b, n)
  PROVE  /\ ~pages[p].leaf => Cardinality(KidsOf(p)) = pages[p].count + 1
         /\ \A q \in Live(b, n) : p # q => KidsOf(p) \cap KidsOf(q) = {}
<1>1. \A q \in Live(b, n) : pages[q] \in Page
  BY DEF Tree, TreePages
<1>2. \A q \in Live(b, n) : \A y : y \in KidsOf(q) <=>
        \E s \in Nat : HasKid(pages, q, s) /\ pages[q].kids[s] = y
  BY <1>1 DEF KidsOf, HasKid, Page
<1>3. TreeOneParent(pages, b, n)
  BY DEF Tree
<1>4. ASSUME ~pages[p].leaf
      PROVE  Cardinality(KidsOf(p)) = pages[p].count + 1
  <2> DEFINE e == pages[p].count
             f == [s \in 0 .. e |-> pages[p].kids[s]]
  <2>1. e \in Nat
    BY <1>1 DEF Page
  <2>2. \A s \in 0 .. e : s \in Nat /\ HasKid(pages, p, s)
    BY <1>4 DEF HasKid
  <2>3. \A s \in Nat : HasKid(pages, p, s) => s \in 0 .. e
    BY DEF HasKid
  <2> HIDE DEF e
  <2>4. f \in [0 .. e -> KidsOf(p)]
    BY <1>2, <2>2
  <2>5. ASSUME NEW s \in 0 .. e, NEW r \in 0 .. e, f[s] = f[r]
        PROVE  s = r
    BY <1>3, <2>2, <2>5 DEF TreeOneParent
  <2>6. ASSUME NEW y \in KidsOf(p)
        PROVE  \E s \in 0 .. e : f[s] = y
    BY <1>2, <2>3
  <2>7. IsFiniteSet(0 .. e) /\ Cardinality(0 .. e) = e + 1
    BY <2>1, FS_Interval
  <2> HIDE DEF f
  <2>8. Cardinality(KidsOf(p)) = Cardinality(0 .. e)
    BY <2>4, <2>5, <2>6, <2>7, SameSize
  <2>9. QED
    BY <2>7, <2>8 DEF e
<1>5. ASSUME NEW q \in Live(b, n), p # q, NEW y \in KidsOf(p), y \in KidsOf(q)
      PROVE  FALSE
  BY <1>2, <1>3, <1>5 DEF TreeOneParent
<1>6. QED
  BY <1>4, <1>5

LEMMA TreeIsBalanced ==
  ASSUME NEW b, NEW n, NEW h, NEW d, NEW B,
         Tree(pages, b, n, h, d, B), DOMAIN pages = 0 .. n,
         header.height = h, header.nodes = n - b + 1
  PROVE  Balanced
<1>1. /\ DOMAIN Level = 0 .. (n + 1)
      /\ \A i \in 0 .. (n + 1) : Level[i] = {x \in Live(b, n) : d[x] = i}
      /\ Reachable = Live(b, n)
  BY LevelsOfTree
<1>2. ASSUME NEW i \in DOMAIN Level, NEW p \in Reachable, p \in Level[i]
      PROVE  i < header.height /\ (pages[p].leaf <=> i = header.height - 1)
  <2>1. p \in Live(b, n) /\ d[p] = i
    BY <1>1, <1>2
  <2>2. h \in Nat /\ d[p] \in 0 .. (h - 1) /\ (pages[p].leaf <=> d[p] = h - 1)
    BY <2>1 DEF Tree, TreeDepths
  <2>3. QED
    BY <2>1, <2>2
<1>3. \A p, q \in Reachable : p # q => KidsOf(p) \cap KidsOf(q) = {}
  BY <1>1, KidsInTree
<1>4. \A p \in Reachable : ~pages[p].leaf => Cardinality(KidsOf(p)) = pages[p].count + 1
  BY <1>1, KidsInTree
<1>5. Cardinality(Reachable) = header.nodes
  BY <1>1, LiveIs DEF Tree
<1>6. QED
  BY <1>2, <1>3, <1>4, <1>5 DEF Balanced

(* No assertion of the index stops the process: the child an insert goes    *)
(* down to is always in the file (load_node_from_disk), and split_child     *)
(* never shifts, so that its slices stay in bounds, although the guard of   *)
(* its loops compares a count with a page number.                           *)
THEOREM AppendNoTrap ==
  ASSUME InOrderLife
  PROVE  Spec => []NoTrap
<1>1. IndInv /\ AppendInv => NoTrap
  BY DEF AppendInv, NoTrap
<1>2. QED
  BY <1>1, SpecAppendInv, PTL

(* Between inserts the root object is what page 0 of the file says,         *)
(* although splits write one and the other in different places.             *)
THEOREM AppendRootCached ==
  ASSUME InOrderLife
  PROVE  Spec => []RootCached
<1>1. IndInv /\ AppendInv => RootCached
  BY DEF AppendInv, RootCached, Quiet, Shape, Splitting, RootIsFirstPage
<1>2. QED
  BY <1>1, SpecAppendInv, PTL

(* Between inserts the pages of the file form a balanced tree of the height *)
(* and the size its header says, for every order of the tree.               *)
THEOREM AppendBalanced ==
  ASSUME InOrderLife
  PROVE  Spec => []Balanced
<1>1. ASSUME IndInv, AppendInv
      PROVE  Balanced
  <2>1. CASE ~Quiet
    BY <2>1 DEF Balanced
  <2>2. CASE Quiet
    <3>1. PICK b \in Nat : Shape(b)
      BY <1>1, <2>2 DEF AppendInv, Quiet
    <3>2. header.nodes = lastId - b + 1 /\ InFile(b, lastId, header.height)
      BY <2>2, <3>1 DEF Shape, Splitting, Quiet
    <3>3. QED
      BY <3>2, TreeIsBalanced DEF InFile
  <2>3. QED
    BY <2>1, <2>2
<1>2. QED
  BY <1>1, SpecAppendInv, PTL

(* Nothing is lost and nothing is stored twice: before, between and after   *)
(* the writes of an insert the tree in the file holds every key as often as *)
(* it was inserted since the last reset; only while the halves of a split   *)
(* are written may a key be missing from the file.                          *)
THEOREM AppendEveryKeyStoredOnce ==
  ASSUME InOrderLife
  PROVE  Spec => []EveryKeyStoredOnce
<1>1. ASSUME IndInv, AppendInv
      PROVE  EveryKeyStoredOnce
  <2>1. SUFFICES ASSUME status = "open", step \notin {"writeChild", "writeSibling"},
                        NEW k \in Keys
                 PROVE  Cardinality(StoredIn(Reachable, k)) = Times(k)
    BY DEF EveryKeyStoredOnce, Times
  <2>2. PICK b \in Nat : Shape(b)
    BY <1>1, <2>1 DEF AppendInv
  <2>3. PICK n, h : InFile(b, n, h)
    BY <2>1, <2>2 DEF Shape
  <2>4. QED
    BY <2>3, StoredAsOften
<1>2. QED
  BY <1>1, SpecAppendInv, PTL
=============================================================================
