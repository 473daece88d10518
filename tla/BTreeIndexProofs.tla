-------------------------- MODULE BTreeIndexProofs --------------------------
(***************************************************************************)
(* What holds of the index for every order T of the tree, every set of     *)
(* keys and every bound: its pages keep their shape, an insert always has  *)
(* room, and for its table it is a persistent counter.                     *)
(***************************************************************************)
EXTENDS BTreeIndex, NatSets, FiniteSetTheorems

USE OrderAssumption, KeysAssumption

(* A page has a slot for the key: the scan from the right stops.           *)
LEMMA InsertSlotIs ==
  ASSUME NEW p \in Page, NEW k \in Nat
  PROVE  /\ InsertSlot(p, k) \in 0 .. p.count
         /\ \A j \in InsertSlot(p, k) .. (p.count - 1) : k < p.keys[j]
         /\ InsertSlot(p, k) > 0 => k >= p.keys[InsertSlot(p, k) - 1]
<1> DEFINE Q(i) == /\ \A j \in i .. (p.count - 1) : k < p.keys[j]
                   /\ i > 0 => k >= p.keys[i - 1]
           S == {i \in 0 .. p.count : i > 0 => k >= p.keys[i - 1]}
<1>1. p.count \in Nat /\ p.count <= 2 * T - 1 /\ p.keys \in [KeySlots -> Nat]
  BY DEF Page, MaxKeys
<1>2. 0 \in S
  BY <1>1
<1>3. PICK m \in S : \A n \in S : n <= m
  <2>1. S \in SUBSET (0 .. p.count) /\ S # {}
    BY <1>2
  <2>2. QED
    BY <1>1, <2>1, GreatestElement
<1>4. Q(m)
  <2>1. ASSUME NEW j \in m .. (p.count - 1), ~(k < p.keys[j])
        PROVE  FALSE
    <3>1. m \in Nat /\ j \in Nat /\ j + 1 \in 0 .. p.count /\ j \in KeySlots
      BY <1>1 DEF KeySlots
    <3>2. k >= p.keys[j]
      BY <1>1, <2>1, <3>1
    <3>3. j + 1 \in S
      BY <3>1, <3>2
    <3>4. j + 1 <= m
      BY <1>3, <3>3
    <3>5. QED
      BY <3>1, <3>4
  <2>2. QED
    BY <1>3, <2>1
<1>5. \E i \in 0 .. p.count : Q(i)
  BY <1>3, <1>4
<1>6. QED
  BY <1>5 DEF InsertSlot

LEMMA InsertSlotRange ==
  ASSUME NEW p \in Page, NEW k \in Nat
  PROVE  InsertSlot(p, k) \in 0 .. p.count
BY InsertSlotIs

(* Writing a key into a page with room gives a page again.                 *)
LEMMA InsertKeyType ==
  ASSUME NEW p \in Page, NEW k \in Nat, ~IsFull(p)
  PROVE  InsertKey(p, k) \in Page
<1> DEFINE i == InsertSlot(p, k)
           ks == [s \in KeySlots |->
                    IF s = i THEN k
                    ELSE IF s > i /\ s <= p.count THEN p.keys[s - 1]
                    ELSE p.keys[s]]
<1>1. /\ p.count \in Nat
      /\ p.count < 2 * T - 1
      /\ p.keys \in [KeySlots -> Nat]
      /\ p.kids \in [KidSlots -> Nat]
      /\ p.leaf \in BOOLEAN
  BY DEF Page, MaxKeys, IsFull
<1>2. i \in 0 .. p.count
  BY InsertSlotRange
<1>3. ks \in [KeySlots -> Nat]
  <2>1. ASSUME NEW s \in KeySlots
        PROVE  ks[s] \in Nat
    <3>1. CASE s > i /\ s <= p.count
      <4>1. s - 1 \in KeySlots
        BY <1>1, <1>2, <3>1 DEF KeySlots
      <4>2. QED
        BY <1>1, <4>1
    <3>2. CASE ~(s > i /\ s <= p.count)
      BY <1>1, <3>2
    <3>3. QED
      BY <3>1, <3>2
  <2>2. QED
    BY <2>1
<1>4. InsertKey(p, k) = [p EXCEPT !.count = p.count + 1, !.keys = ks]
  BY DEF InsertKey
<1>5. p.count + 1 \in 0 .. MaxKeys
  BY <1>1 DEF MaxKeys
<1>6. QED
  BY <1>1, <1>3, <1>4, <1>5 DEF Page

(* The halves of a full page are pages with room.                          *)
LEMMA HalvesType ==
  ASSUME NEW p \in Page
  PROVE  /\ LeftHalf(p) \in Page /\ ~IsFull(LeftHalf(p))
         /\ RightHalf(p) \in Page
         /\ p.keys[T - 1] \in Nat
<1>1. /\ p.keys \in [KeySlots -> Nat]
      /\ p.kids \in [KidSlots -> Nat]
      /\ p.leaf \in BOOLEAN
  BY DEF Page
<1>2. T - 1 \in 0 .. MaxKeys /\ T - 1 # MaxKeys /\ T - 1 \in KeySlots
  BY DEF MaxKeys, KeySlots
<1>3. LeftHalf(p) \in Page /\ LeftHalf(p).count = T - 1
  BY <1>1, <1>2 DEF LeftHalf, Page
<1>4. [s \in KeySlots |-> IF s < T - 1 THEN p.keys[T + s] ELSE 0] \in [KeySlots -> Nat]
  BY <1>1 DEF KeySlots
<1>5. [s \in KidSlots |-> IF ~p.leaf /\ s < T THEN p.kids[T + s] ELSE 0]
        \in [KidSlots -> Nat]
  BY <1>1 DEF KidSlots
<1>6. RightHalf(p) \in Page
  BY <1>1, <1>2, <1>4, <1>5 DEF RightHalf, Page
<1>7. QED
  BY <1>1, <1>2, <1>3, <1>6 DEF IsFull

(* A parent with room adopts a new child without leaving its slots.        *)
LEMMA AdoptType ==
  ASSUME NEW p \in Page, ~IsFull(p), NEW slot \in 0 .. p.count,
         NEW median \in Nat, NEW newId \in Nat
  PROVE  /\ Adopt(p, slot, median, newId) \in Page
         /\ Adopt(p, slot, median, newId).count = p.count + 1
<1>1. /\ p.count \in Nat
      /\ p.count < 2 * T - 1
      /\ p.keys \in [KeySlots -> Nat]
      /\ p.kids \in [KidSlots -> Nat]
      /\ p.leaf \in BOOLEAN
  BY DEF Page, MaxKeys, IsFull
<1>2. slot \in KeySlots /\ slot + 1 \in KidSlots
  BY <1>1 DEF KeySlots, KidSlots
<1>3. p.count + 1 \in 0 .. MaxKeys
  BY <1>1 DEF MaxKeys
<1>4. /\ [p.keys EXCEPT ![slot] = median] \in [KeySlots -> Nat]
      /\ [p.kids EXCEPT ![slot + 1] = newId] \in [KidSlots -> Nat]
  BY <1>1
<1>5. QED
  BY <1>1, <1>3, <1>4 DEF Adopt, Page

LEMMA BlankPages ==
  /\ BlankPage \in Page /\ EmptyLeaf \in Page
  /\ BlankPage.kids \in [KidSlots -> Nat]
  /\ BlankPage.count = 0 /\ EmptyLeaf.count = 0
  /\ ~IsFull(BlankPage) /\ ~IsFull(EmptyLeaf)
  /\ NoNode \in Node
<1>1. BlankPage \in Page /\ BlankPage.count = 0 /\ BlankPage.kids \in [KidSlots -> Nat]
  BY DEF BlankPage, Page, MaxKeys
<1>2. EmptyLeaf \in Page /\ EmptyLeaf.count = 0
  BY <1>1 DEF EmptyLeaf, Page
<1>3. MaxKeys # 0
  BY DEF MaxKeys
<1>4. NoNode \in Node
  BY <1>1 DEF NoNode, Node
<1>5. QED
  BY <1>1, <1>2, <1>3, <1>4 DEF IsFull

(* The pages of the file: typed, and without a gap.                        *)
PagesOK(ps) ==
  /\ ps \in [DOMAIN ps -> Page]
  /\ DOMAIN ps \subseteq Nat
  /\ \A p \in DOMAIN ps : 0 .. p \subseteq DOMAIN ps

LEMMA WrittenType ==
  ASSUME PagesOK(pages), NEW n \in Node
  PROVE  /\ PagesOK(Written(n))
         /\ DOMAIN pages \subseteq DOMAIN Written(n)
         /\ n.id \in DOMAIN Written(n)
<1>1. n.id \in Nat /\ n.page \in Page
  BY DEF Node
<1>2. DOMAIN Written(n) = DOMAIN pages \cup 0 .. n.id
  BY DEF Written
<1>3. \A p \in DOMAIN Written(n) : Written(n)[p] \in Page
  BY <1>1, BlankPages DEF Written, PagesOK
<1>4. \A p \in DOMAIN Written(n) : 0 .. p \subseteq DOMAIN Written(n)
  BY <1>1, <1>2 DEF PagesOK
<1>5. Written(n) \in [DOMAIN Written(n) -> Page]
  BY <1>3 DEF Written
<1>6. QED
  BY <1>1, <1>2, <1>4, <1>5 DEF PagesOK
-----------------------------------------------------------------------------
(* The inductive invariant, one lemma per group of actions. *)

LEMMA InitIndInv == Init => IndInv
<1> SUFFICES ASSUME Init PROVE IndInv
  OBVIOUS
<1>1. NoHeader \in Header
  BY DEF NoHeader, Header
<1>2. /\ pages \in [DOMAIN pages -> Page]
      /\ DOMAIN pages = {}
  BY DEF Init
<1>3. TypeOK
  <2>1. <<>> \in Seq(Nat)
    OBVIOUS
  <2>2. QED
    BY <1>1, <1>2, <2>1, BlankPages DEF Init, TypeOK
<1>4. QED
  BY <1>3 DEF Init, IndInv, InsertHasRoom, StepInv, Splitting, NoHeader

(* What stopping leaves behind is typed.                                   *)
LEMMA ClosedType ==
  ASSUME IndInv, NoMemory, NoInsert, UNCHANGED <<file, history, ops, opens>>,
         torn' \in BOOLEAN, status' \in {"closed", "short_read", "out_of_bounds"}
  PROVE  IndInv'
<1>1. NoHeader \in Header
  BY DEF NoHeader, Header
<1>2. TypeOK'
  BY <1>1, BlankPages
  DEF IndInv, TypeOK, NoMemory, NoInsert, file
<1>3. QED
  BY <1>2 DEF IndInv, InsertHasRoom, StepInv, Splitting, NoInsert, file

LEMMA WriteEmptyTreeType ==
  ASSUME IndInv, WriteEmptyTree
  PROVE  /\ PagesOK(pages') /\ 0 \in DOMAIN pages'
         /\ header' \in Header /\ diskHeader' = header'
         /\ root' \in Node
<1>1. PagesOK(pages)
  BY DEF IndInv, TypeOK, PagesOK
<1>2. DOMAIN pages' = DOMAIN pages \cup {0}
  BY DEF WriteEmptyTree
<1>3. \A p \in DOMAIN pages' : pages'[p] \in Page
  BY <1>1, BlankPages DEF WriteEmptyTree, PagesOK
<1>4. PagesOK(pages')
  <2>1. pages' \in [DOMAIN pages' -> Page]
    BY <1>3 DEF WriteEmptyTree
  <2>2. \A p \in DOMAIN pages' : 0 .. p \subseteq DOMAIN pages'
    BY <1>1, <1>2 DEF PagesOK
  <2>3. QED
    BY <1>1, <1>2, <2>1, <2>2 DEF PagesOK
<1>5. QED
  BY <1>2, <1>4, BlankPages DEF WriteEmptyTree, Header, Node

LEMMA LifeInv ==
  ASSUME IndInv, Create \/ Reload \/ Stop \/ Reset
  PROVE  IndInv'
<1>1. CASE Create
  <2>1. TypeOK'
    BY <1>1, WriteEmptyTreeType DEF IndInv, TypeOK, PagesOK, Create, insert
  <2>2. QED
    BY <1>1, <2>1, WriteEmptyTreeType
    DEF IndInv, InsertHasRoom, StepInv, Splitting, Create, insert
<1>2. CASE Reload
  <2>1. 0 \in DOMAIN pages
    BY <1>2 DEF IndInv, TypeOK, Reload
  <2>2. TypeOK'
    BY <1>2, <2>1 DEF IndInv, TypeOK, Reload, insert, file, Node
  <2>3. QED
    BY <1>2, <2>1, <2>2
    DEF IndInv, InsertHasRoom, StepInv, Splitting, Reload, insert, file
<1>3. CASE Stop
  BY <1>3, ClosedType DEF Stop, IndInv, TypeOK
<1>4. CASE Reset
  <2>1. TypeOK'
    BY <1>4, WriteEmptyTreeType DEF IndInv, TypeOK, PagesOK, Reset, insert
  <2>2. QED
    BY <1>4, <2>1, WriteEmptyTreeType
    DEF IndInv, InsertHasRoom, StepInv, Splitting, Reset, insert
<1>5. QED
  BY <1>1, <1>2, <1>3, <1>4

LEMMA BeginInv ==
  ASSUME IndInv, NEW k \in Keys, BeginInsert(k) \/ BeginInsertFullRoot(k)
  PROVE  IndInv'
<1>1. k \in Nat
  OBVIOUS
<1>2. CASE BeginInsert(k)
  <2>1. TypeOK'
    BY <1>1, <1>2 DEF IndInv, TypeOK, BeginInsert, Starts, file, memory
  <2>2. QED
    BY <1>2, <2>1
    DEF IndInv, InsertHasRoom, StepInv, Splitting, BeginInsert, Starts, file, memory
<1>3. CASE BeginInsertFullRoot(k)
  <2> DEFINE newRoot == [BlankPage EXCEPT !.kids = [@ EXCEPT ![0] = lastId + 1]]
             top == Adopt(newRoot, 0, root.page.keys[T - 1], lastId + 2)
  <2>1. root.page \in Page /\ lastId \in Nat /\ header \in Header
    BY DEF IndInv, TypeOK, Node
  <2>2. newRoot \in Page /\ newRoot.count = 0
    <3>1. [BlankPage.kids EXCEPT ![0] = lastId + 1] \in [KidSlots -> Nat]
      <4>1. BlankPage.kids \in [KidSlots -> Nat] /\ lastId + 1 \in Nat
        BY <2>1, BlankPages
      <4>2. QED
        BY <4>1
    <3>2. QED
      BY <3>1, BlankPages DEF Page
  <2>3. ~IsFull(newRoot)
    BY <2>2 DEF IsFull, MaxKeys
  <2>4. top \in Page /\ top.count = 1
    <3>1. 0 \in 0 .. newRoot.count /\ lastId + 2 \in Nat
      BY <2>1, <2>2
    <3>2. root.page.keys[T - 1] \in Nat
      BY <2>1, HalvesType
    <3>3. top \in Page /\ top.count = newRoot.count + 1
      BY <2>2, <2>3, <3>1, <3>2, AdoptType
    <3>4. QED
      BY <2>2, <3>3
  <2>5. ~IsFull(top)
    BY <2>4 DEF IsFull, MaxKeys
  <2>6. /\ child' = [id |-> lastId + 1, page |-> LeftHalf(root.page)]
        /\ sibling' = [id |-> lastId + 2, page |-> RightHalf(root.page)]
        /\ root' = [id |-> 0, page |-> top]
        /\ cur' = [id |-> 0, page |-> top]
    BY <1>3 DEF BeginInsertFullRoot
  <2>7. header' \in Header /\ header'.kv = header.kv
    <3>1. header' = [header EXCEPT !.nodes = header.nodes + 2,
                                   !.height = header.height + 1]
      BY <1>3 DEF BeginInsertFullRoot
    <3>2. header.nodes + 2 \in Nat /\ header.height + 1 \in Nat
      BY <2>1 DEF Header
    <3>3. QED
      BY <2>1, <3>1, <3>2 DEF Header
  <2>8. child' \in Node /\ sibling' \in Node /\ root' \in Node /\ cur' \in Node
    BY <2>1, <2>4, <2>6, HalvesType DEF Node
  <2>9. TypeOK'
    BY <1>1, <1>3, <2>1, <2>7, <2>8
    DEF IndInv, TypeOK, BeginInsertFullRoot, Starts, file
  <2>10. QED
    BY <1>3, <2>5, <2>6, <2>7, <2>9
    DEF IndInv, InsertHasRoom, StepInv, Splitting, BeginInsertFullRoot, Starts, file
<1>4. QED
  BY <1>2, <1>3

LEMMA SlotInPage ==
  ASSUME IndInv, AtInnerNode
  PROVE  /\ cur.page \in Page /\ ~IsFull(cur.page)
         /\ Slot \in 0 .. cur.page.count
         /\ KidId \in Nat
<1>1. cur.page \in Page /\ key \in Nat /\ ~IsFull(cur.page)
  BY DEF IndInv, TypeOK, InsertHasRoom, AtInnerNode, Node
<1>2. Slot \in 0 .. cur.page.count
  BY <1>1, InsertSlotRange DEF Slot
<1>3. Slot \in KidSlots
  BY <1>1, <1>2 DEF Page, MaxKeys, KidSlots
<1>4. QED
  BY <1>1, <1>2, <1>3 DEF Page, KidId

LEMMA DescendInv ==
  ASSUME IndInv,
         Descend \/ DescendShortRead \/ DescendOutOfBounds \/ DescendFullChild
  PROVE  IndInv'
<1>1. CASE Descend
  <2>1. cur' \in Node /\ ~IsFull(cur'.page)
    BY <1>1, SlotInPage DEF Descend, IndInv, TypeOK, Node
  <2>2. TypeOK'
    BY <1>1, <2>1 DEF IndInv, TypeOK, Descend, file, memory, ghosts
  <2>3. QED
    BY <1>1, <2>1, <2>2
    DEF IndInv, InsertHasRoom, StepInv, Splitting, Descend, AtInnerNode, file,
        memory, ghosts
<1>2. CASE DescendShortRead \/ DescendOutOfBounds
  BY <1>2, ClosedType DEF DescendShortRead, DescendOutOfBounds, Trap
<1>3. CASE DescendFullChild
  <2> DEFINE full == pages[KidId]
             above == Adopt(cur.page, Slot, full.keys[T - 1], lastId + 1)
  <2>1. AtInnerNode /\ KidId \in DOMAIN pages
    BY <1>3 DEF DescendFullChild
  <2>2. full \in Page /\ lastId \in Nat /\ header \in Header
    BY <2>1 DEF IndInv, TypeOK
  <2>3. full.keys[T - 1] \in Nat
    BY <2>2, HalvesType
  <2>4. above \in Page
    BY <2>1, <2>2, <2>3, SlotInPage, AdoptType
  <2>5. /\ child' = [id |-> KidId, page |-> LeftHalf(full)]
        /\ sibling' = [id |-> lastId + 1, page |-> RightHalf(full)]
        /\ cur' = [cur EXCEPT !.page = above]
        /\ root' = IF atRoot THEN cur' ELSE root
        /\ header' = [header EXCEPT !.nodes = header.nodes + 1]
    BY <1>3 DEF DescendFullChild
  <2>6. child' \in Node /\ sibling' \in Node /\ ~IsFull(child'.page)
    BY <2>1, <2>2, <2>5, SlotInPage, HalvesType DEF Node
  <2>7. cur' \in Node /\ root' \in Node
    BY <2>4, <2>5 DEF IndInv, TypeOK, Node
  <2>8. header' \in Header /\ header'.kv = header.kv
    BY <2>2, <2>5 DEF Header
  <2>9. TypeOK'
    BY <1>3, <2>2, <2>6, <2>7, <2>8
    DEF IndInv, TypeOK, DescendFullChild, file, ghosts
  <2>10. QED
    BY <1>3, <2>1, <2>6, <2>8, <2>9
    DEF IndInv, InsertHasRoom, StepInv, Splitting, DescendFullChild, AtInnerNode,
        file, ghosts
<1>4. QED
  BY <1>1, <1>2, <1>3

(* Every page write keeps the file typed and leaves the headers alone.     *)
LEMMA WriteInv ==
  ASSUME IndInv, WriteParent \/ WriteChild \/ WriteSibling \/ WriteLeaf
  PROVE  IndInv'
<1>1. PagesOK(pages) /\ 0 \in DOMAIN pages
  BY DEF IndInv, TypeOK, PagesOK, StepInv, WriteParent, WriteChild,
         WriteSibling, WriteLeaf
<1>2. ASSUME NEW n \in Node, pages' = Written(n)
      PROVE  PagesOK(pages') /\ 0 \in DOMAIN pages'
  BY <1>1, <1>2, WrittenType
<1>3. CASE WriteParent
  <2>1. PagesOK(pages') /\ 0 \in DOMAIN pages'
    BY <1>2, <1>3 DEF WriteParent, IndInv, TypeOK
  <2>2. TypeOK'
    BY <1>3, <2>1 DEF IndInv, TypeOK, PagesOK, WriteParent, memory, ghosts
  <2>3. QED
    BY <1>3, <2>1, <2>2
    DEF IndInv, InsertHasRoom, StepInv, Splitting, WriteParent, memory, ghosts
<1>4. CASE WriteChild
  <2>1. PagesOK(pages') /\ 0 \in DOMAIN pages'
    BY <1>2, <1>4 DEF WriteChild, IndInv, TypeOK
  <2>2. TypeOK'
    BY <1>4, <2>1 DEF IndInv, TypeOK, PagesOK, WriteChild, memory, ghosts
  <2>3. QED
    BY <1>4, <2>1, <2>2
    DEF IndInv, InsertHasRoom, StepInv, Splitting, WriteChild, memory, ghosts
<1>5. CASE WriteSibling
  <2>1. PagesOK(pages') /\ 0 \in DOMAIN pages'
    BY <1>2, <1>5 DEF WriteSibling, IndInv, TypeOK
  <2>2. TypeOK'
    BY <1>5, <2>1, BlankPages
    DEF IndInv, TypeOK, PagesOK, WriteSibling, memory, ghosts
  <2>3. ~IsFull(cur'.page)
    BY <1>5 DEF IndInv, TypeOK, StepInv, Splitting, WriteSibling
  <2>4. QED
    BY <1>5, <2>1, <2>2, <2>3
    DEF IndInv, InsertHasRoom, StepInv, Splitting, WriteSibling, memory, ghosts
<1>6. CASE WriteLeaf
  <2> DEFINE leaf == [cur EXCEPT !.page = InsertKey(cur.page, key)]
  <2>1. cur \in Node /\ key \in Nat /\ ~IsFull(cur.page)
    BY <1>6 DEF WriteLeaf, IndInv, TypeOK, InsertHasRoom
  <2>2. leaf \in Node
    BY <2>1, InsertKeyType DEF Node
  <2>3. /\ cur' = leaf
        /\ root' = IF atRoot THEN leaf ELSE root
        /\ pages' = Written(leaf)
    BY <1>6 DEF WriteLeaf
  <2>4. PagesOK(pages') /\ 0 \in DOMAIN pages'
    BY <1>2, <2>2, <2>3
  <2>5. TypeOK'
    BY <1>6, <2>2, <2>3, <2>4 DEF IndInv, TypeOK, PagesOK, WriteLeaf, ghosts
  <2>6. QED
    BY <1>6, <2>4, <2>5
    DEF IndInv, InsertHasRoom, StepInv, Splitting, WriteLeaf, ghosts
<1>7. QED
  BY <1>3, <1>4, <1>5, <1>6

LEMMA WriteHeaderInv == IndInv /\ WriteHeader => IndInv'
<1> SUFFICES ASSUME IndInv, WriteHeader
             PROVE  IndInv'
  OBVIOUS
<1>1. header' \in Header /\ diskHeader' = header'
  <2>1. header \in Header
    BY DEF IndInv, TypeOK
  <2>2. header' = [header EXCEPT !.kv = header.kv + 1] /\ diskHeader' = header'
    BY DEF WriteHeader
  <2>3. QED
    BY <2>1, <2>2 DEF Header
<1>2. history' \in Seq(Nat)
  BY DEF IndInv, TypeOK, WriteHeader
<1>3. TypeOK'
  BY <1>1, <1>2, BlankPages DEF IndInv, TypeOK, WriteHeader, NoInsert
<1>4. QED
  BY <1>1, <1>3
  DEF IndInv, InsertHasRoom, StepInv, Splitting, WriteHeader, NoInsert

LEMMA NextInv == IndInv /\ [Next]_vars => IndInv'
<1> SUFFICES ASSUME IndInv, [Next]_vars
             PROVE  IndInv'
  OBVIOUS
<1>1. CASE UNCHANGED vars
  BY <1>1 DEF vars, file, memory, insert, ghosts, IndInv, TypeOK, InsertHasRoom,
              StepInv, Splitting
<1>2. CASE InsertStep
  BY <1>2, DescendInv, WriteInv, WriteHeaderInv DEF InsertStep
<1>3. CASE Next /\ ~InsertStep
  BY <1>3, LifeInv, BeginInv DEF Next
<1>4. QED
  BY <1>1, <1>2, <1>3

(* Every reachable state is typed: pages keep at most 2T-1 keys, every      *)
(* child id a split stores fits its page, and the file has no gap.          *)
THEOREM SpecTypeOK == Spec => []TypeOK
<1>1. Spec => []IndInv
  BY InitIndInv, NextInv, PTL DEF Spec
<1>2. IndInv => TypeOK
  BY DEF IndInv
<1>3. QED
  BY <1>1, <1>2, PTL

(* insert_non_full never meets a full node, for every order of the tree and *)
(* whatever keys were inserted, resets made and restarts suffered.          *)
THEOREM SpecInsertHasRoom == Spec => []InsertHasRoom
<1>1. Spec => []IndInv
  BY InitIndInv, NextInv, PTL DEF Spec
<1>2. IndInv => InsertHasRoom
  BY DEF IndInv
<1>3. QED
  BY <1>1, <1>2, PTL

-----------------------------------------------------------------------------
(* Refinement: for its table the index is a persistent counter. *)

LEMMA InitCounter == Init => Counter!Init
BY DEF Init, Counter!Init, NoHeader

(* The steps that keep the process and its row count.                      *)
LEMMA StepCounter ==
  ASSUME IndInv, InsertStep
  PROVE  [Counter!Next]_(Counter!vars)
<1>1. CASE DescendShortRead \/ DescendOutOfBounds
  <2>1. status = "open" /\ status' # "open" /\ UNCHANGED diskHeader
    BY <1>1 DEF DescendShortRead, DescendOutOfBounds, AtInnerNode, Trap, file
  <2>2. header.kv = diskHeader.kv
    BY <2>1 DEF IndInv, StepInv
  <2>3. QED
    BY <2>1, <2>2 DEF Counter!Next, Counter!Close
<1>2. CASE WriteHeader
  <2>1. /\ status = "open" /\ status' = status
        /\ header' = [header EXCEPT !.kv = header.kv + 1]
    BY <1>2 DEF WriteHeader
  <2>2. header'.kv = header.kv + 1
    BY <2>1 DEF IndInv, TypeOK, Header
  <2>3. QED
    BY <2>1, <2>2 DEF Counter!Next, Counter!Add
<1>3. CASE Descend \/ DescendFullChild \/ WriteParent \/ WriteChild
             \/ WriteSibling \/ WriteLeaf
  <2>1. status' = status /\ diskHeader' = diskHeader /\ header'.kv = header.kv
    BY <1>3 DEF IndInv, TypeOK, Header, Descend, DescendFullChild, WriteParent,
                WriteChild, WriteSibling, WriteLeaf, file, memory
  <2>2. QED
    BY <2>1 DEF Counter!vars
<1>4. QED
  BY <1>1, <1>2, <1>3 DEF InsertStep

LEMMA LifeCounter ==
  ASSUME IndInv, Create \/ Reload \/ Stop \/ Reset
  PROVE  [Counter!Next]_(Counter!vars)
<1>1. CASE Create
  <2>1. /\ status # "open" /\ status' = "open"
        /\ diskHeader.kv = 0 /\ header'.kv = 0
    BY <1>1 DEF Create, WriteEmptyTree, IndInv, StepInv
  <2>2. QED
    BY <2>1 DEF Counter!Next, Counter!Open
<1>2. CASE Reload
  BY <1>2 DEF Reload, file, Counter!Next, Counter!Open
<1>3. CASE Stop
  <2>1. status = "open" /\ status' # "open" /\ UNCHANGED diskHeader
    BY <1>3 DEF Stop, file
  <2>2. header.kv = diskHeader.kv
    BY <2>1 DEF IndInv, StepInv
  <2>3. QED
    BY <2>1, <2>2 DEF Counter!Next, Counter!Close
<1>4. CASE Reset
  <2>1. status = "open" /\ status' = status /\ header'.kv = 0
    BY <1>4 DEF Reset, WriteEmptyTree
  <2>2. QED
    BY <2>1 DEF Counter!Next, Counter!Clear
<1>5. QED
  BY <1>1, <1>2, <1>3, <1>4

LEMMA BeginCounter ==
  ASSUME IndInv, NEW k \in Keys, BeginInsert(k) \/ BeginInsertFullRoot(k)
  PROVE  [Counter!Next]_(Counter!vars)
<1>1. header \in Header
  BY DEF IndInv, TypeOK
<1>2. status' = status /\ diskHeader' = diskHeader /\ header'.kv = header.kv
  <2>1. CASE BeginInsert(k)
    BY <2>1 DEF BeginInsert, file, memory
  <2>2. CASE BeginInsertFullRoot(k)
    <3>1. /\ status' = status /\ diskHeader' = diskHeader
          /\ header' = [header EXCEPT !.nodes = header.nodes + 2,
                                      !.height = header.height + 1]
      BY <2>2 DEF BeginInsertFullRoot, file
    <3>2. QED
      BY <1>1, <3>1 DEF Header
  <2>3. QED
    BY <2>1, <2>2
<1>3. QED
  BY <1>2 DEF Counter!vars

(* The index implements PersistentCounter: a stop between any two writes    *)
(* of an insert changes neither the row count that was answered before nor  *)
(* the one answered after the next start, and only a finished insert or a   *)
(* reset does.                                                              *)
THEOREM SpecImplementsCounter == Spec => CounterSpec
<1>1. Spec => []IndInv
  BY InitIndInv, NextInv, PTL DEF Spec
<1>2. IndInv /\ [Next]_vars => [Counter!Next]_(Counter!vars)
  <2> SUFFICES ASSUME IndInv, [Next]_vars
               PROVE  [Counter!Next]_(Counter!vars)
    OBVIOUS
  <2>1. CASE UNCHANGED vars
    BY <2>1 DEF vars, file, memory, Counter!vars
  <2>2. CASE Next
    BY <2>2, StepCounter, LifeCounter, BeginCounter DEF Next
  <2>3. QED
    BY <2>1, <2>2
<1>3. QED
  BY <1>1, <1>2, InitCounter, PTL DEF Spec, CounterSpec, Counter!Spec
-----------------------------------------------------------------------------
(* Lookups, as long as the tree is a leaf or a root above two leaves.      *)

Sorted(p) == \A r, s \in KeySlots : r < s /\ s < p.count => p.keys[r] <= p.keys[s]
HoldsKey(p, k) == \E s \in KeySlots : s < p.count /\ p.keys[s] = k
KeysUpTo(p, m) == \A s \in KeySlots : s < p.count => p.keys[s] <= m
KeysFrom(p, m) == \A s \in KeySlots : s < p.count => m <= p.keys[s]

(* q is the sorted page p with the key k.                                  *)
Joined(p, k, q) ==
  /\ q \in Page /\ q.leaf = p.leaf /\ Sorted(q) /\ HoldsKey(q, k)
  /\ \A v : HoldsKey(p, v) => HoldsKey(q, v)
  /\ \A s \in KeySlots : s < q.count => q.keys[s] = k \/ HoldsKey(p, q.keys[s])

LEMMA InsertJoins ==
  ASSUME NEW p \in Page, NEW k \in Nat, ~IsFull(p), Sorted(p)
  PROVE  Joined(p, k, InsertKey(p, k))
<1> DEFINE i == InsertSlot(p, k)
           n == p.count
           ks == [s \in KeySlots |->
                    IF s = i THEN k
                    ELSE IF s > i /\ s <= n THEN p.keys[s - 1]
                    ELSE p.keys[s]]
<1>1. n \in Nat /\ n < 2 * T - 1 /\ p.keys \in [KeySlots -> Nat]
  BY DEF Page, MaxKeys, IsFull
<1>2. i \in 0 .. n
  BY InsertSlotRange
<1>3. /\ \A j \in i .. (n - 1) : k < p.keys[j]
      /\ i > 0 => p.keys[i - 1] <= k
  <2>1. /\ \A l \in i .. (n - 1) : k < p.keys[l]
        /\ i > 0 => k >= p.keys[i - 1]
    BY InsertSlotIs
  <2>2. i > 0 => p.keys[i - 1] \in Nat
    BY <1>1, <1>2 DEF KeySlots
  <2>3. QED
    BY <1>1, <2>1, <2>2
<1>4. ASSUME NEW s \in KeySlots, s < n
      PROVE  p.keys[s] \in Nat /\ (s < i => p.keys[s] <= k) /\ (s >= i => k <= p.keys[s])
  <2>1. p.keys[s] \in Nat /\ s \in Nat
    BY <1>1 DEF KeySlots
  <2>2. CASE s < i
    <3>1. i - 1 \in KeySlots /\ i - 1 < n /\ i > 0 /\ p.keys[i - 1] \in Nat
      <4>1. i \in Nat /\ i <= n /\ i > 0
        BY <1>1, <1>2, <2>1, <2>2
      <4>2. i - 1 \in KeySlots /\ i - 1 < n
        BY <1>1, <4>1 DEF KeySlots
      <4>3. QED
        BY <1>1, <4>1, <4>2
    <3>2. p.keys[s] <= p.keys[i - 1]
      <4>1. CASE s = i - 1
        BY <2>1, <4>1
      <4>2. CASE s < i - 1
        BY <3>1, <4>2 DEF Sorted
      <4>3. QED
        BY <1>2, <2>1, <2>2, <4>1, <4>2
    <3>3. QED
      BY <1>2, <1>3, <2>1, <2>2, <3>1, <3>2
  <2>3. CASE s >= i
    BY <1>1, <1>2, <1>3, <1>4, <2>1, <2>3
  <2>4. QED
    BY <1>2, <2>1, <2>2, <2>3
<1>5. /\ InsertKey(p, k) \in Page /\ InsertKey(p, k).leaf = p.leaf
      /\ InsertKey(p, k).count = n + 1 /\ InsertKey(p, k).keys = ks
  <2>1. InsertKey(p, k) = [p EXCEPT !.count = n + 1, !.keys = ks]
    BY DEF InsertKey
  <2> HIDE DEF ks
  <2>2. QED
    BY <2>1, InsertKeyType DEF Page
<1>6. ASSUME NEW s \in KeySlots
      PROVE  /\ s < i => ks[s] = p.keys[s]
             /\ s = i => ks[s] = k
             /\ s > i /\ s <= n => ks[s] = p.keys[s - 1] /\ s - 1 \in KeySlots
  BY <1>1, <1>2 DEF KeySlots
<1>7. ks \in [KeySlots -> Nat]
  BY <1>5, InsertKeyType DEF Page
<1> HIDE DEF ks
<1> DEFINE q == InsertKey(p, k)
<1> HIDE DEF q, i
<1>8. q \in Page /\ q.leaf = p.leaf /\ q.count = n + 1 /\ q.keys = ks
  BY <1>5 DEF q
<1>9. ASSUME NEW r \in KeySlots, NEW s \in KeySlots, r < s, s < n + 1
      PROVE  ks[r] <= ks[s]
  <2>1. r \in Nat /\ s \in Nat /\ s - 1 \in KeySlots
    BY <1>9 DEF KeySlots
  <2>2. CASE s < i
    BY <1>1, <1>2, <1>6, <1>9, <2>1, <2>2 DEF Sorted
  <2>3. CASE s = i
    BY <1>1, <1>2, <1>4, <1>6, <1>9, <2>1, <2>3
  <2>4. CASE s > i /\ r < i
    <3>1. ks[r] = p.keys[r] /\ ks[s] = p.keys[s - 1] /\ s - 1 < n /\ r < n
      BY <1>1, <1>2, <1>6, <1>9, <2>1, <2>4
    <3>2. p.keys[r] <= k /\ k <= p.keys[s - 1] /\ p.keys[r] \in Nat /\ p.keys[s - 1] \in Nat
      BY <1>2, <1>4, <2>1, <2>4, <3>1
    <3>3. QED
      BY <3>1, <3>2
  <2>5. CASE s > i /\ r = i
    BY <1>1, <1>2, <1>4, <1>6, <1>9, <2>1, <2>5
  <2>6. CASE s > i /\ r > i
    <3>1. r - 1 \in KeySlots /\ r - 1 < s - 1 /\ s - 1 < n
      BY <1>1, <1>2, <1>9, <2>1, <2>6 DEF KeySlots
    <3>2. ks[r] = p.keys[r - 1] /\ ks[s] = p.keys[s - 1]
      BY <1>1, <1>2, <1>6, <1>9, <2>1, <2>6
    <3>3. QED
      BY <2>1, <3>1, <3>2 DEF Sorted
  <2>7. QED
    BY <1>2, <2>1, <2>2, <2>3, <2>4, <2>5, <2>6
<1>10. Sorted(q)
  BY <1>8, <1>9 DEF Sorted
<1>11. HoldsKey(q, k)
  <2>1. i \in KeySlots /\ i < n + 1
    BY <1>1, <1>2 DEF KeySlots
  <2>2. ks[i] = k
    BY <1>6, <2>1
  <2>3. QED
    BY <1>8, <2>1, <2>2 DEF HoldsKey
<1>12. ASSUME NEW v, HoldsKey(p, v)
       PROVE  HoldsKey(q, v)
  <2>1. PICK s \in KeySlots : s < n /\ p.keys[s] = v
    BY <1>12 DEF HoldsKey
  <2>2. CASE s < i
    BY <1>1, <1>6, <1>8, <2>1, <2>2 DEF HoldsKey, KeySlots
  <2>3. CASE s >= i
    <3>1. s + 1 \in KeySlots /\ s + 1 < n + 1 /\ s + 1 > i /\ s + 1 <= n /\ (s + 1) - 1 = s
      BY <1>1, <1>2, <2>1, <2>3 DEF KeySlots
    <3>2. ks[s + 1] = v
      BY <1>6, <2>1, <3>1
    <3>3. QED
      BY <1>8, <3>1, <3>2 DEF HoldsKey
  <2>4. QED
    BY <1>2, <2>2, <2>3 DEF KeySlots
<1>13. ASSUME NEW s \in KeySlots, s < n + 1
       PROVE  ks[s] = k \/ HoldsKey(p, ks[s])
  <2>1. CASE s < i
    BY <1>1, <1>2, <1>6, <2>1 DEF HoldsKey, KeySlots
  <2>2. CASE s = i
    BY <1>6, <2>2
  <2>3. CASE s > i
    <3>1. s <= n /\ s - 1 < n /\ s - 1 \in KeySlots
      BY <1>1, <1>2, <1>13, <2>3 DEF KeySlots
    <3>2. ks[s] = p.keys[s - 1]
      BY <1>6, <2>3, <3>1
    <3>3. QED
      BY <3>1, <3>2 DEF HoldsKey
  <2>4. QED
    BY <1>2, <2>1, <2>2, <2>3 DEF KeySlots
<1>14. Joined(p, k, q)
  BY <1>8, <1>10, <1>11, <1>12, <1>13 DEF Joined
<1>15. QED
  BY <1>14 DEF q

(* node_search finds a key that a sorted page has.                         *)
LEMMA SearchSlotIs ==
  ASSUME NEW p \in Page, NEW k \in Nat
  PROVE  /\ SearchSlot(p, k) \in 0 .. p.count
         /\ \A j \in 0 .. (SearchSlot(p, k) - 1) : p.keys[j] < k
         /\ SearchSlot(p, k) < p.count => p.keys[SearchSlot(p, k)] >= k
<1> DEFINE Q(i) == /\ \A j \in 0 .. (i - 1) : p.keys[j] < k
                   /\ i < p.count => p.keys[i] >= k
           S == {i \in 0 .. p.count : i < p.count => p.keys[i] >= k}
<1>1. p.count \in Nat /\ p.count <= 2 * T - 1 /\ p.keys \in [KeySlots -> Nat]
  BY DEF Page, MaxKeys
<1>2. p.count \in S /\ S \in SUBSET Nat
  BY <1>1
<1>3. PICK m \in S : \A n \in S : m <= n
  BY <1>2, LeastElement
<1>4. ASSUME NEW j \in 0 .. (m - 1)
      PROVE  p.keys[j] < k
  <2>1. m \in Nat /\ m <= p.count /\ j \in KeySlots /\ j \in 0 .. p.count /\ ~(m <= j) /\ j < p.count
    BY <1>1, <1>3 DEF KeySlots
  <2>2. ~(p.keys[j] >= k)
    BY <1>3, <2>1
  <2>3. p.keys[j] \in Nat
    BY <1>1, <2>1
  <2>4. QED
    BY <2>2, <2>3
<1>5. \E i \in 0 .. p.count : Q(i)
  BY <1>3, <1>4
<1>6. QED
  BY <1>5 DEF SearchSlot

Finds(p, k) == SearchSlot(p, k) < p.count /\ p.keys[SearchSlot(p, k)] = k

LEMMA FoundIfHeld ==
  ASSUME NEW p \in Page, NEW k \in Nat, Sorted(p), HoldsKey(p, k)
  PROVE  Finds(p, k)
<1> DEFINE i == SearchSlot(p, k)
<1>1. /\ i \in 0 .. p.count
      /\ \A j \in 0 .. (i - 1) : p.keys[j] < k
      /\ i < p.count => p.keys[i] >= k
  BY SearchSlotIs
<1> HIDE DEF i
<1>2. p.count \in Nat /\ p.count <= 2 * T - 1 /\ p.keys \in [KeySlots -> Nat]
  BY DEF Page, MaxKeys
<1>3. PICK s \in KeySlots : s < p.count /\ p.keys[s] = k
  BY DEF HoldsKey
<1>4. s \in Nat /\ i \in Nat
  BY <1>1, <1>2 DEF KeySlots
<1>5. i <= s
  <2>1. ASSUME s < i
        PROVE  FALSE
    <3>1. s \in 0 .. (i - 1)
      BY <1>4, <2>1
    <3>2. k < k
      BY <1>1, <1>3, <3>1
    <3>3. QED
      BY <3>2
  <2>2. QED
    BY <1>4, <2>1
<1>6. i < p.count /\ i \in KeySlots /\ p.keys[i] \in Nat
  BY <1>2, <1>3, <1>4, <1>5 DEF KeySlots
<1>7. p.keys[i] <= k
  BY <1>3, <1>4, <1>5, <1>6 DEF Sorted
<1>8. p.keys[i] = k
  BY <1>1, <1>6, <1>7
<1>9. QED
  BY <1>6, <1>8 DEF Finds, i

(* The page a search goes to from page 0, or -1.                           *)
Second(k) ==
  IF pages[0].leaf \/ Finds(pages[0], k) THEN -1 ELSE pages[0].kids[SearchSlot(pages[0], k)]

LEMMA SearchPathIs ==
  ASSUME NEW k, IsFiniteSet(DOMAIN pages), DOMAIN pages \in SUBSET Nat, 0 \in DOMAIN pages,
         root.page = pages[0], Second(k) \in DOMAIN pages => pages[Second(k)].leaf
  PROVE  /\ DOMAIN SearchPath(k) = 0 .. Cardinality(DOMAIN pages)
         /\ Cardinality(DOMAIN pages) \in Nat /\ Cardinality(DOMAIN pages) >= 1
         /\ SearchPath(k)[0] = 0 /\ SearchPath(k)[1] = Second(k)
<1> DEFINE D == 0 .. Cardinality(DOMAIN pages)
           F(f) == [d \in D |->
                      IF d = 0 THEN 0
                      ELSE IF f[d - 1] \notin DOMAIN pages THEN -1
                      ELSE IF \/ NodeAt(d - 1, f[d - 1]).leaf
                              \/ Finds(NodeAt(d - 1, f[d - 1]), k) THEN -1
                           ELSE NodeAt(d - 1, f[d - 1]).kids[SearchSlot(NodeAt(d - 1, f[d - 1]), k)]]
           g == [d \in D |-> IF d = 0 THEN 0 ELSE IF d = 1 THEN Second(k) ELSE -1]
<1>1. Cardinality(DOMAIN pages) \in Nat /\ Cardinality(DOMAIN pages) >= 1
  <2>1. Cardinality(DOMAIN pages) \in Nat
    BY FS_CardinalityType
  <2>2. Cardinality(DOMAIN pages) # 0
    BY FS_EmptySet
  <2>3. QED
    BY <2>1, <2>2
<1>2. 0 \in D /\ 1 \in D /\ \A d \in D : d \in Nat /\ (d # 0 => d - 1 \in D)
  BY <1>1
<1>3. D = 0 .. Cardinality(DOMAIN pages)
  OBVIOUS
<1> HIDE DEF D
<1>4. g = F(g)
  <2>1. ASSUME NEW d \in D
        PROVE  g[d] = F(g)[d]
    <3>1. CASE d = 0
      BY <3>1
    <3>2. CASE d = 1
      <4>1. g[d - 1] = 0 /\ NodeAt(d - 1, g[d - 1]) = pages[0]
        BY <1>2, <3>2 DEF NodeAt
      <4>2. F(g)[d] = IF pages[0].leaf \/ Finds(pages[0], k) THEN -1
                      ELSE pages[0].kids[SearchSlot(pages[0], k)]
        BY <3>2, <4>1
      <4>3. QED
        BY <1>2, <3>2, <4>2 DEF Second
    <3>3. CASE d # 0 /\ d # 1
      <4>1. d \in Nat /\ d - 1 \in D /\ d - 1 # 0
        BY <1>2, <3>3
      <4>2. g[d] = -1 /\ g[d - 1] = IF d - 1 = 1 THEN Second(k) ELSE -1
        BY <3>3, <4>1
      <4>3. -1 \notin DOMAIN pages /\ NodeAt(d - 1, g[d - 1]) = pages[g[d - 1]]
        BY <4>1 DEF NodeAt
      <4>4. F(g)[d] = -1
        BY <3>3, <4>2, <4>3
      <4>5. QED
        BY <4>2, <4>4
    <3>4. QED
      BY <3>1, <3>2, <3>3
  <2>2. QED
    BY <2>1
<1> HIDE DEF g
<1>5. SearchPath(k) = CHOOSE f : f = F(f)
  BY DEF SearchPath, D, Finds
<1>6. SearchPath(k) = F(SearchPath(k))
  BY <1>4, <1>5
<1>7. PICK f : f = SearchPath(k)
  OBVIOUS
<1>8. f = F(f) /\ DOMAIN f = D
  BY <1>6, <1>7
<1>9. f[0] = 0
  BY <1>2, <1>8
<1>10. f[1] = Second(k)
  <2>1. f[1 - 1] = 0 /\ NodeAt(1 - 1, f[1 - 1]) = pages[0]
    BY <1>9 DEF NodeAt
  <2>2. F(f)[1] = IF pages[0].leaf \/ Finds(pages[0], k) THEN -1
                  ELSE pages[0].kids[SearchSlot(pages[0], k)]
    BY <1>2, <2>1
  <2>3. f[1] = F(f)[1]
    <3> HIDE DEF F
    <3>1. QED
      BY <1>8
  <2>4. QED
    BY <2>2, <2>3 DEF Second
<1>11. QED
  BY <1>1, <1>3, <1>7, <1>8, <1>9, <1>10

(* The tree t is one leaf, or a root above two, and has the keys S.        *)
OneLeaf(t, S) == t[0].leaf /\ Sorted(t[0]) /\ \A k \in S : HoldsKey(t[0], k)

TwoLeaves(t, a, b, S) ==
  /\ ~t[0].leaf /\ t[0].count = 1 /\ t[0].kids[0] = a /\ t[0].kids[1] = b
  /\ 0 \in DOMAIN t /\ a \in DOMAIN t /\ b \in DOMAIN t /\ a # 0 /\ b # 0 /\ a # b
  /\ t[a].leaf /\ Sorted(t[a]) /\ KeysUpTo(t[a], t[0].keys[0])
  /\ t[b].leaf /\ Sorted(t[b]) /\ KeysFrom(t[b], t[0].keys[0])
  /\ \A k \in S : k = t[0].keys[0] \/ HoldsKey(t[a], k) \/ HoldsKey(t[b], k)

FewPages(t, n, S) ==
  \/ n >= 4
  \/ n = 1 /\ OneLeaf(t, S)
  \/ n = 3 /\ \E a, b \in DOMAIN t : TwoLeaves(t, a, b, S)

LEMMA TwoLeavesSame ==
  ASSUME NEW t, NEW u, NEW a, NEW b, NEW S, TwoLeaves(t, a, b, S),
         0 \in DOMAIN u, a \in DOMAIN u, b \in DOMAIN u,
         u[0] = t[0], u[a] = t[a], u[b] = t[b]
  PROVE  TwoLeaves(u, a, b, S)
BY DEF TwoLeaves

LEMMA RootSlot ==
  ASSUME NEW p \in Page, NEW k \in Nat, p.count = 1
  PROVE  InsertSlot(p, k) = IF k < p.keys[0] THEN 0 ELSE 1
<1>1. 0 \in KeySlots /\ p.keys[0] \in Nat
  BY DEF KeySlots, Page
<1>2. /\ InsertSlot(p, k) \in 0 .. 1
      /\ \A j \in InsertSlot(p, k) .. 0 : k < p.keys[j]
      /\ InsertSlot(p, k) > 0 => k >= p.keys[InsertSlot(p, k) - 1]
  BY InsertSlotIs
<1>3. InsertSlot(p, k) = 0 \/ InsertSlot(p, k) = 1
  BY <1>2
<1>4. CASE InsertSlot(p, k) = 0
  BY <1>1, <1>2, <1>4
<1>5. CASE InsertSlot(p, k) = 1
  BY <1>1, <1>2, <1>5
<1>6. QED
  BY <1>3, <1>4, <1>5

(* A lookup finds every key of such a tree.                                *)
LEMMA FoundInFew ==
  ASSUME PagesOK(pages), IsFiniteSet(DOMAIN pages), 0 \in DOMAIN pages, root.page = pages[0],
         NEW n \in Nat, n <= 3, NEW S \in SUBSET Nat, FewPages(pages, n, S), NEW k \in S
  PROVE  contains(k)
<1>1. DOMAIN pages \in SUBSET Nat /\ \A p \in DOMAIN pages : pages[p] \in Page
  BY DEF PagesOK
<1>2. SUFFICES ASSUME Second(k) \in DOMAIN pages => pages[Second(k)].leaf,
                      \/ Finds(pages[0], k)
                      \/ Second(k) \in DOMAIN pages /\ Finds(pages[Second(k)], k)
               PROVE  contains(k)
  <2>1. CASE OneLeaf(pages, S)
    <3>1. Finds(pages[0], k)
      BY <1>1, <2>1, FoundIfHeld DEF OneLeaf
    <3>2. Second(k) \notin DOMAIN pages
      BY <1>1, <3>1 DEF Second
    <3>3. QED
      BY <1>2, <3>1, <3>2
  <2>2. CASE n = 3 /\ \E a, b \in DOMAIN pages : TwoLeaves(pages, a, b, S)
    <3>1. PICK a \in DOMAIN pages, b \in DOMAIN pages : TwoLeaves(pages, a, b, S)
      BY <2>2
    <3>2. PICK r : r = pages[0]
      OBVIOUS
    <3>3. /\ r \in Page /\ ~r.leaf /\ r.count = 1 /\ r.kids[0] = a /\ r.kids[1] = b
          /\ r.keys[0] \in Nat /\ 0 \in KeySlots
      <4>1. /\ ~r.leaf /\ r.count = 1 /\ r.kids[0] = a /\ r.kids[1] = b
        BY <3>1, <3>2 DEF TwoLeaves
      <4>2. r \in Page
        BY <1>1, <3>2
      <4>3. 0 \in KeySlots
        BY DEF KeySlots
      <4>4. r.keys[0] \in Nat
        BY <4>2, <4>3 DEF Page
      <4>5. QED
        BY <4>1, <4>2, <4>3, <4>4
    <3>4. /\ SearchSlot(r, k) \in 0 .. 1
          /\ \A j \in 0 .. (SearchSlot(r, k) - 1) : r.keys[j] < k
          /\ SearchSlot(r, k) < 1 => r.keys[SearchSlot(r, k)] >= k
      BY <3>3, SearchSlotIs
    <3>5. SearchSlot(r, k) = IF r.keys[0] < k THEN 1 ELSE 0
      <4>1. SearchSlot(r, k) = 0 \/ SearchSlot(r, k) = 1
        BY <3>4
      <4>2. CASE SearchSlot(r, k) = 0
        BY <3>3, <3>4, <4>2
      <4>3. CASE SearchSlot(r, k) = 1
        BY <3>3, <3>4, <4>3
      <4>4. QED
        BY <4>1, <4>2, <4>3
    <3>6. /\ pages[a].leaf /\ Sorted(pages[a]) /\ KeysUpTo(pages[a], r.keys[0])
          /\ pages[b].leaf /\ Sorted(pages[b]) /\ KeysFrom(pages[b], r.keys[0])
          /\ k = r.keys[0] \/ HoldsKey(pages[a], k) \/ HoldsKey(pages[b], k)
      BY <3>1, <3>2 DEF TwoLeaves
    <3>7. CASE k = r.keys[0]
      <4>1. Finds(r, k)
        BY <3>3, <3>5, <3>7 DEF Finds
      <4>2. Second(k) = -1
        BY <3>2, <4>1 DEF Second
      <4>3. QED
        BY <1>1, <1>2, <3>2, <4>1, <4>2
    <3>8. CASE k < r.keys[0]
      <4>1. Second(k) = a
        <5>1. SearchSlot(r, k) = 0
          BY <3>3, <3>5, <3>8
        <5>2. ~Finds(r, k)
          BY <3>3, <3>8, <5>1 DEF Finds
        <5>3. QED
          BY <3>2, <3>3, <5>1, <5>2 DEF Second
      <4>2. HoldsKey(pages[a], k)
        BY <1>1, <3>3, <3>6, <3>8 DEF KeysFrom, HoldsKey
      <4>3. Finds(pages[a], k)
        BY <1>1, <3>6, <4>2, FoundIfHeld
      <4>4. QED
        BY <1>2, <3>6, <4>1, <4>3
    <3>9. CASE k > r.keys[0]
      <4>1. Second(k) = b
        <5>1. SearchSlot(r, k) = 1
          BY <3>3, <3>5, <3>9
        <5>2. ~Finds(r, k)
          BY <3>3, <3>9, <5>1 DEF Finds
        <5>3. QED
          BY <3>2, <3>3, <5>1, <5>2 DEF Second
      <4>2. HoldsKey(pages[b], k)
        BY <1>1, <3>3, <3>6, <3>9 DEF KeysUpTo, HoldsKey
      <4>3. Finds(pages[b], k)
        BY <1>1, <3>6, <4>2, FoundIfHeld
      <4>4. QED
        BY <1>2, <3>6, <4>1, <4>3
    <3>10. QED
      BY <3>3, <3>7, <3>8, <3>9
  <2>3. QED
    BY <2>1, <2>2 DEF FewPages
<1>3. /\ DOMAIN SearchPath(k) = 0 .. Cardinality(DOMAIN pages)
      /\ Cardinality(DOMAIN pages) \in Nat /\ Cardinality(DOMAIN pages) >= 1
      /\ SearchPath(k)[0] = 0 /\ SearchPath(k)[1] = Second(k)
  BY <1>1, <1>2, SearchPathIs
<1>4. 0 \in DOMAIN SearchPath(k) /\ 1 \in DOMAIN SearchPath(k)
  BY <1>3
<1>5. \E d \in DOMAIN SearchPath(k) :
        SearchPath(k)[d] \in DOMAIN pages /\ Finds(NodeAt(d, SearchPath(k)[d]), k)
  <2>1. NodeAt(0, 0) = pages[0] /\ NodeAt(1, Second(k)) = pages[Second(k)]
    BY DEF NodeAt
  <2>2. QED
    BY <1>2, <1>3, <1>4, <2>1
<1>6. QED
  BY <1>5 DEF contains, Finds

(* A full leaf is split into two below a new root.                         *)
LEMMA LeafSplits ==
  ASSUME NEW p \in Page, p.leaf, IsFull(p), Sorted(p),
         NEW S, \A k \in S : HoldsKey(p, k),
         NEW r, NEW t, NEW a \in Nat \ {0}, NEW b \in Nat \ {0}, a # b,
         ~r.leaf, r.count = 1, r.keys[0] = p.keys[T - 1], r.kids[0] = a, r.kids[1] = b,
         0 \in DOMAIN t, a \in DOMAIN t, b \in DOMAIN t,
         t[0] = r, t[a] = LeftHalf(p), t[b] = RightHalf(p)
  PROVE  TwoLeaves(t, a, b, S)
<1> DEFINE m == p.keys[T - 1]
<1>1. p.count = 2 * T - 1 /\ p.keys \in [KeySlots -> Nat] /\ T - 1 \in KeySlots
  BY DEF Page, MaxKeys, IsFull, KeySlots
<1>2. ASSUME NEW s \in KeySlots
      PROVE  /\ s < T - 1 => p.keys[s] <= m
             /\ s > T - 1 => m <= p.keys[s]
  <2>1. s \in Nat /\ s < p.count /\ T - 1 < p.count
    BY <1>1 DEF KeySlots
  <2>2. s < T - 1 => p.keys[s] <= p.keys[T - 1]
    BY <1>1, <2>1 DEF Sorted
  <2>3. s > T - 1 => p.keys[T - 1] <= p.keys[s]
    BY <1>1, <2>1 DEF Sorted
  <2>4. QED
    BY <2>2, <2>3
<1>3. LeftHalf(p).leaf /\ LeftHalf(p).count = T - 1 /\ LeftHalf(p).keys = p.keys
  BY DEF LeftHalf, Page
<1>4. /\ RightHalf(p).leaf /\ RightHalf(p).count = T - 1
      /\ RightHalf(p).keys = [s \in KeySlots |-> IF s < T - 1 THEN p.keys[T + s] ELSE 0]
  BY DEF RightHalf
<1>5. ASSUME NEW s \in KeySlots, s < T - 1
      PROVE  RightHalf(p).keys[s] = p.keys[T + s] /\ T + s \in KeySlots
  BY <1>4, <1>5 DEF KeySlots
<1> HIDE DEF m
<1>6. Sorted(LeftHalf(p)) /\ KeysUpTo(LeftHalf(p), m)
  <2>1. KeysUpTo(LeftHalf(p), m)
    BY <1>2, <1>3 DEF KeysUpTo
  <2>2. Sorted(LeftHalf(p))
    BY <1>1, <1>3 DEF Sorted, KeySlots
  <2>3. QED
    BY <2>1, <2>2
<1>7. Sorted(RightHalf(p)) /\ KeysFrom(RightHalf(p), m)
  <2>1. ASSUME NEW s \in KeySlots, s < T - 1
        PROVE  m <= RightHalf(p).keys[s]
    <3>1. T + s > T - 1 /\ T + s \in KeySlots
      BY <1>5, <2>1 DEF KeySlots
    <3>2. QED
      BY <1>2, <1>5, <2>1, <3>1
  <2>2. ASSUME NEW q \in KeySlots, NEW s \in KeySlots, q < s, s < T - 1
        PROVE  RightHalf(p).keys[q] <= RightHalf(p).keys[s]
    <3>1. /\ q < T - 1 /\ T + q < T + s /\ T + s < p.count
          /\ T + q \in KeySlots /\ T + s \in KeySlots
      BY <1>1, <2>2 DEF KeySlots
    <3>2. p.keys[T + q] <= p.keys[T + s]
      BY <3>1 DEF Sorted
    <3>3. RightHalf(p).keys[q] = p.keys[T + q] /\ RightHalf(p).keys[s] = p.keys[T + s]
      BY <1>5, <2>2, <3>1
    <3>4. QED
      BY <3>2, <3>3
  <2>3. QED
    BY <1>4, <2>1, <2>2 DEF KeysFrom, Sorted
<1>8. ASSUME NEW k \in S
      PROVE  k = m \/ HoldsKey(LeftHalf(p), k) \/ HoldsKey(RightHalf(p), k)
  <2>1. PICK s \in KeySlots : p.keys[s] = k
    BY DEF HoldsKey
  <2>2. CASE s < T - 1
    BY <1>3, <2>1, <2>2 DEF HoldsKey
  <2>3. CASE s = T - 1
    BY <2>1, <2>3 DEF m
  <2>4. CASE s > T - 1
    <3>1. s - T \in KeySlots /\ s - T < T - 1 /\ T + (s - T) = s
      BY <2>4 DEF KeySlots
    <3>2. RightHalf(p).keys[s - T] = k
      BY <1>5, <2>1, <3>1
    <3>3. QED
      BY <1>4, <3>1, <3>2 DEF HoldsKey
  <2>5. QED
    BY <2>2, <2>3, <2>4 DEF KeySlots
<1>9. QED
  BY <1>3, <1>4, <1>6, <1>7, <1>8 DEF TwoLeaves, m

(* A key joins the leaf it belongs to.                                     *)
LEMMA JoinsOneLeaf ==
  ASSUME NEW t, NEW u, NEW S, NEW k \in Nat, t[0] \in Page, OneLeaf(t, S), ~IsFull(t[0]),
         u[0] = InsertKey(t[0], k)
  PROVE  OneLeaf(u, S \cup {k})
<1>1. Joined(t[0], k, u[0])
  BY InsertJoins DEF OneLeaf
<1>2. QED
  BY <1>1 DEF Joined, OneLeaf

LEMMA JoinsTwoLeaves ==
  ASSUME NEW t, NEW u, NEW a, NEW b, NEW S, NEW k \in Nat, TwoLeaves(t, a, b, S),
         NEW c, c = IF k < t[0].keys[0] THEN a ELSE b,
         t[0] \in Page, t[c] \in Page, ~IsFull(t[c]),
         DOMAIN u = DOMAIN t, u[c] = InsertKey(t[c], k), \A x \in DOMAIN t \ {c} : u[x] = t[x]
  PROVE  TwoLeaves(u, a, b, S \cup {k})
<1> DEFINE m == t[0].keys[0]
<1>1. c # 0 /\ c \in DOMAIN t /\ t[c].leaf /\ Sorted(t[c]) /\ u[0] = t[0]
  BY DEF TwoLeaves
<1>2. Joined(t[c], k, u[c])
  BY <1>1, InsertJoins
<1>3. u[c].leaf /\ Sorted(u[c]) /\ HoldsKey(u[c], k) /\ \A v : HoldsKey(t[c], v) => HoldsKey(u[c], v)
  BY <1>1, <1>2 DEF Joined
<1>4. \A s \in KeySlots : s < u[c].count =>
        u[c].keys[s] = k \/ \E q \in KeySlots : q < t[c].count /\ t[c].keys[q] = u[c].keys[s]
  BY <1>2 DEF Joined, HoldsKey
<1>5. m \in Nat
  <2>1. 0 \in KeySlots
    BY DEF KeySlots
  <2>2. t[0].keys \in [KeySlots -> Nat]
    BY DEF Page
  <2>3. QED
    BY <2>1, <2>2
<1>6. CASE k < m
  <2>1. c = a /\ u[b] = t[b]
    BY <1>6 DEF TwoLeaves
  <2>2. KeysUpTo(u[a], m)
    BY <1>4, <1>5, <1>6, <2>1 DEF TwoLeaves, KeysUpTo
  <2>3. QED
    BY <1>1, <1>3, <2>1, <2>2 DEF TwoLeaves
<1>7. CASE ~(k < m)
  <2>1. c = b /\ u[a] = t[a]
    BY <1>7 DEF TwoLeaves
  <2>2. KeysFrom(u[b], m)
    BY <1>4, <1>5, <1>7, <2>1 DEF TwoLeaves, KeysFrom
  <2>3. QED
    BY <1>1, <1>3, <2>1, <2>2 DEF TwoLeaves
<1>8. QED
  BY <1>6, <1>7

(* The inductive invariant.  While the root is split its two halves wait   *)
(* in memory; an insert that goes down goes to the leaf of its key.        *)
Given == {history[i] : i \in DOMAIN history} \cup IF step = "writeHeader" THEN {key} ELSE {}

SplitPages ==
  [p \in {0, child.id, sibling.id} |->
     IF p = 0 THEN cur.page ELSE IF p = child.id THEN child.page ELSE sibling.page]

RootSplits ==
  /\ TwoLeaves(SplitPages, child.id, sibling.id, Given)
  /\ header.nodes = 3 /\ resume = "cur" /\ cur.id = 0 /\ atRoot /\ root = cur
  /\ step # "writeParent" => pages[0] = cur.page
  /\ step = "writeSibling" => child.id \in DOMAIN pages /\ pages[child.id] = child.page

GoesDown ==
  /\ cur.id \in DOMAIN pages /\ cur.page = pages[cur.id]
  /\ atRoot <=> cur.id = 0
  /\ cur.id # 0 => /\ ~pages[0].leaf
                   /\ cur.id = IF key < pages[0].keys[0] THEN pages[0].kids[0] ELSE pages[0].kids[1]

OpenInv ==
  /\ step = "idle" => header = diskHeader
  /\ ~Splitting => FewPages(pages, header.nodes, Given)
  /\ header.nodes < 4 => /\ Splitting => RootSplits
                         /\ ~Splitting => root = [id |-> 0, page |-> pages[0]]
                         /\ step = "descend" => GoesDown

FewInv ==
  /\ IsFiniteSet(DOMAIN pages)
  /\ DOMAIN pages = {} => history = <<>>
  /\ ~torn => /\ status \in {"open", "closed"}
              /\ status = "closed" /\ DOMAIN pages # {} => FewPages(pages, diskHeader.nodes, Given)
              /\ status = "open" => OpenInv

LEMMA InitFew == Init => FewInv
BY FS_EmptySet DEF Init, FewInv

LEMMA FewTypes ==
  ASSUME IndInv
  PROVE  /\ PagesOK(pages) /\ header.nodes \in Nat /\ diskHeader.nodes \in Nat
         /\ root \in Node /\ cur \in Node /\ child \in Node /\ sibling \in Node
         /\ key \in Nat /\ lastId \in Nat /\ history \in Seq(Nat) /\ Given \in SUBSET Nat
         /\ status = "open" => 0 \in DOMAIN pages
<1>1. TypeOK /\ StepInv
  BY DEF IndInv
<1>2. PagesOK(pages)
  BY <1>1 DEF TypeOK, PagesOK
<1>3. /\ header \in Header /\ diskHeader \in Header /\ history \in Seq(Nat) /\ key \in Nat
      /\ root \in Node /\ cur \in Node /\ child \in Node /\ sibling \in Node /\ lastId \in Nat
  BY <1>1 DEF TypeOK
<1>4. Given \in SUBSET Nat
  <2>1. \A i \in DOMAIN history : history[i] \in Nat
    BY <1>3
  <2>2. QED
    BY <1>3, <2>1 DEF Given
<1>5. header.nodes \in Nat /\ diskHeader.nodes \in Nat
  BY <1>3 DEF Header
<1>6. status = "open" => 0 \in DOMAIN pages
  BY <1>1 DEF StepInv
<1>7. QED
  BY <1>2, <1>3, <1>4, <1>5, <1>6

(* A write leaves the other pages of the file as they are.                 *)
LEMMA WrittenFile ==
  ASSUME PagesOK(pages), IsFiniteSet(DOMAIN pages), NEW n \in Node
  PROVE  /\ IsFiniteSet(DOMAIN Written(n))
         /\ n.id \in DOMAIN Written(n) /\ Written(n)[n.id] = n.page
         /\ \A x \in DOMAIN pages \ {n.id} : x \in DOMAIN Written(n) /\ Written(n)[x] = pages[x]
<1>1. n.id \in Nat /\ DOMAIN Written(n) = DOMAIN pages \cup 0 .. n.id
  BY DEF Node, Written
<1>2. IsFiniteSet(0 .. n.id)
  BY <1>1, FS_Interval
<1>3. IsFiniteSet(DOMAIN Written(n))
  BY <1>1, <1>2, FS_Union
<1>4. QED
  BY <1>1, <1>3 DEF Written

LEMMA EmptyTreeFew ==
  ASSUME IndInv, FewInv, WriteEmptyTree, history' = <<>>, step' = "idle"
  PROVE  /\ IsFiniteSet(DOMAIN pages') /\ DOMAIN pages' # {}
         /\ OpenInv'
<1>1. /\ DOMAIN pages' = DOMAIN pages \cup {0} /\ pages'[0] = EmptyLeaf
      /\ header' = diskHeader' /\ header'.nodes = 1
      /\ root' = [id |-> 0, page |-> EmptyLeaf]
  BY DEF WriteEmptyTree
<1>2. IsFiniteSet(DOMAIN pages')
  BY <1>1, FS_AddElement DEF FewInv
<1>3. EmptyLeaf.leaf /\ EmptyLeaf.count = 0 /\ Sorted(EmptyLeaf)
  <2>1. EmptyLeaf.leaf /\ EmptyLeaf.count = 0
    BY DEF EmptyLeaf, BlankPage
  <2>2. QED
    BY <2>1 DEF Sorted, KeySlots
<1>4. Given' = {}
  <2>1. DOMAIN <<>> = {}
    OBVIOUS
  <2>2. QED
    BY <2>1 DEF Given
<1>5. FewPages(pages', header'.nodes, Given')
  BY <1>1, <1>3, <1>4 DEF FewPages, OneLeaf
<1>6. OpenInv'
  BY <1>1, <1>5 DEF OpenInv, Splitting, WriteEmptyTree
<1>7. QED
  BY <1>1, <1>2, <1>6

LEMMA LifeFew ==
  ASSUME IndInv, FewInv, Create \/ Reload \/ Stop \/ Reset
  PROVE  FewInv'
<1>1. step \notin {"idle"} => status = "open"
  BY DEF IndInv, StepInv
<1>2. CASE Create
  <2>1. WriteEmptyTree /\ UNCHANGED <<step, history, torn>> /\ status' = "open" /\ status # "open"
        /\ DOMAIN pages = {}
    BY <1>2 DEF Create, insert
  <2>2. history' = <<>> /\ step' = "idle"
    BY <1>1, <2>1 DEF FewInv
  <2>3. QED
    BY <2>1, <2>2, EmptyTreeFew DEF FewInv
<1>3. CASE Reset
  <2>1. WriteEmptyTree /\ history' = <<>> /\ UNCHANGED <<status, step, torn>> /\ step = "idle" /\ status = "open"
    BY <1>3 DEF Reset, insert
  <2>2. QED
    BY <2>1, EmptyTreeFew DEF FewInv
<1>4. CASE Reload
  <2>1. /\ UNCHANGED <<pages, diskHeader, step, key, history, torn>> /\ status' = "open" /\ status # "open"
        /\ DOMAIN pages # {} /\ header' = diskHeader /\ root' = [id |-> 0, page |-> pages[0]]
    BY <1>4 DEF Reload, insert, file
  <2>2. step = "idle"
    BY <1>1, <2>1
  <2>3. Given' = Given
    BY <2>1 DEF Given
  <2>4. ASSUME ~torn
        PROVE  OpenInv'
    <3>1. FewPages(pages, diskHeader.nodes, Given)
      BY <2>1, <2>4 DEF FewInv
    <3>2. FewPages(pages, header.nodes, Given)'
      BY <2>1, <2>3, <3>1 DEF FewPages, OneLeaf
    <3>3. QED
      BY <2>1, <2>2, <3>2 DEF OpenInv, Splitting
  <2>5. QED
    BY <2>1, <2>4 DEF FewInv
<1>5. CASE Stop
  <2>1. /\ UNCHANGED <<pages, diskHeader, history>> /\ status = "open" /\ status' = "closed"
        /\ torn' = (torn \/ step # "idle") /\ step' = "idle"
    BY <1>5 DEF Stop, NoInsert, file
  <2>2. ASSUME ~torn'
        PROVE  FewPages(pages', diskHeader'.nodes, Given')
    <3>1. ~torn /\ step = "idle"
      BY <2>1, <2>2
    <3>2. Given' = Given
      BY <2>1, <3>1 DEF Given
    <3>3. FewPages(pages, diskHeader.nodes, Given)
      BY <2>1, <3>1 DEF FewInv, OpenInv, Splitting
    <3>4. QED
      BY <2>1, <3>2, <3>3
  <2>3. QED
    BY <2>1, <2>2 DEF FewInv
<1>6. QED
  BY <1>2, <1>3, <1>4, <1>5

LEMMA BeginFew ==
  ASSUME IndInv, FewInv, NEW k \in Keys, BeginInsert(k)
  PROVE  FewInv'
<1>1. /\ UNCHANGED <<pages, diskHeader, status, header, root, history, torn>>
      /\ step = "idle" /\ step' = "descend" /\ status = "open" /\ cur' = root /\ atRoot' = TRUE
  BY DEF BeginInsert, Starts, file, memory
<1>2. Given' = Given
  BY <1>1 DEF Given
<1>3. ASSUME ~torn
      PROVE  OpenInv'
  <2>1. OpenInv /\ ~Splitting /\ ~Splitting' /\ 0 \in DOMAIN pages
    BY <1>1, <1>3, FewTypes DEF FewInv, Splitting
  <2>2. FewPages(pages, header.nodes, Given)'
    BY <1>1, <1>2, <2>1 DEF OpenInv, FewPages, OneLeaf
  <2>3. ASSUME header.nodes < 4
        PROVE  root = [id |-> 0, page |-> pages[0]] /\ GoesDown'
    <3>1. root = [id |-> 0, page |-> pages[0]]
      BY <2>1, <2>3 DEF OpenInv
    <3>2. cur'.id = 0 /\ cur'.page = pages[0]
      BY <1>1, <3>1
    <3>3. QED
      BY <1>1, <2>1, <3>1, <3>2 DEF GoesDown
  <2>4. QED
    BY <1>1, <2>1, <2>2, <2>3 DEF OpenInv
<1>4. QED
  BY <1>1, <1>3 DEF FewInv

LEMMA BeginFullRootFew ==
  ASSUME IndInv, FewInv, NEW k \in Keys, BeginInsertFullRoot(k)
  PROVE  FewInv'
<1> DEFINE a == lastId + 1
           b == lastId + 2
           p == root.page
           newRoot == [BlankPage EXCEPT !.kids = [@ EXCEPT ![0] = a]]
           r == Adopt(newRoot, 0, p.keys[T - 1], b)
<1>1. /\ UNCHANGED <<pages, diskHeader, status, history, torn>>
      /\ step = "idle" /\ step' = "writeParent" /\ status = "open" /\ IsFull(p)
      /\ header' = [header EXCEPT !.nodes = @ + 2, !.height = @ + 1]
      /\ resume' = "cur" /\ atRoot' = TRUE
  BY DEF BeginInsertFullRoot, Starts, file
<1>2. /\ child' = [id |-> a, page |-> LeftHalf(p)] /\ sibling' = [id |-> b, page |-> RightHalf(p)]
      /\ cur' = [id |-> 0, page |-> r] /\ root' = cur'
  BY DEF BeginInsertFullRoot
<1>3. /\ a \in Nat \ {0} /\ b \in Nat \ {0} /\ a # b
      /\ header'.nodes = header.nodes + 2 /\ header.nodes \in Nat /\ p \in Page
  <2>1. header \in Header
    BY DEF IndInv, TypeOK
  <2>2. header'.nodes = header.nodes + 2 /\ header.nodes \in Nat
    BY <1>1, <2>1 DEF Header
  <2>3. a \in Nat \ {0} /\ b \in Nat \ {0} /\ a # b
    BY FewTypes
  <2>4. p \in Page
    BY FewTypes DEF Node
  <2>5. QED
    BY <2>2, <2>3, <2>4
<1>4. /\ r.leaf = FALSE /\ r.count = 1 /\ r.keys[0] = p.keys[T - 1]
      /\ r.kids[0] = a /\ r.kids[1] = b
  <2>1. /\ newRoot.leaf = FALSE /\ newRoot.count = 0 /\ newRoot.keys = [s \in KeySlots |-> 0]
        /\ newRoot.kids = [[s \in KidSlots |-> 0] EXCEPT ![0] = a]
    BY DEF BlankPage
  <2>2. 0 \in KeySlots /\ 0 \in KidSlots /\ 1 \in KidSlots
    BY DEF KeySlots, KidSlots
  <2> HIDE DEF newRoot, a, b
  <2>3. /\ r.leaf = FALSE /\ r.count = 1
        /\ r.keys = [newRoot.keys EXCEPT ![0] = p.keys[T - 1]]
        /\ r.kids = [newRoot.kids EXCEPT ![1] = b]
    BY <2>1 DEF Adopt
  <2>4. QED
    BY <2>1, <2>2, <2>3
<1> HIDE DEF a, b, p, r
<1>5. Given' = Given
  BY <1>1 DEF Given
<1>6. ASSUME ~torn, header'.nodes < 4
      PROVE  RootSplits'
  <2>1. OpenInv /\ ~Splitting
    BY <1>1, <1>6 DEF FewInv, Splitting
  <2>2. root = [id |-> 0, page |-> pages[0]] /\ FewPages(pages, header.nodes, Given) /\ header.nodes < 4
    BY <1>3, <1>6, <2>1 DEF OpenInv
  <2>3. p = pages[0]
    BY <2>2 DEF p
  <2>4. header.nodes = 1 /\ OneLeaf(pages, Given)
    BY <1>3, <1>6, <2>2 DEF FewPages
  <2>5. p.leaf /\ Sorted(p) /\ \A v \in Given : HoldsKey(p, v)
    BY <2>3, <2>4 DEF OneLeaf
  <2>6. PICK u : u = SplitPages'
    OBVIOUS
  <2>7. /\ 0 \in DOMAIN u /\ a \in DOMAIN u /\ b \in DOMAIN u
        /\ u[0] = r /\ u[a] = LeftHalf(p) /\ u[b] = RightHalf(p)
    BY <1>2, <1>3, <2>6 DEF SplitPages
  <2>8. TwoLeaves(u, a, b, Given)
    BY <1>1, <1>3, <1>4, <2>5, <2>7, LeafSplits
  <2>9. QED
    BY <1>1, <1>2, <1>3, <1>5, <2>4, <2>6, <2>8 DEF RootSplits
<1>7. Splitting' /\ step' # "idle" /\ step' # "descend"
  BY <1>1 DEF Splitting
<1>8. QED
  BY <1>1, <1>6, <1>7 DEF FewInv, OpenInv

LEMMA DescendFew ==
  ASSUME IndInv, FewInv, Descend
  PROVE  FewInv'
<1>1. /\ UNCHANGED <<pages, diskHeader, status, header, root, step, key, history, torn>>
      /\ step = "descend" /\ status = "open" /\ ~cur.page.leaf /\ KidId \in DOMAIN pages
      /\ cur' = [id |-> KidId, page |-> pages[KidId]] /\ atRoot' = FALSE
  BY DEF Descend, AtInnerNode, file, memory, ghosts
<1>2. Given' = Given /\ Splitting' = Splitting /\ ~Splitting
  BY <1>1 DEF Given, Splitting
<1>3. ASSUME ~torn, header.nodes < 4
      PROVE  GoesDown'
  <2>1. OpenInv /\ GoesDown /\ FewPages(pages, header.nodes, Given)
    BY <1>1, <1>2, <1>3 DEF FewInv, OpenInv
  <2>2. header.nodes = 3 /\ \E a, b \in DOMAIN pages : TwoLeaves(pages, a, b, Given)
    <3>1. CASE header.nodes = 1 /\ OneLeaf(pages, Given)
      BY <1>1, <2>1, <3>1 DEF GoesDown, OneLeaf
    <3>2. QED
      BY <1>3, <2>1, <3>1, FewTypes DEF FewPages
  <2>3. PICK a \in DOMAIN pages, b \in DOMAIN pages : TwoLeaves(pages, a, b, Given)
    BY <2>2
  <2>4. cur.id = 0 /\ cur.page = pages[0]
    BY <1>1, <2>1, <2>3 DEF GoesDown, TwoLeaves
  <2>5. pages[0] \in Page /\ pages[0].count = 1
    BY <2>3, FewTypes DEF PagesOK, TwoLeaves
  <2>6. Slot = IF key < pages[0].keys[0] THEN 0 ELSE 1
    BY <2>4, <2>5, RootSlot, FewTypes DEF Slot
  <2>7. /\ KidId = IF key < pages[0].keys[0] THEN pages[0].kids[0] ELSE pages[0].kids[1]
        /\ KidId # 0 /\ ~pages[0].leaf
    BY <2>3, <2>4, <2>6 DEF KidId, TwoLeaves
  <2>8. QED
    BY <1>1, <2>7 DEF GoesDown
<1>4. ASSUME ~torn
      PROVE  OpenInv'
  <2>1. OpenInv
    BY <1>1, <1>4 DEF FewInv
  <2>2. FewPages(pages, header.nodes, Given)'
    BY <1>1, <1>2, <2>1 DEF OpenInv, FewPages, OneLeaf
  <2>3. QED
    BY <1>1, <1>2, <1>3, <1>4, <2>1, <2>2 DEF OpenInv
<1>5. QED
  BY <1>1, <1>4 DEF FewInv

LEMMA DescendFullFew ==
  ASSUME IndInv, FewInv, DescendFullChild
  PROVE  FewInv'
<1>1. /\ UNCHANGED <<pages, status, history, torn>>
      /\ step = "descend" /\ status = "open" /\ ~cur.page.leaf /\ step' = "writeParent"
      /\ header' = [header EXCEPT !.nodes = @ + 1]
  BY DEF DescendFullChild, AtInnerNode, file, ghosts
<1>2. header'.nodes = header.nodes + 1 /\ header.nodes \in Nat
  BY <1>1 DEF IndInv, TypeOK, Header
<1>3. Splitting' /\ ~Splitting
  BY <1>1 DEF Splitting
<1>4. ASSUME ~torn
      PROVE  header'.nodes >= 4
  <2>1. OpenInv /\ FewPages(pages, header.nodes, Given)
    BY <1>1, <1>3, <1>4 DEF FewInv, OpenInv
  <2>2. CASE header.nodes = 1 /\ OneLeaf(pages, Given)
    BY <1>1, <2>1, <2>2 DEF GoesDown, OneLeaf, OpenInv
  <2>3. QED
    BY <1>2, <2>1, <2>2 DEF FewPages
<1>5. QED
  BY <1>1, <1>2, <1>3, <1>4 DEF FewInv, OpenInv

LEMMA WriteFew ==
  ASSUME IndInv, FewInv, WriteParent \/ WriteChild
  PROVE  FewInv'
<1>1. /\ UNCHANGED <<diskHeader, status, header, root, lastId, key, cur, atRoot, child, sibling, resume, history, torn>>
      /\ status = "open" /\ Splitting /\ Splitting'
      /\ step \in {"writeParent", "writeChild"}
      /\ step = "writeParent" => step' = "writeChild" /\ pages' = Written(cur)
      /\ step = "writeChild" => step' = "writeSibling" /\ pages' = Written(child)
  BY DEF WriteParent, WriteChild, Splitting, memory, ghosts
<1>2. /\ IsFiniteSet(DOMAIN pages') /\ DOMAIN pages' # {}
      /\ \A x \in DOMAIN pages \ {IF step = "writeParent" THEN cur.id ELSE child.id} :
           x \in DOMAIN pages' /\ pages'[x] = pages[x]
      /\ step = "writeParent" => cur.id \in DOMAIN pages' /\ pages'[cur.id] = cur.page
      /\ step = "writeChild" => child.id \in DOMAIN pages' /\ pages'[child.id] = child.page
  <2>1. CASE step = "writeParent"
    BY <1>1, <2>1, FewTypes, WrittenFile DEF FewInv
  <2>2. CASE step = "writeChild"
    BY <1>1, <2>2, FewTypes, WrittenFile DEF FewInv
  <2>3. QED
    BY <1>1, <2>1, <2>2
<1>3. Given' = Given /\ SplitPages' = SplitPages
  BY <1>1 DEF Given, SplitPages
<1>4. ASSUME ~torn, header.nodes < 4
      PROVE  RootSplits'
  <2>1. RootSplits /\ 0 \in DOMAIN pages
    BY <1>1, <1>4, FewTypes DEF FewInv, OpenInv
  <2>2. child.id # 0
    BY <2>1 DEF RootSplits, TwoLeaves
  <2>3. pages'[0] = cur.page
    BY <1>1, <1>2, <2>1, <2>2 DEF RootSplits
  <2>4. QED
    BY <1>1, <1>2, <1>3, <2>1, <2>3 DEF RootSplits
<1>5. QED
  BY <1>1, <1>2, <1>4 DEF FewInv, OpenInv, Splitting

LEMMA WriteSiblingFew ==
  ASSUME IndInv, FewInv, WriteSibling
  PROVE  FewInv'
<1>1. /\ UNCHANGED <<diskHeader, status, header, root, key, history, torn>>
      /\ status = "open" /\ Splitting /\ ~Splitting' /\ step = "writeSibling" /\ step' = "descend"
      /\ pages' = Written(sibling)
      /\ resume = "cur" => cur' = cur /\ atRoot' = atRoot
  BY DEF WriteSibling, Splitting, memory, ghosts
<1>2. /\ IsFiniteSet(DOMAIN pages') /\ sibling.id \in DOMAIN pages'
      /\ pages'[sibling.id] = sibling.page
      /\ \A x \in DOMAIN pages \ {sibling.id} : x \in DOMAIN pages' /\ pages'[x] = pages[x]
  BY <1>1, FewTypes, WrittenFile DEF FewInv
<1>3. Given' = Given
  BY <1>1 DEF Given
<1>4. ASSUME ~torn, header.nodes < 4
      PROVE  /\ FewPages(pages', header.nodes, Given) /\ GoesDown'
             /\ root = [id |-> 0, page |-> pages'[0]]
  <2>1. RootSplits /\ 0 \in DOMAIN pages
    BY <1>1, <1>4, FewTypes DEF FewInv, OpenInv
  <2>2. child.id # 0 /\ sibling.id # 0 /\ child.id # sibling.id
    BY <2>1 DEF RootSplits, TwoLeaves
  <2>3. /\ pages'[0] = cur.page /\ 0 \in DOMAIN pages'
        /\ pages'[child.id] = child.page /\ child.id \in DOMAIN pages'
    BY <1>1, <1>2, <2>1, <2>2 DEF RootSplits
  <2>4. PICK u : u = SplitPages
    OBVIOUS
  <2>5. u[0] = cur.page /\ u[child.id] = child.page /\ u[sibling.id] = sibling.page
    BY <2>2, <2>4 DEF SplitPages
  <2>6. TwoLeaves(u, child.id, sibling.id, Given)
    BY <2>1, <2>4 DEF RootSplits
  <2>7. TwoLeaves(pages', child.id, sibling.id, Given)
    BY <1>2, <2>3, <2>5, <2>6, TwoLeavesSame
  <2>8. FewPages(pages', header.nodes, Given)
    BY <1>2, <2>1, <2>3, <2>7 DEF FewPages, RootSplits
  <2>9. root = [id |-> 0, page |-> pages'[0]]
    BY <2>1, <2>3, FewTypes DEF RootSplits, Node
  <2>10. GoesDown'
    BY <1>1, <2>1, <2>3 DEF GoesDown, RootSplits
  <2>11. QED
    BY <2>8, <2>9, <2>10
<1>5. ASSUME ~torn
      PROVE  OpenInv'
  <2>1. FewPages(pages', header.nodes, Given)
    <3>1. CASE header.nodes < 4
      BY <1>4, <1>5, <3>1
    <3>2. CASE header.nodes >= 4
      BY <3>2 DEF FewPages
    <3>3. QED
      BY <3>1, <3>2, FewTypes
  <2>2. FewPages(pages, header.nodes, Given)'
    BY <1>1, <1>3, <2>1
  <2>3. QED
    BY <1>1, <1>4, <1>5, <2>2 DEF OpenInv
<1>6. QED
  BY <1>1, <1>2, <1>5 DEF FewInv

LEMMA WriteLeafFew ==
  ASSUME IndInv, FewInv, WriteLeaf
  PROVE  FewInv'
<1> DEFINE leaf == [cur EXCEPT !.page = InsertKey(cur.page, key)]
<1>1. /\ UNCHANGED <<diskHeader, status, header, key, history, torn>>
      /\ status = "open" /\ step = "descend" /\ step' = "writeHeader" /\ cur.page.leaf
      /\ pages' = Written(leaf) /\ root' = IF atRoot THEN leaf ELSE root
  BY DEF WriteLeaf, ghosts
<1>2. cur.page \in Page /\ ~IsFull(cur.page) /\ key \in Nat /\ cur.id \in Nat
  BY <1>1, FewTypes DEF Node, IndInv, InsertHasRoom
<1>3. leaf = [id |-> cur.id, page |-> InsertKey(cur.page, key)] /\ leaf \in Node
  <2>1. InsertKey(cur.page, key) \in Page
    BY <1>2, InsertKeyType
  <2>2. QED
    BY <2>1, FewTypes DEF Node
<1> HIDE DEF leaf
<1>4. /\ IsFiniteSet(DOMAIN pages') /\ cur.id \in DOMAIN pages'
      /\ pages'[cur.id] = InsertKey(cur.page, key)
      /\ \A x \in DOMAIN pages \ {cur.id} : x \in DOMAIN pages' /\ pages'[x] = pages[x]
  BY <1>1, <1>3, FewTypes, WrittenFile DEF FewInv
<1>5. Given' = Given \cup {key}
  BY <1>1 DEF Given
<1>6. ASSUME ~torn, header.nodes < 4
      PROVE  FewPages(pages', header.nodes, Given \cup {key}) /\ root' = [id |-> 0, page |-> pages'[0]]
  <2>1. /\ FewPages(pages, header.nodes, Given) /\ root = [id |-> 0, page |-> pages[0]]
        /\ GoesDown /\ 0 \in DOMAIN pages
    BY <1>1, <1>6, FewTypes DEF FewInv, OpenInv, Splitting
  <2>2. DOMAIN pages' = DOMAIN pages
    <3>1. DOMAIN Written(leaf) = DOMAIN pages \cup 0 .. cur.id
      BY <1>3 DEF Written
    <3>2. 0 .. cur.id \subseteq DOMAIN pages
      BY <2>1, FewTypes DEF GoesDown, PagesOK
    <3>3. QED
      BY <1>1, <3>1, <3>2
  <2>3. root' = [id |-> 0, page |-> pages'[0]]
    <3>1. CASE cur.id = 0
      BY <1>1, <1>3, <1>4, <2>1, <3>1 DEF GoesDown
    <3>2. CASE cur.id # 0
      <4>1. root' = root /\ pages'[0] = pages[0]
        BY <1>1, <1>4, <2>1, <3>2 DEF GoesDown
      <4>2. QED
        BY <2>1, <4>1
    <3>3. QED
      BY <3>1, <3>2
  <2>4. CASE header.nodes = 1 /\ OneLeaf(pages, Given)
    <3>1. cur.id = 0 /\ cur.page = pages[0]
      BY <2>1, <2>4 DEF GoesDown, OneLeaf
    <3>2. OneLeaf(pages', Given \cup {key})
      BY <1>2, <1>4, <2>4, <3>1, JoinsOneLeaf
    <3>3. QED
      BY <2>3, <2>4, <3>2 DEF FewPages
  <2>5. CASE header.nodes = 3 /\ \E a, b \in DOMAIN pages : TwoLeaves(pages, a, b, Given)
    <3>1. PICK a \in DOMAIN pages, b \in DOMAIN pages : TwoLeaves(pages, a, b, Given)
      BY <2>5
    <3>2. cur.id # 0
      BY <1>1, <2>1, <3>1 DEF GoesDown, TwoLeaves
    <3>3. cur.id = IF key < pages[0].keys[0] THEN a ELSE b
      BY <2>1, <3>1, <3>2 DEF GoesDown, TwoLeaves
    <3>4. pages[0] \in Page /\ cur.page = pages[cur.id]
      BY <2>1, FewTypes DEF GoesDown, PagesOK
    <3>5. TwoLeaves(pages', a, b, Given \cup {key})
      BY <1>2, <1>4, <2>2, <3>1, <3>3, <3>4, JoinsTwoLeaves
    <3>6. QED
      BY <2>2, <2>3, <2>5, <3>5 DEF FewPages
  <2>6. QED
    <3>1. header.nodes \in Nat
      BY FewTypes
    <3>2. ~(header.nodes >= 4)
      BY <1>6, <3>1
    <3>3. QED
      BY <2>1, <2>4, <2>5, <3>2 DEF FewPages
<1>7. ASSUME ~torn
      PROVE  OpenInv'
  <2>1. FewPages(pages', header.nodes, Given \cup {key})
    <3>1. CASE header.nodes < 4
      BY <1>6, <1>7, <3>1
    <3>2. CASE header.nodes >= 4
      BY <3>2 DEF FewPages
    <3>3. QED
      BY <3>1, <3>2, FewTypes
  <2>2. FewPages(pages, header.nodes, Given)'
    BY <1>1, <1>5, <2>1
  <2>3. QED
    BY <1>1, <1>6, <1>7, <2>2 DEF OpenInv, Splitting
<1>8. QED
  BY <1>1, <1>4, <1>7 DEF FewInv

LEMMA WriteHeaderFew ==
  ASSUME IndInv, FewInv, WriteHeader
  PROVE  FewInv'
<1>1. /\ UNCHANGED <<pages, status, root, torn>> /\ status = "open"
      /\ step = "writeHeader" /\ step' = "idle"
      /\ header' = [header EXCEPT !.kv = @ + 1] /\ diskHeader' = header'
      /\ history' = Append(history, key)
  BY DEF WriteHeader, NoInsert
<1>2. header'.nodes = header.nodes
  BY <1>1 DEF IndInv, TypeOK, Header
<1>3. Given' = Given
  <2>1. history \in Seq(Nat) /\ key \in Nat
    BY FewTypes
  <2>2. /\ DOMAIN Append(history, key) = DOMAIN history \cup {Len(history) + 1}
        /\ \A i \in DOMAIN history : Append(history, key)[i] = history[i]
        /\ Append(history, key)[Len(history) + 1] = key
    BY <2>1
  <2>3. PICK g : g = Append(history, key)
    OBVIOUS
  <2>4. {g[i] : i \in DOMAIN g} = {history[i] : i \in DOMAIN history} \cup {key}
    BY <2>2, <2>3
  <2>5. QED
    BY <1>1, <2>3, <2>4 DEF Given
<1>4. DOMAIN pages # {}
  BY <1>1, FewTypes
<1>5. ASSUME ~torn
      PROVE  OpenInv'
  <2>1. OpenInv /\ FewPages(pages, header.nodes, Given)
    BY <1>1, <1>5 DEF FewInv, OpenInv, Splitting
  <2>2. FewPages(pages, header.nodes, Given)'
    BY <1>1, <1>2, <1>3, <2>1
  <2>3. QED
    BY <1>1, <1>2, <2>1, <2>2 DEF OpenInv, Splitting
<1>6. QED
  BY <1>1, <1>4, <1>5 DEF FewInv

LEMMA NextFew == IndInv /\ FewInv /\ [Next]_vars => FewInv'
<1> SUFFICES ASSUME IndInv, FewInv, [Next]_vars PROVE FewInv'
  OBVIOUS
<1>1. CASE Create \/ Reload \/ Stop \/ Reset
  BY <1>1, LifeFew
<1>2. CASE \E k \in Keys : BeginInsert(k) \/ BeginInsertFullRoot(k)
  BY <1>2, BeginFew, BeginFullRootFew
<1>3. CASE Descend \/ DescendFullChild
  BY <1>3, DescendFew, DescendFullFew
<1>4. CASE DescendShortRead \/ DescendOutOfBounds
  <2>1. torn' = TRUE /\ UNCHANGED <<pages, history>>
    BY <1>4 DEF DescendShortRead, DescendOutOfBounds, Trap, file
  <2>2. QED
    BY <2>1 DEF FewInv
<1>5. CASE WriteParent \/ WriteChild \/ WriteSibling
  BY <1>5, WriteFew, WriteSiblingFew
<1>6. CASE WriteLeaf \/ WriteHeader
  BY <1>6, WriteLeafFew, WriteHeaderFew
<1>7. CASE UNCHANGED vars
  BY <1>7 DEF vars, file, memory, insert, ghosts, FewInv, OpenInv, FewPages, OneLeaf, TwoLeaves, Given,
              Splitting, RootSplits, SplitPages, GoesDown
<1>8. QED
  BY <1>1, <1>2, <1>3, <1>4, <1>5, <1>6, <1>7 DEF Next, InsertStep

(* Up to the split below the first root a lookup finds every key that was  *)
(* inserted, in any order and across restarts, for every order T.          *)
THEOREM SpecFoundUntilSecondSplit == Spec => []FoundUntilSecondSplit
<1>1. IndInv /\ FewInv => FoundUntilSecondSplit
  <2>1. SUFFICES ASSUME IndInv, FewInv, Quiet, ~torn, header.nodes <= 3, NEW i \in DOMAIN history
                 PROVE  contains(history[i])
    BY DEF FoundUntilSecondSplit
  <2>2. FewPages(pages, header.nodes, Given) /\ history[i] \in Given
    BY <2>1 DEF FewInv, OpenInv, Quiet, Splitting, Given
  <2>3. PagesOK(pages) /\ 0 \in DOMAIN pages /\ header.nodes \in Nat /\ Given \in SUBSET Nat
    BY <2>1, FewTypes DEF Quiet
  <2>4. root.page = pages[0]
    BY <2>1, <2>3 DEF FewInv, OpenInv, Quiet, Splitting
  <2>5. QED
    BY <2>1, <2>2, <2>3, <2>4, FoundInFew DEF FewInv
<1>2. Init => FewInv
  BY InitFew
<1>3. QED
  BY <1>1, <1>2, InitIndInv, NextInv, NextFew, PTL DEF Spec
=============================================================================
