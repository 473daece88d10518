----------------------------- MODULE BTreeIndex -----------------------------
(***************************************************************************)
(* The B-tree index of one table (Core/BTreeIndex.cpp): a header page and  *)
(* node pages in a file, the header and the root page kept in memory, and  *)
(* every other node read from the file each time it is visited.            *)
(*                                                                         *)
(* One write of the file is one step, so the process may stop between the  *)
(* page writes of an insert.  A single write is taken to be atomic.  Slots *)
(* of a page above its key count keep what was last stored there: the code *)
(* never clears them, and a split may expose them again.                   *)
(***************************************************************************)
EXTENDS Integers, Sequences, FiniteSets

CONSTANTS
  T,             \* BTREE_ORDER, the minimum degree of the tree (128 in the code)
  Keys,          \* the U64 keys a table may insert
  InsertOrder,   \* "any", or "append": no key is below the one before it
  MaxOps,        \* bound: inserts and resets begun
  MaxOpens       \* bound: times the file is opened

ASSUME OrderAssumption == T \in Nat /\ T >= 2
ASSUME KeysAssumption == Keys \subseteq Nat
ASSUME BoundsAssumption ==
  /\ InsertOrder \in {"any", "append"}
  /\ MaxOps \in Nat
  /\ MaxOpens \in Nat

VARIABLES
  pages,       \* the node pages of the file, by page id
  diskHeader,  \* the header page of the file
  status,      \* "open" while a process holds the index, else why it does not
  header,      \* BTreeState::header
  root,        \* BTreeState::root
  lastId,      \* BTreeState::current_node_id
  step,        \* where the insert in progress stands
  key,         \* the key it inserts
  cur,         \* the node it is at
  atRoot,      \* cur is the root object and not a copy read from page 0
  child,       \* full_child of the split being written
  sibling,     \* new_child of the split being written
  resume,      \* where the insert goes on after the split
  history,     \* keys of the completed inserts since the last reset, in order
  torn,        \* an insert was cut short, and what it wrote is in the file
  ops, opens   \* the counters behind MaxOps and MaxOpens

file   == <<pages, diskHeader>>
memory == <<header, root, lastId>>
insert == <<step, key, cur, atRoot, child, sibling, resume>>
ghosts == <<history, torn, ops, opens>>
vars   == <<file, status, memory, insert, ghosts>>
-----------------------------------------------------------------------------
(* Pages and nodes. *)

MaxKeys  == 2 * T - 1
KeySlots == 0 .. (2 * T - 2)
KidSlots == 0 .. (2 * T - 1)

Page   == [leaf : BOOLEAN, count : 0 .. MaxKeys,
           keys : [KeySlots -> Nat], kids : [KidSlots -> Nat]]
Node   == [id : Nat, page : Page]
Header == [nodes : Nat, kv : Nat, height : Nat]

BlankPage == [leaf |-> FALSE, count |-> 0,
              keys |-> [s \in KeySlots |-> 0], kids |-> [s \in KidSlots |-> 0]]
EmptyLeaf == [BlankPage EXCEPT !.leaf = TRUE]
NoNode    == [id |-> 0, page |-> BlankPage]
NoHeader  == [nodes |-> 0, kv |-> 0, height |-> 0]

(* Faulty variant: a node is full one key too late. *)
IsFull_Late(p) == p.count > MaxKeys

IsFull(p) == p.count = MaxKeys

(* node_search: the first slot whose key is not below k. *)
SearchSlot(p, k) ==
  CHOOSE i \in 0 .. p.count :
    /\ \A j \in 0 .. (i - 1) : p.keys[j] < k
    /\ i < p.count => p.keys[i] >= k

(* insert_non_full: the slot after the last key that is not above k, found *)
(* from the right.                                                         *)
InsertSlot(p, k) ==
  CHOOSE i \in 0 .. p.count :
    /\ \A j \in i .. (p.count - 1) : k < p.keys[j]
    /\ i > 0 => k >= p.keys[i - 1]

(* Faulty variant: the last key that moves up is lost. *)
InsertKey_NoShift(p, k) ==
  [p EXCEPT !.count = @ + 1, !.keys[InsertSlot(p, k)] = k]

(* insert_non_full on a leaf: the keys above k move up one slot. *)
InsertKey(p, k) ==
  LET i == InsertSlot(p, k)
  IN [p EXCEPT !.count = @ + 1,
               !.keys = [s \in KeySlots |->
                           IF s = i THEN k
                           ELSE IF s > i /\ s <= p.count THEN p.keys[s - 1]
                           ELSE p.keys[s]]]

(* split_child, the left half: only the count changes. *)
LeftHalf(full) == [full EXCEPT !.count = T - 1]

(* Faulty variant: the median stays behind in the new node as well. *)
RightHalf_WithMedian(full) ==
  [leaf  |-> full.leaf,
   count |-> T,
   keys  |-> [s \in KeySlots |-> IF s < T THEN full.keys[T - 1 + s] ELSE 0],
   kids  |-> [s \in KidSlots |->
                IF ~full.leaf /\ s < T THEN full.kids[T + s] ELSE 0]]

(* Faulty variant: the children are not copied and stay zero. *)
RightHalf_NoKids(full) ==
  [leaf  |-> full.leaf,
   count |-> T - 1,
   keys  |-> [s \in KeySlots |-> IF s < T - 1 THEN full.keys[T + s] ELSE 0],
   kids  |-> [s \in KidSlots |-> 0]]

(* split_child, the right half: a new node with the upper T-1 keys. *)
RightHalf(full) ==
  [leaf  |-> full.leaf,
   count |-> T - 1,
   keys  |-> [s \in KeySlots |-> IF s < T - 1 THEN full.keys[T + s] ELSE 0],
   kids  |-> [s \in KidSlots |->
                IF ~full.leaf /\ s < T THEN full.kids[T + s] ELSE 0]]

(* split_child, the parent: the shifts of its children and keys are guarded *)
(* by full_child_id where the index of the child is meant.  When they run,  *)
(* their first access is one slot beyond the parent's children and the      *)
(* bounds assertion of Slice stops the process; otherwise nothing moves and *)
(* the slots right of slot are overwritten.                                 *)
ShiftOutOfBounds(parent, fullId) == parent.count > fullId

(* Faulty variant: the parent does not count its new key. *)
Adopt_NoCount(parent, slot, median, newId) ==
  [parent EXCEPT !.keys[slot] = median, !.kids[slot + 1] = newId]

Adopt(parent, slot, median, newId) ==
  [leaf  |-> parent.leaf,
   count |-> parent.count + 1,
   keys  |-> [parent.keys EXCEPT ![slot] = median],
   kids  |-> [parent.kids EXCEPT ![slot + 1] = newId]]

(* save_node_to_disk: seek and write; a gap below the page reads as zeros. *)
Written(n) ==
  [p \in DOMAIN pages \cup 0 .. n.id |->
     IF p = n.id THEN n.page
     ELSE IF p \in DOMAIN pages THEN pages[p] ELSE BlankPage]
-----------------------------------------------------------------------------
(* The life of the file and of the process that holds it. *)

NoInsert ==
  /\ step' = "idle"
  /\ key' = 0
  /\ cur' = NoNode
  /\ atRoot' = FALSE
  /\ child' = NoNode
  /\ sibling' = NoNode
  /\ resume' = "cur"

NoMemory ==
  /\ header' = NoHeader
  /\ root' = NoNode
  /\ lastId' = 0

Init ==
  /\ pages = [p \in {} |-> BlankPage]
  /\ diskHeader = NoHeader
  /\ status = "closed"
  /\ header = NoHeader
  /\ root = NoNode
  /\ lastId = 0
  /\ step = "idle"
  /\ key = 0
  /\ cur = NoNode
  /\ atRoot = FALSE
  /\ child = NoNode
  /\ sibling = NoNode
  /\ resume = "cur"
  /\ history = <<>>
  /\ torn = FALSE
  /\ ops = 0
  /\ opens = 0

(* Faulty variant: the header in memory starts afresh, the page of the file *)
(* is left for the next insert to write.                                    *)
WriteEmptyTree_RootOnly ==
  /\ header' = [nodes |-> 1, kv |-> 0, height |-> 1]
  /\ root' = [id |-> 0, page |-> EmptyLeaf]
  /\ pages' = [p \in DOMAIN pages \cup {0} |->
                 IF p = 0 THEN EmptyLeaf ELSE pages[p]]
  /\ UNCHANGED diskHeader

(* Faulty variant: the header is written, the page of the root is not. *)
WriteEmptyTree_HeaderOnly ==
  /\ header' = [nodes |-> 1, kv |-> 0, height |-> 1]
  /\ root' = [id |-> 0, page |-> EmptyLeaf]
  /\ pages' = [p \in DOMAIN pages \cup {0} |->
                 IF p \in DOMAIN pages THEN pages[p] ELSE EmptyLeaf]
  /\ diskHeader' = header'

(* BTreeState::reset: a fresh header and an empty leaf as root, both in one *)
(* write.  The pages behind the root stay in the file.                      *)
WriteEmptyTree ==
  /\ header' = [nodes |-> 1, kv |-> 0, height |-> 1]
  /\ root' = [id |-> 0, page |-> EmptyLeaf]
  /\ pages' = [p \in DOMAIN pages \cup {0} |->
                 IF p = 0 THEN EmptyLeaf ELSE pages[p]]
  /\ diskHeader' = header'

(* BTreeIndex::create on an empty file. *)
Create ==
  /\ status # "open"
  /\ opens < MaxOpens
  /\ DOMAIN pages = {}
  /\ status' = "open"
  /\ WriteEmptyTree
  /\ opens' = opens + 1
  /\ UNCHANGED <<lastId, insert, history, torn, ops>>

(* BTreeIndex::create on a file that has pages: the header and the root are *)
(* read.  current_node_id is not part of the file and starts at zero again. *)
Reload ==
  /\ status # "open"
  /\ opens < MaxOpens
  /\ DOMAIN pages # {}
  /\ status' = "open"
  /\ header' = diskHeader
  /\ root' = [id |-> 0, page |-> pages[0]]
  /\ opens' = opens + 1
  /\ UNCHANGED <<file, lastId, insert, history, torn, ops>>

(* The process goes away, between operations or at any write of one. *)
Stop ==
  /\ status = "open"
  /\ status' = "closed"
  /\ torn' = (torn \/ step # "idle")
  /\ NoMemory
  /\ NoInsert
  /\ UNCHANGED <<file, history, ops, opens>>

(* An assertion of the code stops the process. *)
Trap(why) ==
  /\ status' = why
  /\ torn' = TRUE
  /\ NoMemory
  /\ NoInsert
  /\ UNCHANGED <<file, history, ops, opens>>

(* BTreeIndex::reset, called by DELETE. *)
Reset ==
  /\ status = "open"
  /\ step = "idle"
  /\ ops < MaxOps
  /\ WriteEmptyTree
  /\ history' = <<>>
  /\ ops' = ops + 1
  /\ UNCHANGED <<status, lastId, insert, torn, opens>>
-----------------------------------------------------------------------------
(* BTreeIndex::insert. *)

LastKey == IF history = <<>> THEN 0 ELSE history[Len(history)]

(* The "append" workload: each key repeats the last one (a table without an *)
(* integer primary key inserts only zeros) or follows it.  The tree only    *)
(* compares keys, so gaps between them change nothing.                      *)
InOrder(k) == InsertOrder = "append" => k - LastKey \in {0, 1}

Starts(k) ==
  /\ status = "open"
  /\ step = "idle"
  /\ ops < MaxOps
  /\ InOrder(k)
  /\ ops' = ops + 1
  /\ key' = k

(* Faulty variant: the root is not checked for being full. *)
BeginInsert_NoFullCheck(k) ==
  /\ Starts(k)
  /\ cur' = root
  /\ atRoot' = TRUE
  /\ step' = "descend"
  /\ UNCHANGED <<file, status, memory, child, sibling, resume, history, torn,
                 opens>>

BeginInsert(k) ==
  /\ Starts(k)
  /\ ~IsFull(root.page)
  /\ cur' = root
  /\ atRoot' = TRUE
  /\ step' = "descend"
  /\ UNCHANGED <<file, status, memory, child, sibling, resume, history, torn,
                 opens>>

(* The root is full: it moves to a new page and a new root above it, which *)
(* keeps id 0, adopts its two halves.                                      *)
BeginInsertFullRoot(k) ==
  LET newRoot == [BlankPage EXCEPT !.kids = [@ EXCEPT ![0] = lastId + 1]]
      above   == [id   |-> 0,
                  page |-> Adopt(newRoot, 0, root.page.keys[T - 1], lastId + 2)]
  IN /\ Starts(k)
     /\ IsFull(root.page)
     /\ child' = [id |-> lastId + 1, page |-> LeftHalf(root.page)]
     /\ sibling' = [id |-> lastId + 2, page |-> RightHalf(root.page)]
     /\ root' = above
     /\ cur' = above
     /\ atRoot' = TRUE
     /\ lastId' = lastId + 2
     /\ header' = [header EXCEPT !.nodes = @ + 2, !.height = @ + 1]
     /\ resume' = "cur"
     /\ step' = "writeParent"
     /\ UNCHANGED <<file, status, history, torn, opens>>

Slot  == InsertSlot(cur.page, key)
KidId == cur.page.kids[Slot]

AtInnerNode ==
  /\ status = "open"
  /\ step = "descend"
  /\ ~cur.page.leaf

(* load_node_from_disk: OK_VERIFY stops the process when the page is not in *)
(* the file.                                                                *)
DescendShortRead ==
  /\ AtInnerNode
  /\ KidId \notin DOMAIN pages
  /\ Trap("short_read")

Descend ==
  /\ AtInnerNode
  /\ KidId \in DOMAIN pages
  /\ ~IsFull(pages[KidId])
  /\ cur' = [id |-> KidId, page |-> pages[KidId]]
  /\ atRoot' = FALSE
  /\ UNCHANGED <<file, status, memory, step, key, child, sibling, resume, ghosts>>

DescendOutOfBounds ==
  /\ AtInnerNode
  /\ KidId \in DOMAIN pages
  /\ IsFull(pages[KidId])
  /\ ShiftOutOfBounds(cur.page, KidId)
  /\ Trap("out_of_bounds")

(* split_child on the way down.  The insert goes on in the left half       *)
(* whatever the key: the "++i" after the split changes nothing any more.    *)
DescendFullChild ==
  LET full   == pages[KidId]
      parent == [cur EXCEPT !.page =
                   Adopt(cur.page, Slot, full.keys[T - 1], lastId + 1)]
  IN /\ AtInnerNode
     /\ KidId \in DOMAIN pages
     /\ IsFull(full)
     /\ ~ShiftOutOfBounds(cur.page, KidId)
     /\ child' = [id |-> KidId, page |-> LeftHalf(full)]
     /\ sibling' = [id |-> lastId + 1, page |-> RightHalf(full)]
     /\ cur' = parent
     /\ root' = IF atRoot THEN parent ELSE root
     /\ lastId' = lastId + 1
     /\ header' = [header EXCEPT !.nodes = @ + 1]
     /\ resume' = "child"
     /\ step' = "writeParent"
     /\ UNCHANGED <<file, status, key, atRoot, ghosts>>

(* The three page writes at the end of split_child. *)
WriteParent ==
  /\ status = "open"
  /\ step = "writeParent"
  /\ pages' = Written(cur)
  /\ step' = "writeChild"
  /\ UNCHANGED <<diskHeader, status, memory, key, cur, atRoot, child, sibling,
                 resume, ghosts>>

WriteChild ==
  /\ status = "open"
  /\ step = "writeChild"
  /\ pages' = Written(child)
  /\ step' = "writeSibling"
  /\ UNCHANGED <<diskHeader, status, memory, key, cur, atRoot, child, sibling,
                 resume, ghosts>>

(* Faulty variant: the new node is not saved. *)
WriteSibling_NotSaved ==
  /\ status = "open"
  /\ step = "writeSibling"
  /\ step' = "descend"
  /\ IF resume = "child"
       THEN cur' = child /\ atRoot' = FALSE
       ELSE UNCHANGED <<cur, atRoot>>
  /\ child' = NoNode
  /\ sibling' = NoNode
  /\ resume' = "cur"
  /\ UNCHANGED <<file, status, memory, key, ghosts>>

WriteSibling ==
  /\ status = "open"
  /\ step = "writeSibling"
  /\ pages' = Written(sibling)
  /\ step' = "descend"
  /\ IF resume = "child"
       THEN cur' = child /\ atRoot' = FALSE
       ELSE UNCHANGED <<cur, atRoot>>
  /\ child' = NoNode
  /\ sibling' = NoNode
  /\ resume' = "cur"
  /\ UNCHANGED <<diskHeader, status, memory, key, ghosts>>

WriteLeaf ==
  LET leaf == [cur EXCEPT !.page = InsertKey(cur.page, key)]
  IN /\ status = "open"
     /\ step = "descend"
     /\ cur.page.leaf
     /\ cur' = leaf
     /\ root' = IF atRoot THEN leaf ELSE root
     /\ pages' = Written(leaf)
     /\ step' = "writeHeader"
     /\ UNCHANGED <<diskHeader, status, header, lastId, key, atRoot, child,
                    sibling, resume, ghosts>>

(* The end of insert: ++kv_count and save_header_to_disk. *)
WriteHeader ==
  /\ status = "open"
  /\ step = "writeHeader"
  /\ header' = [header EXCEPT !.kv = @ + 1]
  /\ diskHeader' = header'
  /\ history' = Append(history, key)
  /\ NoInsert
  /\ UNCHANGED <<pages, status, root, lastId, torn, ops, opens>>

InsertStep ==
  \/ Descend
  \/ DescendShortRead
  \/ DescendOutOfBounds
  \/ DescendFullChild
  \/ WriteParent
  \/ WriteChild
  \/ WriteSibling
  \/ WriteLeaf
  \/ WriteHeader

Next ==
  \/ Create
  \/ Reload
  \/ Stop
  \/ Reset
  \/ \E k \in Keys : BeginInsert(k) \/ BeginInsertFullRoot(k)
  \/ InsertStep

Spec == Init /\ [][Next]_vars

(* A call of insert runs to its end: the handler thread does not pause. *)
FairSpec == Spec /\ WF_vars(InsertStep)
-----------------------------------------------------------------------------
(* Lookups, and the tree as the file shows it. *)

(* node_search from the root, which is in memory, through the pages of the   *)
(* file: the page visited at each depth, or -1 once the search has stopped.  *)
NodeAt(d, id) == IF d = 0 THEN root.page ELSE pages[id]

SearchPath(k) ==
  LET Hit(p)   == SearchSlot(p, k) < p.count /\ p.keys[SearchSlot(p, k)] = k
      at[d \in 0 .. Cardinality(DOMAIN pages)] ==
        IF d = 0 THEN 0
        ELSE IF at[d - 1] \notin DOMAIN pages THEN -1
        ELSE LET p == NodeAt(d - 1, at[d - 1])
             IN IF p.leaf \/ Hit(p) THEN -1 ELSE p.kids[SearchSlot(p, k)]
  IN at

contains(k) ==
  LET at == SearchPath(k)
  IN \E d \in DOMAIN at :
       /\ at[d] \in DOMAIN pages
       /\ LET p == NodeAt(d, at[d])
          IN SearchSlot(p, k) < p.count /\ p.keys[SearchSlot(p, k)] = k

KidsOf(p) == IF pages[p].leaf THEN {}
             ELSE {pages[p].kids[s] : s \in 0 .. pages[p].count}

(* The pages at each depth below the root page. *)
Level ==
  LET at[d \in 0 .. Cardinality(DOMAIN pages)] ==
        IF d = 0 THEN {0}
        ELSE UNION {KidsOf(p) : p \in at[d - 1] \cap DOMAIN pages}
  IN at

Reachable == (UNION {Level[d] : d \in DOMAIN Level}) \cap DOMAIN pages

StoredIn(S, k) ==
  {at \in S \X KeySlots : /\ at[2] < pages[at[1]].count
                          /\ pages[at[1]].keys[at[2]] = k}
Inserted(k) == {i \in DOMAIN history : history[i] = k}

Quiet == status = "open" /\ step = "idle"
-----------------------------------------------------------------------------
(* Properties. *)

(* Every variable keeps its shape; in particular no page ever holds more    *)
(* than 2T-1 keys and the pages of the file have no gap between them.       *)
TypeOK ==
  /\ pages \in [DOMAIN pages -> Page]
  /\ DOMAIN pages \subseteq Nat
  /\ \A p \in DOMAIN pages : 0 .. p \subseteq DOMAIN pages
  /\ diskHeader \in Header
  /\ status \in {"open", "closed", "short_read", "out_of_bounds"}
  /\ header \in Header
  /\ root \in Node
  /\ lastId \in Nat
  /\ step \in {"idle", "descend", "writeParent", "writeChild", "writeSibling",
               "writeHeader"}
  /\ key \in Nat
  /\ cur \in Node
  /\ atRoot \in BOOLEAN
  /\ child \in Node
  /\ sibling \in Node
  /\ resume \in {"cur", "child"}
  /\ history \in Seq(Nat)
  /\ torn \in BOOLEAN
  /\ ops \in Nat
  /\ opens \in Nat

(* insert_non_full is only ever called on a node with a free slot (its      *)
(* OK_ASSERT, BTreeIndex.cpp:346): the write of the key stays in the page.  *)
InsertHasRoom == step = "descend" => ~IsFull(cur.page)

(* Why TypeOK and InsertHasRoom last: a closed index has no insert under    *)
(* way, an open one has its root page in the file and the row count of its  *)
(* header written, and whichever node an insert goes on with after a split  *)
(* has room.                                                                *)
Splitting == step \in {"writeParent", "writeChild", "writeSibling"}

StepInv ==
  /\ status # "open" => step = "idle"
  /\ status = "open" => 0 \in DOMAIN pages /\ header.kv = diskHeader.kv
  /\ DOMAIN pages = {} => diskHeader.kv = 0
  /\ Splitting /\ resume = "cur" => ~IsFull(cur.page)
  /\ Splitting /\ resume = "child" => ~IsFull(child.page)

IndInv == TypeOK /\ InsertHasRoom /\ StepInv

(* The root object that serves every operation is what page 0 of the file   *)
(* says once no insert is running, so a reload would see the same tree.     *)
RootCached == Quiet => root = [id |-> 0, page |-> pages[0]]

(* Nothing is lost and nothing is stored twice: outside the page writes of  *)
(* a split, the pages that can be reached from page 0 of the file hold each *)
(* key exactly as often as completed inserts put it there.                  *)
EveryKeyStoredOnce ==
  status = "open" /\ step \notin {"writeChild", "writeSibling"} =>
    \A k \in Keys :
      Cardinality(StoredIn(Reachable, k)) =
        Cardinality(Inserted(k)) + IF step = "writeHeader" /\ key = k THEN 1 ELSE 0

(* The tree is balanced and the header describes it: the pages at depth     *)
(* height-1 are its leaves, every page above them is an inner node, no page *)
(* is the child of two, and the header counts the pages.                    *)
Balanced ==
  Quiet =>
    /\ \A d \in DOMAIN Level, p \in Reachable :
         p \in Level[d] => /\ d < header.height
                           /\ pages[p].leaf <=> d = header.height - 1
    /\ \A p, q \in Reachable :
         p # q => KidsOf(p) \cap KidsOf(q) = {}
    /\ \A p \in Reachable :
         ~pages[p].leaf => Cardinality(KidsOf(p)) = pages[p].count + 1
    /\ Cardinality(Reachable) = header.nodes

(* Up to the split of the first root, the region the unit tests visit, the  *)
(* index answers contains(k) for every key it was given, and keeps doing so *)
(* after it is opened again, unless an insert was cut short.                *)
FoundUntilSecondSplit ==
  Quiet /\ ~torn /\ header.nodes <= 3 => \A i \in DOMAIN history : contains(history[i])

(* No assertion of the index stops the process. *)
NoTrap == status \in {"open", "closed"}

(* An insert that has begun comes back to its caller. *)
InsertReturns == step # "idle" ~> step = "idle"

(* For its table the index is a counter in a file, whatever the order of    *)
(* the keys and wherever the process stops.                                 *)
Counter == INSTANCE PersistentCounter WITH
  count <- IF status = "open" THEN header.kv ELSE diskHeader.kv,
  open  <- status = "open"

CounterSpec == Counter!Spec
=============================================================================
