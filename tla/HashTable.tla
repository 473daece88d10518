------------------------------ MODULE HashTable ------------------------------
(***************************************************************************)
(* ok::Table with integers for keys: open addressing, a bit per slot that  *)
(* says whether it is occupied, and a hash that is the key itself.  A key  *)
(* is put in the first free slot from its home on, and removing a key      *)
(* clears the bit of its home, whatever is stored there.                   *)
(***************************************************************************)
EXTENDS Integers, FiniteSets

Slots(tab) == 0..tab.capacity - 1

(* alloc: the memory comes zeroed (MallocAllocator).                       *)
NewTable(capacity) ==
    [capacity |-> capacity, count |-> 0, meta |-> {},
     keys |-> [i \in 0..capacity - 1 |-> 0], values |-> [i \in 0..capacity - 1 |-> 0]]

(* Faulty variant: the last slot is nobody's home. *)
Home_Short(tab, key) == key % (tab.capacity - 1)

(* hash(key) % capacity.                                                   *)
Home(tab, key) == key % tab.capacity

(* How far a slot is behind the home of a key, with the wrap at the end.   *)
Distance(tab, key, i) ==
    IF i >= Home(tab, key) THEN i - Home(tab, key) ELSE i - Home(tab, key) + tab.capacity

(* i is the first slot in S that a walk from the home of the key meets.    *)
Meets(tab, key, S, i) ==
    i \in S /\ \A j \in S : Distance(tab, key, i) <= Distance(tab, key, j)

Holders(tab, key) == {i \in tab.meta : tab.keys[i] = key}
Places(tab, key) == (Slots(tab) \ tab.meta) \cup Holders(tab, key)

(* put, once the place is found.                                           *)
PutAt(tab, key, value, i) ==
    [capacity |-> tab.capacity,
     count |-> IF i \in tab.meta THEN tab.count ELSE tab.count + 1,
     meta |-> tab.meta \cup {i},
     keys |-> [tab.keys EXCEPT ![i] = key],
     values |-> [tab.values EXCEPT ![i] = value]]

(* Faulty variant: the count goes down though nothing was stored there. *)
Remove_AlwaysCounts(tab, key) ==
    [capacity |-> tab.capacity,
     count |-> tab.count - 1,
     meta |-> tab.meta \ {Home(tab, key)},
     keys |-> tab.keys,
     values |-> tab.values]

(* remove.                                                                 *)
Remove(tab, key) ==
    [capacity |-> tab.capacity,
     count |-> IF Home(tab, key) \in tab.meta THEN tab.count - 1 ELSE tab.count,
     meta |-> tab.meta \ {Home(tab, key)},
     keys |-> tab.keys,
     values |-> tab.values]

(* When put first copies to a larger table: load_percentage() >= 70.       *)
Crowded(tab) == tab.count * 100 >= 70 * tab.capacity
Grown(capacity) == (capacity + 1) * 3
=============================================================================
