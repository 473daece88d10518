--------------------------- MODULE ConnectionTable ---------------------------
(***************************************************************************)
(* The connections of the server: connect gives a new identifier, a query  *)
(* names its connection by it, and a connect drops the connections nobody  *)
(* has used for a while.  The server has one thread, so a request runs to  *)
(* its end; gen_connection is a step for each slot it visits.              *)
(*                                                                         *)
(* What a connection is for (the database and the user) is a session; a    *)
(* session that is refused leaves everything as it was and is left out.    *)
(* A ConnectionData is a number; its arena holds nothing between requests. *)
(***************************************************************************)
EXTENDS HashTable

CONSTANTS
    Sessions,        \* what can be asked for: a database and a user of it
    Freed,           \* a DBConnection that was given back
    FirstCapacity,   \* 47
    Timeout,         \* 15 minutes
    MaxIds, MaxTime  \* bounds: identifiers given, time

ASSUME ConnectionAssumption ==
    /\ FirstCapacity \in Nat \ {0}
    /\ Timeout \in Nat /\ MaxIds \in Nat /\ MaxTime \in Nat
    /\ Freed \notin Sessions

VARIABLES
    now,             \* the clock
    table,           \* db_connections_table: from identifiers to ConnectionData
    nodes,           \* how many ConnectionData were allocated: 1..nodes
    next, conn, lastUse,  \* their fields
    free,            \* connection_free_list, 0 for nullptr
    last,            \* last_connection_id
    pc, at,          \* where gen_connection is, and its slot
    asked, data,     \* its session and the ConnectionData it gives
    copied,          \* the larger table while put copies
    given, used,     \* observers: the sessions of identifiers not dropped, and their last use
    apart            \* observer: every key was put at its home so far

request == <<pc, at, asked, data, copied>>
nodeVars == <<nodes, next, conn, lastUse, free>>
observers == <<given, used, apart>>
vars == <<now, table, nodeVars, last, request, observers>>

Nodes == 1..nodes
Ids == 1..last

-----------------------------------------------------------------------------

Init ==
    /\ now = 0 /\ last = 0
    /\ table = NewTable(FirstCapacity) /\ copied = table
    /\ nodes = 0 /\ free = 0
    /\ next = [d \in {} |-> 0] /\ conn = [d \in {} |-> Freed] /\ lastUse = [d \in {} |-> 0]
    /\ pc = "idle" /\ at = 0 /\ asked \in Sessions /\ data = 0
    /\ given = [i \in {} |-> Freed] /\ used = [i \in {} |-> 0] /\ apart = TRUE

Tick ==
    /\ pc = "idle" /\ now < MaxTime
    /\ now' = now + 1
    /\ UNCHANGED <<table, nodeVars, last, request, observers>>

(* get_connection_data, for a query or a list of tables.                   *)
Use(id) ==
    /\ pc = "idle"
    /\ \E i \in Slots(table) :
         /\ Meets(table, id, Holders(table, id), i)
         /\ lastUse' = [lastUse EXCEPT ![table.values[i]] = now]
    /\ used' = IF id \in DOMAIN used THEN [used EXCEPT ![id] = now] ELSE used
    /\ UNCHANGED <<now, table, nodes, next, conn, free, last, request, given, apart>>

(* connect was accepted; gen_connection looks for connections to drop.     *)
Connect(s) ==
    /\ pc = "idle" /\ last < MaxIds
    /\ pc' = "drop" /\ at' = 0 /\ asked' = s
    /\ UNCHANGED <<now, table, nodeVars, last, data, copied, observers>>

Idle(d) == now - lastUse[d] >= Timeout
Drops(i) == i \in table.meta /\ Idle(table.values[i])

(* Faulty variant: the data is recycled and the entry stays. *)
Drop_KeepsEntry ==
    /\ pc = "drop" /\ at < table.capacity /\ Drops(at)
    /\ LET d == table.values[at]
       IN conn' = [conn EXCEPT ![d] = Freed] /\ next' = [next EXCEPT ![d] = free] /\ free' = d
    /\ given' = [i \in DOMAIN given \ {table.keys[at]} |-> given[i]]
    /\ used' = [i \in DOMAIN used \ {table.keys[at]} |-> used[i]]
    /\ at' = at + 1
    /\ UNCHANGED <<now, table, nodes, lastUse, last, pc, asked, data, copied, apart>>

(* An expired connection: free_connection_data, and remove.                *)
Drop ==
    /\ pc = "drop" /\ at < table.capacity /\ Drops(at)
    /\ LET d == table.values[at]
       IN conn' = [conn EXCEPT ![d] = Freed] /\ next' = [next EXCEPT ![d] = free] /\ free' = d
    /\ table' = Remove(table, table.keys[at])
    /\ given' = [i \in DOMAIN given \ {table.keys[at]} |-> given[i]]
    /\ used' = [i \in DOMAIN used \ {table.keys[at]} |-> used[i]]
    /\ at' = at + 1
    /\ UNCHANGED <<now, nodes, lastUse, last, pc, asked, data, copied, apart>>

Keep ==
    /\ pc = "drop" /\ at < table.capacity /\ ~Drops(at)
    /\ at' = at + 1
    /\ UNCHANGED <<now, table, nodeVars, last, pc, asked, data, copied, observers>>

(* The ConnectionData is ready: put, which may have to copy first.         *)
Ready(d) ==
    /\ pc = "drop" /\ at = table.capacity
    /\ data' = d /\ last' = last + 1 /\ at' = 0
    /\ IF Crowded(table)
       THEN pc' = "copy" /\ copied' = NewTable(Grown(table.capacity))
       ELSE pc' = "put" /\ copied' = copied
    /\ UNCHANGED <<now, table, asked, observers>>

Allocate ==
    /\ free = 0
    /\ Ready(nodes + 1)
    /\ nodes' = nodes + 1
    /\ next' = [d \in 1..nodes + 1 |-> IF d \in Nodes THEN next[d] ELSE 0]
    /\ conn' = [d \in 1..nodes + 1 |-> IF d \in Nodes THEN conn[d] ELSE asked]
    /\ lastUse' = [d \in 1..nodes + 1 |-> IF d \in Nodes THEN lastUse[d] ELSE now]
    /\ UNCHANGED free

(* Faulty variant: the recycled data keeps its old time. *)
Recycle_OldTime ==
    /\ free # 0
    /\ Ready(free)
    /\ free' = next[free]
    /\ conn' = [conn EXCEPT ![free] = asked]
    /\ UNCHANGED <<nodes, next, lastUse>>

Recycle ==
    /\ free # 0
    /\ Ready(free)
    /\ free' = next[free]
    /\ conn' = [conn EXCEPT ![free] = asked]
    /\ lastUse' = [lastUse EXCEPT ![free] = now]
    /\ UNCHANGED <<nodes, next>>

(* copy, slot by slot; the larger table is at most a third full.           *)
Copy ==
    /\ pc = "copy" /\ at < table.capacity
    /\ at' = at + 1
    /\ IF at \in table.meta
       THEN \E i \in Slots(copied) :
              /\ Meets(copied, table.keys[at], Places(copied, table.keys[at]), i)
              /\ copied' = PutAt(copied, table.keys[at], table.values[at], i)
              /\ apart' = (apart /\ i = Home(copied, table.keys[at]))
       ELSE UNCHANGED <<copied, apart>>
    /\ UNCHANGED <<now, table, nodeVars, last, pc, asked, data, given, used>>

Copied ==
    /\ pc = "copy" /\ at = table.capacity
    /\ table' = copied /\ pc' = "put" /\ at' = 0
    /\ UNCHANGED <<now, nodeVars, last, asked, data, copied, observers>>

(* The rest of put, and the answer.                                        *)
Put ==
    /\ pc = "put"
    /\ \E i \in Slots(table) :
         /\ Meets(table, last, Places(table, last), i)
         /\ table' = PutAt(table, last, data, i)
         /\ apart' = (apart /\ i = Home(table, last))
    /\ given' = [i \in DOMAIN given \cup {last} |-> IF i = last THEN asked ELSE given[i]]
    /\ used' = [i \in DOMAIN used \cup {last} |-> IF i = last THEN now ELSE used[i]]
    /\ pc' = "idle" /\ data' = 0 /\ copied' = table'
    /\ UNCHANGED <<now, nodeVars, last, at, asked>>

Next ==
    \/ Tick
    \/ \E id \in 1..MaxIds : Use(id)
    \/ \E s \in Sessions : Connect(s)
    \/ Drop \/ Keep \/ Allocate \/ Recycle \/ Copy \/ Copied \/ Put

Spec == Init /\ [][Next]_vars

-----------------------------------------------------------------------------

(* What a handler finds at an identifier: the sessions of the data stored  *)
(* under it, Freed if the connection was given back.                       *)
Answers(id) == {conn[table.values[i]] : i \in Holders(table, id)}

(* put ends: whatever was removed, and wherever keys lie, the count is     *)
(* that of the occupied slots, so the load keeps a slot free and the walk  *)
(* of put (ok.hpp:1504), which has no other end, meets one.                *)
PutFindsRoom ==
    /\ table.count = Cardinality(table.meta) /\ copied.count = Cardinality(copied.meta)
    /\ pc = "put" => table.count < table.capacity
    /\ pc = "copy" /\ at < table.capacity => copied.count < copied.capacity

(* Keys lie at their homes until the identifiers have gone once round the  *)
(* first table, also when it was copied before (put, ok.hpp:1495).         *)
HomesUntilWrap == last <= FirstCapacity => apart

(* Between requests an identifier leads to the session it was given for,   *)
(* and no other one, until it is dropped, and to nothing afterwards: no    *)
(* connection is lost, mixed up with another one or used after it was      *)
(* freed.  As long as keys lie at their homes, since remove looks nowhere  *)
(* else (ok.hpp:1657).                                                     *)
IdsLeadToTheirSessions ==
    apart /\ pc = "idle" =>
        \A id \in Ids : Answers(id) = IF id \in DOMAIN given THEN {given[id]} ELSE {}

(* A connection is dropped only after Timeout without a use: also if its   *)
(* data is a recycled one, with the times of another.                      *)
OnlyIdleDropped ==
    [][apart => \A id \in DOMAIN given : id \notin DOMAIN given' => now - used[id] >= Timeout]_vars
=============================================================================
