------------------------- MODULE PersistentCounter -------------------------
(***************************************************************************)
(* What a table asks of its index file.  DBTable::rows_count() reads       *)
(* BTreeIndex::total_kv_count(); nothing else of the index reaches a       *)
(* query.  The promise is therefore a counter kept in a file: it grows by  *)
(* one for an insert, drops to zero for a reset, and survives the process  *)
(* being stopped between any two writes.                                   *)
(***************************************************************************)
EXTENDS Naturals

VARIABLES
  count,   \* what total_kv_count() answers, or would answer after a reopen
  open     \* a process holds the file

vars == <<count, open>>

TypeOK ==
  /\ count \in Nat
  /\ open \in BOOLEAN

Init ==
  /\ count = 0
  /\ open \in BOOLEAN

Open ==
  /\ ~open
  /\ open' = TRUE
  /\ UNCHANGED count

Close ==
  /\ open
  /\ open' = FALSE
  /\ UNCHANGED count

Add ==
  /\ open
  /\ count' = count + 1
  /\ UNCHANGED open

Clear ==
  /\ open
  /\ count' = 0
  /\ UNCHANGED open

Next ==
  \/ Open
  \/ Close
  \/ Add
  \/ Clear

Spec == Init /\ [][Next]_vars
=============================================================================
