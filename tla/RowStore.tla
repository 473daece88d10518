------------------------------ MODULE RowStore ------------------------------
(***************************************************************************)
(* What the files of a table promise to hold, whatever the table is asked  *)
(* to do and wherever the process stops: rows in the order they were       *)
(* inserted.  They arrive a buffer at a time and all at once, they leave   *)
(* all together, a stored row only ever changes in one column, and opening *)
(* or losing the process changes nothing.                                  *)
(***************************************************************************)
EXTENDS Integers

CONSTANTS
  Row,       \* the rows a table can hold: functions from columns to values
  Capacity   \* the number of rows that can arrive at once

VARIABLES
  count,  \* how many rows are stored
  rows,   \* the stored rows, by position from zero
  open    \* a process holds the files

vars == <<count, rows, open>>

TypeOK ==
  /\ count \in Nat
  /\ rows \in [0 .. (count - 1) -> Row]
  /\ open \in BOOLEAN

Init ==
  /\ count = 0
  /\ DOMAIN rows = {}
  /\ open \in BOOLEAN

Open ==
  /\ ~open
  /\ open' = TRUE
  /\ UNCHANGED <<count, rows>>

Close ==
  /\ open
  /\ open' = FALSE
  /\ UNCHANGED <<count, rows>>

(* At most Capacity rows are added behind the stored ones. *)
AppendRows ==
  /\ open
  /\ count' \in count .. (count + Capacity)
  /\ rows' \in [0 .. (count' - 1) -> Row]
  /\ \A r \in 0 .. (count - 1) : rows'[r] = rows[r]
  /\ UNCHANGED open

Clear ==
  /\ open
  /\ count' = 0
  /\ DOMAIN rows' = {}
  /\ UNCHANGED open

(* One stored row gets another value in one column. *)
ChangeColumn ==
  /\ open
  /\ \E r \in 0 .. (count - 1) :
       /\ \E c \in DOMAIN rows[r] :
            /\ rows' \in [0 .. (count - 1) -> Row]
            /\ \A d \in DOMAIN rows[r] \ {c} : rows'[r][d] = rows[r][d]
       /\ \A q \in 0 .. (count - 1) : q # r => rows'[q] = rows[q]
  /\ UNCHANGED <<count, open>>

Next ==
  \/ Open
  \/ Close
  \/ AppendRows
  \/ Clear
  \/ ChangeColumn

Spec == Init /\ [][Next]_vars
=============================================================================
