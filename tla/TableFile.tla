----------------------------- MODULE TableFile -----------------------------
(***************************************************************************)
(* The files of one persistent table and the statements that change them   *)
(* (flush_buffer and run_single_node in Core/DBConnection.cpp,             *)
(* Core/state.cpp).  The record file holds a header with the number of     *)
(* records and the records.  Of the index file a table only uses the row   *)
(* count: here it is that count, in memory and in the file, as the counter *)
(* that BTreeIndex implements.  Both counts are kept in memory and written *)
(* to their file on their own, and one write is one step.                  *)
(*                                                                         *)
(* All columns have one type: fill_column stops the process on a value     *)
(* whose size is not the column's, and copies it otherwise.  A write error *)
(* ends the process as well (OK_VERIFY), so Stop covers it.                *)
(***************************************************************************)
EXTENDS Integers, Sequences, FiniteSets

CONSTANTS
  Columns,        \* the number of columns of the table
  Values,         \* what a column can hold; zero is what an unwritten one reads
  Capacity,       \* DB_RECORD_BUFFER_CAPACITY (32 in the code)
  MaxBatch,       \* bound: rows of one INSERT
  AnyColumnOrder, \* INSERT names the columns in any order, not only the table's
  MaxStatements,  \* bound: statements begun
  MaxOpens        \* bound: times the files are opened again

Cols == 1 .. Columns

(* The column list of an INSERT names every column once, in some order. *)
ColumnLists ==
  {l \in [Cols -> Cols] :
     /\ \A c \in Cols : \E p \in Cols : l[p] = c
     /\ AnyColumnOrder \/ \A p \in Cols : l[p] = p}

ASSUME TableAssumption ==
  /\ Columns \in Nat \ {0}
  /\ Values \subseteq Nat
  /\ 0 \in Values
  /\ Capacity \in Nat \ {0}

ASSUME StatementAssumption ==
  /\ MaxBatch \in Nat
  /\ AnyColumnOrder \in BOOLEAN
  /\ MaxStatements \in Nat
  /\ MaxOpens \in Nat

VARIABLES
  kvDisk,      \* kv_count in the header page of the index file
  countDisk,   \* record_count in the header of the record file
  records,     \* the records of the record file, by position from zero
  status,      \* "open" while a process holds the table, else why it does not
  kvMem,       \* rows_count(): BTreeIndex::total_kv_count()
  countMem,    \* DBState::header.record_count
  pc,          \* where the statement in progress stands
  todo,        \* rows of the INSERT that were not looked at yet
  buffer,      \* records_buffer, up to records_buffer_count
  last,        \* the flush in progress is the one after the loop
  at,          \* the row a flush or an UPDATE has reached
  target,      \* column and source of the UPDATE
  meant,       \* the rows the INSERT was given, by the names of their columns
  acked,       \* what the completed statements should have left in the table
  cut,         \* the kinds of statement that a stop has cut short
  begun, opens \* the counters behind MaxStatements and MaxOpens

disk      == <<kvDisk, countDisk, records>>
memory    == <<kvMem, countMem>>
statement == <<pc, todo, buffer, last, at, target, meant>>
ghosts    == <<acked, cut, begun, opens>>
vars      == <<disk, status, memory, statement, ghosts>>
-----------------------------------------------------------------------------
(* Rows and records. *)

Row     == [Cols -> Values]
ZeroRow == [c \in Cols |-> 0]
NoRows  == [r \in {} |-> ZeroRow]

(* The source of an UPDATE: a constant or another column. *)
Sources == [kind : {"value"}, arg : Values] \cup [kind : {"column"}, arg : Cols]
Targets == [column : Cols, source : Sources]
NoTarget == [column |-> 1, source |-> [kind |-> "value", arg |-> 0]]

(* The row an INSERT names with its column list and the values it gives. *)
Named(list, given) == [c \in Cols |-> given[CHOOSE p \in Cols : list[p] = c]]

(* What is in the record file at a position; a gap reads as zeros. *)
RecordAt(r) == IF r \in DOMAIN records THEN records[r] ELSE ZeroRow

(* seek and write of a record. *)
WriteRecord(r, row) ==
  records' = [q \in DOMAIN records \cup {r} |-> IF q = r THEN row ELSE records[q]]

Assigned(row) ==
  [c \in Cols |->
     IF c # target.column THEN row[c]
     ELSE IF target.source.kind = "value" THEN target.source.arg
     ELSE row[target.source.arg]]
-----------------------------------------------------------------------------
(* The life of the files and of the process that holds them. *)

NoStatement ==
  /\ pc' = "idle"
  /\ todo' = <<>>
  /\ buffer' = <<>>
  /\ last' = FALSE
  /\ at' = 0
  /\ target' = NoTarget
  /\ meant' = <<>>

(* create_new_table on files that did not exist before. *)
Init ==
  /\ kvDisk = 0
  /\ countDisk = 0
  /\ records = NoRows
  /\ status = "open"
  /\ kvMem = 0
  /\ countMem = 0
  /\ pc = "idle"
  /\ todo = <<>>
  /\ buffer = <<>>
  /\ last = FALSE
  /\ at = 0
  /\ target = NoTarget
  /\ meant = <<>>
  /\ acked = NoRows
  /\ cut = {}
  /\ begun = 0
  /\ opens = 0

(* Faulty variant: the count of a process that came before is not read. *)
Open_Recreate ==
  /\ status # "open"
  /\ opens < MaxOpens
  /\ status' = "open"
  /\ kvMem' = kvDisk
  /\ countMem' = 0
  /\ opens' = opens + 1
  /\ UNCHANGED <<disk, statement, acked, cut, begun>>

(* load_existing_table: the index and db_state_load read their headers. *)
Open ==
  /\ status # "open"
  /\ opens < MaxOpens
  /\ status' = "open"
  /\ kvMem' = kvDisk
  /\ countMem' = countDisk
  /\ opens' = opens + 1
  /\ UNCHANGED <<disk, statement, acked, cut, begun>>

InProgress ==
  IF pc \in {"rows", "index", "record"} THEN {"insert"}
  ELSE IF pc = "resetState" THEN {"delete"}
  ELSE IF pc = "cells" THEN {"update"}
  ELSE {}

Leave(why) ==
  /\ status = "open"
  /\ status' = why
  /\ kvMem' = 0
  /\ countMem' = 0
  /\ NoStatement
  /\ cut' = cut \cup InProgress
  /\ UNCHANGED <<disk, acked, begun, opens>>

(* The process goes away, between statements or at any write of one. *)
Stop == Leave("closed")

(* A SELECT of a column takes rows_count() values from a stream that ends   *)
(* after record_count records; .get() on the missing value stops the server. *)
SelectShort ==
  /\ pc = "idle"
  /\ kvMem > countMem
  /\ Leave("select_trap")

Begin ==
  /\ status = "open"
  /\ pc = "idle"
  /\ begun < MaxStatements
  /\ begun' = begun + 1
-----------------------------------------------------------------------------
(* INSERT.  fill_column is called with the position of a value and not with  *)
(* the column it is given for: the rows are stored as the values come.       *)

Insert(list, batch) ==
  /\ Begin
  /\ pc' = "rows"
  /\ todo' = batch
  /\ meant' = [k \in DOMAIN batch |-> Named(list, batch[k])]
  /\ UNCHANGED <<disk, status, memory, buffer, last, at, target, acked, cut,
                 opens>>

InRows == status = "open" /\ pc = "rows"

(* Faulty variant: the buffer takes rows beyond its capacity. *)
BufferRow_NoFullCheck ==
  /\ InRows
  /\ todo # <<>>
  /\ buffer' = Append(buffer, Head(todo))
  /\ todo' = Tail(todo)
  /\ UNCHANGED <<disk, status, memory, pc, last, at, target, meant, ghosts>>

BufferRow ==
  /\ InRows
  /\ todo # <<>>
  /\ Len(buffer) < Capacity
  /\ buffer' = Append(buffer, Head(todo))
  /\ todo' = Tail(todo)
  /\ UNCHANGED <<disk, status, memory, pc, last, at, target, meant, ghosts>>

(* The buffer is full: it is flushed, and the row at hand is never put into *)
(* the buffer again.                                                        *)
FlushFullBuffer ==
  /\ InRows
  /\ todo # <<>>
  /\ Len(buffer) = Capacity
  /\ todo' = Tail(todo)
  /\ pc' = "index"
  /\ UNCHANGED <<disk, status, memory, buffer, last, at, target, meant, ghosts>>

(* The flush after the loop, of an empty buffer too. *)
FlushRest ==
  /\ InRows
  /\ todo = <<>>
  /\ pc' = "index"
  /\ last' = TRUE
  /\ UNCHANGED <<disk, status, memory, todo, buffer, at, target, meant, ghosts>>

Flushing == status = "open" /\ pc = "index"

(* BTreeIndex::insert, for its table one more row. *)
FlushIndex ==
  /\ Flushing
  /\ at < Len(buffer)
  /\ kvMem' = kvMem + 1
  /\ kvDisk' = kvMem'
  /\ pc' = "record"
  /\ UNCHANGED <<countDisk, records, status, countMem, todo, buffer, last, at,
                 target, meant, ghosts>>

(* Faulty variant: the record goes where the row after the last one goes. *)
FlushRecord_OneLate ==
  /\ status = "open"
  /\ pc = "record"
  /\ WriteRecord(countMem + at + 1, buffer[at + 1])
  /\ at' = at + 1
  /\ pc' = "index"
  /\ UNCHANGED <<kvDisk, countDisk, status, memory, todo, buffer, last, target,
                 meant, ghosts>>

FlushRecord ==
  /\ status = "open"
  /\ pc = "record"
  /\ WriteRecord(countMem + at, buffer[at + 1])
  /\ at' = at + 1
  /\ pc' = "index"
  /\ UNCHANGED <<kvDisk, countDisk, status, memory, todo, buffer, last, target,
                 meant, ghosts>>

(* Faulty variant: a flush counts a full buffer whatever it holds. *)
SyncCount_FullBuffer ==
  /\ Flushing
  /\ at = Len(buffer)
  /\ countMem' = countMem + Capacity
  /\ countDisk' = countMem'

(* record_count += the rows of the buffer, and db_state_sync. *)
SyncCount ==
  /\ Flushing
  /\ at = Len(buffer)
  /\ countMem' = countMem + Len(buffer)
  /\ countDisk' = countMem'

FlushSync ==
  /\ SyncCount
  /\ ~last
  /\ pc' = "rows"
  /\ buffer' = <<>>
  /\ at' = 0
  /\ UNCHANGED <<kvDisk, records, status, kvMem, todo, last, target, meant,
                 ghosts>>

AckedRows == Cardinality(DOMAIN acked)

FlushSyncLast ==
  /\ SyncCount
  /\ last
  /\ acked' = [r \in 0 .. (AckedRows + Len(meant) - 1) |->
                 IF r < AckedRows THEN acked[r] ELSE meant[r - AckedRows + 1]]
  /\ NoStatement
  /\ UNCHANGED <<kvDisk, records, status, kvMem, cut, begun, opens>>
-----------------------------------------------------------------------------
(* DELETE: the index is reset before the record file. *)

Delete ==
  /\ Begin
  /\ kvMem' = 0
  /\ kvDisk' = 0
  /\ pc' = "resetState"
  /\ UNCHANGED <<countDisk, records, status, countMem, todo, buffer, last, at,
                 target, meant, acked, cut, opens>>

(* Faulty variant: the header in the file keeps the old count. *)
DeleteRecords_MemoryOnly ==
  /\ status = "open"
  /\ pc = "resetState"
  /\ countMem' = 0
  /\ acked' = NoRows
  /\ NoStatement
  /\ UNCHANGED <<disk, status, kvMem, cut, begun, opens>>

(* db_state_reset: the records stay in the file. *)
DeleteRecords ==
  /\ status = "open"
  /\ pc = "resetState"
  /\ countMem' = 0
  /\ countDisk' = 0
  /\ acked' = NoRows
  /\ NoStatement
  /\ UNCHANGED <<kvDisk, records, status, kvMem, cut, begun, opens>>
-----------------------------------------------------------------------------
(* UPDATE of one column, row by row in place, for the rows of rows_count(). *)

Update(t) ==
  /\ Begin
  /\ pc' = "cells"
  /\ target' = t
  /\ UNCHANGED <<disk, status, memory, todo, buffer, last, at, meant, acked,
                 cut, opens>>

AtCell == status = "open" /\ pc = "cells" /\ at < kvMem

SourceEnded == target.source.kind = "column" /\ at >= countMem

UpdateCell ==
  /\ AtCell
  /\ ~SourceEnded
  /\ WriteRecord(at, Assigned(RecordAt(at)))
  /\ at' = at + 1
  /\ UNCHANGED <<kvDisk, countDisk, status, memory, pc, todo, buffer, last,
                 target, meant, ghosts>>

(* OK_VERIFY(val_opt): the column stream has fewer values than the table    *)
(* has rows.                                                                *)
UpdateShort ==
  /\ AtCell
  /\ SourceEnded
  /\ Leave("update_trap")

UpdateDone ==
  /\ status = "open"
  /\ pc = "cells"
  /\ at = kvMem
  /\ acked' = [r \in DOMAIN acked |->
                 IF r < kvMem THEN Assigned(acked[r]) ELSE acked[r]]
  /\ NoStatement
  /\ UNCHANGED <<disk, status, memory, cut, begun, opens>>
-----------------------------------------------------------------------------
InsertAny ==
  \E list \in ColumnLists, n \in 1 .. MaxBatch :
    \E batch \in [1 .. n -> Row] : Insert(list, batch)

UpdateAny == \E t \in Targets : Update(t)

Next ==
  \/ Open
  \/ Stop
  \/ SelectShort
  \/ InsertAny
  \/ BufferRow
  \/ FlushFullBuffer
  \/ FlushRest
  \/ FlushIndex
  \/ FlushRecord
  \/ FlushSync
  \/ FlushSyncLast
  \/ Delete
  \/ DeleteRecords
  \/ UpdateAny
  \/ UpdateCell
  \/ UpdateShort
  \/ UpdateDone

Spec == Init /\ [][Next]_vars
-----------------------------------------------------------------------------
(* Properties. *)

Quiet == status = "open" /\ pc = "idle"

(* The records the header of the file counts. *)
StoredCount == IF status = "open" THEN countMem ELSE countDisk
StoredRows  == [r \in 0 .. (StoredCount - 1) |-> RecordAt(r)]

(* Every variable keeps its shape; in particular the record file has no gap *)
(* and the buffer of an INSERT never takes more rows than it has room for.  *)
TypeOK ==
  /\ kvDisk \in Nat
  /\ countDisk \in Nat
  /\ records \in [DOMAIN records -> Row]
  /\ DOMAIN records \subseteq Nat
  /\ \A r \in DOMAIN records : 0 .. r \subseteq DOMAIN records
  /\ status \in {"open", "closed", "select_trap", "update_trap"}
  /\ kvMem \in Nat
  /\ countMem \in Nat
  /\ pc \in {"idle", "rows", "index", "record", "resetState", "cells"}
  /\ todo \in Seq(Row)
  /\ buffer \in Seq(Row)
  /\ Len(buffer) <= Capacity
  /\ last \in BOOLEAN
  /\ at \in Nat
  /\ target \in Targets
  /\ meant \in Seq(Row)
  /\ AckedRows \in Nat
  /\ acked \in [0 .. (AckedRows - 1) -> Row]
  /\ cut \subseteq {"insert", "delete", "update"}
  /\ begun \in Nat
  /\ opens \in Nat

(* While no statement was cut short a SELECT returns exactly the rows that  *)
(* the completed statements leave, in order: rows_count() counts the        *)
(* records of the file, and they are the rows that were inserted and not    *)
(* deleted, as updated.                                                     *)
SelectReturnsCompleted ==
  Quiet /\ cut = {} => kvMem = countMem /\ StoredRows = acked

(* An INSERT whose rows fit the buffer is stored whole or not at all, and a *)
(* DELETE takes effect as a whole, wherever the process stops: unless an    *)
(* UPDATE is under way or was cut short, the records the header counts are  *)
(* those of completed statements.                                           *)
StatementsStoredWhole ==
  pc # "cells" /\ "update" \notin cut => StoredRows = acked

(* The index is never behind the record file, unless a DELETE is under way  *)
(* or was cut short: every stored row is within rows_count(), whatever      *)
(* write the process last made.                                             *)
IndexNotBehind ==
  pc # "resetState" /\ "delete" \notin cut =>
    (IF status = "open" THEN kvMem ELSE kvDisk) >= StoredCount

(* "INSERT ... VALUES (1), (2), (3)" is followed by a SELECT of all of its  *)
(* rows (DBConnection-test.cpp:349-395), and by README.md:40-41.            *)
InsertedRowsSelected ==
  Quiet /\ cut = {} => DOMAIN StoredRows = DOMAIN acked

(* The records are a store of rows that only a whole flush, a DELETE and    *)
(* the write of one cell change, and that no stop or restart affects.       *)
Store == INSTANCE RowStore WITH
  count <- StoredCount,
  rows  <- StoredRows,
  open  <- status = "open"

StoreSpec == Store!Spec
-----------------------------------------------------------------------------
(* The invariants behind the properties. *)

(* The record file always reaches as far as its header and the flush or     *)
(* UPDATE in progress need it, and the headers in memory are those of the   *)
(* files.                                                                   *)
FilesInv ==
  /\ 0 .. (countDisk - 1) \subseteq DOMAIN records
  /\ status = "open" => kvMem = kvDisk /\ countMem = countDisk
  /\ status # "open" => pc = "idle" /\ kvMem = 0 /\ countMem = 0
  /\ pc \in {"index", "record"} =>
       0 .. (countMem + at - 1) \subseteq DOMAIN records
  /\ pc = "cells" => 0 .. (at - 1) \subseteq DOMAIN records

StepInv ==
  /\ pc \in {"idle", "rows"} => at = 0 /\ ~last
  /\ pc = "idle" => buffer = <<>>
  /\ pc = "index" => at <= Len(buffer)
  /\ pc = "record" => at < Len(buffer)
  /\ pc = "cells" => at <= kvMem

IndInv == TypeOK /\ FilesInv /\ StepInv

(* An INSERT in progress holds exactly the rows it was given: first in the  *)
(* buffer and the rest still to do, then all of them in the buffer, the     *)
(* first ones written behind the counted records.                           *)
InsertInv ==
  /\ pc = "rows" =>
       /\ Len(buffer) + Len(todo) = Len(meant)
       /\ Len(meant) <= Capacity
       /\ \A k \in 1 .. Len(buffer) : buffer[k] = meant[k]
       /\ \A k \in 1 .. Len(todo) : todo[k] = meant[Len(buffer) + k]
  /\ pc \in {"index", "record"} =>
       /\ last
       /\ buffer = meant
       /\ \A k \in 1 .. at : RecordAt(countMem + k - 1) = meant[k]

(* The counted records are the acknowledged rows, of which an UPDATE in     *)
(* progress has changed the first ones.                                     *)
RowsInv ==
  /\ DOMAIN acked = 0 .. (countDisk - 1)
  /\ "update" \notin cut =>
       \A r \in DOMAIN acked :
         RecordAt(r) = IF pc = "cells" /\ r < at THEN Assigned(acked[r])
                                                 ELSE acked[r]

(* Unless a statement was cut short, the index is ahead of the record count *)
(* by what the flush in progress has done.                                  *)
CountInv ==
  cut = {} =>
    /\ pc \in {"idle", "rows", "cells"} => kvDisk = countDisk
    /\ pc = "index" => kvDisk = countDisk + at
    /\ pc = "record" => kvDisk = countDisk + at + 1
    /\ pc = "resetState" => kvDisk = 0

(* Unless a DELETE was, it is never behind.                                 *)
AheadInv ==
  "delete" \notin cut =>
    /\ pc # "resetState" => kvDisk >= countDisk
    /\ pc = "index" => kvDisk >= countDisk + at
    /\ pc = "record" => kvDisk >= countDisk + at + 1
=============================================================================
