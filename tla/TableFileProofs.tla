-------------------------- MODULE TableFileProofs --------------------------
(***************************************************************************)
(* Theorems about the files of a table, for every number of columns, every *)
(* set of values, every buffer capacity, and any number of statements,     *)
(* stops and restarts.  Files first: the invariants FilesInv and StepInv,  *)
(* and from them the refinement of RowStore; then the rows, under the      *)
(* conditions under which the code keeps its word.                         *)
(***************************************************************************)
EXTENDS TableFile, FiniteSetTheorems, SequenceTheorems, TLAPS

USE TableAssumption, StatementAssumption
-----------------------------------------------------------------------------
(* Rows. *)

(* A row of zeros is a row: zero is one of the values. *)
LEMMA ZeroRowType == ZeroRow \in Row
BY DEF ZeroRow, Row, Cols

(* Whatever is read at a position of the record file is a row. *)
LEMMA RecordType ==
  ASSUME TypeOK, NEW r
  PROVE  RecordAt(r) \in Row
BY ZeroRowType DEF RecordAt, TypeOK

(* The column list of an INSERT names every column, so the row it means is  *)
(* a row.                                                                   *)
LEMMA NamedType ==
  ASSUME NEW list \in ColumnLists, NEW given \in Row
  PROVE  Named(list, given) \in Row
<1>1. ASSUME NEW c \in Cols
      PROVE  given[CHOOSE p \in Cols : list[p] = c] \in Values
  <2>1. PICK p \in Cols : list[p] = c
    BY <1>1 DEF ColumnLists
  <2>2. (CHOOSE q \in Cols : list[q] = c) \in Cols
    BY <2>1
  <2> QED BY <2>2 DEF Row
<1> QED BY <1>1 DEF Named, Row

(* With the columns in the order of the table the meant row is the given. *)
LEMMA NamedInOrder ==
  ASSUME ~AnyColumnOrder, NEW list \in ColumnLists, NEW given \in Row
  PROVE  Named(list, given) = given
<1>1. \A p \in Cols : list[p] = p
  BY DEF ColumnLists
<1>2. ASSUME NEW c \in Cols
      PROVE  (CHOOSE p \in Cols : list[p] = c) = c
  BY <1>1
<1> DEFINE value(c) == given[CHOOSE p \in Cols : list[p] = c]
<1>3. \A c \in Cols : value(c) = given[c]
  BY <1>2
<1>4. Named(list, given) = [c \in Cols |-> value(c)]
  BY DEF Named
<1>5. Named(list, given) = [c \in Cols |-> given[c]]
  <2> HIDE DEF value
  <2> QED BY <1>3, <1>4
<1> QED BY <1>5 DEF Row

(* An assignment turns a row into a row. *)
LEMMA AssignedType ==
  ASSUME TypeOK, NEW row \in Row
  PROVE  Assigned(row) \in Row
<1>1. ASSUME NEW c \in Cols
      PROVE  Assigned(row)[c] \in Values
  <2>1. CASE target.source.kind = "value"
    <3>1. target.source.arg \in Values
      BY <2>1 DEF TypeOK, Targets, Sources
    <3> QED BY <2>1, <3>1 DEF Assigned, Row
  <2>2. CASE target.source.kind = "column"
    <3>1. target.source.arg \in Cols
      BY <2>2 DEF TypeOK, Targets, Sources
    <3> QED BY <2>2, <3>1 DEF Assigned, Row
  <2> QED BY <2>1, <2>2 DEF TypeOK, Targets, Sources
<1> QED BY <1>1 DEF Assigned, Row

(* Writing a record right behind a covered prefix leaves no gap. *)
LEMMA WriteRecordType ==
  ASSUME TypeOK, NEW r \in Nat, NEW row \in Row,
         0 .. (r - 1) \subseteq DOMAIN records,
         records' = [q \in DOMAIN records \cup {r} |->
                       IF q = r THEN row ELSE records[q]]
  PROVE  /\ records' \in [DOMAIN records' -> Row]
         /\ DOMAIN records' = DOMAIN records \cup {r}
         /\ DOMAIN records' \subseteq Nat
         /\ \A q \in DOMAIN records' : 0 .. q \subseteq DOMAIN records'
         /\ records'[r] = row
         /\ \A q \in DOMAIN records : q # r => records'[q] = records[q]
<1>1. /\ DOMAIN records' = DOMAIN records \cup {r}
      /\ records' = [q \in DOMAIN records' |-> records'[q]]
      /\ \A q \in DOMAIN records' : records'[q] = IF q = r THEN row ELSE records[q]
  OBVIOUS
<1>2. \A q \in DOMAIN records' : records'[q] \in Row
  BY <1>1 DEF TypeOK
<1>3. records' \in [DOMAIN records' -> Row]
  BY <1>1, <1>2
<1>4. DOMAIN records' \subseteq Nat
  BY <1>1 DEF TypeOK
<1>5. ASSUME NEW q \in DOMAIN records' PROVE 0 .. q \subseteq DOMAIN records'
  <2>1. CASE q = r
    BY <1>1, <2>1
  <2>2. CASE q \in DOMAIN records
    BY <1>1, <2>2 DEF TypeOK
  <2> QED BY <1>1, <2>1, <2>2
<1> QED BY <1>1, <1>3, <1>4, <1>5
-----------------------------------------------------------------------------
(* Files: TypeOK, FilesInv and StepInv are inductive.  TypeOK comes in four *)
(* parts, of which a step disturbs one or two.                              *)

FileType ==
  /\ kvDisk \in Nat
  /\ countDisk \in Nat
  /\ records \in [DOMAIN records -> Row]
  /\ DOMAIN records \subseteq Nat
  /\ \A r \in DOMAIN records : 0 .. r \subseteq DOMAIN records

MemoryType ==
  /\ status \in {"open", "closed", "select_trap", "update_trap"}
  /\ kvMem \in Nat
  /\ countMem \in Nat
  /\ cut \subseteq {"insert", "delete", "update"}
  /\ begun \in Nat
  /\ opens \in Nat

StatementType ==
  /\ pc \in {"idle", "rows", "index", "record", "resetState", "cells"}
  /\ todo \in Seq(Row)
  /\ buffer \in Seq(Row)
  /\ Len(buffer) <= Capacity
  /\ last \in BOOLEAN
  /\ at \in Nat
  /\ target \in Targets
  /\ meant \in Seq(Row)

AckedType ==
  /\ AckedRows \in Nat
  /\ acked \in [0 .. (AckedRows - 1) -> Row]

LEMMA TypeParts == TypeOK <=> FileType /\ MemoryType /\ StatementType /\ AckedType
BY DEF TypeOK, FileType, MemoryType, StatementType, AckedType

LEMMA TypePartsNext ==
  TypeOK' <=> FileType' /\ MemoryType' /\ StatementType' /\ AckedType'
BY TypeParts, PTL

LEMMA FileKept == FileType /\ UNCHANGED disk => FileType'
BY DEF FileType, disk

LEMMA AckedKept == AckedType /\ UNCHANGED acked => AckedType'
BY DEF AckedType, AckedRows

LEMMA StatementKept == StatementType /\ UNCHANGED statement => StatementType'
BY DEF StatementType, statement

LEMMA EmptyRows ==
  /\ <<>> \in Seq(Row)
  /\ Len(<<>>) = 0
OBVIOUS

LEMMA NoRowsType ==
  ASSUME NEW a, a = NoRows
  PROVE  /\ Cardinality(DOMAIN a) = 0
         /\ a \in [0 .. (0 - 1) -> Row]
         /\ DOMAIN a = {}
<1>1. DOMAIN a = {}
  BY DEF NoRows
<1>2. 0 .. (0 - 1) = {}
  OBVIOUS
<1>3. Cardinality(DOMAIN a) = 0
  BY <1>1, FS_EmptySet
<1> QED BY <1>1, <1>2, <1>3 DEF NoRows

LEMMA InitIndInv == Init => IndInv
<1> SUFFICES ASSUME Init PROVE IndInv
  OBVIOUS
<1>1. NoRows \in [DOMAIN NoRows -> Row] /\ DOMAIN NoRows = {}
  BY DEF NoRows
<1>2. NoTarget \in Targets
  BY DEF NoTarget, Targets, Sources, Cols
<1>3. AckedRows \in Nat /\ acked \in [0 .. (AckedRows - 1) -> Row]
  BY NoRowsType DEF Init, AckedRows
<1>6. /\ records \in [DOMAIN records -> Row]
      /\ DOMAIN records \subseteq Nat
      /\ \A r \in DOMAIN records : 0 .. r \subseteq DOMAIN records
  BY <1>1 DEF Init
<1>7. todo \in Seq(Row) /\ buffer \in Seq(Row) /\ meant \in Seq(Row)
  BY EmptyRows DEF Init
<1>8. Len(buffer) <= Capacity
  BY EmptyRows DEF Init
<1>4. TypeOK
  <2>1. FileType
    BY <1>6 DEF Init, FileType
  <2>2. MemoryType
    BY DEF Init, MemoryType
  <2>3. StatementType
    BY <1>2, <1>7, <1>8 DEF Init, StatementType
  <2>4. AckedType
    BY <1>3 DEF AckedType
  <2> QED BY <2>1, <2>2, <2>3, <2>4, TypeParts
<1>5. FilesInv /\ StepInv
  BY <1>1 DEF Init, FilesInv, StepInv
<1> QED BY <1>4, <1>5 DEF IndInv

(* Once a statement is over its variables have their initial values. *)
LEMMA NoStatementType ==
  ASSUME NoStatement
  PROVE  /\ pc' = "idle" /\ at' = 0 /\ ~last' /\ buffer' = <<>>
         /\ todo' \in Seq(Row) /\ buffer' \in Seq(Row) /\ meant' \in Seq(Row)
         /\ Len(buffer') <= Capacity /\ last' \in BOOLEAN /\ at' \in Nat
         /\ target' \in Targets
<1>1. NoTarget \in Targets
  BY DEF NoTarget, Targets, Sources, Cols
<1>2. Len(buffer') <= Capacity
  BY EmptyRows DEF NoStatement
<1>3. todo' \in Seq(Row) /\ buffer' \in Seq(Row) /\ meant' \in Seq(Row)
  BY EmptyRows DEF NoStatement
<1> QED BY <1>1, <1>2, <1>3 DEF NoStatement

LEMMA NoStatementKeeps == NoStatement => StatementType'
BY NoStatementType DEF StatementType

LEMMA LifeInv ==
  ASSUME IndInv, Open \/ Stop \/ SelectShort \/ UpdateShort
  PROVE  IndInv'
<1> USE DEF IndInv
<1>1. CASE Open
  <2>1. UNCHANGED <<disk, statement, acked, cut, begun>>
    BY <1>1 DEF Open
  <2>2. TypeOK'
    <3>1. FileType' /\ StatementType' /\ AckedType'
      BY <2>1, TypeParts, FileKept, StatementKept, AckedKept
    <3>2. MemoryType'
      BY <1>1, TypeParts DEF Open, MemoryType, FileType
    <3> QED BY <3>1, <3>2, TypePartsNext
  <2>3. FilesInv' /\ StepInv'
    BY <1>1 DEF Open, FilesInv, StepInv, TypeOK, disk, statement
  <2> QED BY <2>2, <2>3
<1>2. ASSUME NEW why \in {"closed", "select_trap", "update_trap"}, Leave(why)
      PROVE  IndInv'
  <2>1. NoStatement
    BY <1>2 DEF Leave
  <2>2. TypeOK'
    <3>1. FileType' /\ StatementType' /\ AckedType'
      BY <1>2, <2>1, TypeParts, FileKept, NoStatementKeeps, AckedKept DEF Leave
    <3>2. MemoryType'
      BY <1>2, TypeParts DEF Leave, InProgress, MemoryType
    <3> QED BY <3>1, <3>2, TypePartsNext
  <2>3. FilesInv' /\ StepInv'
    BY <1>2, <2>1, NoStatementType DEF Leave, FilesInv, StepInv, TypeOK, disk
  <2> QED BY <2>2, <2>3
<1> QED BY <1>1, <1>2 DEF Stop, SelectShort, UpdateShort

LEMMA InsertInIndInv ==
  ASSUME IndInv, InsertAny
  PROVE  IndInv'
<1> USE DEF IndInv
<1>1. PICK list \in ColumnLists, n \in 1 .. MaxBatch :
        \E batch \in [1 .. n -> Row] : Insert(list, batch)
  BY DEF InsertAny
<1>2. PICK batch \in [1 .. n -> Row] : Insert(list, batch)
  BY <1>1
<1>3. n \in Nat
  OBVIOUS
<1>4. todo' \in Seq(Row)
  BY <1>2, <1>3 DEF Insert
<1>5. meant' \in Seq(Row)
  <2>1. \A k \in 1 .. n : Named(list, batch[k]) \in Row
    BY NamedType
  <2>2. meant' = [k \in 1 .. n |-> Named(list, batch[k])]
    BY <1>2 DEF Insert
  <2> QED BY <1>3, <2>1, <2>2
<1>6. TypeOK'
  <2>1. FileType' /\ AckedType'
    BY <1>2, TypeParts, FileKept, AckedKept DEF Insert
  <2>2. MemoryType'
    BY <1>2, TypeParts DEF Insert, Begin, MemoryType, memory
  <2>3. StatementType'
    BY <1>2, <1>4, <1>5, TypeParts DEF Insert, StatementType
  <2> QED BY <2>1, <2>2, <2>3, TypePartsNext
<1>7. FilesInv' /\ StepInv'
  BY <1>2 DEF Insert, Begin, FilesInv, StepInv, TypeOK, disk, memory
<1> QED BY <1>6, <1>7

LEMMA RowsStepInv ==
  ASSUME IndInv, BufferRow \/ FlushFullBuffer \/ FlushRest
  PROVE  IndInv'
<1> USE DEF IndInv
<1>1. CASE BufferRow
  <2>1. Head(todo) \in Row /\ Tail(todo) \in Seq(Row)
    <3>1. todo \in Seq(Row) /\ todo # <<>>
      BY <1>1 DEF BufferRow, TypeOK
    <3> HIDE DEF IndInv
    <3> QED BY <3>1
  <2>2. buffer' \in Seq(Row) /\ Len(buffer') <= Capacity /\ todo' \in Seq(Row)
    <3>1. /\ buffer' = Append(buffer, Head(todo)) /\ todo' = Tail(todo)
          /\ Len(buffer) < Capacity
      BY <1>1 DEF BufferRow
    <3>2. buffer \in Seq(Row) /\ Capacity \in Nat
      BY TableAssumption DEF TypeOK
    <3> HIDE DEF IndInv
    <3> QED BY <2>1, <3>1, <3>2
  <2>3. TypeOK'
    <3>1. FileType' /\ AckedType'
      BY <1>1, TypeParts, FileKept, AckedKept DEF BufferRow, ghosts
    <3>2. MemoryType'
      BY <1>1, TypeParts DEF BufferRow, MemoryType, memory, ghosts
    <3>3. StatementType'
      BY <1>1, <2>2, TypeParts DEF BufferRow, StatementType
    <3> QED BY <3>1, <3>2, <3>3, TypePartsNext
  <2>4. FilesInv' /\ StepInv'
    BY <1>1 DEF BufferRow, InRows, FilesInv, StepInv, TypeOK, disk, memory
  <2> QED BY <2>3, <2>4
<1>2. CASE FlushFullBuffer
  <2>1. Tail(todo) \in Seq(Row)
    BY <1>2 DEF FlushFullBuffer, TypeOK
  <2>2. TypeOK'
    <3>1. FileType' /\ AckedType'
      BY <1>2, TypeParts, FileKept, AckedKept DEF FlushFullBuffer, ghosts
    <3>2. MemoryType'
      BY <1>2, TypeParts DEF FlushFullBuffer, MemoryType, memory, ghosts
    <3>3. StatementType'
      BY <1>2, <2>1, TypeParts DEF FlushFullBuffer, StatementType
    <3> QED BY <3>1, <3>2, <3>3, TypePartsNext
  <2>3. FilesInv' /\ StepInv'
    BY <1>2 DEF FlushFullBuffer, InRows, FilesInv, StepInv, TypeOK, disk, memory
  <2> QED BY <2>2, <2>3
<1>3. CASE FlushRest
  <2>1. TypeOK'
    <3>1. FileType' /\ AckedType'
      BY <1>3, TypeParts, FileKept, AckedKept DEF FlushRest, ghosts
    <3>2. MemoryType'
      BY <1>3, TypeParts DEF FlushRest, MemoryType, memory, ghosts
    <3>3. StatementType'
      BY <1>3, TypeParts DEF FlushRest, StatementType
    <3> QED BY <3>1, <3>2, <3>3, TypePartsNext
  <2>2. FilesInv' /\ StepInv'
    BY <1>3 DEF FlushRest, InRows, FilesInv, StepInv, TypeOK, disk, memory
  <2> QED BY <2>1, <2>2
<1> QED BY <1>1, <1>2, <1>3

(* The rows of a finished INSERT follow the acknowledged ones. *)
LEMMA AckedGrows ==
  ASSUME TypeOK, FlushSyncLast
  PROVE  /\ AckedRows' = AckedRows + Len(meant)
         /\ acked' \in [0 .. (AckedRows' - 1) -> Row]
         /\ AckedRows' \in Nat
         /\ \A r \in 0 .. (AckedRows - 1) : acked'[r] = acked[r]
         /\ \A k \in 1 .. Len(meant) : acked'[AckedRows + k - 1] = meant[k]
<1> DEFINE n == AckedRows + Len(meant)
           value(r) == IF r < AckedRows THEN acked[r] ELSE meant[r - AckedRows + 1]
<1>1. AckedRows \in Nat /\ Len(meant) \in Nat /\ n \in Nat
  <2>1. AckedRows \in Nat /\ meant \in Seq(Row)
    BY DEF TypeOK
  <2> QED BY <2>1
<1>2. /\ DOMAIN acked' = 0 .. (n - 1)
      /\ acked' = [r \in DOMAIN acked' |-> acked'[r]]
      /\ \A r \in 0 .. (n - 1) : acked'[r] = value(r)
  <2>1. n - 1 = AckedRows + Len(meant) - 1
    BY <1>1
  <2>2. acked' = [r \in 0 .. (AckedRows + Len(meant) - 1) |-> value(r)]
    BY DEF FlushSyncLast
  <2> HIDE DEF n, value
  <2> QED BY <2>1, <2>2
<1>3. ASSUME NEW r \in 0 .. (n - 1) PROVE value(r) \in Row
  <2>1. CASE r < AckedRows
    <3>1. r \in 0 .. (AckedRows - 1)
      BY <1>1, <2>1
    <3>2. acked[r] \in Row
      BY <3>1 DEF TypeOK
    <3> QED BY <2>1, <3>2
  <2>2. CASE ~(r < AckedRows)
    <3>1. PICK k \in 1 .. Len(meant) : k = r - AckedRows + 1
      BY <1>1, <2>2
    <3>2. meant \in Seq(Row)
      BY DEF TypeOK
    <3>3. meant[k] \in Row
      BY <3>2
    <3> QED BY <2>2, <3>1, <3>3
  <2> QED BY <2>1, <2>2
<1>4. Cardinality(DOMAIN acked') = n
  <2>1. Cardinality(0 .. (n - 1)) = n
    <3>1. 0 \in Int /\ n - 1 \in Int
      BY <1>1
    <3>2. Cardinality(0 .. (n - 1)) = IF 0 > n - 1 THEN 0 ELSE (n - 1) - 0 + 1
      BY <3>1, FS_Interval
    <3> QED BY <1>1, <3>2
  <2> QED BY <1>2, <2>1
<1>5. AckedRows' = n
  BY <1>4 DEF AckedRows
<1>6. acked' \in [0 .. (n - 1) -> Row]
  <2> HIDE DEF value, n
  <2> QED BY <1>2, <1>3
<1>7. \A r \in 0 .. (AckedRows - 1) : acked'[r] = acked[r]
  BY <1>1, <1>2
<1>8. ASSUME NEW k \in 1 .. Len(meant)
      PROVE  acked'[AckedRows + k - 1] = meant[k]
  <2> DEFINE r == AckedRows + k - 1
  <2>1. r \in 0 .. (n - 1) /\ ~(r < AckedRows) /\ r - AckedRows + 1 = k
    BY <1>1
  <2> QED BY <1>2, <2>1
<1> QED BY <1>1, <1>5, <1>6, <1>7, <1>8

LEMMA FlushInv ==
  ASSUME IndInv, FlushIndex \/ FlushRecord \/ FlushSync \/ FlushSyncLast
  PROVE  IndInv'
<1> USE DEF IndInv
<1>1. CASE FlushIndex
  <2>1. TypeOK'
    <3>1. AckedType'
      BY <1>1, TypeParts, AckedKept DEF FlushIndex, ghosts
    <3>2. FileType' /\ MemoryType'
      BY <1>1, TypeParts DEF FlushIndex, FileType, MemoryType, ghosts
    <3>3. StatementType'
      BY <1>1, TypeParts DEF FlushIndex, StatementType
    <3> QED BY <3>1, <3>2, <3>3, TypePartsNext
  <2>2. FilesInv' /\ StepInv'
    BY <1>1 DEF FlushIndex, Flushing, FilesInv, StepInv, TypeOK
  <2> QED BY <2>1, <2>2
<1>2. CASE FlushRecord
  <2>0. pc = "record" /\ at \in Nat /\ countMem \in Nat /\ at + 1 \in 1 .. Len(buffer)
    <3>1. pc = "record" /\ at < Len(buffer)
      BY <1>2 DEF FlushRecord, StepInv
    <3>2. at \in Nat /\ countMem \in Nat /\ buffer \in Seq(Row)
      BY DEF TypeOK
    <3> HIDE DEF IndInv
    <3> QED BY <3>1, <3>2
  <2>1. /\ buffer[at + 1] \in Row
        /\ countMem + at \in Nat
        /\ 0 .. (countMem + at - 1) \subseteq DOMAIN records
    <3>1. buffer[at + 1] \in Row
      <4>1. buffer \in Seq(Row)
        BY DEF TypeOK
      <4> HIDE DEF IndInv
      <4> QED BY <2>0, <4>1
    <3>2. 0 .. (countMem + at - 1) \subseteq DOMAIN records
      BY <2>0 DEF FilesInv
    <3> QED BY <2>0, <3>1, <3>2
  <2>2. WriteRecord(countMem + at, buffer[at + 1])
    BY <1>2 DEF FlushRecord
  <2>3. /\ records' \in [DOMAIN records' -> Row]
        /\ DOMAIN records' = DOMAIN records \cup {countMem + at}
        /\ DOMAIN records' \subseteq Nat
        /\ \A q \in DOMAIN records' : 0 .. q \subseteq DOMAIN records'
    <3> DEFINE r == countMem + at
               row == buffer[at + 1]
    <3>1. records' = [q \in DOMAIN records \cup {r} |->
                        IF q = r THEN row ELSE records[q]]
      BY <2>2 DEF WriteRecord
    <3>2. TypeOK /\ r \in Nat /\ row \in Row
      BY <2>1
    <3>4. 0 .. (r - 1) \subseteq DOMAIN records
      <4>1. r - 1 = countMem + at - 1
        BY <2>0
      <4>2. 0 .. (countMem + at - 1) \subseteq DOMAIN records
        BY <2>1
      <4> HIDE DEF r
      <4> QED BY <4>1, <4>2
    <3>3. /\ records' \in [DOMAIN records' -> Row]
          /\ DOMAIN records' = DOMAIN records \cup {r}
          /\ DOMAIN records' \subseteq Nat
          /\ \A q \in DOMAIN records' : 0 .. q \subseteq DOMAIN records'
      <4> HIDE DEF r, row, IndInv
      <4> QED BY <3>1, <3>2, <3>4, WriteRecordType
    <3> QED BY <3>3
  <2>4. /\ at' = at + 1 /\ pc' = "index"
        /\ UNCHANGED <<kvDisk, countDisk, status, kvMem, countMem, todo, buffer,
                       last, target, meant, acked, cut, begun,
                       opens>>
    BY <1>2 DEF FlushRecord, memory, ghosts
  <2>5. TypeOK'
    <3>1. AckedType'
      BY <2>4, TypeParts, AckedKept
    <3>2. FileType'
      BY <2>4, <2>3, TypeParts DEF FileType
    <3>3. MemoryType' /\ StatementType'
      BY <2>4, TypeParts DEF MemoryType, StatementType
    <3> QED BY <3>1, <3>2, <3>3, TypePartsNext
  <2>6. FilesInv'
    <3>1. 0 .. (countDisk' - 1) \subseteq DOMAIN records'
      BY <2>3, <2>4 DEF FilesInv
    <3>2. 0 .. (countMem' + at' - 1) \subseteq DOMAIN records'
      <4>1. countMem' + at' - 1 = countMem + at
        BY <2>0, <2>4
      <4>2. ASSUME NEW q \in 0 .. (countMem + at) PROVE q \in DOMAIN records'
        <5> HIDE DEF IndInv
        <5>1. q = countMem + at \/ q \in 0 .. (countMem + at - 1)
          BY <2>0
        <5> QED BY <2>1, <2>3, <5>1
      <4> QED BY <4>1, <4>2
    <3> QED BY <1>2, <2>4, <3>1, <3>2 DEF FilesInv, FlushRecord
  <2>7. StepInv'
    BY <2>0, <2>4 DEF StepInv
  <2> QED BY <2>5, <2>6, <2>7
<1>3. CASE FlushSync
  <2>1. TypeOK'
    <3>1. AckedType'
      BY <1>3, TypeParts, AckedKept DEF FlushSync, ghosts
    <3>2. Len(buffer) \in Nat
      BY DEF TypeOK
    <3>3. FileType' /\ MemoryType'
      BY <1>3, <3>2, TypeParts DEF FlushSync, SyncCount, FileType, MemoryType, ghosts
    <3>4. StatementType'
      BY <1>3, EmptyRows, TypeParts DEF FlushSync, StatementType
    <3> QED BY <3>1, <3>3, <3>4, TypePartsNext
  <2>2. FilesInv' /\ StepInv'
    BY <1>3 DEF FlushSync, SyncCount, Flushing, FilesInv, StepInv, TypeOK
  <2> QED BY <2>1, <2>2
<1>4. CASE FlushSyncLast
  <2>1. NoStatement
    BY <1>4 DEF FlushSyncLast
  <2>2. AckedRows' \in Nat /\ acked' \in [0 .. (AckedRows' - 1) -> Row]
    BY <1>4, AckedGrows
  <2>5. /\ countMem' = countMem + Len(buffer) /\ countDisk' = countMem'
        /\ UNCHANGED <<kvDisk, records, status, kvMem, cut, begun, opens>>
    BY <1>4 DEF FlushSyncLast, SyncCount
  <2>3. TypeOK'
    <3>1. Len(buffer) \in Nat
      BY DEF TypeOK
    <3>2. FileType' /\ MemoryType'
      BY <2>5, <3>1, TypeParts DEF FileType, MemoryType
    <3>3. AckedType'
      BY <2>2 DEF AckedType
    <3> QED BY <2>1, <3>2, <3>3, NoStatementKeeps, TypePartsNext
  <2>4. FilesInv' /\ StepInv'
    BY <1>4, <2>1, NoStatementType
    DEF FlushSyncLast, SyncCount, Flushing, FilesInv, StepInv, TypeOK
  <2> QED BY <2>3, <2>4
<1> QED BY <1>1, <1>2, <1>3, <1>4

LEMMA DeleteInv ==
  ASSUME IndInv, Delete \/ DeleteRecords
  PROVE  IndInv'
<1> USE DEF IndInv
<1>1. CASE Delete
  <2>1. TypeOK'
    <3>1. AckedType'
      BY <1>1, TypeParts, AckedKept DEF Delete
    <3>2. FileType' /\ MemoryType'
      BY <1>1, TypeParts DEF Delete, Begin, FileType, MemoryType
    <3>3. StatementType'
      BY <1>1, TypeParts DEF Delete, StatementType
    <3> QED BY <3>1, <3>2, <3>3, TypePartsNext
  <2>2. FilesInv' /\ StepInv'
    BY <1>1 DEF Delete, Begin, FilesInv, StepInv, TypeOK
  <2> QED BY <2>1, <2>2
<1>2. CASE DeleteRecords
  <2>1. NoStatement /\ acked' = NoRows
    BY <1>2 DEF DeleteRecords
  <2>2. AckedRows' \in Nat /\ acked' \in [0 .. (AckedRows' - 1) -> Row]
    BY <2>1, NoRowsType DEF AckedRows
  <2>3. TypeOK'
    <3>1. FileType' /\ MemoryType'
      BY <1>2, TypeParts DEF DeleteRecords, FileType, MemoryType
    <3>2. AckedType'
      BY <2>2 DEF AckedType
    <3> QED BY <2>1, <3>1, <3>2, NoStatementKeeps, TypePartsNext
  <2>4. FilesInv' /\ StepInv'
    BY <1>2, <2>1, NoStatementType DEF DeleteRecords, FilesInv, StepInv, TypeOK
  <2> QED BY <2>3, <2>4
<1> QED BY <1>1, <1>2

(* The write of a cell replaces the row at hand by its assignment. *)
LEMMA UpdateCellWrites ==
  ASSUME IndInv, UpdateCell
  PROVE  /\ records' \in [DOMAIN records' -> Row]
         /\ DOMAIN records' = DOMAIN records \cup {at}
         /\ DOMAIN records' \subseteq Nat
         /\ \A q \in DOMAIN records' : 0 .. q \subseteq DOMAIN records'
         /\ records'[at] = Assigned(RecordAt(at))
         /\ \A q \in DOMAIN records : q # at => records'[q] = records[q]
<1> DEFINE row == Assigned(RecordAt(at))
<1>1. TypeOK /\ at \in Nat /\ row \in Row
  BY RecordType, AssignedType DEF IndInv, TypeOK
<1>2. 0 .. (at - 1) \subseteq DOMAIN records
  BY DEF IndInv, FilesInv, UpdateCell, AtCell
<1>3. records' = [q \in DOMAIN records \cup {at} |->
                    IF q = at THEN row ELSE records[q]]
  BY DEF UpdateCell, WriteRecord
<1>4. /\ records' \in [DOMAIN records' -> Row]
      /\ DOMAIN records' = DOMAIN records \cup {at}
      /\ DOMAIN records' \subseteq Nat
      /\ \A q \in DOMAIN records' : 0 .. q \subseteq DOMAIN records'
      /\ records'[at] = row
      /\ \A q \in DOMAIN records : q # at => records'[q] = records[q]
  <2> HIDE DEF row
  <2> QED BY <1>1, <1>2, <1>3, WriteRecordType
<1> QED BY <1>4

LEMMA UpdateInv ==
  ASSUME IndInv, UpdateAny \/ UpdateCell \/ UpdateDone
  PROVE  IndInv'
<1> USE DEF IndInv
<1>1. ASSUME NEW t \in Targets, Update(t)
      PROVE  IndInv'
  <2>1. TypeOK'
    <3>1. FileType' /\ AckedType'
      BY <1>1, TypeParts, FileKept, AckedKept DEF Update
    <3>2. MemoryType'
      BY <1>1, TypeParts DEF Update, Begin, MemoryType, memory
    <3>3. StatementType'
      BY <1>1, TypeParts DEF Update, StatementType
    <3> QED BY <3>1, <3>2, <3>3, TypePartsNext
  <2>2. FilesInv'
    BY <1>1 DEF Update, Begin, FilesInv, StepInv, disk, memory
  <2>3. StepInv'
    <3>1. at = 0 /\ ~last /\ at' = at /\ last' = last /\ pc' = "cells"
      BY <1>1 DEF Update, Begin, StepInv
    <3>2. kvMem' \in Nat
      BY <1>1 DEF Update, TypeOK, memory
    <3> QED BY <3>1, <3>2 DEF StepInv
  <2> QED BY <2>1, <2>2, <2>3
<1>2. CASE UpdateCell
  <2>1. /\ records' \in [DOMAIN records' -> Row]
        /\ DOMAIN records' = DOMAIN records \cup {at}
        /\ DOMAIN records' \subseteq Nat
        /\ \A q \in DOMAIN records' : 0 .. q \subseteq DOMAIN records'
    BY <1>2, UpdateCellWrites
  <2>2. /\ at' = at + 1 /\ status = "open" /\ pc = "cells" /\ at < kvMem
        /\ UNCHANGED <<kvDisk, countDisk, status, kvMem, countMem, pc, todo,
                       buffer, last, target, meant, acked, cut, begun,
                       opens>>
    BY <1>2 DEF UpdateCell, AtCell, memory, ghosts
  <2>3. TypeOK'
    <3>1. AckedType'
      BY <2>2, TypeParts, AckedKept
    <3>2. FileType'
      BY <2>2, <2>1, TypeParts DEF FileType
    <3>3. MemoryType' /\ StatementType'
      BY <2>2, TypeParts DEF MemoryType, StatementType
    <3> QED BY <3>1, <3>2, <3>3, TypePartsNext
  <2>4. FilesInv'
    <3>1. 0 .. (countDisk' - 1) \subseteq DOMAIN records'
      BY <2>1, <2>2 DEF FilesInv
    <3>2. 0 .. (at' - 1) \subseteq DOMAIN records'
      <4>1. at \in Nat /\ 0 .. (at - 1) \subseteq DOMAIN records
        BY <2>2 DEF FilesInv, TypeOK
      <4>2. ASSUME NEW q \in 0 .. (at' - 1) PROVE q \in DOMAIN records'
        <5> HIDE DEF IndInv
        <5>1. q = at \/ q \in 0 .. (at - 1)
          BY <2>2, <4>1
        <5> QED BY <2>1, <4>1, <5>1
      <4> QED BY <4>2
    <3> QED BY <2>2, <3>1, <3>2 DEF FilesInv
  <2>5. StepInv'
    <3>1. at \in Nat /\ kvMem \in Nat
      BY DEF TypeOK
    <3>2. at' <= kvMem'
      BY <2>2, <3>1
    <3> QED BY <2>2, <3>2 DEF StepInv
  <2> QED BY <2>3, <2>4, <2>5
<1>3. CASE UpdateDone
  <2>1. NoStatement
    BY <1>3 DEF UpdateDone
  <2>2. AckedRows' \in Nat /\ acked' \in [0 .. (AckedRows' - 1) -> Row]
    <3>1. acked' = [r \in DOMAIN acked |->
                     IF r < kvMem THEN Assigned(acked[r]) ELSE acked[r]]
      BY <1>3 DEF UpdateDone
    <3>2. AckedRows' = AckedRows
      BY <3>1 DEF AckedRows
    <3>3. DOMAIN acked = 0 .. (AckedRows - 1)
      BY DEF TypeOK
    <3>4. \A r \in 0 .. (AckedRows - 1) :
            Assigned(acked[r]) \in Row /\ acked[r] \in Row
      BY AssignedType DEF TypeOK
    <3>5. AckedRows \in Nat
      BY DEF TypeOK
    <3> QED BY <3>1, <3>2, <3>3, <3>4, <3>5
  <2>3. TypeOK'
    <3>1. FileType' /\ MemoryType'
      BY <1>3, TypeParts, FileKept DEF UpdateDone, MemoryType, memory
    <3>2. AckedType'
      BY <2>2 DEF AckedType
    <3> QED BY <2>1, <3>1, <3>2, NoStatementKeeps, TypePartsNext
  <2>4. FilesInv' /\ StepInv'
    BY <1>3, <2>1, NoStatementType DEF UpdateDone, FilesInv, StepInv, TypeOK, disk, memory
  <2> QED BY <2>3, <2>4
<1> QED BY <1>1, <1>2, <1>3 DEF UpdateAny

LEMMA NextInv == IndInv /\ [Next]_vars => IndInv'
<1> SUFFICES ASSUME IndInv, [Next]_vars PROVE IndInv'
  OBVIOUS
<1>1. CASE Open \/ Stop \/ SelectShort \/ UpdateShort
  BY <1>1, LifeInv
<1>2. CASE InsertAny
  BY <1>2, InsertInIndInv
<1>3. CASE BufferRow \/ FlushFullBuffer \/ FlushRest
  BY <1>3, RowsStepInv
<1>4. CASE FlushIndex \/ FlushRecord \/ FlushSync \/ FlushSyncLast
  BY <1>4, FlushInv
<1>5. CASE Delete \/ DeleteRecords
  BY <1>5, DeleteInv
<1>6. CASE UpdateAny \/ UpdateCell \/ UpdateDone
  BY <1>6, UpdateInv
<1>7. CASE UNCHANGED vars
  <2>1. TypeOK'
    BY <1>7 DEF AckedRows, IndInv, TypeOK, vars, disk, memory, statement, ghosts
  <2>2. FilesInv' /\ StepInv'
    BY <1>7 DEF IndInv, FilesInv, StepInv, vars, disk, memory, statement, ghosts
  <2> QED BY <2>1, <2>2 DEF IndInv
<1> QED BY <1>1, <1>2, <1>3, <1>4, <1>5, <1>6, <1>7 DEF Next

LEMMA SpecIndInv == Spec => []IndInv
BY InitIndInv, NextInv, PTL DEF Spec

(* Every variable keeps its shape, the record file has no gap and the       *)
(* buffer of an INSERT never overflows, whatever is stopped.                *)
THEOREM SpecTypeOK == Spec => []TypeOK
<1>1. IndInv => TypeOK
  BY DEF IndInv
<1> QED BY <1>1, SpecIndInv, PTL
-----------------------------------------------------------------------------
(* The records as a store of rows. *)

(* What a reader of the record file sees: the counted records and no more.  *)
View ==
  /\ StoredCount = countDisk
  /\ StoredCount \in Nat
  /\ StoredRows \in [0 .. (StoredCount - 1) -> Row]
  /\ \A r \in 0 .. (StoredCount - 1) :
       r \in DOMAIN records /\ StoredRows[r] = records[r]

LEMMA StoredView == IndInv => View
<1> SUFFICES ASSUME IndInv PROVE View
  OBVIOUS
<1>1. StoredCount = countDisk /\ StoredCount \in Nat
  BY DEF IndInv, FilesInv, TypeOK, StoredCount
<1>2. \A r \in 0 .. (StoredCount - 1) : RecordAt(r) \in Row
  BY RecordType DEF IndInv
<1>3. StoredRows = [r \in 0 .. (StoredCount - 1) |-> RecordAt(r)]
  BY DEF StoredRows
<1>4. StoredRows \in [0 .. (StoredCount - 1) -> Row]
  BY <1>2, <1>3
<1>5. \A r \in 0 .. (StoredCount - 1) : r \in DOMAIN records
  BY <1>1 DEF IndInv, FilesInv
<1>6. \A r \in 0 .. (StoredCount - 1) : StoredRows[r] = records[r]
  BY <1>3, <1>5 DEF RecordAt
<1> QED BY <1>1, <1>4, <1>5, <1>6 DEF View

LEMMA StoredViewNext == IndInv' => View'
BY StoredView, PTL

(* The view does not change when the count and the counted records do not.  *)
LEMMA SameView ==
  ASSUME IndInv, IndInv', countDisk' = countDisk,
         \A r \in 0 .. (countDisk - 1) : records'[r] = records[r]
  PROVE  StoredCount' = StoredCount /\ StoredRows' = StoredRows
<1>1. /\ StoredCount = countDisk /\ StoredCount' = countDisk
      /\ DOMAIN StoredRows = 0 .. (countDisk - 1)
      /\ DOMAIN StoredRows' = 0 .. (countDisk - 1)
      /\ StoredRows = [r \in DOMAIN StoredRows |-> StoredRows[r]]
      /\ StoredRows' = [r \in DOMAIN StoredRows' |-> StoredRows'[r]]
  BY StoredView, StoredViewNext DEF View
<1>2. \A r \in 0 .. (countDisk - 1) : StoredRows'[r] = StoredRows[r]
  BY <1>1, StoredView, StoredViewNext DEF View
<1> QED BY <1>1, <1>2

(* Steps that leave the count and the counted records alone are invisible;  *)
(* they may still open or close the table.                                  *)
LEMMA LifeStore ==
  ASSUME IndInv, IndInv', Open \/ Stop \/ SelectShort \/ UpdateShort
  PROVE  Store!Open \/ Store!Close
<1>1. CASE Open
  <2>1. countDisk' = countDisk /\ records' = records
    BY <1>1 DEF Open, disk
  <2>2. StoredCount' = StoredCount /\ StoredRows' = StoredRows
    BY <2>1, SameView
  <2> QED BY <1>1, <2>2 DEF Open, Store!Open
<1>2. ASSUME NEW why \in {"closed", "select_trap", "update_trap"}, Leave(why)
      PROVE  Store!Close
  <2>1. countDisk' = countDisk /\ records' = records
    BY <1>2 DEF Leave, disk
  <2>2. StoredCount' = StoredCount /\ StoredRows' = StoredRows
    BY <2>1, SameView
  <2> QED BY <1>2, <2>2 DEF Leave, Store!Close
<1> QED BY <1>1, <1>2 DEF Stop, SelectShort, UpdateShort

LEMMA QuietStore ==
  ASSUME IndInv, IndInv',
         \/ InsertAny \/ BufferRow \/ FlushFullBuffer \/ FlushRest
         \/ FlushIndex \/ Delete \/ UpdateAny \/ UpdateDone \/ UNCHANGED vars
  PROVE  UNCHANGED Store!vars
<1>1. countDisk' = countDisk /\ records' = records /\ status' = status
  BY DEF InsertAny, Insert, BufferRow, FlushFullBuffer, FlushRest, FlushIndex,
         Delete, UpdateAny, Update, UpdateDone, vars, disk
<1>2. StoredCount' = StoredCount /\ StoredRows' = StoredRows
  BY <1>1, SameView
<1> QED BY <1>1, <1>2 DEF Store!vars

(* A record is written behind the counted ones. *)
LEMMA FlushRecordWrites ==
  ASSUME IndInv, FlushRecord
  PROVE  /\ records'[countMem + at] = buffer[at + 1]
         /\ \A q \in DOMAIN records : q # countMem + at => records'[q] = records[q]
         /\ DOMAIN records' = DOMAIN records \cup {countMem + at}
         /\ countMem + at \in Nat
<1> DEFINE r == countMem + at
           row == buffer[at + 1]
<1>0. /\ pc = "record" /\ at \in Nat /\ countMem \in Nat
      /\ at + 1 \in 1 .. Len(buffer) /\ buffer \in Seq(Row)
  <2>1. pc = "record"
    BY DEF FlushRecord
  <2>2. at < Len(buffer)
    BY <2>1 DEF IndInv, StepInv
  <2>3. at \in Nat /\ countMem \in Nat /\ buffer \in Seq(Row)
    BY DEF IndInv, TypeOK
  <2> QED BY <2>1, <2>2, <2>3
<1>1. TypeOK /\ r \in Nat /\ row \in Row
  BY <1>0 DEF IndInv
<1>2. 0 .. (r - 1) \subseteq DOMAIN records
  <2>1. r - 1 = countMem + at - 1
    BY <1>0
  <2>2. 0 .. (countMem + at - 1) \subseteq DOMAIN records
    BY <1>0 DEF IndInv, FilesInv
  <2> HIDE DEF r
  <2> QED BY <2>1, <2>2
<1>3. records' = [q \in DOMAIN records \cup {r} |->
                    IF q = r THEN row ELSE records[q]]
  BY DEF FlushRecord, WriteRecord
<1>4. /\ records'[r] = row
      /\ \A q \in DOMAIN records : q # r => records'[q] = records[q]
      /\ DOMAIN records' = DOMAIN records \cup {r}
  <2> HIDE DEF r, row
  <2> QED BY <1>1, <1>2, <1>3, WriteRecordType
<1> QED BY <1>1, <1>4

LEMMA FlushRecordStore ==
  ASSUME IndInv, IndInv', FlushRecord
  PROVE  UNCHANGED Store!vars
<1>1. countDisk' = countDisk /\ status' = status /\ countMem = countDisk
  BY DEF FlushRecord, IndInv, FilesInv
<1>2. \A r \in 0 .. (countDisk - 1) : r \in DOMAIN records /\ r # countMem + at
  <2>1. at \in Nat /\ countDisk \in Nat
    BY DEF IndInv, TypeOK
  <2>2. 0 .. (countDisk - 1) \subseteq DOMAIN records
    BY DEF IndInv, FilesInv
  <2> QED BY <1>1, <2>1, <2>2
<1>3. \A r \in 0 .. (countDisk - 1) : records'[r] = records[r]
  BY <1>2, FlushRecordWrites
<1>4. StoredCount' = StoredCount /\ StoredRows' = StoredRows
  BY <1>1, <1>3, SameView
<1> QED BY <1>1, <1>4 DEF Store!vars

(* The end of a flush brings in the records of one buffer. *)
LEMMA SyncStore ==
  ASSUME IndInv, IndInv', FlushSync \/ FlushSyncLast
  PROVE  Store!AppendRows
<1>1. /\ status = "open" /\ status' = "open" /\ records' = records
      /\ countMem = countDisk
      /\ countDisk' = countDisk + Len(buffer)
  BY DEF FlushSync, FlushSyncLast, SyncCount, Flushing, IndInv, FilesInv
<1>2. Len(buffer) \in Nat /\ Len(buffer) <= Capacity /\ countDisk \in Nat
  BY DEF IndInv, TypeOK
<1>3. View /\ View'
  BY StoredView, StoredViewNext
<1>4. StoredCount' \in StoredCount .. (StoredCount + Capacity)
  BY <1>1, <1>2, <1>3 DEF View
<1>5. \A r \in 0 .. (StoredCount - 1) : StoredRows'[r] = StoredRows[r]
  BY <1>1, <1>2, <1>3 DEF View
<1> QED BY <1>1, <1>3, <1>4, <1>5 DEF View, Store!AppendRows

LEMMA DeleteStore ==
  ASSUME IndInv, IndInv', DeleteRecords
  PROVE  Store!Clear
<1>1. status = "open" /\ status' = "open" /\ countDisk' = 0
  BY DEF DeleteRecords
<1>2. View'
  BY StoredViewNext
<1>3. StoredCount' = 0 /\ DOMAIN StoredRows' = 0 .. (0 - 1)
  BY <1>1, <1>2 DEF View
<1>4. 0 .. (0 - 1) = {}
  OBVIOUS
<1> QED BY <1>1, <1>3, <1>4 DEF Store!Clear

(* The write of a cell changes one column of one counted record, or one     *)
(* behind them.                                                             *)
LEMMA UpdateCellStore ==
  ASSUME IndInv, IndInv', UpdateCell
  PROVE  Store!ChangeColumn \/ UNCHANGED Store!vars
<1>1. /\ countDisk' = countDisk /\ status' = status /\ status = "open"
      /\ at \in Nat /\ countDisk \in Nat
  BY DEF UpdateCell, AtCell, IndInv, FilesInv, TypeOK
<1>2. View /\ View'
  BY StoredView, StoredViewNext
<1>3. \A q \in 0 .. (countDisk - 1) : q # at => records'[q] = records[q]
  BY UpdateCellWrites DEF IndInv, FilesInv
<1>4. CASE at \in 0 .. (countDisk - 1)
  <2>1. at \in 0 .. (StoredCount - 1) /\ StoredCount' = StoredCount
    BY <1>1, <1>2, <1>4 DEF View
  <2>2. StoredRows[at] = records[at] /\ StoredRows'[at] = Assigned(StoredRows[at])
    <3>1. at \in DOMAIN records /\ StoredRows[at] = records[at]
      BY <1>2, <2>1 DEF View
    <3>2. StoredRows'[at] = records'[at]
      BY <1>2, <2>1 DEF View
    <3>3. RecordAt(at) = records[at]
      BY <3>1 DEF RecordAt
    <3> QED BY <3>1, <3>2, <3>3, UpdateCellWrites
  <2>3. DOMAIN StoredRows[at] = Cols
    BY <1>2, <2>1 DEF View, Row
  <2>4. target.column \in Cols
    BY DEF IndInv, TypeOK, Targets
  <2>5. \A d \in Cols \ {target.column} : StoredRows'[at][d] = StoredRows[at][d]
    BY <2>2 DEF Assigned
  <2>6. \A q \in 0 .. (StoredCount - 1) : q # at => StoredRows'[q] = StoredRows[q]
    BY <1>2, <1>3, <2>1 DEF View
  <2>7. StoredRows' \in [0 .. (StoredCount - 1) -> Row]
    BY <1>2, <2>1 DEF View
  <2> QED BY <1>1, <2>1, <2>3, <2>4, <2>5, <2>6, <2>7 DEF Store!ChangeColumn
<1>5. CASE at \notin 0 .. (countDisk - 1)
  <2>1. \A r \in 0 .. (countDisk - 1) : records'[r] = records[r]
    BY <1>3, <1>5
  <2>2. StoredCount' = StoredCount /\ StoredRows' = StoredRows
    BY <1>1, <2>1, SameView
  <2> QED BY <1>1, <2>2 DEF Store!vars
<1> QED BY <1>4, <1>5

LEMMA StepStore == IndInv /\ IndInv' /\ [Next]_vars => [Store!Next]_(Store!vars)
<1> SUFFICES ASSUME IndInv, IndInv', [Next]_vars PROVE [Store!Next]_(Store!vars)
  OBVIOUS
<1>1. CASE Open \/ Stop \/ SelectShort \/ UpdateShort
  BY <1>1, LifeStore DEF Store!Next
<1>2. CASE \/ InsertAny \/ BufferRow \/ FlushFullBuffer \/ FlushRest
           \/ FlushIndex \/ Delete \/ UpdateAny \/ UpdateDone \/ UNCHANGED vars
  BY <1>2, QuietStore
<1>3. CASE FlushRecord
  BY <1>3, FlushRecordStore
<1>4. CASE FlushSync \/ FlushSyncLast
  BY <1>4, SyncStore DEF Store!Next
<1>5. CASE DeleteRecords
  BY <1>5, DeleteStore DEF Store!Next
<1>6. CASE UpdateCell
  BY <1>6, UpdateCellStore DEF Store!Next
<1> QED BY <1>1, <1>2, <1>3, <1>4, <1>5, <1>6 DEF Next

(* The files of a table are the abstract store of rows, for all statements, *)
(* INSERTs of any size and stops at any write.                              *)
THEOREM SpecImplementsStore == Spec => StoreSpec
<1>1. Init => Store!Init
  <2> SUFFICES ASSUME Init PROVE Store!Init
    OBVIOUS
  <2>1. StoredCount = 0
    BY DEF Init, StoredCount
  <2>2. DOMAIN StoredRows = 0 .. (0 - 1)
    BY <2>1 DEF StoredRows
  <2>3. 0 .. (0 - 1) = {}
    OBVIOUS
  <2> QED BY <2>1, <2>2, <2>3 DEF Store!Init
<1> QED BY <1>1, StepStore, SpecIndInv, PTL DEF Spec, StoreSpec, Store!Spec
-----------------------------------------------------------------------------
(* Rows: under which conditions the code keeps its word.                    *)

(* INSERTs fit the buffer and list the columns as the table does.           *)
Careful ==
  /\ MaxBatch <= Capacity
  /\ ~AnyColumnOrder

CommitInv ==
  /\ InsertInv
  /\ RowsInv
  /\ CountInv

LEMMA InitCommit == Init => CommitInv
<1> SUFFICES ASSUME Init PROVE CommitInv
  OBVIOUS
<1>1. DOMAIN acked = {} /\ 0 .. (0 - 1) = {}
  BY DEF Init, NoRows
<1>2. InsertInv /\ CountInv
  BY DEF Init, InsertInv, CountInv
<1>3. RowsInv
  BY <1>1 DEF Init, RowsInv
<1> QED BY <1>2, <1>3 DEF CommitInv

(* The process ends or starts: a flush in progress leaves nothing counted,  *)
(* and a statement that is given up counts as cut short.                    *)
LEMMA LifeCommit ==
  ASSUME Careful, IndInv, CommitInv, Open \/ Stop \/ SelectShort \/ UpdateShort
  PROVE  CommitInv'
<1>1. CASE Open
  <2>1. /\ pc = "idle" /\ pc' = "idle"
        /\ UNCHANGED <<kvDisk, countDisk, records, acked, cut>>
    BY <1>1 DEF Open, IndInv, FilesInv, disk, statement
  <2>2. InsertInv' /\ CountInv'
    BY <2>1 DEF CommitInv, InsertInv, CountInv
  <2>3. RowsInv'
    BY <2>1 DEF CommitInv, RowsInv, RecordAt
  <2> QED BY <2>2, <2>3 DEF CommitInv
<1>2. CASE Stop \/ SelectShort \/ UpdateShort
  <2>1. /\ pc' = "idle"
        /\ cut' = cut \cup InProgress
        /\ UNCHANGED <<kvDisk, countDisk, records, acked>>
    BY <1>2 DEF Stop, SelectShort, UpdateShort, Leave, NoStatement, disk
  <2>2. InsertInv'
    BY <2>1 DEF InsertInv
  <2>3. CountInv'
    <3> SUFFICES ASSUME cut' = {} PROVE kvDisk = countDisk
      BY <2>1 DEF CountInv
    <3>1. cut = {} /\ InProgress = {}
      BY <2>1
    <3>2. pc = "idle"
      BY <3>1 DEF InProgress, IndInv, TypeOK
    <3> QED BY <3>1, <3>2 DEF CommitInv, CountInv
  <2>4. RowsInv'
    <3> SUFFICES ASSUME "update" \notin cut'
                 PROVE  \A r \in DOMAIN acked : RecordAt(r) = acked[r]
      BY <2>1 DEF CommitInv, RowsInv, RecordAt
    <3>1. "update" \notin cut /\ pc # "cells"
      BY <2>1 DEF InProgress
    <3> QED BY <3>1 DEF CommitInv, RowsInv
  <2> QED BY <2>2, <2>3, <2>4 DEF CommitInv
<1> QED BY <1>1, <1>2

LEMMA InsertCommit ==
  ASSUME Careful, IndInv, CommitInv, InsertAny
  PROVE  CommitInv'
<1>1. PICK list \in ColumnLists, n \in 1 .. MaxBatch :
        \E batch \in [1 .. n -> Row] : Insert(list, batch)
  BY DEF InsertAny
<1>2. PICK batch \in [1 .. n -> Row] : Insert(list, batch)
  BY <1>1
<1>3. /\ pc = "idle" /\ pc' = "rows" /\ todo' = batch /\ buffer' = buffer
      /\ meant' = [k \in DOMAIN batch |-> Named(list, batch[k])]
      /\ UNCHANGED <<kvDisk, countDisk, records, acked, cut, target, at>>
  BY <1>2 DEF Insert, Begin, disk
<1>4. buffer = <<>> /\ Len(buffer) = 0
  BY <1>3, EmptyRows DEF IndInv, StepInv
<1>5. n \in Nat /\ n <= Capacity
  BY DEF Careful
<1>6. meant' = batch
  <2>1. \A k \in 1 .. n : Named(list, batch[k]) = batch[k]
    BY NamedInOrder DEF Careful
  <2>2. meant' = [k \in 1 .. n |-> Named(list, batch[k])]
    BY <1>3
  <2> QED BY <2>1, <2>2
<1>7. Len(batch) = n
  BY <1>5
<1>8. InsertInv'
  BY <1>3, <1>4, <1>5, <1>6, <1>7 DEF InsertInv
<1>9. RowsInv'
  BY <1>3 DEF CommitInv, RowsInv, RecordAt
<1>10. CountInv'
  BY <1>3 DEF CommitInv, CountInv
<1> QED BY <1>8, <1>9, <1>10 DEF CommitInv

LEMMA BufferCommit ==
  ASSUME Careful, IndInv, CommitInv, BufferRow
  PROVE  CommitInv'
<1>1. /\ pc = "rows" /\ pc' = "rows" /\ todo # <<>>
      /\ buffer' = Append(buffer, Head(todo)) /\ todo' = Tail(todo)
      /\ UNCHANGED <<kvDisk, countDisk, records, acked, cut, target, at,
                     meant>>
  BY DEF BufferRow, InRows, disk, ghosts
<1>2. /\ todo \in Seq(Row) /\ buffer \in Seq(Row) /\ meant \in Seq(Row)
      /\ Capacity \in Nat
  BY DEF IndInv, TypeOK
<1>3. /\ Len(buffer) + Len(todo) = Len(meant) /\ Len(meant) <= Capacity
      /\ \A k \in 1 .. Len(buffer) : buffer[k] = meant[k]
      /\ \A k \in 1 .. Len(todo) : todo[k] = meant[Len(buffer) + k]
  BY <1>1 DEF CommitInv, InsertInv
<1>4. /\ Len(todo') = Len(todo) - 1 /\ Len(buffer') = Len(buffer) + 1
      /\ Len(todo) >= 1
      /\ \A k \in 1 .. Len(todo') : todo'[k] = todo[k + 1]
      /\ \A k \in 1 .. Len(buffer) : buffer'[k] = buffer[k]
      /\ buffer'[Len(buffer) + 1] = todo[1]
  BY <1>1, <1>2
<1>5. ASSUME NEW k \in 1 .. Len(buffer') PROVE buffer'[k] = meant[k]
  <2>1. 1 \in 1 .. Len(todo) /\ Len(buffer) \in Nat
    BY <1>2, <1>4
  <2>2. todo[1] = meant[Len(buffer) + 1]
    BY <1>3, <2>1
  <2>3. k = Len(buffer) + 1 \/ k \in 1 .. Len(buffer)
    BY <1>4, <2>1
  <2> QED BY <1>3, <1>4, <2>2, <2>3
<1>6. \A k \in 1 .. Len(todo') : todo'[k] = meant[Len(buffer') + k]
  <2>1. ASSUME NEW k \in 1 .. Len(todo')
        PROVE  todo'[k] = meant[Len(buffer') + k]
    <3>1. k + 1 \in 1 .. Len(todo) /\ todo'[k] = todo[k + 1]
      BY <1>2, <1>4
    <3>2. Len(buffer) + (k + 1) = Len(buffer') + k
      BY <1>2, <1>4
    <3>3. todo[k + 1] = meant[Len(buffer) + (k + 1)]
      BY <1>3, <3>1
    <3> QED BY <3>1, <3>2, <3>3
  <2> QED BY <2>1
<1>7. Len(buffer') + Len(todo') = Len(meant')
  BY <1>1, <1>2, <1>3, <1>4
<1>8. InsertInv'
  BY <1>1, <1>3, <1>5, <1>6, <1>7 DEF InsertInv
<1>9. RowsInv'
  BY <1>1 DEF CommitInv, RowsInv, RecordAt
<1>10. CountInv'
  BY <1>1 DEF CommitInv, CountInv
<1> QED BY <1>8, <1>9, <1>10 DEF CommitInv

(* With rows that fit it the buffer is never found full. *)
LEMMA FlushStartCommit ==
  ASSUME Careful, IndInv, CommitInv, FlushFullBuffer \/ FlushRest
  PROVE  CommitInv'
<1>1. /\ todo \in Seq(Row) /\ buffer \in Seq(Row) /\ meant \in Seq(Row)
      /\ Capacity \in Nat
  BY DEF IndInv, TypeOK
<1>2. /\ pc = "rows" /\ pc' = "index"
      /\ UNCHANGED <<kvDisk, countDisk, countMem, records, acked, cut, target,
                     at, buffer, meant>>
  BY DEF FlushFullBuffer, FlushRest, InRows, disk, memory, ghosts
<1>3. /\ Len(buffer) + Len(todo) = Len(meant) /\ Len(meant) <= Capacity
      /\ \A k \in 1 .. Len(buffer) : buffer[k] = meant[k]
  BY <1>2 DEF CommitInv, InsertInv
<1>4. ~FlushFullBuffer
  <2> SUFFICES ASSUME FlushFullBuffer PROVE FALSE
    OBVIOUS
  <2>1. todo # <<>> /\ Len(buffer) = Capacity
    BY DEF FlushFullBuffer
  <2>2. Len(todo) >= 1
    BY <1>1, <2>1
  <2> QED BY <1>1, <1>3, <2>1, <2>2
<1>5. last' /\ todo = <<>>
  BY <1>4 DEF FlushRest
<1>6. Len(todo) = 0
  BY <1>5
<1>7. buffer = meant
  BY <1>1, <1>3, <1>6, SeqEqual
<1>8. at = 0
  BY <1>2 DEF IndInv, StepInv
<1>9. InsertInv'
  BY <1>2, <1>5, <1>7, <1>8 DEF InsertInv
<1>10. RowsInv'
  BY <1>2 DEF CommitInv, RowsInv, RecordAt
<1>11. CountInv'
  BY <1>2, <1>8 DEF CommitInv, CountInv, IndInv, TypeOK
<1> QED BY <1>9, <1>10, <1>11 DEF CommitInv

LEMMA FlushIndexCommit ==
  ASSUME Careful, IndInv, CommitInv, FlushIndex
  PROVE  CommitInv'
<1>1. /\ pc = "index" /\ pc' = "record" /\ status = "open" /\ kvMem = kvDisk
      /\ kvDisk' = kvDisk + 1
      /\ UNCHANGED <<countDisk, countMem, records, acked, cut, target, at,
                     buffer, meant, last>>
  BY DEF FlushIndex, Flushing, ghosts, IndInv, FilesInv
<1>2. InsertInv'
  BY <1>1 DEF CommitInv, InsertInv, RecordAt
<1>3. RowsInv'
  BY <1>1 DEF CommitInv, RowsInv, RecordAt
<1>4. CountInv'
  BY <1>1 DEF CommitInv, CountInv, IndInv, TypeOK
<1> QED BY <1>2, <1>3, <1>4 DEF CommitInv

LEMMA FlushRecordCommit ==
  ASSUME Careful, IndInv, CommitInv, FlushRecord
  PROVE  CommitInv'
<1>1. /\ pc = "record" /\ pc' = "index" /\ status = "open" /\ at' = at + 1
      /\ UNCHANGED <<kvDisk, countDisk, countMem, acked, cut, target, buffer,
                     meant, last>>
  BY DEF FlushRecord, memory, ghosts
<1>2. /\ at \in Nat /\ countMem \in Nat /\ countDisk \in Nat
      /\ countMem = countDisk /\ at < Len(buffer) /\ Len(buffer) \in Nat
      /\ 0 .. (countDisk - 1) \subseteq DOMAIN records
      /\ 0 .. (countMem + at - 1) \subseteq DOMAIN records
  BY <1>1 DEF IndInv, TypeOK, FilesInv, StepInv
<1>3. /\ last /\ buffer = meant
      /\ \A k \in 1 .. at : RecordAt(countMem + k - 1) = meant[k]
  BY <1>1 DEF CommitInv, InsertInv
<1>4. ASSUME NEW r \in Nat, r < countMem + at
      PROVE  RecordAt(r)' = RecordAt(r)
  <2>1. r \in 0 .. (countMem + at - 1)
    BY <1>2, <1>4
  <2>2. r \in DOMAIN records
    BY <1>2, <2>1
  <2>3. r # countMem + at
    BY <1>2, <1>4
  <2>4. r \in DOMAIN records' /\ records'[r] = records[r]
    BY <2>2, <2>3, FlushRecordWrites
  <2> QED BY <2>2, <2>4 DEF RecordAt
<1>5. ASSUME NEW r \in Nat, r = countMem + at
      PROVE  RecordAt(r)' = meant[at + 1]
  <2>1. /\ records'[countMem + at] = buffer[at + 1]
        /\ countMem + at \in DOMAIN records'
    BY FlushRecordWrites
  <2> QED BY <1>3, <1>5, <2>1 DEF RecordAt
<1>6. ASSUME NEW k \in 1 .. at'
      PROVE  RecordAt(countMem + k - 1)' = meant[k]
  <2>1. PICK r \in Nat : r = countMem + k - 1
    BY <1>1, <1>2
  <2>2. CASE k = at + 1
    <3>1. r = countMem + at
      BY <1>2, <2>1, <2>2
    <3>2. RecordAt(r)' = meant[k]
      BY <1>5, <2>2, <3>1
    <3> QED BY <1>1, <2>1, <3>2
  <2>3. CASE k # at + 1
    <3>1. k \in 1 .. at
      BY <1>1, <1>2, <2>3
    <3>2. r < countMem + at
      BY <1>2, <2>1, <3>1
    <3>3. RecordAt(r) = meant[k]
      BY <1>3, <2>1, <3>1
    <3>4. RecordAt(r)' = RecordAt(r)
      BY <1>4, <3>2
    <3> QED BY <1>1, <2>1, <3>3, <3>4
  <2> QED BY <2>2, <2>3
<1>7. InsertInv'
  BY <1>1, <1>3, <1>6 DEF InsertInv
<1>8. RowsInv'
  <2>1. DOMAIN acked = 0 .. (countDisk - 1)
    BY DEF CommitInv, RowsInv
  <2>2. \A r \in DOMAIN acked : RecordAt(r)' = RecordAt(r)
    <3>1. \A r \in DOMAIN acked : r \in Nat /\ r < countMem + at
      BY <1>2, <2>1
    <3> QED BY <1>4, <3>1
  <2>3. "update" \notin cut => \A r \in DOMAIN acked : RecordAt(r) = acked[r]
    BY <1>1 DEF CommitInv, RowsInv
  <2> QED BY <1>1, <2>1, <2>2, <2>3 DEF RowsInv
<1>9. CountInv'
  BY <1>1, <1>2 DEF CommitInv, CountInv
<1> QED BY <1>7, <1>8, <1>9 DEF CommitInv

LEMMA FlushSyncCommit ==
  ASSUME Careful, IndInv, CommitInv, FlushSync \/ FlushSyncLast
  PROVE  CommitInv'
<1>1. /\ pc = "index" /\ at = Len(buffer) /\ status = "open"
      /\ countDisk' = countMem + Len(buffer)
      /\ kvDisk' = kvDisk /\ records' = records
  BY DEF FlushSync, FlushSyncLast, SyncCount, Flushing
<1>2. /\ last /\ buffer = meant
      /\ \A k \in 1 .. at : RecordAt(countMem + k - 1) = meant[k]
  BY <1>1 DEF CommitInv, InsertInv
<1>3. FlushSyncLast /\ NoStatement /\ pc' = "idle" /\ cut' = cut
  BY <1>2 DEF FlushSync, FlushSyncLast, NoStatement
<1>4. /\ countMem = countDisk /\ countDisk \in Nat /\ Len(meant) \in Nat
      /\ at = Len(meant) /\ at \in Nat /\ TypeOK
  BY <1>1, <1>2 DEF IndInv, FilesInv, TypeOK
<1>5. DOMAIN acked = 0 .. (countDisk - 1) /\ AckedRows = countDisk
  <2>1. DOMAIN acked = 0 .. (countDisk - 1)
    BY DEF CommitInv, RowsInv
  <2>2. Cardinality(0 .. (countDisk - 1)) = countDisk
    <3>1. 0 \in Int /\ countDisk - 1 \in Int
      BY <1>4
    <3>2. Cardinality(0 .. (countDisk - 1)) =
            IF 0 > countDisk - 1 THEN 0 ELSE (countDisk - 1) - 0 + 1
      BY <3>1, FS_Interval
    <3> QED BY <1>4, <3>2
  <2> QED BY <2>1, <2>2 DEF AckedRows
<1>6. /\ AckedRows' = countDisk'
      /\ DOMAIN acked' = 0 .. (countDisk' - 1)
      /\ countDisk' = countDisk + Len(meant)
      /\ \A r \in 0 .. (countDisk - 1) : acked'[r] = acked[r]
      /\ \A k \in 1 .. Len(meant) : acked'[countDisk + k - 1] = meant[k]
  <2>1. AckedRows' = countDisk'
    BY <1>1, <1>2, <1>3, <1>4, <1>5, AckedGrows
  <2>2. DOMAIN acked' = 0 .. (AckedRows' - 1)
    BY <1>3, <1>4, AckedGrows
  <2>3. \A r \in 0 .. (countDisk - 1) : acked'[r] = acked[r]
    BY <1>3, <1>4, <1>5, AckedGrows
  <2>4. \A k \in 1 .. Len(meant) : acked'[countDisk + k - 1] = meant[k]
    BY <1>3, <1>4, <1>5, AckedGrows
  <2> QED BY <1>1, <1>2, <1>4, <2>1, <2>2, <2>3, <2>4
<1>7. ASSUME "update" \notin cut, NEW r \in DOMAIN acked'
      PROVE  RecordAt(r)' = acked'[r]
  <2>1. RecordAt(r)' = RecordAt(r) /\ r \in Nat /\ r < countDisk + Len(meant)
    <3>1. RecordAt(r)' = RecordAt(r)
      BY <1>1 DEF RecordAt
    <3>2. r \in 0 .. (countDisk' - 1)
      BY <1>6
    <3>3. countDisk' \in Nat /\ countDisk' = countDisk + Len(meant)
      BY <1>4, <1>6
    <3> HIDE DEF RecordAt
    <3>4. r \in Nat /\ r < countDisk'
      BY <3>2, <3>3
    <3> QED BY <3>1, <3>3, <3>4
  <2>2. CASE r < countDisk
    <3>1. r \in DOMAIN acked
      BY <1>4, <1>5, <2>1, <2>2
    <3>2. RecordAt(r) = acked[r]
      BY <1>1, <1>7, <3>1 DEF CommitInv, RowsInv
    <3> QED BY <1>5, <1>6, <2>1, <3>1, <3>2
  <2>3. CASE ~(r < countDisk)
    <3>1. PICK k \in 1 .. at : r = countDisk + k - 1
      <4>1. (r - countDisk) + 1 \in 1 .. at
        BY <1>4, <2>1, <2>3
      <4>2. r = countDisk + ((r - countDisk) + 1) - 1
        BY <1>4, <2>1
      <4> QED BY <4>1, <4>2
    <3>2. RecordAt(r) = meant[k]
      BY <1>2, <1>4, <3>1
    <3>3. acked'[r] = meant[k]
      BY <1>4, <1>6, <3>1
    <3> QED BY <2>1, <3>2, <3>3
  <2> QED BY <2>2, <2>3
<1>8. RowsInv'
  BY <1>3, <1>6, <1>7 DEF RowsInv
<1>9. InsertInv'
  BY <1>3 DEF InsertInv
<1>10. CountInv'
  BY <1>1, <1>3, <1>4, <1>6 DEF CommitInv, CountInv
<1> QED BY <1>8, <1>9, <1>10 DEF CommitInv

LEMMA DeleteCommit ==
  ASSUME Careful, IndInv, CommitInv, Delete \/ DeleteRecords
  PROVE  CommitInv'
<1>1. CASE Delete
  <2>1. /\ pc = "idle" /\ pc' = "resetState" /\ kvDisk' = 0
        /\ UNCHANGED <<countDisk, records, acked, cut>>
    BY <1>1 DEF Delete, Begin
  <2>2. InsertInv' /\ CountInv'
    BY <2>1 DEF InsertInv, CountInv
  <2>3. RowsInv'
    BY <2>1 DEF CommitInv, RowsInv, RecordAt
  <2> QED BY <2>2, <2>3 DEF CommitInv
<1>2. CASE DeleteRecords
  <2>1. /\ pc = "resetState" /\ pc' = "idle" /\ countDisk' = 0
        /\ kvDisk' = kvDisk /\ acked' = NoRows /\ cut' = cut
    BY <1>2 DEF DeleteRecords, NoStatement
  <2>2. InsertInv'
    BY <2>1 DEF InsertInv
  <2>3. CountInv'
    BY <2>1 DEF CommitInv, CountInv
  <2>4. DOMAIN acked' = {} /\ 0 .. (0 - 1) = {}
    BY <2>1, NoRowsType
  <2>5. RowsInv'
    BY <2>1, <2>4 DEF RowsInv
  <2> QED BY <2>2, <2>3, <2>5 DEF CommitInv
<1> QED BY <1>1, <1>2

LEMMA UpdateCommit ==
  ASSUME Careful, IndInv, CommitInv, UpdateAny
  PROVE  CommitInv'
<1>1. PICK t \in Targets : Update(t)
  BY DEF UpdateAny
<1>2. /\ pc = "idle" /\ pc' = "cells" /\ at = 0 /\ at' = 0
      /\ UNCHANGED <<kvDisk, countDisk, records, acked, cut>>
  BY <1>1 DEF Update, Begin, disk, IndInv, StepInv
<1>3. InsertInv'
  BY <1>2 DEF InsertInv
<1>4. CountInv'
  BY <1>2 DEF CommitInv, CountInv
<1>5. RowsInv'
  <2>1. "update" \notin cut => \A r \in DOMAIN acked : RecordAt(r)' = acked[r]
    BY <1>2 DEF CommitInv, RowsInv, RecordAt
  <2>2. DOMAIN acked = 0 .. (countDisk - 1) /\ countDisk \in Nat
    BY DEF CommitInv, RowsInv, IndInv, TypeOK
  <2>3. \A r \in DOMAIN acked : ~(r < 0)
    BY <2>2
  <2> QED BY <1>2, <2>1, <2>2, <2>3 DEF RowsInv
<1> QED BY <1>3, <1>4, <1>5 DEF CommitInv

LEMMA UpdateCellCommit ==
  ASSUME Careful, IndInv, CommitInv, UpdateCell
  PROVE  CommitInv'
<1>1. /\ pc = "cells" /\ pc' = "cells" /\ at' = at + 1 /\ at < kvMem
      /\ status = "open"
      /\ UNCHANGED <<kvDisk, countDisk, acked, cut, target>>
  BY DEF UpdateCell, AtCell, ghosts
<1>2. /\ at \in Nat /\ countDisk \in Nat
      /\ 0 .. (countDisk - 1) \subseteq DOMAIN records
  BY <1>1 DEF IndInv, FilesInv, TypeOK
<1>3. /\ DOMAIN acked = 0 .. (countDisk - 1)
      /\ "update" \notin cut => \A r \in DOMAIN acked :
           RecordAt(r) = IF r < at THEN Assigned(acked[r]) ELSE acked[r]
  BY <1>1 DEF CommitInv, RowsInv
<1>4. ASSUME "update" \notin cut, NEW r \in DOMAIN acked
      PROVE  RecordAt(r)' = IF r < at + 1 THEN Assigned(acked[r]) ELSE acked[r]
  <2>1. r \in DOMAIN records /\ r \in Nat
    BY <1>2, <1>3
  <2>2. CASE r = at
    <3>1. RecordAt(r) = acked[r] /\ r < at + 1
      BY <1>2, <1>3, <1>4, <2>2
    <3>2. RecordAt(r)' = Assigned(RecordAt(r))
      BY <2>1, <2>2, UpdateCellWrites DEF RecordAt
    <3> QED BY <3>1, <3>2
  <2>3. CASE r # at
    <3>1. RecordAt(r)' = RecordAt(r)
      BY <2>1, <2>3, UpdateCellWrites DEF RecordAt
    <3>2. r < at <=> r < at + 1
      BY <1>2, <2>1, <2>3
    <3> QED BY <1>3, <1>4, <3>1, <3>2
  <2> QED BY <2>2, <2>3
<1>5. \A r \in DOMAIN acked : Assigned(acked[r])' = Assigned(acked[r])
  BY <1>1 DEF Assigned
<1>6. RowsInv'
  BY <1>1, <1>3, <1>4, <1>5 DEF RowsInv
<1>7. InsertInv'
  BY <1>1 DEF InsertInv
<1>8. CountInv'
  BY <1>1 DEF CommitInv, CountInv
<1> QED BY <1>6, <1>7, <1>8 DEF CommitInv

LEMMA UpdateDoneCommit ==
  ASSUME Careful, IndInv, CommitInv, UpdateDone
  PROVE  CommitInv'
<1>1. /\ pc = "cells" /\ pc' = "idle" /\ at = kvMem /\ status = "open"
      /\ acked' = [r \in DOMAIN acked |->
                     IF r < at THEN Assigned(acked[r]) ELSE acked[r]]
      /\ UNCHANGED <<kvDisk, countDisk, records, cut>>
  BY DEF UpdateDone, NoStatement, disk
<1>2. DOMAIN acked = 0 .. (countDisk - 1) /\ DOMAIN acked' = DOMAIN acked
  BY <1>1 DEF CommitInv, RowsInv
<1>3. ASSUME "update" \notin cut, NEW r \in DOMAIN acked
      PROVE  RecordAt(r)' = acked'[r]
  <2>1. RecordAt(r) = IF r < at THEN Assigned(acked[r]) ELSE acked[r]
    BY <1>1, <1>3 DEF CommitInv, RowsInv
  <2>2. acked'[r] = IF r < at THEN Assigned(acked[r]) ELSE acked[r]
    BY <1>1
  <2>3. RecordAt(r)' = RecordAt(r)
    BY <1>1 DEF RecordAt
  <2> QED BY <2>1, <2>2, <2>3
<1>4. RowsInv'
  BY <1>1, <1>2, <1>3 DEF RowsInv
<1>5. InsertInv'
  BY <1>1 DEF InsertInv
<1>6. CountInv'
  BY <1>1 DEF CommitInv, CountInv
<1> QED BY <1>4, <1>5, <1>6 DEF CommitInv

LEMMA NextCommit ==
  ASSUME Careful
  PROVE  IndInv /\ CommitInv /\ [Next]_vars => CommitInv'
<1> SUFFICES ASSUME IndInv, CommitInv, [Next]_vars PROVE CommitInv'
  OBVIOUS
<1>1. CASE Open \/ Stop \/ SelectShort \/ UpdateShort
  BY <1>1, LifeCommit
<1>2. CASE InsertAny
  BY <1>2, InsertCommit
<1>3. CASE BufferRow
  BY <1>3, BufferCommit
<1>4. CASE FlushFullBuffer \/ FlushRest
  BY <1>4, FlushStartCommit
<1>5. CASE FlushIndex
  BY <1>5, FlushIndexCommit
<1>6. CASE FlushRecord
  BY <1>6, FlushRecordCommit
<1>7. CASE FlushSync \/ FlushSyncLast
  BY <1>7, FlushSyncCommit
<1>8. CASE Delete \/ DeleteRecords
  BY <1>8, DeleteCommit
<1>9. CASE UpdateAny
  BY <1>9, UpdateCommit
<1>10. CASE UpdateCell
  BY <1>10, UpdateCellCommit
<1>11. CASE UpdateDone
  BY <1>11, UpdateDoneCommit
<1>12. CASE UNCHANGED vars
  <2>1. InsertInv'
    BY <1>12 DEF CommitInv, InsertInv, RecordAt, vars, disk, memory, statement
  <2>2. RowsInv'
    BY <1>12 DEF CommitInv, RowsInv, RecordAt, Assigned, vars, disk, memory,
                 statement, ghosts
  <2>3. CountInv'
    BY <1>12 DEF CommitInv, CountInv, vars, disk, statement, ghosts
  <2> QED BY <2>1, <2>2, <2>3 DEF CommitInv
<1> QED BY <1>1, <1>2, <1>3, <1>4, <1>5, <1>6, <1>7, <1>8, <1>9, <1>10, <1>11,
           <1>12 DEF Next

(* With careful statements the invariant of the rows holds of every state.  *)
LEMMA SpecCommit ==
  ASSUME Careful
  PROVE  Spec => [](IndInv /\ CommitInv)
<1>1. Init => IndInv /\ CommitInv
  BY InitIndInv, InitCommit
<1>2. IndInv /\ CommitInv /\ [Next]_vars => (IndInv /\ CommitInv)'
  BY NextInv, NextCommit
<1> QED BY <1>1, <1>2, PTL DEF Spec

(* The counted records are the rows of the completed statements, except     *)
(* while an UPDATE is changing them.                                        *)
LEMMA StoredAreAcked ==
  ASSUME IndInv, RowsInv, pc # "cells", "update" \notin cut
  PROVE  StoredRows = acked
<1>1. /\ StoredCount = countDisk
      /\ StoredRows = [r \in 0 .. (StoredCount - 1) |-> RecordAt(r)]
  BY StoredView DEF View, StoredRows
<1>2. /\ DOMAIN acked = 0 .. (countDisk - 1)
      /\ \A r \in DOMAIN acked : RecordAt(r) = acked[r]
  BY DEF RowsInv
<1>3. acked = [r \in DOMAIN acked |-> acked[r]]
  BY DEF IndInv, TypeOK
<1> QED BY <1>1, <1>2, <1>3

(* While INSERTs fit the buffer and name the columns in the order of the    *)
(* table, a SELECT returns what the completed statements leave, after any   *)
(* number of restarts, until a statement is cut short.                      *)
THEOREM SpecSelectsCompleted ==
  ASSUME MaxBatch <= Capacity, ~AnyColumnOrder
  PROVE  Spec => []SelectReturnsCompleted
<1>1. Careful
  BY DEF Careful
<1>2. IndInv /\ CommitInv => SelectReturnsCompleted
  <2> SUFFICES ASSUME IndInv, CommitInv, status = "open", pc = "idle", cut = {}
               PROVE  kvMem = countMem /\ StoredRows = acked
    BY DEF SelectReturnsCompleted, Quiet
  <2>1. kvMem = countMem
    BY DEF IndInv, FilesInv, CommitInv, CountInv
  <2>2. StoredRows = acked
    BY StoredAreAcked DEF CommitInv
  <2> QED BY <2>1, <2>2
<1>3. Spec => [](IndInv /\ CommitInv)
  BY <1>1, SpecCommit
<1> QED BY <1>2, <1>3, PTL

(* An INSERT that fits the buffer and a DELETE take effect as a whole, at   *)
(* whatever write the process stops.                                        *)
THEOREM SpecStoresWhole ==
  ASSUME MaxBatch <= Capacity, ~AnyColumnOrder
  PROVE  Spec => []StatementsStoredWhole
<1>1. Careful
  BY DEF Careful
<1>2. IndInv /\ CommitInv => StatementsStoredWhole
  BY StoredAreAcked DEF CommitInv, StatementsStoredWhole
<1>3. Spec => [](IndInv /\ CommitInv)
  BY <1>1, SpecCommit
<1> QED BY <1>2, <1>3, PTL
-----------------------------------------------------------------------------
(* The index is never behind the record file.                               *)

LEMMA NextAhead == IndInv /\ AheadInv /\ [Next]_vars => AheadInv'
<1> SUFFICES ASSUME IndInv, AheadInv, [Next]_vars, "delete" \notin cut'
             PROVE  /\ pc' # "resetState" => kvDisk' >= countDisk'
                    /\ pc' = "index" => kvDisk' >= countDisk' + at'
                    /\ pc' = "record" => kvDisk' >= countDisk' + at' + 1
  BY DEF AheadInv
<1>1. /\ kvDisk \in Nat /\ countDisk \in Nat /\ at \in Nat
      /\ status = "open" => kvMem = kvDisk /\ countMem = countDisk
      /\ status # "open" => pc = "idle"
      /\ pc \in {"idle", "rows"} => at = 0
  BY DEF IndInv, TypeOK, FilesInv, StepInv
<1>2. ASSUME "delete" \notin cut
      PROVE  /\ pc # "resetState" => kvDisk >= countDisk
             /\ pc = "index" => kvDisk >= countDisk + at
             /\ pc = "record" => kvDisk >= countDisk + at + 1
  BY <1>2 DEF AheadInv
<1>3. CASE Open
  <2>1. /\ pc = "idle" /\ pc' = "idle"
        /\ kvDisk' = kvDisk /\ countDisk' = countDisk /\ cut' = cut
    BY <1>1, <1>3 DEF Open, disk, statement
  <2> QED BY <1>2, <2>1
<1>4. CASE Stop \/ SelectShort \/ UpdateShort
  <2>1. /\ pc' = "idle" /\ kvDisk' = kvDisk /\ countDisk' = countDisk
        /\ cut' = cut \cup InProgress
    BY <1>4 DEF Stop, SelectShort, UpdateShort, Leave, NoStatement, disk
  <2>2. "delete" \notin cut /\ pc # "resetState"
    BY <2>1 DEF InProgress
  <2> QED BY <1>2, <2>1, <2>2
<1>5. CASE InsertAny \/ UpdateAny \/ BufferRow \/ UpdateCell \/ UpdateDone
  <2>1. /\ pc' \in {"rows", "cells", "idle"} /\ pc # "resetState"
        /\ kvDisk' = kvDisk /\ countDisk' = countDisk /\ cut' = cut
    <3>1. CASE InsertAny
      BY <3>1 DEF InsertAny, Insert, Begin, disk
    <3>2. CASE UpdateAny
      BY <3>2 DEF UpdateAny, Update, Begin, disk
    <3>3. CASE BufferRow
      BY <3>3 DEF BufferRow, InRows, disk, ghosts
    <3>4. CASE UpdateCell
      BY <3>4 DEF UpdateCell, AtCell, ghosts
    <3>5. CASE UpdateDone
      BY <3>5 DEF UpdateDone, NoStatement, disk
    <3> QED BY <1>5, <3>1, <3>2, <3>3, <3>4, <3>5
  <2> QED BY <1>2, <2>1
<1>6. CASE FlushFullBuffer \/ FlushRest
  <2>1. /\ pc = "rows" /\ pc' = "index" /\ at = 0 /\ at' = at
        /\ kvDisk' = kvDisk /\ countDisk' = countDisk /\ cut' = cut
    BY <1>1, <1>6 DEF FlushFullBuffer, FlushRest, InRows, disk, ghosts
  <2> QED BY <1>1, <1>2, <2>1
<1>7. CASE FlushIndex
  <2>1. /\ pc = "index" /\ pc' = "record" /\ at' = at
        /\ kvDisk' = kvDisk + 1 /\ countDisk' = countDisk /\ cut' = cut
    BY <1>1, <1>7 DEF FlushIndex, Flushing, ghosts
  <2> QED BY <1>1, <1>2, <2>1
<1>8. CASE FlushRecord
  <2>1. /\ pc = "record" /\ pc' = "index" /\ at' = at + 1
        /\ kvDisk' = kvDisk /\ countDisk' = countDisk /\ cut' = cut
    BY <1>8 DEF FlushRecord, ghosts
  <2> QED BY <1>1, <1>2, <2>1
<1>9. CASE FlushSync \/ FlushSyncLast
  <2>1. /\ pc = "index" /\ at = Len(buffer) /\ pc' \in {"rows", "idle"}
        /\ kvDisk' = kvDisk /\ countDisk' = countDisk + at /\ cut' = cut
    BY <1>1, <1>9 DEF FlushSync, FlushSyncLast, SyncCount, Flushing,
                      NoStatement, ghosts
  <2> QED BY <1>1, <1>2, <2>1
<1>10. CASE Delete
  BY <1>10 DEF Delete
<1>11. CASE DeleteRecords
  <2>1. pc' = "idle" /\ kvDisk' = kvDisk /\ countDisk' = 0
    BY <1>11 DEF DeleteRecords, NoStatement
  <2> QED BY <1>1, <2>1
<1>12. CASE UNCHANGED vars
  <2>1. UNCHANGED <<pc, kvDisk, countDisk, at, cut>>
    BY <1>12 DEF vars, disk, statement, ghosts
  <2> QED BY <1>2, <2>1
<1> QED BY <1>3, <1>4, <1>5, <1>6, <1>7, <1>8, <1>9, <1>10, <1>11, <1>12
        DEF Next

(* Unless a DELETE was cut short every stored row is within rows_count(),   *)
(* at whatever write the process stops and however long the INSERTs are.    *)
THEOREM SpecIndexNotBehind == Spec => []IndexNotBehind
<1>1. Init => IndInv /\ AheadInv
  BY InitIndInv DEF Init, AheadInv
<1>2. IndInv /\ AheadInv /\ [Next]_vars => (IndInv /\ AheadInv)'
  BY NextInv, NextAhead
<1>3. IndInv /\ AheadInv => IndexNotBehind
  BY DEF IndInv, FilesInv, AheadInv, IndexNotBehind, StoredCount
<1> QED BY <1>1, <1>2, <1>3, PTL DEF Spec
=============================================================================
