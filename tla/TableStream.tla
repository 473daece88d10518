---------------------------- MODULE TableStream ----------------------------
(***************************************************************************)
(* What a query works with: the values of a running query (DBValue.hpp),   *)
(* the streams their items come from (DBTable.cpp), and the cells of the   *)
(* files the items are stored in (fill_column in DBConnection.cpp).        *)
(*                                                                         *)
(* m is the memory they are read from: heap, the tables; files, by the     *)
(* name of a table its row count, records and images; returns, what the    *)
(* calls of the query gave.  An item has the type and the texts it was     *)
(* made from; End is an exhausted stream, Broken a failed assertion.       *)
(***************************************************************************)
EXTENDS Integers, SequencesExt

CONSTANTS
    ImageRange,     \* values of the U8 an image's place is read as: 256
    LongTexts,      \* strings that do not fit in a FixedString
    BigImages,      \* images with more data than a chunk on disk holds
    ReadAs          \* the numbers that need more than 64 bits: what each is read as

(* parse_int64 adds up the digits modulo 2^64.                             *)
ReadNumber(text) == IF text \in DOMAIN ReadAs THEN ReadAs[text] ELSE text

Constant(type, text) ==
    [kind |-> "const", type |-> type, v |-> <<IF type = "int" THEN ReadNumber(text) ELSE text>>]
Column(table, index, type) == [kind |-> "column", table |-> table, index |-> index, type |-> type]
Comparison(lhs, rhs) == [kind |-> "compare", lhs |-> lhs, rhs |-> rhs, type |-> lhs.type]
Picture(v) == [kind |-> "image", v |-> v, type |-> "chunk"]
Delayed(call) == [kind |-> "delayed", call |-> call, type |-> "int"]
None == [kind |-> "none", type |-> "null"]

Item(type, v) == [type |-> type, v |-> v]
End == Item("end", <<>>)
Broken == Item("broken", <<>>)
IsValue(item) == item.type \notin {"end", "broken"}

(* A record of the file, as column j of it is read.  The place of an image *)
(* is stored as U32 and read as U8; the image found must have the size the *)
(* cell gives.                                                             *)
ReadCell(m, t, k, j) ==
    LET cell == m.files[t.name].rows[k][j]
        images == m.files[t.name].images[t.cols[j].name]
        place == (cell.at % ImageRange) + 1
    IN CASE cell.type # "png" -> Item(cell.type, cell.v)
         [] cell.type = "png" /\ place \notin DOMAIN images -> Broken
         [] cell.type = "png" /\ place \in DOMAIN images ->
              IF SubSeq(images[place], 1, 2) = cell.v THEN Item("chunk", images[place]) ELSE Broken

(* DBTableStream.from_value and the k-th call of next.  An image is a      *)
(* single item, a constant never ends, and comparing two items is OK_TODO. *)
RECURSIVE StreamItem(_, _, _)
StreamItem(m, value, k) ==
    CASE value.kind = "const" ->
           Item(IF value.type = "string" /\ value.v[1] \in LongTexts THEN "big" ELSE value.type, value.v)
      [] value.kind = "none" -> End
      [] value.kind = "image" -> IF k = 1 THEN Item("chunk", value.v) ELSE End
      [] value.kind = "delayed" ->
           IF value.call \in DOMAIN m.returns THEN StreamItem(m, m.returns[value.call], k) ELSE End
      [] value.kind = "column" ->
           LET t == m.heap[value.table]
           IN IF t.proxy THEN StreamItem(m, t.values[value.index], k)
              ELSE IF k > t.count THEN End ELSE ReadCell(m, t, k, value.index)
      [] value.kind = "compare" ->
           LET l == StreamItem(m, value.lhs, k)
               r == StreamItem(m, value.rhs, k)
           IN IF Broken \in {l, r} \/ (IsValue(l) /\ IsValue(r)) THEN Broken
              ELSE IF IsValue(l) THEN Item("int", <<<<"1">>>>)
              ELSE IF IsValue(r) THEN Item("int", <<<<"-1">>>>) ELSE End

Poll(m, value) == StreamItem(m, value, 1)

(* fill_column: the size of an item must be that of the column, and only a *)
(* column of images has a file for them; a big image is OK_TODO.           *)
Storable(type, item) ==
    \/ item.type = type /\ type \in {"int", "string", "bool"}
    \/ item.type = "chunk" /\ type = "png" /\ item.v \notin BigImages
CellOf(item, at) ==
    IF item.type = "chunk" THEN [type |-> "png", v |-> SubSeq(item.v, 1, 2), at |-> at]
    ELSE [type |-> item.type, v |-> item.v, at |-> 0]

(* Items are stored in column j of table t, one after another.  Their      *)
(* images go behind those the table has in memory for the column.          *)
Cells(t, j, items) == [r \in DOMAIN items |-> CellOf(items[r], t.imgs[j] + r - 1)]
ImagesAfter(images, t, j, items) ==
    IF t.cols[j].type # "png" THEN images
    ELSE SubSeq(images, 1, t.imgs[j]) \o [r \in DOMAIN items |-> items[r].v]
ImageCount(t, j, items) == IF t.cols[j].type = "png" THEN t.imgs[j] + Len(items) ELSE 0
=============================================================================
