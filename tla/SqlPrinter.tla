----------------------------- MODULE SqlPrinter -----------------------------
(***************************************************************************)
(* What a syntax tree of src/src/SQL/ast.hpp says, in the words of the     *)
(* query it was read from: the inverse of SqlParser, commas left out.  The *)
(* code has no such printer; it is the measure of its parser.              *)
(*                                                                         *)
(* A tree is printed by taking its nodes off a list of work: a node with   *)
(* parts is replaced by them, any other adds its text to the output.       *)
(***************************************************************************)
EXTENDS SqlLexer, SqlTree

(* Nodes the tree does not have, for the words and the brackets around its *)
(* own.                                                                    *)
Word(text) == [kind |-> "word", text |-> text]
RowNode(exprs) == [kind |-> "row", exprs |-> exprs]
ClauseNode(clause) == [kind |-> "clause", name |-> clause.name, value |-> clause.value]
ColumnNode(column) == [kind |-> "column", name |-> column.name, type |-> column.type]
Each(Node(_), list) == [i \in DOMAIN list |-> Node(list[i])]

Ended == <<Word(<<Semicolon>>)>>
Bracketed(nodes) == <<Word(<<"(">>)>> \o nodes \o <<Word(<<")">>)>>
Where(filter) == IF filter = <<>> THEN <<>> ELSE <<Word(<<"WHERE">>)>> \o filter
Named(name) == IF name = <<>> THEN <<>> ELSE <<Word(name)>>

Leaves == {"word", "ident", "integer", "string", "TRUE", "FALSE", "NULL", "*"}

(* The parts of a node, in the order of the query.                         *)
Parts(n) ==
    CASE n.kind = "binary" -> <<n.lhs, Word(<<n.op>>), n.rhs>>
      [] n.kind = "call" -> <<n.fn>> \o Bracketed(n.args)
      [] n.kind = "select" ->
           <<Word(<<"SELECT">>)>> \o n.exprs \o <<Word(<<"FROM">>), n.table>> \o Ended
      [] n.kind = "row" -> Bracketed(n.exprs)
      [] n.kind = "clause" -> <<Word(n.name), Word(<<"=">>), n.value>>
      [] n.kind = "column" -> <<Word(n.name), Word(n.type)>>
      [] n.kind = "expr" -> <<n.expr>>
      [] n.kind = "use" -> <<Word(<<"USE">>), Word(n.name)>> \o Ended
      [] n.kind = "insert" ->
           <<Word(<<"INSERT">>), Word(<<"INTO">>)>> \o Named(n.name) \o Bracketed(Each(Word, n.columns))
             \o <<Word(<<"VALUES">>)>> \o Each(RowNode, n.rows) \o Ended
      [] n.kind = "update" ->
           <<Word(<<"UPDATE">>), n.table, Word(<<"SET">>)>> \o Each(ClauseNode, n.clauses)
             \o Where(n.filter) \o Ended
      [] n.kind = "delete" -> <<Word(<<"DELETE">>), Word(<<"FROM">>), n.table>> \o Where(n.filter) \o Ended
      [] n.kind = "drop" -> <<Word(<<"DROP">>), Word(<<n.target>>), Word(n.name)>> \o Ended
      [] n.kind = "create" ->
           <<Word(<<"CREATE">>), Word(<<n.target>>), Word(n.name)>>
             \o (IF n.target = "TABLE" THEN Bracketed(Each(ColumnNode, n.columns)) ELSE <<>>) \o Ended
      [] n.kind = "alter" ->
           <<Word(<<"ALTER">>), Word(<<"USER">>), Word(n.name), Word(<<"SET">>)>>
             \o Each(ClauseNode, n.clauses) \o Ended

LeafText(n) == IF n.kind = "ident" THEN n.name ELSE n.text

(* A page: the work left and the words printed.                            *)
Page(work, out) == [work |-> work, out |-> out]
PrintStep(page) ==
    IF page.work = <<>> THEN page
    ELSE LET n == Head(page.work)
         IN IF n.kind \in Leaves
            THEN Page(Tail(page.work), Append(page.out, LeafText(n)))
            ELSE Page(Parts(n) \o Tail(page.work), page.out)

(* The page after every number of steps.                                   *)
Printing(page) ==
    LET after[n \in Nat] == IF n = 0 THEN page ELSE PrintStep(after[n - 1])
    IN after

(* The texts of the first tokens of a query, without its commas.           *)
WithWord(words, token) == IF token.type = Comma THEN words ELSE Append(words, token.text)
WordsOf(tokens) ==
    LET words[n \in 0..Len(tokens)] == IF n = 0 THEN <<>> ELSE WithWord(words[n - 1], tokens[n])
    IN words
=============================================================================
