---------------------------- MODULE QueryMeaning ----------------------------
(***************************************************************************)
(* What the statements of a query say, one after the other, on databases   *)
(* that are functions from names: the meaning QueryExecution is compared   *)
(* with.  A state has the database in use, the databases with their tables *)
(* and users, whether a statement failed, and the answer: the rows of the  *)
(* last SELECT.                                                            *)
(***************************************************************************)
EXTENDS TableStream

CONSTANT GoodImages     \* <<width, height, pixels>> that RGB can make an image of

LiteralTypes == [integer |-> "int", string |-> "string"] @@ ("TRUE" :> "bool") @@ ("FALSE" :> "bool")

With(f, n, v) == (n :> v) @@ f
Without(f, n) == [k \in DOMAIN f \ {n} |-> f[k]]
PlaceOf(cols, name) == CHOOSE j \in DOMAIN cols : cols[j].name = name /\ \A i \in 1..(j - 1) : cols[i].name # name

Image(call) == [i \in DOMAIN call.args |-> call.args[i].text]
Sound(e) == e.kind = "call" => Image(e) \in GoodImages
Denote(e, cols, row) ==
    CASE e.kind = "ident" -> row[PlaceOf(cols, e.name)]
      [] e.kind = "call" -> Item("chunk", Image(e))
      [] OTHER -> Item(LiteralTypes[e.kind], <<e.text>>)

MeaningFails(w) == [w EXCEPT !.fail = TRUE]
Tables(w) == w.dbs[w.use].tables
SetTables(w, tables) == [w EXCEPT !.dbs[w.use].tables = tables]
SetUsers(w, users) == [w EXCEPT !.dbs[w.use].users = users]

InsertMeans(w, s) ==
    LET t == Tables(w)[s.name]
        value(r, j) == Denote(s.rows[r][CHOOSE p \in DOMAIN s.columns : s.columns[p] = t.cols[j].name], t.cols, <<>>)
        rows == [r \in DOMAIN s.rows |-> [j \in DOMAIN t.cols |-> value(r, j)]]
    IN IF \E r \in DOMAIN s.rows : \E p \in DOMAIN s.rows[r] : ~Sound(s.rows[r][p]) THEN MeaningFails(w)
       ELSE SetTables(w, With(Tables(w), s.name, [t EXCEPT !.rows = @ \o rows]))

RECURSIVE Assigned(_, _, _)
Assigned(row, cols, clauses) ==
    IF clauses = <<>> THEN row
    ELSE Assigned([row EXCEPT ![PlaceOf(cols, Head(clauses).name)] = Denote(Head(clauses).value, cols, row)],
                  cols, Tail(clauses))
UpdateMeans(w, s) ==
    LET t == Tables(w)[s.table.name]
    IN SetTables(w, With(Tables(w), s.table.name,
                         [t EXCEPT !.rows = [r \in DOMAIN @ |-> Assigned(@[r], t.cols, s.clauses)]]))

SelectMeans(w, e) ==
    LET t == Tables(w)[e.table.name]
        values(i, row) == IF e.exprs[i].kind = "*" THEN row ELSE <<Denote(e.exprs[i], t.cols, row)>>
    IN [w EXCEPT !.answer = [r \in DOMAIN t.rows |-> FlattenSeq([i \in DOMAIN e.exprs |-> values(i, t.rows[r])])]]

CreateMeans(w, s) ==
    CASE s.target = "DATABASE" -> [w EXCEPT !.dbs = With(@, s.name, [tables |-> <<>>, users |-> <<>>])]
      [] s.target = "TABLE" -> IF s.name \in DOMAIN Tables(w) THEN MeaningFails(w)
                               ELSE SetTables(w, With(Tables(w), s.name, [cols |-> s.columns, rows |-> <<>>]))
      [] s.target = "USER" -> IF ~w.admin \/ s.name \in DOMAIN w.dbs[w.use].users THEN MeaningFails(w)
                              ELSE SetUsers(w, With(w.dbs[w.use].users, s.name, <<>>))

AlterMeans(w, s) ==
    IF \/ ~w.admin \/ s.name \notin DOMAIN w.dbs[w.use].users
       \/ \E i \in DOMAIN s.clauses : s.clauses[i].name # <<"PASSWORD">> \/ s.clauses[i].value.kind # "string"
    THEN MeaningFails(w)
    ELSE SetUsers(w, With(w.dbs[w.use].users, s.name, <<s.clauses[Len(s.clauses)].value.text>>))

StatementMeans(w, s) ==
    CASE s.kind = "use" -> [w EXCEPT !.use = s.name]
      [] s.kind = "create" -> CreateMeans(w, s)
      [] s.kind = "drop" -> IF s.target = "TABLE" THEN SetTables(w, Without(Tables(w), s.name))
                            ELSE [w EXCEPT !.dbs = Without(@, s.name)]
      [] s.kind = "insert" -> InsertMeans(w, s)
      [] s.kind = "update" -> UpdateMeans(w, s)
      [] s.kind = "delete" -> SetTables(w, With(Tables(w), s.table.name, [Tables(w)[s.table.name] EXCEPT !.rows = <<>>]))
      [] s.kind = "alter" -> AlterMeans(w, s)
      [] s.kind = "expr" /\ s.expr.kind = "select" -> SelectMeans(w, s.expr)
      [] s.kind = "expr" /\ s.expr.kind = "call" -> IF Sound(s.expr) THEN w ELSE MeaningFails(w)
      [] OTHER -> w

(* A statement that fails is the last one.                                 *)
RECURSIVE QueryMeans(_, _)
QueryMeans(w, stmts) ==
    IF stmts = <<>> \/ w.fail THEN w ELSE QueryMeans(StatementMeans(w, Head(stmts)), Tail(stmts))
=============================================================================
