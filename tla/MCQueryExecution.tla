-------------------------- MODULE MCQueryExecution --------------------------
(* A server with two databases and the queries TLC sends to QueryExecution. *)
EXTENDS QueryExecution, SqlTree

Id(n) == IdentifierExpr(<<n>>)
Number(n) == LiteralExpr("integer", <<n>>)
Text(n) == LiteralExpr("string", <<n>>)
True == LiteralExpr("TRUE", <<>>)
Null == LiteralExpr("NULL", <<>>)
Star == [kind |-> "*"]
RgbOf(width, n) == CallExpr(Id("RGB"), <<Number(width), Number("1"), Text(n)>>, 0)
Rgb(n) == RgbOf("1", n)
From(exprs, table) == SelectExpr(exprs, table, 0)
Select(exprs, table) == ExprStmt(From(exprs, Id(table)))
Insert(table, columns, rows) == InsertStmt(<<table>>, [i \in DOMAIN columns |-> <<columns[i]>>], rows)
SetTo(name, value) == SetClause(<<name>>, value)
Col(name, type) == [name |-> <<name>>, type |-> type]

(* d0 has t with two rows, p with one image, and a user; d1, the head of   *)
(* the pool, has q.                                                        *)
Image1 == <<<<"1">>, <<"1">>, <<"x">>>>
Table(name, cols, n, imgs) ==
    [proxy |-> FALSE, name |-> <<name>>, cols |-> cols, kv |-> n, count |-> n, imgs |-> imgs, values |-> <<>>]
Cell1(type, v) == [type |-> type, v |-> v, at |-> 0]
IntCell(n) == Cell1("int", <<<<n>>>>)
StrCell(n) == Cell1("string", <<<<n>>>>)
MCHeap ==
    <<Table("t", <<Col("a", "int"), Col("b", "string")>>, 2, <<0, 0>>),
      Table("p", <<Col("p", "png")>>, 1, <<1>>),
      Table("q", <<Col("a", "int")>>, 1, <<0>>)>>
NoImages(names) == [n \in {<<c>> : c \in names} |-> <<>>]
MCFiles ==
    <<"t">> :> [kv |-> 2, rows |-> <<<<IntCell("1"), StrCell("x")>>, <<IntCell("2"), StrCell("y")>>>>,
                images |-> NoImages({"a", "b"})]
    @@ <<"p">> :> [kv |-> 1, rows |-> <<<<Cell1("png", SubSeq(Image1, 1, 2))>>>>, images |-> <<"p">> :> <<Image1>>]
    @@ <<"q">> :> [kv |-> 1, rows |-> <<<<IntCell("7")>>>>, images |-> NoImages({"a"})]
MCDbs ==
    <<[name |-> <<"d0">>, tables |-> <<1, 2>>, users |-> <<[name |-> <<"v">>, password |-> <<>>]>>],
      [name |-> <<"d1">>, tables |-> <<3>>, users |-> <<>>]>>
MCPool == <<2, 1>>

(* Queries that combine well, and the odd ones.                            *)
Ordinary ==
    {Select(<<Star>>, "t"), Select(<<Id("b"), Number("3"), Id("a")>>, "t"), Select(<<Id("p"), True>>, "p"),
     Select(<<Star>>, "q"), ExprStmt(Rgb("x")), ExprStmt(Rgb("bad")),
     Insert("t", <<"a", "b">>, <<<<Number("3"), Text("z")>>, <<Number("4"), Text("w")>>>>),
     Insert("p", <<"p">>, <<<<Rgb("x")>>>>),
     Insert("p", <<"p">>, <<<<Rgb("x")>>, <<Rgb("bad")>>>>),
     UpdateStmt(Id("t"), <<SetTo("a", Number("9"))>>, <<>>),
     UpdateStmt(Id("t"), <<SetTo("b", Text("n")), SetTo("b", Id("b"))>>, <<>>),
     DeleteStmt(Id("t"), <<>>), DeleteStmt(Id("p"), <<>>),
     DropStmt("TABLE", <<"t">>), DropStmt("DATABASE", <<"d0">>), DropStmt("DATABASE", <<"d1">>),
     CreateTableStmt(<<"n">>, <<[name |-> <<"c">>, type |-> <<"int">>]>>),
     Insert("n", <<"c">>, <<<<Number("5")>>>>), Select(<<Star>>, "n"),
     CreateDatabaseStmt(<<"d2">>), UseStmt(<<"d1">>), UseStmt(<<"d2">>),
     CreateUserStmt(<<"v">>), CreateUserStmt(<<"w">>),
     AlterUserStmt(<<"v">>, <<SetTo("PASSWORD", Text("k"))>>),
     AlterUserStmt(<<"w">>, <<SetTo("PASSWORD", Text("k"))>>)}
Odd ==
    {ExprStmt(RgbOf("4294967295", "x")), ExprStmt(RgbOf("18446744073709551617", "x")),
     Insert("p", <<"p">>, <<<<Rgb("large")>>>>),
     Insert("t", <<"a", "b">>, <<<<Number("18446744073709551617"), Text("z")>>>>),
     Select(<<>>, "t"), Select(<<Null>>, "t"), Select(<<BinaryOpExpr("=", Id("a"), Number("1"))>>, "t"),
     Select(<<Rgb("x")>>, "p"), Select(<<Star>>, "p"), Select(<<Id("p")>>, "p"), Select(<<Text("L")>>, "t"),
     ExprStmt(BinaryOpExpr("=", True, True)),
     ExprStmt(From(<<Star>>, From(<<Id("a")>>, Id("t")))),
     UpdateStmt(From(<<Id("a")>>, Id("t")), <<SetTo("a", Number("9"))>>, <<>>),
     DeleteStmt(From(<<Id("a")>>, Id("t")), <<>>),
     UpdateStmt(Id("t"), <<SetTo("a", Number("9")), SetTo("b", Id("b"))>>, <<>>),
     UpdateStmt(Id("p"), <<SetTo("p", Rgb("x"))>>, <<>>),
     Insert("t", <<"b", "a">>, <<<<Text("z"), Number("3")>>>>),
     Insert("t", <<"a", "b">>, <<<<Number("3"), Text("L")>>>>),
     CreateTableStmt(<<"t">>, <<[name |-> <<"a">>, type |-> <<"int">>], [name |-> <<"b">>, type |-> <<"text">>]>>),
     CreateTableStmt(<<"m">>, <<>>),
     AlterUserStmt(<<"v">>, <<SetTo("NAME", Text("k"))>>),
     AlterUserStmt(<<"v">>, <<SetTo("PASSWORD", Text("k")), SetTo("PASSWORD", Text("l"))>>),
     AlterUserStmt(<<"v">>, <<SetTo("PASSWORD", Number("1"))>>)}

Statements == Ordinary \cup Odd
MCSessions ==
    {<<<<s>>>> : s \in Statements} \cup {<<<<s, r>>>> : s, r \in Statements} \cup {<<<<s>>, <<r>>>> : s, r \in Statements}
    \cup {<<<<s, r, q>>>> : s \in {e \in Ordinary : e.kind \in {"use", "create", "insert"}}, r, q \in Ordinary}

BigImage == <<<<"1">>, <<"1">>, <<"large">>>>
MCGoodImages == {Image1, BigImage}
MCBigImages == {BigImage}
MCReadAs == <<"18446744073709551617">> :> <<"1">>
MCNoSizes == {<<"4294967295">>}
MCLongTexts == {<<"L">>}
MCStaleCounts == {0, 2}
=============================================================================
