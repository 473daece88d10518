--------------------------- MODULE MCSqlFrontEnd ---------------------------
(* Three databases and the queries TLC sends to SqlFrontEnd.               *)
EXTENDS SqlFrontEnd

MCNames == {"t", "p", "u", "a", "b", "d0", "d1", "d2", "int", "text", "RGB", "password"}

Col(name, type) == [name |-> <<name>>, type |-> type]
Tab(name, cols) == [name |-> <<name>>, cols |-> cols]
MCDatabases ==
    <<[name |-> <<"d0">>, tables |-> <<Tab("t", <<Col("a", "int"), Col("b", "string")>>),
                                       Tab("p", <<Col("p", "png")>>)>>],
      [name |-> <<"d1">>, tables |-> <<Tab("t", <<Col("a", "string"), Col("b", "string")>>)>>],
      [name |-> <<"d2">>, tables |-> <<>>]>>

(* All short texts over pieces of every kind the lexer tells apart.        *)
LexPieces == {"a", "1", "'", " ", "\n", "-", "*", "#"}
ShortTexts == UNION {[1..n -> LexPieces] : n \in 0..4}

(* Words with a blank between them; a quote and its neighbours touch.      *)
RECURSIVE Spaced(_)
Spaced(words) == IF words = <<>> THEN <<>> ELSE <<Head(words), " ">> \o Spaced(Tail(words))

Statements ==
    {<<"SELECT", "*", "FROM", "t", ";">>,
     <<"SELECT", "a", ",", "b", "FROM", "t", ";">>,
     <<"SELECT", "a", "=", "1", "FROM", "t", ";">>,
     <<"SELECT", "a", "<", "1", "FROM", "t", ";">>,
     <<"SELECT", "*", ",", "a", "FROM", "t", ";">>,
     <<"SELECT", "*", ",", "*", "FROM", "t", ";">>,
     <<"SELECT", "p", "FROM", "p", ";">>,
     <<"SELECT", "*", "FROM", "SELECT", "a", "FROM", "t", ";", ";">>,
     <<"INSERT", "INTO", "t", "(", "a", ",", "b", ")", "VALUES", "(", "1", ",", "'", "x", "'", ")", ";">>,
     <<"INSERT", "INTO", "t", "(", "b", ",", "a", ")", "VALUES", "(", "NULL", ",", "0", ")", ",",
       "(", "'", "'", ",", "'", "'", ")", ";">>,
     <<"INSERT", "INTO", "p", "(", "p", ")", "VALUES",
       "(", "RGB", "(", "1", ",", "1", ",", "'", "'", ")", ")", ";">>,
     <<"INSERT", "INTO", "p", "(", "p", ")", "VALUES", "(", "1", ")", ";">>,
     <<"INSERT", "INTO", "u", "(", "a", ")", "VALUES", "(", "1", ")", ";">>,
     <<"INSERT", "INTO", "(", "a", ")", "VALUES", "(", "1", ")", ";">>,
     <<"UPDATE", "t", "SET", "a", "=", "1", ",", "b", "=", "NULL", ";">>,
     <<"UPDATE", "t", "SET", "a", "=", "b", ";">>,
     <<"UPDATE", "t", "SET", "a", "=", "1", "WHERE", "TRUE", ";">>,
     <<"DELETE", "FROM", "t", ";">>,
     <<"DELETE", "FROM", "t", "WHERE", "a", "=", "1", ";">>,
     <<"DROP", "TABLE", "t", ";">>,
     <<"DROP", "DATABASE", "d1", ";">>,
     <<"CREATE", "TABLE", "u", "(", "a", "int", ")", ";">>,
     <<"CREATE", "DATABASE", "u", ";">>,
     <<"CREATE", "USER", "a", ";">>,
     <<"USE", "d1", ";">>,
     <<"USE", "d2", ";">>,
     <<"ALTER", "USER", "a", "SET", "password", "=", "'", "a", "'", ";">>,
     <<"ALTER", "TABLE", "t", "SET", "a", "=", "1", ";">>,
     <<"RGB", "(", "1", ",", "1", ",", "'", "'", ")">>,
     <<"RGB", "(", "1", ",", "RGB", "(", "1", ")", ")">>,
     <<"TRUE", "=", "1">>}

(* Statements in each database and behind the last one, two statements     *)
(* after each other, statements cut short anywhere, and the short texts.   *)
Alone == {Spaced(s) : s \in Statements}
Pairs == {Spaced(s \o r) : s, r \in Statements}
Cut == {Spaced(SubSeq(s, 1, IF n < Len(s) THEN n ELSE Len(s) - 1)) : s \in Statements, n \in 1..18}

For(texts, dbs) == {[text |-> t, db |-> d] : t \in texts, d \in dbs}
MCRequests ==
    For(Alone, 0..Len(MCDatabases)) \cup For(Pairs \cup Cut \cup ShortTexts, {0})
MCJunk == {0, 9}
=============================================================================
