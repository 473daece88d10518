----------------------------- MODULE SqlParser -----------------------------
(***************************************************************************)
(* src/src/SQL/Parser.cpp: the recursive descent over a list of tokens and *)
(* the syntax tree of src/src/SQL/ast.hpp it builds.                       *)
(*                                                                         *)
(* A parser is a record: the tokens (their types and texts), the position  *)
(* of the next one, the tree or the list built last (val) and how the      *)
(* descent goes (fail): "no" while it does, "error" once a token was       *)
(* refused, "trap" once the process ended.  Every operator takes a parser  *)
(* and gives the parser after its call; the first failure stays, as TRY    *)
(* returns at once.                                                        *)
(*                                                                         *)
(* What calls itself, the expressions and the lists with commas, are       *)
(* rules, and parse is the function from a rule and the position it starts *)
(* at to the parser after it.                                              *)
(***************************************************************************)
EXTENDS SqlLexer, SqlTree

Parser(tokens, pos) == [tokens |-> tokens, pos |-> pos, val |-> <<>>, fail |-> "no"]

Fails(p) == p.fail # "no"
IsEof(p) == p.pos > Len(p.tokens)
At(p, type) == ~IsEof(p) /\ p.tokens[p.pos].type = type

Advance(p) == [p EXCEPT !.pos = @ + 1]
Yield(p, node) == IF Fails(p) THEN p ELSE [p EXCEPT !.val = node]
Refuse(p) == [p EXCEPT !.fail = "error"]

(* TRY: the rest of a function, unless what came before it failed.         *)
AndThen(p, Rest(_)) == IF Fails(p) THEN p ELSE Rest(p)

(* expect, at the end of the tokens and at another token an error.         *)
Expect(p, type) ==
    IF Fails(p) THEN p ELSE IF At(p, type) THEN Advance(p) ELSE Refuse(p)

(* expect(IDENT): its text is the value.                                   *)
Ident(p) ==
    AndThen(Expect(p, "ident"), LAMBDA q : Yield(q, p.tokens[p.pos].text))

Rule(parse, rule, p) == IF Fails(p) THEN p ELSE parse[<<rule, p.pos>>]

(* Faulty variant: the items before a comma are forgotten. *)
More_KeepsLast(parse, rule, item) ==
    IF At(item, Comma) /\ ~Fails(item) THEN Rule(parse, rule, Advance(item)) ELSE Yield(item, <<item.val>>)

(* A list: after an item and a comma there is more of it.                  *)
More(parse, rule, item) ==
    AndThen(item, LAMBDA e :
        IF At(e, Comma)
        THEN AndThen(Rule(parse, rule, Advance(e)), LAMBDA rest : Yield(rest, <<e.val>> \o rest.val))
        ELSE Yield(e, <<e.val>>))

-----------------------------------------------------------------------------
(* Expressions                                                             *)

Literals == {"integer", "string", "TRUE", "FALSE", "NULL", "*"}
Operators == {"=", "<", ">"}

(* parse_select_expr: the statement's semicolon belongs to the expression. *)
Select(parse, p) ==
    AndThen(Rule(parse, "expressions", Expect(p, "SELECT")), LAMBDA exprs :
        AndThen(Rule(parse, "expression", Expect(exprs, "FROM")), LAMBDA table :
            Yield(Expect(table, Semicolon), SelectExpr(exprs.val, table.val, p.pos))))

(* parse_expression_prim.                                                  *)
Primary(parse, p) ==
    IF IsEof(p) THEN Refuse(p)
    ELSE LET token == p.tokens[p.pos]
         IN CASE token.type = "ident" -> Yield(Advance(p), IdentifierExpr(token.text))
              [] token.type \in Literals -> Yield(Advance(p), LiteralExpr(token.type, token.text))
              [] token.type = "SELECT" -> Select(parse, p)
              [] OTHER -> Refuse(p)

(* Parser.expression: an operator takes the whole rest as its right side,  *)
(* and a parenthesis after any expression makes it a call.                 *)
BinaryRest(parse, lhs) ==
    LET op == lhs.tokens[lhs.pos].type
    IN AndThen(Rule(parse, "expression", Advance(lhs)), LAMBDA rhs : Yield(rhs, BinaryOpExpr(op, lhs.val, rhs.val)))
CallRest(parse, fn) ==
    AndThen(Rule(parse, "arguments", Advance(fn)), LAMBDA args : Yield(args, CallExpr(fn.val, args.val, args.pos - 1)))
Expression(parse, p) ==
    AndThen(Primary(parse, p), LAMBDA lhs :
        CASE \E op \in Operators : At(lhs, op) -> BinaryRest(parse, lhs)
          [] At(lhs, "(") -> CallRest(parse, lhs)
          [] OTHER -> lhs)

(* The arguments of a call: a comma after one is skipped, never required.  *)
Arguments(parse, p) ==
    IF IsEof(p) THEN Refuse(p)
    ELSE IF At(p, ")") THEN Yield(Advance(p), <<>>)
    ELSE AndThen(Expression(parse, p), LAMBDA arg :
             AndThen(Rule(parse, "arguments", IF At(arg, Comma) THEN Advance(arg) ELSE arg), LAMBDA rest :
                 Yield(rest, <<arg.val>> \o rest.val)))

-----------------------------------------------------------------------------
(* Parts of statements                                                     *)

(* A row of values between parentheses.                                    *)
Row(parse, p) == Expect(Rule(parse, "expressions", Expect(p, "(")), ")")

(* set_clause, and the same pair in update_stmt.                           *)
Clause(parse, p) ==
    AndThen(Ident(p), LAMBDA name :
        AndThen(Rule(parse, "expression", Expect(name, "=")), LAMBDA value :
            Yield(value, SetClause(name.val, value.val))))

(* A column of CREATE TABLE: a name and a type, both identifiers.          *)
ColumnDef(p) ==
    AndThen(Ident(p), LAMBDA name :
        AndThen(Ident(name), LAMBDA type : Yield(type, [name |-> name.val, type |-> type.val])))

Rules == {"expression", "expressions", "arguments", "idents", "rows", "clauses", "columns"}
Applied(parse, rule, p) ==
    CASE rule = "expression" -> Expression(parse, p)
      [] rule = "expressions" -> More(parse, rule, Expression(parse, p))
      [] rule = "arguments" -> Arguments(parse, p)
      [] rule = "idents" -> More(parse, rule, Ident(p))
      [] rule = "rows" -> More(parse, rule, Row(parse, p))
      [] rule = "clauses" -> More(parse, rule, Clause(parse, p))
      [] rule = "columns" -> More(parse, rule, ColumnDef(p))

Descent(tokens) ==
    LET parse[at \in Rules \X (1..(Len(tokens) + 1))] == Applied(parse, at[1], Parser(tokens, at[2]))
    IN parse

-----------------------------------------------------------------------------
(* Statements                                                              *)

(* use_stmt.                                                               *)
Use(p) ==
    AndThen(Ident(Expect(p, "USE")), LAMBDA name : Yield(Expect(name, Semicolon), UseStmt(name.val)))

(* insert_stmt.  The name of the table is expected but its absence is not  *)
(* looked at: the text is then read from a token that was never set, which *)
(* the empty name stands for.                                              *)
InsertName(p) ==
    IF Fails(p) THEN p
    ELSE IF At(p, "ident") THEN Ident(p) ELSE Yield(p, <<>>)

Insert(parse, p) ==
    AndThen(InsertName(Expect(Expect(p, "INSERT"), "INTO")), LAMBDA name :
        AndThen(Rule(parse, "idents", Expect(name, "(")), LAMBDA columns :
            AndThen(Rule(parse, "rows", Expect(Expect(columns, ")"), "VALUES")), LAMBDA rows :
                Yield(Expect(rows, Semicolon), InsertStmt(name.val, columns.val, rows.val)))))

(* The optional WHERE of UPDATE and DELETE: no filter is the empty tuple.  *)
Filter(parse, p) ==
    IF ~At(p, "WHERE") THEN Yield(p, <<>>)
    ELSE AndThen(Rule(parse, "expression", Advance(p)), LAMBDA e : Yield(e, <<e.val>>))

(* update_stmt.                                                            *)
Update(parse, p) ==
    AndThen(Rule(parse, "expression", Expect(p, "UPDATE")), LAMBDA table :
        AndThen(Rule(parse, "clauses", Expect(table, "SET")), LAMBDA clauses :
            AndThen(Filter(parse, clauses), LAMBDA filter :
                Yield(Expect(filter, Semicolon), UpdateStmt(table.val, clauses.val, filter.val)))))

(* delete_stmt.                                                            *)
Delete(parse, p) ==
    AndThen(Rule(parse, "expression", Expect(Expect(p, "DELETE"), "FROM")), LAMBDA table :
        AndThen(Filter(parse, table), LAMBDA filter :
            Yield(Expect(filter, Semicolon), DeleteStmt(table.val, filter.val))))

(* drop_stmt.                                                              *)
Drop(p) ==
    LET target == IF At(Advance(p), "TABLE") THEN "TABLE" ELSE "DATABASE"
    IN AndThen(Ident(Expect(Advance(p), target)), LAMBDA name : Yield(Expect(name, Semicolon), DropStmt(target, name.val)))

(* create_stmt.                                                            *)
CreateTable(parse, p) ==
    AndThen(Ident(p), LAMBDA name :
        AndThen(Rule(parse, "columns", Expect(name, "(")), LAMBDA columns :
            Yield(Expect(Expect(columns, ")"), Semicolon), CreateTableStmt(name.val, columns.val))))
Create(parse, p) ==
    LET q == Advance(p)
    IN CASE At(q, "TABLE") -> CreateTable(parse, Advance(q))
         [] At(q, "DATABASE") ->
              AndThen(Ident(Advance(q)), LAMBDA name : Yield(Expect(name, Semicolon), CreateDatabaseStmt(name.val)))
         [] At(q, "USER") ->
              AndThen(Ident(Advance(q)), LAMBDA name : Yield(Expect(name, Semicolon), CreateUserStmt(name.val)))
         [] OTHER -> Refuse(q)

(* alter_stmt: a target that is no user is marked as an error and runs     *)
(* into OK_UNREACHABLE.                                                    *)
Alter(parse, p) ==
    LET q == Advance(p)
    IN IF ~IsEof(q) /\ ~At(q, "USER") THEN [q EXCEPT !.fail = "trap"]
       ELSE AndThen(Ident(Expect(q, "USER")), LAMBDA name :
                AndThen(Rule(parse, "clauses", Expect(name, "SET")), LAMBDA clauses :
                    Yield(Expect(clauses, Semicolon), AlterUserStmt(name.val, clauses.val))))

(* Parser.stmt: an expression is a statement, without a semicolon.         *)
Statement(p) ==
    LET parse == Descent(p.tokens)
    IN CASE At(p, "DELETE") -> Delete(parse, p)
         [] At(p, "INSERT") -> Insert(parse, p)
         [] At(p, "UPDATE") -> Update(parse, p)
         [] At(p, "DROP") -> Drop(p)
         [] At(p, "CREATE") -> Create(parse, p)
         [] At(p, "USE") -> Use(p)
         [] At(p, "ALTER") -> Alter(parse, p)
         [] OTHER -> AndThen(Expression(parse, p), LAMBDA e : Yield(e, ExprStmt(e.val)))
=============================================================================
