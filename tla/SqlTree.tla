------------------------------ MODULE SqlTree ------------------------------
(***************************************************************************)
(* src/src/SQL/ast.hpp and ast.cpp: the nodes of the syntax tree.  A list  *)
(* of pairs the code keeps as two lists (the columns and the values of an  *)
(* UPDATE, the names and the types of CREATE TABLE) is one sequence here,  *)
(* and the rows of an INSERT are cut where values_counts cuts them.        *)
(***************************************************************************)

(* Expr: a literal keeps its text, and its kind is that of its token.      *)
LiteralExpr(type, text) == [kind |-> type, text |-> text]
IdentifierExpr(value) == [kind |-> "ident", name |-> value]
BinaryOpExpr(op, lhs, rhs) == [kind |-> "binary", op |-> op, lhs |-> lhs, rhs |-> rhs]
SelectExpr(exprs, table, at) == [kind |-> "select", exprs |-> exprs, table |-> table, at |-> at]
CallExpr(fn, args, at) == [kind |-> "call", fn |-> fn, args |-> args, at |-> at]

(* Expr::operator==.  Two nodes are equal when their trees are, except     *)
(* SELECT and CALL, which compare pointers to their parts: no two of them  *)
(* are, and at, the place a node was parsed at, keeps them apart.          *)
SameExpr(e, f) == e = f

(* Stmt.                                                                   *)
ExprStmt(expr) == [kind |-> "expr", expr |-> expr]
UseStmt(database) == [kind |-> "use", name |-> database]
InsertStmt(table, columns, rows) == [kind |-> "insert", name |-> table, columns |-> columns, rows |-> rows]
UpdateStmt(table, clauses, filter) ==
    [kind |-> "update", table |-> table, clauses |-> clauses, filter |-> filter]
DeleteStmt(table, filter) == [kind |-> "delete", table |-> table, filter |-> filter]
DropStmt(target, name) == [kind |-> "drop", target |-> target, name |-> name]
CreateStmt(target, name, columns) == [kind |-> "create", target |-> target, name |-> name, columns |-> columns]
CreateDatabaseStmt(name) == CreateStmt("DATABASE", name, << >>)
CreateTableStmt(name, columns) == CreateStmt("TABLE", name, columns)
CreateUserStmt(name) == CreateStmt("USER", name, << >>)
SetClause(name, value) == [name |-> name, value |-> value]
AlterUserStmt(name, clauses) == [kind |-> "alter", name |-> name, clauses |-> clauses]
=============================================================================
