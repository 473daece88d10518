---------------------------- MODULE SqlCompiler ----------------------------
(***************************************************************************)
(* src/src/SQL/ir.cpp: from the syntax tree to the instructions of         *)
(* ENUM_IR_CONTRACTS (src/src/SQL/ir.hpp).                                 *)
(*                                                                         *)
(* The compiler's context (IrContext) is a record: the schemas of the      *)
(* databases, the active one, the instructions and the schemas they point  *)
(* to (code, schemas), the stack of tables columns are looked up in, what  *)
(* the graph of the current statement was compiled to (nodes, memo), the   *)
(* ids the last call returned (out) and its failure: "error" for a message to the  *)
(* client, "trap" for an assertion that ends the process.  Ids are indices *)
(* from 0, as in the code.  Operands are kept in the instructions instead  *)
(* of the pools of strings and integers they are looked up in.             *)
(***************************************************************************)
EXTENDS Integers, FiniteSets, SequencesExt, SqlTree

CONSTANT IdRange        \* values of the U8 that get_table_schema takes: 256

(* populate_ir_context_from_pool and the start of ir_compile_query: what   *)
(* remains of an earlier query is the active database.                     *)
Context(databases, active) ==
    [databases |-> databases, active |-> active, code |-> <<>>, schemas |-> <<>>,
     scope |-> <<>>, nodes |-> <<>>, memo |-> <<>>, out |-> <<>>, fail |-> "no"]

Failed(c) == c.fail # "no"
ErrorOn(c) == [c EXCEPT !.fail = "error"]
Asserts(c) == [c EXCEPT !.fail = "trap"]
Return(c, ids) == [c EXCEPT !.out = ids]

(* TRY: the rest of a function, unless what came before it failed.         *)
AndThen(c, Rest(_)) == IF Failed(c) THEN c ELSE Rest(c)

(* emit_...: the id of an instruction is its place.                        *)
Emit(c, instr) == Return([c EXCEPT !.code = Append(@, instr)], <<Len(c.code)>>)
Instr(c, id) == c.code[id + 1]

(* TableSchema.find_column.                                                *)
HasColumn(schema, name) == \E i \in DOMAIN schema : schema[i].name = name

(* The position a name stands for in a list, from 0, the first match.      *)
FirstNamed(list, name) ==
    CHOOSE i \in 0..Len(list) :
        /\ i = Len(list) \/ list[i + 1].name = name
        /\ \A j \in 1..i : list[j].name # name

(* get_table_schema: table_schemas_index keeps the last schema put under a *)
(* name.  It takes the database as U8.                                     *)
TableIds(c, db, name) == {t \in 1..Len(c.databases[db + 1].tables) : c.databases[db + 1].tables[t].name = name}
LookupDb(c) == c.active % IdRange
LookupTable(c, name) ==
    LET db == LookupDb(c)
        ids == TableIds(c, db, name)
    IN IF ids = {} THEN <<>> ELSE <<[db |-> db, table |-> CHOOSE t \in ids : \A u \in ids : u <= t]>>
SchemaOf(c, ref) == c.databases[ref.db + 1].tables[ref.table].cols

(* get_table_schema_by_id.  EmitQuery never sets the operand it reads as   *)
(* the place of a schema: junk is the value found there.                   *)
TableGenerating(c, id) == Instr(c, id).op \in {"FetchTable", "EmitQuery"}
SchemaId(c, id) == IF Instr(c, id).op = "FetchTable" THEN Instr(c, id).schema ELSE Instr(c, id).junk
SchemaById(c, id) == SchemaOf(c, c.schemas[SchemaId(c, id) + 1])

PushTable(c, id) == [c EXCEPT !.scope = Append(@, id)]
PopNamespace(c) == IF Failed(c) THEN c ELSE [c EXCEPT !.scope = SubSeq(@, 1, Len(@) - 1)]
CurrentTable(c) == c.scope[Len(c.scope)]

-----------------------------------------------------------------------------
(* Leaves                                                                  *)

(* compile_ident: a column inside a statement over a table, a table        *)
(* elsewhere.                                                              *)
CompileIdent(c, e) ==
    IF c.scope # <<>>
    THEN IF HasColumn(SchemaById(c, CurrentTable(c)), e.name)
         THEN Emit(c, [op |-> "FetchColumn", table |-> CurrentTable(c), name |-> e.name])
         ELSE ErrorOn(c)
    ELSE IF LookupDb(c) >= Len(c.databases) THEN Asserts(c)
    ELSE LET found == LookupTable(c, e.name)
         IN IF found = <<>> THEN ErrorOn(c)
            ELSE Emit([c EXCEPT !.schemas = Append(@, found[1])],
                      [op |-> "FetchTable", name |-> e.name, schema |-> Len(c.schemas)])

ConstTypes == [integer |-> "ConstInt", string |-> "ConstString"] @@ ("TRUE" :> "ConstTrue")
                 @@ ("FALSE" :> "ConstFalse") @@ ("NULL" :> "ConstNull")

RECURSIVE CompileExpr(_, _), CompileArgs(_, _, _)

(* compile_expr: an expression that is no node of the graph.               *)
CompileExpr(c, e) ==
    IF Failed(c) THEN c
    ELSE CASE e.kind \in DOMAIN ConstTypes -> Emit(c, [op |-> ConstTypes[e.kind], text |-> e.text])
           [] e.kind = "ident" -> CompileIdent(c, e)
           [] e.kind = "call" /\ e.fn.kind = "ident" ->
                AndThen(CompileArgs(c, e.args, 1), LAMBDA args :
                    Emit(args, [op |-> "Call", name |-> e.fn.name, count |-> Len(e.args)]))
           [] OTHER -> Asserts(c)

CompileArgs(c, args, i) ==
    IF Failed(c) \/ i > Len(args) THEN c
    ELSE AndThen(CompileExpr(c, args[i]), LAMBDA value :
             CompileArgs(Emit(value, [op |-> "Arg", value |-> value.out[1]]), args, i + 1))

-----------------------------------------------------------------------------
(* The graph of a statement: equal nodes are one node, compiled once.      *)

Remember(c, e, id) == IF Failed(c) THEN c ELSE [c EXCEPT !.memo = (e :> id) @@ @]
Result(c, e) == IF Failed(c) THEN c ELSE Remember(c, e, c.out[1])

(* STAR: one FetchColumn per column; the node itself never gets an id.     *)
RECURSIVE FetchAll(_, _, _, _)
FetchAll(c, table, i, ids) ==
    LET schema == SchemaById(c, table)
    IN IF i > Len(schema) THEN Return(c, ids)
       ELSE FetchAll(Emit(c, [op |-> "FetchColumn", table |-> table, name |-> schema[i].name]),
                     table, i + 1, Append(ids, Len(c.code)))

(* expr_to_node: the nodes of a statement in the order they are added.     *)
Children(e) ==
    CASE e.kind = "select" -> e.exprs \o <<e.table>>
      [] e.kind = "binary" -> <<e.lhs, e.rhs>>
      [] OTHER -> <<>>
IsLeaf(e) == e.kind \notin {"select", "binary", "*", "insert", "update", "delete"}

RECURSIVE AddNodes(_, _)
AddNodes(nodes, es) ==
    IF es = <<>> THEN nodes
    ELSE IF \E i \in DOMAIN nodes : SameExpr(nodes[i], Head(es)) THEN AddNodes(nodes, Tail(es))
    ELSE AddNodes(Append(AddNodes(nodes, Children(Head(es))), Head(es)), Tail(es))

RECURSIVE CompileNode(_, _, _), CompileColumns(_, _, _, _, _, _)

(* compile_graph_node_single.  When a node gave several values the id of   *)
(* the first is used as the place of a node: an assertion fails unless     *)
(* there is a leaf.                                                        *)
CompileSingle(c, e, junk) ==
    AndThen(CompileNode(c, e, junk), LAMBDA node :
        LET at == node.out[1] + 1
        IN IF Len(node.out) = 1 THEN node
           ELSE IF node.out # <<>> /\ at <= Len(c.nodes) /\ IsLeaf(c.nodes[at]) THEN ErrorOn(node)
           ELSE Asserts(node))

(* Whether the node is a table statements can work on.                     *)
CompileTable(c, e, junk) ==
    AndThen(CompileSingle(c, e, junk), LAMBDA table :
        IF ~TableGenerating(table, table.out[1]) THEN ErrorOn(table)
        ELSE IF SchemaId(table, table.out[1]) >= Len(table.schemas) THEN Asserts(table)
        ELSE table)

ColumnName(e) == IF e.kind = "ident" THEN e.name ELSE <<>>

RECURSIVE EmitColumns(_, _, _, _)
EmitColumns(c, table, ids, name) ==
    IF ids = <<>> THEN c
    ELSE EmitColumns(Emit(c, [op |-> "EmitColumn", table |-> table, value |-> Head(ids), name |-> name]),
                     table, Tail(ids), name)

(* The columns of a SELECT; how many it emits itself is returned.          *)
CompileColumns(c, e, table, i, count, junk) ==
    IF i > Len(e.exprs) THEN Return(c, <<count>>)
    ELSE AndThen(CompileNode(c, e.exprs[i], junk), LAMBDA value :
             CompileColumns(EmitColumns(value, table, value.out, ColumnName(e.exprs[i])),
                            e, table, i + 1, count + Len(value.out), junk))

(* SELECT: the table first, then its columns in the table's namespace.     *)
CompileSelect(c, e, junk) ==
    AndThen(CompileTable(c, e.table, junk), LAMBDA table :
        AndThen(PopNamespace(CompileColumns(PushTable(table, table.out[1]), e, table.out[1], 1, 0, junk)),
            LAMBDA columns : Emit(columns, [op |-> "EmitQuery", junk |-> junk, count |-> columns.out[1]])))

CompileBinary(c, e, junk) ==
    AndThen(CompileSingle(c, e.lhs, junk), LAMBDA lhs :
        AndThen(CompileSingle(lhs, e.rhs, junk), LAMBDA rhs :
            Emit(rhs, [op |-> e.op, lhs |-> lhs.out[1], rhs |-> rhs.out[1]])))

(* compile_graph_node: a node seen before returns the id it was given,     *)
(* which for STAR is the 0 it started with.                                *)
CompileNode(c, e, junk) ==
    IF Failed(c) THEN c
    ELSE IF e \in DOMAIN c.memo THEN Return(c, <<c.memo[e]>>)
    ELSE CASE e.kind = "binary" -> Result(CompileBinary(c, e, junk), e)
           [] e.kind = "select" -> Result(CompileSelect(c, e, junk), e)
           [] e.kind = "*" -> IF c.scope = <<>> THEN Asserts(c)
                              ELSE Remember(FetchAll(c, CurrentTable(c), 1, <<>>), e, 0)
           [] OTHER -> Result(CompileExpr(c, e), e)

-----------------------------------------------------------------------------
(* Statements                                                              *)

RECURSIVE CompileRow(_, _, _, _, _), CompileRows(_, _, _, _), CompileClauses(_, _, _, _, _),
          CompileAlterations(_, _, _)

CompileRow(c, s, row, j, junk) ==
    IF j > Len(row) THEN c
    ELSE AndThen(CompileSingle(c, row[j], junk), LAMBDA value :
             CompileRow(Emit(value, [op |-> "InsertColumn", name |-> s.columns[j], value |-> value.out[1]]),
                        s, row, j + 1, junk))

CompileRows(c, s, i, junk) ==
    IF Failed(c) \/ i > Len(s.rows) THEN c
    ELSE IF Len(s.rows[i]) # Len(s.columns) THEN ErrorOn(c)
    ELSE AndThen(CompileRow(c, s, s.rows[i], 1, junk), LAMBDA row :
             CompileRows(Emit(row, [op |-> "InsertRow"]), s, i + 1, junk))

(* INSERT: as many columns as the table has, each one of the table's.      *)
CompileInsert(c, s, junk) ==
    AndThen(CompileTable(c, IdentifierExpr(s.name), junk), LAMBDA table :
        LET schema == SchemaById(table, table.out[1])
        IN IF \/ Len(s.columns) # Len(schema)
              \/ \E i \in DOMAIN s.columns : ~HasColumn(schema, s.columns[i])
           THEN ErrorOn(table)
           ELSE AndThen(PopNamespace(CompileRows(PushTable(table, table.out[1]), s, 1, junk)), LAMBDA rows :
                    Emit(rows, [op |-> "CommitInsert", table |-> table.out[1]])))

(* Faulty variant: the column is looked for in the value. *)
RECURSIVE CompileClauses_OfValue(_, _, _, _, _)
CompileClauses_OfValue(c, s, table, i, junk) ==
    IF i > Len(s.clauses) THEN c
    ELSE LET clause == s.clauses[i]
         IN IF ~HasColumn(SchemaById(c, table), clause.name) THEN ErrorOn(c)
            ELSE AndThen(CompileSingle(c, clause.value, junk), LAMBDA value :
                     CompileClauses_OfValue(Emit(value, [op |-> "UpdateColumn", table |-> value.out[1],
                                                         value |-> value.out[1], name |-> clause.name]),
                                            s, table, i + 1, junk))

CompileClauses(c, s, table, i, junk) ==
    IF i > Len(s.clauses) THEN c
    ELSE LET clause == s.clauses[i]
         IN IF ~HasColumn(SchemaById(c, table), clause.name) THEN ErrorOn(c)
            ELSE AndThen(CompileSingle(c, clause.value, junk), LAMBDA value :
                     CompileClauses(Emit(value, [op |-> "UpdateColumn", table |-> table,
                                                 value |-> value.out[1], name |-> clause.name]),
                                    s, table, i + 1, junk))

(* UPDATE; a filter is OK_TODO, as it is for DELETE.                       *)
CompileUpdate(c, s, junk) ==
    IF s.filter # <<>> THEN Asserts(c)
    ELSE AndThen(CompileTable(c, s.table, junk), LAMBDA table :
             AndThen(PopNamespace(CompileClauses(PushTable(table, table.out[1]), s, table.out[1], 1, junk)),
                 LAMBDA clauses : Emit(clauses, [op |-> "CommitUpdate"])))

CompileDelete(c, s, junk) ==
    IF s.filter # <<>> THEN Asserts(c)
    ELSE AndThen(CompileTable(c, s.table, junk), LAMBDA table :
             Emit(table, [op |-> "DeleteTable", table |-> table.out[1]]))

(* Faulty variant: the active database stays what it was. *)
CompileUse_NotActive(c, s) ==
    IF FirstNamed(c.databases, s.name) = Len(c.databases) THEN ErrorOn(c)
    ELSE Emit(c, [op |-> "UseDatabase", name |-> s.name])

(* compile_use_stmt: the database is the active one from here on.          *)
CompileUse(c, s) ==
    LET db == FirstNamed(c.databases, s.name)
    IN IF db = Len(c.databases) THEN ErrorOn(c)
       ELSE Emit([c EXCEPT !.active = db], [op |-> "UseDatabase", name |-> s.name])

(* parse_type: the three types a column can be given.                      *)
ColumnTypes == <<"int">> :> "int" @@ <<"text">> :> "string" @@ <<"PNG">> :> "png"

(* compile_create_stmt: a table made here can be used by the statements    *)
(* that follow; it hides a table of its name.                              *)
CompileCreate(c, s) ==
    CASE s.target = "DATABASE" ->
           IF FirstNamed(c.databases, s.name) < Len(c.databases) THEN ErrorOn(c)
           ELSE Emit([c EXCEPT !.databases = Append(@, [name |-> s.name, tables |-> <<>>])],
                     [op |-> "CreateDatabase", name |-> s.name])
      [] s.target = "TABLE" ->
           LET cols == [i \in DOMAIN s.columns |->
                          [name |-> s.columns[i].name, type |-> ColumnTypes[s.columns[i].type]]]
               db == LookupDb(c)
           IN IF db >= Len(c.databases) THEN Asserts(c)
              ELSE IF \E i \in DOMAIN s.columns : s.columns[i].type \notin DOMAIN ColumnTypes
              THEN ErrorOn(c)
              ELSE Emit([c EXCEPT !.databases[db + 1].tables = Append(@, [name |-> s.name, cols |-> cols])],
                        [op |-> "CreateTable", name |-> s.name, cols |-> cols])
      [] s.target = "USER" -> Emit(c, [op |-> "CreateUser", name |-> s.name])

(* compile_drop_stmt: what is dropped stays known until the next query.    *)
CompileDrop(c, s) ==
    IF s.target = "DATABASE"
    THEN IF FirstNamed(c.databases, s.name) = Len(c.databases) THEN ErrorOn(c)
         ELSE Emit(c, [op |-> "DropDatabase", name |-> s.name])
    ELSE IF LookupDb(c) >= Len(c.databases) THEN Asserts(c)
    ELSE IF LookupTable(c, s.name) = <<>> THEN ErrorOn(c)
    ELSE Emit(c, [op |-> "DropTable", name |-> s.name])

CompileAlterations(c, s, i) ==
    IF Failed(c) THEN c
    ELSE IF i > Len(s.clauses) THEN Emit(c, [op |-> "CommitAlterUser"])
    ELSE AndThen(CompileExpr(c, s.clauses[i].value), LAMBDA value :
             CompileAlterations(Emit(value, [op |-> "AlterUserProperty", user |-> s.name,
                                             name |-> s.clauses[i].name, value |-> value.out[1]]),
                                s, i + 1))

(* One turn of the loop of ir_compile_query: each statement has a graph,   *)
(* and so a memo, of its own.                                              *)
Roots(s) ==
    CASE s.kind = "insert" -> <<IdentifierExpr(s.name)>> \o FlattenSeq(s.rows)
      [] s.kind = "update" -> <<s.table>> \o [i \in DOMAIN s.clauses |-> s.clauses[i].value]
      [] s.kind = "delete" -> <<s.table>>
      [] s.kind = "expr" -> <<s.expr>>
      [] OTHER -> <<>>

CompileStatement(before, s, junk) ==
    LET c == [before EXCEPT !.memo = <<>>, !.nodes = AddNodes(<<>>, Roots(s))]
    IN CASE s.kind = "use" -> CompileUse(c, s)
         [] s.kind = "create" -> CompileCreate(c, s)
         [] s.kind = "drop" -> CompileDrop(c, s)
         [] s.kind = "alter" -> CompileAlterations(c, s, 1)
         [] s.kind = "insert" -> CompileInsert(c, s, junk)
         [] s.kind = "update" -> CompileUpdate(c, s, junk)
         [] s.kind = "delete" -> CompileDelete(c, s, junk)
         [] s.kind = "expr" -> CompileNode(c, s.expr, junk)
=============================================================================
