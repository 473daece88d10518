--------------------------- MODULE QueryExecution ---------------------------
(***************************************************************************)
(* DBConnection.execute for the queries of one connection, one after       *)
(* another.  The instructions the compiler made are executed in order:     *)
(* statements about databases, tables and users take effect at once, those *)
(* about rows become nodes of the query graph.  Then the nodes are run in  *)
(* order, and the table of the last SELECT is read as it is formatted for  *)
(* the answer.  A failure jumps out of either phase; a failed assertion    *)
(* ends the process.                                                       *)
(*                                                                         *)
(* A query is a sequence of syntax trees, compiled and checked by the      *)
(* operators of SqlCompiler and SqlTypeCheck against the tables there are. *)
(* Every user may read and write (DBUser.hpp), and only an admin has       *)
(* PERM_ADMIN.  An INSERT has no more rows than the record buffer has      *)
(* room for (TableFile is about longer ones), and two tables that live at  *)
(* the same time under one name have the same columns.                     *)
(***************************************************************************)
EXTENDS QueryMeaning, SqlTypeCheck

CONSTANTS
    IdRange,        \* see SqlCompiler
    Junk,           \* the operand EmitQuery never sets
    StaleCounts,    \* what an unset rows count of a SELECT's table can read as
    SyncOutcomes,   \* whether the catalog can be saved: {TRUE} or BOOLEAN
    OpenOutcomes,   \* whether the files of a new table can be opened
    NoSizes,        \* numbers that are no width or height: below 0, or 2^32 - 1 and more
    Sessions,       \* sequences of queries a client may send
    FirstPool, FirstDbs, FirstHeap, FirstFiles  \* what the server starts with

C == INSTANCE SqlCompiler

VARIABLES
    pool,           \* DBPool.db_descriptors, from its head: places in dbs
    dbs, heap,      \* every DBDescriptor and DBTable allocated
    files,          \* what the files of tables hold, by the table's name
    conn,           \* the connection: its database, active_db_id, its rights
    todo,           \* queries the client has not sent
    phase,          \* where the query is
    code, types, ip,\* its instructions, the columns of its tables, the next one
    x,              \* the QueryExecutionContext
    reply,          \* the rows of the answer
    stmts, before   \* observers: the query, and the state it came to

world == <<pool, dbs, heap, files, conn>>
query == <<todo, code, types, stmts, before>>
vars == <<world, query, phase, ip, x, reply>>

Phases == {"idle", "instructions", "nodes", "reading", "ok", "failed", "refused", "aborted", "trapped"}

-----------------------------------------------------------------------------
(* The context                                                             *)

(* A rented context; what the list of emitted columns had stays behind its *)
(* end, since only the count of the list is reset.                         *)
EmptyContext ==
    [current |-> 0, vars |-> <<>>, tabs |-> <<>>, graph |-> <<>>, insert |-> <<>>, rows |-> <<>>,
     emitted |-> <<>>, emittedCount |-> 0, updates |-> <<>>, target |-> 0, atomic |-> 0,
     answer |-> 0, args |-> <<>>, returns |-> <<>>, at |-> 1]

(* rent_empty_execution_context.                                           *)
Rent(old, db) == [EmptyContext EXCEPT !.current = db, !.emitted = old.emitted]

Memory == [heap |-> heap, files |-> files, returns |-> x.returns]

RowsCount(t) == heap[t].kv

(* DBDescriptor lists and their first entry of a name.                     *)
Named(list, name) == {i \in DOMAIN list : list[i].name = name}
First(S) == CHOOSE i \in S : \A j \in S : i <= j
TablesOf(db) == [i \in DOMAIN dbs[db].tables |-> heap[dbs[db].tables[i]]]
InPool == [i \in DOMAIN pool |-> dbs[pool[i]]]

-----------------------------------------------------------------------------
(* A query comes                                                           *)

(* populate_ir_context_from_pool, and the place the handler gives the      *)
(* connection's database; without one the place stays what it was.         *)
Schemas ==
    [i \in DOMAIN pool |->
        [name |-> dbs[pool[i]].name,
         tables |-> [k \in DOMAIN dbs[pool[i]].tables |->
                        [name |-> TablesOf(pool[i])[k].name, cols |-> TablesOf(pool[i])[k].cols]]]]
ActiveDb == LET own == Named(InPool, dbs[conn.db].name) IN IF own = {} THEN conn.active ELSE First(own) - 1

RECURSIVE CompileAll(_, _), CheckAll(_, _, _)
CompileAll(c, ss) ==
    IF ss = <<>> \/ C!Failed(c) THEN c ELSE CompileAll(C!CompileStatement(c, Head(ss), Junk), Tail(ss))
CheckAll(c, t, i) ==
    IF i = Len(c.code) \/ t.fail # "no" THEN t
    ELSE LET instr == C!Instr(c, i)
         IN CheckAll(c, CheckInstruction(t, i, instr,
                          IF instr.op = "FetchTable" THEN C!SchemaOf(c, c.schemas[instr.schema + 1]) ELSE <<>>), i + 1)

(* run_query_handler and compile_and_execute_source, up to execute.        *)
Receive ==
    /\ phase \in {"idle", "ok", "failed", "refused"}
    /\ todo # <<>>
    /\ todo' = Tail(todo)
    /\ stmts' = Head(todo)
    /\ before' = [pool |-> pool, dbs |-> dbs, heap |-> heap, files |-> files, db |-> conn.db]
    /\ \E c \in {CompileAll(C!Context(Schemas, ActiveDb), Head(todo))} :
       \E t \in {IF C!Failed(c) THEN TypingContext ELSE CheckAll(c, TypingContext, 0)} :
         LET fail == IF C!Failed(c) THEN c.fail ELSE t.fail
         IN /\ conn' = [conn EXCEPT !.active = c.active]
            /\ phase' = CASE fail = "no" -> "instructions" [] fail = "error" -> "refused" [] fail = "trap" -> "aborted"
            /\ code' = c.code /\ types' = t.tables
    /\ ip' = 0 /\ x' = Rent(x, conn.db) /\ reply' = <<>>
    /\ UNCHANGED <<pool, dbs, heap, files>>

-----------------------------------------------------------------------------
(* The first phase: execute_instruction                                    *)

Instr == code[ip + 1]
At(ops) == phase = "instructions" /\ ip < Len(code) /\ Instr.op \in ops

Proceed(context) == ip' = ip + 1 /\ x' = context /\ UNCHANGED <<query, phase, reply>>
Leave(how) == phase' = how /\ UNCHANGED <<query, ip, x, reply>>
Trap == Leave("trapped") /\ UNCHANGED world
Fail == Leave("failed") /\ UNCHANGED world

(* sync_state after a change: if the catalog cannot be saved the query     *)
(* fails, with the change in place.                                        *)
Synced(context) == \E ok \in SyncOutcomes : IF ok THEN Proceed(context) ELSE Leave("failed")

Has(id) == id \in DOMAIN x.vars
Var(id) == x.vars[id]
PutVar(context, value) == [context EXCEPT !.vars = (ip :> value) @@ @]
PutTable(context, table) == [context EXCEPT !.tabs = (ip :> table) @@ @]
AddNode(context, node) == [context EXCEPT !.graph = Append(@, node)]

(* Constants; NULL is OK_TODO.                                             *)
ExecConstant ==
    /\ At(DOMAIN ConstantTypes)
    /\ IF Instr.op = "ConstNull" THEN Trap
       ELSE Proceed(PutVar(x, Constant(ConstantTypes[Instr.op], Instr.text))) /\ UNCHANGED world

ExecCompare ==
    /\ At({"=", "<", ">"})
    /\ IF ~Has(Instr.lhs) \/ ~Has(Instr.rhs) THEN Trap
       ELSE IF Var(Instr.lhs).type # Var(Instr.rhs).type THEN Trap
       ELSE Proceed(PutVar(x, Comparison(Var(Instr.lhs), Var(Instr.rhs)))) /\ UNCHANGED world

(* Faulty variant: the database of the connection when the query came. *)
ExecFetchTable_Before ==
    /\ At({"FetchTable"})
    /\ LET found == Named(TablesOf(before.db), Instr.name)
       IN IF found = {} THEN Trap
          ELSE Proceed(PutTable(x, dbs[before.db].tables[First(found)])) /\ UNCHANGED world

(* The table of a name in the database in use now; it stays the one the    *)
(* nodes work on.                                                          *)
ExecFetchTable ==
    /\ At({"FetchTable"})
    /\ LET found == Named(TablesOf(x.current), Instr.name)
       IN IF found = {} THEN Trap
          ELSE Proceed(PutTable(x, dbs[x.current].tables[First(found)])) /\ UNCHANGED world

ExecFetchColumn ==
    /\ At({"FetchColumn"})
    /\ LET table == x.tabs[Instr.table]
           found == Named(heap[table].cols, Instr.name)
       IN IF found = {} THEN Trap
          ELSE /\ Proceed(PutVar(x, Column(table, First(found), heap[table].cols[First(found)].type)))
               /\ UNCHANGED world

(* prepare_call_arg, and call: a node, and the value it will return.       *)
ExecArg ==
    /\ At({"Arg"})
    /\ IF ~Has(Instr.value) THEN Trap
       ELSE Proceed([x EXCEPT !.args = Append(@, Var(Instr.value))]) /\ UNCHANGED world
ExecCall ==
    /\ At({"Call"})
    /\ IF Len(x.args) # Instr.count THEN Trap
       ELSE /\ Proceed(AddNode(PutVar([x EXCEPT !.args = <<>>], Delayed(Len(x.graph) + 1)),
                               [op |-> "call", args |-> x.args]))
            /\ UNCHANGED world

(* A pushed column takes the place of one the list had before.             *)
ExecEmitColumn ==
    /\ At({"EmitColumn"})
    /\ IF ~Has(Instr.value) THEN Trap
       ELSE LET entry == [name |-> Instr.name, value |-> Var(Instr.value), table |-> x.tabs[Instr.table]]
                n == x.emittedCount
            IN /\ Proceed([x EXCEPT !.emittedCount = n + 1,
                                    !.emitted = SubSeq(@, 1, n) \o <<entry>> \o SubSeq(@, n + 2, Len(@))])
               /\ UNCHANGED world

(* emit_query: names and values of the first columns are copied, their     *)
(* tables are not.  The new table's rows count is not set.                 *)
ExecEmitQuery ==
    /\ At({"EmitQuery"})
    /\ IF Instr.count = 0 \/ \E i \in DOMAIN types[ip] : types[ip][i].type \in {"chunk", "null", "table"} THEN Trap
       ELSE LET cols == [i \in 1..Instr.count |-> [name |-> x.emitted[i].name, type |-> types[ip][i].type]]
                new == Len(heap) + 1
                node == [op |-> "emit", table |-> new, values |-> [i \in 1..Instr.count |-> x.emitted[i].value]]
            IN /\ \E n \in StaleCounts :
                    heap' = Append(heap, [proxy |-> TRUE, name |-> <<>>, cols |-> cols, kv |-> n, count |-> 0,
                                          imgs |-> <<>>, values |-> [i \in 1..Instr.count |-> None]])
               /\ Proceed(AddNode(PutTable([x EXCEPT !.emittedCount = 0, !.answer = new], new), node))
               /\ UNCHANGED <<pool, dbs, files, conn>>

ExecInsertColumn ==
    /\ At({"InsertColumn"})
    /\ IF ~Has(Instr.value) THEN Trap
       ELSE Proceed([x EXCEPT !.insert = Append(@, Var(Instr.value))]) /\ UNCHANGED world
ExecInsertRow ==
    /\ At({"InsertRow"})
    /\ Proceed([x EXCEPT !.insert = <<>>, !.rows = Append(@, x.insert)]) /\ UNCHANGED world

(* Faulty variant: the rows are kept for the next INSERT. *)
ExecCommitInsert_KeepsRows ==
    /\ At({"CommitInsert"})
    /\ Proceed(AddNode(x, [op |-> "insert", table |-> x.tabs[Instr.table], rows |-> x.rows]))
    /\ UNCHANGED world

(* commit_insert; the code keeps the values of all rows in one list.       *)
ExecCommitInsert ==
    /\ At({"CommitInsert"})
    /\ Proceed(AddNode([x EXCEPT !.rows = <<>>], [op |-> "insert", table |-> x.tabs[Instr.table], rows |-> x.rows]))
    /\ UNCHANGED world

ExecUpdateColumn ==
    /\ At({"UpdateColumn"})
    /\ LET table == x.tabs[Instr.table]
       IN IF ~Has(Instr.value) \/ x.target \notin {0, table} THEN Trap
          ELSE /\ Proceed([x EXCEPT !.target = table,
                                    !.updates = Append(@, [name |-> Instr.name, value |-> Var(Instr.value)])])
               /\ UNCHANGED world

(* commit_update: one node per column of a stored table; the table of a    *)
(* SELECT is changed now.                                                  *)
RECURSIVE Assign(_, _)
Assign(t, updates) ==
    IF updates = <<>> THEN t
    ELSE Assign([t EXCEPT !.values[First(Named(t.cols, Head(updates).name))] = Head(updates).value], Tail(updates))
ExecCommitUpdate ==
    /\ At({"CommitUpdate"})
    /\ LET t == heap[x.target]
           nodes == [i \in DOMAIN x.updates |->
                        [op |-> "column", table |-> x.target, value |-> x.updates[i].value,
                         index |-> First(Named(t.cols, x.updates[i].name))]]
           done == [x EXCEPT !.updates = <<>>, !.target = 0]
       IN IF x.target = 0 THEN Trap
          ELSE /\ Proceed(IF t.proxy THEN done ELSE [done EXCEPT !.graph = @ \o nodes])
               /\ heap' = IF t.proxy THEN [heap EXCEPT ![x.target] = Assign(t, x.updates)] ELSE heap
               /\ UNCHANGED <<pool, dbs, files, conn>>

ExecDeleteTable ==
    /\ At({"DeleteTable"})
    /\ Proceed(AddNode(x, [op |-> "delete", table |-> x.tabs[Instr.table]])) /\ UNCHANGED world

(* create_table: the files are named after the table.  The index goes on   *)
(* with the row count its file has, the record file starts with none.  If  *)
(* one cannot be opened the query fails, and those before it stay.         *)
ExecCreateTable ==
    /\ At({"CreateTable"})
    /\ IF Named(TablesOf(x.current), Instr.name) # {} THEN Fail
       ELSE IF Instr.cols = <<>> THEN Trap
       ELSE LET known == Instr.name \in DOMAIN files
                old == IF known THEN files[Instr.name] ELSE [kv |-> 0, rows |-> <<>>, images |-> <<>>]
                columns == {Instr.cols[j].name : j \in DOMAIN Instr.cols}
                table == [proxy |-> FALSE, name |-> Instr.name, cols |-> Instr.cols, kv |-> old.kv, count |-> 0,
                          imgs |-> [j \in DOMAIN Instr.cols |-> 0], values |-> <<>>]
                opened == (Instr.name :> [old EXCEPT !.images = @ @@ [n \in columns |-> <<>>]]) @@ files
            IN /\ \/ /\ TRUE \in OpenOutcomes
                     /\ heap' = Append(heap, table)
                     /\ dbs' = [dbs EXCEPT ![x.current].tables = Append(@, Len(heap) + 1)]
                     /\ files' = opened
                     /\ Synced(x)
                  \/ /\ FALSE \in OpenOutcomes
                     /\ files' \in {files, opened}
                     /\ Leave("failed")
                     /\ UNCHANGED <<heap, dbs>>
               /\ UNCHANGED <<pool, conn>>

(* The first table of the name leaves its database, the files stay.        *)
ExecDropTable ==
    /\ At({"DropTable"})
    /\ LET found == Named(TablesOf(conn.db), Instr.name)
       IN IF found = {} THEN Trap
          ELSE /\ dbs' = [dbs EXCEPT ![conn.db].tables = RemoveAt(@, First(found))]
               /\ Synced(x)
               /\ UNCHANGED <<pool, heap, files, conn>>

ExecCreateDatabase ==
    /\ At({"CreateDatabase"})
    /\ dbs' = Append(dbs, [name |-> Instr.name, tables |-> <<>>, users |-> <<>>])
    /\ pool' = <<Len(dbs) + 1>> \o pool
    /\ Proceed(x)
    /\ UNCHANGED <<heap, files, conn>>

ExecUseDatabase ==
    /\ At({"UseDatabase"})
    /\ LET found == Named(InPool, Instr.name)
       IN IF found = {} THEN Trap
          ELSE /\ conn' = [conn EXCEPT !.db = pool[First(found)]]
               /\ Proceed([x EXCEPT !.current = pool[First(found)]])
               /\ UNCHANGED <<pool, dbs, heap, files>>

(* Without its first database the pool is empty.                           *)
ExecDropDatabase ==
    /\ At({"DropDatabase"})
    /\ LET found == Named(InPool, Instr.name)
       IN IF found = {} THEN Trap
          ELSE /\ pool' = IF First(found) = 1 THEN <<>> ELSE RemoveAt(pool, First(found))
               /\ Synced(x)
               /\ UNCHANGED <<dbs, heap, files, conn>>

ExecCreateUser ==
    /\ At({"CreateUser"})
    /\ IF ~conn.admin \/ Named(dbs[x.current].users, Instr.name) # {} THEN Fail
       ELSE /\ dbs' = [dbs EXCEPT ![x.current].users = Append(@, [name |-> Instr.name, password |-> <<>>])]
            /\ Synced(x)
            /\ UNCHANGED <<pool, heap, files, conn>>

(* alter_user_property: the clauses of one ALTER are children of a node.   *)
ExecAlterUser ==
    /\ At({"AlterUserProperty"})
    /\ LET context == IF x.atomic # 0 THEN x
                      ELSE [AddNode(x, [op |-> "atomic", children |-> <<>>]) EXCEPT !.atomic = Len(x.graph) + 1]
           child == [user |-> Instr.user, value |-> Var(Instr.value)]
       IN IF ~Has(Instr.value) THEN Trap
          ELSE IF ~conn.admin \/ Instr.name # <<"PASSWORD">> \/ Var(Instr.value).type # "string" THEN Fail
          ELSE /\ Proceed([context EXCEPT !.graph[context.atomic].children = Append(@, child)])
               /\ UNCHANGED world
ExecCommitAlterUser ==
    /\ At({"CommitAlterUser"})
    /\ Proceed([x EXCEPT !.atomic = 0]) /\ UNCHANGED world

EndOfInstructions ==
    /\ phase = "instructions" /\ ip = Len(code)
    /\ Leave("nodes") /\ UNCHANGED world

-----------------------------------------------------------------------------
(* The second phase: run_single_node                                       *)

Node == x.graph[x.at]
AtNode(op) == phase = "nodes" /\ x.at <= Len(x.graph) /\ Node.op = op
Done(context) == x' = [context EXCEPT !.at = @ + 1] /\ UNCHANGED <<query, phase, ip, reply>>

(* INSERT: a value goes to the column of its place in the list.            *)
RunInsert ==
    /\ AtNode("insert")
    /\ LET t == heap[Node.table]
           name == t.name
           width == Len(t.cols)
           items == [r \in DOMAIN Node.rows |-> [j \in 1..width |-> Poll(Memory, Node.rows[r][j])]]
           column(j) == [r \in DOMAIN items |-> items[r][j]]
           rows == [r \in DOMAIN items |-> [j \in 1..width |-> Cells(t, j, column(j))[r]]]
           n == Len(rows)
           old == files[name].rows
       IN IF t.proxy \/ \E r \in DOMAIN items : \E j \in 1..width : ~Storable(t.cols[j].type, items[r][j]) THEN Trap
          ELSE /\ heap' = [heap EXCEPT ![Node.table] =
                            [@ EXCEPT !.kv = @ + n, !.count = @ + n, !.imgs = [j \in 1..width |-> ImageCount(t, j, column(j))]]]
               /\ files' = [files EXCEPT ![name] =
                             [kv |-> t.kv + n,
                              rows |-> SubSeq(old, 1, t.count) \o rows \o SubSeq(old, t.count + n + 1, Len(old)),
                              images |-> [c \in DOMAIN @.images |->
                                            IF Named(t.cols, c) = {} THEN @.images[c]
                                            ELSE LET j == First(Named(t.cols, c)) IN ImagesAfter(@.images[c], t, j, column(j))]]]
               /\ Done(x)
               /\ UNCHANGED <<pool, dbs, conn>>

(* UPDATE of one column: its value is streamed for as many rows as the     *)
(* index counts.                                                           *)
RunWriteColumn ==
    /\ AtNode("column")
    /\ LET t == heap[Node.table]
           j == Node.index
           items == [r \in 1..RowsCount(Node.table) |-> StreamItem(Memory, Node.value, r)]
       IN IF \E r \in DOMAIN items : ~Storable(t.cols[j].type, items[r]) THEN Trap
          ELSE /\ heap' = [heap EXCEPT ![Node.table].imgs[j] = ImageCount(t, j, items)]
               /\ files' = [files EXCEPT ![t.name] =
                             [@ EXCEPT !.rows = [r \in DOMAIN @ |-> IF r \in DOMAIN items
                                                                    THEN [@[r] EXCEPT ![j] = Cells(t, j, items)[r]]
                                                                    ELSE @[r]],
                                       !.images[t.cols[j].name] = ImagesAfter(@, t, j, items)]]
               /\ Done(x)
               /\ UNCHANGED <<pool, dbs, conn>>

(* DELETE: the counts of a stored table, the values of a SELECT's.         *)
RunDelete ==
    /\ AtNode("delete")
    /\ heap' = [heap EXCEPT ![Node.table] =
                  IF @.proxy THEN [@ EXCEPT !.kv = 0, !.values = [i \in DOMAIN @ |-> None]]
                  ELSE [@ EXCEPT !.kv = 0, !.count = 0]]
    /\ files' = IF heap[Node.table].proxy THEN files ELSE [files EXCEPT ![heap[Node.table].name].kv = 0]
    /\ Done(x)
    /\ UNCHANGED <<pool, dbs, conn>>

(* Faulty variant: the rows are counted when the answer is read. *)
RunEmitQuery_NoCount ==
    /\ AtNode("emit")
    /\ LET t == heap[Node.table]
       IN /\ heap' = [heap EXCEPT ![Node.table].values = Node.values]
          /\ Done(x)
          /\ UNCHANGED <<pool, dbs, files, conn>>

(* SELECT: as many rows as the longest of its tables has now.  The tables  *)
(* are found in the list of emitted columns, whatever was put there since. *)
RunEmitQuery ==
    /\ AtNode("emit")
    /\ LET t == heap[Node.table]
           counts == {RowsCount(x.emitted[i].table) : i \in DOMAIN Node.values}
       IN IF \E i \in DOMAIN Node.values : Node.values[i].type # t.cols[i].type THEN Trap
          ELSE /\ heap' = [heap EXCEPT ![Node.table].values = Node.values,
                                       ![Node.table].kv = CHOOSE n \in counts : \A m \in counts : m <= n]
               /\ Done(x)
               /\ UNCHANGED <<pool, dbs, files, conn>>

(* ALTER_USER, up to the save: how it ends, and the databases with the     *)
(* user's new password.                                                    *)
AlterUser(child) ==
    LET found == Named(dbs[x.current].users, child.user)
        text == Poll(Memory, child.value)
    IN CASE found = {} -> [how |-> "failed", dbs |-> dbs]
         [] found # {} /\ text.type # "string" -> [how |-> "trapped", dbs |-> dbs]
         [] found # {} /\ text.type = "string" ->
              [how |-> "set", dbs |-> [dbs EXCEPT ![x.current].users[First(found)].password = text.v]]

(* ATOMIC runs its ALTER_USER nodes one after the other, and each saves    *)
(* the catalog.  They name one user, so the last one run is what is left.  *)
RunAtomic ==
    /\ AtNode("atomic")
    /\ LET n == Len(Node.children)
           how(i) == AlterUser(Node.children[i]).how
           after(i) == IF i = 0 THEN dbs ELSE AlterUser(Node.children[i]).dbs
           ran(i) == (\A j \in 1..i : how(j) = "set") /\ (i > 0 => TRUE \in SyncOutcomes)
       IN \/ ran(n) /\ dbs' = after(n) /\ Done(x)
          \/ \E i \in 1..n : ran(i - 1) /\ how(i) # "set" /\ dbs' = after(i - 1) /\ Leave(how(i))
          \/ \E i \in 1..n :
                ran(i - 1) /\ how(i) = "set" /\ FALSE \in SyncOutcomes /\ dbs' = after(i) /\ Leave("failed")
    /\ UNCHANGED <<pool, heap, files, conn>>

(* RGB: an image of the items of its arguments, or an error.  A number     *)
(* that is no U32 below 2^32 - 1 fails an assertion of extract.            *)
RunCall ==
    /\ AtNode("call")
    /\ LET items == [i \in DOMAIN Node.args |-> Poll(Memory, Node.args[i])]
           image == [i \in DOMAIN items |-> items[i].v[1]]
       IN IF \E i \in DOMAIN items : \/ items[i].type \notin {"int", "string", "big"}
                                     \/ items[i].type = "int" /\ image[i] \in NoSizes THEN Trap
          ELSE IF image \notin GoodImages THEN Fail
          ELSE Done([x EXCEPT !.returns = (x.at :> Picture(image)) @@ @]) /\ UNCHANGED world

EndOfNodes ==
    /\ phase = "nodes" /\ x.at > Len(x.graph)
    /\ Leave(IF x.answer = 0 THEN "ok" ELSE "reading") /\ UNCHANGED world

(* The rows loop of run_query_handler over the streams of the answer.      *)
Respond ==
    /\ phase = "reading"
    /\ LET t == heap[x.answer]
           rows == [r \in 1..t.kv |-> [i \in DOMAIN t.values |-> StreamItem(Memory, t.values[i], r)]]
       IN IF \E r \in DOMAIN rows : \E i \in DOMAIN t.values : ~IsValue(rows[r][i]) \/ rows[r][i].type = "big" THEN Trap
          ELSE reply' = rows /\ phase' = "ok" /\ UNCHANGED <<world, query, ip, x>>

-----------------------------------------------------------------------------
Init ==
    /\ pool = FirstPool /\ dbs = FirstDbs /\ heap = FirstHeap /\ files = FirstFiles
    /\ conn \in [db : {pool[i] : i \in DOMAIN pool}, active : {0}, admin : BOOLEAN]
    /\ todo \in Sessions
    /\ phase = "idle" /\ code = <<>> /\ types = <<>> /\ ip = 0 /\ x = EmptyContext /\ reply = <<>>
    /\ stmts = <<>> /\ before = [pool |-> pool, dbs |-> dbs, heap |-> heap, files |-> files, db |-> conn.db]

ExecInstruction ==
    \/ ExecConstant \/ ExecCompare \/ ExecFetchTable \/ ExecFetchColumn \/ ExecArg \/ ExecCall
    \/ ExecEmitColumn \/ ExecEmitQuery \/ ExecInsertColumn \/ ExecInsertRow \/ ExecCommitInsert
    \/ ExecUpdateColumn \/ ExecCommitUpdate \/ ExecDeleteTable \/ ExecCreateTable \/ ExecDropTable
    \/ ExecCreateDatabase \/ ExecUseDatabase \/ ExecDropDatabase \/ ExecCreateUser \/ ExecAlterUser
    \/ ExecCommitAlterUser \/ EndOfInstructions

RunNode == RunInsert \/ RunWriteColumn \/ RunDelete \/ RunEmitQuery \/ RunAtomic \/ RunCall \/ EndOfNodes

Next == Receive \/ ExecInstruction \/ RunNode \/ Respond

Spec == Init /\ [][Next]_vars

-----------------------------------------------------------------------------
(* Properties                                                              *)

(* The databases as QueryMeaning has them, of a state s.                   *)
Cell(s, t, j, cell) ==
    IF cell.type # "png" THEN Item(cell.type, cell.v)
    ELSE Item("chunk", s.files[t.name].images[t.cols[j].name][cell.at + 1])
Rows(s, t) == [r \in 1..t.count |-> [j \in DOMAIN t.cols |-> Cell(s, t, j, s.files[t.name].rows[r][j])]]
State(s) ==
    LET tables(d) == {s.heap[s.dbs[d].tables[i]] : i \in DOMAIN s.dbs[d].tables}
        users(d) == {s.dbs[d].users[i] : i \in DOMAIN s.dbs[d].users}
        by(S, n) == CHOOSE e \in S : e.name = n
        listed == {[name |-> s.dbs[s.pool[i]].name, at |-> s.pool[i]] : i \in DOMAIN s.pool}
        database(d) == [tables |-> [n \in {t.name : t \in tables(d)} |->
                                       [cols |-> by(tables(d), n).cols, rows |-> Rows(s, by(tables(d), n))]],
                        users |-> [n \in {u.name : u \in users(d)} |-> by(users(d), n).password]]
    IN [use |-> s.dbs[s.db].name, admin |-> conn.admin, fail |-> FALSE, answer |-> <<>>,
        dbs |-> [n \in {l.name : l \in listed} |-> database(by(listed, n).at)]]
Now == [pool |-> pool, dbs |-> dbs, heap |-> heap, files |-> files, db |-> conn.db]

(* The types of CREATE TABLE are those of the compiler.                    *)
Compiled == [k \in DOMAIN stmts |->
                IF stmts[k].kind = "create" /\ stmts[k].target = "TABLE"
                THEN [stmts[k] EXCEPT !.columns = [j \in DOMAIN @ |->
                         [name |-> @[j].name, type |-> C!ColumnTypes[@[j].type]]]]
                ELSE stmts[k]]
After(k) == QueryMeans(State(before), SubSeq(Compiled, 1, k))

(* Queries that the two phases do not tell from their statements one by    *)
(* one.  What is left out is listed in section 5 of the README.            *)
Literal(e) == e.kind \in DOMAIN LiteralTypes /\ e.text \notin LongTexts \cup DOMAIN ReadAs
SizedCall(e) == e.kind = "call" /\ \A i \in DOMAIN e.args : Literal(e.args[i]) /\ e.args[i].text \notin NoSizes
Shown(e) == e.kind \in {"ident", "*"} \/ Literal(e)
Stars(es) == {i \in DOMAIN es : es[i].kind = "*"}
IsSelect(s) == s.kind = "expr" /\ s.expr.kind = "select"
UsualStatement(s) ==
    CASE s.kind = "insert" -> \A r \in DOMAIN s.rows : \A p \in DOMAIN s.rows[r] :
                                  \/ Literal(s.rows[r][p])
                                  \/ SizedCall(s.rows[r][p]) /\ Image(s.rows[r][p]) \notin BigImages
      [] s.kind = "update" -> /\ s.table.kind = "ident"
                              /\ \A i \in DOMAIN s.clauses : s.clauses[i].value.kind = "ident" \/ Literal(s.clauses[i].value)
      [] s.kind = "delete" -> s.table.kind = "ident"
      [] s.kind = "alter" -> Len(s.clauses) = 1 /\ Literal(s.clauses[1].value)
      [] IsSelect(s) -> /\ s.expr.table.kind = "ident" /\ s.expr.exprs # <<>>
                        /\ \A i, j \in Stars(s.expr.exprs) : i = j
                        /\ \A i \in DOMAIN s.expr.exprs : Shown(s.expr.exprs[i]) /\ s.expr.exprs[i] # s.expr.table
      [] s.kind = "expr" /\ ~IsSelect(s) -> SizedCall(s.expr)
      [] s.kind = "create" -> s.target = "TABLE" => s.columns # <<>> /\ s.name \notin DOMAIN before.files
      [] OTHER -> TRUE

(* What only the statements about databases, tables and users mean.        *)
Defines(s) == s.kind \in {"use", "drop", "create"}
Catalog(k) == QueryMeans(State(before), SelectSeq(SubSeq(Compiled, 1, k), Defines))

(* An INSERT names the columns in their order, a database that is dropped  *)
(* is not the one in use or the first of the pool.                         *)
InPlace(k) ==
    LET s == stmts[k]
        w == Catalog(k - 1)
    IN /\ s.kind = "insert" /\ ~w.fail =>
            LET cols == Tables(w)[s.name].cols IN s.columns = [j \in DOMAIN cols |-> cols[j].name]
       /\ s.kind = "drop" /\ s.target = "DATABASE" =>
            s.name # w.use /\ \E i \in DOMAIN before.pool : i > 1 /\ before.dbs[before.pool[i]].name = s.name

(* Statement r, later, does not undo or reuse what statement s needs.      *)
Mentioned(s) ==
    CASE s.kind \in {"update", "delete"} -> s.table.name
      [] IsSelect(s) -> s.expr.table.name
      [] s.kind = "expr" /\ ~IsSelect(s) -> <<>>
      [] OTHER -> s.name
Apart(s, r) ==
    /\ s.kind = "alter" => r.kind # "use" /\ ~(r.kind = "create" /\ r.target = "USER")
    /\ IsSelect(s) => r.kind \notin {"update", "delete"}
    /\ s.kind = "drop" => Mentioned(r) # s.name

ImageCounts == UNION {{Len(files[n].images[c]) : c \in DOMAIN files[n].images} : n \in DOMAIN files}
NoSharedFiles ==
    \A i, j \in DOMAIN before.heap : before.heap[i].name = before.heap[j].name => i = j \/ before.heap[i].proxy
Usual ==
    /\ NoSharedFiles
    /\ \E i \in DOMAIN before.pool : before.pool[i] = before.db
    /\ \A k \in DOMAIN stmts : UsualStatement(stmts[k])
    /\ \A k, j \in DOMAIN stmts : k < j => Apart(stmts[k], stmts[j])
    /\ \A k \in DOMAIN stmts : InPlace(k)
    /\ \A n \in ImageCounts : n <= ImageRange

(* A query that succeeds has done what its statements say one after the    *)
(* other, although some took effect while the instructions ran and the     *)
(* others, from the graph, only after all of them; its answer has the rows *)
(* the last SELECT found where it stands in the query.                     *)
QueriesMeanWhatTheySay ==
    phase = "ok" /\ Usual => [State(Now) EXCEPT !.answer = reply] = After(Len(stmts))

(* A query that fails has done whole statements only: those about rows and *)
(* passwords up to one of them, and, although the statement that failed    *)
(* stands before them, those about tables, users and databases up to one   *)
(* that is later or the last.                                              *)
FailuresKeepPrefix ==
    phase = "failed" /\ Usual =>
        \E k, j \in 0..Len(stmts) :
            LET now == State(Now)
                catalog == Catalog(j)
            IN /\ k = 0 \/ j = Len(stmts)
               /\ now.use = catalog.use /\ DOMAIN now.dbs = DOMAIN catalog.dbs
               /\ \A d \in DOMAIN now.dbs :
                    LET tables == now.dbs[d].tables
                        users == now.dbs[d].users
                        then == IF d \in DOMAIN After(k).dbs THEN After(k).dbs[d] ELSE [tables |-> <<>>, users |-> <<>>]
                    IN /\ DOMAIN tables = DOMAIN catalog.dbs[d].tables /\ DOMAIN users = DOMAIN catalog.dbs[d].users
                       /\ \A n \in DOMAIN tables :
                            tables[n].rows = IF n \in DOMAIN then.tables THEN then.tables[n].rows ELSE <<>>
                       /\ \A n \in DOMAIN users :
                            users[n] = IF n \in DOMAIN then.users THEN then.users[n] ELSE <<>>

(* No assertion fails while such a query, which has no number too large    *)
(* for what it is used as and stores no image too big, runs: every table   *)
(* and column its instructions name is where they look, every value is     *)
(* there when it is read, and has the size of its column.                  *)
OrdinaryQueriesRun == phase = "trapped" => ~Usual
=============================================================================
