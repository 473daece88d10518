---------------------------- MODULE SqlFrontEnd ----------------------------
(***************************************************************************)
(* compile_and_type_check_source (src/src/SQL/SQL.cpp) for the queries of  *)
(* one connection, one after another: the lexer runs over the whole source *)
(* when the parser is made, then the statements are parsed, compiled and   *)
(* the instructions checked, each stage to its end before the next one.    *)
(*                                                                         *)
(* A query ends accepted (it is executed, which is QueryExecution), or     *)
(* rejected with a message, or trapped: an assertion of the code failed    *)
(* and the process ended.                                                  *)
(***************************************************************************)
EXTENDS SqlReader, SqlTypeCheck

CONSTANTS
    Databases,      \* what populate_ir_context_from_pool finds in the pool
    Junk,           \* values of the operand EmitQuery never sets
    IdRange         \* values of the U8 get_table_schema takes

C == INSTANCE SqlCompiler

VARIABLES
    active,         \* ir_ctx.active_db_id when the query came
    ctx,            \* the IrContext
    starts,         \* observer: the first instruction of every statement compiled
    typing          \* the TypingContext, with ip, the next instruction

compilerVars == <<active, ctx, starts, typing>>
vars == <<readerVars, compilerVars>>

NoContext == C!Context(Databases, 0)
NoTyping == [ip |-> 0, t |-> TypingContext]

Init ==
    /\ ReaderInit
    /\ active = 0 /\ ctx = NoContext /\ starts = <<>> /\ typing = NoTyping

(* A query comes.  The active database is one of those in the pool, or a   *)
(* place behind them when the connection's database was dropped meanwhile. *)
Receive(text, db) ==
    /\ TakeText(text)
    /\ active' = db
    /\ UNCHANGED <<ctx, starts, typing>>

Lex == LexToken /\ UNCHANGED compilerVars
Parse == ParseStatement /\ UNCHANGED compilerVars

StartCompiling ==
    /\ EndOfParse
    /\ ctx' = C!Context(Databases, active)
    /\ UNCHANGED <<active, starts, typing>>

(* One turn of the loop of ir_compile_query.                               *)
AfterStage(stage, fail) ==
    CASE fail = "no" -> stage
      [] fail = "error" -> "rejected"
      [] fail = "trap" -> "trapped"

Compile(junk) ==
    /\ phase = "compiling"
    /\ Len(starts) < Len(stmts)
    /\ \E next \in {C!CompileStatement(ctx, stmts[Len(starts) + 1], junk)} :
         ctx' = next /\ phase' = AfterStage("compiling", next.fail)
    /\ LaterStage
    /\ starts' = Append(starts, Len(ctx.code))
    /\ UNCHANGED <<active, typing>>

EndOfCompile ==
    /\ phase = "compiling"
    /\ Len(starts) = Len(stmts)
    /\ phase' = "checking"
    /\ LaterStage
    /\ UNCHANGED compilerVars

(* One turn of the loop of type_check_query.                               *)
TableColumns(instr) == IF instr.op = "FetchTable" THEN C!SchemaOf(ctx, ctx.schemas[instr.schema + 1]) ELSE <<>>

(* Faulty variant: after an error the pass starts again. *)
CheckInstr_Retries ==
    /\ phase = "checking"
    /\ typing.ip < Len(ctx.code)
    /\ LET instr == C!Instr(ctx, typing.ip)
           t == CheckInstruction(typing.t, typing.ip, instr, TableColumns(instr))
       IN typing' = IF t.fail = "no" THEN [ip |-> typing.ip + 1, t |-> t] ELSE NoTyping
    /\ UNCHANGED <<readerVars, active, ctx, starts>>

CheckInstr ==
    /\ phase = "checking"
    /\ typing.ip < Len(ctx.code)
    /\ LET instr == C!Instr(ctx, typing.ip)
           t == CheckInstruction(typing.t, typing.ip, instr, TableColumns(instr))
       IN typing' = [ip |-> typing.ip + 1, t |-> t] /\ phase' = AfterStage("checking", t.fail)
    /\ LaterStage
    /\ UNCHANGED <<active, ctx, starts>>

EndOfCheck ==
    /\ phase = "checking"
    /\ typing.ip = Len(ctx.code)
    /\ phase' = "accepted"
    /\ LaterStage
    /\ UNCHANGED compilerVars

(* The answer is sent, or the server is started again after a trap.        *)
Finish ==
    /\ Forget
    /\ active' = 0 /\ ctx' = NoContext /\ starts' = <<>> /\ typing' = NoTyping

Work ==
    \/ Lex
    \/ Parse
    \/ StartCompiling
    \/ \E junk \in Junk : Compile(junk)
    \/ EndOfCompile
    \/ CheckInstr
    \/ EndOfCheck

Next ==
    \/ \E r \in Requests : Receive(r.text, r.db)
    \/ Work
    \/ Finish

(* A handler waits for nothing before its answer: as long as the query is  *)
(* worked on there are further steps.  This is WF_vars(Work), with ENABLED *)
(* written out because it would have to evaluate the parser again.         *)
Working == phase \in Phases \ ({"idle"} \cup Answered)
Fairness == []<>~Working \/ []<><<Work>>_vars
Spec == Init /\ [][Next]_vars /\ Fairness
-----------------------------------------------------------------------------
(* Properties of the compiler and the type checker, against what the       *)
(* statements say                                                          *)

(* The database a statement is for: that of the USE before it.             *)
Indices(kind, k) == {j \in 1..(k - 1) : stmts[j].kind = kind}
Latest(S) == CHOOSE j \in S : \A i \in S : i <= j
NamesOf(target, k) == {j \in Indices("create", k) : stmts[j].target = target}
DbAt(k) ==
    IF Indices("use", k) = {} THEN active
    ELSE LET name == stmts[Latest(Indices("use", k))].name
             old == {d \in DOMAIN Databases : Databases[d].name = name}
         IN IF old # {} THEN Latest(old) - 1
            ELSE Len(Databases) + Cardinality({j \in NamesOf("DATABASE", k) : stmts[j].name # name})
DbIsThere(k) == DbAt(k) < Len(Databases) /\ DbAt(k) < IdRange

(* The columns a name of a table stands for there, as <<columns>>.         *)
TypesOf(columns) ==
    [i \in DOMAIN columns |-> [name |-> columns[i].name, type |-> C!ColumnTypes[columns[i].type]]]
ColumnsOf(k, name) ==
    LET new == {j \in NamesOf("TABLE", k) : stmts[j].name = name /\ DbAt(j) = DbAt(k)}
        old == {t \in DOMAIN Databases[DbAt(k) + 1].tables : Databases[DbAt(k) + 1].tables[t].name = name}
    IN IF new # {} THEN <<TypesOf(stmts[Latest(new)].columns)>>
       ELSE IF old # {} THEN <<Databases[DbAt(k) + 1].tables[Latest(old)].cols>>
       ELSE <<>>

ExprTypes == [integer |-> "int", string |-> "string", binary |-> "bool", call |-> "chunk"]
               @@ ("TRUE" :> "bool") @@ ("FALSE" :> "bool") @@ ("NULL" :> "null")
TypeOf(e, columns) == IF e.kind = "ident" THEN TypeOfColumn(columns, e.name) ELSE ExprTypes[e.kind]
MayHold(type, value) == TypesAreEqual(value, type)

Segment(k) == (starts[k] + 1)..(IF k = Len(starts) THEN Len(ctx.code) ELSE starts[k + 1])
Compiled == IF phase \in {"rejected", "trapped"} THEN Len(starts) - 1 ELSE Len(starts)

(* Every table a statement names is the one of that name in the database   *)
(* that was in use when the statement was reached, the newest one if there *)
(* are several (the first IdRange databases; a greater place wraps).       *)
TablesAreThoseInUse ==
    \A k \in 1..Compiled : DbIsThere(k) =>
        \A i \in Segment(k) : ctx.code[i].op = "FetchTable" =>
            /\ ctx.schemas[ctx.code[i].schema + 1].db = DbAt(k)
            /\ ColumnsOf(k, ctx.code[i].name) = <<C!SchemaOf(ctx, ctx.schemas[ctx.code[i].schema + 1])>>

(* What an accepted INSERT or UPDATE stores has the type of the column it  *)
(* is stored in.                                                           *)
InsertFits(k) ==
    LET s == stmts[k]
        columns == ColumnsOf(k, s.name)[1]
    IN \A r \in DOMAIN s.rows, j \in DOMAIN s.columns :
           MayHold(TypeOfColumn(columns, s.columns[j]), TypeOf(s.rows[r][j], columns))
UpdateFits(k) ==
    LET s == stmts[k]
        columns == ColumnsOf(k, s.table.name)[1]
    IN s.table.kind = "ident" =>
         \A j \in DOMAIN s.clauses :
             MayHold(TypeOfColumn(columns, s.clauses[j].name), TypeOf(s.clauses[j].value, columns))
AcceptedValuesFit ==
    phase = "accepted" =>
        \A k \in DOMAIN stmts : DbIsThere(k) =>
            /\ stmts[k].kind = "insert" => InsertFits(k)
            /\ stmts[k].kind = "update" => UpdateFits(k)

(* The answer to an accepted SELECT has the columns it asked for: those of *)
(* the table for a *, one for any other expression, in this order.  (A     *)
(* second * is left out: it answers the value of the query's instruction 0.) *)
RECURSIVE AnswerTypes(_, _)
AnswerTypes(exprs, columns) ==
    IF exprs = <<>> THEN <<>>
    ELSE (IF Head(exprs).kind = "*" THEN [i \in DOMAIN columns |-> columns[i].type]
          ELSE <<TypeOf(Head(exprs), columns)>>) \o AnswerTypes(Tail(exprs), columns)
IsPlainSelect(s) ==
    /\ s.kind = "expr" /\ s.expr.kind = "select" /\ s.expr.table.kind = "ident"
    /\ Cardinality({i \in DOMAIN s.expr.exprs : s.expr.exprs[i].kind = "*"}) < 2
AnswersHaveTheColumns ==
    phase = "accepted" =>
        \A k \in DOMAIN stmts : IsPlainSelect(stmts[k]) /\ DbIsThere(k) =>
            LET answer == typing.t.tables[Latest(Segment(k)) - 1]
                e == stmts[k].expr
            IN [i \in DOMAIN answer |-> answer[i].type] = AnswerTypes(e.exprs, ColumnsOf(k, e.table.name)[1])

(* The verdict on a statement does not depend on the statements before it: *)
(* where the check of a query stops, the check of that statement on its    *)
(* own stops as well.  Two INSERTs do depend on each other: the list of    *)
(* inserted columns is never emptied.                                      *)
RECURSIVE CheckFrom(_, _, _)
CheckFrom(t, ip, end) ==
    IF ip = end \/ t.fail # "no" THEN t
    ELSE CheckFrom(CheckInstruction(t, ip, C!Instr(ctx, ip), TableColumns(C!Instr(ctx, ip))), ip + 1, end)
StatementAt(ip) == CHOOSE k \in DOMAIN starts : ip + 1 \in Segment(k)
VerdictsAreIndependent ==
    typing.t.fail # "no" =>
        LET k == StatementAt(typing.ip - 1)
        IN \/ stmts[k].kind = "insert" /\ Indices("insert", k) # {}
           \/ CheckFrom(TypingContext, starts[k], typing.ip).fail = typing.t.fail

(* A statement of the shapes the product uses: no WHERE, no < and >, no    *)
(* SELECT or call inside an expression, one * at most, and no table whose  *)
(* name is also asked for as a column.                                     *)
Simple(e) ==
    \/ e.kind \in {"ident", "integer", "string", "TRUE", "FALSE", "NULL"}
    \/ /\ e.kind = "binary" /\ e.op = "="
       /\ \A x \in {e.lhs, e.rhs} : x.kind \in {"ident", "integer", "string", "TRUE", "FALSE", "NULL"}
FlatCall(e) == e.kind = "call" /\ e.fn.kind = "ident" /\ \A i \in DOMAIN e.args : e.args[i].kind \in DOMAIN ExprTypes \ {"binary", "call"}
Value(e) == FlatCall(e) \/ (Simple(e) /\ e.kind # "ident")
SimpleSelect(e) ==
    /\ e.kind = "select" /\ e.table.kind = "ident"
    /\ \A i \in DOMAIN e.exprs : \/ Simple(e.exprs[i]) /\ e.exprs[i].kind \in {"ident", "binary"}
                                 \/ e.exprs[i].kind = "*" /\ \A j \in DOMAIN e.exprs \ {i} : e.exprs[j].kind # "*"
    /\ \A i \in DOMAIN e.exprs : e.exprs[i] # e.table
Ordinary(s) ==
    CASE s.kind = "insert" ->
           /\ s.name # <<>>
           /\ \A r \in DOMAIN s.rows : \A j \in DOMAIN s.rows[r] : Value(s.rows[r][j])
      [] s.kind \in {"update", "delete"} ->
           /\ s.filter = <<>> /\ s.table.kind = "ident"
           /\ s.kind = "update" => \A j \in DOMAIN s.clauses : Value(s.clauses[j].value)
      [] s.kind = "alter" -> \A j \in DOMAIN s.clauses : s.clauses[j].value.kind = "string"
      [] s.kind = "expr" -> SimpleSelect(s.expr) \/ FlatCall(s.expr)
      [] OTHER -> TRUE

(* The queries that an assertion can end the process for.  Of those that   *)
(* do not parse: ALTER of anything but a USER, and INSERT without the name *)
(* of its table.  Of those that do: statements of other shapes than the    *)
(* above, a database in use that is gone, and two INSERTs.                 *)
MayEndTheProcess ==
    \/ /\ starts = <<>>
       /\ \/ At(parser, "ALTER") /\ ~At(Advance(parser), "USER")
          \/ At(parser, "INSERT") /\ ~At(Advance(Advance(parser)), "ident")
    \/ /\ starts # <<>>
       /\ \/ \E k \in DOMAIN stmts : ~Ordinary(stmts[k]) \/ ~DbIsThere(k)
          \/ Cardinality({k \in DOMAIN stmts : stmts[k].kind = "insert"}) > 1

(* No other query ends the process, whether it is accepted or not.         *)
OrdinaryQueriesDoNotTrap == phase = "trapped" => MayEndTheProcess

(* Every other query comes to an end with an answer: it is accepted, or    *)
(* rejected with a message, however many rounds the loops of the lexer,    *)
(* the parser, the compiler and the type checker take.                     *)
QueriesAreAnswered ==
    phase = "lexing" ~> \/ phase \in {"accepted", "rejected"}
                        \/ phase = "trapped" /\ MayEndTheProcess
=============================================================================
