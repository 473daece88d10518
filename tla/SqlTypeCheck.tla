---------------------------- MODULE SqlTypeCheck ----------------------------
(***************************************************************************)
(* src/src/SQL/type_check.cpp: one pass over the instructions of a query.  *)
(*                                                                         *)
(* The context of the pass (TypingContext) is a record: the types of the   *)
(* values and the columns of the tables met so far, both by instruction    *)
(* id, the columns, arguments and values of INSERT seen since their list   *)
(* was emptied, and the failure, "error" or "trap".                        *)
(***************************************************************************)
EXTENDS Integers, SequencesExt

TypingContext ==
    [types |-> <<>>, tables |-> <<>>, emitted |-> <<>>, args |-> <<>>, insert |-> <<>>, fail |-> "no"]

TypeError(t) == [t EXCEPT !.fail = "error"]
TypeTrap(t) == [t EXCEPT !.fail = "trap"]

HasType(t, id) == id \in DOMAIN t.types
SetType(t, id, type) == [t EXCEPT !.types = (id :> type) @@ @]
SetTable(t, id, columns) == [t EXCEPT !.tables = (id :> columns) @@ @]

(* type_is_comparable, is_image and types_are_equal.                       *)
Comparable == {"null", "int", "string", "bool"}
Images == {"png", "chunk"}
TypesAreEqual(a, b) == "null" \in {a, b} \/ {a, b} \subseteq Images \/ a = b

(* find_column: the type of the first column of the name.                  *)
ColumnOf(columns, name) == {i \in DOMAIN columns : columns[i].name = name}
TypeOfColumn(columns, name) ==
    columns[CHOOSE i \in ColumnOf(columns, name) : \A j \in ColumnOf(columns, name) : i <= j].type

(* XMDB_ENUM_BUILTIN_FUNCTIONS: the one function there is.                 *)
Signatures == <<"RGB">> :> [returns |-> "chunk", parameters |-> <<"int", "int", "string">>]

ConstantTypes ==
    [ConstInt |-> "int", ConstString |-> "string", ConstTrue |-> "bool", ConstFalse |-> "bool",
     ConstNull |-> "null"]

(* Eq, Lt and Gt read their operands with operands_of_Eq, which asserts    *)
(* that the instruction is Eq; a table has no type of its own.             *)
CheckComparison(t, id, instr) ==
    IF instr.op # "=" \/ ~HasType(t, instr.lhs) THEN TypeTrap(t)
    ELSE IF t.types[instr.lhs] \notin Comparable THEN TypeError(t)
    ELSE IF ~HasType(t, instr.rhs) THEN TypeTrap(t)
    ELSE IF ~TypesAreEqual(t.types[instr.lhs], t.types[instr.rhs]) THEN TypeError(t)
    ELSE SetType(t, id, "bool")

CheckFetchColumn(t, id, instr) ==
    IF instr.table \notin DOMAIN t.tables THEN TypeTrap(t)
    ELSE IF ColumnOf(t.tables[instr.table], instr.name) = {} THEN TypeTrap(t)
    ELSE SetType(t, id, TypeOfColumn(t.tables[instr.table], instr.name))

(* Faulty variant: the first columns emitted are taken for the query's. *)
CheckEmitQuery_First(t, id, instr) ==
    LET from == Len(t.emitted) - instr.count
        own == SubSeq(t.emitted, 1, instr.count)
    IN IF from < 0 \/ \E i \in DOMAIN own : ~HasType(t, own[i].value) THEN TypeTrap(t)
       ELSE SetTable(t, id, [i \in DOMAIN own |-> [name |-> own[i].name, type |-> t.types[own[i].value]]])

(* EmitQuery: the last columns emitted are the query's.                    *)
CheckEmitQuery(t, id, instr) ==
    LET from == Len(t.emitted) - instr.count
        own == SubSeq(t.emitted, from + 1, Len(t.emitted))
    IN IF from < 0 \/ \E i \in DOMAIN own : ~HasType(t, own[i].value) THEN TypeTrap(t)
       ELSE SetTable([t EXCEPT !.emitted = SubSeq(@, 1, from)], id,
                     [i \in DOMAIN own |-> [name |-> own[i].name, type |-> t.types[own[i].value]]])

(* CommitInsert looks at every column of the list and leaves the list as   *)
(* it is: the first of them that does not fit decides.                     *)
Fits(t, columns, entry) ==
    IF ColumnOf(columns, entry.name) = {} \/ ~HasType(t, entry.value) THEN "trap"
    ELSE IF TypesAreEqual(t.types[entry.value], TypeOfColumn(columns, entry.name)) THEN "no" ELSE "error"
FirstMisfit(t, columns) ==
    LET bad == {i \in DOMAIN t.insert : Fits(t, columns, t.insert[i]) # "no"}
    IN IF bad = {} THEN "no"
       ELSE Fits(t, columns, t.insert[CHOOSE i \in bad : \A j \in bad : i <= j])

(* Faulty variant: only the first row is looked at. *)
CheckCommitInsert_FirstRow(t, instr) ==
    IF instr.table \notin DOMAIN t.tables THEN TypeTrap(t)
    ELSE LET n == Len(t.tables[instr.table])
         IN [t EXCEPT !.fail = FirstMisfit([t EXCEPT !.insert = SubSeq(@, 1, n)], t.tables[instr.table])]

CheckCommitInsert(t, instr) ==
    IF instr.table \notin DOMAIN t.tables THEN TypeTrap(t)
    ELSE [t EXCEPT !.fail = FirstMisfit(t, t.tables[instr.table])]

CheckUpdateColumn(t, instr) ==
    IF instr.table \notin DOMAIN t.tables THEN TypeTrap(t)
    ELSE [t EXCEPT !.fail = Fits(t, t.tables[instr.table], instr)]

(* Arg adds to one list, whatever call it belongs to.                      *)
CheckArg(t, id, instr) ==
    IF ~HasType(t, instr.value) THEN TypeTrap(t)
    ELSE [SetType(t, id, t.types[instr.value]) EXCEPT !.args = Append(@, id)]

(* Faulty variant: the list of arguments is not emptied. *)
CheckCall_KeepsArgs(t, id, instr) ==
    IF instr.name \notin DOMAIN Signatures THEN TypeError(t)
    ELSE LET signature == Signatures[instr.name]
         IN IF Len(signature.parameters) # instr.count THEN TypeError(t)
            ELSE IF Len(t.args) # instr.count THEN TypeTrap(t)
            ELSE IF \E i \in DOMAIN t.args : t.types[t.args[i]] # signature.parameters[i] THEN TypeError(t)
            ELSE SetType(t, id, signature.returns)

CheckCall(t, id, instr) ==
    IF instr.name \notin DOMAIN Signatures THEN TypeError(t)
    ELSE LET signature == Signatures[instr.name]
         IN IF Len(signature.parameters) # instr.count THEN TypeError(t)
            ELSE IF Len(t.args) # instr.count THEN TypeTrap(t)
            ELSE IF \E i \in DOMAIN t.args : t.types[t.args[i]] # signature.parameters[i] THEN TypeError(t)
            ELSE SetType([t EXCEPT !.args = <<>>], id, signature.returns)

(* type_check_ir_instruction; table is the schema FetchTable points to.    *)
CheckInstruction(t, id, instr, table) ==
    CASE instr.op \in {"=", "<", ">"} -> CheckComparison(t, id, instr)
      [] instr.op \in DOMAIN ConstantTypes -> SetType(t, id, ConstantTypes[instr.op])
      [] instr.op = "FetchTable" -> SetTable(t, id, table)
      [] instr.op = "FetchColumn" -> CheckFetchColumn(t, id, instr)
      [] instr.op = "EmitColumn" -> [t EXCEPT !.emitted = Append(@, instr)]
      [] instr.op = "EmitQuery" -> CheckEmitQuery(t, id, instr)
      [] instr.op = "InsertColumn" -> [t EXCEPT !.insert = Append(@, [name |-> instr.name, value |-> instr.value])]
      [] instr.op = "CommitInsert" -> CheckCommitInsert(t, instr)
      [] instr.op = "UpdateColumn" -> CheckUpdateColumn(t, instr)
      [] instr.op = "Arg" -> CheckArg(t, id, instr)
      [] instr.op = "Call" -> CheckCall(t, id, instr)
      [] OTHER -> t
=============================================================================
