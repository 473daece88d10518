----------------------------- MODULE SqlReader -----------------------------
(***************************************************************************)
(* The Parser object of src/src/SQL/Parser.cpp, query by query: its        *)
(* constructor runs the lexer over the whole text, query() reads statement *)
(* after statement.  Of the stages behind it (SqlFrontEnd) it sees only    *)
(* that they end.                                                          *)
(***************************************************************************)
EXTENDS SqlLexer, SqlParser, SqlPrinter

CONSTANT Requests       \* what a client may send: a query and the database it is for

(* A text is a sequence of pieces.                                         *)
ASSUME RequestsAssumption == \A r \in Requests : r.text \in Seq(STRING)

(* A name is a piece of its own kind.                                      *)
ASSUME NamesAssumption == Names \cap (Digits \cup Quotes \cup Symbols \cup {"-"}) = {}

VARIABLES
    phase,          \* where the query is
    source,         \* its text
    pos, tokens,    \* the lexer and the tokens of the parser
    parser, stmts   \* the parser between statements and Query.stmts

readerVars == <<phase, source, pos, tokens, parser, stmts>>

Later == {"compiling", "checking"}
Answered == {"accepted", "rejected", "trapped"}
Phases == {"idle", "lexing", "parsing"} \cup Later \cup Answered

NoParser == Parser(<<>>, 1)

ReaderInit ==
    /\ phase = "idle" /\ source = <<>> /\ pos = 0 /\ tokens = <<>>
    /\ parser = NoParser /\ stmts = <<>>

(* A query comes.                                                          *)
TakeText(text) ==
    /\ phase = "idle"
    /\ phase' = "lexing" /\ source' = text
    /\ UNCHANGED <<pos, tokens, parser, stmts>>

(* One call of Lexer.next by the constructor of Parser.                    *)
Lexed == [i \in DOMAIN tokens |-> [type |-> tokens[i].type, text |-> Text(source, tokens[i])]]
LexToken ==
    /\ phase = "lexing"
    /\ LET found == LexNext(source, pos)
       IN /\ pos' = found.pos
          /\ IF found.token = NoToken
             THEN phase' = "parsing" /\ parser' = Parser(Lexed, 1) /\ UNCHANGED tokens
             ELSE tokens' = Append(tokens, found.token) /\ UNCHANGED <<phase, parser>>
    /\ UNCHANGED <<source, stmts>>

(* An INSERT without the name of its table: the text of a token that was   *)
(* never set is used, and reading it may end the process.                  *)
ReadsUnsetName(p) == ~Fails(p) /\ p.val.kind = "insert" /\ p.val.name = <<>>

(* Parser.query: statements until the tokens are used up.                  *)
ParseStatement ==
    /\ phase = "parsing"
    /\ ~IsEof(parser)
    /\ \E next \in {Statement(parser)} :
         \/ /\ ~Fails(next)
            /\ parser' = next /\ stmts' = Append(stmts, next.val) /\ UNCHANGED phase
         \/ /\ Fails(next) \/ ReadsUnsetName(next)
            /\ phase' = IF next.fail = "error" THEN "rejected" ELSE "trapped"
            /\ UNCHANGED <<parser, stmts>>
    /\ UNCHANGED <<source, pos, tokens>>

EndOfParse ==
    /\ phase = "parsing"
    /\ IsEof(parser)
    /\ phase' = "compiling"
    /\ UNCHANGED <<source, pos, tokens, parser, stmts>>

(* A step of what comes after the parser.                                  *)
LaterStage ==
    /\ phase \in Later
    /\ phase' \in Later \cup Answered
    /\ UNCHANGED <<source, pos, tokens, parser, stmts>>

(* The answer is sent, or the server is started again after a trap.        *)
Forget ==
    /\ phase \in Answered
    /\ phase' = "idle" /\ source' = <<>> /\ pos' = 0 /\ tokens' = <<>>
    /\ parser' = NoParser /\ stmts' = <<>>

ReaderNext ==
    \/ \E r \in Requests : TakeText(r.text)
    \/ LexToken
    \/ ParseStatement
    \/ EndOfParse
    \/ LaterStage
    \/ Forget

ReaderSpec == ReaderInit /\ [][ReaderNext]_readerVars
-----------------------------------------------------------------------------
(* Every call of the lexer and of the parser takes something of the query: *)
(* a token a character of its own, a statement a token of its own, and     *)
(* none of them reads past the end.  The loops of the constructor and of   *)
(* query() rest on it.                                                     *)
ReadingAdvances ==
    /\ phase \in Phases
    /\ pos \in 0..Len(source)
    /\ Len(tokens) <= pos
    /\ Len(stmts) < parser.pos
    /\ parser.pos <= Len(parser.tokens) + 1

Commented(i) ==
    \E j \in 1..i : /\ j < Len(source) /\ source[j] = "-" /\ source[j + 1] = "-"
                    /\ \A k \in j..i : source[k] # "\n"

(* The places of a query that have this line and this column.              *)
LineBreaks == {i \in DOMAIN source : source[i] = "\n"}
Places(location) ==
    {start + location.column - 1 :
        start \in {s \in {0} \cup LineBreaks : Cardinality({i \in LineBreaks : i <= s}) = location.line - 1}}

(* No character of a query is read twice and none is lost: tokens follow   *)
(* each other, and what lies between them is blank, comment or quote.  (An *)
(* illegal character is not: its token has the text of the next one.)  The *)
(* line and the column of an error message (locate_token) lead back to the *)
(* place its token starts at.                                              *)
LexerLosesNothing ==
    /\ \/ \E i \in DOMAIN tokens : tokens[i].type = "illegal"
       \/ /\ \A i \in DOMAIN tokens, j \in DOMAIN tokens : i < j => tokens[i].to <= tokens[j].from
          /\ \A p \in 1..pos : \/ \E i \in DOMAIN tokens : tokens[i].from < p /\ p <= tokens[i].to
                               \/ source[p] \in Blanks \cup Quotes
                               \/ Commented(p)
    /\ phase = "parsing" => \A i \in DOMAIN tokens : Places(LocateToken(source, tokens[i])) = {tokens[i].from}

(* Every token of a query that parses is in its syntax tree, at its place  *)
(* and once: printing the statements gives the query again, but for its    *)
(* commas.  (No token takes more than three steps of the printer.)         *)
ParserLosesNothing ==
    phase \in Later \cup {"accepted"} =>
        Printing(Page(stmts, <<>>))[3 * Len(tokens)] = Page(<<>>, WordsOf(Lexed)[Len(tokens)])
=============================================================================
