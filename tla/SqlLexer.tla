------------------------------ MODULE SqlLexer ------------------------------
(***************************************************************************)
(* src/src/SQL/Lexer.cpp: what Lexer.next finds in a source.               *)
(*                                                                         *)
(* A source is a sequence of pieces instead of characters: a keyword or a  *)
(* name is one piece where it is a run of characters in the code, so that  *)
(* a position counts pieces.  Pieces of a run that touch form one word, as *)
(* their characters do.  Positions are those of the code: 0 is the start.  *)
(***************************************************************************)
EXTENDS Integers, Sequences, FiniteSets

CONSTANT Names          \* the words that are no keywords

(* The keywords of token_table; toupper makes their case irrelevant.       *)
Keywords ==
    {"SELECT", "FROM", "WHERE", "USE", "INSERT", "INTO", "VALUES", "UPDATE",
     "SET", "DELETE", "DROP", "TABLE", "DATABASE", "CREATE", "USER", "TRUE",
     "FALSE", "NULL", "ALTER"}

Digits == {"0", "1"}
Space == " "
Blanks == {Space, "\n"}
DoubleQuote == "\""
Quotes == {"'", DoubleQuote}
Comma == ","
Semicolon == ";"
Symbols == {Comma, ".", "*", Semicolon, "(", ")", "=", "<", ">"}

IdentPieces == Keywords \cup Names \cup Digits

(* take_while and skip_while: where the run of pieces of S from p ends.    *)
RunEnd(source, p, S) ==
    CHOOSE q \in p..Len(source) :
        /\ \A i \in (p + 1)..q : source[i] \in S
        /\ q < Len(source) => source[q + 1] \notin S

(* The text a token stands for: data is the view [from, to) of the source, *)
(* which for an illegal last character is one past the end.                *)
Text(source, token) ==
    SubSeq(source, token.from + 1, IF token.to <= Len(source) THEN token.to ELSE Len(source))

Token(type, from, to) == [type |-> type, from |-> from, to |-> to]

(* What next returns: the token, or none at the end of the source, and the *)
(* position it leaves the lexer at.                                        *)
NoToken == Token("none", 0, 0)
Found(token, pos) == [token |-> token, pos |-> pos]

(* Faulty variant: the lexer steps over a closing quote that is missing. *)
LexString_Overruns(source, p) ==
    LET close == RunEnd(source, p + 1, {source[i] : i \in 1..Len(source)} \ {source[p + 1]})
    IN Found(Token(IF close = Len(source) THEN "unterminated" ELSE "string", p + 1, close), close + 1)

(* A quoted string; without its closing quote it reaches to the end and    *)
(* the lexer stops there.                                                  *)
LexString(source, p) ==
    LET close == RunEnd(source, p + 1, {source[i] : i \in 1..Len(source)} \ {source[p + 1]})
    IN IF close = Len(source)
       THEN Found(Token("unterminated", p + 1, close), close)
       ELSE Found(Token("string", p + 1, close), close + 1)

(* Faulty variant: the character after a word is skipped. *)
LexWord_SkipsOne(source, p) ==
    LET to == RunEnd(source, p, IdentPieces)
        text == SubSeq(source, p + 1, to)
    IN Found(Token(IF Len(text) = 1 /\ text[1] \in Keywords THEN text[1] ELSE "ident", p, to),
             IF to < Len(source) THEN to + 1 ELSE to)

(* A word: a keyword, in any case, or an identifier.                       *)
LexWord(source, p) ==
    LET to == RunEnd(source, p, IdentPieces)
        text == SubSeq(source, p + 1, to)
    IN Found(Token(IF Len(text) = 1 /\ text[1] \in Keywords THEN text[1] ELSE "ident", p, to), to)

(* Any other character: the token's text is the character after it.        *)
LexIllegal(p) == Found(Token("illegal", p + 1, p + 2), p + 1)

(* The piece behind the blanks is no comment.                              *)
LexPiece(source, p) ==
    LET piece == source[p + 1]
    IN CASE piece = "-" -> Found(Token("illegal", p, p + 1), p + 1)
         [] piece \in Symbols -> Found(Token(piece, p, p + 1), p + 1)
         [] piece \in Quotes -> LexString(source, p)
         [] piece \in Digits ->
              LET to == RunEnd(source, p, Digits) IN Found(Token("integer", p, to), to)
         [] piece \in Keywords \cup Names -> LexWord(source, p)
         [] OTHER -> LexIllegal(p)

(* next calls itself behind a comment.                                     *)
CommentStarts(source, p) == p + 1 < Len(source) /\ source[p + 1] = "-" /\ source[p + 2] = "-"
LineEnd(source, p) == RunEnd(source, p, {source[i] : i \in 1..Len(source)} \ {"\n"})
LexNext(source, pos) ==
    LET next[at \in 0..Len(source)] ==
            LET p == RunEnd(source, at, Blanks)
            IN IF p >= Len(source) THEN Found(NoToken, p)
               ELSE IF CommentStarts(source, p) THEN next[LineEnd(source, p + 1)]
               ELSE LexPiece(source, p)
    IN next[pos]

(* locate_token: the line and the column, from 1, of the place a token's   *)
(* text starts at.                                                         *)
LocateToken(source, token) ==
    LET before == {i \in 1..token.from : i <= Len(source) /\ source[i] = "\n"}
        lineStart == IF before = {} THEN 0 ELSE CHOOSE i \in before : \A j \in before : j <= i
    IN [line |-> Cardinality(before) + 1, column |-> token.from - lineStart + 1]
=============================================================================
