------------------------------- MODULE AthLexer -------------------------------
(***************************************************************************)
(* The lexer of the !~ATH interpreter (personal/ath/tildeath.js): a text,  *)
(* a sequence of one-character strings, becomes a sequence of tokens.      *)
(* A token is its type and where it stands; what a number or a string is   *)
(* worth is read from the text there.  Lines and columns are left out.     *)
(* All loops of the lexer that only run over characters of one kind are    *)
(* closed forms; only what alternates is recursive.                        *)
(***************************************************************************)
EXTENDS Naturals, Sequences

CONSTANTS
    Digit, Letter,   \* the digits; the letters and the underscore
    Keyword,         \* the words of KEYWORDS, as texts, each with its token type
    Inherited        \* the words every JavaScript object answers to (toString, ...)

\* The character at i, or "" past the end (null).
At(s, i) == IF i \in DOMAIN s THEN s[i] ELSE ""
Starts(s, i, w) == \A k \in DOMAIN w : At(s, i + k - 1) = w[k]

\* Where a run of characters of S that begins at i ends, exclusively.
RunEnd(s, i, S) ==
    CHOOSE j \in i..(Len(s) + 1) : At(s, j) \notin S /\ \A k \in i..(j - 1) : s[k] \in S

BlankChar == {" ", "\t", "\r", "\n"}
LineEnd(s, i) ==
    CHOOSE j \in i..(Len(s) + 1) : At(s, j) \in {"", "\n"} /\ \A k \in i..(j - 1) : s[k] # "\n"

RECURSIVE SkipWhitespaceAndComments(_, _)
SkipWhitespaceAndComments(s, i) ==
    IF At(s, i) \in BlankChar THEN SkipWhitespaceAndComments(s, i + 1)
    ELSE IF Starts(s, i, <<"/", "/">>) THEN SkipWhitespaceAndComments(s, LineEnd(s, i))
    ELSE i

\* A token of a type and where it ends; NoToken is the exception.
Tok(type, end) == [type |-> type, end |-> end]
NoToken == Tok("ERROR", 0)

Escapable == {"n", "t", "\\", "\""}

RECURSIVE StringFrom(_, _)
StringFrom(s, i) ==
    CASE At(s, i) = ""   -> NoToken
      [] At(s, i) = "\"" -> Tok("STRING", i + 1)
      [] At(s, i) = "\\" -> IF At(s, i + 1) \in Escapable THEN StringFrom(s, i + 2) ELSE NoToken
      [] OTHER           -> StringFrom(s, i + 1)
ReadString(s, i) == StringFrom(s, i + 1)

ReadNumber(s, i) ==
    LET a == RunEnd(s, IF s[i] = "-" THEN i + 1 ELSE i, Digit)
    IN CASE At(s, a) = "." /\ At(s, a + 1) \in Digit -> Tok("FLOAT", RunEnd(s, a + 1, Digit))
         [] Starts(s, a, <<"m", "s">>)               -> Tok("DURATION", a + 2)
         [] At(s, a) \in {"m", "s", "h"} /\ ~Starts(s, a, <<"m", "s">>) -> Tok("DURATION", a + 1)
         [] OTHER                                    -> Tok("INTEGER", a)

\* KEYWORDS is a plain object: a word it inherits yields a function for a type.
ReadIdentifier(s, i) ==
    LET e == RunEnd(s, i, Letter \cup Digit)
        name == SubSeq(s, i, e - 1)
    IN CASE name \in DOMAIN Keyword -> Tok(Keyword[name], e)
         [] name \in Inherited      -> Tok("NATIVE", e)
         [] OTHER                   -> Tok("IDENTIFIER", e)

\* A minus before a digit belongs to the number unless it follows one of these.
Operand == {"IDENTIFIER", "INTEGER", "FLOAT", "STRING", "DURATION", "ALIVE", "DEAD", "VOID",
            "RPAREN", "RBRACKET"}

TwoCharTokens ==
    << <<"&", "&", "AMPAMP">>, <<"|", "|", "PIPEPIPE">>, <<"<", "<", "LSHIFT">>,
       <<">", ">", "RSHIFT">>, <<"=", "=", "EQ">>, <<"!", "=", "NE">>, <<"<", "=", "LE">>,
       <<">", "=", "GE">> >>
SingleCharTokens ==
    << <<"+", "PLUS">>, <<"-", "MINUS">>, <<"*", "STAR">>, <<"/", "SLASH">>, <<"%", "PERCENT">>,
       <<"<", "LT">>, <<">", "GT">>, <<"=", "ASSIGN">>, <<"!", "BANG">>, <<"(", "LPAREN">>,
       <<")", "RPAREN">>, <<"{", "LBRACE">>, <<"}", "RBRACE">>, <<"[", "LBRACKET">>,
       <<"]", "RBRACKET">>, <<";", "SEMICOLON">>, <<",", "COMMA">>, <<".", "DOT">>,
       <<":", "COLON">>, <<"&", "AMP">>, <<"|", "PIPE">>, <<"^", "CARET">>, <<"~", "TILDE">> >>

\* The types KEYWORDS leads to, and all there are.
KeywordType ==
    {"IMPORT", "BIFURCATE", "EXECUTE", "DIE", "THIS", "TIMER", "PROCESS", "CONNECTION", "WATCHER",
     "BIRTH", "ENTOMB", "WITH", "ALIVE", "DEAD", "VOID", "SHOULD", "LEST", "RITE", "BEQUEATH",
     "ATTEMPT", "SALVAGE", "CONDEMN", "AND", "OR", "NOT"}
TokenType ==
    {"INTEGER", "FLOAT", "STRING", "DURATION", "IDENTIFIER", "TILDE_ATH", "EOF"} \cup KeywordType
        \cup {TwoCharTokens[n][3] : n \in DOMAIN TwoCharTokens}
        \cup {SingleCharTokens[n][2] : n \in DOMAIN SingleCharTokens}

ReadOperator(s, i) ==
    LET two == {n \in DOMAIN TwoCharTokens : Starts(s, i, SubSeq(TwoCharTokens[n], 1, 2))}
        one == {n \in DOMAIN SingleCharTokens : SingleCharTokens[n][1] = s[i]}
    IN CASE two # {}             -> Tok(TwoCharTokens[CHOOSE n \in two : TRUE][3], i + 2)
         [] two = {} /\ one # {} -> Tok(SingleCharTokens[CHOOSE n \in one : TRUE][2], i + 1)
         [] OTHER                -> NoToken

\* One turn of the loop of tokenize: the token that begins at i, after a token of type last.
NextToken(s, i, last) ==
    CASE Starts(s, i, <<"~", "A", "T", "H">>) -> Tok("TILDE_ATH", i + 4)
      [] s[i] = "\""                          -> ReadString(s, i)
      [] s[i] \in Digit \/ (s[i] = "-" /\ At(s, i + 1) \in Digit /\ last \notin Operand)
                                              -> ReadNumber(s, i)
      [] s[i] \in Letter                      -> ReadIdentifier(s, i)
      [] OTHER                                -> ReadOperator(s, i)

\* Either all tokens, each with its place, or those before the first error.
RECURSIVE TokensFrom(_, _, _)
TokensFrom(s, from, last) ==
    LET i == SkipWhitespaceAndComments(s, from)
        t == NextToken(s, i, last)
    IN CASE i > Len(s)                -> << [type |-> "EOF", at |-> i, end |-> i] >>
         [] i <= Len(s) /\ t = NoToken -> << [type |-> "ERROR", at |-> i, end |-> i] >>
         [] OTHER -> << [type |-> t.type, at |-> i, end |-> t.end] >> \o TokensFrom(s, t.end, t.type)
Tokenize(s) == TokensFrom(s, 1, "START")
================================================================================
