----------------------------- MODULE AthFrontEnd ------------------------------
(***************************************************************************)
(* TildeAth.parse: a source text becomes tokens, and these a tree, or the  *)
(* first error on the way; and what the two halves owe to the language: a  *)
(* definition of its lexemes that no scanner is needed for, and the way to *)
(* write a tree down.  Expressions have the fewest parentheses that the    *)
(* precedence of their operators asks for, as the language's description   *)
(* orders them and, for the bitwise ones that it does not order, the       *)
(* interpreter.  Of && and || between entities the description's grammar   *)
(* makes one level and the interpreter two: parentheses stand wherever     *)
(* they meet, so that either way means the same.                           *)
(***************************************************************************)
EXTENDS AthLexer, AthParser, FiniteSets, SequencesExt

CONSTANTS
    Texts,     \* the source texts
    Trees      \* programs given as trees, written down for the parser

VARIABLES
    text,      \* the source
    meant,     \* the program the tokens were written down from, or <<>>
    tokens,    \* what the lexer made of it, or <<>>
    tree       \* what the parser made of it, or <<>>
frontVars == <<text, meant, tokens, tree>>

------------------------------------------------------------------------------
(* Writing a tree down.                                                    *)

Binding(label) ==
    CASE label = "OR" -> 1 [] label = "AND" -> 2 [] label \in {"EQ", "NE"} -> 3
      [] label \in {"LT", "GT", "LE", "GE"} -> 4 [] label = "PIPE" -> 5 [] label = "CARET" -> 6
      [] label = "AMP" -> 7 [] label \in {"LSHIFT", "RSHIFT"} -> 8
      [] label \in {"PLUS", "MINUS"} -> 9 [] label \in {"STAR", "SLASH", "PERCENT"} -> 10
      [] label = "UnaryOp" -> 11
      [] OTHER -> 12

RECURSIVE Written(_, _), Commas(_), Lines(_), WrittenEntity(_, _)
Paren(yes, s) == IF yes THEN <<"LPAREN">> \o s \o <<"RPAREN">> ELSE s

\* Parts separated by commas, and one after the other.
Commas(q) == IF Len(q) = 0 THEN <<>>
             ELSE IF Len(q) = 1 THEN Written(q[1], 0)
             ELSE Written(q[1], 0) \o <<"COMMA">> \o Commas(Tail(q))
Lines(q) == IF Len(q) = 0 THEN <<>> ELSE Written(q[1], 0) \o Lines(Tail(q))

\* An expression over entities, in parentheses unless its place admits its label bare.
WrittenEntity(x, bare) ==
    Paren(x[1] \in {"PIPEPIPE", "AMPAMP", "EntityNot"} \ bare,
        CASE x[1] = "EntityNot" -> <<"BANG">> \o WrittenEntity(x[2], {})
          [] x[1] \in {"PIPEPIPE", "AMPAMP"} ->
               WrittenEntity(x[2], {x[1], "EntityNot"}) \o <<x[1]>> \o WrittenEntity(x[3], {"EntityNot"})
          [] OTHER -> x)

\* A tree, in parentheses if it binds less than the least its place admits.
Written(x, least) ==
    LET E(i) == Written(x[i], 0)
        Body(b) == <<"LBRACE">> \o Lines(Tail(b)) \o <<"RBRACE">>
        b == Binding(x[1])
    IN CASE Len(x) = 3 /\ b < 11 -> Paren(b < least, Written(x[2], b) \o <<x[1]>> \o Written(x[3], b + 1))
         [] x[1] = "UnaryOp"    -> Paren(b < least, x[2] \o Written(x[3], 11))
         [] x[1] = "IndexExpr"  -> Written(x[2], 12) \o <<"LBRACKET">> \o E(3) \o <<"RBRACKET">>
         [] x[1] = "CallExpr"   -> Written(x[2], 12) \o <<"LPAREN">> \o Commas(SubSeq(x, 3, Len(x))) \o <<"RPAREN">>
         [] x[1] = "MemberExpr" -> Written(x[2], 12) \o <<"DOT">> \o x[3]
                                      \o IF x[3] = <<"DIE">> THEN <<"LPAREN", "RPAREN">> ELSE <<>>
         [] x[1] = "ArrayLiteral" -> <<"LBRACKET">> \o Commas(Tail(x)) \o <<"RBRACKET">>
         [] x[1] = "MapLiteral" -> <<"LBRACE">> \o Commas(Tail(x)) \o <<"RBRACE">>
         [] x[1] = "Entry"      -> x[2] \o <<"COLON">> \o E(3)
         [] x[1] = "ImportStmt" ->
              <<"IMPORT">> \o x[2] \o x[3] \o <<"LPAREN">>
                  \o (IF x[2] = <<"TIMER">> THEN x[4] ELSE Commas(SubSeq(x, 4, Len(x)))) \o <<"RPAREN", "SEMICOLON">>
         [] x[1] = "BifurcateStmt" ->
              <<"BIFURCATE">> \o x[2] \o <<"LBRACKET">> \o x[3] \o <<"COMMA">> \o x[4] \o <<"RBRACKET", "SEMICOLON">>
         [] x[1] = "AthLoop" ->
              <<"TILDE_ATH", "LPAREN">> \o WrittenEntity(x[2], {x[2][1]}) \o <<"RPAREN">> \o Body(x[3])
                  \o <<"EXECUTE", "LPAREN">> \o Lines(Tail(x[4])) \o <<"RPAREN", "SEMICOLON">>
         [] x[1] \in {"VarDecl", "ConstDecl"} ->
              <<IF x[1] = "VarDecl" THEN "BIRTH" ELSE "ENTOMB">> \o x[2] \o <<"WITH">> \o E(3) \o <<"SEMICOLON">>
         [] x[1] = "RiteDef" -> <<"RITE">> \o x[2] \o <<"LPAREN">> \o Commas(Tail(x[3])) \o <<"RPAREN">> \o Body(x[4])
         [] x[1] = "Conditional" ->
              <<"SHOULD">> \o E(2) \o Body(x[3]) \o
                  (IF Len(x) = 3 THEN <<>>
                   ELSE <<"LEST">> \o IF x[4][1] = "Block" THEN Body(x[4]) ELSE E(4))
         [] x[1] = "AttemptSalvage" -> <<"ATTEMPT">> \o Body(x[2]) \o <<"SALVAGE">> \o x[3] \o Body(x[4])
         [] x[1] = "CondemnStmt"  -> <<"CONDEMN">> \o E(2) \o <<"SEMICOLON">>
         [] x[1] = "BequeathStmt" -> <<"BEQUEATH">> \o Lines(Tail(x)) \o <<"SEMICOLON">>
         [] x[1] = "Assignment"   -> E(2) \o <<"ASSIGN">> \o E(3) \o <<"SEMICOLON">>
         [] x[1] = "DieStmt"      -> E(2) \o <<"DOT", "DIE", "LPAREN", "RPAREN", "SEMICOLON">>
         [] x[1] = "DiePair"      -> <<"LBRACKET">> \o E(2) \o <<"COMMA">> \o E(3) \o <<"RBRACKET">>
         [] x[1] = "ExprStmt"     -> E(2) \o <<"SEMICOLON">>
         [] x[1] = "Program"      -> Lines(Tail(x)) \o <<"EOF">>
         [] OTHER -> x

------------------------------------------------------------------------------
(* The lexemes of the language.                                            *)

AllIn(w, S) == w # <<>> /\ \A i \in DOMAIN w : w[i] \in S
IsNumber(w) ==
    \/ AllIn(w, Digit)
    \/ \E k \in 1..Len(w) : /\ AllIn(SubSeq(w, 1, k - 1), Digit)
                            /\ \/ w[k] = "." /\ AllIn(SubSeq(w, k + 1, Len(w)), Digit)
                               \/ SubSeq(w, k, Len(w)) \in {<<"m", "s">>, <<"m">>, <<"s">>, <<"h">>}
\* Between the quotes no other quote, and no backslash but before what it escapes.
IsString(w) ==
    LET slashes(i) == Cardinality({k \in 2..(i - 1) : \A m \in k..(i - 1) : w[m] = "\\"})
    IN /\ Len(w) >= 2 /\ w[1] = "\"" /\ w[Len(w)] = "\"" /\ slashes(Len(w)) % 2 = 0
       /\ \A i \in 2..(Len(w) - 1) : /\ w[i] = "\"" => slashes(i) % 2 = 1
                                     /\ slashes(i) % 2 = 1 => w[i] \in Escapable
IsWord(w) == AllIn(w, Letter \cup Digit) /\ w[1] \in Letter
IsOperator(w) == \/ \E n \in DOMAIN TwoCharTokens : SubSeq(TwoCharTokens[n], 1, 2) = w
                 \/ \E n \in DOMAIN SingleCharTokens : SubSeq(SingleCharTokens[n], 1, 1) = w
                 \/ w = <<"~", "A", "T", "H">>
\* Whether a slice of a text is a lexeme after a token of type last, and of the type given.
Fits(w, last, type) ==
    CASE type \in {"INTEGER", "FLOAT", "DURATION"} ->
           IsNumber(w) \/ (last \notin Operand /\ w # <<>> /\ w[1] = "-" /\ IsNumber(Tail(w)))
      [] type = "STRING" -> IsString(w)
      [] type \in {"IDENTIFIER", "NATIVE"} -> IsWord(w)
      [] OTHER -> IsOperator(w) \/ w \in DOMAIN Keyword
IsLexeme(w, last) == \E type \in {"INTEGER", "STRING", "IDENTIFIER", "SEMICOLON"} : Fits(w, last, type)

\* Nothing but blanks and comments to the end of their line.
IsGap(s, i, j) ==
    \A k \in i..(j - 1) :
        \/ s[k] \in BlankChar
        \/ \E c \in i..k : Starts(s, c, <<"/", "/">>) /\ \A m \in c..k : s[m] # "\n"

------------------------------------------------------------------------------
(* TildeAth.parse.                                                         *)

Types(toks) == [i \in DOMAIN toks |-> toks[i].type]

FrontInit ==
    /\ tree = <<>>
    /\ \/ text \in Texts /\ meant = <<>> /\ tokens = <<>>
       \/ \E t \in Trees : text = <<>> /\ meant = t /\ tokens = Written(t, 0)

Lexing == /\ tokens = <<>> /\ meant = <<>>
          /\ tokens' = Tokenize(text)
          /\ UNCHANGED <<text, meant, tree>>
Parsing == /\ tokens # <<>> /\ tree = <<>>
           /\ meant = <<>> => Last(tokens).type = "EOF"
           /\ LET s == IF meant = <<>> THEN Types(tokens) ELSE tokens
                  r == ParseProgram(s)
              IN tree' = IF r.at = 0 THEN <<"ERROR">> ELSE r.trees[1]
           /\ UNCHANGED <<text, meant, tokens>>
FrontNext == Lexing \/ Parsing

\* The lexer neither drops nor splits anything: between two tokens are blanks and comments only,
\* each token is a lexeme of its kind, none could be longer, and where it stops with an error
\* no lexeme begins.  A word every object answers to has no type of the language's.
LongestMatch ==
    (tokens # <<>> /\ meant = <<>>) =>
        \A i \in DOMAIN tokens :
            LET t == tokens[i]
                last == IF i = 1 THEN "START" ELSE tokens[i - 1].type
                none(from) == \A k \in from..Len(text) : ~IsLexeme(SubSeq(text, t.at, k), last)
            IN /\ t.type \in TokenType \cup {"ERROR", "NATIVE"}
               /\ IsGap(text, IF i = 1 THEN 1 ELSE tokens[i - 1].end, t.at)
               /\ CASE t.type = "EOF"   -> t.at = Len(text) + 1
                    [] t.type = "ERROR" -> none(t.at)
                    [] OTHER -> Fits(SubSeq(text, t.at, t.end - 1), last, t.type) /\ none(t.end)

\* A program written down with no more parentheses than that is read as the program that was
\* meant, and whatever is read can be written down and read again the same.
ReadsBack ==
    tree # <<>> =>
        /\ meant # <<>> => tree = meant
        /\ tree # <<"ERROR">> => ParseProgram(Written(tree, 0)).trees = <<tree>>

\* Between the text and the tree nothing of a program is lost, added or regrouped.
FrontEndSound == LongestMatch /\ ReadsBack
================================================================================
