------------------------------ MODULE AthParser -------------------------------
(***************************************************************************)
(* The recursive-descent parser of the !~ATH interpreter, over the types   *)
(* of the tokens.  Every production of the parser is one definition here,  *)
(* written with the few moves its functions are made of (consume a token,  *)
(* keep it, decide by the token ahead, repeat while or until a token is    *)
(* ahead); Parse makes the moves.  A tree is a tuple: its label, then its  *)
(* parts; a leaf is the 1-tuple of its token's type.                       *)
(***************************************************************************)
EXTENDS Naturals, Sequences

Is(t) == [k |-> "skip", types |-> {t}]                       \* consume
Take(S) == [k |-> "take", types |-> S]                       \* consume and keep
Rule(n) == [k |-> "rule", rule |-> n]
Items(q) == [k |-> "items", items |-> q]
Node(label, q) == [k |-> "node", label |-> label, items |-> q]
If(S, a, b) == [k |-> "if", types |-> S, yes |-> a, no |-> b]      \* check
While(S, it) == [k |-> "while", types |-> S, item |-> it]
Until(S, it) == [k |-> "until", types |-> S, item |-> it]
Left(S, n) == [k |-> "left", types |-> S, rule |-> n]        \* a left-associative level
After(c) == [k |-> "after", context |-> c]                   \* an expression as a statement
Unexpected == [k |-> "unexpected"]
Nothing == Items(<<>>)

Ident == Take({"IDENTIFIER"})
Expr == Rule("Or")
\* Expressions between commas, none if the closing token comes at once.
Listed(close) ==
    If({close}, Nothing, Items(<<Expr, While({"COMMA"}, Items(<<Is("COMMA"), Expr>>))>>))
Block(rule) == Node("Block", <<Is("LBRACE"), Until({"RBRACE"}, Rule(rule)), Is("RBRACE")>>)

OtherEntity == {"PROCESS", "CONNECTION", "WATCHER"}
ImportStmt == Node("ImportStmt", <<Is("IMPORT"),
    If({"TIMER"},
       Items(<<Take({"TIMER"}), Ident, Is("LPAREN"), Take({"DURATION", "INTEGER"})>>),
       Items(<<Take(OtherEntity), Ident, Is("LPAREN"), Listed("RPAREN")>>)),
    Is("RPAREN"), Is("SEMICOLON")>>)

BifurcateStmt == Node("BifurcateStmt", <<Is("BIFURCATE"), Take({"THIS", "IDENTIFIER"}),
    Is("LBRACKET"), Ident, Is("COMMA"), Ident, Is("RBRACKET"), Is("SEMICOLON")>>)

AthLoop == Node("AthLoop", <<Is("TILDE_ATH"), Is("LPAREN"), Rule("EntityOr"), Is("RPAREN"),
    Block("Statement"), Is("EXECUTE"), Is("LPAREN"), Rule("ExecuteBody"), Is("RPAREN"),
    Is("SEMICOLON")>>)

\* EXECUTE() is accepted, though the language's description calls it a syntax error.
ExecuteBody == Node("Body", <<Until({"RPAREN"}, Rule("ExecuteStatement"))>>)

VarDecl == Node("VarDecl", <<Is("BIRTH"), Ident, Is("WITH"), Expr, Is("SEMICOLON")>>)
ConstDecl == Node("ConstDecl", <<Is("ENTOMB"), Ident, Is("WITH"), Expr, Is("SEMICOLON")>>)

RiteDef == Node("RiteDef", <<Is("RITE"), Ident, Is("LPAREN"),
    Node("Params", <<If({"RPAREN"}, Nothing,
        Items(<<Ident, While({"COMMA"}, Items(<<Is("COMMA"), Ident>>))>>))>>),
    Is("RPAREN"), Block("ExecuteStatement")>>)

Conditional == Node("Conditional", <<Is("SHOULD"), Expr, Block("ExecuteStatement"),
    If({"LEST"},
       Items(<<Is("LEST"), If({"SHOULD"}, Rule("Conditional"), Block("ExecuteStatement"))>>),
       Nothing)>>)

AttemptSalvage == Node("AttemptSalvage", <<Is("ATTEMPT"), Block("ExecuteStatement"),
    Is("SALVAGE"), Ident, Block("ExecuteStatement")>>)

CondemnStmt == Node("CondemnStmt", <<Is("CONDEMN"), Expr, Is("SEMICOLON")>>)
BequeathStmt == Node("BequeathStmt",
    <<Is("BEQUEATH"), If({"SEMICOLON"}, Nothing, Expr), Is("SEMICOLON")>>)

\* The statements every context knows, by their first token, and the rest of the context.
Common(rest) ==
    If({"IMPORT"}, Rule("ImportStmt"), If({"TILDE_ATH"}, Rule("AthLoop"),
    If({"BIRTH"}, VarDecl, If({"ENTOMB"}, ConstDecl, If({"RITE"}, Rule("RiteDef"),
    If({"SHOULD"}, Rule("Conditional"), If({"ATTEMPT"}, Rule("AttemptSalvage"),
    If({"CONDEMN"}, CondemnStmt, If({"BEQUEATH"}, BequeathStmt, rest)))))))))

DieOfTarget == Node("DieStmt", <<Rule("DieTarget"), Is("DOT"), Is("DIE"), Is("LPAREN"),
    Is("RPAREN"), Is("SEMICOLON")>>)

Statement ==
    Common(If({"BIFURCATE"}, BifurcateStmt, If({"LBRACKET"}, DieOfTarget,
           If({"IDENTIFIER"}, After("name"), If({"THIS"}, After("this"), Unexpected)))))

\* A VOID ends its statement, even if an operator follows.
ExecuteStatement ==
    Common(If({"VOID"},
              Node("ExprStmt", <<Take({"VOID"}), If({"SEMICOLON"}, Is("SEMICOLON"), Nothing)>>),
              After("execute")))

DieTarget ==
    If({"LBRACKET"},
       Node("DiePair", <<Is("LBRACKET"), Rule("DieTarget"), Is("COMMA"), Rule("DieTarget"),
                         Is("RBRACKET")>>),
       Take({"THIS", "IDENTIFIER"}))

EntityOr == Left({"PIPEPIPE"}, "EntityAnd")
EntityAnd == Left({"AMPAMP"}, "EntityUnary")
\* A bug: what is negated runs on to the end of the expression.
EntityUnary_Wide == If({"BANG"}, Node("EntityNot", <<Is("BANG"), Rule("EntityOr")>>),
                       Rule("EntityPrimary"))
EntityUnary == If({"BANG"}, Node("EntityNot", <<Is("BANG"), Rule("EntityUnary")>>),
                  Rule("EntityPrimary"))
EntityPrimary == If({"LPAREN"}, Items(<<Is("LPAREN"), Rule("EntityOr"), Is("RPAREN")>>),
                    Take({"THIS", "IDENTIFIER"}))

LogicOr == Left({"OR"}, "And")
LogicAnd == Left({"AND"}, "Equality")
Equality == Left({"EQ", "NE"}, "Comparison")
Comparison == Left({"LT", "GT", "LE", "GE"}, "BitwiseOr")
BitwiseOr == Left({"PIPE"}, "BitwiseXor")
BitwiseXor == Left({"CARET"}, "BitwiseAnd")
BitwiseAnd == Left({"AMP"}, "Shift")
Shift == Left({"LSHIFT", "RSHIFT"}, "Term")
Term == Left({"PLUS", "MINUS"}, "Factor")
Factor == Left({"STAR", "SLASH", "PERCENT"}, "Unary")
Unary == If({"NOT", "MINUS", "TILDE"},
            Node("UnaryOp", <<Take({"NOT", "MINUS", "TILDE"}), Rule("Unary")>>),
            [k |-> "postfix"])

ArrayLiteral == Node("ArrayLiteral", <<Is("LBRACKET"),
    If({"RBRACKET"}, Nothing, Items(<<Expr,
        While({"COMMA"}, Items(<<Is("COMMA"), If({"RBRACKET"}, Nothing, Expr)>>))>>)),
    Is("RBRACKET")>>)
MapEntry == Node("Entry", <<Take({"STRING", "IDENTIFIER"}), Is("COLON"), Expr>>)
MapLiteral == Node("MapLiteral", <<Is("LBRACE"),
    If({"RBRACE"}, Nothing, Items(<<MapEntry,
        While({"COMMA"}, Items(<<Is("COMMA"), If({"RBRACE"}, Nothing, MapEntry)>>))>>)),
    Is("RBRACE")>>)

Literal == {"INTEGER", "FLOAT", "STRING", "ALIVE", "DEAD", "VOID"}
Primary ==
    If({"LPAREN"}, Items(<<Is("LPAREN"), Expr, Is("RPAREN")>>),
    If({"LBRACKET"}, ArrayLiteral, If({"LBRACE"}, MapLiteral,
    Take(Literal \cup {"THIS", "IDENTIFIER"}))))

\* What may follow a primary, as often as it comes: [index], .DIE(), .member, (arguments).
Suffix(t) ==
    CASE t = "LBRACKET" -> [label |-> "IndexExpr",
                            item |-> Items(<<Is("LBRACKET"), Expr, Is("RBRACKET")>>)]
      [] t = "LPAREN"   -> [label |-> "CallExpr",
                            item |-> Items(<<Is("LPAREN"), Listed("RPAREN"), Is("RPAREN")>>)]
      [] t = "DOT"      -> [label |-> "MemberExpr",
                            item |-> Items(<<Is("DOT"), If({"DIE"},
                                       Items(<<Take({"DIE"}), Is("LPAREN"), Is("RPAREN")>>), Ident)>>)]

Grammar ==
    [Statement |-> Statement, ExecuteStatement |-> ExecuteStatement, ExecuteBody |-> ExecuteBody,
     ImportStmt |-> ImportStmt, AthLoop |-> AthLoop, RiteDef |-> RiteDef,
     Conditional |-> Conditional, AttemptSalvage |-> AttemptSalvage, DieTarget |-> DieTarget,
     EntityOr |-> EntityOr, EntityAnd |-> EntityAnd, EntityUnary |-> EntityUnary,
     EntityPrimary |-> EntityPrimary, Or |-> LogicOr, And |-> LogicAnd, Equality |-> Equality,
     Comparison |-> Comparison, BitwiseOr |-> BitwiseOr, BitwiseXor |-> BitwiseXor,
     BitwiseAnd |-> BitwiseAnd, Shift |-> Shift, Term |-> Term, Factor |-> Factor, Unary |-> Unary]

\* The token to go on from and the trees gathered; at = 0 is the exception.
Got(at, trees) == [at |-> at, trees |-> trees]
Failed == Got(0, <<>>)
Wrapped(label, r) == IF r.at = 0 THEN Failed ELSE Got(r.at, << <<label>> \o r.trees >>)

RECURSIVE Parse(_, _, _), ParseItems(_, _, _), LeftFrom(_, _, _), PostfixFrom(_, _)

ParseItems(q, s, r) ==
    IF q = <<>> \/ r.at = 0 THEN r
    ELSE LET h == Parse(Head(q), s, r.at)
         IN IF h.at = 0 THEN Failed ELSE ParseItems(Tail(q), s, Got(h.at, r.trees \o h.trees))

LeftFrom(it, s, r) ==
    IF r.at = 0 \/ s[r.at] \notin it.types THEN r
    ELSE LET right == Parse(Rule(it.rule), s, r.at + 1)
         IN IF right.at = 0 THEN Failed
            ELSE LeftFrom(it, s, Got(right.at, << <<s[r.at], r.trees[1], right.trees[1]>> >>))

PostfixFrom(s, r) ==
    IF r.at = 0 \/ s[r.at] \notin {"LBRACKET", "LPAREN", "DOT"} THEN r
    ELSE LET x == Suffix(s[r.at])
         IN PostfixFrom(s, Wrapped(x.label, ParseItems(<<x.item>>, s, r)))

\* An expression where a statement is due: an assignment, a death or the expression itself.
DieCall(target) == <<"MemberExpr", target, <<"DIE">> >>
AfterExpr(context, s, r) ==
    LET tree == r.trees[1]
        dies == Len(tree) = 3 /\ tree[1] = "MemberExpr" /\ tree[3] = <<"DIE">>
        end == <<Is("SEMICOLON")>>
    IN CASE r.at = 0 -> Failed
         [] r.at # 0 /\ s[r.at] = "ASSIGN" ->
              Wrapped("Assignment", ParseItems(<<Is("ASSIGN"), Expr>> \o end, s, r))
         [] r.at # 0 /\ s[r.at] # "ASSIGN" /\ context = "execute" ->
              Wrapped("ExprStmt", Got(IF s[r.at] = "SEMICOLON" THEN r.at + 1 ELSE r.at, r.trees))
         [] OTHER ->
              IF dies /\ (context = "name" \/ tree[2] = <<"THIS">>)
              THEN IF Len(tree[2]) = 1
                   THEN Wrapped("DieStmt", ParseItems(end, s, Got(r.at, <<tree[2]>>)))
                   ELSE Failed
              ELSE Wrapped("ExprStmt", ParseItems(end, s, r))

Parse(it, s, i) ==
    CASE it.k = "skip"  -> IF s[i] \in it.types THEN Got(i + 1, <<>>) ELSE Failed
      [] it.k = "take"  -> IF s[i] \in it.types THEN Got(i + 1, << <<s[i]>> >>) ELSE Failed
      [] it.k = "rule"  -> Parse(Grammar[it.rule], s, i)
      [] it.k = "items" -> ParseItems(it.items, s, Got(i, <<>>))
      [] it.k = "node"  -> Wrapped(it.label, ParseItems(it.items, s, Got(i, <<>>)))
      [] it.k = "if"    -> Parse(IF s[i] \in it.types THEN it.yes ELSE it.no, s, i)
      [] it.k = "while" -> IF s[i] \in it.types THEN ParseItems(<<it.item, it>>, s, Got(i, <<>>))
                           ELSE Got(i, <<>>)
      [] it.k = "until" -> IF s[i] \in it.types THEN Got(i, <<>>)
                           ELSE ParseItems(<<it.item, it>>, s, Got(i, <<>>))
      [] it.k = "left"  -> LeftFrom(it, s, Parse(Rule(it.rule), s, i))
      [] it.k = "postfix" -> PostfixFrom(s, Parse(Primary, s, i))
      [] it.k = "after" -> AfterExpr(it.context, s, Parse(Expr, s, i))
      [] it.k = "unexpected" -> Failed

\* The program of a token list that ends in EOF.
ParseProgram(s) == Parse(Node("Program", <<Until({"EOF"}, Rule("Statement"))>>), s, 1)
================================================================================
