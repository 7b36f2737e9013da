-------------------------------- MODULE AthLaws -------------------------------
(***************************************************************************)
(* What the operators and the built-in rites of !~ATH owe to one another:  *)
(* expressions with the value they must have, for the operands given.      *)
(***************************************************************************)
EXTENDS AthValues

CONSTANTS Numbers, SomeTexts     \* integers and texts to try

VARIABLES law, answer            \* an expression with its value, and what Evaluate says
lawVars == <<law, answer>>

L(v) == <<"Literal", v>>
N(n) == L(Num(n))
T(s) == L(Str(s))
Op(op, a, b) == <<"BinaryOp", op, a, b>>
On(name, args) == <<"CallExpr", name, args>>
A1 == L(Arr(<<Num(1), Str(<<"a">>), Void>>))
M1 == L(Pairs(<< << <<"a">>, Num(1)>>, << <<"b">>, Bool(FALSE)>> >>))

NumberLaws ==
    UNION {{ <<Op("+", Op("*", Op("/", N(a), N(b)), N(b)), Op("%", N(a), N(b))), Num(a)>>,
             <<Op("<", Op("%", N(a), N(b)), N(Abs(b))), Bool(TRUE)>> } : a \in Numbers, b \in Numbers \ {0}}
  \cup
    UNION {{ <<Op("+", Op("&", N(a), N(b)), Op("|", N(a), N(b))), Num(Signed(a) + Signed(b))>>,
             <<Op("^", Op("^", N(a), N(b)), N(b)), Num(Signed(a))>>,
             <<Op("==", Op("<=", N(a), N(b)), <<"UnaryOp", "NOT", Op("<", N(b), N(a))>>), Bool(TRUE)>> }
            : a, b \in Numbers}
  \cup
    UNION {{ <<Op("+", <<"UnaryOp", "~", N(a)>>, N(1)), Num(-Signed(a))>>,
             <<On("PARSE_INT", <<On("STRING", <<N(a)>>)>>), Num(a)>>,
             <<Op("==", On("HEX", <<N(a)>>), On("HEX", <<Op("&", N(a), N(-1))>>)), Bool(TRUE)>>,
             <<On("LENGTH", <<On("BIN", <<N(IF a < 0 THEN a ELSE -a - 1)>>)>>), Num(Width)>>,
             <<Op(">>", Op("<<", N(a % 2), N(1)), N(1)), Num(a % 2)>>,
             <<<<"AND", L(Bool(FALSE)), Op("/", N(a), N(0))>>, Bool(FALSE)>>,
             <<<<"OR", N(7), Op("%", N(a), N(0))>>, Num(7)>>,
             <<Op("/", N(a), N(0)), Err>> } : a \in Numbers}

TextLaws ==
    UNION {{ <<On("JOIN", <<On("SPLIT", <<T(s), T(d)>>), T(d)>>), Str(s)>>,
             <<On("REPLACE", <<T(s), T(d), T(d)>>), Str(s)>>,
             <<Op("==", Op("<", T(s), T(d)), Op(">", T(d), T(s))), Bool(TRUE)>>,
             <<On("LENGTH", <<Op("+", T(s), T(d))>>), Num(Len(s) + Len(d))>> } : s, d \in SomeTexts}
  \cup
    {<<Op("+", On("SUBSTRING", <<T(s), N(0), N(k)>>), On("SUBSTRING", <<T(s), N(k)>>)), Str(s)>>
            : s \in SomeTexts, k \in Numbers}
  \cup
    UNION {{ <<On("LOWERCASE", <<On("UPPERCASE", <<T(s)>>)>>), Str(s)>>,
             <<On("LENGTH", <<On("TRIM", <<Op("+", T(<<" ">>), T(s))>>)>>), Num(Len(Trim(s)))>>,
             <<On("CHAR", <<On("CODE", <<T(<<"b">> \o s)>>)>>), Str(<<"b">>)>>,
             <<Op("+", <<"IndexExpr", T(<<"a">> \o s), N(0)>>, On("SUBSTRING", <<T(<<"a">> \o s), N(1)>>)),
               Str(<<"a">> \o s)>> } : s \in SomeTexts}

CollectionLaws ==
    UNION {{ <<On("CONCAT", <<On("SLICE", <<A1, N(0), N(k)>>), On("SLICE", <<A1, N(k)>>)>>), A1[2]>>,
             <<On("LAST", <<On("APPEND", <<A1, N(k)>>)>>), Num(k)>>,
             <<On("FIRST", <<On("PREPEND", <<A1, N(k)>>)>>), Num(k)>>,
             <<On("LENGTH", <<<<"ArrayLiteral", <<N(k), A1>>>> >>), Num(2)>> } : k \in Numbers}
  \cup
    UNION {{ <<On("HAS", <<On("SET", <<M1, T(s), N(3)>>), T(s)>>), Bool(TRUE)>>,
             <<<<"MemberExpr", On("SET", <<M1, T(s), N(3)>>), s>>, Num(3)>>,
             <<On("HAS", <<On("DELETE", <<M1, T(s)>>), T(s)>>), Bool(FALSE)>>,
             <<On("LENGTH", <<On("KEYS", <<On("SET", <<On("DELETE", <<M1, T(s)>>), T(s), N(3)>>)>>)>>),
               Num(IF s \in {<<"a">>, <<"b">>} THEN 2 ELSE 3)>>,
             <<On("LENGTH", <<On("VALUES", <<On("DELETE", <<M1, T(s)>>)>>)>>),
               Num(IF s \in {<<"a">>, <<"b">>} THEN 1 ELSE 2)>> } : s \in SomeTexts}
  \cup { <<<<"UnaryOp", "NOT", M1>>, Bool(FALSE)>>, <<On("TYPEOF", <<A1>>), Str(<<"ARRAY">>)>>,
         <<On("LENGTH", <<M1>>), Err>>, <<<<"IndexExpr", A1, N(3)>>, Err>>,
         <<<<"Identifier", "nowhere">>, Err>>, <<On("INT", <<N(2)>>), Num(2)>>, <<On("FIRST", <<L(Arr(<<>>))>>), Err>> }

LawInit == law \in NumberLaws \cup TextLaws \cup CollectionLaws /\ answer = <<>>
Evaluating == answer = <<>> /\ answer' = Evaluate(law[1], <<>>) /\ UNCHANGED law

\* Every law holds: the quotient and the remainder give back the dividend, what is split and
\* joined, cut and put together, set and read, written and parsed is what it was, and an operand
\* that does not decide is not evaluated.
LawsHold == answer # <<>> => answer = law[2]
================================================================================
