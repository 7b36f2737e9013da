------------------------------ MODULE AthValues -------------------------------
(***************************************************************************)
(* The operators of the !~ATH interpreter, its pure built-in rites and the *)
(* evaluation of expressions without calls of user rites.                  *)
(* Numbers are integers, and collections are not compared (JavaScript      *)
(* would compare their identities).                                        *)
(***************************************************************************)
EXTENDS AthTypes, SequencesExt, Bitwise

CONSTANTS
    Width,       \* the bits of what the bitwise operators work on (32 in JavaScript)
    Upper,       \* lower-case letters with their upper-case ones, as a function
    CodePoint    \* the characters with their code points, as a function

Digits == <<"0", "1", "2", "3", "4", "5", "6", "7", "8", "9", "A", "B", "C", "D", "E", "F">>
RECURSIVE Numeral(_, _)
Numeral(n, base) ==
    IF n < base THEN << Digits[n + 1] >> ELSE Numeral(n \div base, base) \o << Digits[(n % base) + 1] >>
Decimal(n) == IF n < 0 THEN <<"-">> \o Numeral(-n, 10) ELSE Numeral(n, 10)

\* Texts one after the other with a text between them, and the way back.
Join(texts, sep) ==
    IF texts = <<>> THEN <<>> ELSE FoldLeft(LAMBDA a, b : a \o sep \o b, Head(texts), Tail(texts))
Map(q, F(_)) == [i \in DOMAIN q |-> F(q[i])]
RECURSIVE Split(_, _)
Split(s, sep) ==
    LET hits == {i \in 1..(Len(s) - Len(sep) + 1) : SubSeq(s, i, i + Len(sep) - 1) = sep}
        i == CHOOSE k \in hits : \A m \in hits : k <= m
    IN CASE sep = <<>> -> Map(s, LAMBDA c : <<c>>)
         [] sep # <<>> /\ hits = {} -> <<s>>
         [] OTHER -> <<SubSeq(s, 1, i - 1)>> \o Split(SubSeq(s, i + Len(sep), Len(s)), sep)

RECURSIVE Stringify(_)
Stringify(v) ==
    CASE TypeName(v) = "VOID"    -> <<"VOID">>
      [] TypeName(v) = "BOOLEAN" -> IF v[2] THEN <<"ALIVE">> ELSE <<"DEAD">>
      [] TypeName(v) = "INTEGER" -> Decimal(v[2])
      [] TypeName(v) = "STRING"  -> v[2]
      [] TypeName(v) = "ARRAY"   -> <<"[">> \o Join(Map(v[2], Stringify), <<",", " ">>) \o <<"]">>
      [] TypeName(v) = "MAP"     ->
           <<"{">> \o Join(Map(v[2], LAMBDA e : e[1] \o <<":", " ">> \o Stringify(e[2])), <<",", " ">>)
                   \o <<"}">>

\* Division and remainder go toward zero.
Abs(n) == IF n < 0 THEN -n ELSE n
Sign(n) == IF n < 0 THEN -1 ELSE 1
Trunc(a, b) == Sign(a) * Sign(b) * (Abs(a) \div Abs(b))
Rem_Floor(a, b) == a % Abs(b)      \* a bug: the remainder of flooring division
Rem(a, b) == Sign(a) * (Abs(a) % Abs(b))

\* The bitwise operators take the low bits and give them back signed.
Unsigned(n) == n % 2^Width
Signed(n) == IF Unsigned(n) >= 2^(Width - 1) THEN Unsigned(n) - 2^Width ELSE Unsigned(n)
Bits(op, a, b) ==
    CASE op = "&"  -> Signed(Unsigned(a) & Unsigned(b))
      [] op = "|"  -> Signed(Unsigned(a) | Unsigned(b))
      [] op = "^"  -> Signed(Unsigned(a) ^^ Unsigned(b))
      [] op = "<<" -> Signed(Unsigned(a) * 2^(b % Width))
      [] op = ">>" -> Signed(a) \div 2^(b % Width)

\* The place of a text in the order of the characters' codes.
RECURSIVE Below(_, _)
Below(s, t) ==
    CASE s = <<>> \/ t = <<>> -> s = <<>> /\ t # <<>>
      [] OTHER -> \/ CodePoint[Head(s)] < CodePoint[Head(t)]
                  \/ Head(s) = Head(t) /\ Below(Tail(s), Tail(t))
Less(l, r) == IF Are("STRING", <<l, r>>) THEN Below(l[2], r[2]) ELSE l[2] < r[2]

\* Comparisons are those of two numbers or two texts; JavaScript converts any others.
BinaryOp(op, l, r) ==
    LET ints == Are("INTEGER", <<l, r>>)
    IN CASE op = "+" -> IF "STRING" \in {TypeName(l), TypeName(r)}
                        THEN Str(Stringify(l) \o Stringify(r))
                        ELSE IF ints THEN Num(l[2] + r[2]) ELSE Err
         [] op = "-" -> IF ints THEN Num(l[2] - r[2]) ELSE Err
         [] op = "*" -> IF ints THEN Num(l[2] * r[2]) ELSE Err
         [] op = "/" -> IF ints /\ r[2] # 0 THEN Num(Trunc(l[2], r[2])) ELSE Err
         [] op = "%" -> IF ints /\ r[2] # 0 THEN Num(Rem(l[2], r[2])) ELSE Err
         [] op = "==" -> Bool(l = r)
         [] op = "!=" -> Bool(l # r)
         [] op = "<"  -> Bool(Less(l, r))
         [] op = ">"  -> Bool(Less(r, l))
         [] op = "<=" -> Bool(~Less(r, l))
         [] op = ">=" -> Bool(~Less(l, r))
         [] op \in {"&", "|", "^", "<<", ">>"} -> IF ints THEN Num(Bits(op, l[2], r[2])) ELSE Err

UnaryOp(op, v) ==
    CASE op = "NOT" -> Bool(~IsTruthy(v))
      [] op = "-"   -> IF Are("INTEGER", <<v>>) THEN Num(-v[2]) ELSE Err
      [] op = "~"   -> IF Are("INTEGER", <<v>>) THEN Num(-Signed(v[2]) - 1) ELSE Err

\* The pairs of a map with this key.
Held(m, key) == SelectSeq(m[2], LAMBDA e : e[1] = key)
Has(m, key) == Held(m, key) # <<>>
Put(m, key, v) ==
    Pairs(IF Has(m, key) THEN Map(m[2], LAMBDA e : IF e[1] = key THEN <<key, v>> ELSE e)
          ELSE Append(m[2], <<key, v>>))

Index(obj, i) ==
    CASE TypeName(obj) \in {"ARRAY", "STRING"} ->
           IF TypeName(i) = "INTEGER" /\ i[2] + 1 \in DOMAIN obj[2]
           THEN IF TypeName(obj) = "ARRAY" THEN obj[2][i[2] + 1] ELSE Str(<< obj[2][i[2] + 1] >>)
           ELSE Err
      [] TypeName(obj) = "MAP" ->
           IF Has(obj, Stringify(i)) THEN Held(obj, Stringify(i))[1][2] ELSE Err
      [] OTHER -> Err
Member(obj, key) == IF TypeName(obj) = "MAP" THEN Index(obj, Str(key)) ELSE Err

\* slice: an end counts from the back when negative; none given is the whole, VOID is 0.
SliceEnd(v, n, default) ==
    CASE v = Missing -> default
      [] v = Void    -> 0
      [] OTHER       -> IF v[2] < 0 THEN (IF n + v[2] < 0 THEN 0 ELSE n + v[2])
                        ELSE IF v[2] > n THEN n ELSE v[2]
Slice(q, from, to) == SubSeq(q, SliceEnd(from, Len(q), 0) + 1, SliceEnd(to, Len(q), Len(q)))

DigitChar == {Digits[d] : d \in 1..10}
RECURSIVE Value(_)
Value(s) == IF s = <<>> THEN 0
            ELSE 10 * Value(Front(s)) + (CHOOSE d \in 0..9 : Digits[d + 1] = s[Len(s)])
\* parseInt: blanks, a sign, then as many digits as there are; the rest is ignored.
ParseInt(s) ==
    LET from == CHOOSE i \in 1..(Len(s) + 1) :
                    (i > Len(s) \/ s[i] # " ") /\ \A k \in 1..(i - 1) : s[k] = " "
        minus == from <= Len(s) /\ s[from] = "-"
        sign == from <= Len(s) /\ s[from] \in {"-", "+"}
        a == IF sign THEN from + 1 ELSE from
        b == CHOOSE i \in a..(Len(s) + 1) :
                 (i > Len(s) \/ s[i] \notin DigitChar) /\ \A k \in a..(i - 1) : s[k] \in DigitChar
        n == Value(SubSeq(s, a, b - 1))
    IN CASE "." \in ToSet(s) \/ b = a -> Err
         [] OTHER -> Num(IF minus THEN -n ELSE n)

Trim(s) ==
    LET kept == {i \in DOMAIN s : s[i] # " "}
    IN IF kept = {} THEN <<>>
       ELSE SubSeq(s, CHOOSE i \in kept : \A k \in kept : i <= k, CHOOSE i \in kept : \A k \in kept : i >= k)
UpperChar(c) == IF c \in DOMAIN Upper THEN Upper[c] ELSE c
LowerChar(c) == IF \E l \in DOMAIN Upper : Upper[l] = c THEN CHOOSE l \in DOMAIN Upper : Upper[l] = c ELSE c

\* What the built-in rites accept: the types of their arguments, as far as they are looked at.
Accepts(name, a) ==
    CASE name = "LENGTH"    -> TypeName(a[1]) \in {"STRING", "ARRAY"}
      [] name \in {"PARSE_INT", "CODE", "SUBSTRING", "UPPERCASE", "LOWERCASE", "TRIM"}
                            -> TypeName(a[1]) = "STRING"
      [] name \in {"INT", "FLOAT", "BIN", "HEX", "CHAR"} -> TypeName(a[1]) = "INTEGER"
      [] name \in {"APPEND", "PREPEND", "SLICE", "FIRST", "LAST"} -> TypeName(a[1]) = "ARRAY"
      [] name = "CONCAT"    -> Are("ARRAY", <<a[1], a[2]>>)
      [] name \in {"KEYS", "VALUES", "HAS", "SET", "DELETE"} -> TypeName(a[1]) = "MAP"
      [] name = "SPLIT"     -> Are("STRING", <<a[1], a[2]>>)
      [] name = "JOIN"      -> TypeName(a[1]) = "ARRAY" /\ TypeName(a[2]) = "STRING"
      [] name = "REPLACE"   -> Are("STRING", <<a[1], a[2], a[3]>>)
      [] name = "RANDOM_INT" -> Are("INTEGER", <<a[1], a[2]>>)
      [] OTHER              -> TRUE

NumberRite(name, x) ==
    CASE name \in {"INT", "FLOAT"} -> Num(x)
      [] name = "BIN"  -> Str(Numeral(Unsigned(x), 2))
      [] name = "HEX"  -> Str(Numeral(Unsigned(x), 16))
      [] name = "CHAR" -> IF \E c \in DOMAIN CodePoint : CodePoint[c] = x
                          THEN Str(<<CHOOSE c \in DOMAIN CodePoint : CodePoint[c] = x>>) ELSE Err

TextRite(name, s, a) ==
    CASE name = "LENGTH"    -> Num(Len(s))
      [] name = "PARSE_INT" -> ParseInt(s)
      [] name = "CODE"      -> IF s = <<>> THEN Err ELSE Num(CodePoint[s[1]])
      [] name = "SUBSTRING" -> Str(Slice(s, a[2], a[3]))
      [] name = "UPPERCASE" -> Str(Map(s, UpperChar))
      [] name = "LOWERCASE" -> Str(Map(s, LowerChar))
      [] name = "TRIM"      -> Str(Trim(s))
      [] name = "SPLIT"     -> Arr(Map(Split(s, a[2][2]), Str))
      [] name = "REPLACE"   -> Str(Join(Split(s, a[2][2]), a[3][2]))

ArrayRite(name, q, a) ==
    CASE name = "LENGTH"  -> Num(Len(q))
      [] name = "APPEND"  -> Arr(Append(q, a[2]))
      [] name = "PREPEND" -> Arr(<<a[2]>> \o q)
      [] name = "SLICE"   -> Arr(Slice(q, a[2], a[3]))
      [] name = "FIRST"   -> IF q = <<>> THEN Err ELSE q[1]
      [] name = "LAST"    -> IF q = <<>> THEN Err ELSE q[Len(q)]
      [] name = "CONCAT"  -> Arr(q \o a[2][2])
      [] name = "JOIN"    -> Str(Join(Map(q, Stringify), a[2][2]))

MapRite(name, m, a) ==
    CASE name = "KEYS"   -> Arr(Map(m[2], LAMBDA e : Str(e[1])))
      [] name = "VALUES" -> Arr(Map(m[2], LAMBDA e : e[2]))
      [] name = "HAS"    -> Bool(Has(m, Stringify(a[2])))
      [] name = "SET"    -> Put(m, Stringify(a[2]), a[3])
      [] name = "DELETE" -> Pairs(SelectSeq(m[2], LAMBDA e : e[1] # Stringify(a[2])))

\* A call with the arguments given; those that lack are undefined, those too many are ignored.
CallBuiltin(name, args) ==
    LET a == [i \in 1..3 |-> IF i \in DOMAIN args THEN args[i] ELSE Missing]
    IN CASE ~Accepts(name, a) -> Err
         [] Accepts(name, a) /\ name = "TYPEOF" -> Str(<<TypeName(a[1])>>)
         [] Accepts(name, a) /\ name = "STRING" -> Str(Stringify(a[1]))
         [] OTHER -> CASE TypeName(a[1]) = "INTEGER" -> NumberRite(name, a[1][2])
                       [] TypeName(a[1]) = "STRING"  -> TextRite(name, a[1][2], a)
                       [] TypeName(a[1]) = "ARRAY"   -> ArrayRite(name, a[1][2], a)
                       [] TypeName(a[1]) = "MAP"     -> MapRite(name, a[1], a)

\* evaluate: AND and OR leave their right side alone when the left one decides.
RECURSIVE Evaluate(_, _)
Evaluate(node, env) ==
    LET Part(i) == Evaluate(node[i], env)
    IN CASE node[1] = "Literal"    -> node[2]
         [] node[1] = "Identifier" -> IF node[2] \in DOMAIN env THEN env[node[2]] ELSE Err
         [] node[1] = "AND" -> IF Part(2) = Err THEN Err ELSE IF IsTruthy(Part(2)) THEN Part(3) ELSE Part(2)
         [] node[1] = "OR"  -> IF Part(2) = Err THEN Err ELSE IF IsTruthy(Part(2)) THEN Part(2) ELSE Part(3)
         [] node[1] = "UnaryOp" -> IF Part(3) = Err THEN Err ELSE UnaryOp(node[2], Part(3))
         [] node[1] = "IndexExpr" -> IF Err \in {Part(2), Part(3)} THEN Err ELSE Index(Part(2), Part(3))
         [] node[1] = "MemberExpr" -> IF Part(2) = Err THEN Err ELSE Member(Part(2), node[3])
         [] node[1] = "CallExpr" ->
              LET args == Map(node[3], LAMBDA e : Evaluate(e, env))
              IN IF \E i \in DOMAIN args : args[i] = Err THEN Err ELSE CallBuiltin(node[2], args)
         [] node[1] = "ArrayLiteral" ->
              LET q == Map(node[2], LAMBDA e : Evaluate(e, env))
              IN IF \E i \in DOMAIN q : q[i] = Err THEN Err ELSE Arr(q)
         [] node[1] = "BinaryOp" ->
              IF Part(3) = Err \/ Part(4) = Err THEN Err ELSE BinaryOp(node[2], Part(3), Part(4))
================================================================================
