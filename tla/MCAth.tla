-------------------------------- MODULE MCAth --------------------------------
EXTENDS AthRuntime, AthValues, FiniteSets, TLC

VARIABLES text, meant, tokens, tree, law, answer, lane

\* Statements.
Import(n, ms) == [k |-> "import", type |-> "timer", name |-> n, amount |-> ms, unit |-> "ms"]
Watcher(n) == [k |-> "import", type |-> "watcher", name |-> n, amount |-> 1, unit |-> "s"]
Bifurcate(e, l, r) == [k |-> "bifurcate", entity |-> e, left |-> l, right |-> r]
Ath(on, body, execute) == [k |-> "loop", on |-> on, body |-> body, execute |-> execute]
Wait(on, execute) == Ath(on, <<>>, execute)
Name(n) == [names |-> <<n>>, ops |-> <<>>]
Make(op, of, after) == [op |-> op, of |-> of, after |-> after]
Both(op, a, b) == [names |-> <<a, b>>, ops |-> <<Make(op, <<1, 2>>, 2)>>]
Die(q) == [k |-> "die", targets |-> q]
Value1(how, n, v) == [k |-> "value", how |-> how, name |-> n, value |-> v]
Rite(n, params, body) == [k |-> "rite", name |-> n, params |-> params, body |-> body]
Call(how, n, rite, args) == [k |-> "call", how |-> how, name |-> n, rite |-> rite, args |-> args]
Should(c, a, b) == [k |-> "should", condition |-> c, then |-> a, else |-> b]
Attempt(body, n, salvage) == [k |-> "attempt", body |-> body, name |-> n, salvage |-> salvage]
Condemn(v) == [k |-> "condemn", message |-> v]
Bequeath(v) == [k |-> "bequeath", value |-> v]

\* Expressions.
Lit(n) == <<"Literal", Num(n)>>
Var(n) == <<"Identifier", n>>
Plus(a, b) == <<"BinaryOp", "+", a, b>>
Inc == Value1("assign", "n", Plus(Var("n"), Lit(1)))

\* What every program begins with: a counter, and a rite that waits for a timer of its own
\* before it gives back its parameter.
Prologue ==
    <<Value1("birth", "n", Lit(0)),
      Rite("slow", <<"p">>, <<Import("S", 2), Wait(Name("S"), <<Value1("birth", "q", Var("p"))>>),
                              Bequeath(Plus(Var("q"), Lit(1)))>>)>>

Pieces ==
    { <<Import("T", 1), Wait(Name("T"), <<Inc>>)>>,
      <<Call("birth", "x", "slow", <<Lit(1)>>), Value1("assign", "n", Var("x"))>>,
      <<Attempt(<<Call("drop", "", "slow", <<Var("nowhere")>>)>>, "e", <<Value1("birth", "y", Var("e")), Inc>>)>>,
      <<Attempt(<<Rite("bad", <<>>, <<Condemn(Lit(7))>>), Call("drop", "", "bad", <<>>)>>, "e",
                <<Should(Var("e"), <<Inc>>, <<>>)>>)>>,
      <<Condemn(Lit(1))>>,
      <<Import("T", 1), Import("U", 2), Wait(Both("AND", "T", "U"), <<Inc>>)>>,
      <<Import("T", 2), Import("U", 1), 
        Wait([names |-> <<"T", "THIS">>, ops |-> <<Make("NOT", <<2>>, 2), Make("OR", <<1, 3>>, 2)>>],
             <<Die(<<"T", "U">>)>>)>>,
      <<Value1("entomb", "c", Lit(1)), Attempt(<<Value1("assign", "c", Lit(2))>>, "e", <<>>)>>,
      <<Wait(Name("THIS"), <<Inc>>)>>,
      <<Die(<<"THIS", "nobody">>)>>,
      <<Bequeath(Lit(0))>>,
      <<Wait([names |-> <<"THIS", "T">>, ops |-> <<Make("NOT", <<1>>, 1), Make("AND", <<3, 2>>, 2)>>], <<Inc>>)>>,
      <<Bifurcate("R", "X", "Y"), Ath(Name("X"), <<Wait(Name("THIS"), <<Inc>>)>>, <<>>)>>,
      <<Watcher("T")>> }

Sequential == {Prologue \o a \o b : a, b \in Pieces}
\* Two branches beside the program, which has set a timer for all of them.
Branching ==
    {Prologue \o <<Import("T", 2), Bifurcate("THIS", "L", "R"), Ath(Name("L"), a \o b, <<Inc>>),
                   Ath(Name("R"), c, <<>>), Die(<<"THIS">>)>>
        : a, c \in Pieces, b \in {p \in Pieces : Len(p) = 2}}
MCPrograms == Sequential \cup Branching

------------------------------------------------------------------------------
(* Texts for the lexer: what alternates is tried in all ways, up to a length. *)
MCDigit == {"1"}
MCLetter == {"a", "m", "s", "h", "A", "T", "H", "D", "I", "E"}
MCKeyword == <<"D", "I", "E">> :> "DIE"
MCInherited == {<<"a", "s">>}
MCTexts ==
    UNION {BoundedSeq({"1", ".", "-", "m", "s", "a", " ", ")"}, 4),
           BoundedSeq({"<", ">", "=", "!", "&", "|", "?", " "}, 3),
           BoundedSeq({"~", "A", "T", "H"}, 5),
           BoundedSeq({"D", "I", "E", "\n"}, 4),
           BoundedSeq({"\"", "\\", "n", "a", "\n"}, 5),
           BoundedSeq({"/", "\n", "a", "\""}, 4)}

(* Programs for the parser: every statement, every pair of operators.         *)
Id == <<"IDENTIFIER">>
Leaf == {Id, <<"INTEGER">>, <<"VOID">>}
Binary == {"OR", "AND", "EQ", "LT", "PIPE", "CARET", "AMP", "LSHIFT", "MINUS", "STAR", "PERCENT"}
Over(S) ==
    UNION {{<<"UnaryOp", <<o>>, x>> : o \in {"NOT", "MINUS"}, x \in S},
           {<<"IndexExpr", x, Id>> : x \in S}, {<<"MemberExpr", x, Id>> : x \in S},
           {<<"CallExpr", x, y>> : x \in {Id}, y \in S}, {<<"ArrayLiteral", x, Id>> : x \in S},
           {<<"MapLiteral", <<"Entry", <<"STRING">>, x>> >> : x \in S}}
Simple == Leaf \cup Over({Id}) \cup {<<o, x, y>> : o \in Binary, x \in {Id}, y \in {<<"INTEGER">>}}
Deep == Simple \cup Over(Simple) \cup {<<o, x, Id>> : o \in Binary, x \in Simple}
               \cup {<<o, Id, y>> : o \in Binary, y \in Simple}
EntityLeaf == {Id, <<"THIS">>}
EntityOf(S) == {<<"EntityNot", x>> : x \in S} \cup {<<o, x, y>> : o \in {"PIPEPIPE", "AMPAMP"}, x, y \in S}
Entities == LET e == EntityLeaf \cup EntityOf({Id}) IN e \cup EntityOf(e)
BlockOf(q) == <<"Block">> \o q
Inner ==
    { <<"VarDecl", Id, <<"INTEGER">> >>, <<"ConstDecl", Id, Id>>, <<"Assignment", Id, <<"VOID">> >>,
      <<"Assignment", <<"IndexExpr", Id, Id>>, Id>>, <<"CondemnStmt", <<"STRING">> >>, <<"BequeathStmt">>,
      <<"BequeathStmt", Id>>, <<"ExprStmt", <<"VOID">> >>, <<"ExprStmt", <<"CallExpr", Id>> >>,
      <<"ImportStmt", <<"TIMER">>, Id, <<"DURATION">> >>, <<"ImportStmt", <<"PROCESS">>, Id, Id, Id>>,
      <<"RiteDef", Id, <<"Params", Id, Id>>, BlockOf(<<>>)>>,
      <<"Conditional", Id, BlockOf(<<>>)>>, <<"AttemptSalvage", BlockOf(<<>>), Id, BlockOf(<<>>)>> }
Outer ==
    {<<"BifurcateStmt", e, Id, Id>> : e \in EntityLeaf} \cup
    {<<"DieStmt", d>> : d \in EntityLeaf \cup {<<"DiePair", <<"DiePair", Id, Id>>, <<"THIS">> >>}} \cup
    {<<"AthLoop", e, BlockOf(<<>>), <<"Body", <<"ExprStmt", <<"VOID">> >> >> >> : e \in Entities} \cup
    {<<"AthLoop", Id, BlockOf(<< <<"DieStmt", Id>> >>), <<"Body", s>> >> : s \in Inner} \cup
    {<<"RiteDef", Id, <<"Params">>, BlockOf(<<s>>)>> : s \in Inner} \cup
    {<<"Conditional", Id, BlockOf(<<s>>), BlockOf(<<s>>)>> : s \in Inner} \cup
    {<<"Conditional", Id, BlockOf(<<>>), <<"Conditional", Id, BlockOf(<<s>>)>> >> : s \in Inner} \cup
    {<<"AttemptSalvage", BlockOf(<<s>>), Id, BlockOf(<<s, s>>)>> : s \in Inner}
MCTrees ==
    {<<"Program", <<"VarDecl", Id, x>> >> : x \in Deep} \cup {<<"Program", s>> : s \in Outer} \cup
    {<<"Program", s, s>> : s \in Outer} \cup {<<"Program">>}

Source == INSTANCE AthFrontEnd WITH Digit <- MCDigit, Letter <- MCLetter, Keyword <- MCKeyword,
             Inherited <- MCInherited, Texts <- MCTexts, Trees <- MCTrees

------------------------------------------------------------------------------
MCUpper == "a" :> "A" @@ "b" :> "B"
MCCode == " " :> 32 @@ "A" :> 65 @@ "B" :> 66 @@ "a" :> 97 @@ "b" :> 98
Laws == INSTANCE AthLaws WITH Numbers <- (-9)..9, SomeTexts <- BoundedSeq({"a", "b"}, 3)

------------------------------------------------------------------------------
(* The interpreter, its front end and its values share no state: a run looks  *)
(* at one of them, the others stay where they began.                          *)
runVars == <<ents, names, branches, scopes, current, threads, pending, run>>
NoRun == ents = <<>> /\ names = <<>> /\ branches = {} /\ scopes = <<>> /\ current = 1 /\ threads = <<>>
         /\ pending = <<>> /\ run = [phase |-> "none", awaited |-> 0]
NoText == text = <<>> /\ meant = <<>> /\ tokens = <<>> /\ tree = <<>>
NoLaw == law = <<>> /\ answer = <<>>
MCInit ==
    \/ lane = "run" /\ AthInit /\ NoText /\ NoLaw
    \/ lane = "text" /\ Source!FrontInit /\ NoRun /\ NoLaw
    \/ lane = "law" /\ Laws!LawInit /\ NoRun /\ NoText
MCNext ==
    /\ UNCHANGED lane
    /\ \/ lane = "run" /\ AthNext /\ UNCHANGED <<text, meant, tokens, tree, law, answer>>
       \/ lane = "text" /\ Source!FrontNext /\ UNCHANGED runVars /\ UNCHANGED <<law, answer>>
       \/ lane = "law" /\ Laws!Evaluating /\ UNCHANGED runVars /\ UNCHANGED <<text, meant, tokens, tree>>
MCvars == <<ents, names, branches, scopes, current, threads, pending, run, text, meant, tokens, tree, law, answer, lane>>
MCSpec == MCInit /\ [][MCNext]_MCvars /\ WF_athVars(lane = "run" /\ AthNext)

\* What is read is what is written, and the laws of the values, see AthFrontEnd and AthLaws.
FrontEndSound == Source!FrontEndSound
LawsHold == Laws!LawsHold
==============================================================================
