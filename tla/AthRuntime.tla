------------------------------ MODULE AthRuntime ------------------------------
(***************************************************************************)
(* The interpreter of !~ATH (personal/ath/tildeath.js) on its event loop:  *)
(* entities that die, scopes, and the threads of control that its async    *)
(* functions are: the program and one per branch.  A thread is a stack of  *)
(* frames, one per async function it is inside of.  Every statement ends   *)
(* in an await, so between two of them any thread that is not blocked may  *)
(* go on (the order in which promises resume is not modelled); a timer     *)
(* fires only when none can.  Expressions are evaluated in one step, but   *)
(* for calls of user rites, which stand alone or as the value stored.      *)
(***************************************************************************)
EXTENDS AthTypes

CONSTANTS
    Programs,      \* the programs run, each a sequence of statements
    Eval(_, _),    \* evaluate: an expression and the variables that are visible
    Text(_),       \* stringify
    MaxEntities    \* how many of the entities made EveryTimerEnds speaks of

VARIABLES
    ents,        \* the entities ever made, in order
    names,       \* interpreter.entities: the names with the entity each stands for
    branches,    \* interpreter.branchEntities: the names ever given to a branch
    scopes,      \* the scopes ever made; 1 is the global one
    current,     \* interpreter.currentScope
    threads,     \* the program (1) and the branches, each a stack, innermost frame first
    pending,     \* interpreter._pendingPromises
    run          \* where Interpreter.run is
athVars == <<ents, names, branches, scopes, current, threads, pending, run>>

Entity(kind, dead, ms, parts) == [kind |-> kind, dead |-> dead, ms |-> ms, parts |-> parts]
Scope(parent, vars) == [parent |-> parent, vars |-> vars, constants |-> {}]
Block(stmts) == [k |-> "block", rest |-> stmts]
Bind(f, n, v) == [x \in DOMAIN f \cup {n} |-> IF x = n THEN v ELSE f[x]]

\* The first of some frames that has something left to do: behind it are blocks that are done
\* with and ATTEMPTs that succeeded.
Spent(f) == f.k = "attempt" \/ (f.k = "block" /\ f.rest = <<>>)
Left(frames) == {i \in DOMAIN frames : ~Spent(frames[i]) /\ \A k \in 1..(i - 1) : Spent(frames[k])}
From(frames, i) == SubSeq(frames, i, Len(frames))

AthInit ==
    /\ ents = <<Entity("this", FALSE, 0, <<>>)>>
    /\ names = [n \in {"THIS"} |-> 1]
    /\ branches = {}
    /\ scopes = <<Scope(0, <<>>)>>
    /\ current = 1
    /\ \E p \in Programs :
          LET all == <<Block(p), [k |-> "program", base |-> 1]>>
          IN \E i \in Left(all) : threads = <<From(all, i)>>
    /\ pending = <<>>
    /\ run = [phase |-> "running", awaited |-> 0]

\* Entity.die for a set of entities.
Kill(es, S) ==
    [e \in DOMAIN es |-> IF e \in S THEN [es[e] EXCEPT !.dead = TRUE] ELSE es[e]]
\* BranchEntity.complete; the name may stand for another kind of entity by now.
Completed(es, e) == IF es[e].kind = "branch" THEN Kill(es, {e}) ELSE es
Named(dom) == {names[n] : n \in dom}

\* Scope.get through the chain of parents: everything visible from a scope.
Visible(s) ==
    LET seen[i \in 0..Len(scopes)] ==
          IF i = 0 THEN <<>>
          ELSE LET own == scopes[i].vars
                   outer == seen[scopes[i].parent]
               IN [n \in DOMAIN own \cup DOMAIN outer |-> IF n \in DOMAIN own THEN own[n] ELSE outer[n]]
    IN seen[s]
Holder(s, name) ==
    LET holder[i \in 0..Len(scopes)] ==
          IF i = 0 THEN 0 ELSE IF name \in DOMAIN scopes[i].vars THEN i ELSE holder[scopes[i].parent]
    IN holder[s]

Top(t) == Head(threads[t])
Below1(t) == Tail(threads[t])
\* What is left of a thread's stack when its next statement is taken off.
Rest(t) == <<Block(Tail(Top(t).rest))>> \o Below1(t)
Continue(t, frames) == \E i \in Left(frames) : threads' = [threads EXCEPT ![t] = From(frames, i)]
AtStmt(t, kind) == Top(t).k = "block" /\ Head(Top(t).rest).k = kind
Stmt(t) == Head(Top(t).rest)

\* The scope a thread has entered last and not left: what the frames say, not the interpreter.
Scoped(f) == f.k \in {"rite", "salvage"}
Own(st) ==
    LET inner == {i \in DOMAIN st : Scoped(st[i])}
    IN IF inner = {} THEN st[Len(st)].base ELSE st[CHOOSE i \in inner : \A k \in inner : i <= k].own
OwnScope(t) == Own(threads[t])

\* A bug: a death wakes nobody.
Blocked_Ever(t) == IF threads[t] = <<>> THEN TRUE ELSE Top(t).k = "wait"

\* A thread that only needs its turn, and a composite whose promise has resolved.
Blocked(t) == IF threads[t] = <<>> THEN TRUE ELSE Top(t).k = "wait" /\ ~ents[Top(t).for].dead
\* A bug: one dead part is enough for AND.
Due_Any(e) == /\ ents[e].kind \in {"AND", "OR", "NOT"} /\ ~ents[e].dead
              /\ ents[e].kind # "NOT" => \E p \in Range(ents[e].parts) : ents[p].dead
Due(e) ==
    /\ ents[e].kind \in {"AND", "OR", "NOT"} /\ ~ents[e].dead
    /\ CASE ents[e].kind = "AND" -> \A p \in Range(ents[e].parts) : ents[p].dead
         [] ents[e].kind = "OR"  -> \E p \in Range(ents[e].parts) : ents[p].dead
         [] OTHER                -> TRUE

------------------------------------------------------------------------------
(* How a thread leaves its frames: by an error, by BEQUEATH.               *)

Catches(f, what) ==
    f.k \in {"branch", "program"} \cup (IF what = "error" THEN {"attempt"} ELSE {"rite"})

\* The statement throws: finally clauses give back the scope, up to the frame that catches.
Throw(t, es, what, value) ==
    LET st == threads[t]
    IN \E j \in DOMAIN st, scope \in DOMAIN scopes :
        LET f == st[j]
            outer == From(st, j + 1)
            left == {i \in 1..j : Scoped(st[i])}
        IN /\ Catches(f, what) /\ \A k \in 1..(j - 1) : ~Catches(st[k], what)
           /\ IF left = {} THEN scope = current
              ELSE \E i \in left : (\A k \in left : k <= i) /\ scope = st[i].old
           /\ \/ /\ f.k = "attempt"
                 /\ scopes' = Append(scopes, Scope(scope, Bind(<<>>, f.name, value)))
                 /\ current' = Len(scopes')
                 /\ Continue(t, <<Block(f.salvage), [k |-> "salvage", old |-> scope, own |-> Len(scopes')]>>
                                \o outer)
                 /\ ents' = es
                 /\ UNCHANGED run
              \/ /\ f.k = "rite"
                 /\ current' = scope
                 /\ threads' = [threads EXCEPT ![t] =
                       <<[k |-> "store", how |-> f.how, name |-> f.name, value |-> value]>> \o outer]
                 /\ ents' = es
                 /\ UNCHANGED <<scopes, run>>
              \/ /\ f.k = "branch"
                 /\ current' = scope
                 /\ threads' = [threads EXCEPT ![t] = <<>>]
                 /\ ents' = Completed(es, f.entity)
                 /\ UNCHANGED <<scopes, run>>
              \/ /\ f.k = "program"
                 /\ current' = scope
                 /\ threads' = [threads EXCEPT ![t] = <<>>]
                 /\ ents' = Kill(es, Named(DOMAIN names))
                 /\ run' = [run EXCEPT !.phase = "failed"]
                 /\ UNCHANGED scopes
Error == Str(<<"message">>)
Fail(t, es) == Throw(t, es, "error", Error) /\ UNCHANGED <<names, branches, pending>>

------------------------------------------------------------------------------
(* The statements.                                                         *)

\* _durationToMs.
Millis == [ms |-> 1, s |-> 1000, m |-> 60000, h |-> 3600000]

\* An import kills what had the name; only timers of at least a millisecond are supported.
ExecImport(t) ==
    /\ AtStmt(t, "import")
    /\ LET s == Stmt(t)
           ms == s.amount * Millis[s.unit]
           killed == Kill(ents, Named({s.name} \cap DOMAIN names))
       IN IF s.type = "timer" /\ ms >= 1
          THEN /\ ents' = Append(killed, Entity("timer", FALSE, ms, <<>>))
               /\ names' = Bind(names, s.name, Len(ents'))
               /\ pending' = Append(pending, [k |-> "entity", of |-> Len(ents')])
               /\ Continue(t, Rest(t))
               /\ UNCHANGED <<branches, scopes, current, run>>
          ELSE Fail(t, killed)

ExecBifurcate(t) ==
    /\ AtStmt(t, "bifurcate")
    /\ LET s == Stmt(t)
           n == Len(ents)
       IN IF s.entity \in DOMAIN names
          THEN /\ ents' = ents \o [i \in 1..2 |-> Entity("branch", FALSE, 0, <<>>)]
               /\ names' = Bind(Bind(names, s.left, n + 1), s.right, n + 2)
               /\ branches' = branches \cup {s.left, s.right}
               /\ Continue(t, Rest(t))
               /\ UNCHANGED <<scopes, current, pending, run>>
          ELSE Fail(t, ents)

\* What a loop is on, as the parser makes it: names, and composites of names and of composites
\* before them; a composite is made once the first so many of the names are read.
EntityExpr(on) ==
    /\ on.names \in Seq(Range(on.names)) /\ on.ops \in Seq(Range(on.ops))
    /\ \A i \in DOMAIN on.ops :
        LET c == on.ops[i]
        IN /\ c.op \in {"AND", "OR", "NOT"} /\ c.after \in 1..Len(on.names)
           /\ \A k \in DOMAIN c.of : c.of[k] \in 1..c.after \cup Len(on.names) + 1..Len(on.names) + i - 1
OfName(on) == on.ops = <<>> /\ on.names[1] \in branches
Resolve(on, p) == IF p <= Len(on.names) THEN names[on.names[p]] ELSE Len(ents) + p - Len(on.names)
Known(on, k) == \A i \in 1..k : on.names[i] \in DOMAIN names

\* The composites made before the first unknown name, n of them, which nothing takes back.
Made(on, n) == n \in 0..Len(on.ops) /\ \A i \in DOMAIN on.ops : i <= n <=> Known(on, on.ops[i].after)
Composites(on, n) ==
    [i \in 1..n |-> Entity(on.ops[i].op, FALSE, 0,
                           [k \in DOMAIN on.ops[i].of |-> Resolve(on, on.ops[i].of[k])])]

\* Wait mode: the body is never run.
ExecAthLoop(t) ==
    /\ AtStmt(t, "loop") /\ EntityExpr(Stmt(t).on) /\ ~OfName(Stmt(t).on)
    /\ LET on == Stmt(t).on
       IN \E n \in 0..Len(on.ops) :
           LET es == ents \o Composites(on, n)
           IN /\ Made(on, n)
              /\ pending' = pending \o [i \in 1..n |-> [k |-> "entity", of |-> Len(ents) + i]]
              /\ UNCHANGED <<names, branches>>
              /\ IF Known(on, Len(on.names))
                 THEN /\ ents' = es
                      /\ threads' = [threads EXCEPT ![t] =
                            <<[k |-> "wait", for |-> Resolve(on, Len(on.names) + n)],
                              Block(Stmt(t).execute)>> \o Rest(t)]
                      /\ UNCHANGED <<scopes, current, run>>
                 ELSE Throw(t, es, "error", Error)

\* Branch mode: the branch becomes a thread; this one lets a timeout of 0 pass.
ExecBranchMode(t) ==
    /\ AtStmt(t, "loop") /\ OfName(Stmt(t).on)
    /\ LET s == Stmt(t)
           tick == Len(ents) + 1
           all == <<Block(s.body \o s.execute),
                    [k |-> "branch", entity |-> names[s.on.names[1]], base |-> OwnScope(t)]>>
       IN /\ ents' = Append(ents, Entity("tick", FALSE, 0, <<>>))
          /\ \E i \in Left(all) :
                threads' = Append([threads EXCEPT ![t] = <<[k |-> "wait", for |-> tick]>> \o Rest(t)], From(all, i))
          /\ pending' = Append(pending, [k |-> "thread", of |-> Len(threads')])
          /\ UNCHANGED <<names, branches, scopes, current, run>>

\* ENTITY.DIE(), or the entities of a pair from left to right up to an unknown one.
ExecDie(t) ==
    /\ AtStmt(t, "die")
    /\ LET q == Stmt(t).targets
           known == {i \in DOMAIN q : \A k \in {i} \cup 1..i : q[k] \in DOMAIN names}
       IN IF known = DOMAIN q
          THEN /\ ents' = Kill(ents, Named(Range(q)))
               /\ Continue(t, Rest(t))
               /\ UNCHANGED <<names, branches, scopes, current, pending, run>>
          ELSE Fail(t, Kill(ents, Named({q[i] : i \in known})))

\* BIRTH, ENTOMB and assignments: the value is worked out here and stored in a later step.
ExecValue(t) ==
    /\ AtStmt(t, "value")
    /\ LET s == Stmt(t)
           v == Eval(s.value, Visible(current))
       IN IF v = Err THEN Fail(t, ents)
          ELSE /\ threads' = [threads EXCEPT ![t] =
                     <<[k |-> "store", how |-> s.how, name |-> s.name, value |-> v]>> \o Rest(t)]
               /\ UNCHANGED <<ents, names, branches, scopes, current, pending, run>>

\* Scope.define and Scope.set, in or from the scope that is current by now.
Define(s, name, v) == [scopes EXCEPT ![s].vars = Bind(@, name, v)]
Store(t) ==
    /\ Top(t).k = "store"
    /\ LET f == Top(t)
           h == Holder(current, f.name)
           ok == CASE f.how = "assign" -> h # 0 /\ f.name \notin scopes[h].constants
                   [] OTHER            -> TRUE
       IN IF ok
          THEN /\ scopes' = CASE f.how = "drop"   -> scopes
                              [] f.how = "assign" -> Define(h, f.name, f.value)
                              [] f.how = "birth"  -> Define(current, f.name, f.value)
                              [] f.how = "entomb" -> [Define(current, f.name, f.value) EXCEPT
                                                        ![current].constants = @ \cup {f.name}]
               /\ Continue(t, Below1(t))
               /\ UNCHANGED <<ents, names, branches, current, pending, run>>
          ELSE Fail(t, ents)

ExecRiteDef(t) ==
    /\ AtStmt(t, "rite")
    /\ LET s == Stmt(t)
       IN scopes' = [Define(current, s.name, <<"RITE", s.params, s.body, current>>) EXCEPT
                       ![current].constants = @ \cup {s.name}]
    /\ Continue(t, Rest(t))
    /\ UNCHANGED <<ents, names, branches, current, pending, run>>

\* A call of a user rite: its scope, a child of where the rite was defined, becomes current.
CallRite(t) ==
    /\ AtStmt(t, "call")
    /\ LET s == Stmt(t)
           env == Visible(current)
           args == [i \in DOMAIN s.args |-> Eval(s.args[i], env)]
           rite == env[s.rite]
       IN IF s.rite \in DOMAIN env /\ rite[1] = "RITE" /\ Len(rite[2]) = Len(args)
                                   /\ \A i \in DOMAIN args : args[i] # Err
          THEN /\ scopes' = Append(scopes, Scope(rite[4],
                               [p \in Range(rite[2]) |-> args[CHOOSE i \in DOMAIN args : rite[2][i] = p]]))
               /\ current' = Len(scopes')
               /\ Continue(t, <<Block(rite[3]), [k |-> "rite", old |-> current, own |-> Len(scopes'),
                                                 how |-> s.how, name |-> s.name]>> \o Rest(t))
               /\ UNCHANGED <<ents, names, branches, pending, run>>
          ELSE Fail(t, ents)

ExecConditional(t) ==
    /\ AtStmt(t, "should")
    /\ LET v == Eval(Stmt(t).condition, Visible(current))
       IN IF v = Err THEN Fail(t, ents)
          ELSE /\ Continue(t, <<Block(IF IsTruthy(v) THEN Stmt(t).then ELSE Stmt(t).else)>> \o Rest(t))
               /\ UNCHANGED <<ents, names, branches, scopes, current, pending, run>>

ExecAttemptSalvage(t) ==
    /\ AtStmt(t, "attempt")
    /\ Continue(t, <<Block(Stmt(t).body),
                     [k |-> "attempt", name |-> Stmt(t).name, salvage |-> Stmt(t).salvage]>> \o Rest(t))
    /\ UNCHANGED <<ents, names, branches, scopes, current, pending, run>>

ExecCondemn(t) ==
    /\ AtStmt(t, "condemn")
    /\ LET v == Eval(Stmt(t).message, Visible(current))
       IN Throw(t, ents, "error", IF v = Err THEN Error ELSE Str(Text(v)))
    /\ UNCHANGED <<names, branches, pending>>

ExecBequeath(t) ==
    /\ AtStmt(t, "bequeath")
    /\ LET v == Eval(Stmt(t).value, Visible(current))
       IN IF v = Err THEN Fail(t, ents)
          ELSE Throw(t, ents, "return", v) /\ UNCHANGED <<names, branches, pending>>

------------------------------------------------------------------------------
(* The ends of frames, and the event loop.                                 *)

Resume(t) ==
    /\ Top(t).k = "wait"
    /\ Continue(t, Below1(t))
    /\ UNCHANGED <<ents, names, branches, scopes, current, pending, run>>

\* A rite without BEQUEATH gives VOID; a SALVAGE gives back the scope.
LeaveRite(t) ==
    /\ Top(t).k = "rite"
    /\ current' = Top(t).old
    /\ threads' = [threads EXCEPT ![t] =
          <<[k |-> "store", how |-> Top(t).how, name |-> Top(t).name, value |-> Void]>> \o Below1(t)]
    /\ UNCHANGED <<ents, names, branches, scopes, pending, run>>
\* A bug: the scope of the handler stays current.
LeaveSalvage_Stays(t) ==
    /\ Top(t).k = "salvage"
    /\ Continue(t, Below1(t))
    /\ UNCHANGED <<ents, names, branches, scopes, current, pending, run>>
LeaveSalvage(t) ==
    /\ Top(t).k = "salvage"
    /\ current' = Top(t).old
    /\ Continue(t, Below1(t))
    /\ UNCHANGED <<ents, names, branches, scopes, pending, run>>

\* A bug: the branches of a bifurcation end together.
FinishBranch_All(t) ==
    /\ Top(t).k = "branch"
    /\ ents' = Kill(ents, {e \in DOMAIN ents : ents[e].kind = "branch"})
    /\ threads' = [threads EXCEPT ![t] = <<>>]
    /\ UNCHANGED <<names, branches, scopes, current, pending, run>>
FinishBranch(t) ==
    /\ Top(t).k = "branch"
    /\ ents' = Completed(ents, Top(t).entity)
    /\ threads' = [threads EXCEPT ![t] = <<>>]
    /\ UNCHANGED <<names, branches, scopes, current, pending, run>>

\* The statements of the program are done: allSettled takes the promises there are now.
FinishProgram(t) ==
    /\ Top(t).k = "program"
    /\ run' = [phase |-> "settling", awaited |-> Len(pending)]
    /\ threads' = [threads EXCEPT ![t] = <<>>]
    /\ UNCHANGED <<ents, names, branches, scopes, current, pending>>

\* Whether a promise is settled, and whether all are that run waits for.
Settled(p) == IF p.k = "entity" THEN ents[p.of].dead ELSE threads[p.of] = <<>>
AllSettled == run.phase = "settling" /\ \A i \in 1..run.awaited : Settled(pending[i])
End ==
    /\ AllSettled
    /\ run' = [run EXCEPT !.phase = "ended"]
    /\ ents' = Kill(ents, Named(DOMAIN names))
    /\ UNCHANGED <<names, branches, scopes, current, threads, pending>>

CompositeDies(e) ==
    /\ Due(e)
    /\ ents' = Kill(ents, {e})
    /\ UNCHANGED <<names, branches, scopes, current, threads, pending, run>>

\* Timeouts come when nothing else can run, a shorter one set earlier before a longer one.
Idle == /\ \A t \in DOMAIN threads : Blocked(t)
        /\ \A e \in DOMAIN ents : ~Due(e)
        /\ ~AllSettled
Running(e) == ents[e].kind \in {"timer", "tick"} /\ ~ents[e].dead
First(e) == Running(e) /\ \A d \in 1..(e - 1) : Running(d) => ents[d].ms > ents[e].ms
Fire(e) ==
    /\ First(e) /\ Idle
    /\ ents' = Kill(ents, {e})
    /\ UNCHANGED <<names, branches, scopes, current, threads, pending, run>>

Step(t) ==
    \/ ExecImport(t) \/ ExecBifurcate(t) \/ ExecAthLoop(t) \/ ExecBranchMode(t) \/ ExecDie(t)
    \/ ExecValue(t) \/ Store(t) \/ ExecRiteDef(t) \/ CallRite(t) \/ ExecConditional(t)
    \/ ExecAttemptSalvage(t) \/ ExecCondemn(t) \/ ExecBequeath(t)
    \/ Resume(t) \/ LeaveRite(t) \/ LeaveSalvage(t) \/ FinishBranch(t) \/ FinishProgram(t)

AthNext ==
    \/ \E t \in DOMAIN threads : ~Blocked(t) /\ Step(t)
    \/ \E e \in DOMAIN ents : CompositeDies(e) \/ Fire(e)
    \/ End
\* One thread steps at a time, and whatever can go on does in the end: the event loop.
AthSpec == AthInit /\ [][AthNext]_athVars /\ WF_athVars(AthNext)

------------------------------------------------------------------------------
(* What it should do.                                                      *)

\* As long as the program has no branches, the current scope is that of the innermost rite or
\* SALVAGE it has entered and not left, or else the global one, whatever errors, BEQUEATHs and
\* waits it went through.  (No EXECUTE block has a scope: the language's description gives each
\* its own, the interpreter runs it in that of the statements around the loop.)
SequentialScope == (Len(threads) = 1 /\ threads[1] # <<>>) => current = OwnScope(1)

\* A composite that died had its reason: all, or one, of its parts dead before it.
CompositeSound ==
    \A e \in DOMAIN ents : ents[e].dead =>
        CASE ents[e].kind = "AND" -> \A p \in Range(ents[e].parts) : ents[p].dead
          [] ents[e].kind = "OR"  -> \E p \in Range(ents[e].parts) : ents[p].dead
          [] OTHER                -> TRUE

\* A branch dies by finishing or failing itself, by its name being put to death or imported
\* anew, or with the whole program: never because a sibling ended.
BranchThread(e) == {t \in DOMAIN threads : threads[t] # <<>> /\ threads[t][Len(threads[t])].k = "branch"
                                           /\ threads[t][Len(threads[t])].entity = e}
PutToDeath(e) ==
    \E t \in DOMAIN threads : threads[t] # <<>> /\
        \/ AtStmt(t, "die") /\ \E i \in DOMAIN Stmt(t).targets :
                Stmt(t).targets[i] \in DOMAIN names /\ names[Stmt(t).targets[i]] = e
        \/ AtStmt(t, "import") /\ Stmt(t).name \in DOMAIN names /\ names[Stmt(t).name] = e
SiblingsSurvive ==
    [][\A e \in DOMAIN ents : (ents[e].kind = "branch" /\ ~ents[e].dead /\ ents'[e].dead) =>
          \/ run'.phase \in {"ended", "failed"}
          \/ \E t \in BranchThread(e) : threads'[t] = <<>>
          \/ PutToDeath(e)]_athVars

\* What is made of timers dies, and no thread waits for it any more; until then something can
\* go on, if only a timer.
MadeOfTimers(es, f, i) ==
    CASE es[i].kind \in {"timer", "tick", "NOT"} -> TRUE
      [] es[i].kind = "AND" -> \A p \in Range(es[i].parts) : f[p]
      [] es[i].kind = "OR"  -> \E p \in Range(es[i].parts) : f[p]
      [] OTHER -> FALSE
FromTimers(e) == LET f[i \in 1..e] == MadeOfTimers(ents, f, i) IN f[e]
WaitedFor(e) == \E t \in DOMAIN threads : threads[t] # <<>> /\ Top(t).k = "wait" /\ Top(t).for = e
NeverStuck ==
    Idle => \A e \in DOMAIN ents : FromTimers(e) /\ ~ents[e].dead => \E d \in DOMAIN ents : First(d)
EveryTimerEnds ==
    []NeverStuck /\ \A e \in 1..MaxEntities :
        (e \in DOMAIN ents /\ FromTimers(e)) ~> (e \in DOMAIN ents /\ ents[e].dead /\ ~WaitedFor(e))

\* Variables declared inside a rite are local to it: what a thread declares or assigns goes by
\* the scope of the innermost rite or SALVAGE that the thread itself is inside of.
LocalsStayLocal == \A t \in DOMAIN threads : (threads[t] # <<>> /\ Top(t).k = "store") => current = OwnScope(t)
================================================================================
