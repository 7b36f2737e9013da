--------------------------- MODULE AthRuntime_proofs ---------------------------
(***************************************************************************)
(* What holds of every run of every program of the interpreter: composites *)
(* die for a reason, branches on their own, and a program without branches *)
(* is always in the scope of the innermost rite or SALVAGE it is in.  The  *)
(* threads' stacks hold frames of all kinds, values and statements of any  *)
(* form: IsSeq says of a stack that it is a sequence, of whatever.         *)
(***************************************************************************)
EXTENDS AthRuntime, NaturalsInduction, WellFoundedInduction, TLAPS

\* A sequence of anything.
IsSeq(q) == q \in Seq({q[i] : i \in DOMAIN q})

\* The invariant.  A composite that died had a reason, which stays one as the dead stay dead;
\* names never stand for a composite, so that nothing but its reason puts one to death; the
\* frame of the program or the branch is the last of its stack, and only that one; and each
\* frame that keeps a scope keeps the one that the frames around it stand in.
Composite == {"AND", "OR", "NOT"}
Reason(es, e) ==
    CASE es[e].kind = "AND" -> \A p \in Range(es[e].parts) : es[p].dead
      [] es[e].kind = "OR"  -> \E p \in Range(es[e].parts) : es[p].dead
      [] OTHER              -> TRUE
Whole(es) ==
    /\ IsSeq(es)
    /\ \A e \in DOMAIN es :
          /\ DOMAIN es[e] = {"kind", "dead", "ms", "parts"} /\ es[e].dead \in BOOLEAN
          /\ Range(es[e].parts) \subseteq 1..(e - 1)
          /\ es[e].dead => Reason(es, e)
NamesOf(es, nm) == \A n \in DOMAIN nm : nm[n] \in DOMAIN es /\ es[nm[n]].kind \notin Composite
Based(st) ==
    IsSeq(st) /\ (st # <<>> => \A i \in DOMAIN st : st[i].k \in {"branch", "program"} <=> i = Len(st))
Stacks(th) == IsSeq(th) /\ \A t \in DOMAIN th : Based(th[t])
Nested(st) == \A i \in DOMAIN st : Scoped(st[i]) => st[i].old = Own(From(st, i + 1))
InScope(th, c) == (Len(th) = 1 /\ th[1] # <<>>) => Nested(th[1]) /\ c = Own(th[1])
AthInv ==
    /\ Whole(ents) /\ NamesOf(ents, names)
    /\ Stacks(threads) /\ InScope(threads, current)
    /\ DOMAIN run = {"phase", "awaited"}

------------------------------------------------------------------------------
(* Sequences of anything.                                                  *)

LEMMA SeqFacts ==
    ASSUME NEW q, IsSeq(q)
    PROVE  /\ Len(q) \in Nat /\ DOMAIN q = 1..Len(q)
           /\ q = <<>> <=> Len(q) = 0
  BY DEF IsSeq

LEMMA MakeSeq ==
    ASSUME NEW n \in Nat, NEW q, q = [i \in 1..n |-> q[i]]
    PROVE  IsSeq(q) /\ Len(q) = n
  BY DEF IsSeq

LEMMA IsASeq ==
    ASSUME NEW S, NEW q \in Seq(S)
    PROVE  IsSeq(q)
  <1>1. PICK n \in Nat : n = Len(q)
    OBVIOUS
  <1>2. q = [i \in 1..n |-> q[i]]
    BY <1>1
  <1> QED BY <1>2, MakeSeq

LEMMA JoinFacts ==
    ASSUME NEW p, NEW q, IsSeq(p), IsSeq(q)
    PROVE  /\ IsSeq(p \o q) /\ Len(p \o q) = Len(p) + Len(q)
           /\ \A i \in 1..Len(p) : (p \o q)[i] = p[i]
           /\ \A i \in 1..Len(q) : (p \o q)[Len(p) + i] = q[i]
  <1> DEFINE S == {p[i] : i \in DOMAIN p} \cup {q[i] : i \in DOMAIN q}
  <1>1. p \in Seq(S) /\ q \in Seq(S)
    BY DEF IsSeq
  <1>2. p \o q \in Seq(S) /\ Len(p \o q) = Len(p) + Len(q)
    BY <1>1
  <1>3. \A i \in 1..Len(p) : (p \o q)[i] = p[i]
    BY <1>1
  <1>4. \A i \in 1..Len(q) : (p \o q)[Len(p) + i] = q[i]
    BY <1>1
  <1>5. IsSeq(p \o q)
    BY <1>2, IsASeq
  <1> QED BY <1>2, <1>3, <1>4, <1>5

LEMMA PushFacts ==
    ASSUME NEW f, NEW q, IsSeq(q)
    PROVE  /\ IsSeq(<<f>> \o q) /\ Len(<<f>> \o q) = Len(q) + 1
           /\ (<<f>> \o q)[1] = f
           /\ \A i \in 1..Len(q) : (<<f>> \o q)[i + 1] = q[i]
  <1>1. IsSeq(<<f>>) /\ Len(<<f>>) = 1 /\ <<f>>[1] = f
    BY DEF IsSeq
  <1>2. Len(q) \in Nat
    BY SeqFacts
  <1> QED BY <1>1, <1>2, JoinFacts

LEMMA FromFacts ==
    ASSUME NEW q, IsSeq(q), NEW i \in 1..(Len(q) + 1)
    PROVE  /\ IsSeq(From(q, i)) /\ Len(From(q, i)) = Len(q) - i + 1
           /\ \A k \in 1..(Len(q) - i + 1) : From(q, i)[k] = q[i + k - 1]
  <1>1. Len(q) \in Nat
    BY SeqFacts
  <1> DEFINE n == Len(q) - i + 1
             r == From(q, i)
  <1>2. n \in Nat
    BY <1>1
  <1>3. r = [k \in 1..n |-> q[i + k - 1]]
    BY <1>1 DEF From
  <1>4. \A k \in 1..n : r[k] = q[i + k - 1]
    BY <1>3
  <1>5. r = [k \in 1..n |-> r[k]]
    BY <1>3, <1>4
  <1>6. IsSeq(r) /\ Len(r) = n
    BY <1>2, <1>5, MakeSeq
  <1> QED BY <1>4, <1>6

LEMMA SameSeq ==
    ASSUME NEW p, NEW q, IsSeq(p), IsSeq(q), Len(p) = Len(q), \A i \in 1..Len(p) : p[i] = q[i]
    PROVE  p = q
  <1>1. p = [i \in 1..Len(p) |-> p[i]] /\ q = [i \in 1..Len(p) |-> q[i]]
    BY DEF IsSeq
  <1> QED BY <1>1

LEMMA FromFrom ==
    ASSUME NEW q, IsSeq(q), NEW i \in 1..Len(q), NEW j \in 1..(Len(q) - i + 2)
    PROVE  From(From(q, i), j) = From(q, i + j - 1)
  <1>1. Len(q) \in Nat
    BY SeqFacts
  <1> DEFINE p == From(q, i)
  <1>2. IsSeq(p) /\ Len(p) = Len(q) - i + 1 /\ \A k \in 1..(Len(q) - i + 1) : p[k] = q[i + k - 1]
    BY <1>1, FromFacts
  <1>3. /\ IsSeq(From(p, j)) /\ Len(From(p, j)) = Len(p) - j + 1
        /\ \A k \in 1..(Len(p) - j + 1) : From(p, j)[k] = p[j + k - 1]
    <2>1. j \in 1..(Len(p) + 1)
      BY <1>1, <1>2
    <2> HIDE DEF p
    <2> QED BY <2>1, <1>2, FromFacts
  <1> DEFINE m == i + j - 1
  <1>4. m \in 1..(Len(q) + 1)
    BY <1>1
  <1>5. /\ IsSeq(From(q, m)) /\ Len(From(q, m)) = Len(q) - m + 1
        /\ \A k \in 1..(Len(q) - m + 1) : From(q, m)[k] = q[m + k - 1]
    <2> HIDE DEF m
    <2> QED BY <1>4, FromFacts
  <1>6. Len(From(p, j)) = Len(From(q, m))
    BY <1>1, <1>2, <1>3, <1>5
  <1>7. ASSUME NEW k \in 1..Len(From(q, m)) PROVE From(p, j)[k] = From(q, m)[k]
    <2>1. k \in 1..(Len(p) - j + 1) /\ k \in 1..(Len(q) - m + 1) /\ j + k - 1 \in 1..(Len(q) - i + 1)
      BY <1>1, <1>2, <1>5
    <2>2. From(p, j)[k] = q[i + (j + k - 1) - 1]
      BY <2>1, <1>2, <1>3
    <2>3. From(q, m)[k] = q[m + k - 1]
      BY <2>1, <1>5
    <2>4. i + (j + k - 1) - 1 = m + k - 1
      BY <2>1, <1>1
    <2> QED BY <2>2, <2>3, <2>4
  <1> HIDE DEF p, m
  <1>8. From(p, j) = From(q, m)
    BY <1>3, <1>5, <1>6, <1>7, SameSeq
  <1> QED BY <1>8 DEF p, m

\* Below a frame just put on a stack lies the stack.
LEMMA FromPush ==
    ASSUME NEW f, NEW q, IsSeq(q), NEW i \in 1..(Len(q) + 1)
    PROVE  From(<<f>> \o q, i + 1) = From(q, i)
  <1> DEFINE p == <<f>> \o q
  <1>1. /\ Len(q) \in Nat /\ IsSeq(p) /\ Len(p) = Len(q) + 1
        /\ \A k \in 1..Len(q) : p[k + 1] = q[k]
    BY SeqFacts, PushFacts
  <1> HIDE DEF p
  <1>2. i + 1 \in 1..(Len(p) + 1)
    BY <1>1
  <1>3. /\ IsSeq(From(p, i + 1)) /\ Len(From(p, i + 1)) = Len(p) - (i + 1) + 1
        /\ \A k \in 1..(Len(p) - (i + 1) + 1) : From(p, i + 1)[k] = p[(i + 1) + k - 1]
    BY <1>1, <1>2, FromFacts
  <1>4. /\ IsSeq(From(q, i)) /\ Len(From(q, i)) = Len(q) - i + 1
        /\ \A k \in 1..(Len(q) - i + 1) : From(q, i)[k] = q[i + k - 1]
    BY FromFacts
  <1>5. Len(From(p, i + 1)) = Len(From(q, i))
    BY <1>1, <1>3, <1>4
  <1>6. ASSUME NEW k \in 1..Len(From(q, i)) PROVE From(p, i + 1)[k] = From(q, i)[k]
    <2>1. k \in 1..(Len(q) - i + 1) /\ k \in 1..(Len(p) - (i + 1) + 1) /\ i + k - 1 \in 1..Len(q)
      BY <1>1, <1>4
    <2>2. p[(i + k - 1) + 1] = q[i + k - 1] /\ (i + k - 1) + 1 = (i + 1) + k - 1
      BY <2>1, <1>1
    <2> QED BY <2>1, <2>2, <1>3, <1>4
  <1> QED BY <1>3, <1>4, <1>5, <1>6, SameSeq DEF p

LEMMA FromOne ==
    ASSUME NEW q, IsSeq(q)
    PROVE  From(q, 1) = q
  <1>1. Len(q) \in Nat /\ 1 \in 1..(Len(q) + 1)
    BY SeqFacts
  <1>2. /\ IsSeq(From(q, 1)) /\ Len(From(q, 1)) = Len(q) - 1 + 1
        /\ \A k \in 1..(Len(q) - 1 + 1) : From(q, 1)[k] = q[1 + k - 1]
    BY <1>1, FromFacts
  <1>3. Len(q) - 1 + 1 = Len(q) /\ \A k \in 1..Len(q) : 1 + k - 1 = k
    BY <1>1
  <1> QED BY <1>2, <1>3, SameSeq

LEMMA TailFacts ==
    ASSUME NEW q, IsSeq(q), q # <<>>
    PROVE  Tail(q) = From(q, 2) /\ Head(q) = q[1] /\ Len(q) \in Nat /\ Len(q) >= 1
  BY SeqFacts DEF IsSeq, From

LEMMA PushTwo ==
    ASSUME NEW f, NEW g, NEW q, IsSeq(q)
    PROVE  <<f, g>> \o q = <<f>> \o (<<g>> \o q)
  <1>1. IsSeq(<<f, g>>) /\ Len(<<f, g>>) = 2 /\ <<f, g>>[1] = f /\ <<f, g>>[2] = g
    BY DEF IsSeq
  <1>2. Len(q) \in Nat
    BY SeqFacts
  <1> DEFINE r == <<g>> \o q
             p == <<f, g>> \o q
             z == <<f>> \o r
  <1>3. IsSeq(r) /\ Len(r) = Len(q) + 1 /\ r[1] = g /\ \A i \in 1..Len(q) : r[i + 1] = q[i]
    BY PushFacts
  <1>4. IsSeq(p) /\ Len(p) = 2 + Len(q) /\ p[1] = f /\ p[2] = g /\ \A i \in 1..Len(q) : p[2 + i] = q[i]
    BY <1>1, <1>2, JoinFacts
  <1> HIDE DEF r
  <1>5. IsSeq(z) /\ Len(z) = Len(r) + 1 /\ z[1] = f /\ \A i \in 1..Len(r) : z[i + 1] = r[i]
    BY <1>3, PushFacts
  <1> HIDE DEF p, z
  <1>6. Len(p) = Len(z)
    BY <1>2, <1>3, <1>4, <1>5
  <1>7. ASSUME NEW k \in 1..Len(p) PROVE p[k] = z[k]
    <2>1. CASE k = 1
      BY <2>1, <1>4, <1>5
    <2>2. CASE k = 2
      <3>1. 1 \in 1..Len(r) /\ 1 + 1 = 2
        BY <1>2, <1>3
      <3> QED BY <2>2, <3>1, <1>3, <1>4, <1>5
    <2>3. CASE k # 1 /\ k # 2
      <3>1. k - 2 \in 1..Len(q) /\ k - 1 \in 1..Len(r) /\ 2 + (k - 2) = k /\ (k - 1) + 1 = k
            /\ (k - 2) + 1 = k - 1
        BY <2>3, <1>2, <1>3, <1>4
      <3> QED BY <3>1, <1>3, <1>4, <1>5
    <2> QED BY <2>1, <2>2, <2>3
  <1>8. p = z
    BY <1>4, <1>5, <1>6, <1>7, SameSeq
  <1> QED BY <1>8 DEF p, z, r

LEMMA Least ==
    ASSUME NEW n \in Nat, NEW S, S \subseteq 1..n, S # {}
    PROVE  \E i \in S : \A k \in S : i <= k
  <1>1. S \subseteq Nat
    OBVIOUS
  <1>2. PICK i \in S : \A k \in S : ~(<<k, i>> \in OpToRel(<, Nat))
    BY <1>1, NatLessThanWellFounded, WFMin
  <1>3. ASSUME NEW k \in S, ~(i <= k) PROVE FALSE
    <2>1. <<k, i>> \in OpToRel(<, Nat)
      BY <1>1, <1>3 DEF OpToRel
    <2> QED BY <2>1, <1>2
  <1> QED BY <1>1, <1>3

\* Induction over the naturals, for a set in place of a predicate.
LEMMA SetInduction ==
    ASSUME NEW S, 0 \in S, \A n \in Nat : n \in S => n + 1 \in S
    PROVE  \A n \in Nat : n \in S
  <1> SUFFICES ASSUME NEW m \in Nat, m \notin S PROVE FALSE
    OBVIOUS
  <1> DEFINE T == {n \in 1..m : n \notin S}
  <1>1. T \subseteq 1..m /\ T # {}
    <2>1. m # 0 /\ m \in 1..m
      OBVIOUS
    <2> QED BY <2>1
  <1> HIDE DEF T
  <1>2. PICK x \in T : \A y \in T : x <= y
    BY <1>1, Least
  <1>3. x \in 1..m /\ x \notin S
    BY <1>2 DEF T
  <1>4. x - 1 \in Nat /\ x - 1 \notin S
    <2>1. x - 1 \in Nat /\ (x - 1) + 1 = x
      BY <1>3
    <2> QED BY <1>3, <2>1
  <1>5. x - 1 # 0 /\ x - 1 \in 1..m
    BY <1>3, <1>4
  <1>6. x - 1 \in T
    BY <1>4, <1>5 DEF T
  <1> QED BY <1>2, <1>3, <1>6

LEMMA Greatest ==
    ASSUME NEW n \in Nat, NEW S, S \subseteq 1..n, S # {}
    PROVE  \E i \in S : \A k \in S : k <= i
  <1> DEFINE T == {m \in 0..n : n - m \in S}
  <1>1. T \subseteq Nat /\ T # {}
    <2>1. PICK i \in S : TRUE
      OBVIOUS
    <2>2. n - i \in 0..n /\ n - (n - i) = i
      BY <2>1
    <2>3. n - i \in T
      BY <2>1, <2>2
    <2>4. T \subseteq Nat
      OBVIOUS
    <2> QED BY <2>3, <2>4
  <1>2. PICK j \in T : \A k \in T : ~(<<k, j>> \in OpToRel(<, Nat))
    <2> HIDE DEF T
    <2> QED BY <1>1, NatLessThanWellFounded, WFMin
  <1>3. ASSUME NEW k \in S, ~(k <= n - j) PROVE FALSE
    <2>1. n - k \in 0..n /\ n - (n - k) = k /\ n - k < j
      BY <1>1, <1>3
    <2>2. n - k \in T
      BY <2>1
    <2>3. <<n - k, j>> \in OpToRel(<, Nat)
      BY <1>1, <2>1, <2>2 DEF OpToRel
    <2> QED BY <1>2, <2>2, <2>3
  <1> QED BY <1>3

------------------------------------------------------------------------------
(* The stack of a thread, and the scopes its frames keep.                  *)

LEMMA OwnAt ==
    ASSUME NEW st, NEW i \in DOMAIN st, IsSeq(st), Scoped(st[i]),
           \A k \in 1..(i - 1) : ~Scoped(st[k])
    PROVE  Own(st) = st[i].own
  <1> DEFINE inner == {k \in DOMAIN st : Scoped(st[k])}
  <1>1. DOMAIN st = 1..Len(st) /\ Len(st) \in Nat
    BY SeqFacts
  <1>2. i \in inner /\ \A k \in inner : i <= k
    BY <1>1
  <1>3. \A m \in inner : (\A k \in inner : m <= k) => m = i
    BY <1>1, <1>2
  <1>4. (CHOOSE m \in inner : \A k \in inner : m <= k) = i
    <2> HIDE DEF inner
    <2> QED BY <1>2, <1>3
  <1>5. inner # {}
    BY <1>2
  <1> QED BY <1>4, <1>5 DEF Own

LEMMA OwnBase ==
    ASSUME NEW st, \A k \in DOMAIN st : ~Scoped(st[k])
    PROVE  Own(st) = st[Len(st)].base
  BY DEF Own

\* A stack that loses frames which keep no scope stands in the same one.
LEMMA OwnDrop ==
    ASSUME NEW st, IsSeq(st), NEW i \in 1..Len(st), \A k \in 1..(i - 1) : ~Scoped(st[k])
    PROVE  Own(From(st, i)) = Own(st)
  <1> DEFINE q == From(st, i)
             S == {k \in DOMAIN st : Scoped(st[k])}
  <1>1. DOMAIN st = 1..Len(st) /\ Len(st) \in Nat
    BY SeqFacts
  <1>2. IsSeq(q) /\ Len(q) = Len(st) - i + 1 /\ \A k \in 1..(Len(st) - i + 1) : q[k] = st[i + k - 1]
    BY <1>1, FromFacts
  <1> HIDE DEF q
  <1>3. DOMAIN q = 1..Len(q)
    BY <1>2, SeqFacts
  <1>4. CASE S = {}
    <2>1. Own(st) = st[Len(st)].base
      BY <1>4, OwnBase
    <2>2. ASSUME NEW k \in DOMAIN q PROVE ~Scoped(q[k])
      <3>1. q[k] = st[i + k - 1] /\ i + k - 1 \in DOMAIN st
        BY <1>1, <1>2, <1>3
      <3> QED BY <3>1, <1>4
    <2>3. Own(q) = q[Len(q)].base
      BY <2>2, OwnBase
    <2>4. Len(q) \in 1..(Len(st) - i + 1) /\ i + Len(q) - 1 = Len(st)
      BY <1>1, <1>2
    <2>5. q[Len(q)] = st[Len(st)]
      BY <2>4, <1>2
    <2> QED BY <2>1, <2>3, <2>5 DEF q
  <1>5. CASE S # {}
    <2>1. PICK m \in S : \A k \in S : m <= k
      BY <1>5, <1>1, Least
    <2>2. m \in DOMAIN st /\ Scoped(st[m]) /\ m >= i /\ \A k \in 1..(m - 1) : ~Scoped(st[k])
      BY <1>1, <2>1
    <2>3. Own(st) = st[m].own
      BY <2>2, OwnAt
    <2> DEFINE n == m - i + 1
    <2>4. n \in DOMAIN q /\ n \in 1..(Len(st) - i + 1) /\ i + n - 1 = m
      BY <1>1, <1>2, <1>3, <2>2
    <2>5. q[n] = st[m]
      BY <2>4, <1>2
    <2>6. ASSUME NEW k \in 1..(n - 1) PROVE ~Scoped(q[k])
      <3>1. k \in 1..(Len(st) - i + 1) /\ i + k - 1 \in 1..(m - 1)
        BY <1>1, <2>2, <2>4
      <3> QED BY <3>1, <1>2, <2>2
    <2> HIDE DEF n
    <2>7. Own(q) = q[n].own
      BY <2>2, <2>4, <2>5, <2>6, <1>2, OwnAt
    <2> QED BY <2>3, <2>5, <2>7 DEF q
  <1> QED BY <1>4, <1>5

LEMMA OwnPush ==
    ASSUME NEW f, NEW q, IsSeq(q), q # <<>>
    PROVE  Own(<<f>> \o q) = IF Scoped(f) THEN f.own ELSE Own(q)
  <1> DEFINE p == <<f>> \o q
  <1>1. Len(q) \in Nat /\ Len(q) # 0
    BY SeqFacts
  <1>2. IsSeq(p) /\ Len(p) = Len(q) + 1 /\ p[1] = f
    BY PushFacts
  <1>3. From(p, 1 + 1) = From(q, 1) /\ From(q, 1) = q
    BY <1>1, FromPush, FromOne
  <1> HIDE DEF p
  <1>4. DOMAIN p = 1..Len(p) /\ 1 \in DOMAIN p /\ 2 \in 1..Len(p) /\ 1 + 1 = 2
    BY <1>1, <1>2, SeqFacts
  <1>5. CASE Scoped(f)
    <2>1. \A k \in 1..(1 - 1) : ~Scoped(p[k])
      OBVIOUS
    <2> QED BY <1>2, <1>4, <1>5, <2>1, OwnAt DEF p
  <1>6. CASE ~Scoped(f)
    <2>1. \A k \in 1..(2 - 1) : ~Scoped(p[k])
      BY <1>2, <1>6
    <2>2. Own(From(p, 2)) = Own(p)
      BY <1>2, <1>4, <2>1, OwnDrop
    <2> QED BY <2>2, <1>3, <1>4, <1>6 DEF p
  <1> QED BY <1>5, <1>6

LEMMA NestedFrom ==
    ASSUME NEW st, IsSeq(st), Nested(st), NEW i \in 1..Len(st)
    PROVE  Nested(From(st, i))
  <1> DEFINE q == From(st, i)
  <1>1. DOMAIN st = 1..Len(st) /\ Len(st) \in Nat
    BY SeqFacts
  <1>2. IsSeq(q) /\ Len(q) = Len(st) - i + 1 /\ \A k \in 1..(Len(st) - i + 1) : q[k] = st[i + k - 1]
    BY <1>1, FromFacts
  <1> SUFFICES ASSUME NEW k \in DOMAIN q, Scoped(q[k])
               PROVE  q[k].old = Own(From(q, k + 1))
    BY DEF Nested
  <1>3. k \in 1..(Len(st) - i + 1)
    <2> HIDE DEF q
    <2> QED BY <1>2, SeqFacts
  <1> DEFINE m == i + k - 1
  <1>4. q[k] = st[m] /\ m \in DOMAIN st /\ k + 1 \in 1..(Len(st) - i + 2) /\ i + (k + 1) - 1 = m + 1
    <2>1. q[k] = st[m]
      <3> HIDE DEF q
      <3> QED BY <1>2, <1>3
    <2>2. m \in DOMAIN st /\ k + 1 \in 1..(Len(st) - i + 2) /\ i + (k + 1) - 1 = m + 1
      <3> HIDE DEF q
      <3> QED BY <1>1, <1>3
    <2> QED BY <2>1, <2>2
  <1>5. From(q, k + 1) = From(st, i + (k + 1) - 1)
    BY <1>4, FromFrom
  <1>6. st[m].old = Own(From(st, m + 1))
    <2> HIDE DEF q, m
    <2> QED BY <1>4 DEF Nested
  <1> HIDE DEF m, q
  <1> QED BY <1>4, <1>5, <1>6

LEMMA NestedPush ==
    ASSUME NEW f, NEW q, IsSeq(q), q # <<>>, Nested(q), Scoped(f) => f.old = Own(q)
    PROVE  Nested(<<f>> \o q)
  <1> DEFINE p == <<f>> \o q
  <1>1. DOMAIN q = 1..Len(q) /\ Len(q) \in Nat
    BY SeqFacts
  <1>2. IsSeq(p) /\ Len(p) = Len(q) + 1 /\ p[1] = f /\ \A k \in 1..Len(q) : p[k + 1] = q[k]
    BY PushFacts
  <1> SUFFICES ASSUME NEW k \in DOMAIN p, Scoped(p[k])
               PROVE  p[k].old = Own(From(p, k + 1))
    BY DEF Nested
  <1>3. k \in 1..(Len(q) + 1)
    <2> HIDE DEF p
    <2> QED BY <1>2, SeqFacts
  <1>4. From(p, k + 1) = From(q, k)
    BY <1>3, FromPush
  <1> HIDE DEF p
  <1>5. CASE k = 1
    BY <1>2, <1>4, <1>5, FromOne
  <1>6. CASE k # 1
    <2>1. k - 1 \in DOMAIN q /\ (k - 1) + 1 = k
      BY <1>1, <1>3, <1>6
    <2>2. p[k] = q[k - 1]
      BY <1>1, <1>2, <2>1
    <2>3. q[k - 1].old = Own(From(q, (k - 1) + 1))
      BY <2>1, <2>2 DEF Nested
    <2> QED BY <1>4, <2>1, <2>2, <2>3
  <1> QED BY <1>5, <1>6

Bottom == {"branch", "program"}

LEMMA BasedFrom ==
    ASSUME NEW st, Based(st), NEW i \in 1..Len(st)
    PROVE  Based(From(st, i)) /\ From(st, i) # <<>>
  <1> DEFINE q == From(st, i)
  <1>1. IsSeq(st) /\ DOMAIN st = 1..Len(st) /\ Len(st) \in Nat
    BY SeqFacts DEF Based
  <1>2. IsSeq(q) /\ Len(q) = Len(st) - i + 1 /\ \A k \in 1..(Len(st) - i + 1) : q[k] = st[i + k - 1]
    BY <1>1, FromFacts
  <1>3. st # <<>>
    BY <1>1, SeqFacts
  <1> HIDE DEF q
  <1>4. DOMAIN q = 1..Len(q) /\ q # <<>>
    BY <1>1, <1>2, SeqFacts
  <1>5. ASSUME NEW k \in DOMAIN q PROVE q[k].k \in {"branch", "program"} <=> k = Len(q)
    <2>1. q[k] = st[i + k - 1] /\ i + k - 1 \in DOMAIN st /\ (i + k - 1 = Len(st) <=> k = Len(q))
      BY <1>1, <1>2, <1>4
    <2> QED BY <2>1, <1>3 DEF Based
  <1> QED BY <1>2, <1>4, <1>5 DEF q, Based

LEMMA BasedPush ==
    ASSUME NEW f, NEW q, Based(q), q # <<>>, f.k \notin Bottom
    PROVE  Based(<<f>> \o q) /\ <<f>> \o q # <<>>
  <1> DEFINE p == <<f>> \o q
  <1>1. IsSeq(q) /\ DOMAIN q = 1..Len(q) /\ Len(q) \in Nat /\ Len(q) # 0
    BY SeqFacts DEF Based
  <1>2. IsSeq(p) /\ Len(p) = Len(q) + 1 /\ p[1] = f /\ \A k \in 1..Len(q) : p[k + 1] = q[k]
    BY <1>1, PushFacts
  <1> HIDE DEF p
  <1>3. DOMAIN p = 1..Len(p) /\ p # <<>>
    BY <1>1, <1>2, SeqFacts
  <1>4. ASSUME NEW k \in DOMAIN p PROVE p[k].k \in {"branch", "program"} <=> k = Len(p)
    <2>1. CASE k = 1
      BY <2>1, <1>1, <1>2 DEF Bottom
    <2>2. CASE k # 1
      <3>1. k - 1 \in DOMAIN q /\ (k - 1) + 1 = k /\ (k - 1 = Len(q) <=> k = Len(p))
        BY <2>2, <1>1, <1>2, <1>3
      <3>2. p[k] = q[k - 1]
        BY <3>1, <1>1, <1>2
      <3> QED BY <3>1, <3>2 DEF Based
    <2> QED BY <2>1, <2>2
  <1> QED BY <1>2, <1>3, <1>4 DEF p, Based

\* What a thread may go on with when its scope is c.
Good(q, c) == Based(q) /\ q # <<>> /\ (Len(threads) = 1 => Nested(q) /\ c = Own(q))

LEMMA PushGood ==
    ASSUME NEW f, NEW q, NEW c, Good(q, c), f.k \notin Bottom, Scoped(f) => f.old = c
    PROVE  Good(<<f>> \o q, IF Scoped(f) THEN f.own ELSE c)
  <1>1. Based(<<f>> \o q) /\ <<f>> \o q # <<>>
    BY BasedPush DEF Good
  <1>2. ASSUME Len(threads) = 1
        PROVE  Nested(<<f>> \o q) /\ Own(<<f>> \o q) = IF Scoped(f) THEN f.own ELSE c
    <2>1. IsSeq(q) /\ q # <<>> /\ Nested(q) /\ c = Own(q)
      BY <1>2 DEF Good, Based
    <2> QED BY <2>1, NestedPush, OwnPush
  <1> QED BY <1>1, <1>2 DEF Good

LEMMA PutGood ==
    ASSUME Stacks(threads), NEW t \in DOMAIN threads, NEW q, NEW c, q = <<>> \/ Good(q, c),
           threads' = [threads EXCEPT ![t] = q]
    PROVE  Stacks(threads') /\ InScope(threads', c)
  <1>1. DOMAIN threads = 1..Len(threads) /\ Len(threads) \in Nat
    BY SeqFacts DEF Stacks
  <1>2. Based(q)
    <2>1. IsSeq(<<>>)
      BY DEF IsSeq
    <2> QED BY <2>1 DEF Good, Based
  <1>3. threads' = [s \in 1..Len(threads) |-> IF s = t THEN q ELSE threads[s]]
    BY <1>1
  <1>4. IsSeq(threads') /\ Len(threads') = Len(threads)
    <2> PICK n \in Nat : n = Len(threads)
      BY <1>1
    <2>1. threads' = [s \in 1..n |-> threads'[s]]
      BY <1>3
    <2> QED BY <2>1, MakeSeq
  <1>5. \A s \in DOMAIN threads' : Based(threads'[s])
    BY <1>1, <1>2, <1>3 DEF Stacks
  <1>6. InScope(threads', c)
    <2> SUFFICES ASSUME Len(threads) = 1, threads'[1] # <<>>
                 PROVE  Nested(threads'[1]) /\ c = Own(threads'[1])
      BY <1>4 DEF InScope
    <2>1. t = 1 /\ threads'[1] = q
      BY <1>1, <1>3
    <2> QED BY <2>1 DEF Good
  <1> QED BY <1>4, <1>5, <1>6 DEF Stacks

LEMMA ContinueGood ==
    ASSUME Stacks(threads), NEW t \in DOMAIN threads, NEW q, NEW c, Good(q, c), Continue(t, q)
    PROVE  Stacks(threads') /\ InScope(threads', c)
  <1>1. IsSeq(q) /\ DOMAIN q = 1..Len(q)
    BY SeqFacts DEF Good, Based
  <1>2. PICK i \in Left(q) : threads' = [threads EXCEPT ![t] = From(q, i)]
    BY DEF Continue
  <1>3. i \in 1..Len(q) /\ \A k \in 1..(i - 1) : Spent(q[k])
    BY <1>1 DEF Left
  <1>4. \A k \in 1..(i - 1) : ~Scoped(q[k])
    BY <1>3 DEF Spent, Scoped
  <1>5. Good(From(q, i), c)
    BY <1>1, <1>3, <1>4, BasedFrom, OwnDrop, NestedFrom DEF Good
  <1> QED BY <1>2, <1>5, PutGood

\* What is below the frame on top.
LEMMA BelowGood ==
    ASSUME Stacks(threads), InScope(threads, current), NEW t \in DOMAIN threads, threads[t] # <<>>,
           Top(t).k \notin Bottom
    PROVE  Good(Below1(t), IF Scoped(Top(t)) THEN Top(t).old ELSE current)
  <1> DEFINE st == threads[t]
  <1>1. Based(st) /\ IsSeq(st) /\ st # <<>> /\ DOMAIN st = 1..Len(st)
    BY SeqFacts DEF Stacks, Based
  <1>2. Tail(st) = From(st, 2) /\ Head(st) = st[1] /\ Len(st) \in Nat /\ Len(st) >= 1
    BY <1>1, TailFacts
  <1>3. Len(st) # 1
    BY <1>1, <1>2 DEF Based, Top, Bottom
  <1>4. 2 \in 1..Len(st) /\ Below1(t) = From(st, 2) /\ Top(t) = st[1] /\ 1 + 1 = 2 /\ 1 \in DOMAIN st
    BY <1>1, <1>2, <1>3 DEF Below1, Top
  <1>5. Based(From(st, 2)) /\ From(st, 2) # <<>>
    BY <1>1, <1>4, BasedFrom
  <1>6. ASSUME Len(threads) = 1
        PROVE  /\ Nested(From(st, 2))
               /\ Own(From(st, 2)) = IF Scoped(Top(t)) THEN Top(t).old ELSE current
    <2>1. t = 1 /\ Nested(st) /\ current = Own(st)
      BY <1>1, <1>6, SeqFacts DEF InScope, Stacks
    <2>2. Nested(From(st, 2))
      BY <1>1, <1>4, <2>1, NestedFrom
    <2>3. CASE Scoped(Top(t))
      BY <1>4, <2>1, <2>2, <2>3 DEF Nested
    <2>4. CASE ~Scoped(Top(t))
      <3>1. \A k \in 1..(2 - 1) : ~Scoped(st[k])
        BY <1>4, <2>4
      <3> QED BY <1>1, <1>4, <2>1, <2>2, <2>4, <3>1, OwnDrop
    <2> QED BY <2>3, <2>4
  <1> HIDE DEF st
  <1> QED BY <1>4, <1>5, <1>6 DEF Good

LEMMA BlockGood ==
    ASSUME NEW q, NEW c, NEW stmts, Good(q, c)
    PROVE  Good(<<Block(stmts)>> \o q, c)
  <1>1. Block(stmts).k = "block"
    BY DEF Block
  <1>2. Block(stmts).k \notin Bottom /\ ~Scoped(Block(stmts))
    BY <1>1 DEF Bottom, Scoped
  <1> QED BY <1>2, PushGood

\* What is left when the statement on top is taken off.
LEMMA RestGood ==
    ASSUME Stacks(threads), InScope(threads, current), NEW t \in DOMAIN threads, threads[t] # <<>>,
           NEW kind, AtStmt(t, kind)
    PROVE  Good(Rest(t), current)
  <1>1. Top(t).k \notin Bottom /\ ~Scoped(Top(t))
    BY DEF AtStmt, Bottom, Scoped
  <1>2. Good(Below1(t), current)
    BY <1>1, BelowGood
  <1> QED BY <1>2, BlockGood DEF Rest

------------------------------------------------------------------------------
(* The entities: how they are added and put to death.                      *)

LEMMA KillFacts ==
    ASSUME NEW es, Whole(es), NEW S
    PROVE  /\ DOMAIN Kill(es, S) = DOMAIN es /\ IsSeq(Kill(es, S)) /\ Len(Kill(es, S)) = Len(es)
           /\ \A e \in DOMAIN es :
                 /\ DOMAIN Kill(es, S)[e] = {"kind", "dead", "ms", "parts"}
                 /\ Kill(es, S)[e].kind = es[e].kind /\ Kill(es, S)[e].parts = es[e].parts
                 /\ Kill(es, S)[e].dead = (es[e].dead \/ e \in S)
                 /\ Kill(es, S)[e].dead \in BOOLEAN
  <1> DEFINE q == Kill(es, S)
  <1>1. IsSeq(es) /\ DOMAIN es = 1..Len(es) /\ Len(es) \in Nat
    BY SeqFacts DEF Whole
  <1>2. q = [e \in 1..Len(es) |-> IF e \in S THEN [es[e] EXCEPT !.dead = TRUE] ELSE es[e]]
    BY <1>1 DEF Kill
  <1>3. IsSeq(q) /\ Len(q) = Len(es)
    <2> PICK n \in Nat : n = Len(es)
      BY <1>1
    <2>1. q = [e \in 1..n |-> q[e]]
      BY <1>2
    <2> HIDE DEF q
    <2> QED BY <2>1, MakeSeq
  <1>4. ASSUME NEW e \in DOMAIN es
        PROVE  /\ DOMAIN q[e] = {"kind", "dead", "ms", "parts"}
               /\ q[e].kind = es[e].kind /\ q[e].parts = es[e].parts
               /\ q[e].dead = (es[e].dead \/ e \in S)
               /\ q[e].dead \in BOOLEAN
    <2>1. q[e] = IF e \in S THEN [es[e] EXCEPT !.dead = TRUE] ELSE es[e]
      BY <1>1, <1>2
    <2>2. DOMAIN es[e] = {"kind", "dead", "ms", "parts"} /\ es[e].dead \in BOOLEAN
      BY DEF Whole
    <2> HIDE DEF q
    <2>3. CASE e \in S
      <3>1. q[e] = [es[e] EXCEPT !.dead = TRUE]
        BY <2>1, <2>3
      <3>2. DOMAIN q[e] = DOMAIN es[e] /\ q[e].dead = TRUE /\ q[e].kind = es[e].kind
            /\ q[e].parts = es[e].parts
        BY <3>1, <2>2
      <3> QED BY <3>2, <2>2, <2>3
    <2>4. CASE e \notin S
      BY <2>1, <2>2, <2>4
    <2> QED BY <2>3, <2>4
  <1> QED BY <1>1, <1>2, <1>3, <1>4

\* A composite may be put to death only with its reason; the others may always.
LEMMA KillWhole ==
    ASSUME NEW es, Whole(es), NEW S,
           \A e \in DOMAIN es \cap S : es[e].kind \in Composite => Reason(es, e)
    PROVE  Whole(Kill(es, S))
  <1> DEFINE q == Kill(es, S)
  <1>1. /\ DOMAIN q = DOMAIN es /\ IsSeq(q)
        /\ \A e \in DOMAIN es :
              /\ DOMAIN q[e] = {"kind", "dead", "ms", "parts"}
              /\ q[e].kind = es[e].kind /\ q[e].parts = es[e].parts
              /\ q[e].dead = (es[e].dead \/ e \in S)
              /\ q[e].dead \in BOOLEAN
    BY KillFacts
  <1> HIDE DEF q
  <1>2. ASSUME NEW e \in DOMAIN q, q[e].dead PROVE Reason(q, e)
    <2>1. Reason(es, e)
      <3>1. CASE es[e].dead
        BY <1>1, <3>1 DEF Whole
      <3>2. CASE e \in S /\ es[e].kind \in Composite
        BY <1>1, <3>2
      <3>3. CASE es[e].kind \notin Composite
        BY <3>3 DEF Reason, Composite
      <3> QED BY <3>1, <3>2, <3>3, <1>1, <1>2
    <2>2. Range(es[e].parts) \subseteq DOMAIN es
      <3>1. DOMAIN es = 1..Len(es) /\ Len(es) \in Nat
        BY SeqFacts DEF Whole
      <3> QED BY <1>1, <3>1 DEF Whole
    <2>3. \A p \in Range(es[e].parts) : es[p].dead => q[p].dead
      BY <1>1, <2>2
    <2>4. q[e].kind = es[e].kind /\ q[e].parts = es[e].parts
      BY <1>1
    <2> QED BY <2>1, <2>3, <2>4 DEF Reason
  <1>3. \A e \in DOMAIN q : Range(q[e].parts) \subseteq 1..(e - 1)
    BY <1>1 DEF Whole
  <1> QED BY <1>1, <1>2, <1>3 DEF q, Whole

\* What may be added.
Fresh(new, n) ==
    /\ IsSeq(new)
    /\ \A i \in 1..Len(new) :
          /\ DOMAIN new[i] = {"kind", "dead", "ms", "parts"} /\ new[i].dead = FALSE
          /\ Range(new[i].parts) \subseteq 1..(n + i - 1)

\* New entities are alive and made of entities there are.
LEMMA AddWhole ==
    ASSUME NEW es, Whole(es), NEW new, Fresh(new, Len(es))
    PROVE  /\ Whole(es \o new) /\ Len(es \o new) = Len(es) + Len(new) /\ DOMAIN es \subseteq DOMAIN (es \o new)
           /\ \A e \in DOMAIN es : (es \o new)[e] = es[e]
           /\ \A i \in 1..Len(new) : (es \o new)[Len(es) + i] = new[i]
  <1> DEFINE q == es \o new
  <1>1. IsSeq(es) /\ IsSeq(new) /\ DOMAIN es = 1..Len(es) /\ Len(es) \in Nat /\ Len(new) \in Nat
    BY SeqFacts DEF Whole, Fresh
  <1>2. /\ IsSeq(q) /\ Len(q) = Len(es) + Len(new)
        /\ \A i \in 1..Len(es) : q[i] = es[i]
        /\ \A i \in 1..Len(new) : q[Len(es) + i] = new[i]
    BY <1>1, JoinFacts
  <1> HIDE DEF q
  <1>3. DOMAIN q = 1..(Len(es) + Len(new))
    BY <1>2, SeqFacts
  <1>4. ASSUME NEW e \in DOMAIN q
        PROVE  /\ DOMAIN q[e] = {"kind", "dead", "ms", "parts"} /\ q[e].dead \in BOOLEAN
               /\ Range(q[e].parts) \subseteq 1..(e - 1)
               /\ q[e].dead => Reason(q, e)
    <2>1. CASE e \in DOMAIN es
      <3>1. q[e] = es[e] /\ Range(es[e].parts) \subseteq 1..(e - 1) /\ Range(es[e].parts) \subseteq DOMAIN es
        <4>1. q[e] = es[e]
          BY <1>1, <1>2, <2>1
        <4>2. Range(es[e].parts) \subseteq 1..(e - 1)
          BY <2>1 DEF Whole
        <4>3. 1..(e - 1) \subseteq DOMAIN es
          BY <1>1, <2>1
        <4> QED BY <4>1, <4>2, <4>3
      <3>2. \A p \in Range(es[e].parts) : q[p] = es[p]
        BY <1>1, <1>2, <3>1
      <3>3. q[e].dead => Reason(q, e)
        BY <2>1, <3>1, <3>2 DEF Whole, Reason
      <3> QED BY <2>1, <3>1, <3>3 DEF Whole
    <2>2. CASE e \notin DOMAIN es
      <3>1. e - Len(es) \in 1..Len(new) /\ Len(es) + (e - Len(es)) = e
        BY <1>1, <1>3, <2>2
      <3>2. q[e] = new[e - Len(es)]
        BY <1>2, <3>1
      <3>3. Len(es) + (e - Len(es)) - 1 = e - 1
        BY <1>1, <1>3
      <3> QED BY <1>3, <3>1, <3>2, <3>3 DEF Fresh
    <2> QED BY <2>1, <2>2
  <1>5. Whole(q)
    BY <1>2, <1>4 DEF Whole
  <1> QED BY <1>1, <1>2, <1>3, <1>5 DEF q

LEMMA NoParts == Range(<<>>) = {}
  <1>1. DOMAIN <<>> = {}
    OBVIOUS
  <1> QED BY <1>1 DEF Range

Newborn(f) ==
    DOMAIN f = {"kind", "dead", "ms", "parts"} /\ f.dead = FALSE /\ f.parts = <<>>

LEMMA EntityNewborn ==
    ASSUME NEW kind, NEW ms
    PROVE  Newborn(Entity(kind, FALSE, ms, <<>>)) /\ Entity(kind, FALSE, ms, <<>>).kind = kind
  BY DEF Newborn, Entity

Appended(q, es, f) == q = Append(es, f)

LEMMA AddOne ==
    ASSUME NEW es, Whole(es), NEW f, Newborn(f), NEW q, Appended(q, es, f)
    PROVE  /\ Whole(q) /\ Len(q) = Len(es) + 1 /\ DOMAIN es \subseteq DOMAIN q /\ Len(q) \in DOMAIN q
           /\ \A e \in DOMAIN es : q[e] = es[e]
           /\ q[Len(q)] = f
  <1> DEFINE new == <<f>>
  <1>1. DOMAIN f = {"kind", "dead", "ms", "parts"} /\ f.dead = FALSE /\ f.parts = <<>>
    BY DEF Newborn
  <1>2. Range(f.parts) = {}
    BY <1>1, NoParts
  <1>3. IsSeq(new) /\ Len(new) = 1 /\ new[1] = f
    BY DEF IsSeq
  <1>4. IsSeq(es) /\ Len(es) \in Nat
    BY SeqFacts DEF Whole
  <1>5. q = es \o new
    <2>1. Append(es, f) = es \o new
      BY <1>4 DEF IsSeq
    <2> QED BY <2>1 DEF Appended
  <1> HIDE DEF new
  <1>6. Fresh(new, Len(es))
    BY <1>1, <1>2, <1>3 DEF Fresh
  <1>7. /\ Whole(q) /\ Len(q) = Len(es) + Len(new) /\ DOMAIN es \subseteq DOMAIN q
        /\ \A e \in DOMAIN es : q[e] = es[e]
        /\ \A i \in 1..Len(new) : q[Len(es) + i] = new[i]
    <2>1. /\ Whole(es \o new) /\ Len(es \o new) = Len(es) + Len(new) /\ DOMAIN es \subseteq DOMAIN (es \o new)
          /\ \A e \in DOMAIN es : (es \o new)[e] = es[e]
          /\ \A i \in 1..Len(new) : (es \o new)[Len(es) + i] = new[i]
      BY <1>6, AddWhole
    <2> QED BY <1>5, <2>1
  <1>8. q[Len(q)] = f /\ Len(q) \in DOMAIN q
    <2>1. 1 \in 1..Len(new) /\ Len(es) + 1 = Len(q) /\ Len(q) \in 1..Len(q)
      BY <1>3, <1>4, <1>7
    <2>2. DOMAIN q = 1..Len(q)
      BY <1>7, SeqFacts DEF Whole
    <2> QED BY <2>1, <2>2, <1>3, <1>7
  <1> QED BY <1>1, <1>3, <1>7, <1>8

\* Names keep to what is named as long as entities keep their kind.
LEMMA KillNames ==
    ASSUME NEW es, Whole(es), NEW S, NEW nm, NamesOf(es, nm)
    PROVE  NamesOf(Kill(es, S), nm)
  <1>1. /\ DOMAIN Kill(es, S) = DOMAIN es
        /\ \A e \in DOMAIN es : Kill(es, S)[e].kind = es[e].kind
    BY KillFacts
  <1> QED BY <1>1 DEF NamesOf

LEMMA NamedKill ==
    ASSUME NEW es, Whole(es), NamesOf(es, names), NEW D, D \subseteq DOMAIN names
    PROVE  Whole(Kill(es, Named(D))) /\ NamesOf(Kill(es, Named(D)), names)
  <1>1. \A e \in DOMAIN es \cap Named(D) : es[e].kind \in Composite => Reason(es, e)
    BY DEF Named, NamesOf
  <1> QED BY <1>1, KillWhole, KillNames

------------------------------------------------------------------------------
(* Errors and BEQUEATH.                                                    *)

\* What a step may do to the entities es it leaves in turn.
SiblingStep(es) ==
    \A e \in DOMAIN es :
        (es[e].kind = "branch" /\ ~es[e].dead /\ ents'[e].dead) =>
            \/ run'.phase \in {"ended", "failed"}
            \/ \E t \in BranchThread(e) : threads'[t] = <<>>

\* The scope given back is the one the frames outside stand in.
LEMMA ThrowScope ==
    ASSUME AthInv, NEW t \in DOMAIN threads, threads[t] # <<>>,
           NEW j \in DOMAIN threads[t], threads[t][j].k \notin Bottom, NEW scope,
           LET st == threads[t]
               left == {i \in 1..j : Scoped(st[i])}
           IN IF left = {} THEN scope = current
              ELSE \E i \in left : (\A k \in left : k <= i) /\ scope = st[i].old
    PROVE  Good(From(threads[t], j + 1), scope)
  <1> DEFINE st == threads[t]
             left == {i \in 1..j : Scoped(st[i])}
  <1>1. Based(st) /\ IsSeq(st) /\ st # <<>> /\ DOMAIN st = 1..Len(st) /\ Len(st) \in Nat
    BY SeqFacts DEF AthInv, Stacks, Based
  <1>2. j # Len(st) /\ j \in 1..Len(st)
    BY <1>1 DEF Based, Bottom
  <1>3. j + 1 \in 1..Len(st)
    BY <1>1, <1>2
  <1>4. Based(From(st, j + 1)) /\ From(st, j + 1) # <<>>
    BY <1>1, <1>3, BasedFrom
  <1>5. ASSUME Len(threads) = 1 PROVE Nested(From(st, j + 1)) /\ scope = Own(From(st, j + 1))
    <2>1. t = 1 /\ Nested(st) /\ current = Own(st)
      BY <1>1, <1>5, SeqFacts DEF AthInv, InScope, Stacks
    <2>2. Nested(From(st, j + 1))
      BY <1>1, <1>3, <2>1, NestedFrom
    <2>3. CASE left = {}
      <3>1. PICK m \in 1..Len(st) : m = j + 1
        BY <1>3
      <3>4. \A k \in 1..(m - 1) : ~Scoped(st[k])
        BY <2>3, <3>1, <1>2
      <3>2. scope = current
        BY <2>3
      <3> HIDE DEF st
      <3>3. Own(From(st, j + 1)) = Own(st)
        BY <1>1, <3>1, <3>4, OwnDrop
      <3> QED BY <2>1, <2>2, <3>2, <3>3
    <2>4. CASE left # {}
      <3>1. PICK i \in left : (\A k \in left : k <= i) /\ scope = st[i].old
        BY <2>4
      <3>2. i \in 1..j /\ Scoped(st[i]) /\ \A k \in 1..j : k > i => ~Scoped(st[k])
        BY <3>1, <1>2
      <3> DEFINE q == From(st, i + 1)
                 m == j - i + 1
      <3>3. i \in DOMAIN st /\ i + 1 \in 1..Len(st) /\ m \in 1..(Len(st) - (i + 1) + 2) /\ (i + 1) + m - 1 = j + 1
        BY <1>1, <1>2, <1>3, <3>2
      <3> HIDE DEF st, m
      <3>4. scope = Own(q)
        BY <3>1, <3>2, <3>3, <2>1 DEF Nested
      <3>5. From(q, m) = From(st, j + 1)
        BY <1>1, <3>3, FromFrom
      <3>6. /\ IsSeq(q) /\ Len(q) = Len(st) - (i + 1) + 1
            /\ \A k \in 1..(Len(st) - (i + 1) + 1) : q[k] = st[(i + 1) + k - 1]
        <4>1. i + 1 \in 1..(Len(st) + 1)
          BY <1>1, <3>3
        <4> QED BY <4>1, <1>1, FromFacts
      <3> HIDE DEF q
      <3>7. ASSUME NEW k \in 1..(m - 1) PROVE ~Scoped(q[k])
        <4>1. k \in 1..(Len(st) - (i + 1) + 1) /\ (i + 1) + k - 1 \in 1..j /\ (i + 1) + k - 1 > i
          BY <1>1, <1>2, <1>3, <3>2 DEF m
        <4> QED BY <4>1, <3>2, <3>6
      <3>8. m \in 1..Len(q)
        BY <1>1, <1>2, <1>3, <3>2, <3>6 DEF m
      <3> QED BY <2>2, <3>4, <3>5, <3>6, <3>7, <3>8, OwnDrop
    <2> QED BY <2>2, <2>3, <2>4
  <1> QED BY <1>4, <1>5 DEF Good

LEMMA CompletedKeeps ==
    ASSUME NEW es, Whole(es), NamesOf(es, names), NEW d
    PROVE  /\ Whole(Completed(es, d)) /\ NamesOf(Completed(es, d), names)
           /\ DOMAIN Completed(es, d) = DOMAIN es
           /\ \A e \in DOMAIN es : /\ Completed(es, d)[e].kind = es[e].kind
                                   /\ Completed(es, d)[e].dead => es[e].dead \/ e = d
  <1>1. CASE es[d].kind = "branch"
    <2>1. Completed(es, d) = Kill(es, {d})
      BY <1>1 DEF Completed
    <2>2. \A e \in DOMAIN es \cap {d} : es[e].kind \in Composite => Reason(es, e)
      BY <1>1 DEF Composite
    <2>3. Whole(Kill(es, {d})) /\ NamesOf(Kill(es, {d}), names)
      BY <2>2, KillWhole, KillNames
    <2>4. /\ DOMAIN Kill(es, {d}) = DOMAIN es
          /\ \A e \in DOMAIN es : /\ Kill(es, {d})[e].kind = es[e].kind
                                  /\ Kill(es, {d})[e].dead = (es[e].dead \/ e \in {d})
      BY KillFacts
    <2> QED BY <2>1, <2>3, <2>4
  <1>2. CASE es[d].kind # "branch"
    BY <1>2 DEF Completed
  <1> QED BY <1>1, <1>2

LEMMA ThrowKeeps ==
    ASSUME AthInv, NEW t \in DOMAIN threads, threads[t] # <<>>,
           NEW es, Whole(es), NamesOf(es, names), NEW what, NEW value, Throw(t, es, what, value)
    PROVE  /\ Whole(ents') /\ NamesOf(ents', names)
           /\ Stacks(threads') /\ InScope(threads', current')
           /\ DOMAIN run' = {"phase", "awaited"}
           /\ DOMAIN ents' = DOMAIN es /\ \A e \in DOMAIN es : ents'[e].kind = es[e].kind
           /\ SiblingStep(es)
  <1> DEFINE st == threads[t]
  <1>1. PICK j \in DOMAIN st, scope \in DOMAIN scopes :
        LET f == st[j]
            outer == From(st, j + 1)
            left == {i \in 1..j : Scoped(st[i])}
        IN /\ Catches(f, what) /\ \A k \in 1..(j - 1) : ~Catches(st[k], what)
           /\ IF left = {} THEN scope = current
              ELSE \E i \in left : (\A k \in left : k <= i) /\ scope = st[i].old
           /\ \/ /\ f.k = "attempt"
                 /\ scopes' = Append(scopes, Scope(scope, Bind(<<>>, f.name, value)))
                 /\ current' = Len(scopes')
                 /\ Continue(t, <<Block(f.salvage), [k |-> "salvage", old |-> scope, own |-> Len(scopes')]>>
                                \o outer)
                 /\ ents' = es
                 /\ UNCHANGED run
              \/ /\ f.k = "rite"
                 /\ current' = scope
                 /\ threads' = [threads EXCEPT ![t] =
                       <<[k |-> "store", how |-> f.how, name |-> f.name, value |-> value]>> \o outer]
                 /\ ents' = es
                 /\ UNCHANGED <<scopes, run>>
              \/ /\ f.k = "branch"
                 /\ current' = scope
                 /\ threads' = [threads EXCEPT ![t] = <<>>]
                 /\ ents' = Completed(es, f.entity)
                 /\ UNCHANGED <<scopes, run>>
              \/ /\ f.k = "program"
                 /\ current' = scope
                 /\ threads' = [threads EXCEPT ![t] = <<>>]
                 /\ ents' = Kill(es, Named(DOMAIN names))
                 /\ run' = [run EXCEPT !.phase = "failed"]
                 /\ UNCHANGED scopes
    BY DEF Throw
  <1> DEFINE f == st[j]
             outer == From(st, j + 1)
  <1>2. f.k \notin Bottom => Good(outer, scope)
    BY <1>1, ThrowScope
  <1>3. Stacks(threads) /\ Based(st) /\ IsSeq(st) /\ DOMAIN run = {"phase", "awaited"}
    BY DEF AthInv, Stacks, Based
  <1>4. CASE f.k = "attempt"
    <2> DEFINE g == [k |-> "salvage", old |-> scope, own |-> Len(scopes')]
    <2>1. /\ current' = Len(scopes') /\ ents' = es /\ run' = run
          /\ Continue(t, <<Block(f.salvage), g>> \o outer)
      BY <1>1, <1>4
    <2>2. Good(outer, scope) /\ IsSeq(outer)
      BY <1>2, <1>4 DEF Bottom, Good, Based
    <2>3. g.k = "salvage" /\ g.old = scope /\ g.own = current'
      BY <2>1
    <2>4. Scoped(g) /\ g.k \notin Bottom
      BY <2>3 DEF Scoped, Bottom
    <2> HIDE DEF g, f, st, outer
    <2>5. Good(<<g>> \o outer, current')
      BY <2>2, <2>3, <2>4, PushGood
    <2>6. Good(<<Block(f.salvage)>> \o (<<g>> \o outer), current')
      BY <2>5, BlockGood
    <2>7. Continue(t, <<Block(f.salvage)>> \o (<<g>> \o outer))
      <3>1. <<Block(f.salvage), g>> \o outer = <<Block(f.salvage)>> \o (<<g>> \o outer)
        BY <2>2, PushTwo
      <3> QED BY <2>1, <3>1 DEF Continue
    <2>8. Stacks(threads') /\ InScope(threads', current')
      BY <1>3, <2>6, <2>7, ContinueGood
    <2> QED BY <1>3, <2>1, <2>8 DEF SiblingStep
  <1>5. CASE f.k = "rite"
    <2> DEFINE g == [k |-> "store", how |-> f.how, name |-> f.name, value |-> value]
    <2>1. /\ current' = scope /\ ents' = es /\ run' = run
          /\ threads' = [threads EXCEPT ![t] = <<g>> \o outer]
      BY <1>1, <1>5
    <2>2. Good(outer, scope)
      BY <1>2, <1>5 DEF Bottom
    <2>3. g.k = "store"
      OBVIOUS
    <2>4. ~Scoped(g) /\ g.k \notin Bottom
      BY <2>3 DEF Scoped, Bottom
    <2> HIDE DEF g, f, st, outer
    <2>5. Good(<<g>> \o outer, current')
      BY <2>1, <2>2, <2>4, PushGood
    <2>6. Stacks(threads') /\ InScope(threads', current')
      BY <1>3, <2>1, <2>5, PutGood
    <2> QED BY <1>3, <2>1, <2>6 DEF SiblingStep
  <1>6. ASSUME f.k \in Bottom PROVE j = Len(st) /\ Len(st) \in Nat
    BY <1>3, <1>6, SeqFacts DEF Based, Bottom
  <1>7. CASE f.k = "branch"
    <2>1. ents' = Completed(es, f.entity) /\ run' = run /\ threads' = [threads EXCEPT ![t] = <<>>]
      BY <1>1, <1>7
    <2>2. Stacks(threads') /\ InScope(threads', current')
      BY <1>3, <2>1, PutGood
    <2>3. j = Len(st)
      BY <1>6, <1>7 DEF Bottom
    <2>4. t \in BranchThread(f.entity) /\ threads'[t] = <<>>
      BY <2>1, <2>3, <1>7, <1>3 DEF BranchThread, Stacks
    <2> HIDE DEF f
    <2>5. /\ Whole(ents') /\ NamesOf(ents', names) /\ DOMAIN ents' = DOMAIN es
          /\ \A e \in DOMAIN es : ents'[e].kind = es[e].kind /\ (ents'[e].dead => es[e].dead \/ e = f.entity)
      BY <2>1, CompletedKeeps
    <2> QED BY <1>3, <2>1, <2>2, <2>4, <2>5 DEF SiblingStep
  <1>8. CASE f.k = "program"
    <2>1. /\ ents' = Kill(es, Named(DOMAIN names)) /\ threads' = [threads EXCEPT ![t] = <<>>]
          /\ run' = [run EXCEPT !.phase = "failed"]
      BY <1>1, <1>8
    <2>2. Stacks(threads') /\ InScope(threads', current')
      BY <1>3, <2>1, PutGood
    <2>3. DOMAIN run' = {"phase", "awaited"} /\ run'.phase = "failed"
      BY <1>3, <2>1
    <2>4. Whole(ents') /\ NamesOf(ents', names)
      BY <2>1, NamedKill
    <2>5. DOMAIN ents' = DOMAIN es /\ \A e \in DOMAIN es : ents'[e].kind = es[e].kind
      BY <2>1, KillFacts
    <2> QED BY <2>2, <2>3, <2>4, <2>5 DEF SiblingStep
  <1> QED BY <1>1, <1>4, <1>5, <1>7, <1>8

------------------------------------------------------------------------------
(* The steps.                                                              *)

\* What a step keeps, and what it may do to the branches.
Siblings ==
    \A e \in DOMAIN ents : (ents[e].kind = "branch" /\ ~ents[e].dead /\ ents'[e].dead) =>
          \/ run'.phase \in {"ended", "failed"}
          \/ \E t \in BranchThread(e) : threads'[t] = <<>>
          \/ PutToDeath(e)
Kept ==
    /\ Whole(ents') /\ NamesOf(ents', names')
    /\ Stacks(threads') /\ InScope(threads', current')
    /\ DOMAIN run' = {"phase", "awaited"}
    /\ Siblings

LEMMA StillKept ==
    ASSUME AthInv, ents' = ents, names' = names, run' = run,
           Stacks(threads') /\ InScope(threads', current')
    PROVE  Kept
  BY DEF AthInv, Kept, Siblings

\* The entities a failing statement has killed already are those its program named.
LEMMA ThrowKept ==
    ASSUME AthInv, NEW t \in DOMAIN threads, threads[t] # <<>>, names' = names,
           NEW es, Whole(es), NamesOf(es, names), NEW what, NEW value, Throw(t, es, what, value),
           DOMAIN ents \subseteq DOMAIN es,
           \A e \in DOMAIN ents : /\ es[e].kind = ents[e].kind
                                  /\ es[e].dead => ents[e].dead \/ PutToDeath(e)
    PROVE  Kept
  <1>1. /\ Whole(ents') /\ NamesOf(ents', names)
        /\ Stacks(threads') /\ InScope(threads', current')
        /\ DOMAIN run' = {"phase", "awaited"}
        /\ SiblingStep(es)
    BY ThrowKeeps
  <1>2. Siblings
    BY <1>1 DEF Siblings, SiblingStep
  <1> QED BY <1>1, <1>2 DEF Kept

LEMMA FailKept ==
    ASSUME AthInv, NEW t \in DOMAIN threads, threads[t] # <<>>, Fail(t, ents)
    PROVE  Kept
  <1>1. Throw(t, ents, "error", Error) /\ names' = names /\ Whole(ents) /\ NamesOf(ents, names)
    BY DEF Fail, AthInv
  <1> QED BY <1>1, ThrowKept

LEMMA ExecImportKept ==
    ASSUME AthInv, NEW t \in DOMAIN threads, threads[t] # <<>>, ExecImport(t)
    PROVE  Kept
  <1> DEFINE s == Stmt(t)
             D == {s.name} \cap DOMAIN names
             killed == Kill(ents, Named(D))
  <1>1. Whole(ents) /\ NamesOf(ents, names) /\ DOMAIN run = {"phase", "awaited"} /\ AtStmt(t, "import")
        /\ Stacks(threads) /\ InScope(threads, current)
    BY DEF AthInv, ExecImport
  <1>2. Whole(killed) /\ NamesOf(killed, names)
    BY <1>1, NamedKill
  <1>3. /\ DOMAIN killed = DOMAIN ents /\ Len(killed) = Len(ents)
        /\ \A e \in DOMAIN ents : /\ killed[e].kind = ents[e].kind
                                  /\ killed[e].dead = (ents[e].dead \/ e \in Named(D))
    BY <1>1, KillFacts
  <1>4. ASSUME NEW e \in Named(D) PROVE PutToDeath(e)
    BY <1>1 DEF Named, PutToDeath
  <1>5. \A e \in DOMAIN ents : killed[e].dead => ents[e].dead \/ PutToDeath(e)
    BY <1>3, <1>4
  <1>6. CASE s.type = "timer" /\ s.amount * Millis[s.unit] >= 1
    <2> DEFINE f == Entity("timer", FALSE, s.amount * Millis[s.unit], <<>>)
    <2>1. /\ ents' = Append(killed, f) /\ names' = Bind(names, s.name, Len(ents')) /\ Continue(t, Rest(t))
          /\ current' = current /\ run' = run
      BY <1>6 DEF ExecImport
    <2> HIDE DEF killed
    <2>2. /\ Whole(ents') /\ DOMAIN killed \subseteq DOMAIN ents' /\ Len(ents') \in DOMAIN ents'
          /\ \A e \in DOMAIN killed : ents'[e] = killed[e]
          /\ ents'[Len(ents')].kind = "timer"
      <3>1. Newborn(f) /\ f.kind = "timer"
        BY EntityNewborn
      <3> HIDE DEF f
      <3>2. PICK q : Appended(q, killed, f)
        BY DEF Appended
      <3>3. /\ Whole(q) /\ DOMAIN killed \subseteq DOMAIN q /\ Len(q) \in DOMAIN q
            /\ \A e \in DOMAIN killed : q[e] = killed[e]
            /\ q[Len(q)] = f
        BY <1>2, <3>1, <3>2, AddOne
      <3>4. ents' = q
        BY <2>1, <3>2 DEF Appended
      <3> QED BY <3>1, <3>3, <3>4
    <2>3. NamesOf(ents', names')
      BY <1>2, <2>1, <2>2 DEF NamesOf, Bind, Composite
    <2>4. Stacks(threads') /\ InScope(threads', current')
      BY <1>1, <2>1, RestGood, ContinueGood
    <2>5. Siblings
      BY <1>3, <1>5, <2>2 DEF Siblings
    <2> QED BY <1>1, <2>1, <2>2, <2>3, <2>4, <2>5 DEF Kept
  <1>7. CASE ~(s.type = "timer" /\ s.amount * Millis[s.unit] >= 1)
    <2>1. Throw(t, killed, "error", Error) /\ names' = names
      BY <1>7 DEF ExecImport, Fail
    <2> HIDE DEF killed
    <2> QED BY <1>2, <1>3, <1>5, <2>1, ThrowKept
  <1> QED BY <1>6, <1>7

LEMMA ExecBifurcateKept ==
    ASSUME AthInv, NEW t \in DOMAIN threads, threads[t] # <<>>, ExecBifurcate(t)
    PROVE  Kept
  <1> DEFINE s == Stmt(t)
             n == Len(ents)
             new == [i \in 1..2 |-> Entity("branch", FALSE, 0, <<>>)]
  <1>1. Whole(ents) /\ NamesOf(ents, names) /\ DOMAIN run = {"phase", "awaited"} /\ AtStmt(t, "bifurcate")
        /\ Stacks(threads) /\ InScope(threads, current) /\ DOMAIN ents = 1..n /\ n \in Nat
    BY SeqFacts DEF AthInv, ExecBifurcate, Whole
  <1>2. CASE s.entity \in DOMAIN names
    <2>1. /\ ents' = ents \o new /\ names' = Bind(Bind(names, s.left, n + 1), s.right, n + 2)
          /\ Continue(t, Rest(t)) /\ current' = current /\ run' = run
      BY <1>2 DEF ExecBifurcate
    <2>2. \A i \in 1..2 : /\ DOMAIN new[i] = {"kind", "dead", "ms", "parts"} /\ new[i].dead = FALSE
                          /\ new[i].parts = <<>> /\ new[i].kind = "branch"
      BY DEF Entity
    <2>3. IsSeq(new) /\ Len(new) = 2
      <3>1. new = [i \in 1..2 |-> new[i]]
        OBVIOUS
      <3> HIDE DEF new
      <3> QED BY <3>1, MakeSeq
    <2> HIDE DEF new
    <2>4. Fresh(new, n)
      BY <2>2, <2>3, NoParts DEF Fresh
    <2>5. /\ Whole(ents') /\ Len(ents') = n + 2 /\ DOMAIN ents \subseteq DOMAIN ents'
          /\ \A e \in DOMAIN ents : ents'[e] = ents[e]
          /\ \A i \in 1..2 : ents'[n + i] = new[i]
      <3> DEFINE q == ents \o new
      <3>1. /\ Whole(q) /\ Len(q) = n + Len(new) /\ DOMAIN ents \subseteq DOMAIN q
            /\ \A e \in DOMAIN ents : q[e] = ents[e]
            /\ \A i \in 1..Len(new) : q[n + i] = new[i]
        BY <1>1, <2>4, AddWhole
      <3>2. ents' = q
        BY <2>1
      <3> HIDE DEF q
      <3> QED BY <2>3, <3>1, <3>2
    <2>6. n + 1 \in DOMAIN ents' /\ n + 2 \in DOMAIN ents' /\ ents'[n + 1].kind = "branch"
          /\ ents'[n + 2].kind = "branch"
      <3>1. DOMAIN ents' = 1..Len(ents') /\ 1 \in 1..2 /\ 2 \in 1..2
        BY <2>5, SeqFacts DEF Whole
      <3> QED BY <1>1, <2>2, <2>5, <3>1
    <2>7. NamesOf(ents', names')
      BY <1>1, <2>1, <2>5, <2>6 DEF NamesOf, Bind, Composite
    <2>8. Stacks(threads') /\ InScope(threads', current')
      BY <1>1, <2>1, RestGood, ContinueGood
    <2>9. Siblings
      BY <2>5 DEF Siblings
    <2> QED BY <1>1, <2>1, <2>5, <2>7, <2>8, <2>9 DEF Kept
  <1>3. CASE s.entity \notin DOMAIN names
    BY <1>3, FailKept DEF ExecBifurcate
  <1> QED BY <1>2, <1>3

\* The composites a loop makes are of entities there are.
LEMMA CompositesFresh ==
    ASSUME Whole(ents), NamesOf(ents, names), NEW on, EntityExpr(on), NEW n \in 0..Len(on.ops), Made(on, n)
    PROVE  Fresh(Composites(on, n), Len(ents))
  <1> DEFINE new == Composites(on, n)
             made(i) == [k \in DOMAIN on.ops[i].of |-> Resolve(on, on.ops[i].of[k])]
  <1>1. /\ DOMAIN ents = 1..Len(ents) /\ Len(ents) \in Nat /\ Len(on.ops) \in Nat /\ Len(on.names) \in Nat
        /\ DOMAIN on.ops = 1..Len(on.ops) /\ n \in Nat
    <2>1. Len(on.ops) \in Nat /\ Len(on.names) \in Nat /\ DOMAIN on.ops = 1..Len(on.ops)
      BY DEF EntityExpr
    <2> QED BY <2>1, SeqFacts DEF Whole
  <1>2. new = [i \in 1..n |-> Entity(on.ops[i].op, FALSE, 0, made(i))]
    BY DEF Composites
  <1>3. IsSeq(new) /\ Len(new) = n
    <2>1. new = [i \in 1..n |-> new[i]]
      BY <1>2
    <2> HIDE DEF new
    <2> QED BY <1>1, <2>1, MakeSeq
  <1>4. ASSUME NEW i \in 1..n
        PROVE  /\ DOMAIN new[i] = {"kind", "dead", "ms", "parts"} /\ new[i].dead = FALSE
               /\ Range(new[i].parts) \subseteq 1..(Len(ents) + i - 1)
    <2>1. new[i] = Entity(on.ops[i].op, FALSE, 0, made(i))
      BY <1>2
    <2>2. DOMAIN new[i] = {"kind", "dead", "ms", "parts"} /\ new[i].dead = FALSE /\ new[i].parts = made(i)
      <3> HIDE DEF new, made
      <3> QED BY <2>1 DEF Entity
    <2> DEFINE c == on.ops[i]
    <2>3. i \in DOMAIN on.ops /\ Known(on, c.after)
      BY <1>1 DEF Made
    <2>4. /\ c.after \in 1..Len(on.names)
          /\ \A k \in DOMAIN c.of :
                c.of[k] \in 1..c.after \cup Len(on.names) + 1..Len(on.names) + i - 1
      BY <2>3 DEF EntityExpr
    <2>5. ASSUME NEW k \in DOMAIN c.of PROVE Resolve(on, c.of[k]) \in 1..(Len(ents) + i - 1)
      <3> HIDE DEF c
      <3>1. CASE c.of[k] \in 1..c.after
        <4>1. c.of[k] <= Len(on.names) /\ on.names[c.of[k]] \in DOMAIN names
          BY <1>1, <2>3, <2>4, <3>1 DEF Known
        <4>2. names[on.names[c.of[k]]] \in 1..Len(ents)
          BY <1>1, <4>1 DEF NamesOf
        <4>3. Resolve(on, c.of[k]) = names[on.names[c.of[k]]]
          BY <4>1 DEF Resolve
        <4> QED BY <1>1, <4>2, <4>3
      <3>2. CASE c.of[k] \in Len(on.names) + 1..Len(on.names) + i - 1
        <4>1. c.of[k] \in Int /\ c.of[k] > Len(on.names) /\ c.of[k] <= Len(on.names) + i - 1
          BY <1>1, <3>2
        <4>2. Resolve(on, c.of[k]) = Len(ents) + c.of[k] - Len(on.names)
          BY <1>1, <4>1 DEF Resolve
        <4> QED BY <1>1, <4>1, <4>2
      <3> QED BY <2>4, <3>1, <3>2
    <2>6. Range(made(i)) \subseteq 1..(Len(ents) + i - 1)
      BY <2>5 DEF Range
    <2> QED BY <2>2, <2>6
  <1> HIDE DEF new
  <1>5. Fresh(new, Len(ents))
    BY <1>3, <1>4 DEF Fresh
  <1> QED BY <1>5 DEF new

LEMMA ExecAthLoopKept ==
    ASSUME AthInv, NEW t \in DOMAIN threads, threads[t] # <<>>, ExecAthLoop(t)
    PROVE  Kept
  <1> DEFINE on == Stmt(t).on
  <1>1. Whole(ents) /\ NamesOf(ents, names) /\ DOMAIN run = {"phase", "awaited"} /\ AtStmt(t, "loop")
        /\ Stacks(threads) /\ InScope(threads, current) /\ EntityExpr(on)
    BY DEF AthInv, ExecAthLoop
  <1>2. PICK n \in 0..Len(on.ops) :
           LET es == ents \o Composites(on, n)
           IN /\ Made(on, n) /\ names' = names
              /\ IF Known(on, Len(on.names))
                 THEN /\ ents' = es
                      /\ threads' = [threads EXCEPT ![t] =
                            <<[k |-> "wait", for |-> Resolve(on, Len(on.names) + n)],
                              Block(Stmt(t).execute)>> \o Rest(t)]
                      /\ UNCHANGED <<scopes, current, run>>
                 ELSE Throw(t, es, "error", Error)
    BY DEF ExecAthLoop
  <1> DEFINE es == ents \o Composites(on, n)
  <1>3. Fresh(Composites(on, n), Len(ents))
    <2> HIDE DEF on
    <2> QED BY <1>1, <1>2, CompositesFresh
  <1>4. Whole(es) /\ DOMAIN ents \subseteq DOMAIN es /\ \A e \in DOMAIN ents : es[e] = ents[e]
    BY <1>1, <1>3, AddWhole
  <1>5. NamesOf(es, names)
    <2> HIDE DEF es
    <2> QED BY <1>1, <1>4 DEF NamesOf
  <1>6. CASE Known(on, Len(on.names))
    <2> DEFINE w == [k |-> "wait", for |-> Resolve(on, Len(on.names) + n)]
               q == <<Block(Stmt(t).execute)>> \o Rest(t)
    <2>1. /\ ents' = es /\ names' = names /\ current' = current /\ run' = run
          /\ threads' = [threads EXCEPT ![t] = <<w, Block(Stmt(t).execute)>> \o Rest(t)]
      BY <1>2, <1>6
    <2>2. w.k = "wait"
      OBVIOUS
    <2>3. w.k \notin Bottom /\ ~Scoped(w)
      BY <2>2 DEF Bottom, Scoped
    <2> HIDE DEF w
    <2>4. Good(Rest(t), current)
      BY <1>1, RestGood
    <2>5. Good(q, current)
      BY <2>4, BlockGood
    <2>6. Good(<<w>> \o q, current)
      <3> HIDE DEF q
      <3> QED BY <2>3, <2>5, PushGood
    <2>7. <<w, Block(Stmt(t).execute)>> \o Rest(t) = <<w>> \o q
      BY <2>4, PushTwo DEF Good, Based
    <2> HIDE DEF q
    <2>8. Stacks(threads') /\ InScope(threads', current')
      BY <1>1, <2>1, <2>6, <2>7, PutGood
    <2> HIDE DEF es
    <2>9. Siblings
      BY <1>4, <2>1 DEF Siblings
    <2> QED BY <1>1, <1>4, <1>5, <2>1, <2>8, <2>9 DEF Kept
  <1>7. CASE ~Known(on, Len(on.names))
    <2>1. Throw(t, es, "error", Error) /\ names' = names
      BY <1>2, <1>7
    <2> HIDE DEF es
    <2> QED BY <1>4, <1>5, <2>1, ThrowKept
  <1> QED BY <1>6, <1>7

\* A branch that begins stands in the scope of the thread that began it.
LEMMA AppendStack ==
    ASSUME NEW th, Stacks(th), NEW st, Based(st)
    PROVE  Stacks(Append(th, st)) /\ Len(Append(th, st)) = Len(th) + 1
  <1> DEFINE q == Append(th, st)
  <1>1. IsSeq(th) /\ DOMAIN th = 1..Len(th) /\ Len(th) \in Nat
    BY SeqFacts DEF Stacks
  <1> DEFINE S == {th[i] : i \in DOMAIN th} \cup {st}
  <1>2. th \in Seq(S) /\ st \in S
    BY <1>1 DEF IsSeq
  <1> HIDE DEF S
  <1>3. q \in Seq(S) /\ Len(q) = Len(th) + 1 /\ q[Len(th) + 1] = st /\ \A i \in 1..Len(th) : q[i] = th[i]
    BY <1>1, <1>2
  <1> HIDE DEF q
  <1>4. IsSeq(q) /\ DOMAIN q = 1..Len(q)
    BY <1>3, IsASeq, SeqFacts
  <1>5. \A i \in DOMAIN q : Based(q[i])
    BY <1>1, <1>3, <1>4 DEF Stacks
  <1> QED BY <1>3, <1>4, <1>5 DEF Stacks, q

\* What a program or a branch begins as.
LEMMA FirstStack ==
    ASSUME NEW stmts, NEW b, b.k \in Bottom, NEW i \in Left(<<Block(stmts), b>>)
    PROVE  /\ Based(From(<<Block(stmts), b>>, i)) /\ From(<<Block(stmts), b>>, i) # <<>>
           /\ Nested(From(<<Block(stmts), b>>, i)) /\ Own(From(<<Block(stmts), b>>, i)) = b.base
  <1> DEFINE all == <<Block(stmts), b>>
  <1>1. IsSeq(all) /\ Len(all) = 2 /\ all[1] = Block(stmts) /\ all[2] = b
    BY DEF IsSeq
  <1> HIDE DEF all
  <1>2. DOMAIN all = 1..2
    BY <1>1, SeqFacts
  <1>3. all[1].k = "block" /\ ~Scoped(all[1]) /\ ~Scoped(all[2])
    BY <1>1 DEF Block, Scoped, Bottom
  <1>4. Based(all)
    <2>1. \A k \in DOMAIN all : all[k].k \in {"branch", "program"} <=> k = Len(all)
      BY <1>1, <1>2, <1>3 DEF Bottom
    <2> QED BY <1>1, <2>1 DEF Based
  <1>5. Nested(all) /\ Own(all) = b.base
    <2>1. \A k \in DOMAIN all : ~Scoped(all[k])
      BY <1>2, <1>3
    <2> QED BY <1>1, <2>1, OwnBase DEF Nested
  <1>6. i \in 1..Len(all) /\ \A k \in 1..(i - 1) : ~Scoped(all[k])
    <2>1. i \in DOMAIN all
      BY DEF Left, all
    <2> QED BY <1>1, <1>2, <1>3, <2>1
  <1>7. /\ Based(From(all, i)) /\ From(all, i) # <<>> /\ Nested(From(all, i))
        /\ Own(From(all, i)) = b.base
    BY <1>1, <1>4, <1>5, <1>6, BasedFrom, NestedFrom, OwnDrop
  <1> QED BY <1>7 DEF all

LEMMA ExecBranchModeKept ==
    ASSUME AthInv, NEW t \in DOMAIN threads, threads[t] # <<>>, ExecBranchMode(t)
    PROVE  Kept
  <1> DEFINE s == Stmt(t)
             tick == Len(ents) + 1
             b == [k |-> "branch", entity |-> names[s.on.names[1]], base |-> OwnScope(t)]
             w == [k |-> "wait", for |-> tick]
             f == Entity("tick", FALSE, 0, <<>>)
             q == <<w>> \o Rest(t)
             th == [threads EXCEPT ![t] = q]
  <1>1. Whole(ents) /\ NamesOf(ents, names) /\ DOMAIN run = {"phase", "awaited"} /\ AtStmt(t, "loop")
        /\ Stacks(threads) /\ InScope(threads, current)
    BY DEF AthInv, ExecBranchMode
  <1>2. PICK i \in Left(<<Block(s.body \o s.execute), b>>) :
           threads' = Append(th, From(<<Block(s.body \o s.execute), b>>, i))
    BY DEF ExecBranchMode
  <1>3. ents' = Append(ents, f) /\ names' = names /\ run' = run
    BY DEF ExecBranchMode
  <1>4. Newborn(f)
    BY EntityNewborn
  <1>5. w.k = "wait" /\ b.k = "branch"
    OBVIOUS
  <1>6. ~Scoped(w) /\ w.k \notin Bottom /\ b.k \in Bottom
    BY <1>5 DEF Scoped, Bottom
  <1> HIDE DEF f, w, b
  <1>7. Whole(ents') /\ DOMAIN ents \subseteq DOMAIN ents' /\ \A e \in DOMAIN ents : ents'[e] = ents[e]
    <2>1. PICK es : Appended(es, ents, f)
      BY DEF Appended
    <2>2. Whole(es) /\ DOMAIN ents \subseteq DOMAIN es /\ \A e \in DOMAIN ents : es[e] = ents[e]
      BY <1>1, <1>4, <2>1, AddOne
    <2>3. ents' = es
      BY <1>3, <2>1 DEF Appended
    <2> QED BY <2>2, <2>3
  <1>8. NamesOf(ents', names')
    BY <1>1, <1>3, <1>7 DEF NamesOf
  <1>9. Based(From(<<Block(s.body \o s.execute), b>>, i))
    BY <1>6, FirstStack
  <1>10. Stacks(th) /\ Len(th) = Len(threads)
    <2>1. Good(q, current)
      BY <1>1, <1>6, RestGood, PushGood
    <2>2. Based(q)
      BY <2>1 DEF Good
    <2> HIDE DEF q
    <2>3. IsSeq(threads) /\ DOMAIN threads = 1..Len(threads) /\ Len(threads) \in Nat
      BY <1>1, SeqFacts DEF Stacks
    <2>4. IsSeq(th) /\ Len(th) = Len(threads)
      <3> PICK n \in Nat : n = Len(threads)
        BY <2>3
      <3>1. th = [k \in 1..n |-> th[k]]
        BY <2>3
      <3> HIDE DEF th
      <3> QED BY <3>1, MakeSeq
    <2>5. \A k \in DOMAIN th : Based(th[k])
      BY <1>1, <2>2, <2>3 DEF Stacks
    <2> QED BY <2>4, <2>5 DEF Stacks
  <1> HIDE DEF th
  <1>11. Stacks(threads') /\ Len(threads') = Len(th) + 1
    <2> PICK st : st = From(<<Block(s.body \o s.execute), b>>, i)
      OBVIOUS
    <2>1. Based(st) /\ threads' = Append(th, st)
      BY <1>2, <1>9
    <2>2. Stacks(Append(th, st)) /\ Len(Append(th, st)) = Len(th) + 1
      BY <1>10, <2>1, AppendStack
    <2> QED BY <2>1, <2>2
  <1>12. InScope(threads', current')
    <2>1. Len(threads) \in Nat /\ Len(threads) >= 1
      BY <1>1, SeqFacts DEF Stacks
    <2>2. Len(threads') # 1
      BY <1>10, <1>11, <2>1
    <2> QED BY <2>2 DEF InScope
  <1>13. Siblings
    BY <1>7 DEF Siblings
  <1> QED BY <1>1, <1>3, <1>7, <1>8, <1>11, <1>12, <1>13 DEF Kept

LEMMA ExecDieKept ==
    ASSUME AthInv, NEW t \in DOMAIN threads, threads[t] # <<>>, ExecDie(t)
    PROVE  Kept
  <1> DEFINE q == Stmt(t).targets
             known == {i \in DOMAIN q : \A k \in {i} \cup 1..i : q[k] \in DOMAIN names}
  <1>1. Whole(ents) /\ NamesOf(ents, names) /\ DOMAIN run = {"phase", "awaited"} /\ AtStmt(t, "die")
        /\ Stacks(threads) /\ InScope(threads, current)
    BY DEF AthInv, ExecDie
  <1>2. ASSUME NEW D, D \subseteq DOMAIN names, D \subseteq Range(q)
        PROVE  /\ Whole(Kill(ents, Named(D))) /\ NamesOf(Kill(ents, Named(D)), names)
               /\ DOMAIN Kill(ents, Named(D)) = DOMAIN ents
               /\ \A e \in DOMAIN ents :
                     /\ Kill(ents, Named(D))[e].kind = ents[e].kind
                     /\ Kill(ents, Named(D))[e].dead => ents[e].dead \/ PutToDeath(e)
    <2>1. Whole(Kill(ents, Named(D))) /\ NamesOf(Kill(ents, Named(D)), names)
      BY <1>1, <1>2, NamedKill
    <2>2. /\ DOMAIN Kill(ents, Named(D)) = DOMAIN ents
          /\ \A e \in DOMAIN ents : /\ Kill(ents, Named(D))[e].kind = ents[e].kind
                                    /\ Kill(ents, Named(D))[e].dead = (ents[e].dead \/ e \in Named(D))
      BY <1>1, KillFacts
    <2>3. ASSUME NEW e \in Named(D) PROVE PutToDeath(e)
      <3>1. PICK n \in D : names[n] = e
        BY DEF Named
      <3>2. PICK i \in DOMAIN q : q[i] = n
        BY <1>2 DEF Range
      <3> QED BY <1>1, <1>2, <3>1, <3>2 DEF PutToDeath
    <2> QED BY <2>1, <2>2, <2>3
  <1>3. CASE known = DOMAIN q
    <2>1. ents' = Kill(ents, Named(Range(q))) /\ Continue(t, Rest(t)) /\ names' = names /\ run' = run
          /\ current' = current
      BY <1>3 DEF ExecDie
    <2>2. Range(q) \subseteq DOMAIN names
      <3>1. ASSUME NEW i \in DOMAIN q PROVE q[i] \in DOMAIN names
        <4>1. i \in known
          BY <1>3
        <4> QED BY <4>1
      <3> QED BY <3>1 DEF Range
    <2>3. Stacks(threads') /\ InScope(threads', current')
      BY <1>1, <2>1, RestGood, ContinueGood
    <2>4. Siblings
      BY <1>2, <2>1, <2>2 DEF Siblings
    <2> QED BY <1>1, <1>2, <2>1, <2>2, <2>3, <2>4 DEF Kept
  <1>4. CASE known # DOMAIN q
    <2> DEFINE D == {q[i] : i \in known}
               es == Kill(ents, Named(D))
    <2>1. Throw(t, es, "error", Error) /\ names' = names
      BY <1>4 DEF ExecDie, Fail
    <2>2. D \subseteq DOMAIN names /\ D \subseteq Range(q)
      BY DEF Range
    <2>3. /\ Whole(es) /\ NamesOf(es, names) /\ DOMAIN es = DOMAIN ents
          /\ \A e \in DOMAIN ents : /\ es[e].kind = ents[e].kind
                                    /\ es[e].dead => ents[e].dead \/ PutToDeath(e)
      BY <1>2, <2>2
    <2> HIDE DEF es
    <2> QED BY <2>1, <2>3, ThrowKept
  <1> QED BY <1>3, <1>4

\* The steps that leave the entities alone: what the thread goes on with is good.
LEMMA GoOn ==
    ASSUME AthInv, NEW t \in DOMAIN threads, NEW q, Good(q, current'),
           Continue(t, q) \/ threads' = [threads EXCEPT ![t] = q],
           ents' = ents, names' = names, run' = run
    PROVE  Kept
  <1>1. Stacks(threads)
    BY DEF AthInv
  <1>2. Stacks(threads') /\ InScope(threads', current')
    BY <1>1, ContinueGood, PutGood
  <1> QED BY <1>2, StillKept

LEMMA FrameGood ==
    ASSUME NEW f, NEW q, NEW c, Good(q, c), f.k \in {"store", "attempt", "wait"}
    PROVE  Good(<<f>> \o q, c)
  <1>1. ~Scoped(f) /\ f.k \notin Bottom
    BY DEF Scoped, Bottom
  <1> QED BY <1>1, PushGood

LEMMA ExecValueKept ==
    ASSUME AthInv, NEW t \in DOMAIN threads, threads[t] # <<>>, ExecValue(t)
    PROVE  Kept
  <1> DEFINE s == Stmt(t)
             v == Eval(s.value, Visible(current))
             f == [k |-> "store", how |-> s.how, name |-> s.name, value |-> v]
  <1>1. CASE v = Err
    BY <1>1, FailKept DEF ExecValue
  <1>2. CASE v # Err
    <2>1. AtStmt(t, "value") /\ threads' = [threads EXCEPT ![t] = <<f>> \o Rest(t)]
          /\ ents' = ents /\ names' = names /\ current' = current /\ run' = run
      BY <1>2 DEF ExecValue
    <2>2. f.k = "store"
      OBVIOUS
    <2> HIDE DEF f
    <2>3. Good(<<f>> \o Rest(t), current')
      BY <2>1, <2>2, RestGood, FrameGood DEF AthInv
    <2> QED BY <2>1, <2>3, GoOn
  <1> QED BY <1>1, <1>2

LEMMA StoreKept ==
    ASSUME AthInv, NEW t \in DOMAIN threads, threads[t] # <<>>, Store(t)
    PROVE  Kept
  <1>1. Top(t).k = "store"
    BY DEF Store
  <1>2. CASE Fail(t, ents)
    BY <1>2, FailKept
  <1>3. CASE Continue(t, Below1(t)) /\ UNCHANGED <<ents, names, branches, current, pending, run>>
    <2>1. ~Scoped(Top(t)) /\ Top(t).k \notin Bottom
      BY <1>1 DEF Scoped, Bottom
    <2>2. Good(Below1(t), current')
      BY <1>3, <2>1, BelowGood DEF AthInv
    <2> QED BY <1>3, <2>2, GoOn
  <1> QED BY <1>2, <1>3 DEF Store

LEMMA ExecRiteDefKept ==
    ASSUME AthInv, NEW t \in DOMAIN threads, threads[t] # <<>>, ExecRiteDef(t)
    PROVE  Kept
  <1>1. AtStmt(t, "rite") /\ Continue(t, Rest(t))
        /\ ents' = ents /\ names' = names /\ current' = current /\ run' = run
    BY DEF ExecRiteDef
  <1>2. Good(Rest(t), current')
    BY <1>1, RestGood DEF AthInv
  <1> QED BY <1>1, <1>2, GoOn

LEMMA CallRiteKept ==
    ASSUME AthInv, NEW t \in DOMAIN threads, threads[t] # <<>>, CallRite(t)
    PROVE  Kept
  <1> DEFINE s == Stmt(t)
             f == [k |-> "rite", old |-> current, own |-> Len(scopes'), how |-> s.how, name |-> s.name]
             rite == Visible(current)[s.rite]
  <1>1. CASE Fail(t, ents)
    BY <1>1, FailKept
  <1>2. CASE ~Fail(t, ents)
    <2>1. AtStmt(t, "call") /\ current' = Len(scopes')
          /\ Continue(t, <<Block(rite[3]), f>> \o Rest(t))
          /\ ents' = ents /\ names' = names /\ run' = run
      BY <1>2 DEF CallRite
    <2>2. f.k = "rite" /\ f.old = current /\ f.own = current'
      BY <2>1
    <2> HIDE DEF f
    <2>3. Scoped(f) /\ f.k \notin Bottom
      BY <2>2 DEF Scoped, Bottom
    <2>4. Good(Rest(t), current)
      BY <2>1, RestGood DEF AthInv
    <2>5. Good(<<f>> \o Rest(t), current')
      BY <2>2, <2>3, <2>4, PushGood
    <2>6. Good(<<Block(rite[3])>> \o (<<f>> \o Rest(t)), current')
      BY <2>5, BlockGood
    <2>7. <<Block(rite[3]), f>> \o Rest(t) = <<Block(rite[3])>> \o (<<f>> \o Rest(t))
      BY <2>4, PushTwo DEF Good, Based
    <2>8. Good(<<Block(rite[3]), f>> \o Rest(t), current')
      BY <2>6, <2>7
    <2> QED BY <2>1, <2>8, GoOn
  <1> QED BY <1>1, <1>2

LEMMA ExecConditionalKept ==
    ASSUME AthInv, NEW t \in DOMAIN threads, threads[t] # <<>>, ExecConditional(t)
    PROVE  Kept
  <1> DEFINE v == Eval(Stmt(t).condition, Visible(current))
             stmts == IF IsTruthy(v) THEN Stmt(t).then ELSE Stmt(t).else
  <1>1. CASE v = Err
    BY <1>1, FailKept DEF ExecConditional
  <1>2. CASE v # Err
    <2>1. AtStmt(t, "should") /\ Continue(t, <<Block(stmts)>> \o Rest(t))
          /\ ents' = ents /\ names' = names /\ current' = current /\ run' = run
      BY <1>2 DEF ExecConditional
    <2> HIDE DEF stmts
    <2>2. Good(<<Block(stmts)>> \o Rest(t), current')
      BY <2>1, RestGood, BlockGood DEF AthInv
    <2> QED BY <2>1, <2>2, GoOn
  <1> QED BY <1>1, <1>2

LEMMA ExecAttemptSalvageKept ==
    ASSUME AthInv, NEW t \in DOMAIN threads, threads[t] # <<>>, ExecAttemptSalvage(t)
    PROVE  Kept
  <1> DEFINE f == [k |-> "attempt", name |-> Stmt(t).name, salvage |-> Stmt(t).salvage]
             b == Stmt(t).body
  <1>1. AtStmt(t, "attempt") /\ Continue(t, <<Block(b), f>> \o Rest(t))
        /\ ents' = ents /\ names' = names /\ current' = current /\ run' = run
    BY DEF ExecAttemptSalvage
  <1>2. f.k = "attempt"
    OBVIOUS
  <1> HIDE DEF f, b
  <1>3. Good(Rest(t), current')
    BY <1>1, RestGood DEF AthInv
  <1>4. Good(<<Block(b)>> \o (<<f>> \o Rest(t)), current')
    BY <1>2, <1>3, FrameGood, BlockGood
  <1>5. <<Block(b), f>> \o Rest(t) = <<Block(b)>> \o (<<f>> \o Rest(t))
    BY <1>3, PushTwo DEF Good, Based
  <1>6. Good(<<Block(b), f>> \o Rest(t), current')
    BY <1>4, <1>5
  <1> QED BY <1>1, <1>6, GoOn

LEMMA ExecCondemnKept ==
    ASSUME AthInv, NEW t \in DOMAIN threads, threads[t] # <<>>, ExecCondemn(t)
    PROVE  Kept
  <1>1. PICK value : Throw(t, ents, "error", value)
    BY DEF ExecCondemn
  <1>2. names' = names /\ Whole(ents) /\ NamesOf(ents, names)
    BY DEF ExecCondemn, AthInv
  <1> QED BY <1>1, <1>2, ThrowKept

LEMMA ExecBequeathKept ==
    ASSUME AthInv, NEW t \in DOMAIN threads, threads[t] # <<>>, ExecBequeath(t)
    PROVE  Kept
  <1>1. CASE Fail(t, ents)
    BY <1>1, FailKept
  <1>2. CASE ~Fail(t, ents)
    <2>1. PICK v : Throw(t, ents, "return", v)
      BY <1>2 DEF ExecBequeath
    <2>2. names' = names /\ Whole(ents) /\ NamesOf(ents, names)
      BY <1>2 DEF ExecBequeath, AthInv
    <2> QED BY <2>1, <2>2, ThrowKept
  <1> QED BY <1>1, <1>2

LEMMA ResumeKept ==
    ASSUME AthInv, NEW t \in DOMAIN threads, threads[t] # <<>>, Resume(t)
    PROVE  Kept
  <1>1. Top(t).k = "wait" /\ Continue(t, Below1(t))
        /\ ents' = ents /\ names' = names /\ current' = current /\ run' = run
    BY DEF Resume
  <1>2. ~Scoped(Top(t)) /\ Top(t).k \notin Bottom
    BY <1>1 DEF Scoped, Bottom
  <1>3. Good(Below1(t), current')
    BY <1>1, <1>2, BelowGood DEF AthInv
  <1> QED BY <1>1, <1>3, GoOn

LEMMA LeaveRiteKept ==
    ASSUME AthInv, NEW t \in DOMAIN threads, threads[t] # <<>>, LeaveRite(t)
    PROVE  Kept
  <1> DEFINE f == [k |-> "store", how |-> Top(t).how, name |-> Top(t).name, value |-> Void]
  <1>1. Top(t).k = "rite" /\ current' = Top(t).old /\ threads' = [threads EXCEPT ![t] = <<f>> \o Below1(t)]
        /\ ents' = ents /\ names' = names /\ run' = run
    BY DEF LeaveRite
  <1>2. f.k = "store"
    OBVIOUS
  <1> HIDE DEF f
  <1>3. Scoped(Top(t)) /\ Top(t).k \notin Bottom
    BY <1>1 DEF Scoped, Bottom
  <1>4. Good(Below1(t), current')
    BY <1>1, <1>3, BelowGood DEF AthInv
  <1>5. Good(<<f>> \o Below1(t), current')
    BY <1>2, <1>4, FrameGood
  <1> QED BY <1>1, <1>5, GoOn

LEMMA LeaveSalvageKept ==
    ASSUME AthInv, NEW t \in DOMAIN threads, threads[t] # <<>>, LeaveSalvage(t)
    PROVE  Kept
  <1>1. Top(t).k = "salvage" /\ current' = Top(t).old /\ Continue(t, Below1(t))
        /\ ents' = ents /\ names' = names /\ run' = run
    BY DEF LeaveSalvage
  <1>2. Scoped(Top(t)) /\ Top(t).k \notin Bottom
    BY <1>1 DEF Scoped, Bottom
  <1>3. Good(Below1(t), current')
    BY <1>1, <1>2, BelowGood DEF AthInv
  <1> QED BY <1>1, <1>3, GoOn

LEMMA FinishBranchKept ==
    ASSUME AthInv, NEW t \in DOMAIN threads, threads[t] # <<>>, FinishBranch(t)
    PROVE  Kept
  <1> DEFINE st == threads[t]
  <1>1. Top(t).k = "branch" /\ ents' = Completed(ents, Top(t).entity)
        /\ threads' = [threads EXCEPT ![t] = <<>>] /\ names' = names /\ run' = run
    BY DEF FinishBranch
  <1>2. Stacks(threads) /\ Whole(ents) /\ NamesOf(ents, names) /\ DOMAIN run = {"phase", "awaited"}
        /\ Based(st) /\ IsSeq(st)
    BY DEF AthInv, Stacks, Based
  <1>3. Stacks(threads') /\ InScope(threads', current')
    BY <1>1, <1>2, PutGood
  <1>4. t \in BranchThread(Top(t).entity)
    <2>1. Head(st) = st[1] /\ Len(st) \in Nat /\ Len(st) >= 1 /\ DOMAIN st = 1..Len(st)
      BY <1>2, TailFacts, SeqFacts
    <2>2. st[1].k = "branch" /\ 1 \in DOMAIN st
      BY <1>1, <2>1 DEF Top
    <2>3. Len(st) = 1
      BY <1>2, <2>2 DEF Based
    <2>4. st[Len(st)] = Top(t)
      BY <2>1, <2>3 DEF Top
    <2> QED BY <1>1, <2>4 DEF BranchThread
  <1>5. /\ Whole(ents') /\ NamesOf(ents', names)
        /\ \A e \in DOMAIN ents : ents'[e].dead => ents[e].dead \/ e = Top(t).entity
    BY <1>1, <1>2, CompletedKeeps
  <1>6. threads'[t] = <<>>
    BY <1>1
  <1>7. Siblings
    BY <1>4, <1>5, <1>6 DEF Siblings
  <1> QED BY <1>1, <1>2, <1>3, <1>5, <1>7 DEF Kept

LEMMA FinishProgramKept ==
    ASSUME AthInv, NEW t \in DOMAIN threads, threads[t] # <<>>, FinishProgram(t)
    PROVE  Kept
  <1>1. /\ ents' = ents /\ names' = names /\ threads' = [threads EXCEPT ![t] = <<>>]
        /\ DOMAIN run' = {"phase", "awaited"}
    BY DEF FinishProgram
  <1>2. Stacks(threads) /\ Whole(ents) /\ NamesOf(ents, names)
    BY DEF AthInv
  <1>3. Stacks(threads') /\ InScope(threads', current')
    BY <1>1, <1>2, PutGood
  <1> QED BY <1>1, <1>2, <1>3 DEF Kept, Siblings

\* The deaths of what is no branch.
LEMMA OneDeath ==
    ASSUME AthInv, NEW d, ents' = Kill(ents, {d}), names' = names, threads' = threads, current' = current,
           run' = run, d \in DOMAIN ents => ents[d].kind # "branch",
           (d \in DOMAIN ents /\ ents[d].kind \in Composite) => Reason(ents, d)
    PROVE  Kept
  <1>1. Whole(ents) /\ NamesOf(ents, names) /\ DOMAIN run = {"phase", "awaited"}
        /\ Stacks(threads) /\ InScope(threads, current)
    BY DEF AthInv
  <1>2. \A e \in DOMAIN ents \cap {d} : ents[e].kind \in Composite => Reason(ents, e)
    OBVIOUS
  <1>3. Whole(Kill(ents, {d})) /\ NamesOf(Kill(ents, {d}), names)
    BY <1>1, <1>2, KillWhole, KillNames
  <1>4. \A e \in DOMAIN ents : Kill(ents, {d})[e].dead => ents[e].dead \/ e = d
    BY <1>1, KillFacts
  <1>5. Siblings
    BY <1>4 DEF Siblings
  <1> QED BY <1>1, <1>3, <1>5 DEF Kept

LEMMA CompositeDiesKept ==
    ASSUME AthInv, NEW e \in DOMAIN ents, CompositeDies(e)
    PROVE  Kept
  <1>1. ents[e].kind \in Composite /\ ents[e].kind # "branch"
    BY DEF CompositeDies, Due, Composite
  <1>2. Reason(ents, e)
    <2>1. CASE ents[e].kind = "AND"
      BY <2>1 DEF CompositeDies, Due, Reason
    <2>2. CASE ents[e].kind = "OR"
      BY <2>2 DEF CompositeDies, Due, Reason
    <2>3. CASE ents[e].kind \notin {"AND", "OR"}
      BY <2>3 DEF Reason
    <2> QED BY <2>1, <2>2, <2>3
  <1> QED BY <1>1, <1>2, OneDeath DEF CompositeDies

LEMMA FireKept ==
    ASSUME AthInv, NEW e \in DOMAIN ents, Fire(e)
    PROVE  Kept
  <1>1. ents[e].kind \notin Composite /\ ents[e].kind # "branch"
    BY DEF Fire, First, Running, Composite
  <1> QED BY <1>1, OneDeath DEF Fire

LEMMA EndKept ==
    ASSUME AthInv, End
    PROVE  Kept
  <1>1. Whole(ents) /\ NamesOf(ents, names) /\ DOMAIN run = {"phase", "awaited"}
        /\ Stacks(threads) /\ InScope(threads, current)
    BY DEF AthInv
  <1>2. ents' = Kill(ents, Named(DOMAIN names)) /\ names' = names /\ threads' = threads /\ current' = current
        /\ run' = [run EXCEPT !.phase = "ended"]
    BY DEF End
  <1>3. Whole(ents') /\ NamesOf(ents', names)
    BY <1>1, <1>2, NamedKill
  <1>4. DOMAIN run' = {"phase", "awaited"} /\ run'.phase = "ended"
    BY <1>1, <1>2
  <1> QED BY <1>1, <1>2, <1>3, <1>4 DEF Kept, Siblings

LEMMA StepKept ==
    ASSUME AthInv, AthNext
    PROVE  Kept
  <1>1. ASSUME NEW t \in DOMAIN threads, ~Blocked(t), Step(t) PROVE Kept
    <2>1. threads[t] # <<>>
      BY <1>1 DEF Blocked
    <2> QED BY <1>1, <2>1, ExecImportKept, ExecBifurcateKept, ExecAthLoopKept, ExecBranchModeKept, ExecDieKept,
               ExecValueKept, StoreKept, ExecRiteDefKept, CallRiteKept, ExecConditionalKept,
               ExecAttemptSalvageKept, ExecCondemnKept, ExecBequeathKept, ResumeKept, LeaveRiteKept,
               LeaveSalvageKept, FinishBranchKept, FinishProgramKept
            DEF Step
  <1>2. ASSUME NEW e \in DOMAIN ents, CompositeDies(e) \/ Fire(e) PROVE Kept
    BY <1>2, CompositeDiesKept, FireKept
  <1> QED BY <1>1, <1>2, EndKept DEF AthNext

LEMMA AthInitInv == AthInit => AthInv
  <1> SUFFICES ASSUME AthInit PROVE AthInv
    OBVIOUS
  <1> DEFINE this == Entity("this", FALSE, 0, <<>>)
             b == [k |-> "program", base |-> 1]
  <1>1. Newborn(this) /\ this.kind = "this"
    BY EntityNewborn
  <1> HIDE DEF this
  <1>2. ents = <<this>> /\ names = [n \in {"THIS"} |-> 1] /\ DOMAIN run = {"phase", "awaited"} /\ current = 1
    BY DEF AthInit, this
  <1>3. IsSeq(ents) /\ DOMAIN ents = {1} /\ ents[1] = this
    BY <1>2 DEF IsSeq
  <1>4. Whole(ents)
    BY <1>1, <1>3, NoParts DEF Whole, Newborn
  <1>5. NamesOf(ents, names)
    BY <1>1, <1>2, <1>3 DEF NamesOf, Composite
  <1>6. b.k \in Bottom /\ b.base = 1
    BY DEF Bottom
  <1>7. PICK p \in Programs :
           \E i \in Left(<<Block(p), b>>) : threads = <<From(<<Block(p), b>>, i)>>
    BY DEF AthInit
  <1> HIDE DEF b
  <1>8. PICK st : threads = <<st>> /\ Based(st) /\ Nested(st) /\ Own(st) = 1
    BY <1>6, <1>7, FirstStack
  <1>9. IsSeq(threads) /\ DOMAIN threads = {1} /\ threads[1] = st
    BY <1>8 DEF IsSeq
  <1>10. Stacks(threads) /\ InScope(threads, current)
    BY <1>2, <1>8, <1>9 DEF Stacks, InScope
  <1> QED BY <1>2, <1>4, <1>5, <1>10 DEF AthInv

LEMMA AthStep == AthInv /\ [AthNext]_athVars => AthInv'
  <1>1. ASSUME AthInv, AthNext PROVE AthInv'
    BY <1>1, StepKept DEF Kept, AthInv
  <1>2. ASSUME AthInv, UNCHANGED athVars PROVE AthInv'
    BY <1>2 DEF AthInv, athVars
  <1> QED BY <1>1, <1>2

\* In every state of every run of every program: entities are made of entities made before and
\* died for a reason, names stand for what a program can name, each thread is a stack with the
\* program or its branch at the bottom, and the scopes a lonely program's frames keep are those
\* of the frames around them (Entity, execStatements, callRite).
THEOREM AthInvariant == AthSpec => []AthInv
  BY AthInitInv, AthStep, PTL DEF AthSpec

\* A composite that died had all its parts, or one, dead before it (CompositeEntity).
THEOREM CompositesSound == AthSpec => []CompositeSound
  <1>1. AthInv => CompositeSound
    BY DEF AthInv, Whole, Reason, CompositeSound
  <1> QED BY <1>1, AthInvariant, PTL

\* Without branches the current scope is that of the innermost rite or SALVAGE entered and not
\* left, or the global one, whatever rites, errors, handlers and waits the program went through
\* (callRite, execAttemptSalvage).  An EXECUTE block has none of its own, as in the interpreter.
THEOREM ScopeIsSequential == AthSpec => []SequentialScope
  <1>1. AthInv => SequentialScope
    BY DEF AthInv, InScope, SequentialScope, OwnScope
  <1> QED BY <1>1, AthInvariant, PTL

\* No branch dies because another one ended (execBranchMode, BranchEntity).
THEOREM BranchesAreTheirOwn == AthSpec => SiblingsSurvive
  <1>1. AthInv /\ [AthNext]_athVars => [Siblings]_athVars
    BY StepKept DEF Kept
  <1>2. [Siblings]_athVars =>
            [\A e \in DOMAIN ents : (ents[e].kind = "branch" /\ ~ents[e].dead /\ ents'[e].dead) =>
                \/ run'.phase \in {"ended", "failed"}
                \/ \E t \in BranchThread(e) : threads'[t] = <<>>
                \/ PutToDeath(e)]_athVars
    BY DEF Siblings
  <1> QED BY <1>1, <1>2, AthInvariant, PTL DEF AthSpec, SiblingsSurvive

------------------------------------------------------------------------------
(* Nothing made of timers is stuck.                                        *)

\* What FromTimers computes, up to an entity.
IsMade(es, f, n) == f = [i \in 1..n |-> MadeOfTimers(es, f, i)]

LEMMA MadeExists ==
    ASSUME NEW es, Whole(es), NEW n \in DOMAIN es
    PROVE  \E f : IsMade(es, f, n)
  <1>1. DOMAIN es = 1..Len(es) /\ Len(es) \in Nat
    BY SeqFacts DEF Whole
  <1> DEFINE N == {m \in Nat : m <= Len(es) => \E f : IsMade(es, f, m)}
  <1>2. 0 \in N
    <2> DEFINE f == [i \in 1..0 |-> TRUE]
    <2>1. IsMade(es, f, 0)
      BY DEF IsMade
    <2> QED BY <2>1
  <1>3. ASSUME NEW m \in Nat, m \in N PROVE m + 1 \in N
    <2> SUFFICES ASSUME m + 1 <= Len(es) PROVE \E f : IsMade(es, f, m + 1)
      OBVIOUS
    <2>1. PICK f : IsMade(es, f, m)
      BY <1>1, <1>3
    <2> DEFINE h == [i \in 1..(m + 1) |-> MadeOfTimers(es, f, i)]
    <2>2. \A i \in 1..(m + 1) : \A p \in Range(es[i].parts) : p \in 1..m /\ h[p] = f[p]
      <3> SUFFICES ASSUME NEW i \in 1..(m + 1), NEW p \in Range(es[i].parts) PROVE p \in 1..m /\ h[p] = f[p]
        OBVIOUS
      <3>1. p \in 1..(i - 1)
        BY <1>1 DEF Whole
      <3>2. p \in 1..m /\ p \in 1..(m + 1)
        BY <3>1
      <3>3. f[p] = MadeOfTimers(es, f, p)
        BY <2>1, <3>2 DEF IsMade
      <3> QED BY <3>2, <3>3
    <2>3. \A i \in 1..(m + 1) : MadeOfTimers(es, h, i) = MadeOfTimers(es, f, i)
      <3> HIDE DEF h
      <3> QED BY <2>2 DEF MadeOfTimers
    <2>4. h = [i \in 1..(m + 1) |-> MadeOfTimers(es, h, i)]
      <3>1. [i \in 1..(m + 1) |-> MadeOfTimers(es, h, i)] = [i \in 1..(m + 1) |-> MadeOfTimers(es, f, i)]
        BY <2>3, Zenon
      <3> QED BY <3>1
    <2> QED BY <2>4 DEF IsMade
  <1>4. n \in N
    <2> HIDE DEF N
    <2> QED BY <1>1, <1>2, <1>3, SetInduction
  <1> QED BY <1>1, <1>4

LEMMA FromTimersMade ==
    ASSUME AthInv, NEW e \in DOMAIN ents
    PROVE  \E f : IsMade(ents, f, e) /\ FromTimers(e) = f[e]
  <1> DEFINE g == CHOOSE f : f = [i \in 1..e |-> MadeOfTimers(ents, f, i)]
  <1>1. IsMade(ents, g, e)
    <2>1. \E f : f = [i \in 1..e |-> MadeOfTimers(ents, f, i)]
      BY MadeExists DEF AthInv, IsMade
    <2> QED BY <2>1 DEF IsMade
  <1>2. FromTimers(e) = g[e]
    BY DEF FromTimers
  <1> QED BY <1>1, <1>2

\* The first timer of those that are running.
LEMMA SomeTimerIsFirst ==
    ASSUME AthInv, NEW e \in DOMAIN ents, Running(e)
    PROVE  \E d \in DOMAIN ents : First(d)
  <1>1. DOMAIN ents = 1..Len(ents) /\ Len(ents) \in Nat
    BY SeqFacts DEF AthInv, Whole
  <1> DEFINE S == {d \in DOMAIN ents : Running(d)}
  <1>2. PICK d \in S : \A k \in S : d <= k
    <2>1. S \subseteq 1..Len(ents) /\ S # {}
      BY <1>1
    <2> HIDE DEF S
    <2> QED BY <1>1, <2>1, Least
  <1>3. \A c \in 1..(d - 1) : ~Running(c)
    BY <1>1, <1>2
  <1> QED BY <1>2, <1>3 DEF First

\* Where no composite is due, the oldest of the living that are made of timers is a timer.
LEMMA ATimerRuns ==
    ASSUME AthInv, NEW e \in DOMAIN ents, FromTimers(e), ~ents[e].dead, \A c \in DOMAIN ents : ~Due(c)
    PROVE  \E d \in DOMAIN ents : Running(d)
  <1>1. DOMAIN ents = 1..Len(ents) /\ Len(ents) \in Nat
    BY SeqFacts DEF AthInv, Whole
  <1>2. PICK f : IsMade(ents, f, e) /\ FromTimers(e) = f[e]
    BY FromTimersMade
  <1> DEFINE S == {i \in 1..e : f[i] /\ ~ents[i].dead}
  <1>3. PICK d \in S : \A k \in S : d <= k
    <2>1. e \in Nat /\ e \in 1..e
      BY <1>1
    <2>2. f[e]
      BY <1>2, Zenon
    <2>3. e \in S
      BY <2>1, <2>2, Zenon
    <2>4. S \subseteq 1..e
      OBVIOUS
    <2> HIDE DEF S
    <2> QED BY <2>1, <2>3, <2>4, Least
  <1>4. d \in DOMAIN ents /\ d \in 1..e /\ f[d] /\ ~ents[d].dead
    BY <1>1, <1>3
  <1>5. Range(ents[d].parts) \subseteq 1..(d - 1)
    BY <1>4 DEF AthInv, Whole
  <1>6. \A p \in Range(ents[d].parts) : f[p] => ents[p].dead
    <2> SUFFICES ASSUME NEW p \in Range(ents[d].parts), f[p], ~ents[p].dead PROVE FALSE
      OBVIOUS
    <2>1. p \in 1..(d - 1)
      BY <1>5
    <2>2. p \in 1..e /\ p < d
      BY <1>1, <1>4, <2>1
    <2> QED BY <1>3, <2>2
  <1>7. f[d] = MadeOfTimers(ents, f, d)
    BY <1>2, <1>4 DEF IsMade
  <1> HIDE DEF S
  <1>8. ents[d].kind \in {"timer", "tick"}
    <2>1. ~Due(d)
      BY <1>4
    <2>2. ents[d].kind # "NOT"
      BY <1>4, <2>1 DEF Due
    <2>3. ents[d].kind # "AND"
      <3> SUFFICES ASSUME ents[d].kind = "AND" PROVE FALSE
        OBVIOUS
      <3>1. \A p \in Range(ents[d].parts) : f[p]
        BY <1>4, <1>7 DEF MadeOfTimers
      <3> QED BY <1>4, <1>6, <2>1, <3>1 DEF Due
    <2>4. ents[d].kind # "OR"
      <3> SUFFICES ASSUME ents[d].kind = "OR" PROVE FALSE
        OBVIOUS
      <3>1. \E p \in Range(ents[d].parts) : f[p]
        BY <1>4, <1>7 DEF MadeOfTimers
      <3> QED BY <1>4, <1>6, <2>1, <3>1 DEF Due
    <2> QED BY <1>4, <1>7, <2>2, <2>3, <2>4 DEF MadeOfTimers
  <1> QED BY <1>4, <1>8 DEF Running

\* As long as something made of timers lives, something can go on: a thread that is not blocked,
\* a composite that is due, the end of the program, or a timer, which is let fire (Entity,
\* CompositeEntity, TimerEntity).  This is the safety that EveryTimerEnds asks for.
THEOREM TimersAlwaysGoOn == AthSpec => []NeverStuck
  <1>1. AthInv => NeverStuck
    <2> SUFFICES ASSUME AthInv, Idle, NEW e \in DOMAIN ents, FromTimers(e), ~ents[e].dead
                 PROVE  \E d \in DOMAIN ents : First(d)
      BY DEF NeverStuck
    <2>1. \A c \in DOMAIN ents : ~Due(c)
      BY DEF Idle
    <2> QED BY <2>1, ATimerRuns, SomeTimerIsFirst
  <1> QED BY <1>1, AthInvariant, PTL
===============================================================================
