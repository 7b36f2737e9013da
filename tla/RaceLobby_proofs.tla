--------------------------- MODULE RaceLobby_proofs ----------------------------
(***************************************************************************)
(* What the pages of a room know of each other, for any number of guests,  *)
(* clicks, challenges, races and lost connections.                         *)
(***************************************************************************)
EXTENDS RaceLobby, WellFoundedInduction, TLAPS

(* Induction over the naturals, for a set in place of a predicate.         *)
LEMMA SetInduction ==
  ASSUME NEW S, 0 \in S, \A n \in Nat : n \in S => n + 1 \in S
  PROVE  \A n \in Nat : n \in S
<1> SUFFICES ASSUME NEW m \in Nat, m \notin S PROVE FALSE
  OBVIOUS
<1> DEFINE T == {n \in Nat : n \notin S}
<1>1. T \subseteq Nat /\ T # {}
  OBVIOUS
<1>2. IsWellFoundedOn(OpToRel(<, Nat), Nat)
  BY NatLessThanWellFounded
<1> HIDE DEF T
<1>3. PICK x \in T : \A y \in T : ~ (<<y, x>> \in OpToRel(<, Nat))
  BY <1>1, <1>2, WFMin
<1>4. x \in Nat /\ x \notin S /\ x # 0
  BY DEF T
<1>5. x - 1 \in Nat /\ x - 1 \in T
  BY <1>4 DEF T
<1>6. <<x - 1, x>> \in OpToRel(<, Nat)
  BY <1>4, <1>5 DEF OpToRel
<1> QED BY <1>3, <1>5, <1>6

-----------------------------------------------------------------------------
(* What Copies and View compute.                                           *)

IsCopies(f, L, q, n) == f = [i \in 0..n |-> IF i = 0 THEN L ELSE Apply(f[i - 1], q[i])]

LEMMA CopiesExist == \A n \in Nat : \A L, q : \E f : IsCopies(f, L, q, n)
<1> DEFINE S == {n \in Nat : \A L, q : \E f : IsCopies(f, L, q, n)}
<1>1. 0 \in S
  <2> SUFFICES ASSUME NEW L, NEW q PROVE \E f : IsCopies(f, L, q, 0)
    OBVIOUS
  <2>1. IsCopies([i \in 0..0 |-> L], L, q, 0)
    BY DEF IsCopies
  <2> QED BY <2>1
<1>2. ASSUME NEW n \in Nat, n \in S PROVE n + 1 \in S
  <2> SUFFICES ASSUME NEW L, NEW q PROVE \E f : IsCopies(f, L, q, n + 1)
    OBVIOUS
  <2>1. PICK f : IsCopies(f, L, q, n)
    BY <1>2
  <2> DEFINE h == [i \in 0..n + 1 |-> IF i = n + 1 THEN Apply(f[n], q[n + 1]) ELSE f[i]]
  <2>2. IsCopies(h, L, q, n + 1)
    BY <2>1 DEF IsCopies
  <2> QED BY <2>2
<1> HIDE DEF S
<1>3. \A n \in Nat : n \in S
  BY <1>1, <1>2, SetInduction
<1> QED BY <1>3 DEF S

LEMMA CopiesDef ==
  ASSUME NEW L, NEW q, Len(q) \in Nat
  PROVE  /\ Copies(L, q)[0] = L
         /\ \A i \in 1..Len(q) : Copies(L, q)[i] = Apply(Copies(L, q)[i - 1], q[i])
<1>1. \E f : IsCopies(f, L, q, Len(q))
  BY CopiesExist
<1>2. Copies(L, q) = CHOOSE f : IsCopies(f, L, q, Len(q))
  BY DEF Copies, IsCopies
<1>3. IsCopies(Copies(L, q), L, q, Len(q))
  BY <1>1, <1>2
<1> QED BY <1>3 DEF IsCopies

LEMMA UpTo ==
  ASSUME NEW n \in Nat, NEW S, 0 \in S, \A i \in 1..n : i - 1 \in S => i \in S
  PROVE  \A i \in 0..n : i \in S
<1> DEFINE T == {i \in Nat : i <= n => i \in S}
<1>1. 0 \in T
  OBVIOUS
<1>2. ASSUME NEW i \in Nat, i \in T PROVE i + 1 \in T
  <2>1. CASE i + 1 <= n
    <3>1. i \in S /\ i + 1 \in 1..n /\ (i + 1) - 1 = i
      BY <1>2, <2>1
    <3> QED BY <3>1
  <2>2. CASE ~ i + 1 <= n
    BY <2>2
  <2> QED BY <2>1, <2>2
<1> HIDE DEF T
<1>3. \A i \in Nat : i \in T
  BY <1>1, <1>2, SetInduction
<1> QED BY <1>3 DEF T

LEMMA ViewEmpty == ASSUME NEW L PROVE View(L, <<>>) = L
BY CopiesDef DEF View

LEMMA ViewAppend ==
  ASSUME NEW M, NEW q \in Seq(M), NEW m \in M, NEW L
  PROVE  View(L, Append(q, m)) = Apply(View(L, q), m)
<1> DEFINE r == Append(q, m)
           S == {i \in 0..Len(q) : Copies(L, r)[i] = Copies(L, q)[i]}
<1>1. r \in Seq(M) /\ Len(r) = Len(q) + 1 /\ r[Len(r)] = m /\ \A i \in 1..Len(q) : r[i] = q[i]
  OBVIOUS
<1>2. /\ Copies(L, q)[0] = L /\ Copies(L, r)[0] = L
      /\ \A i \in 1..Len(q) : Copies(L, q)[i] = Apply(Copies(L, q)[i - 1], q[i])
      /\ \A i \in 1..Len(r) : Copies(L, r)[i] = Apply(Copies(L, r)[i - 1], r[i])
  <2> Len(q) \in Nat /\ Len(r) \in Nat
    BY <1>1
  <2> HIDE DEF r
  <2> QED BY CopiesDef
<1> HIDE DEF r
<1>3. \A i \in 0..Len(q) : i \in S
  <2>1. Len(q) \in Nat /\ 0 \in S
    BY <1>2
  <2>2. ASSUME NEW i \in 1..Len(q), i - 1 \in S PROVE i \in S
    <3>1. Copies(L, r)[i - 1] = Copies(L, q)[i - 1]
      BY <2>2
    <3>2. Copies(L, q)[i] = Apply(Copies(L, q)[i - 1], q[i]) /\ r[i] = q[i]
      BY <1>1, <1>2
    <3>3. Copies(L, r)[i] = Apply(Copies(L, r)[i - 1], r[i])
      BY <1>1, <1>2
    <3> QED BY <3>1, <3>2, <3>3
  <2> HIDE DEF S
  <2> QED BY <2>1, <2>2, UpTo
<1>4. Copies(L, r)[Len(q)] = Copies(L, q)[Len(q)]
  BY <1>3
<1>5. Copies(L, r)[Len(r)] = Apply(Copies(L, r)[Len(q)], m)
  BY <1>1, <1>2
<1> QED BY <1>4, <1>5 DEF View, r

LEMMA ViewTail ==
  ASSUME NEW M, NEW q \in Seq(M), q # <<>>, NEW L
  PROVE  View(L, q) = View(Apply(L, Head(q)), Tail(q))
<1> DEFINE r == Tail(q)
           N == Apply(L, Head(q))
           S == {i \in 0..Len(r) : Copies(L, q)[i + 1] = Copies(N, r)[i]}
<1>1. r \in Seq(M) /\ Len(q) = Len(r) + 1 /\ q[1] = Head(q) /\ \A i \in 1..Len(r) : r[i] = q[i + 1]
  OBVIOUS
<1>2. /\ Copies(L, q)[0] = L /\ Copies(N, r)[0] = N
      /\ \A i \in 1..Len(q) : Copies(L, q)[i] = Apply(Copies(L, q)[i - 1], q[i])
      /\ \A i \in 1..Len(r) : Copies(N, r)[i] = Apply(Copies(N, r)[i - 1], r[i])
  <2> Len(q) \in Nat /\ Len(r) \in Nat
    BY <1>1
  <2> HIDE DEF r, N
  <2> QED BY CopiesDef
<1>3. Copies(L, q)[1] = N
  <2> 1 \in 1..Len(q) /\ Copies(L, q)[1 - 1] = L
    BY <1>1, <1>2
  <2> Copies(L, q)[1] = Apply(Copies(L, q)[1 - 1], q[1])
    BY <1>2
  <2> QED BY <1>1
<1> HIDE DEF r, N
<1>4. \A i \in 0..Len(r) : i \in S
  <2>1. 0 \in S
    BY <1>1, <1>2, <1>3
  <2>2. ASSUME NEW i \in 1..Len(r), i - 1 \in S PROVE i \in S
    <3>1. Copies(L, q)[i] = Copies(N, r)[i - 1]
      BY <2>2
    <3>2. Copies(N, r)[i] = Apply(Copies(N, r)[i - 1], r[i]) /\ r[i] = q[i + 1]
      BY <1>1, <1>2
    <3>3. i + 1 \in 1..Len(q) /\ (i + 1) - 1 = i
      BY <1>1
    <3>4. Copies(L, q)[i + 1] = Apply(Copies(L, q)[(i + 1) - 1], q[i + 1])
      BY <1>2, <3>3
    <3> QED BY <3>1, <3>2, <3>3, <3>4
  <2> HIDE DEF S
  <2>3. Len(r) \in Nat
    BY <1>1
  <2> QED BY <2>1, <2>2, <2>3, UpTo
<1>5. Copies(L, q)[Len(r) + 1] = Copies(N, r)[Len(r)]
  BY <1>1, <1>4
<1> QED BY <1>1, <1>5 DEF View, r, N

-----------------------------------------------------------------------------
(* Lobbies, and what a message does to one.                                *)

Roster == UNION {[P -> Score] : P \in SUBSET Person}

LEMMA RosterIs ==
  ASSUME NEW f
  PROVE  f \in Roster <=> DOMAIN f \subseteq Person /\ f \in [DOMAIN f -> Score]
BY DEF Roster

LEMMA LobbyIs ==
  /\ Lobbies = [players : Roster, words : 0..MaxWords, started : BOOLEAN, count : None..Count]
  /\ Count \in Nat \ {0} /\ MaxClicks \in Nat /\ MaxWords \in Nat
  /\ None \in None..Count /\ None \notin 0..Count /\ 0..Count \subseteq None..Count
  /\ Blank \in Score /\ host \in Person /\ host \notin Guest /\ Guest \subseteq Person
BY LobbyAssumption DEF Lobbies, Roster, None, Blank, Score, Person

LEMMA ClicksMore ==
  ASSUME LobbyTypeOK, NEW p \in Person, NEW kind, Click(p, kind)
  PROVE  clicks[p] + 1 \in 0..MaxClicks
<1>1. clicks \in [Person -> 0..MaxClicks]
  BY DEF LobbyTypeOK
<1>2. clicks[p] \in 0..MaxClicks /\ clicks[p] < MaxClicks
  BY <1>1 DEF Click
<1> QED BY <1>2, LobbyIs

LEMMA LobbyEdits ==
  ASSUME NEW L \in Lobbies
  PROVE  /\ Empty \in Lobbies
         /\ \A p \in Person : With(L, p) \in Lobbies /\ Without(L, p) \in Lobbies
         /\ Begun(L) \in Lobbies
<1>1. L.players \in Roster /\ DOMAIN L.players \subseteq Person /\ L.players \in [DOMAIN L.players -> Score]
  BY LobbyIs, RosterIs
<1>2. Empty \in Lobbies
  <2>1. [p \in {} |-> Blank] \in Roster
    BY RosterIs
  <2> QED BY <2>1, LobbyIs DEF Empty
<1>3. ASSUME NEW p \in Person PROVE With(L, p) \in Lobbies
  <2> DEFINE f == [q \in DOMAIN L.players \cup {p} |-> IF q = p THEN Blank ELSE L.players[q]]
  <2>1. f \in Roster
    BY <1>1, LobbyIs, RosterIs
  <2>2. With(L, p) = [L EXCEPT !.players = f]
    BY LobbyIs DEF With
  <2> HIDE DEF f
  <2> QED BY <2>1, <2>2, LobbyIs
<1>4. ASSUME NEW p \in Person PROVE Without(L, p) \in Lobbies
  <2> DEFINE f == [q \in DOMAIN L.players \ {p} |-> L.players[q]]
  <2>1. f \in Roster
    BY <1>1, RosterIs
  <2>2. Without(L, p) = [L EXCEPT !.players = f]
    BY LobbyIs DEF Without
  <2> HIDE DEF f
  <2> QED BY <2>1, <2>2, LobbyIs
<1>5. Begun(L) \in Lobbies
  <2> DEFINE f == [q \in DOMAIN L.players |-> [L.players[q] EXCEPT !.clicks = 0, !.done = FALSE]]
  <2>1. ASSUME NEW q \in DOMAIN L.players
        PROVE  [L.players[q] EXCEPT !.clicks = 0, !.done = FALSE] \in Score
    <3>1. L.players[q] \in Score /\ 0 \in 0..MaxClicks
      BY <1>1, LobbyIs
    <3> QED BY <3>1 DEF Score
  <2>2. f \in Roster
    BY <1>1, <2>1, RosterIs
  <2>3. Begun(L).players = f
    BY LobbyIs DEF Begun
  <2>4. Begun(L) = [L EXCEPT !.count = None, !.players = Begun(L).players]
    BY LobbyIs DEF Begun
  <2> HIDE DEF f
  <2> QED BY <2>2, <2>3, <2>4, LobbyIs
<1> QED BY <1>2, <1>3, <1>4, <1>5

(* A report, as a change of one player's score.                            *)
Rescored(e, m) ==
  CASE m.type = "info"   -> e
    [] m.type = "ready"  -> [e EXCEPT !.ready = m.ready]
    [] m.type = "move"   -> [e EXCEPT !.clicks = m.clicks]
    [] m.type = "finish" -> [e EXCEPT !.clicks = m.clicks, !.done = TRUE]

Rescore(L, m) == [L.players EXCEPT ![m.player] = Rescored(L.players[m.player], m)]

LEMMA RescoredType ==
  ASSUME NEW e \in Score, NEW m \in UpMessages, m.type # "bye"
  PROVE  Rescored(e, m) \in Score
BY DEF Rescored, UpMessages, Reports, Score

LEMMA ReportedIs ==
  ASSUME NEW L \in Lobbies, NEW m \in UpMessages, m.type # "bye"
  PROVE  /\ m.player \notin DOMAIN L.players => Reported(L, m) = L
         /\ m.player \in DOMAIN L.players =>
              /\ Reported(L, m) = [L EXCEPT !.players = Rescore(L, m)]
              /\ Rescore(L, m) \in Roster /\ DOMAIN Rescore(L, m) = DOMAIN L.players
<1>1. L.players \in Roster /\ L.players \in [DOMAIN L.players -> Score] /\ DOMAIN L.players \subseteq Person
  BY LobbyIs, RosterIs
<1>2. m.type \in {"info", "ready", "move", "finish"}
  BY DEF UpMessages, Reports
<1>3. CASE m.player \notin DOMAIN L.players
  BY <1>3 DEF Reported
<1>4. CASE m.player \in DOMAIN L.players
  <2>1. Rescored(L.players[m.player], m) \in Score
    BY <1>1, <1>4, RescoredType
  <2>2. Rescore(L, m) \in [DOMAIN L.players -> Score]
    BY <1>1, <1>4, <2>1 DEF Rescore
  <2>3. Rescore(L, m) \in Roster
    BY <1>1, <2>2, RosterIs
  <2>4. Reported(L, m) = [L EXCEPT !.players = Rescore(L, m)]
    <3>1. CASE m.type = "info"
      BY <1>1, <1>4, <3>1, LobbyIs DEF Reported, Rescore, Rescored
    <3>2. CASE m.type = "ready"
      BY <1>1, <1>4, <3>2, LobbyIs DEF Reported, Rescore, Rescored
    <3>3. CASE m.type = "move"
      BY <1>1, <1>4, <3>3, LobbyIs DEF Reported, Rescore, Rescored
    <3>4. CASE m.type = "finish"
      BY <1>1, <1>4, <3>4, LobbyIs DEF Reported, Rescore, Rescored
    <3> QED BY <1>2, <3>1, <3>2, <3>3, <3>4
  <2> QED BY <2>2, <2>3, <2>4, <1>4
<1> QED BY <1>3, <1>4

LEMMA MessageIs ==
  ASSUME NEW m \in UpMessages \cup DownMessages
  PROVE  \/ m.type = "state" /\ m.lobby \in Lobbies
         \/ m.type = "start" /\ m.words \in 0..MaxWords /\ m.count = Count
         \/ m.type = "tick" /\ m.count \in 0..Count
         \/ m.type = "begin"
         \/ m.type = "bye" /\ m.player \in Person
         \/ m.type \in {"info", "ready", "move", "finish"} /\ m \in UpMessages
BY LobbyIs DEF UpMessages, DownMessages, Reports

LEMMA ApplyType ==
  ASSUME NEW L \in Lobbies, NEW m \in UpMessages \cup DownMessages
  PROVE  Apply(L, m) \in Lobbies
<1>1. CASE m.type = "state"
  BY <1>1, MessageIs DEF Apply
<1>2. CASE m.type = "start"
  <2>1. m.words \in 0..MaxWords /\ m.count \in None..Count
    BY <1>2, MessageIs, LobbyIs
  <2>2. Apply(L, m) = [L EXCEPT !.started = TRUE, !.words = m.words, !.count = m.count]
    BY <1>2 DEF Apply
  <2> QED BY <2>1, <2>2, LobbyIs
<1>3. CASE m.type = "tick"
  <2>1. m.count \in None..Count
    BY <1>3, MessageIs, LobbyIs
  <2>2. Apply(L, m) = [L EXCEPT !.count = m.count]
    BY <1>3 DEF Apply
  <2> QED BY <2>1, <2>2, LobbyIs
<1>4. CASE m.type = "begin"
  BY <1>4, LobbyEdits DEF Apply
<1>5. CASE m.type = "bye"
  BY <1>5, MessageIs, LobbyEdits DEF Apply
<1>6. CASE m.type \in {"info", "ready", "move", "finish"}
  <2>1. m \in UpMessages /\ m.type # "bye" /\ Apply(L, m) = Reported(L, m)
    BY <1>6, MessageIs DEF Apply
  <2> QED BY <2>1, ReportedIs, LobbyIs
<1> QED BY <1>1, <1>2, <1>3, <1>4, <1>5, <1>6, MessageIs

(* What each edit makes of the fields.                                     *)
LEMMA BegunFields ==
  ASSUME NEW L \in Lobbies
  PROVE  /\ Begun(L).words = L.words /\ Begun(L).started = L.started /\ Begun(L).count = None
         /\ DOMAIN Begun(L).players = DOMAIN L.players
         /\ \A q \in DOMAIN L.players :
              Begun(L).players[q] = [L.players[q] EXCEPT !.clicks = 0, !.done = FALSE]
BY LobbyIs DEF Begun

LEMMA EditFields ==
  ASSUME NEW L \in Lobbies, NEW p
  PROVE  /\ Without(L, p).words = L.words /\ Without(L, p).started = L.started
         /\ Without(L, p).count = L.count
         /\ DOMAIN Without(L, p).players = DOMAIN L.players \ {p}
         /\ \A q \in DOMAIN L.players \ {p} : Without(L, p).players[q] = L.players[q]
         /\ With(L, p).words = L.words /\ With(L, p).started = L.started
         /\ With(L, p).count = L.count
BY LobbyIs DEF Without, With

LEMMA ReportFields ==
  ASSUME NEW L \in Lobbies, NEW m \in UpMessages, m.type # "bye"
  PROVE  /\ Apply(L, m).words = L.words /\ Apply(L, m).started = L.started
         /\ Apply(L, m).count = L.count /\ DOMAIN Apply(L, m).players = DOMAIN L.players
         /\ \A q \in DOMAIN L.players :
              Apply(L, m).players[q] =
                IF q = m.player THEN Rescored(L.players[q], m) ELSE L.players[q]
<1>1. Apply(L, m) = Reported(L, m)
  BY DEF Apply, UpMessages, Reports
<1>2. CASE m.player \notin DOMAIN L.players
  BY <1>1, <1>2, ReportedIs
<1>3. CASE m.player \in DOMAIN L.players
  <2>1. Reported(L, m) = [L EXCEPT !.players = Rescore(L, m)] /\ DOMAIN Rescore(L, m) = DOMAIN L.players
    BY <1>3, ReportedIs
  <2>2. /\ Apply(L, m).words = L.words /\ Apply(L, m).started = L.started
        /\ Apply(L, m).count = L.count /\ Apply(L, m).players = Rescore(L, m)
    BY <1>1, <2>1, LobbyIs
  <2>3. \A q \in DOMAIN L.players :
          Rescore(L, m)[q] = IF q = m.player THEN Rescored(L.players[q], m) ELSE L.players[q]
    BY <1>3, LobbyIs, RosterIs DEF Rescore
  <2> QED BY <2>1, <2>2, <2>3
<1> QED BY <1>2, <1>3

(* Pages that agree before a message that both get agree after it, about   *)
(* everybody but g.                                                        *)
LEMMA ApplyAgree ==
  ASSUME NEW g \in Guest, NEW L \in Lobbies, NEW N \in Lobbies, Agree(g, L, N), NEW m \in DownMessages
  PROVE  Agree(g, Apply(L, m), Apply(N, m))
<1>1. CASE m.type = "state"
  BY <1>1 DEF Apply, Agree
<1>2. CASE m.type = "start"
  BY <1>2, LobbyIs DEF Apply, Agree
<1>3. CASE m.type = "tick"
  BY <1>3, LobbyIs DEF Apply, Agree
<1>4. CASE m.type = "begin"
  <2>1. Apply(L, m) = Begun(L) /\ Apply(N, m) = Begun(N)
    BY <1>4 DEF Apply
  <2>2. Agree(g, Begun(L), Begun(N))
    <3> DEFINE f(X) == Begun(X).players
    <3>1. DOMAIN f(L) = DOMAIN L.players /\ DOMAIN f(N) = DOMAIN N.players
      BY BegunFields
    <3>2. ASSUME NEW q \in DOMAIN f(L) \ {g} PROVE f(L)[q] = f(N)[q]
      <4>1. f(L)[q] = [L.players[q] EXCEPT !.clicks = 0, !.done = FALSE]
        BY <3>1, BegunFields
      <4>2. f(N)[q] = [N.players[q] EXCEPT !.clicks = 0, !.done = FALSE]
        BY <3>1, BegunFields DEF Agree
      <4> QED BY <3>1, <4>1, <4>2 DEF Agree
    <3>3. /\ Begun(L).words = Begun(N).words /\ Begun(L).started = Begun(N).started
          /\ Begun(L).count = Begun(N).count
      BY BegunFields DEF Agree
    <3>4. DOMAIN f(L) = DOMAIN f(N)
      BY <3>1 DEF Agree
    <3> QED BY <3>2, <3>3, <3>4 DEF Agree
  <2> QED BY <2>1, <2>2
<1>5. CASE m.type = "bye"
  <2>1. m.player \in Person /\ Apply(L, m) = Without(L, m.player) /\ Apply(N, m) = Without(N, m.player)
    BY <1>5, MessageIs DEF Apply
  <2>2. Agree(g, Without(L, m.player), Without(N, m.player))
    <3> DEFINE p == m.player
               f(X) == Without(X, p).players
    <3>1. DOMAIN f(L) = DOMAIN L.players \ {p} /\ DOMAIN f(N) = DOMAIN N.players \ {p}
      BY EditFields
    <3>2. ASSUME NEW q \in DOMAIN f(L) \ {g} PROVE f(L)[q] = f(N)[q]
      <4>1. f(L)[q] = L.players[q] /\ f(N)[q] = N.players[q]
        BY <3>1, EditFields DEF Agree
      <4> QED BY <3>1, <4>1 DEF Agree
    <3>3. /\ Without(L, p).words = Without(N, p).words /\ Without(L, p).started = Without(N, p).started
          /\ Without(L, p).count = Without(N, p).count
      BY EditFields DEF Agree
    <3>4. DOMAIN f(L) = DOMAIN f(N)
      BY <3>1 DEF Agree
    <3> QED BY <3>2, <3>3, <3>4 DEF Agree
  <2> QED BY <2>1, <2>2
<1>6. CASE m.type \in {"info", "ready", "move", "finish"}
  <2>1. m \in UpMessages /\ m.type # "bye"
    BY <1>6, MessageIs
  <2> QED BY <2>1, ReportFields DEF Agree
<1> QED BY <1>1, <1>2, <1>3, <1>4, <1>5, <1>6, MessageIs

(* What g reports of itself changes nothing else.                          *)
LEMMA ReportOwn ==
  ASSUME NEW g \in Guest, NEW L \in Lobbies, NEW m \in UpMessages, m.player = g, m.type # "bye"
  PROVE  Agree(g, Apply(L, m), L)
BY ReportFields DEF Agree

LEMMA AgreeTransitive ==
  ASSUME NEW g, NEW A, NEW B, NEW C, Agree(g, A, B), Agree(g, B, C)
  PROVE  Agree(g, A, C)
BY DEF Agree

LEMMA AgreeSymmetric == \A g, A, B : Agree(g, A, B) => Agree(g, B, A)
BY DEF Agree

LEMMA ViewType ==
  ASSUME NEW L \in Lobbies, NEW q \in Seq(DownMessages)
  PROVE  View(L, q) \in Lobbies
<1> DEFINE S == {i \in 0..Len(q) : Copies(L, q)[i] \in Lobbies}
<1>1. Len(q) \in Nat /\ \A i \in 1..Len(q) : q[i] \in DownMessages
  OBVIOUS
<1>2. /\ Copies(L, q)[0] = L
      /\ \A i \in 1..Len(q) : Copies(L, q)[i] = Apply(Copies(L, q)[i - 1], q[i])
  BY <1>1, CopiesDef
<1>3. 0 \in S
  BY <1>1, <1>2
<1>4. ASSUME NEW i \in 1..Len(q), i - 1 \in S PROVE i \in S
  <2>1. Copies(L, q)[i - 1] \in Lobbies
    BY <1>4
  <2>2. Apply(Copies(L, q)[i - 1], q[i]) \in Lobbies
    BY <1>1, <2>1, ApplyType
  <2> QED BY <1>2, <2>2
<1> HIDE DEF S
<1>5. \A i \in 0..Len(q) : i \in S
  BY <1>1, <1>3, <1>4, UpTo
<1> QED BY <1>1, <1>5 DEF S, View

LEMMA ViewAgree ==
  ASSUME NEW g \in Guest, NEW L \in Lobbies, NEW N \in Lobbies, Agree(g, L, N),
         NEW q \in Seq(DownMessages)
  PROVE  Agree(g, View(L, q), View(N, q))
<1> DEFINE S == {i \in 0..Len(q) : /\ Copies(L, q)[i] \in Lobbies /\ Copies(N, q)[i] \in Lobbies
                                   /\ Agree(g, Copies(L, q)[i], Copies(N, q)[i])}
<1>1. Len(q) \in Nat /\ \A i \in 1..Len(q) : q[i] \in DownMessages
  OBVIOUS
<1>2. /\ Copies(L, q)[0] = L /\ Copies(N, q)[0] = N
      /\ \A i \in 1..Len(q) : /\ Copies(L, q)[i] = Apply(Copies(L, q)[i - 1], q[i])
                              /\ Copies(N, q)[i] = Apply(Copies(N, q)[i - 1], q[i])
  BY <1>1, CopiesDef
<1>3. 0 \in S
  BY <1>1, <1>2
<1>4. ASSUME NEW i \in 1..Len(q), i - 1 \in S PROVE i \in S
  <2> DEFINE A == Copies(L, q)[i - 1]
             B == Copies(N, q)[i - 1]
  <2>1. A \in Lobbies /\ B \in Lobbies /\ Agree(g, A, B) /\ q[i] \in DownMessages
    BY <1>1, <1>4
  <2>2. Apply(A, q[i]) \in Lobbies /\ Apply(B, q[i]) \in Lobbies
    BY <2>1, ApplyType
  <2>3. Agree(g, Apply(A, q[i]), Apply(B, q[i]))
    BY <2>1, ApplyAgree
  <2> QED BY <1>2, <2>2, <2>3
<1> HIDE DEF S
<1>5. \A i \in 0..Len(q) : i \in S
  BY <1>1, <1>3, <1>4, UpTo
<1> QED BY <1>1, <1>5 DEF S, View

-----------------------------------------------------------------------------
(* Types.                                                                  *)

LEMMA SentType ==
  ASSUME LobbyTypeOK, NEW ms \in Seq(DownMessages), NEW to
  PROVE  Sent(ms, to) \in [Guest -> Seq(DownMessages)]
BY DEF Sent, LobbyTypeOK

LEMMA OneMessage ==
  /\ \A L \in Lobbies : State(L) \in Seq(DownMessages)
  /\ \A m \in DownMessages : <<m>> \in Seq(DownMessages)
  /\ \A m, n \in DownMessages : <<m, n>> \in Seq(DownMessages)
BY DEF State, DownMessages

LEMMA QueueTypes ==
  ASSUME NEW M, NEW f \in [Guest -> Seq(M)], NEW g \in Guest
  PROVE  /\ [f EXCEPT ![g] = <<>>] \in [Guest -> Seq(M)]
         /\ f[g] # <<>> => [f EXCEPT ![g] = Tail(@)] \in [Guest -> Seq(M)]
         /\ \A m \in M : [f EXCEPT ![g] = Append(@, m)] \in [Guest -> Seq(M)]
OBVIOUS

LEMMA ShownType ==
  ASSUME LobbyTypeOK, NEW p \in Person, NEW L, Shown(p, L)
  PROVE  racing' \subseteq Person /\ raced' \subseteq Person /\ clicks' \in [Person -> 0..MaxClicks]
BY LobbyIs DEF Shown, LobbyTypeOK

LEMMA UpdateType ==
  ASSUME LobbyTypeOK, NEW p \in Person, NEW L \in Lobbies, Update(p, L)
  PROVE  lobby' \in [Person -> Lobbies]
BY DEF Update, LobbyTypeOK

LEMMA HostLobby ==
  ASSUME LobbyTypeOK
  PROVE  lobby[host] \in Lobbies /\ \A g \in Guest : lobby[g] \in Lobbies /\ code[g] \in Lobbies
BY LobbyIs DEF LobbyTypeOK

(* What a page may report of itself.                                       *)
LEMMA ReportTypes ==
  ASSUME NEW p \in Person, NEW n \in 0..MaxClicks, NEW kind \in {"move", "finish"}
  PROVE  [type |-> kind, player |-> p, clicks |-> n] \in Reports
BY DEF Reports

LEMMA LobbyTypeInit == Init => LobbyTypeOK
<1> SUFFICES ASSUME Init PROVE LobbyTypeOK
  OBVIOUS
<1>1. Empty \in Lobbies /\ With(Empty, host) \in Lobbies
  <2>1. Empty \in Lobbies
    <3> [p \in {} |-> Blank] \in Roster
      BY RosterIs
    <3> QED BY LobbyIs DEF Empty
  <2> QED BY <2>1, LobbyEdits, LobbyIs
<1> QED BY <1>1, LobbyIs, LobbyAssumption DEF Init, LobbyTypeOK

LEMMA DropType ==
  ASSUME LobbyTypeOK, NEW g \in Guest, Drop(g)
  PROVE  /\ lobby' \in [Person -> Lobbies] /\ down' \in [Guest -> Seq(DownMessages)]
         /\ peers' \subseteq Guest /\ heard' \subseteq Guest /\ broken' \subseteq Guest
         /\ racing' \subseteq Person /\ raced' \subseteq Person /\ clicks' \in [Person -> 0..MaxClicks]
<1>1. Without(lobby[host], g) \in Lobbies
  BY HostLobby, LobbyEdits, LobbyIs
<1>2. lobby' \in [Person -> Lobbies]
  BY <1>1, UpdateType, LobbyIs DEF Drop
<1>3. down' \in [Guest -> Seq(DownMessages)]
  BY <1>1, SentType, OneMessage DEF Drop
<1>4. racing' \subseteq Person /\ raced' \subseteq Person /\ clicks' \in [Person -> 0..MaxClicks]
  BY <1>1, ShownType, LobbyIs DEF Drop
<1> QED BY <1>2, <1>3, <1>4 DEF Drop, LobbyTypeOK

LEMMA AbandonedType ==
  ASSUME LobbyTypeOK, NEW g \in Guest, Abandoned(g)
  PROVE  /\ lobby' \in [Person -> Lobbies]
         /\ status' \in [Guest -> {"asking", "accepted", "in", "alone", "gone"}]
         /\ linked' \subseteq Guest /\ broken' \subseteq Guest
         /\ racing' \subseteq Person /\ raced' \subseteq Person /\ clicks' \in [Person -> 0..MaxClicks]
<1>1. Without(lobby[g], host) \in Lobbies
  BY HostLobby, LobbyEdits, LobbyIs
<1>2. lobby' \in [Person -> Lobbies]
  BY <1>1, UpdateType, LobbyIs DEF Abandoned
<1>3. racing' \subseteq Person /\ raced' \subseteq Person /\ clicks' \in [Person -> 0..MaxClicks]
  BY <1>1, ShownType, LobbyIs DEF Abandoned
<1> QED BY <1>2, <1>3 DEF Abandoned, LobbyTypeOK

(* The host takes the first message of g: what it makes of its lobby.      *)
LEMMA HostReceivesType ==
  ASSUME LobbyTypeOK, NEW g \in Guest, HostReceives(g)
  PROVE  LobbyTypeOK'
<1> DEFINE m == Head(up[g])
           L == Apply(lobby[host], m)
<1>1. up[g] \in Seq(UpMessages) /\ up[g] # <<>>
  BY DEF HostReceives, LobbyTypeOK
<1>2. m \in UpMessages /\ Tail(up[g]) \in Seq(UpMessages)
  BY <1>1
<1>3. L \in Lobbies
  BY <1>2, HostLobby, ApplyType
<1>4. up' \in [Guest -> Seq(UpMessages)]
  BY <1>2 DEF HostReceives, LobbyTypeOK
<1>5. CASE m.type = "bye"
  <2>1. Drop(g) /\ UNCHANGED <<door, linked, timer, races, outs>>
    BY <1>5 DEF HostReceives
  <2> QED BY <1>4, <2>1, DropType DEF LobbyTypeOK, door
<1>6. CASE m.type # "bye"
  <2>1. /\ Update(host, L) /\ Shown(host, L)
        /\ down' = IF m.type \in {"move", "finish"}
                   THEN Sent(<<m>>, heard \ {g}) ELSE Sent(State(L), heard)
        /\ UNCHANGED <<peers, heard, broken, door, linked, timer, races, outs>>
    BY <1>6 DEF HostReceives
  <2>2. m.type \in {"move", "finish"} => <<m>> \in Seq(DownMessages)
    BY <1>2 DEF UpMessages, DownMessages, Reports
  <2> HIDE DEF m, L
  <2>3. down' \in [Guest -> Seq(DownMessages)]
    BY <1>3, <2>1, <2>2, SentType, OneMessage
  <2>4. lobby' \in [Person -> Lobbies]
    BY <1>3, <2>1, UpdateType, LobbyIs
  <2>5. racing' \subseteq Person /\ raced' \subseteq Person /\ clicks' \in [Person -> 0..MaxClicks]
    BY <1>3, <2>1, ShownType, LobbyIs
  <2> QED BY <1>4, <2>1, <2>3, <2>4, <2>5 DEF LobbyTypeOK, door
<1> QED BY <1>5, <1>6

LEMMA GuestReceivesType ==
  ASSUME LobbyTypeOK, NEW g \in Guest, GuestReceives(g)
  PROVE  LobbyTypeOK'
<1> DEFINE m == Head(down[g])
           L == Apply(lobby[g], m)
<1>1. down[g] \in Seq(DownMessages) /\ down[g] # <<>>
  BY DEF GuestReceives, LobbyTypeOK
<1>2. m \in DownMessages /\ Tail(down[g]) \in Seq(DownMessages)
  BY <1>1
<1>3. L \in Lobbies
  BY <1>2, HostLobby, ApplyType
<1>4. down' \in [Guest -> Seq(DownMessages)]
  <2>1. down \in [Guest -> Seq(DownMessages)]
    BY DEF LobbyTypeOK
  <2>2. /\ [down EXCEPT ![g] = <<>>] \in [Guest -> Seq(DownMessages)]
        /\ [down EXCEPT ![g] = Tail(@)] \in [Guest -> Seq(DownMessages)]
    BY <1>1, <2>1, QueueTypes
  <2> QED BY <2>2 DEF GuestReceives
<1>5. CASE m.type = "bye"
  <2>1. Abandoned(g) /\ UNCHANGED <<code, here, peers, heard, up, timer, races, outs>>
    BY <1>5 DEF GuestReceives
  <2> QED BY <1>4, <2>1, AbandonedType DEF LobbyTypeOK
<1>6. CASE m.type # "bye"
  <2>1. /\ Update(g, L) /\ Shown(g, L) /\ UNCHANGED <<status, linked, broken>>
        /\ UNCHANGED <<code, here, peers, heard, up, timer, races, outs>>
    BY <1>6 DEF GuestReceives
  <2> HIDE DEF m, L
  <2>2. lobby' \in [Person -> Lobbies]
    BY <1>3, <2>1, UpdateType, LobbyIs
  <2>3. racing' \subseteq Person /\ raced' \subseteq Person /\ clicks' \in [Person -> 0..MaxClicks]
    BY <1>3, <2>1, ShownType, LobbyIs
  <2> QED BY <1>4, <2>1, <2>2, <2>3 DEF LobbyTypeOK
<1> QED BY <1>5, <1>6

(* The steps of the host that put a new lobby before itself and send on.   *)
LEMMA TellType ==
  ASSUME LobbyTypeOK, NEW L \in Lobbies, Update(host, L), Shown(host, L),
         NEW ms \in Seq(DownMessages), NEW to, down' = Sent(ms, to)
  PROVE  /\ lobby' \in [Person -> Lobbies] /\ down' \in [Guest -> Seq(DownMessages)]
         /\ racing' \subseteq Person /\ raced' \subseteq Person /\ clicks' \in [Person -> 0..MaxClicks]
BY SentType, UpdateType, ShownType, LobbyIs

LEMMA StartLobby ==
  ASSUME NEW L \in Lobbies
  PROVE  /\ [L EXCEPT !.started = TRUE, !.count = Count] \in Lobbies
         /\ [type |-> "start", words |-> L.words, count |-> Count] \in DownMessages
         /\ \A w \in 1..MaxWords : [L EXCEPT !.words = w] \in Lobbies
<1>1. Count \in None..Count
  BY LobbyIs
<1>2. [L EXCEPT !.started = TRUE, !.count = Count] \in Lobbies
  BY <1>1, LobbyIs
<1>3. \A w \in 1..MaxWords : [L EXCEPT !.words = w] \in Lobbies
  BY LobbyIs
<1> QED BY <1>2, <1>3, LobbyIs DEF DownMessages

LEMMA TickLobby ==
  ASSUME NEW L \in Lobbies, NEW c \in 0..Count
  PROVE  /\ [L EXCEPT !.count = c] \in Lobbies
         /\ [type |-> "tick", count |-> c] \in DownMessages
         /\ [type |-> "begin"] \in DownMessages
BY LobbyIs DEF DownMessages

LEMMA LobbyTypeNext ==
  ASSUME LobbyTypeOK, [Next]_vars
  PROVE  LobbyTypeOK'
<1>1. ASSUME NEW g \in Guest, AcceptJoin(g) PROVE LobbyTypeOK'
  <2> DEFINE L == With(lobby[host], g)
  <2>1. L \in Lobbies /\ State(L) \in Seq(DownMessages)
    BY HostLobby, LobbyEdits, LobbyIs, OneMessage
  <2>2. /\ Update(host, L) /\ Shown(host, L) /\ down' = Sent(State(L), heard)
        /\ code' = [code EXCEPT ![g] = L]
    BY <1>1 DEF AcceptJoin
  <2> HIDE DEF L
  <2> QED BY <1>1, <2>1, <2>2, TellType DEF AcceptJoin, LobbyTypeOK
<1>2. ASSUME NEW g \in Guest, CompleteJoin(g) PROVE LobbyTypeOK'
  <2>1. code[g] \in Lobbies /\ Empty \in Lobbies /\ g \in Person
    BY HostLobby, LobbyEdits, LobbyIs
  <2> QED BY <1>2, <2>1, UpdateType, ShownType DEF CompleteJoin, LobbyTypeOK, net
<1>3. ASSUME NEW g \in Guest, OpenAtHost(g) PROVE LobbyTypeOK'
  BY <1>3 DEF OpenAtHost, LobbyTypeOK, door, game
<1>4. ASSUME NEW g \in Guest, OpenAtGuest(g) PROVE LobbyTypeOK'
  <2>1. [type |-> "info", player |-> g] \in UpMessages
    BY DEF UpMessages
  <2> QED BY <1>4, <2>1 DEF OpenAtGuest, LobbyTypeOK, door, game
<1>5. ASSUME NEW g \in Guest, HostReceives(g) PROVE LobbyTypeOK'
  BY <1>5, HostReceivesType
<1>6. ASSUME NEW g \in Guest, HostLoses(g) PROVE LobbyTypeOK'
  <2>1. up' \in [Guest -> Seq(UpMessages)]
    BY <1>6 DEF HostLoses, LobbyTypeOK
  <2> QED BY <1>6, <2>1, DropType DEF HostLoses, LobbyTypeOK, door
<1>7. ASSUME NEW w \in 1..MaxWords, SetChallengeWords(w) PROVE LobbyTypeOK'
  <2> DEFINE L == [lobby[host] EXCEPT !.words = w]
  <2>1. L \in Lobbies /\ State(L) \in Seq(DownMessages)
    BY HostLobby, StartLobby, OneMessage
  <2>2. Update(host, L) /\ Shown(host, L) /\ down' = Sent(State(L), heard)
    BY <1>7 DEF SetChallengeWords
  <2> HIDE DEF L
  <2> QED BY <1>7, <2>1, <2>2, TellType DEF SetChallengeWords, LobbyTypeOK, door, net
<1>8. ASSUME StartGame PROVE LobbyTypeOK'
  <2> DEFINE L == [lobby[host] EXCEPT !.started = TRUE, !.count = Count]
             m == [type |-> "start", words |-> L.words, count |-> Count]
  <2>1. L \in Lobbies /\ <<m>> \in Seq(DownMessages) /\ races' \in 0..MaxRaces
    <3>1. L \in Lobbies
      BY HostLobby, StartLobby
    <3>2. m \in DownMessages
      BY HostLobby, StartLobby, LobbyIs
    <3> QED BY <1>8, <3>1, <3>2, OneMessage, LobbyAssumption DEF StartGame, LobbyTypeOK
  <2>2. Update(host, L) /\ Shown(host, L) /\ down' = Sent(<<m>>, heard)
    BY <1>8 DEF StartGame
  <2> HIDE DEF L, m
  <2>3. /\ lobby' \in [Person -> Lobbies] /\ down' \in [Guest -> Seq(DownMessages)]
        /\ racing' \subseteq Person /\ raced' \subseteq Person /\ clicks' \in [Person -> 0..MaxClicks]
    BY <2>1, <2>2, TellType
  <2>4. timer' \in 0..Count
    BY <1>8, LobbyIs DEF StartGame
  <2> QED BY <1>8, <2>1, <2>3, <2>4 DEF StartGame, LobbyTypeOK, door, net
<1>9. ASSUME CountdownTick PROVE LobbyTypeOK'
  <2> DEFINE L == [lobby[host] EXCEPT !.count = timer - 1]
             tick == [type |-> "tick", count |-> timer - 1]
             begin == [type |-> "begin"]
  <2>1. timer - 1 \in 0..Count
    BY <1>9, LobbyIs DEF CountdownTick, LobbyTypeOK
  <2>2. /\ L \in Lobbies /\ Begun(L) \in Lobbies
        /\ <<tick>> \in Seq(DownMessages) /\ <<tick, begin>> \in Seq(DownMessages)
    BY <2>1, HostLobby, TickLobby, LobbyEdits, OneMessage
  <2>3. \/ Update(host, L) /\ Shown(host, L) /\ down' = Sent(<<tick>>, heard)
        \/ Update(host, Begun(L)) /\ Shown(host, Begun(L)) /\ down' = Sent(<<tick, begin>>, heard)
    BY <1>9 DEF CountdownTick
  <2> HIDE DEF L, tick, begin
  <2>4. /\ lobby' \in [Person -> Lobbies] /\ down' \in [Guest -> Seq(DownMessages)]
        /\ racing' \subseteq Person /\ raced' \subseteq Person /\ clicks' \in [Person -> 0..MaxClicks]
    BY <2>2, <2>3, TellType
  <2> QED BY <1>9, <2>1, <2>4 DEF CountdownTick, LobbyTypeOK, door, net
<1>10. ASSUME HostLeave PROVE LobbyTypeOK'
  <2>1. <<[type |-> "bye", player |-> host]>> \in Seq(DownMessages)
    BY DEF DownMessages
  <2>2. down' \in [Guest -> Seq(DownMessages)]
    BY <1>10, <2>1, SentType DEF HostLeave
  <2>3. lobby' \in [Person -> Lobbies]
    BY <1>10, HostLobby, LobbyEdits, LobbyIs, UpdateType DEF HostLeave
  <2>4. outs' \in 0..MaxOut
    BY <1>10, LobbyAssumption DEF HostLeave, LobbyTypeOK
  <2>5. broken' \subseteq Guest /\ peers' \subseteq Guest /\ heard' \subseteq Guest /\ here' \in BOOLEAN
    BY <1>10 DEF HostLeave, LobbyTypeOK
  <2>6. racing' \subseteq Person
    BY <1>10 DEF HostLeave, LobbyTypeOK
  <2> QED BY <1>10, <2>2, <2>3, <2>4, <2>5, <2>6 DEF HostLeave, LobbyTypeOK
<1>11. ASSUME NEW g \in Guest, GuestReceives(g) PROVE LobbyTypeOK'
  BY <1>11, GuestReceivesType
<1>12. ASSUME NEW g \in Guest, GuestLoses(g) PROVE LobbyTypeOK'
  <2>1. down' \in [Guest -> Seq(DownMessages)]
    BY <1>12 DEF GuestLoses, LobbyTypeOK
  <2> QED BY <1>12, <2>1, AbandonedType DEF GuestLoses, LobbyTypeOK
<1>13. ASSUME NEW g \in Guest, ToggleReady(g) PROVE LobbyTypeOK'
  <2> DEFINE m == [type |-> "ready", player |-> g, ready |-> ~lobby[g].players[g].ready]
  <2>1. m \in UpMessages
    BY DEF UpMessages
  <2>2. Apply(lobby[g], m) \in Lobbies /\ g \in Person /\ g # host
    BY <2>1, HostLobby, ApplyType, LobbyIs
  <2>3. Update(g, Apply(lobby[g], m)) /\ Report(g, m)
    BY <1>13 DEF ToggleReady
  <2> HIDE DEF m
  <2>4. up' \in [Guest -> Seq(UpMessages)] /\ down' = down
    <3>1. up \in [Guest -> Seq(UpMessages)]
      BY DEF LobbyTypeOK
    <3>2. [up EXCEPT ![g] = Append(@, m)] \in [Guest -> Seq(UpMessages)]
      BY <2>1, <3>1, QueueTypes
    <3> QED BY <2>2, <2>3, <3>1, <3>2 DEF Report
  <2> QED BY <1>13, <2>2, <2>3, <2>4, UpdateType DEF ToggleReady, LobbyTypeOK, door, net, game
<1>14. ASSUME NEW p \in Person, NEW kind \in {"move", "finish"}, Click(p, kind) PROVE LobbyTypeOK'
  <2> DEFINE m == [type |-> kind, player |-> p, clicks |-> clicks[p] + 1]
             L == Apply(lobby[p], m)
  <2>1. clicks[p] + 1 \in 0..MaxClicks
    BY <1>14, ClicksMore
  <2>2. m \in UpMessages /\ m \in DownMessages /\ <<m>> \in Seq(DownMessages)
    <3>1. m \in Reports
      BY <2>1, ReportTypes
    <3> HIDE DEF m
    <3> QED BY <3>1 DEF UpMessages, DownMessages
  <2>3. L \in Lobbies
    BY <2>2, ApplyType DEF LobbyTypeOK
  <2>4. Update(p, L) /\ Report(p, m)
    BY <1>14 DEF Click
  <2>5. clicks' \in [Person -> 0..MaxClicks] /\ racing' \subseteq Person
    BY <1>14, <2>1 DEF Click, LobbyTypeOK
  <2> HIDE DEF m, L
  <2>6. up' \in [Guest -> Seq(UpMessages)] /\ down' \in [Guest -> Seq(DownMessages)]
    <3>1. CASE p = host
      BY <2>2, <2>4, <3>1, SentType DEF Report, LobbyTypeOK
    <3>2. CASE p # host
      <4>1. up \in [Guest -> Seq(UpMessages)] /\ p \in Guest
        BY <3>2 DEF LobbyTypeOK, Person
      <4>2. [up EXCEPT ![p] = Append(@, m)] \in [Guest -> Seq(UpMessages)]
        BY <2>2, <4>1, QueueTypes
      <4> QED BY <2>4, <3>2, <4>1, <4>2 DEF Report, LobbyTypeOK
    <3> QED BY <3>1, <3>2
  <2> QED BY <1>14, <2>3, <2>4, <2>5, <2>6, UpdateType DEF Click, LobbyTypeOK, door, net
<1>15. ASSUME NEW g \in Guest, Leave(g) PROVE LobbyTypeOK'
  <2>1. [type |-> "bye", player |-> g] \in UpMessages
    BY DEF UpMessages
  <2>2. up' \in [Guest -> Seq(UpMessages)] /\ down' \in [Guest -> Seq(DownMessages)]
    BY <1>15, <2>1 DEF Leave, LobbyTypeOK
  <2>3. lobby' \in [Person -> Lobbies]
    BY <1>15, HostLobby, LobbyEdits, LobbyIs, UpdateType DEF Leave
  <2> QED BY <1>15, <2>2, <2>3, LobbyAssumption DEF Leave, LobbyTypeOK
<1>16. ASSUME NEW g \in Guest, Break(g) PROVE LobbyTypeOK'
  BY <1>16, LobbyAssumption DEF Break, LobbyTypeOK, door, game
<1>17. CASE UNCHANGED vars
  BY <1>17 DEF vars, LobbyTypeOK
<1> QED BY <1>1, <1>2, <1>3, <1>4, <1>5, <1>6, <1>7, <1>8, <1>9, <1>10, <1>11, <1>12, <1>13,
           <1>14, <1>15, <1>16, <1>17 DEF Next, System, User

(* The pages of a room keep the types of the protocol, for any number of   *)
(* guests and whatever is in flight (multiplayer.js).                      *)
THEOREM LobbyTypeInvariant == Spec => []LobbyTypeOK
BY LobbyTypeInit, LobbyTypeNext, PTL DEF Spec

-----------------------------------------------------------------------------
(* What holds besides the types, of every room.                            *)

(* A guest whose channel is open is in the room, tells only of itself, and *)
(* until the host hears it its presentation waits.                         *)
Presented ==
  /\ \A g \in linked : status[g] = "in"
  /\ \A g \in Guest : \A i \in 1..Len(up[g]) : up[g][i].player = g
  /\ here => \A g \in linked \ (broken \cup heard) :
                 \E i \in 1..Len(up[g]) : up[g][i].type = "info"

(* The interval and the host's own lobby say the same.                     *)
HostClock ==
  /\ races = 0 => timer = 0
  /\ here => /\ lobby[host].count = IF timer > 0 THEN timer ELSE None
             /\ lobby[host].started <=> races > 0

Over(L) == L.started /\ L.count = None

(* Until the first countdown is over nothing in the room says that it is.  *)
First == here /\ (races = 0 \/ (races = 1 /\ timer > 0))

Early(m) == m.type # "begin" /\ (m.type = "state" => ~ Over(m.lobby))

BeforeFirst ==
  First =>
    /\ raced = {}
    /\ \A p \in Person : ~ Over(lobby[p])
    /\ \A g \in Guest : ~ Over(code[g]) /\ \A i \in 1..Len(down[g]) : Early(down[g][i])

(* A page whose copy says that the countdown is over has started its race. *)
StartedAll == racing \subseteq raced /\ \A p \in Person : Over(lobby[p]) => p \in raced

RoomInv ==
  LobbyTypeOK /\ Presented /\ ViewsConverge /\ HostClock /\ BeforeFirst /\ StartedAll

LEMMA RoomInit == Init => RoomInv
<1> SUFFICES ASSUME Init PROVE RoomInv
  OBVIOUS
<1>1. LobbyTypeOK
  BY LobbyTypeInit
<1>2. ~ Empty.started /\ Empty.count = None /\ Empty \in Lobbies
  BY LobbyEdits, HostLobby, <1>1 DEF Empty
<1>3. ~ With(Empty, host).started /\ With(Empty, host).count = None
  BY <1>2, EditFields
<1>4. \A p \in Person : ~ lobby[p].started /\ lobby[p].count = None
  BY <1>2, <1>3 DEF Init
<1>5. Presented /\ ViewsConverge
  BY DEF Init, Presented, ViewsConverge, Known
<1>6. HostClock
  BY <1>4, LobbyIs DEF Init, HostClock
<1>7. BeforeFirst /\ StartedAll
  BY <1>2, <1>4 DEF Init, BeforeFirst, First, StartedAll, Over
<1> QED BY <1>1, <1>5, <1>6, <1>7 DEF RoomInv

LEMMA Appended ==
  ASSUME NEW M, NEW q \in Seq(M), NEW m \in M
  PROVE  /\ Append(q, m) \in Seq(M) /\ Len(Append(q, m)) = Len(q) + 1 /\ Append(q, m)[Len(q) + 1] = m
         /\ \A i \in 1..Len(q) : Append(q, m)[i] = q[i]
         /\ \A i \in 1..Len(q) + 1 : i \notin 1..Len(q) => i = Len(q) + 1
OBVIOUS

LEMMA TailOf ==
  ASSUME NEW M, NEW q \in Seq(M), q # <<>>
  PROVE  /\ Tail(q) \in Seq(M) /\ Len(Tail(q)) = Len(q) - 1 /\ Head(q) = q[1] /\ 1 \in 1..Len(q)
         /\ \A i \in 1..Len(q) - 1 : Tail(q)[i] = q[i + 1] /\ i + 1 \in 1..Len(q)
         /\ \A i \in 1..Len(q) : i # 1 => i - 1 \in 1..Len(q) - 1 /\ q[i] = Tail(q)[i - 1]
OBVIOUS

(* A step that touches one guest's way up.                                 *)
Tells(g) == \E i \in 1..Len(up[g]) : up[g][i].type = "info"

LEMMA PresentedStep ==
  ASSUME Presented, NEW g \in Guest,
         here' => here, heard \cup broken \subseteq heard' \cup broken', linked' \subseteq linked,
         \A h \in linked' : status'[h] = "in",
         \A h \in Guest \ {g} : up'[h] = up[h],
         \A i \in 1..Len(up'[g]) : up'[g][i].player = g,
         g \in heard \cup broken \/ (Tells(g) => Tells(g)'), linked \subseteq Guest
  PROVE  Presented'
<1>1. \A h \in Guest : \A i \in 1..Len(up'[h]) : up'[h][i].player = h
  BY DEF Presented
<1>2. ASSUME here', NEW h \in linked' \ (broken' \cup heard') PROVE Tells(h)'
  <2>1. h \in linked \ (broken \cup heard) /\ h \in Guest /\ Tells(h)
    BY <1>2 DEF Presented, Tells
  <2> QED BY <2>1 DEF Tells
<1> QED BY <1>1, <1>2 DEF Presented, Tells

LEMMA PresentedAppend ==
  ASSUME LobbyTypeOK, Presented, NEW g \in Guest, NEW m \in UpMessages, m.player = g,
         up' = [up EXCEPT ![g] = Append(@, m)] \/ up' = up,
         here' => here, heard \cup broken \subseteq heard' \cup broken', linked' \subseteq linked,
         \A h \in linked' : status'[h] = "in"
  PROVE  Presented'
<1>1. up \in [Guest -> Seq(UpMessages)] /\ up[g] \in Seq(UpMessages) /\ linked \subseteq Guest
  BY DEF LobbyTypeOK
<1>2. CASE up' = up
  BY <1>1, <1>2, PresentedStep DEF Presented, Tells
<1>3. CASE up' = [up EXCEPT ![g] = Append(@, m)]
  <2>1. up'[g] = Append(up[g], m) /\ \A h \in Guest \ {g} : up'[h] = up[h]
    BY <1>1, <1>3
  <2>2. \A i \in 1..Len(up'[g]) : up'[g][i].player = g
    BY <1>1, <2>1, Appended DEF Presented
  <2>3. Tells(g) => Tells(g)'
    <3> SUFFICES ASSUME NEW i \in 1..Len(up[g]), up[g][i].type = "info" PROVE Tells(g)'
      BY DEF Tells
    <3>1. Len(up'[g]) = Len(up[g]) + 1 /\ up'[g][i] = up[g][i] /\ Len(up[g]) \in Nat
      BY <1>1, <2>1, Appended
    <3> QED BY <3>1 DEF Tells
  <2> QED BY <1>1, <2>1, <2>2, <2>3, PresentedStep
<1> QED BY <1>2, <1>3

(* The guests keep to the manners of the room.                             *)
LEMMA PresentedNext ==
  ASSUME LobbyTypeOK, Presented, [Next]_vars
  PROVE  Presented'
<1>0. /\ up \in [Guest -> Seq(UpMessages)] /\ linked \subseteq Guest
      /\ status \in [Guest -> {"asking", "accepted", "in", "alone", "gone"}]
  BY DEF LobbyTypeOK
<1>a. \A h \in linked : status[h] = "in"
  BY DEF Presented
<1>1. ASSUME NEW g \in Guest, AcceptJoin(g) PROVE Presented'
  BY <1>0, <1>1 DEF AcceptJoin, Presented
<1>2. ASSUME NEW g \in Guest, CompleteJoin(g) PROVE Presented'
  BY <1>0, <1>2 DEF CompleteJoin, Presented, net
<1>3. ASSUME NEW g \in Guest, OpenAtHost(g) PROVE Presented'
  BY <1>3 DEF OpenAtHost, Presented, door
<1>4. ASSUME NEW g \in Guest, OpenAtGuest(g) PROVE Presented'
  <2> DEFINE m == [type |-> "info", player |-> g]
  <2>1. up[g] \in Seq(UpMessages) /\ m \in UpMessages /\ m.type = "info" /\ m.player = g
    BY <1>0 DEF UpMessages
  <2>2. up'[g] = Append(up[g], m) /\ \A h \in Guest \ {g} : up'[h] = up[h]
    BY <1>0, <1>4 DEF OpenAtGuest
  <2>3. linked' = linked \cup {g} /\ status' = status /\ here' = here /\ status[g] = "in"
        /\ heard' = heard /\ broken' = broken
    BY <1>4 DEF OpenAtGuest, door
  <2>4. /\ Len(up'[g]) = Len(up[g]) + 1 /\ up'[g][Len(up[g]) + 1] = m /\ Len(up[g]) \in Nat
        /\ \A i \in 1..Len(up[g]) : up'[g][i] = up[g][i]
        /\ \A i \in 1..Len(up[g]) + 1 : i \notin 1..Len(up[g]) => i = Len(up[g]) + 1
    BY <2>1, <2>2, Appended
  <2> HIDE DEF m
  <2>5. \A i \in 1..Len(up'[g]) : up'[g][i].player = g
    BY <2>1, <2>4 DEF Presented
  <2>6. \A h \in Guest : \A i \in 1..Len(up'[h]) : up'[h][i].player = h
    BY <2>2, <2>5 DEF Presented
  <2>7. Len(up'[g]) \in 1..Len(up'[g]) /\ up'[g][Len(up'[g])].type = "info"
    BY <2>1, <2>4
  <2> QED BY <1>0, <2>2, <2>3, <2>6, <2>7 DEF Presented
<1>5. ASSUME NEW g \in Guest, HostReceives(g) PROVE Presented'
  <2>1. /\ g \in heard /\ up[g] # <<>> /\ up' = [up EXCEPT ![g] = Tail(@)] /\ up[g] \in Seq(UpMessages)
        /\ heard \cup broken \subseteq heard' \cup broken' /\ UNCHANGED <<here, status, linked>>
    BY <1>0, <1>5 DEF HostReceives, Drop, door
  <2>2. up'[g] = Tail(up[g]) /\ \A h \in Guest \ {g} : up'[h] = up[h]
    BY <1>0, <2>1
  <2>3. \A i \in 1..Len(up'[g]) : up'[g][i].player = g
    BY <2>1, <2>2, TailOf DEF Presented
  <2> QED BY <1>0, <1>a, <2>1, <2>2, <2>3, PresentedStep
<1>6. ASSUME NEW g \in Guest, HostLoses(g) PROVE Presented'
  <2>1. /\ g \in broken /\ up' = [up EXCEPT ![g] = <<>>] /\ Len(<<>>) = 0
        /\ heard \cup broken \subseteq heard' \cup broken' /\ UNCHANGED <<here, status, linked>>
    BY <1>0, <1>6 DEF HostLoses, Drop, door
  <2>2. up'[g] = <<>> /\ \A h \in Guest \ {g} : up'[h] = up[h]
    BY <1>0, <2>1
  <2> QED BY <1>0, <1>a, <2>1, <2>2, PresentedStep
<1>7. ASSUME NEW w \in 1..MaxWords, SetChallengeWords(w) PROVE Presented'
  BY <1>7 DEF SetChallengeWords, Presented, door, net
<1>8. ASSUME StartGame PROVE Presented'
  BY <1>8 DEF StartGame, Presented, door, net
<1>9. ASSUME CountdownTick PROVE Presented'
  BY <1>9 DEF CountdownTick, Presented, door, net
<1>10. ASSUME HostLeave PROVE Presented'
  BY <1>10 DEF HostLeave, Presented
<1>11. ASSUME NEW g \in Guest, GuestReceives(g) PROVE Presented'
  BY <1>0, <1>11 DEF GuestReceives, Abandoned, Presented
<1>12. ASSUME NEW g \in Guest, GuestLoses(g) PROVE Presented'
  BY <1>0, <1>12 DEF GuestLoses, Abandoned, Presented
<1>13. ASSUME NEW g \in Guest, ToggleReady(g) PROVE Presented'
  <2> DEFINE m == [type |-> "ready", player |-> g, ready |-> ~lobby[g].players[g].ready]
  <2>1. m \in UpMessages /\ m.player = g /\ g # host
    BY LobbyAssumption DEF UpMessages
  <2>2. Report(g, m) /\ UNCHANGED <<here, status, linked, heard, broken>>
    BY <1>13 DEF ToggleReady, door, net
  <2> HIDE DEF m
  <2> QED BY <1>a, <2>1, <2>2, PresentedAppend DEF Report
<1>14. ASSUME NEW p \in Person, NEW kind \in {"move", "finish"}, Click(p, kind) PROVE Presented'
  <2> DEFINE m == [type |-> kind, player |-> p, clicks |-> clicks[p] + 1]
  <2>1. m \in UpMessages /\ m.player = p
    <3>1. clicks[p] + 1 \in 0..MaxClicks
      BY <1>14, ClicksMore
    <3> QED BY <3>1, ReportTypes DEF UpMessages
  <2>2. Report(p, m) /\ UNCHANGED <<here, status, linked, heard, broken>>
    BY <1>14 DEF Click, door, net
  <2> HIDE DEF m
  <2>3. CASE p = host
    BY <2>2, <2>3 DEF Report, Presented
  <2>4. CASE p \in Guest
    <3>1. up' = [up EXCEPT ![p] = Append(@, m)] \/ up' = up
      BY <2>2, <2>4, LobbyAssumption DEF Report
    <3> QED BY <1>a, <2>1, <2>2, <2>4, <3>1, PresentedAppend
  <2> QED BY <2>3, <2>4 DEF Person
<1>15. ASSUME NEW g \in Guest, Leave(g) PROVE Presented'
  <2> DEFINE m == [type |-> "bye", player |-> g]
  <2>1. m \in UpMessages /\ m.player = g
    BY DEF UpMessages
  <2>2. /\ up' = [up EXCEPT ![g] = Append(@, m)] \/ up' = up
        /\ UNCHANGED <<here, heard>> /\ linked' = linked \ {g} /\ broken' = broken \cup {g}
        /\ status' = [status EXCEPT ![g] = "gone"]
    BY <1>15 DEF Leave
  <2> HIDE DEF m
  <2>3. \A h \in linked' : status'[h] = "in"
    BY <1>0, <1>a, <2>2
  <2> QED BY <2>1, <2>2, <2>3, PresentedAppend
<1>16. ASSUME NEW g \in Guest, Break(g) PROVE Presented'
  BY <1>16 DEF Break, Presented, door
<1>17. CASE UNCHANGED vars
  BY <1>17 DEF vars, Presented
<1> QED BY <1>1, <1>2, <1>3, <1>4, <1>5, <1>6, <1>7, <1>8, <1>9, <1>10, <1>11, <1>12, <1>13,
           <1>14, <1>15, <1>16, <1>17 DEF Next, System, User

-----------------------------------------------------------------------------
(* What is on its way to a guest.                                          *)

LEMMA SentNot ==
  ASSUME NEW ms, NEW to, NEW g \in Guest, g \notin to \ broken
  PROVE  Sent(ms, to)[g] = down[g]
BY DEF Sent

LEMMA SentOne ==
  ASSUME LobbyTypeOK, NEW g \in Guest, NEW m \in DownMessages, NEW to, g \in to \ broken
  PROVE  /\ Sent(<<m>>, to)[g] = Append(down[g], m)
         /\ View(lobby[g], Sent(<<m>>, to)[g]) = Apply(View(lobby[g], down[g]), m)
<1>1. down[g] \in Seq(DownMessages)
  BY DEF LobbyTypeOK
<1>2. Sent(<<m>>, to)[g] = Append(down[g], m)
  BY <1>1 DEF Sent
<1>3. View(lobby[g], Append(down[g], m)) = Apply(View(lobby[g], down[g]), m)
  BY <1>1, ViewAppend
<1> QED BY <1>2, <1>3

LEMMA SentTwo ==
  ASSUME LobbyTypeOK, NEW g \in Guest, NEW m \in DownMessages, NEW n \in DownMessages,
         NEW to, g \in to \ broken
  PROVE  /\ Sent(<<m, n>>, to)[g] = Append(Append(down[g], m), n)
         /\ View(lobby[g], Sent(<<m, n>>, to)[g]) = Apply(Apply(View(lobby[g], down[g]), m), n)
<1>1. down[g] \in Seq(DownMessages) /\ Append(down[g], m) \in Seq(DownMessages)
  BY DEF LobbyTypeOK
<1>2. Sent(<<m, n>>, to)[g] = Append(Append(down[g], m), n)
  BY <1>1 DEF Sent
<1>3. View(lobby[g], Append(down[g], m)) = Apply(View(lobby[g], down[g]), m)
  BY <1>1, ViewAppend
<1>4. View(lobby[g], Append(Append(down[g], m), n)) = Apply(View(lobby[g], Append(down[g], m)), n)
  BY <1>1, ViewAppend
<1> QED BY <1>2, <1>3, <1>4

LEMMA SentState ==
  ASSUME LobbyTypeOK, NEW g \in Guest, NEW L \in Lobbies, NEW to, g \in to \ broken
  PROVE  View(lobby[g], Sent(State(L), to)[g]) = L
<1> DEFINE m == [type |-> "state", lobby |-> L]
<1>1. m \in DownMessages /\ State(L) = <<m>> /\ \A N : Apply(N, m) = L
  BY DEF DownMessages, State, Apply
<1> HIDE DEF m
<1> QED BY <1>1, SentOne

LEMMA AgreeSelf == \A g, L : Agree(g, L, L)
BY DEF Agree

(* A guest that is known after a step was known before it, unless the step *)
(* is the host's reading its presentation.                                 *)
LEMMA KnownBefore ==
  ASSUME LobbyTypeOK, Presented, NEW g \in Guest, Known(g)',
         here' => here, g \in broken => g \in broken', g \in linked' => g \in linked, up'[g] = up[g]
  PROVE  Known(g) /\ g \in linked /\ g \in heard /\ g \notin broken
BY DEF Known, Presented

LEMMA Kept ==
  ASSUME ViewsConverge, NEW g \in Guest, Known(g), lobby'[host] = lobby[host],
         lobby'[g] = lobby[g], down'[g] = down[g]
  PROVE  Agree(g, View(lobby[g], down[g])', lobby'[host])
BY DEF ViewsConverge, Agree

(* The host's new lobby, sent to all that it hears.                        *)
LEMMA WholeStep ==
  ASSUME LobbyTypeOK, NEW g \in Guest, NEW L \in Lobbies, Update(host, L),
         NEW to, g \in to \ broken, down' = Sent(State(L), to)
  PROVE  Agree(g, View(lobby'[g], down'[g]), lobby'[host])
<1>1. lobby'[host] = L /\ lobby'[g] = lobby[g]
  BY LobbyIs DEF Update, LobbyTypeOK
<1>2. View(lobby[g], down'[g]) = L
  BY SentState
<1> QED BY <1>1, <1>2, AgreeSelf

(* One message, which the host's own lobby follows too.                    *)
LEMMA RelayStep ==
  ASSUME LobbyTypeOK, NEW g \in Guest, Agree(g, View(lobby[g], down[g]), lobby[host]),
         NEW m \in DownMessages, Update(host, Apply(lobby[host], m)),
         NEW to, g \in to \ broken, down' = Sent(<<m>>, to)
  PROVE  Agree(g, View(lobby'[g], down'[g]), lobby'[host])
<1>1. /\ lobby'[host] = Apply(lobby[host], m) /\ lobby'[g] = lobby[g]
      /\ lobby[host] \in Lobbies /\ lobby[g] \in Lobbies /\ down[g] \in Seq(DownMessages)
  BY LobbyIs DEF Update, LobbyTypeOK
<1>2. View(lobby[g], down'[g]) = Apply(View(lobby[g], down[g]), m)
  BY SentOne
<1>3. Agree(g, Apply(View(lobby[g], down[g]), m), Apply(lobby[host], m))
  BY <1>1, ViewType, ApplyAgree
<1> QED BY <1>1, <1>2, <1>3

Met(g) == Agree(g, View(lobby[g], down[g]), lobby[host])

(* The host takes a message of h: what it sends on, and to whom.           *)
LEMMA ConvergeHostReceives ==
  ASSUME LobbyTypeOK, Presented, ViewsConverge, NEW h \in Guest, HostReceives(h),
         NEW g \in Guest, Known(g)'
  PROVE  Met(g)'
<1> DEFINE m == Head(up[h])
           L == Apply(lobby[host], m)
<1>1. up[h] \in Seq(UpMessages) /\ up[h] # <<>> /\ m \in UpMessages /\ m.player = h /\ here' = here
      /\ up \in [Guest -> Seq(UpMessages)]
  <2>1. up[h] \in Seq(UpMessages) /\ up[h] # <<>>
    BY DEF HostReceives, LobbyTypeOK
  <2> QED BY <2>1, TailOf DEF HostReceives, Presented, door, LobbyTypeOK
<1>2. L \in Lobbies /\ lobby[host] \in Lobbies
  BY <1>1, HostLobby, ApplyType
<1>3. CASE m.type = "bye"
  <2>1. /\ Drop(h) /\ Without(lobby[host], h) \in Lobbies
        /\ UNCHANGED linked /\ broken' = broken \cup {h}
    BY <1>2, <1>3, LobbyEdits, LobbyIs DEF HostReceives, Drop
  <2>2. g # h /\ up'[g] = up[g]
    BY <1>1, <2>1 DEF HostReceives, Known
  <2>3. g \in heard /\ g \notin broken
    BY <1>1, <2>1, <2>2, KnownBefore
  <2> QED BY <2>1, <2>2, <2>3, WholeStep DEF Drop, Met
<1>4. CASE m.type \in {"move", "finish"}
  <2>1. /\ Update(host, L) /\ down' = Sent(<<m>>, heard \ {h}) /\ UNCHANGED <<linked, heard, broken>>
        /\ up' = [up EXCEPT ![h] = Tail(@)]
    BY <1>4 DEF HostReceives
  <2>2. m \in DownMessages
    BY <1>1, <1>4 DEF UpMessages, DownMessages, Reports
  <2>3. Known(g) /\ g \in heard /\ g \notin broken
    <3>1. CASE g # h
      <4>1. up'[g] = up[g]
        BY <1>1, <2>1, <3>1
      <4> QED BY <1>1, <2>1, <4>1, KnownBefore
    <3>2. CASE g = h
      <4>1. \A i \in 1..Len(up[g]) : i # 1 => up[g][i].type # "info"
        <5>1. up'[g] = Tail(up[g])
          BY <1>1, <2>1, <3>2
        <5>2. \A i \in 1..Len(Tail(up[g])) : Tail(up[g])[i].type # "info"
          BY <5>1 DEF Known
        <5>3. /\ Len(Tail(up[g])) = Len(up[g]) - 1
              /\ \A i \in 1..Len(up[g]) : i # 1 => i - 1 \in 1..Len(up[g]) - 1
                                                   /\ up[g][i] = Tail(up[g])[i - 1]
          BY <1>1, <3>2, TailOf
        <5> QED BY <5>2, <5>3
      <4>2. up[g][1] = m /\ m.type # "info"
        BY <1>1, <1>4, <3>2, TailOf
      <4> QED BY <1>1, <2>1, <4>1, <4>2 DEF Known
    <3> QED BY <3>1, <3>2
  <2>4. Agree(g, View(lobby[g], down[g]), lobby[host])
    BY <2>3 DEF ViewsConverge
  <2> HIDE DEF m
  <2>5. CASE g # h
    BY <2>1, <2>2, <2>3, <2>4, <2>5, RelayStep DEF Met
  <2>6. CASE g = h
    <3>1. down'[g] = down[g]
      BY <2>1, <2>6, SentNot
    <3>2. lobby'[g] = lobby[g] /\ lobby'[host] = L
      BY <2>1, LobbyIs DEF Update, LobbyTypeOK
    <3>3. Agree(g, L, lobby[host])
      BY <1>1, <1>2, <1>4, <2>6, ReportOwn
    <3>4. Agree(g, lobby[host], L)
      BY <3>3, AgreeSymmetric
    <3> QED BY <2>4, <3>1, <3>2, <3>4, AgreeTransitive DEF Met
  <2> QED BY <2>5, <2>6
<1>5. CASE m.type \in {"info", "ready"}
  <2>1. /\ Update(host, L) /\ down' = Sent(State(L), heard) /\ UNCHANGED <<linked, heard, broken>>
    BY <1>5 DEF HostReceives
  <2>2. g \in heard \ broken
    BY <2>1 DEF Known
  <2> HIDE DEF L
  <2> QED BY <1>2, <2>1, <2>2, WholeStep DEF Met
<1> QED BY <1>1, <1>3, <1>4, <1>5 DEF UpMessages, Reports

(* A guest takes a message, or reports of itself.                          *)
LEMMA ConvergeGuestReceives ==
  ASSUME LobbyTypeOK, ViewsConverge, NEW h \in Guest, GuestReceives(h), NEW g \in Guest, Known(g)'
  PROVE  Met(g)'
<1> DEFINE m == Head(down[h])
<1>1. down[h] \in Seq(DownMessages) /\ down[h] # <<>> /\ down \in [Guest -> Seq(DownMessages)]
      /\ lobby \in [Person -> Lobbies] /\ h # host /\ h \in Person /\ host \in Person /\ g \in Person
  BY LobbyIs DEF GuestReceives, LobbyTypeOK
<1>2. Known(g) /\ lobby'[host] = lobby[host]
  BY <1>1 DEF GuestReceives, Known, Abandoned, Update
<1>3. CASE g # h
  <2>1. lobby'[g] = lobby[g] /\ down'[g] = down[g]
    BY <1>1, <1>3 DEF GuestReceives, Abandoned, Update
  <2> QED BY <1>2, <2>1, Kept DEF Met
<1>4. CASE g = h
  <2>1. m.type # "bye"
    BY <1>4 DEF GuestReceives, Abandoned, Known
  <2>2. lobby'[g] = Apply(lobby[g], m) /\ down'[g] = Tail(down[g])
    BY <1>1, <1>4, <2>1 DEF GuestReceives, Update
  <2>3. View(lobby[g], down[g]) = View(Apply(lobby[g], m), Tail(down[g]))
    BY <1>1, <1>4, ViewTail
  <2> QED BY <1>2, <2>2, <2>3 DEF ViewsConverge, Met
<1> QED BY <1>3, <1>4

LEMMA ConvergeOwn ==
  ASSUME LobbyTypeOK, NEW g \in Guest, Met(g), NEW m \in UpMessages, m.player = g, m.type # "bye",
         Update(g, Apply(lobby[g], m)), down'[g] = down[g]
  PROVE  Met(g)'
<1>1. lobby[g] \in Lobbies /\ down[g] \in Seq(DownMessages)
  BY HostLobby DEF LobbyTypeOK
<1>2. Apply(lobby[g], m) \in Lobbies /\ Agree(g, Apply(lobby[g], m), lobby[g])
  BY <1>1, ApplyType, ReportOwn
<1>3. Agree(g, View(Apply(lobby[g], m), down[g]), View(lobby[g], down[g]))
  BY <1>1, <1>2, ViewAgree
<1>4. lobby'[g] = Apply(lobby[g], m) /\ lobby'[host] = lobby[host]
  BY LobbyIs DEF Update, LobbyTypeOK
<1> QED BY <1>3, <1>4, AgreeTransitive DEF Met

LEMMA ConvergeReport ==
  ASSUME LobbyTypeOK, ViewsConverge, NEW h \in Guest, NEW m \in UpMessages, m.player = h, m.type # "bye",
         Update(h, Apply(lobby[h], m)), Report(h, m), UNCHANGED <<here, linked, heard, broken>>,
         NEW g \in Guest, Known(g)'
  PROVE  Met(g)'
<1>1. /\ h # host /\ down' = down /\ lobby \in [Person -> Lobbies] /\ g \in Person /\ host \in Person
      /\ up \in [Guest -> Seq(UpMessages)]
      /\ up' = [up EXCEPT ![h] = Append(@, m)] \/ up' = up
  BY LobbyIs DEF Report, LobbyTypeOK
<1>2. Known(g)
  <2>1. \A i \in 1..Len(up[g]) : i \in 1..Len(up'[g]) /\ up'[g][i] = up[g][i]
    <3>1. CASE up' = up \/ g # h
      BY <1>1, <3>1
    <3>2. CASE g = h /\ up' = [up EXCEPT ![h] = Append(@, m)]
      <4>1. up'[g] = Append(up[g], m) /\ up[g] \in Seq(UpMessages)
        BY <1>1, <3>2
      <4>2. Len(up'[g]) = Len(up[g]) + 1 /\ \A i \in 1..Len(up[g]) : up'[g][i] = up[g][i]
        BY <4>1, Appended
      <4>3. Len(up[g]) \in Nat
        BY <4>1
      <4> QED BY <4>2, <4>3
    <3> QED BY <1>1, <3>1, <3>2
  <2> QED BY <2>1 DEF Known
<1>3. CASE g = h
  BY <1>1, <1>2, <1>3, ConvergeOwn DEF ViewsConverge, Met
<1>4. CASE g # h
  <2>1. lobby'[g] = lobby[g] /\ lobby'[host] = lobby[host] /\ down'[g] = down[g]
    BY <1>1, <1>4 DEF Update
  <2> QED BY <1>2, <2>1, Kept DEF Met
<1> QED BY <1>3, <1>4

LEMMA ConvergeNext ==
  ASSUME LobbyTypeOK, Presented, ViewsConverge, [Next]_vars
  PROVE  ViewsConverge'
<1> SUFFICES ASSUME NEW g \in Guest, Known(g)' PROVE Met(g)'
  BY DEF ViewsConverge, Met
<1>0. /\ lobby \in [Person -> Lobbies] /\ host \in Person /\ g \in Person /\ g # host
      /\ up \in [Guest -> Seq(UpMessages)] /\ lobby[host] \in Lobbies /\ lobby[g] \in Lobbies
      /\ Known(g) => Met(g)
  BY LobbyIs DEF LobbyTypeOK, ViewsConverge, Met
<1>1. ASSUME NEW h \in Guest, AcceptJoin(h) PROVE Met(g)'
  <2> DEFINE L == With(lobby[host], h)
  <2>1. L \in Lobbies /\ Update(host, L) /\ down' = Sent(State(L), heard) /\ UNCHANGED <<heard, broken>>
    BY <1>0, <1>1, LobbyEdits, LobbyIs DEF AcceptJoin
  <2> HIDE DEF L
  <2> QED BY <2>1, WholeStep DEF Known, Met
<1>2. ASSUME NEW h \in Guest, CompleteJoin(h) PROVE Met(g)'
  <2>1. UNCHANGED <<here, linked, heard, broken, up, down>> /\ status[h] = "accepted"
    BY <1>2 DEF CompleteJoin, net
  <2>2. Known(g) /\ g # h
    BY <2>1 DEF Known, Presented
  <2>3. lobby'[g] = lobby[g] /\ lobby'[host] = lobby[host]
    BY <1>0, <1>2, <2>2, LobbyIs DEF CompleteJoin, Update
  <2> QED BY <2>1, <2>2, <2>3, Kept DEF Met
<1>3. ASSUME NEW h \in Guest, OpenAtHost(h) PROVE Met(g)'
  <2>1. UNCHANGED <<lobby, here, linked, broken, up, down>>
    BY <1>3 DEF OpenAtHost, door
  <2>2. Known(g)
    BY <2>1, KnownBefore
  <2> QED BY <2>1, <2>2, Kept DEF Met
<1>4. ASSUME NEW h \in Guest, OpenAtGuest(h) PROVE Met(g)'
  <2> DEFINE m == [type |-> "info", player |-> h]
  <2>1. UNCHANGED <<lobby, here, heard, broken, down>> /\ linked' = linked \cup {h}
        /\ up' = [up EXCEPT ![h] = Append(@, m)]
    BY <1>4 DEF OpenAtGuest, door
  <2>2. g # h
    <3> SUFFICES ASSUME g = h PROVE FALSE
      OBVIOUS
    <3>1. m \in UpMessages /\ m.type = "info" /\ up'[g] = Append(up[g], m) /\ up[g] \in Seq(UpMessages)
      BY <1>0, <2>1 DEF UpMessages
    <3> HIDE DEF m
    <3>2. Len(up'[g]) = Len(up[g]) + 1 /\ up'[g][Len(up[g]) + 1] = m /\ Len(up[g]) \in Nat
      BY <3>1, Appended
    <3>3. Len(up'[g]) \in 1..Len(up'[g]) /\ up'[g][Len(up'[g])].type = "info"
      BY <3>1, <3>2
    <3> QED BY <3>3 DEF Known
  <2>3. up'[g] = up[g]
    BY <1>0, <2>1, <2>2
  <2>4. Known(g)
    BY <2>1, <2>2, <2>3 DEF Known
  <2> QED BY <2>1, <2>4, Kept DEF Met
<1>5. ASSUME NEW h \in Guest, HostReceives(h) PROVE Met(g)'
  BY <1>5, ConvergeHostReceives
<1>6. ASSUME NEW h \in Guest, HostLoses(h) PROVE Met(g)'
  <2>1. /\ Drop(h) /\ Without(lobby[host], h) \in Lobbies /\ UNCHANGED <<here, linked>>
        /\ broken' = broken \cup {h} /\ up' = [up EXCEPT ![h] = <<>>]
    BY <1>0, <1>6, LobbyEdits, LobbyIs DEF HostLoses, Drop, door
  <2>2. g # h /\ up'[g] = up[g]
    BY <1>0, <2>1 DEF Known
  <2>3. g \in heard /\ g \notin broken
    BY <2>1, <2>2, KnownBefore
  <2> QED BY <2>1, <2>2, <2>3, WholeStep DEF Drop, Met
<1>7. ASSUME NEW w \in 1..MaxWords, SetChallengeWords(w) PROVE Met(g)'
  <2> DEFINE L == [lobby[host] EXCEPT !.words = w]
  <2>1. L \in Lobbies /\ Update(host, L) /\ down' = Sent(State(L), heard) /\ UNCHANGED <<heard, broken>>
    BY <1>0, <1>7, StartLobby DEF SetChallengeWords, net
  <2> HIDE DEF L
  <2> QED BY <2>1, WholeStep DEF Known, Met
<1>8. ASSUME StartGame PROVE Met(g)'
  <2> DEFINE L == [lobby[host] EXCEPT !.started = TRUE, !.count = Count]
             m == [type |-> "start", words |-> L.words, count |-> Count]
  <2>1. L.words = lobby[host].words
    BY <1>0, LobbyIs
  <2>2. m \in DownMessages
    BY <1>0, <2>1, StartLobby
  <2>3. Apply(lobby[host], m) = L
    <3>1. Apply(lobby[host], m) = [lobby[host] EXCEPT !.started = TRUE, !.words = lobby[host].words, !.count = Count]
      BY <2>1 DEF Apply
    <3>2. lobby[host] \in [players : Roster, words : 0..MaxWords, started : BOOLEAN, count : None..Count]
      BY <1>0, LobbyIs
    <3> QED BY <3>1, <3>2
  <2>4. Update(host, L) /\ down' = Sent(<<m>>, heard) /\ UNCHANGED <<here, linked, heard, broken, up>>
    BY <1>8 DEF StartGame, door, net
  <2> HIDE DEF L, m
  <2>5. Known(g) /\ g \in heard \ broken
    BY <2>4 DEF Known
  <2> QED BY <1>0, <2>2, <2>3, <2>4, <2>5, RelayStep DEF Met
<1>9. ASSUME CountdownTick PROVE Met(g)'
  <2> DEFINE L == [lobby[host] EXCEPT !.count = timer - 1]
             tick == [type |-> "tick", count |-> timer - 1]
             begin == [type |-> "begin"]
  <2>1. timer - 1 \in 0..Count
    BY <1>9, LobbyIs DEF CountdownTick, LobbyTypeOK
  <2>2. tick \in DownMessages /\ begin \in DownMessages /\ L \in Lobbies
    BY <1>0, <2>1, TickLobby
  <2>3. Apply(lobby[host], tick) = L /\ Apply(L, begin) = Begun(L)
    BY DEF Apply
  <2>4. UNCHANGED <<here, linked, heard, broken, up>>
    BY <1>9 DEF CountdownTick, door, net
  <2>5. Known(g) /\ g \in heard \ broken
    BY <2>4 DEF Known
  <2>6. \/ Update(host, L) /\ down' = Sent(<<tick>>, heard)
        \/ Update(host, Begun(L)) /\ down' = Sent(<<tick, begin>>, heard)
    BY <1>9 DEF CountdownTick
  <2> HIDE DEF L, tick, begin
  <2>7. CASE Update(host, L) /\ down' = Sent(<<tick>>, heard)
    BY <1>0, <2>2, <2>3, <2>5, <2>7, RelayStep DEF Met
  <2>8. CASE Update(host, Begun(L)) /\ down' = Sent(<<tick, begin>>, heard)
    <3>1. lobby'[host] = Begun(L) /\ lobby'[g] = lobby[g]
      BY <1>0, <2>8 DEF Update
    <3>2. View(lobby[g], down'[g]) = Apply(Apply(View(lobby[g], down[g]), tick), begin)
      BY <2>2, <2>5, <2>8, SentTwo
    <3>3. View(lobby[g], down[g]) \in Lobbies
      BY <1>0, ViewType DEF LobbyTypeOK
    <3>4. Agree(g, Apply(View(lobby[g], down[g]), tick), L) /\ Apply(View(lobby[g], down[g]), tick) \in Lobbies
      BY <1>0, <2>2, <2>3, <2>5, <3>3, ApplyAgree, ApplyType DEF Met
    <3>5. Agree(g, Apply(Apply(View(lobby[g], down[g]), tick), begin), Begun(L))
      BY <2>2, <2>3, <3>4, ApplyAgree
    <3> QED BY <3>1, <3>2, <3>5 DEF Met
  <2> QED BY <2>6, <2>7, <2>8
<1>10. ASSUME HostLeave PROVE Met(g)'
  BY <1>10 DEF HostLeave, Known
<1>11. ASSUME NEW h \in Guest, GuestReceives(h) PROVE Met(g)'
  BY <1>11, ConvergeGuestReceives
<1>12. ASSUME NEW h \in Guest, GuestLoses(h) PROVE Met(g)'
  <2>1. Known(g) /\ g # h
    BY <1>12 DEF GuestLoses, Abandoned, Known
  <2>2. lobby'[g] = lobby[g] /\ lobby'[host] = lobby[host] /\ down'[g] = down[g]
    BY <1>0, <1>12, <2>1, LobbyIs DEF GuestLoses, Abandoned, Update, LobbyTypeOK
  <2> QED BY <2>1, <2>2, Kept DEF Met
<1>13. ASSUME NEW h \in Guest, ToggleReady(h) PROVE Met(g)'
  <2> DEFINE m == [type |-> "ready", player |-> h, ready |-> ~lobby[h].players[h].ready]
  <2>1. m \in UpMessages /\ m.player = h /\ m.type = "ready" /\ h # host
    BY LobbyAssumption DEF UpMessages
  <2>2. Update(h, Apply(lobby[h], m)) /\ Report(h, m) /\ UNCHANGED <<here, linked, heard, broken>>
    BY <1>13 DEF ToggleReady, door, net
  <2> HIDE DEF m
  <2> QED BY <2>1, <2>2, ConvergeReport DEF Met
<1>14. ASSUME NEW p \in Person, NEW kind \in {"move", "finish"}, Click(p, kind) PROVE Met(g)'
  <2> DEFINE m == [type |-> kind, player |-> p, clicks |-> clicks[p] + 1]
  <2>1. m \in UpMessages /\ m.player = p /\ m.type = kind /\ m \in DownMessages
    <3>1. clicks[p] + 1 \in 0..MaxClicks
      BY <1>14, ClicksMore
    <3>2. m \in Reports
      BY <3>1, ReportTypes
    <3> QED BY <3>2 DEF UpMessages, DownMessages
  <2>2. Update(p, Apply(lobby[p], m)) /\ Report(p, m) /\ UNCHANGED <<here, linked, heard, broken>>
    BY <1>14 DEF Click, door, net
  <2> HIDE DEF m
  <2>3. CASE p = host
    <3>1. down' = Sent(<<m>>, heard) /\ UNCHANGED up
      BY <2>2, <2>3 DEF Report
    <3>2. Known(g) /\ g \in heard \ broken
      BY <2>2, <3>1 DEF Known
    <3> QED BY <1>0, <2>1, <2>2, <2>3, <3>1, <3>2, RelayStep DEF Met
  <2>4. CASE p # host
    BY <2>1, <2>2, <2>4, ConvergeReport DEF Person
  <2> QED BY <2>3, <2>4
<1>15. ASSUME NEW h \in Guest, Leave(h) PROVE Met(g)'
  <2>1. g # h
    BY <1>15 DEF Leave, Known
  <2>2. /\ up'[g] = up[g] /\ down'[g] = down[g]
        /\ lobby'[g] = lobby[g] /\ lobby'[host] = lobby[host]
    BY <1>0, <1>15, <2>1, LobbyIs DEF Leave, Update, LobbyTypeOK
  <2>3. Known(g)
    BY <1>15, <2>1, <2>2 DEF Leave, Known
  <2> QED BY <2>2, <2>3, Kept DEF Met
<1>16. ASSUME NEW h \in Guest, Break(h) PROVE Met(g)'
  <2>1. UNCHANGED <<lobby, down>> /\ Known(g)
    BY <1>16 DEF Break, Known, door
  <2> QED BY <2>1, Kept DEF Met
<1>17. CASE UNCHANGED vars
  <2>1. UNCHANGED <<lobby, down>> /\ Known(g)
    BY <1>17 DEF vars, Known
  <2> QED BY <2>1, Kept DEF Met
<1> QED BY <1>1, <1>2, <1>3, <1>4, <1>5, <1>6, <1>7, <1>8, <1>9, <1>10, <1>11, <1>12, <1>13,
           <1>14, <1>15, <1>16, <1>17 DEF Next, System, User

-----------------------------------------------------------------------------
(* The countdown.                                                          *)

(* Who is shown a lobby that says the countdown is over starts its race.   *)
LEMMA ShownStarts ==
  ASSUME LobbyTypeOK, StartedAll, NEW p \in Person, NEW L, Update(p, L), Shown(p, L)
  PROVE  StartedAll'
<1>1. /\ \A q \in Person \ {p} : lobby'[q] = lobby[q]
      /\ lobby'[p] = L /\ racing \subseteq raced
  BY DEF Update, LobbyTypeOK, StartedAll
<1>2. racing' \subseteq raced' /\ raced \subseteq raced' /\ (Over(L) => p \in raced')
  BY <1>1 DEF Shown, Over
<1> QED BY <1>1, <1>2 DEF StartedAll

(* What a page makes of its own report is as much over as it was.          *)
LEMMA OwnReport ==
  ASSUME LobbyTypeOK, NEW p \in Person, NEW m \in UpMessages, m.type # "bye", Update(p, Apply(lobby[p], m))
  PROVE  \A q \in Person : lobby'[q].started = lobby[q].started /\ lobby'[q].count = lobby[q].count
<1>1. lobby[p] \in Lobbies
  BY DEF LobbyTypeOK
<1>2. Apply(lobby[p], m).started = lobby[p].started /\ Apply(lobby[p], m).count = lobby[p].count
  BY <1>1, ReportFields
<1> QED BY <1>2 DEF Update, LobbyTypeOK

LEMMA Quiet ==
  ASSUME StartedAll, \A q \in Person : Over(lobby'[q]) => Over(lobby[q]),
         racing' \subseteq racing, raced' = raced
  PROVE  StartedAll'
BY DEF StartedAll

LEMMA ClickIs ==
  ASSUME LobbyTypeOK, NEW p \in Person, NEW kind \in {"move", "finish"}, Click(p, kind)
  PROVE  \E m \in UpMessages : /\ m.player = p /\ m.type = kind /\ m \in DownMessages
                               /\ Update(p, Apply(lobby[p], m)) /\ Report(p, m)
<1> DEFINE m == [type |-> kind, player |-> p, clicks |-> clicks[p] + 1]
<1>1. clicks[p] + 1 \in 0..MaxClicks
  BY ClicksMore
<1>2. m \in Reports
  BY <1>1, ReportTypes
<1>3. m \in UpMessages /\ m \in DownMessages /\ m.player = p /\ m.type = kind
  BY <1>2 DEF UpMessages, DownMessages
<1>4. Update(p, Apply(lobby[p], m)) /\ Report(p, m)
  BY DEF Click
<1> QED BY <1>3, <1>4

LEMMA ReadyIs ==
  ASSUME NEW g \in Guest, ToggleReady(g)
  PROVE  \E m \in UpMessages : /\ m.player = g /\ m.type = "ready"
                               /\ Update(g, Apply(lobby[g], m)) /\ Report(g, m)
<1> DEFINE m == [type |-> "ready", player |-> g, ready |-> ~lobby[g].players[g].ready]
<1>1. m \in UpMessages /\ m.player = g /\ m.type = "ready"
  BY DEF UpMessages
<1>2. Update(g, Apply(lobby[g], m)) /\ Report(g, m)
  BY DEF ToggleReady
<1> QED BY <1>1, <1>2

LEMMA StartedNext ==
  ASSUME LobbyTypeOK, StartedAll, [Next]_vars
  PROVE  StartedAll'
<1>0. host \in Person /\ Guest \subseteq Person /\ lobby \in [Person -> Lobbies] /\ ~ Over(Empty)
  BY LobbyIs DEF LobbyTypeOK, Over, Empty
<1>1. ASSUME NEW g \in Guest, AcceptJoin(g) PROVE StartedAll'
  BY <1>0, <1>1, ShownStarts DEF AcceptJoin
<1>2. ASSUME NEW g \in Guest, CompleteJoin(g) PROVE StartedAll'
  BY <1>0, <1>2, ShownStarts DEF CompleteJoin
<1>3. ASSUME NEW g \in Guest, OpenAtHost(g) PROVE StartedAll'
  BY <1>3 DEF OpenAtHost, StartedAll, game, Over
<1>4. ASSUME NEW g \in Guest, OpenAtGuest(g) PROVE StartedAll'
  BY <1>4 DEF OpenAtGuest, StartedAll, game, Over
<1>5. ASSUME NEW g \in Guest, HostReceives(g) PROVE StartedAll'
  <2>1. \E L : Update(host, L) /\ Shown(host, L)
    BY <1>5 DEF HostReceives, Drop
  <2> QED BY <1>0, <2>1, ShownStarts
<1>6. ASSUME NEW g \in Guest, HostLoses(g) PROVE StartedAll'
  BY <1>0, <1>6, ShownStarts DEF HostLoses, Drop
<1>7. ASSUME NEW w \in 1..MaxWords, SetChallengeWords(w) PROVE StartedAll'
  BY <1>0, <1>7, ShownStarts DEF SetChallengeWords
<1>8. ASSUME StartGame PROVE StartedAll'
  BY <1>0, <1>8, ShownStarts DEF StartGame
<1>9. ASSUME CountdownTick PROVE StartedAll'
  <2>1. \E L : Update(host, L) /\ Shown(host, L)
    BY <1>9 DEF CountdownTick
  <2> QED BY <1>0, <2>1, ShownStarts
<1>10. ASSUME HostLeave PROVE StartedAll'
  BY <1>0, <1>10, Quiet DEF HostLeave, Update
<1>11. ASSUME NEW g \in Guest, GuestReceives(g) PROVE StartedAll'
  <2>1. \E L : Update(g, L) /\ Shown(g, L)
    BY <1>11 DEF GuestReceives, Abandoned
  <2> QED BY <1>0, <2>1, ShownStarts
<1>12. ASSUME NEW g \in Guest, GuestLoses(g) PROVE StartedAll'
  BY <1>0, <1>12, ShownStarts DEF GuestLoses, Abandoned
<1>13. ASSUME NEW g \in Guest, ToggleReady(g) PROVE StartedAll'
  <2>1. \A q \in Person : lobby'[q].started = lobby[q].started /\ lobby'[q].count = lobby[q].count
    BY <1>0, <1>13, ReadyIs, OwnReport
  <2> QED BY <1>13, <2>1, Quiet DEF ToggleReady, game, Over
<1>14. ASSUME NEW p \in Person, NEW kind \in {"move", "finish"}, Click(p, kind) PROVE StartedAll'
  <2>1. \A q \in Person : lobby'[q].started = lobby[q].started /\ lobby'[q].count = lobby[q].count
    BY <1>14, ClickIs, OwnReport
  <2>2. racing' \subseteq racing /\ raced' = raced
    BY <1>14 DEF Click
  <2> QED BY <2>1, <2>2, Quiet DEF Over
<1>15. ASSUME NEW g \in Guest, Leave(g) PROVE StartedAll'
  BY <1>0, <1>15, Quiet DEF Leave, Update
<1>16. ASSUME NEW g \in Guest, Break(g) PROVE StartedAll'
  BY <1>16 DEF Break, StartedAll, game, Over
<1>17. CASE UNCHANGED vars
  BY <1>17 DEF vars, StartedAll, Over
<1> QED BY <1>1, <1>2, <1>3, <1>4, <1>5, <1>6, <1>7, <1>8, <1>9, <1>10, <1>11, <1>12, <1>13,
           <1>14, <1>15, <1>16, <1>17 DEF Next, System, User

(* The host's own lobby follows its interval.                              *)
LEMMA ClockNext ==
  ASSUME LobbyTypeOK, HostClock, [Next]_vars
  PROVE  HostClock'
<1>0. /\ host \in Person /\ host \notin Guest /\ Guest \subseteq Person /\ lobby \in [Person -> Lobbies]
      /\ lobby[host] \in Lobbies /\ timer \in Nat /\ races \in Nat /\ Count \in Nat \ {0}
  BY LobbyIs, LobbyAssumption DEF LobbyTypeOK
<1>a. ASSUME NEW L, Update(host, L), L.count = lobby[host].count, L.started = lobby[host].started,
             UNCHANGED <<here, timer, races>>
      PROVE  HostClock'
  BY <1>0, <1>a DEF HostClock, Update
<1>b. ASSUME lobby'[host] = lobby[host], UNCHANGED <<here, timer, races>>
      PROVE  HostClock'
  BY <1>b DEF HostClock
<1>1. ASSUME NEW g \in Guest, AcceptJoin(g) PROVE HostClock'
  BY <1>0, <1>1, <1>a, EditFields DEF AcceptJoin
<1>2. ASSUME NEW g \in Guest, CompleteJoin(g) PROVE HostClock'
  BY <1>0, <1>2, <1>b DEF CompleteJoin, Update
<1>3. ASSUME NEW g \in Guest, OpenAtHost(g) PROVE HostClock'
  BY <1>3, <1>b DEF OpenAtHost, door
<1>4. ASSUME NEW g \in Guest, OpenAtGuest(g) PROVE HostClock'
  BY <1>4, <1>b DEF OpenAtGuest, door
<1>d. ASSUME NEW g \in Guest, Drop(g), UNCHANGED <<here, timer, races>> PROVE HostClock'
  BY <1>0, <1>d, <1>a, EditFields DEF Drop
<1>5. ASSUME NEW g \in Guest, HostReceives(g) PROVE HostClock'
  <2> DEFINE m == Head(up[g])
             L == Apply(lobby[host], m)
  <2>1. m \in UpMessages /\ UNCHANGED <<here, timer, races>>
    <3>1. up[g] \in Seq(UpMessages) /\ up[g] # <<>>
      BY <1>5 DEF HostReceives, LobbyTypeOK
    <3> QED BY <1>5, <3>1 DEF HostReceives, door
  <2>2. CASE m.type = "bye"
    BY <1>5, <1>d, <2>1, <2>2 DEF HostReceives
  <2>3. CASE m.type # "bye"
    <3>1. Update(host, L)
      BY <1>5, <2>3 DEF HostReceives
    <3>2. L.count = lobby[host].count /\ L.started = lobby[host].started
      BY <1>0, <2>1, <2>3, ReportFields
    <3> QED BY <1>a, <2>1, <3>1, <3>2
  <2> QED BY <2>2, <2>3
<1>6. ASSUME NEW g \in Guest, HostLoses(g) PROVE HostClock'
  BY <1>6, <1>d DEF HostLoses, door
<1>7. ASSUME NEW w \in 1..MaxWords, SetChallengeWords(w) PROVE HostClock'
  <2> DEFINE L == [lobby[host] EXCEPT !.words = w]
  <2>1. L.count = lobby[host].count /\ L.started = lobby[host].started
    BY <1>0, LobbyIs
  <2>2. Update(host, L) /\ UNCHANGED <<here, timer, races>>
    BY <1>7 DEF SetChallengeWords, door
  <2> QED BY <1>a, <2>1, <2>2
<1>8. ASSUME StartGame PROVE HostClock'
  <2> DEFINE L == [lobby[host] EXCEPT !.started = TRUE, !.count = Count]
  <2>1. L.count = Count /\ L.started = TRUE
    BY <1>0, LobbyIs
  <2>2. lobby'[host] = L /\ timer' = Count /\ races' = races + 1
    BY <1>0, <1>8 DEF StartGame, Update
  <2> QED BY <1>0, <2>1, <2>2 DEF HostClock
<1>9. ASSUME CountdownTick PROVE HostClock'
  <2> DEFINE L == [lobby[host] EXCEPT !.count = timer - 1]
  <2>1. L.count = timer - 1 /\ L.started = lobby[host].started
    BY <1>0, LobbyIs
  <2>2. L \in Lobbies
    <3>1. timer - 1 \in 0..Count
      BY <1>9, LobbyIs DEF CountdownTick, LobbyTypeOK
    <3> QED BY <1>0, <3>1, TickLobby
  <2>3. Begun(L).count = None /\ Begun(L).started = L.started
    BY <2>2, BegunFields
  <2>4. timer > 0 /\ timer' = timer - 1 /\ UNCHANGED <<here, races>>
    BY <1>9 DEF CountdownTick, door
  <2>5. IF timer > 1 THEN Update(host, L) ELSE Update(host, Begun(L))
    BY <1>9 DEF CountdownTick
  <2> HIDE DEF L
  <2>6. lobby'[host] = IF timer > 1 THEN L ELSE Begun(L)
    BY <1>0, <2>5 DEF Update
  <2> QED BY <1>0, <2>1, <2>3, <2>4, <2>6 DEF HostClock
<1>10. ASSUME HostLeave PROVE HostClock'
  BY <1>10 DEF HostLeave, HostClock
<1>11. ASSUME NEW g \in Guest, GuestReceives(g) PROVE HostClock'
  BY <1>0, <1>11, <1>b DEF GuestReceives, Abandoned, Update
<1>12. ASSUME NEW g \in Guest, GuestLoses(g) PROVE HostClock'
  BY <1>0, <1>12, <1>b DEF GuestLoses, Abandoned, Update
<1>13. ASSUME NEW g \in Guest, ToggleReady(g) PROVE HostClock'
  BY <1>0, <1>13, <1>b DEF ToggleReady, Update, door
<1>14. ASSUME NEW p \in Person, NEW kind \in {"move", "finish"}, Click(p, kind) PROVE HostClock'
  <2>1. \A q \in Person : lobby'[q].started = lobby[q].started /\ lobby'[q].count = lobby[q].count
    BY <1>14, ClickIs, OwnReport
  <2>2. UNCHANGED <<here, timer, races>>
    BY <1>14 DEF Click, door
  <2> QED BY <1>0, <2>1, <2>2 DEF HostClock
<1>15. ASSUME NEW g \in Guest, Leave(g) PROVE HostClock'
  BY <1>0, <1>15, <1>b DEF Leave, Update
<1>16. ASSUME NEW g \in Guest, Break(g) PROVE HostClock'
  BY <1>16, <1>b DEF Break, door
<1>17. CASE UNCHANGED vars
  BY <1>17 DEF vars, HostClock
<1> QED BY <1>1, <1>2, <1>3, <1>4, <1>5, <1>6, <1>7, <1>8, <1>9, <1>10, <1>11, <1>12, <1>13,
           <1>14, <1>15, <1>16, <1>17 DEF Next, System, User

LEMMA EarlyApply ==
  ASSUME NEW L \in Lobbies, ~ Over(L), NEW m \in UpMessages \cup DownMessages, Early(m)
  PROVE  ~ Over(Apply(L, m))
<1>0. None \notin 0..Count /\ Count \in 0..Count
  BY LobbyIs
<1>1. CASE m.type = "state"
  BY <1>1 DEF Apply, Early
<1>2. CASE m.type = "start"
  <2>1. m.count = Count
    BY <1>2, MessageIs
  <2>2. Apply(L, m).count = m.count
    BY <1>2, LobbyIs DEF Apply
  <2> QED BY <1>0, <2>1, <2>2 DEF Over
<1>3. CASE m.type = "tick"
  <2>1. m.count \in 0..Count
    BY <1>3, MessageIs
  <2>2. Apply(L, m).count = m.count
    BY <1>3, LobbyIs DEF Apply
  <2> QED BY <1>0, <2>1, <2>2 DEF Over
<1>4. CASE m.type = "bye"
  BY <1>4, EditFields DEF Apply, Over
<1>5. CASE m.type \in {"info", "ready", "move", "finish"}
  <2>1. m \in UpMessages /\ m.type # "bye"
    BY <1>5, MessageIs
  <2> QED BY <2>1, ReportFields DEF Over
<1> QED BY <1>1, <1>2, <1>3, <1>4, <1>5, MessageIs DEF Early

LEMMA EarlySent ==
  ASSUME LobbyTypeOK, NEW ms \in Seq(DownMessages), NEW to, NEW g \in Guest,
         \A i \in 1..Len(down[g]) : Early(down[g][i]), \A i \in 1..Len(ms) : Early(ms[i])
  PROVE  \A i \in 1..Len(Sent(ms, to)[g]) : Early(Sent(ms, to)[g][i])
<1>1. down[g] \in Seq(DownMessages)
  BY DEF LobbyTypeOK
<1>2. \A i \in 1..Len(down[g] \o ms) : Early((down[g] \o ms)[i])
  <2> SUFFICES ASSUME NEW i \in 1..Len(down[g] \o ms) PROVE Early((down[g] \o ms)[i])
    OBVIOUS
  <2>1. CASE i \in 1..Len(down[g])
    BY <1>1, <2>1
  <2>2. CASE i \notin 1..Len(down[g])
    <3>1. i - Len(down[g]) \in 1..Len(ms) /\ (down[g] \o ms)[i] = ms[i - Len(down[g])]
      BY <1>1, <2>2
    <3> QED BY <3>1
  <2> QED BY <2>1, <2>2
<1> QED BY <1>2 DEF Sent

(* A step that shows p a lobby that is not over, and sends what is not.    *)
LEMMA EarlyStep ==
  ASSUME LobbyTypeOK, BeforeFirst, First, NEW p \in Person, NEW L, ~ Over(L), Update(p, L),
         raced' = raced \/ Shown(p, L), NEW ms \in Seq(DownMessages), NEW to,
         \A i \in 1..Len(ms) : Early(ms[i]), down' = Sent(ms, to) \/ down' = down,
         \A g \in Guest : code'[g] = code[g] \/ ~ Over(code'[g])
  PROVE  BeforeFirst'
<1>1. raced' = {}
  BY DEF Shown, Over, BeforeFirst
<1>2. \A q \in Person : ~ Over(lobby'[q])
  BY DEF Update, LobbyTypeOK, BeforeFirst
<1>3. ASSUME NEW g \in Guest PROVE \A i \in 1..Len(down'[g]) : Early(down'[g][i])
  <2>1. \A i \in 1..Len(down[g]) : Early(down[g][i])
    BY DEF BeforeFirst
  <2> QED BY <2>1, EarlySent
<1>4. \A g \in Guest : ~ Over(code'[g])
  BY DEF BeforeFirst
<1>5. \A q \in Person : ~ Over(lobby[q])'
  BY <1>2 DEF Over
<1>6. \A g \in Guest : ~ Over(code[g])' /\ \A i \in 1..Len(down'[g]) : Early(down[g][i])'
  BY <1>3, <1>4 DEF Early, Over
<1> QED BY <1>1, <1>5, <1>6 DEF BeforeFirst

LEMMA NoMessage == <<>> \in Seq(DownMessages) /\ \A i \in 1..Len(<<>>) : FALSE
OBVIOUS

LEMMA OneEarly ==
  ASSUME NEW m \in DownMessages, Early(m)
  PROVE  <<m>> \in Seq(DownMessages) /\ \A i \in 1..Len(<<m>>) : Early(<<m>>[i])
<1>1. Len(<<m>>) = 1 /\ <<m>>[1] = m /\ <<m>> \in Seq(DownMessages)
  OBVIOUS
<1>2. \A i \in 1..1 : i = 1
  OBVIOUS
<1> HIDE DEF Early
<1> QED BY <1>1, <1>2

LEMMA StateEarly ==
  ASSUME NEW L \in Lobbies, ~ Over(L)
  PROVE  State(L) \in Seq(DownMessages) /\ \A i \in 1..Len(State(L)) : Early(State(L)[i])
<1> DEFINE m == [type |-> "state", lobby |-> L]
<1>1. m \in DownMessages /\ Early(m) /\ State(L) = <<m>>
  BY DEF DownMessages, Early, State
<1> HIDE DEF m
<1> QED BY <1>1, OneEarly

LEMMA BeforeFirstNext ==
  ASSUME LobbyTypeOK, HostClock, BeforeFirst, [Next]_vars
  PROVE  BeforeFirst'
<1> SUFFICES ASSUME First' PROVE BeforeFirst'
  BY DEF BeforeFirst
<1>0. /\ host \in Person /\ Guest \subseteq Person /\ lobby \in [Person -> Lobbies]
      /\ lobby[host] \in Lobbies /\ timer \in Nat /\ races \in Nat /\ Count \in Nat \ {0}
      /\ code \in [Guest -> Lobbies] /\ None \notin 0..Count /\ \A n \in Nat : n # None
      /\ down \in [Guest -> Seq(DownMessages)]
  BY LobbyIs, LobbyAssumption DEF LobbyTypeOK, None
<1>a. First => ~ Over(lobby[host])
  BY <1>0 DEF BeforeFirst
<1>b. ASSUME UNCHANGED <<here, timer, races>> PROVE First
  BY <1>b DEF First
<1>c. ASSUME First, UNCHANGED <<raced, code, down>>, \A q \in Person : Over(lobby'[q]) => Over(lobby[q])
      PROVE  BeforeFirst'
  BY <1>c DEF BeforeFirst, Over, Early
<1>1. ASSUME NEW g \in Guest, AcceptJoin(g) PROVE BeforeFirst'
  <2> DEFINE L == With(lobby[host], g)
  <2>1. L \in Lobbies /\ L.started = lobby[host].started /\ L.count = lobby[host].count
    BY <1>0, LobbyEdits, EditFields
  <2>2. /\ Update(host, L) /\ Shown(host, L) /\ code' = [code EXCEPT ![g] = L]
        /\ down' = Sent(State(L), heard) /\ First
    BY <1>1, <1>b DEF AcceptJoin
  <2> HIDE DEF L
  <2>3. ~ Over(L)
    BY <1>a, <2>1, <2>2 DEF Over
  <2>4. \A h \in Guest : code'[h] = code[h] \/ ~ Over(code'[h])
    BY <1>0, <2>2, <2>3
  <2> QED BY <1>0, <2>1, <2>2, <2>3, <2>4, StateEarly, EarlyStep
<1>2. ASSUME NEW g \in Guest, CompleteJoin(g) PROVE BeforeFirst'
  <2>1. First /\ ~ Over(code[g]) /\ ~ Over(Empty)
    BY <1>0, <1>2, <1>b DEF CompleteJoin, BeforeFirst, Over, Empty
  <2>2. /\ Update(g, code[g]) /\ Shown(g, code[g]) /\ down' = down
        /\ \A h \in Guest : code'[h] = code[h] \/ ~ Over(code'[h])
    BY <1>0, <1>2, <2>1 DEF CompleteJoin
  <2> QED BY <1>0, <2>1, <2>2, NoMessage, EarlyStep
<1>3. ASSUME NEW g \in Guest, OpenAtHost(g) PROVE BeforeFirst'
  BY <1>3, <1>b, <1>c DEF OpenAtHost, door, game
<1>4. ASSUME NEW g \in Guest, OpenAtGuest(g) PROVE BeforeFirst'
  BY <1>4, <1>b, <1>c DEF OpenAtGuest, door, game
<1>d. ASSUME NEW g \in Guest, Drop(g), UNCHANGED <<here, code, timer, races>> PROVE BeforeFirst'
  <2> DEFINE L == Without(lobby[host], g)
  <2>1. L \in Lobbies /\ L.started = lobby[host].started /\ L.count = lobby[host].count
    BY <1>0, LobbyEdits, EditFields
  <2>2. Update(host, L) /\ Shown(host, L) /\ down' = Sent(State(L), heard \ {g}) /\ First
    BY <1>d, <1>b DEF Drop
  <2> HIDE DEF L
  <2>3. ~ Over(L)
    BY <1>a, <2>1, <2>2 DEF Over
  <2> QED BY <1>0, <1>d, <2>1, <2>2, <2>3, StateEarly, EarlyStep
<1>5. ASSUME NEW g \in Guest, HostReceives(g) PROVE BeforeFirst'
  <2> DEFINE m == Head(up[g])
             L == Apply(lobby[host], m)
  <2>1. m \in UpMessages /\ UNCHANGED <<here, code, timer, races>> /\ First
    <3>1. up[g] \in Seq(UpMessages) /\ up[g] # <<>>
      BY <1>5 DEF HostReceives, LobbyTypeOK
    <3> QED BY <1>5, <1>b, <3>1 DEF HostReceives, door
  <2>2. CASE m.type = "bye"
    BY <1>5, <1>d, <2>1, <2>2 DEF HostReceives
  <2>3. CASE m.type # "bye"
    <3>1. /\ Update(host, L) /\ Shown(host, L)
          /\ down' = IF m.type \in {"move", "finish"} THEN Sent(<<m>>, heard \ {g}) ELSE Sent(State(L), heard)
      BY <1>5, <2>3 DEF HostReceives
    <3>2. L \in Lobbies
      BY <1>0, <2>1, ApplyType
    <3>3. L.count = lobby[host].count /\ L.started = lobby[host].started
      BY <1>0, <2>1, <2>3, ReportFields
    <3>4. m.type \in {"move", "finish"} => m \in DownMessages /\ Early(m)
      BY <2>1 DEF UpMessages, DownMessages, Reports, Early
    <3> HIDE DEF L, m
    <3>5. ~ Over(L)
      BY <1>a, <2>1, <3>3 DEF Over
    <3>6. CASE m.type \in {"move", "finish"}
      BY <1>0, <2>1, <3>1, <3>4, <3>5, <3>6, OneEarly, EarlyStep
    <3>7. CASE m.type \notin {"move", "finish"}
      BY <1>0, <2>1, <3>1, <3>2, <3>5, <3>7, StateEarly, EarlyStep
    <3> QED BY <3>6, <3>7
  <2> QED BY <2>2, <2>3
<1>6. ASSUME NEW g \in Guest, HostLoses(g) PROVE BeforeFirst'
  BY <1>6, <1>d DEF HostLoses, door
<1>7. ASSUME NEW w \in 1..MaxWords, SetChallengeWords(w) PROVE BeforeFirst'
  <2> DEFINE L == [lobby[host] EXCEPT !.words = w]
  <2>1. L.count = lobby[host].count /\ L.started = lobby[host].started /\ L \in Lobbies
    BY <1>0, LobbyIs, StartLobby
  <2>2. Update(host, L) /\ Shown(host, L) /\ down' = Sent(State(L), heard) /\ First /\ code' = code
    BY <1>7, <1>b DEF SetChallengeWords, door
  <2> HIDE DEF L
  <2>3. ~ Over(L)
    BY <1>a, <2>1, <2>2 DEF Over
  <2> QED BY <1>0, <2>1, <2>2, <2>3, StateEarly, EarlyStep
<1>8. ASSUME StartGame PROVE BeforeFirst'
  <2> DEFINE L == [lobby[host] EXCEPT !.started = TRUE, !.count = Count]
             m == [type |-> "start", words |-> L.words, count |-> Count]
  <2>1. L.count = Count /\ L.words = lobby[host].words
    BY <1>0, LobbyIs
  <2>2. m \in DownMessages /\ Early(m)
    BY <1>0, <2>1, StartLobby DEF Early
  <2>3. Update(host, L) /\ Shown(host, L) /\ down' = Sent(<<m>>, heard) /\ code' = code
    BY <1>8 DEF StartGame, door
  <2>4. First
    BY <1>0, <1>8 DEF StartGame, First, door
  <2> HIDE DEF L, m
  <2>5. ~ Over(L)
    BY <1>0, <2>1 DEF Over
  <2> QED BY <1>0, <2>2, <2>3, <2>4, <2>5, OneEarly, EarlyStep
<1>9. ASSUME CountdownTick PROVE BeforeFirst'
  <2> DEFINE L == [lobby[host] EXCEPT !.count = timer - 1]
             tick == [type |-> "tick", count |-> timer - 1]
  <2>1. timer > 0 /\ timer' = timer - 1 /\ UNCHANGED <<here, races, code>>
    BY <1>9 DEF CountdownTick, door
  <2>2. First /\ timer > 1
    BY <1>0, <2>1 DEF First, HostClock
  <2>3. timer - 1 \in 0..Count
    BY <1>0, <2>2 DEF LobbyTypeOK
  <2>4. tick \in DownMessages /\ Early(tick) /\ L.count = timer - 1 /\ timer - 1 # None
    BY <1>0, <2>3, TickLobby, LobbyIs DEF Early
  <2>5. Update(host, L) /\ Shown(host, L) /\ down' = Sent(<<tick>>, heard)
    BY <1>9, <2>2 DEF CountdownTick
  <2> HIDE DEF L, tick
  <2>6. ~ Over(L)
    BY <2>4 DEF Over
  <2> QED BY <1>0, <2>1, <2>2, <2>4, <2>5, <2>6, OneEarly, EarlyStep
<1>10. ASSUME HostLeave PROVE BeforeFirst'
  BY <1>10 DEF HostLeave, First
<1>11. ASSUME NEW g \in Guest, GuestReceives(g) PROVE BeforeFirst'
  <2> DEFINE m == Head(down[g])
             L == IF m.type = "bye" THEN Without(lobby[g], host) ELSE Apply(lobby[g], m)
             rest == IF m.type = "bye" THEN <<>> ELSE Tail(down[g])
  <2>1. First /\ UNCHANGED <<here, code, timer, races>>
    BY <1>11, <1>b DEF GuestReceives
  <2>2. /\ down[g] \in Seq(DownMessages) /\ down[g] # <<>> /\ m \in DownMessages
        /\ \A i \in 1..Len(down[g]) : Early(down[g][i])
    BY <1>0, <1>11, <2>1 DEF GuestReceives, BeforeFirst
  <2>3. Early(m) /\ \A i \in 1..Len(rest) : Early(rest[i])
    <3>1. /\ Head(down[g]) = down[g][1] /\ 1 \in 1..Len(down[g]) /\ Len(Tail(down[g])) = Len(down[g]) - 1
          /\ \A i \in 1..Len(down[g]) - 1 : Tail(down[g])[i] = down[g][i + 1] /\ i + 1 \in 1..Len(down[g])
      BY <2>2, TailOf
    <3>2. \A i \in 1..Len(Tail(down[g])) : Early(Tail(down[g])[i])
      BY <2>2, <3>1
    <3>3. \A i \in 1..Len(<<>>) : Early(<<>>[i])
      BY NoMessage
    <3> QED BY <2>2, <3>1, <3>2, <3>3
  <2>4. Update(g, L) /\ Shown(g, L) /\ down' = [down EXCEPT ![g] = rest]
    BY <1>11 DEF GuestReceives, Abandoned
  <2>5. ~ Over(L)
    <3>1. lobby[g] \in Lobbies /\ ~ Over(lobby[g])
      BY <1>0, <2>1 DEF BeforeFirst
    <3>2. ~ Over(Without(lobby[g], host))
      BY <3>1, EditFields DEF Over
    <3>3. ~ Over(Apply(lobby[g], m))
      BY <2>2, <2>3, <3>1, EarlyApply
    <3> QED BY <3>2, <3>3
  <2> HIDE DEF L, rest
  <2>6. \A q \in Person : ~ Over(lobby'[q])
    BY <1>0, <2>1, <2>4, <2>5 DEF Update, BeforeFirst
  <2>7. raced' = {}
    BY <2>1, <2>4, <2>5 DEF Shown, Over, BeforeFirst
  <2>8. \A h \in Guest : ~ Over(code'[h]) /\ \A i \in 1..Len(down'[h]) : Early(down'[h][i])
    BY <1>0, <2>1, <2>3, <2>4 DEF BeforeFirst
  <2>9. \A q \in Person : ~ Over(lobby[q])'
    BY <2>6 DEF Over
  <2>10. \A h \in Guest : ~ Over(code[h])' /\ \A i \in 1..Len(down'[h]) : Early(down[h][i])'
    BY <2>8 DEF Early, Over
  <2> QED BY <2>7, <2>9, <2>10 DEF BeforeFirst
<1>12. ASSUME NEW g \in Guest, GuestLoses(g) PROVE BeforeFirst'
  <2> DEFINE L == Without(lobby[g], host)
  <2>1. First /\ code' = code /\ Update(g, L) /\ Shown(g, L) /\ down' = [down EXCEPT ![g] = <<>>]
    BY <1>12, <1>b DEF GuestLoses, Abandoned
  <2>2. ~ Over(L)
    BY <1>0, <2>1, EditFields DEF BeforeFirst, Over
  <2> HIDE DEF L
  <2>6. \A q \in Person : ~ Over(lobby'[q])
    BY <1>0, <2>1, <2>2 DEF Update, BeforeFirst
  <2>7. raced' = {}
    BY <2>1, <2>2 DEF Shown, Over, BeforeFirst
  <2>8. \A h \in Guest : ~ Over(code'[h]) /\ \A i \in 1..Len(down'[h]) : Early(down'[h][i])
    BY <1>0, <2>1, NoMessage DEF BeforeFirst
  <2>9. \A q \in Person : ~ Over(lobby[q])'
    BY <2>6 DEF Over
  <2>10. \A h \in Guest : ~ Over(code[h])' /\ \A i \in 1..Len(down'[h]) : Early(down[h][i])'
    BY <2>8 DEF Early, Over
  <2> QED BY <2>7, <2>9, <2>10 DEF BeforeFirst
<1>13. ASSUME NEW g \in Guest, ToggleReady(g) PROVE BeforeFirst'
  <2>1. \A q \in Person : lobby'[q].started = lobby[q].started /\ lobby'[q].count = lobby[q].count
    BY <1>0, <1>13, ReadyIs, OwnReport
  <2>2. First /\ UNCHANGED <<raced, code, down>>
    BY <1>13, <1>b, LobbyIs DEF ToggleReady, game, door, Report
  <2> QED BY <1>c, <2>1, <2>2 DEF Over
<1>14. ASSUME NEW p \in Person, NEW kind \in {"move", "finish"}, Click(p, kind) PROVE BeforeFirst'
  <2>1. PICK m \in UpMessages : m.player = p /\ m.type = kind /\ m \in DownMessages
                               /\ Update(p, Apply(lobby[p], m)) /\ Report(p, m)
    BY <1>14, ClickIs
  <2>2. First /\ UNCHANGED <<raced, code>>
    BY <1>14, <1>b DEF Click, door
  <2>3. down' = Sent(<<m>>, heard) \/ down' = down
    BY <2>1 DEF Report
  <2>4. Early(m) /\ ~ Over(lobby[p]) /\ lobby[p] \in Lobbies
    BY <1>0, <2>1, <2>2 DEF Early, BeforeFirst
  <2>5. ~ Over(Apply(lobby[p], m))
    BY <2>4, EarlyApply
  <2> QED BY <2>1, <2>2, <2>3, <2>4, <2>5, OneEarly, EarlyStep
<1>15. ASSUME NEW g \in Guest, Leave(g) PROVE BeforeFirst'
  <2>1. First /\ UNCHANGED <<raced, code>> /\ down' = [down EXCEPT ![g] = <<>>] /\ Update(g, Empty)
    BY <1>15, <1>b DEF Leave
  <2>2. ~ Over(Empty)
    BY DEF Over, Empty
  <2>6. \A q \in Person : ~ Over(lobby'[q])
    BY <1>0, <2>1, <2>2 DEF Update, BeforeFirst
  <2>8. \A h \in Guest : ~ Over(code'[h]) /\ \A i \in 1..Len(down'[h]) : Early(down'[h][i])
    BY <1>0, <2>1, NoMessage DEF BeforeFirst
  <2>9. \A q \in Person : ~ Over(lobby[q])'
    BY <2>6 DEF Over
  <2>10. \A h \in Guest : ~ Over(code[h])' /\ \A i \in 1..Len(down'[h]) : Early(down[h][i])'
    BY <2>8 DEF Early, Over
  <2> QED BY <2>1, <2>9, <2>10 DEF BeforeFirst
<1>16. ASSUME NEW g \in Guest, Break(g) PROVE BeforeFirst'
  BY <1>16, <1>b, <1>c DEF Break, door, game
<1>17. CASE UNCHANGED vars
  BY <1>17, <1>b, <1>c DEF vars
<1> QED BY <1>1, <1>2, <1>3, <1>4, <1>5, <1>6, <1>7, <1>8, <1>9, <1>10, <1>11, <1>12, <1>13,
           <1>14, <1>15, <1>16, <1>17 DEF Next, System, User

-----------------------------------------------------------------------------
(* The inductive invariant of the room.                                    *)
THEOREM RoomInvariant == Spec => []RoomInv
<1>1. RoomInv /\ [Next]_vars => RoomInv'
  BY LobbyTypeNext, PresentedNext, ConvergeNext, ClockNext, BeforeFirstNext, StartedNext DEF RoomInv
<1> QED BY <1>1, RoomInit, PTL DEF Spec

(* Whatever overtakes what, once the host has read a guest's presentation  *)
(* the messages on their way make that guest's copy the host's             *)
(* (handleMessage, broadcastLobbyState, broadcastExcept).                  *)
THEOREM LobbyConverges == Spec => []ViewsConverge
<1>1. RoomInv => ViewsConverge
  BY DEF RoomInv
<1> QED BY <1>1, RoomInvariant, PTL

(* In the first race of a room nobody starts before the host's countdown   *)
(* is over (startGame, handleMultiplayerStateChange).                      *)
THEOREM LobbyWaits == Spec => []NobodyEarly
<1>1. RoomInv => NobodyEarly
  <2> SUFFICES ASSUME RoomInv, races <= 1, raced # {}, here
               PROVE  lobby[host].started /\ lobby[host].count = None
    BY DEF NobodyEarly
  <2>1. races \in Nat /\ timer \in Nat
    BY LobbyIs, LobbyAssumption DEF RoomInv, LobbyTypeOK
  <2>2. races = 1 /\ timer = 0
    BY <2>1 DEF RoomInv, BeforeFirst, First
  <2> QED BY <2>2 DEF RoomInv, HostClock
<1> QED BY <1>1, RoomInvariant, PTL

(* A guest with nothing left to read has started its race when the         *)
(* countdown is over, whenever it joined.                                  *)
THEOREM LobbyComplete == Spec => []NobodyLeftBehind
<1>1. RoomInv => NobodyLeftBehind
  <2> SUFFICES ASSUME RoomInv, NEW g \in Guest, Known(g), down[g] = <<>>, races > 0, timer = 0
               PROVE  g \in raced
    BY DEF NobodyLeftBehind
  <2>1. Agree(g, lobby[g], lobby[host])
    BY ViewEmpty DEF RoomInv, ViewsConverge
  <2>2. lobby[host].started /\ lobby[host].count = None
    BY DEF RoomInv, HostClock, Known
  <2>3. Over(lobby[g]) /\ g \in Person
    BY <2>1, <2>2, LobbyIs DEF Agree, Over
  <2> QED BY <2>3 DEF RoomInv, StartedAll
<1> QED BY <1>1, RoomInvariant, PTL
=============================================================================
