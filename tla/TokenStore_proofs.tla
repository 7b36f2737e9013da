--------------------------- MODULE TokenStore_proofs ---------------------------
(***************************************************************************)
(* For any number of handlers, tokens and items, and any cap: the cap is   *)
(* passed by less than the number of handlers, nothing is stored under a   *)
(* token that is gone, and retirement takes nothing younger than promised. *)
(* CapNearlyHeld counts what has been let through beside what is stored,   *)
(* which makes it inductive: letting one more through needs a free place,  *)
(* and storing trades one for the other.                                   *)
(***************************************************************************)
EXTENDS TokenStore, FiniteSetTheorems, TLAPS

Full == Cap + Cardinality(Request)

LEMMA FullType == Full \in Nat /\ Cardinality(Request) \in Nat /\ Cap \in Nat \ {0}
BY TokenAssumption, FS_CardinalityType DEF Full

(* Handlers let through are handlers; favourites are items.                *)
LEMMA Sizes ==
  ASSUME TokenTypeOK, NEW t \in Token
  PROVE  /\ IsFiniteSet(favs[t]) /\ Cardinality(favs[t]) \in Nat
         /\ IsFiniteSet(Favouring(t)) /\ Cardinality(Favouring(t)) \in Nat
         /\ Cardinality(Favouring(t)) <= Cardinality(Request)
         /\ \A x \in Thing : /\ IsFiniteSet(Passed(t, x)) /\ Cardinality(Passed(t, x)) \in Nat
                             /\ Cardinality(Passed(t, x)) <= Cardinality(Request)
<1>1. favs[t] \in SUBSET Item /\ Favouring(t) \in SUBSET Request
  BY DEF TokenTypeOK, Favouring
<1>2. \A x \in Thing : Passed(t, x) \in SUBSET Request
  BY DEF Passed
<1>3. \A S \in SUBSET Request : IsFiniteSet(S) /\ Cardinality(S) \in Nat /\ Cardinality(S) <= Cardinality(Request)
  BY TokenAssumption, FS_Subset, FS_CardinalityType
<1>4. IsFiniteSet(favs[t])
  BY <1>1, TokenAssumption, FS_Subset
<1>5. Cardinality(favs[t]) \in Nat
  BY <1>4, FS_CardinalityType
<1> QED BY <1>1, <1>2, <1>3, <1>4, <1>5

-----------------------------------------------------------------------------
LEMMA IdleNotHandler == \A r \in Request : TokenTypeOK /\ req[r].at # "idle" => req[r] \in Handler
BY DEF TokenTypeOK, Idle

LEMMA TypeStep ==
  ASSUME TokenTypeOK, [TokenNext]_tokenVars
  PROVE  TokenTypeOK'
<1> USE TokenAssumption DEF TokenTypeOK, tables, Gone
<1>1. ASSUME NEW r \in Request, NEW t \in Token, NEW x \in Thing, NEW m \in BOOLEAN, Touch(r, t, x, m)
      PROVE  TokenTypeOK'
  <2>1. [at |-> IF x = "prefs" THEN "insert" ELSE "count",
         token |-> t, adds |-> x, many |-> m, since |-> now] \in Handler
    BY DEF Handler
  <2> QED BY <1>1, <2>1 DEF Touch
<1>2. ASSUME NEW r \in Request, Post(r) PROVE TokenTypeOK'
  BY <1>1, <1>2 DEF Post
<1>3. ASSUME NEW r \in Request, NextRow(r) PROVE TokenTypeOK'
  BY <1>1, <1>3, IdleNotHandler DEF NextRow, Handler
<1>4. ASSUME NEW r \in Request, Count(r) PROVE TokenTypeOK'
  <2>1. req[r] \in Handler
    BY <1>4, IdleNotHandler DEF Count
  <2>2. [req[r] EXCEPT !.at = "insert"] \in Handler
    BY <2>1 DEF Handler
  <2> QED BY <1>4, <2>2 DEF Count
<1>5. ASSUME NEW r \in Request, req[r].at # "idle", Done(r)
      PROVE  req' \in [Request -> Handler \cup {Idle}]
  <2>1. req[r] \in Handler
    BY <1>5, IdleNotHandler
  <2>2. [req[r] EXCEPT !.at = "row"] \in Handler
    BY <2>1 DEF Handler
  <2> QED BY <1>5, <2>2 DEF Done
<1>6. ASSUME NEW r \in Request, Insert(r) PROVE TokenTypeOK'
  <2>1. req[r] \in Handler
    BY <1>6, IdleNotHandler DEF Insert
  <2>2. req[r].token \in Token /\ req[r].adds \in Thing
    BY <2>1 DEF Handler
  <2>3. Put(req[r].token, req[r].adds) /\ used' \in [Token -> Int]
    BY <1>6, <2>2 DEF Insert
  <2>4. favs' \in [Token -> SUBSET Item]
    BY <2>2, <2>3 DEF Put
  <2>5. count' \in [Token -> [Counted -> Nat]]
    <3>1. ASSUME NEW x \in Counted, NEW t \in Token
          PROVE  [count EXCEPT ![t][x] = @ + 1] \in [Token -> [Counted -> Nat]]
      OBVIOUS
    <3> QED BY <2>2, <2>3, <3>1 DEF Put
  <2>6. prefs' \subseteq Token
    BY <2>2, <2>3 DEF Put
  <2>7. req' \in [Request -> Handler \cup {Idle}]
    BY <1>6, <1>5 DEF Insert
  <2> QED BY <1>6, <2>3, <2>4, <2>5, <2>6, <2>7 DEF Insert
<1>7. ASSUME NEW r \in Request, Fail(r) PROVE TokenTypeOK'
  BY <1>7, <1>5 DEF Fail
<1>8. ASSUME NEW r \in Request, Abandon(r) PROVE TokenTypeOK'
  BY <1>8 DEF Abandon
<1>9. ASSUME NEW T \in SUBSET Token, Erase(T)
      PROVE  /\ seen' \in [Token -> Nat \cup {Gone}] /\ favs' \in [Token -> SUBSET Item]
             /\ count' \in [Token -> [Counted -> Nat]] /\ prefs' \subseteq Token
  BY <1>9 DEF Erase
<1>10. ASSUME NEW t \in Token, Forget(t) PROVE TokenTypeOK'
  BY <1>10, <1>9 DEF Forget
<1>11. CASE PruneTokens
  <2>1. Retiring \in SUBSET Token
    BY DEF Retiring
  <2> QED BY <1>11, <1>9, <2>1 DEF PruneTokens
<1>12. ASSUME NEW t \in Token, ClearLedger(t) PROVE TokenTypeOK'
  BY <1>12 DEF ClearLedger
<1>13. ASSUME NEW t \in Token, NEW i \in Item, RemoveFavourite(t, i) PROVE TokenTypeOK'
  BY <1>13 DEF RemoveFavourite
<1>14. ASSUME NEW t \in Token, NEW k \in Counted, Delete(t, k) PROVE TokenTypeOK'
  BY <1>14 DEF Delete
<1>15. CASE Tick
  BY <1>15 DEF Tick
<1>16. CASE UNCHANGED tokenVars
  BY <1>16 DEF tokenVars
<1> QED
  BY <1>2, <1>3, <1>4, <1>6, <1>7, <1>8, <1>10, <1>11, <1>12, <1>13, <1>14, <1>15, <1>16 DEF TokenNext

-----------------------------------------------------------------------------
(* CapNearlyHeld survives a step after which each table holds no more and  *)
(* no more handlers have been let through.                                 *)
NoMoreLetThrough ==
  \A r \in Request : req'[r].at = "insert" /\ req'[r].adds # "prefs" => req'[r] = req[r]
NoMoreStored ==
  \A t \in Token : favs'[t] \subseteq favs[t] /\ \A k \in Counted : count'[t][k] <= count[t][k]

LEMMA PassedShrinks ==
  ASSUME NoMoreLetThrough, NEW t \in Token
  PROVE  /\ Favouring(t)' \subseteq Favouring(t)
         /\ \A k \in Counted : Passed(t, k)' \subseteq Passed(t, k)
BY TokenAssumption DEF NoMoreLetThrough, Favouring, Passed

LEMMA CapLoosens ==
  ASSUME TokenTypeOK, TokenTypeOK', CapNearlyHeld, NoMoreLetThrough, NoMoreStored
  PROVE  CapNearlyHeld'
<1> SUFFICES ASSUME NEW t \in Token
             PROVE  /\ Cardinality(favs'[t]) + Cardinality(Favouring(t)') < Full
                    /\ \A k \in Counted : count'[t][k] + Cardinality(Passed(t, k)') < Full
  BY DEF CapNearlyHeld, Full
<1>1. Cardinality(favs'[t]) <= Cardinality(favs[t]) /\ Cardinality(favs'[t]) \in Nat
  <2>1. favs'[t] \in SUBSET favs[t]
    BY DEF NoMoreStored
  <2>2. IsFiniteSet(favs[t])
    BY Sizes
  <2> QED BY <2>1, <2>2, FS_Subset, FS_CardinalityType
<1>2. Cardinality(Favouring(t)') <= Cardinality(Favouring(t)) /\ Cardinality(Favouring(t)') \in Nat
  <2>1. Favouring(t)' \in SUBSET Favouring(t)
    BY PassedShrinks
  <2>2. IsFiniteSet(Favouring(t))
    BY Sizes
  <2> QED BY <2>1, <2>2, FS_Subset, FS_CardinalityType
<1>3. ASSUME NEW k \in Counted PROVE count'[t][k] + Cardinality(Passed(t, k)') < Full
  <2>1. Passed(t, k)' \in SUBSET Passed(t, k)
    BY PassedShrinks
  <2>2. IsFiniteSet(Passed(t, k)) /\ Cardinality(Passed(t, k)) \in Nat
    BY Sizes DEF Thing
  <2>3. Cardinality(Passed(t, k)') <= Cardinality(Passed(t, k)) /\ Cardinality(Passed(t, k)') \in Nat
    BY <2>1, <2>2, FS_Subset, FS_CardinalityType
  <2>4. count'[t][k] <= count[t][k] /\ count[t][k] \in Nat /\ count'[t][k] \in Nat
    BY DEF NoMoreStored, TokenTypeOK
  <2>5. count[t][k] + Cardinality(Passed(t, k)) < Full
    BY DEF CapNearlyHeld, Full
  <2> QED BY <2>2, <2>3, <2>4, <2>5, FullType
<1>4. Cardinality(favs[t]) + Cardinality(Favouring(t)) < Full
  BY DEF CapNearlyHeld, Full
<1>5. Cardinality(favs[t]) \in Nat /\ Cardinality(Favouring(t)) \in Nat
  BY Sizes
<1> QED BY <1>1, <1>2, <1>3, <1>4, <1>5, FullType

(* Letting a handler through takes a free place.                           *)
LEMMA CapCount ==
  ASSUME TokenTypeOK, TokenTypeOK', CapNearlyHeld, NEW r \in Request, Count(r)
  PROVE  CapNearlyHeld'
<1> DEFINE x == req[r].adds
           u == req[r].token
<1>0. req[r] \in Handler /\ x \in Thing /\ u \in Token
  BY IdleNotHandler DEF Count, Handler
<1>1. NoMoreStored
  BY DEF NoMoreStored, Count, tables, TokenTypeOK
<1>2. CASE Rows(u, x) >= Cap
  <2>1. NoMoreLetThrough
    BY <1>2 DEF NoMoreLetThrough, Count, TokenTypeOK, Idle
  <2> QED BY <1>1, <2>1, CapLoosens
<1>3. CASE ~(Rows(u, x) >= Cap)
  <2>1. \A s \in Request : s # r => req'[s] = req[s]
    BY DEF Count, TokenTypeOK
  <2>2. req'[r].token = u /\ req'[r].adds = x
    BY <1>0, <1>3 DEF Count, TokenTypeOK, Handler
  <2>3. favs' = favs /\ count' = count
    BY DEF Count, tables
  <2> SUFFICES ASSUME NEW t \in Token
               PROVE  /\ Cardinality(favs[t]) + Cardinality(Favouring(t)') < Full
                      /\ \A k \in Counted : count[t][k] + Cardinality(Passed(t, k)') < Full
    BY <2>3 DEF CapNearlyHeld, Full
  <2>4. Cardinality(favs[t]) + Cardinality(Favouring(t)') < Full
    <3>1. CASE t = u /\ x \in Item
      <4>1. Cardinality(favs[t]) < Cap /\ Cardinality(favs[t]) \in Nat
        BY <1>3, <3>1, Sizes, FullType DEF Rows
      <4>2. Cardinality(Favouring(t)') <= Cardinality(Request) /\ Cardinality(Favouring(t)') \in Nat
        <5>1. Favouring(t)' \in SUBSET Request
          BY DEF Favouring
        <5> QED BY <5>1, TokenAssumption, FS_Subset, FS_CardinalityType
      <4> QED BY <4>1, <4>2, FullType DEF Full
    <3>2. CASE ~(t = u /\ x \in Item)
      <4>1. Favouring(t)' = Favouring(t)
        BY <2>1, <2>2, <3>2 DEF Favouring, Count
      <4> QED BY <4>1 DEF CapNearlyHeld, Full
    <3> QED BY <3>1, <3>2
  <2>5. ASSUME NEW k \in Counted PROVE count[t][k] + Cardinality(Passed(t, k)') < Full
    <3>1. CASE t = u /\ x = k
      <4>1. x \notin Item
        BY <3>1, TokenAssumption
      <4>2. count[t][k] < Cap /\ count[t][k] \in Nat
        BY <1>3, <3>1, <4>1, FullType DEF Rows, TokenTypeOK
      <4>3. Cardinality(Passed(t, k)') <= Cardinality(Request) /\ Cardinality(Passed(t, k)') \in Nat
        <5>1. Passed(t, k)' \in SUBSET Request
          BY DEF Passed
        <5> QED BY <5>1, TokenAssumption, FS_Subset, FS_CardinalityType
      <4> QED BY <4>2, <4>3, FullType DEF Full
    <3>2. CASE ~(t = u /\ x = k)
      <4>1. Passed(t, k)' = Passed(t, k)
        BY <2>1, <2>2, <3>2 DEF Passed, Count
      <4> QED BY <4>1 DEF CapNearlyHeld, Full
    <3> QED BY <3>1, <3>2
  <2> QED BY <2>4, <2>5
<1> QED BY <1>2, <1>3

(* Storing gives the handler's place to its row.                           *)
LEMMA CapInsert ==
  ASSUME TokenTypeOK, TokenTypeOK', CapNearlyHeld, NEW r \in Request, Insert(r)
  PROVE  CapNearlyHeld'
<1> DEFINE x == req[r].adds
           u == req[r].token
<1>0. req[r] \in Handler /\ x \in Thing /\ u \in Token /\ req[r].at = "insert"
  BY IdleNotHandler DEF Insert, Handler
<1>1. /\ \A s \in Request : s # r => req'[s] = req[s]
      /\ req'[r].at # "insert"
  BY <1>0 DEF Insert, Done, Idle, TokenTypeOK, Handler
<1>2. Put(u, x)
  BY DEF Insert
<1> SUFFICES ASSUME NEW t \in Token
             PROVE  /\ Cardinality(favs'[t]) + Cardinality(Favouring(t)') < Full
                    /\ \A k \in Counted : count'[t][k] + Cardinality(Passed(t, k)') < Full
  BY DEF CapNearlyHeld, Full
<1>3. Cardinality(favs'[t]) + Cardinality(Favouring(t)') < Full
  <2>1. CASE t = u /\ x \in Item
    <3>1. favs'[t] = favs[t] \cup {x} /\ Favouring(t)' = Favouring(t) \ {r} /\ r \in Favouring(t)
      <4>1. favs'[t] = favs[t] \cup {x}
        BY <1>2, <2>1 DEF Put, TokenTypeOK
      <4>2. Favouring(t)' = Favouring(t) \ {r} /\ r \in Favouring(t)
        BY <1>0, <1>1, <2>1 DEF Favouring
      <4> QED BY <4>1, <4>2
    <3>2. Cardinality(favs'[t]) <= Cardinality(favs[t]) + 1 /\ Cardinality(favs'[t]) \in Nat
      <4>1. IsFiniteSet(favs[t]) /\ Cardinality(favs[t]) \in Nat
        BY Sizes
      <4>2. Cardinality(favs[t] \cup {x}) <= Cardinality(favs[t]) + 1
        <5>1. Cardinality(favs[t] \cup {x}) \in {Cardinality(favs[t]), Cardinality(favs[t]) + 1}
          BY <4>1, FS_AddElement, Zenon
        <5> QED BY <4>1, <5>1, SMT
      <4>3. IsFiniteSet(favs[t] \cup {x})
        BY <4>1, FS_AddElement
      <4>4. Cardinality(favs[t] \cup {x}) \in Nat
        BY <4>3, FS_CardinalityType
      <4> QED BY <3>1, <4>2, <4>4
    <3>3. Cardinality(Favouring(t)') = Cardinality(Favouring(t)) - 1
      <4>1. IsFiniteSet(Favouring(t))
        BY Sizes
      <4> QED BY <3>1, <4>1, FS_RemoveElement
    <3>4. Cardinality(favs[t]) + Cardinality(Favouring(t)) < Full
      BY DEF CapNearlyHeld, Full
    <3>5. Cardinality(favs[t]) \in Nat /\ Cardinality(Favouring(t)) \in Nat
      BY Sizes
    <3> QED BY <3>2, <3>3, <3>4, <3>5, FullType
  <2>2. CASE ~(t = u /\ x \in Item)
    <3>1. favs'[t] = favs[t]
      BY <1>0, <1>2, <2>2 DEF Put, TokenTypeOK
    <3>2. Favouring(t)' = Favouring(t)
      BY <1>0, <1>1, <2>2 DEF Favouring
    <3> QED BY <3>1, <3>2 DEF CapNearlyHeld, Full
  <2> QED BY <2>1, <2>2
<1>4. ASSUME NEW k \in Counted PROVE count'[t][k] + Cardinality(Passed(t, k)') < Full
  <2>0. count[t][k] + Cardinality(Passed(t, k)) < Full /\ count[t][k] \in Nat
    BY DEF CapNearlyHeld, Full, TokenTypeOK
  <2>1. CASE t = u /\ x = k
    <3>1. count'[t][k] = count[t][k] + 1
      BY <1>2, <2>1 DEF Put, TokenTypeOK
    <3>2. Passed(t, k)' = Passed(t, k) \ {r} /\ r \in Passed(t, k)
      BY <1>0, <1>1, <2>1 DEF Passed
    <3>3. Cardinality(Passed(t, k)') = Cardinality(Passed(t, k)) - 1 /\ Cardinality(Passed(t, k)) \in Nat
      <4>1. IsFiniteSet(Passed(t, k)) /\ Cardinality(Passed(t, k)) \in Nat
        BY Sizes DEF Thing
      <4> QED BY <3>2, <4>1, FS_RemoveElement
    <3> QED BY <2>0, <3>1, <3>3, FullType
  <2>2. CASE ~(t = u /\ x = k)
    <3>1. count'[t][k] = count[t][k]
      BY <1>0, <1>2, <2>2 DEF Put, TokenTypeOK
    <3>2. Passed(t, k)' = Passed(t, k)
      BY <1>0, <1>1, <2>2 DEF Passed
    <3> QED BY <2>0, <3>1, <3>2
  <2> QED BY <2>1, <2>2
<1> QED BY <1>3, <1>4

LEMMA CapStep ==
  ASSUME TokenTypeOK, TokenTypeOK', CapNearlyHeld, [TokenNext]_tokenVars
  PROVE  CapNearlyHeld'
<1> USE DEF TokenTypeOK, tables
<1>1. ASSUME NEW r \in Request, NEW t \in Token, NEW x \in Thing, NEW m \in BOOLEAN, Touch(r, t, x, m)
      PROVE  CapNearlyHeld'
  <2>1. NoMoreLetThrough
    BY <1>1 DEF NoMoreLetThrough, Touch
  <2>2. NoMoreStored
    BY <1>1 DEF NoMoreStored, Touch
  <2> QED BY <2>1, <2>2, CapLoosens
<1>2. ASSUME NEW r \in Request, Post(r) PROVE CapNearlyHeld'
  BY <1>1, <1>2 DEF Post
<1>3. ASSUME NEW r \in Request, NextRow(r) PROVE CapNearlyHeld'
  BY <1>1, <1>3, IdleNotHandler DEF NextRow, Handler
<1>4. ASSUME NEW r \in Request, Fail(r) PROVE CapNearlyHeld'
  <2>1. NoMoreLetThrough
    BY <1>4, IdleNotHandler DEF NoMoreLetThrough, Fail, Done, Idle, Handler
  <2>2. NoMoreStored
    BY <1>4 DEF NoMoreStored, Fail
  <2> QED BY <2>1, <2>2, CapLoosens
<1>5. ASSUME NEW r \in Request, Abandon(r) PROVE CapNearlyHeld'
  <2>1. NoMoreLetThrough
    BY <1>5 DEF NoMoreLetThrough, Abandon, Idle
  <2>2. NoMoreStored
    BY <1>5 DEF NoMoreStored, Abandon
  <2> QED BY <2>1, <2>2, CapLoosens
<1>6. ASSUME NEW T \in SUBSET Token, Erase(T), UNCHANGED req PROVE CapNearlyHeld'
  <2>1. NoMoreLetThrough
    BY <1>6 DEF NoMoreLetThrough
  <2>2. NoMoreStored
    BY <1>6 DEF NoMoreStored, Erase
  <2> QED BY <2>1, <2>2, CapLoosens
<1>7. ASSUME NEW t \in Token, Forget(t) PROVE CapNearlyHeld'
  BY <1>6, <1>7 DEF Forget
<1>8. CASE PruneTokens
  <2>1. Retiring \in SUBSET Token
    BY DEF Retiring
  <2> QED BY <1>8, <1>6, <2>1 DEF PruneTokens
<1>9. ASSUME UNCHANGED req, NoMoreStored PROVE CapNearlyHeld'
  <2>1. NoMoreLetThrough
    BY <1>9 DEF NoMoreLetThrough
  <2> QED BY <1>9, <2>1, CapLoosens
<1>10. ASSUME NEW t \in Token, ClearLedger(t) PROVE CapNearlyHeld'
  <2>1. NoMoreStored
    BY <1>10 DEF NoMoreStored, ClearLedger
  <2> QED BY <1>9, <1>10, <2>1 DEF ClearLedger
<1>11. ASSUME NEW t \in Token, NEW i \in Item, RemoveFavourite(t, i) PROVE CapNearlyHeld'
  <2>1. NoMoreStored
    BY <1>11 DEF NoMoreStored, RemoveFavourite
  <2> QED BY <1>9, <1>11, <2>1 DEF RemoveFavourite
<1>12. ASSUME NEW t \in Token, NEW k \in Counted, Delete(t, k) PROVE CapNearlyHeld'
  <2>1. NoMoreStored
    BY <1>12 DEF NoMoreStored, Delete
  <2> QED BY <1>9, <1>12, <2>1 DEF Delete
<1>13. CASE Tick \/ UNCHANGED tokenVars
  <2>1. NoMoreStored /\ UNCHANGED req
    BY <1>13 DEF NoMoreStored, Tick, tokenVars
  <2> QED BY <1>9, <2>1
<1> QED
  BY <1>2, <1>3, <1>4, <1>5, <1>7, <1>8, <1>10, <1>11, <1>12, <1>13, CapCount, CapInsert DEF TokenNext

-----------------------------------------------------------------------------
(* A row is stored only while its token lives, and goes with it.           *)
LEMMA OrphanStep ==
  ASSUME TokenTypeOK, NothingOrphaned, [TokenNext]_tokenVars
  PROVE  NothingOrphaned'
<1> USE DEF TokenTypeOK, tables, Live
<1>1. ASSUME NEW r \in Request, NEW t \in Token, NEW x \in Thing, NEW m \in BOOLEAN, Touch(r, t, x, m)
      PROVE  NothingOrphaned'
  BY <1>1 DEF NothingOrphaned, Touch, Gone
<1>2. ASSUME NEW r \in Request, Post(r) PROVE NothingOrphaned'
  BY <1>1, <1>2 DEF Post
<1>3. ASSUME NEW r \in Request, NextRow(r) PROVE NothingOrphaned'
  BY <1>1, <1>3, IdleNotHandler DEF NextRow, Handler
<1>4. ASSUME NEW r \in Request, Insert(r) PROVE NothingOrphaned'
  <2>1. req[r].token \in Token /\ req[r].adds \in Thing
    BY <1>4, IdleNotHandler DEF Insert, Handler
  <2> SUFFICES ASSUME NEW t \in Token, ~Live(t)'
               PROVE  favs'[t] = {} /\ t \notin prefs' /\ \A k \in Counted : count'[t][k] = 0
    BY DEF NothingOrphaned
  <2>2. ~Live(t) /\ t # req[r].token
    BY <1>4 DEF Insert
  <2>3. favs'[t] = favs[t] /\ count'[t] = count[t] /\ (t \in prefs' <=> t \in prefs)
    BY <1>4, <2>1, <2>2 DEF Insert, Put
  <2> QED BY <2>2, <2>3 DEF NothingOrphaned
<1>5. ASSUME UNCHANGED <<seen, tables>> PROVE NothingOrphaned'
  BY <1>5 DEF NothingOrphaned
<1>6. ASSUME NEW r \in Request, Count(r) \/ Fail(r) \/ Abandon(r) PROVE NothingOrphaned'
  BY <1>5, <1>6 DEF Count, Fail, Abandon
<1>7. ASSUME NEW T \in SUBSET Token, Erase(T) PROVE NothingOrphaned'
  <2> SUFFICES ASSUME NEW t \in Token, ~Live(t)'
               PROVE  favs'[t] = {} /\ t \notin prefs' /\ \A k \in Counted : count'[t][k] = 0
    BY DEF NothingOrphaned
  <2>1. CASE t \in T
    BY <1>7, <2>1 DEF Erase
  <2>2. CASE t \notin T
    BY <1>7, <2>2 DEF Erase, NothingOrphaned
  <2> QED BY <2>1, <2>2
<1>8. ASSUME NEW t \in Token, Forget(t) PROVE NothingOrphaned'
  BY <1>7, <1>8 DEF Forget
<1>9. CASE PruneTokens
  <2>1. Retiring \in SUBSET Token
    BY DEF Retiring
  <2> QED BY <1>7, <1>9, <2>1 DEF PruneTokens
<1>10. ASSUME NEW t \in Token, ClearLedger(t) PROVE NothingOrphaned'
  BY <1>10 DEF NothingOrphaned, ClearLedger
<1>11. ASSUME NEW t \in Token, NEW i \in Item, RemoveFavourite(t, i) PROVE NothingOrphaned'
  BY <1>11 DEF NothingOrphaned, RemoveFavourite
<1>12. ASSUME NEW t \in Token, NEW k \in Counted, Delete(t, k) PROVE NothingOrphaned'
  BY <1>12 DEF NothingOrphaned, Delete
<1>13. CASE Tick \/ UNCHANGED tokenVars
  BY <1>5, <1>13 DEF Tick, tokenVars
<1> QED
  BY <1>2, <1>3, <1>4, <1>6, <1>8, <1>9, <1>10, <1>11, <1>12, <1>13 DEF TokenNext

(* A handler that may still insert has touched its token within Patience,  *)
(* and only erasing undoes a touch.                                        *)
LEMMA UsedStep ==
  ASSUME TokenTypeOK, TokenTypeOK', UsedSoonAfterTouch, [TokenNext]_tokenVars
  PROVE  UsedSoonAfterTouch'
<1> USE TokenAssumption DEF TokenTypeOK, tables, Live, Gone
<1>1. ASSUME NEW r \in Request, NEW t \in Token, NEW x \in Thing, NEW m \in BOOLEAN, Touch(r, t, x, m)
      PROVE  UsedSoonAfterTouch'
  <2>1. \A s \in Request : s # r => req'[s] = req[s]
    BY <1>1 DEF Touch
  <2>2. req'[r].since = now /\ req'[r].token = t /\ seen' = [seen EXCEPT ![t] = now]
    BY <1>1 DEF Touch
  <2>3. now' = now /\ used' = used
    BY <1>1 DEF Touch
  <2>4. \A u \in Token : seen'[u] <= now' /\ used'[u] <= now' /\ (seen'[u] # Gone => used'[u] <= seen'[u] + Patience)
    BY <2>2, <2>3 DEF UsedSoonAfterTouch
  <2>5. ASSUME NEW s \in Request, req'[s].at \in {"count", "insert"}
        PROVE  /\ req'[s].since <= now' /\ now' <= req'[s].since + Patience
               /\ seen'[req'[s].token] # Gone => req'[s].since <= seen'[req'[s].token]
    <3>1. CASE s = r
      BY <2>2, <2>3, <3>1
    <3>2. CASE s # r
      <4>1. req'[s] = req[s] /\ req[s] \in Handler
        BY <2>1, <2>5, <3>2, IdleNotHandler
      <4>2. req[s].token \in Token /\ req[s].since \in Nat
        BY <4>1 DEF Handler
      <4>3. /\ req[s].since <= now /\ now <= req[s].since + Patience
            /\ seen[req[s].token] # Gone => req[s].since <= seen[req[s].token]
        BY <2>5, <4>1 DEF UsedSoonAfterTouch
      <4>4. seen'[req[s].token] # Gone => req[s].since <= seen'[req[s].token]
        BY <2>2, <4>2, <4>3
      <4> QED BY <2>3, <4>1, <4>3, <4>4
    <3> QED BY <3>1, <3>2
  <2> QED BY <2>4, <2>5 DEF UsedSoonAfterTouch
<1>2. ASSUME NEW r \in Request, Post(r) PROVE UsedSoonAfterTouch'
  BY <1>1, <1>2 DEF Post
<1>3. ASSUME NEW r \in Request, NextRow(r) PROVE UsedSoonAfterTouch'
  BY <1>1, <1>3, IdleNotHandler DEF NextRow, Handler
(* A step that touches nothing leaves each handler as it was, ahead with   *)
(* the touch it made, or done.                                             *)
<1>4. ASSUME NEW r \in Request, Count(r) \/ Insert(r) \/ Fail(r) \/ Abandon(r)
      PROVE  \A s \in Request : req'[s].at \in {"count", "insert"} =>
               /\ req[s].at \in {"count", "insert"}
               /\ req'[s].token = req[s].token /\ req'[s].since = req[s].since
  BY <1>4, IdleNotHandler DEF Count, Insert, Fail, Abandon, Done, Idle, Handler
<1>5. ASSUME NEW r \in Request, Count(r) \/ Fail(r) \/ Abandon(r) PROVE UsedSoonAfterTouch'
  BY <1>4, <1>5 DEF Count, Fail, Abandon, UsedSoonAfterTouch
<1>6. ASSUME NEW r \in Request, Insert(r) PROVE UsedSoonAfterTouch'
  <2>1. req[r].at \in {"count", "insert"} /\ req[r].token \in Token /\ req[r].since \in Nat
    BY <1>6, IdleNotHandler DEF Insert, Handler
  <2>2. now <= req[r].since + Patience /\ req[r].since <= seen[req[r].token]
    BY <1>6, <2>1 DEF Insert, UsedSoonAfterTouch
  <2>3. used' = [used EXCEPT ![req[r].token] = now] /\ seen' = seen /\ now' = now
    BY <1>6 DEF Insert
  <2>4. \A u \in Token : seen'[u] <= now' /\ used'[u] <= now' /\ (seen'[u] # Gone => used'[u] <= seen'[u] + Patience)
    BY <2>1, <2>2, <2>3 DEF UsedSoonAfterTouch
  <2> QED BY <1>4, <1>6, <2>3, <2>4 DEF UsedSoonAfterTouch
<1>7. ASSUME NEW T \in SUBSET Token, Erase(T), UNCHANGED <<now, req, used>> PROVE UsedSoonAfterTouch'
  <2>1. \A t \in Token : seen'[t] = Gone \/ seen'[t] = seen[t]
    BY <1>7 DEF Erase
  <2>2. \A s \in Request : req[s].at \in {"count", "insert"} => req[s].token \in Token
    BY IdleNotHandler DEF Handler
  <2> QED BY <1>7, <2>1, <2>2 DEF UsedSoonAfterTouch
<1>8. ASSUME NEW t \in Token, Forget(t) PROVE UsedSoonAfterTouch'
  BY <1>7, <1>8 DEF Forget
<1>9. CASE PruneTokens
  <2>1. Retiring \in SUBSET Token
    BY DEF Retiring
  <2> QED BY <1>7, <1>9, <2>1 DEF PruneTokens
<1>10. ASSUME UNCHANGED <<now, seen, req, used>> PROVE UsedSoonAfterTouch'
  BY <1>10 DEF UsedSoonAfterTouch
<1>12. ASSUME NEW t \in Token, ClearLedger(t) PROVE UsedSoonAfterTouch'
  BY <1>10, <1>12 DEF ClearLedger
<1>13. ASSUME NEW t \in Token, NEW i \in Item, RemoveFavourite(t, i) PROVE UsedSoonAfterTouch'
  BY <1>10, <1>13 DEF RemoveFavourite
<1>14. ASSUME NEW t \in Token, NEW k \in Counted, Delete(t, k) PROVE UsedSoonAfterTouch'
  BY <1>10, <1>14 DEF Delete
<1>15. CASE Tick
  <2>1. \A s \in Request : req[s].at \in {"count", "insert"} => req[s].since \in Nat
    BY IdleNotHandler DEF Handler
  <2> QED BY <1>15, <2>1 DEF Tick, UsedSoonAfterTouch
<1>16. CASE UNCHANGED tokenVars
  BY <1>10, <1>16 DEF tokenVars
<1> QED
  BY <1>2, <1>3, <1>5, <1>6, <1>8, <1>9, <1>12, <1>13, <1>14, <1>15, <1>16 DEF TokenNext

-----------------------------------------------------------------------------
(* All of it from the first state on.                                      *)
THEOREM TokenInvariant == TokenSpec => []IInv
<1>1. TokenInit => IInv
  <2> SUFFICES ASSUME TokenInit PROVE IInv
    OBVIOUS
  <2> USE TokenAssumption
  <2>1. TokenTypeOK
    BY DEF TokenInit, TokenTypeOK, Gone
  <2>2. CapNearlyHeld
    <3> SUFFICES ASSUME NEW t \in Token
                 PROVE  /\ Cardinality(favs[t]) + Cardinality(Favouring(t)) < Full
                        /\ \A k \in Counted : count[t][k] + Cardinality(Passed(t, k)) < Full
      BY DEF CapNearlyHeld, Full
    <3>1. favs[t] = {} /\ Favouring(t) = {} /\ \A k \in Counted : count[t][k] = 0 /\ Passed(t, k) = {}
      BY DEF TokenInit, Favouring, Passed, Idle
    <3> QED BY <3>1, FS_EmptySet, FullType DEF Full
  <2>3. NothingOrphaned
    BY DEF TokenInit, NothingOrphaned
  <2>4. UsedSoonAfterTouch
    BY DEF TokenInit, UsedSoonAfterTouch, Live, Gone, Idle
  <2> QED BY <2>1, <2>2, <2>3, <2>4 DEF IInv
<1>2. IInv /\ [TokenNext]_tokenVars => IInv'
  BY TypeStep, CapStep, OrphanStep, UsedStep DEF IInv
<1> QED BY <1>1, <1>2, PTL DEF TokenSpec

(* AddFavourite, AddLedger and AddAlert: the caps of Limits, passed by     *)
(* less than the number of handlers.                                       *)
THEOREM CapHeldWithinHandlers == TokenSpec => []CapNearlyHeld
<1>1. IInv => CapNearlyHeld
  BY DEF IInv
<1> QED BY <1>1, TokenInvariant, PTL

(* postForget and PruneTokens: nothing outlives its token.                 *)
THEOREM ForgottenMeansForgotten == TokenSpec => []NothingOrphaned
<1>1. IInv => NothingOrphaned
  BY DEF IInv
<1> QED BY <1>1, TokenInvariant, PTL

(* PruneTokens: retirement takes only what has lain idle as announced.     *)
THEOREM RetiredOnlyWhenIdle == TokenSpec => KeptWhileUsed
<1>1. IInv /\ [TokenNext]_tokenVars =>
        [\A t \in Token : Live(t) /\ seen'[t] = Gone /\ t \notin forgot'
           => now - used[t] + Patience > PruneAfter]_tokenVars
  <2> SUFFICES ASSUME IInv, TokenNext, NEW t \in Token, Live(t), seen'[t] = Gone, t \notin forgot'
               PROVE  now - used[t] + Patience > PruneAfter
    BY DEF tokenVars
  <2> USE DEF IInv, TokenTypeOK, tables
  <2>1. CASE PruneTokens
    <3>1. Dormant(t)
      BY <2>1 DEF PruneTokens, Retiring, Erase, Live
    <3>2. seen[t] \in Nat /\ used[t] \in Int /\ used[t] <= seen[t] + Patience
      BY DEF UsedSoonAfterTouch, Live
    <3> QED BY <3>1, <3>2, TokenAssumption DEF Dormant
  <2>2. ASSUME NEW u \in Token, Forget(u) PROVE FALSE
    <3>1. t # u
      BY <2>2 DEF Forget
    <3> QED BY <2>2, <3>1 DEF Forget, Erase, Live
  <2>3. ASSUME NEW r \in Request, NEW u \in Token, NEW x \in Thing, NEW m \in BOOLEAN, Touch(r, u, x, m)
        PROVE  FALSE
    BY <2>3 DEF Touch, Live, Gone
  <2>4. ASSUME NEW r \in Request, Post(r) PROVE FALSE
    BY <2>3, <2>4 DEF Post
  <2>5. ASSUME NEW r \in Request, NextRow(r) PROVE FALSE
    BY <2>3, <2>5, IdleNotHandler DEF NextRow, Handler
  <2>6. ASSUME seen' = seen PROVE FALSE
    BY <2>6 DEF Live
  <2> QED
    BY <2>1, <2>2, <2>4, <2>5, <2>6
    DEF TokenNext, Tick, Count, Insert, Fail, Abandon, ClearLedger, RemoveFavourite, Delete
<1> QED BY <1>1, TokenInvariant, PTL DEF TokenSpec, KeptWhileUsed

(* PruneTokens: one DELETE leaves no dormant token behind, so as long as   *)
(* the nightly run gets as far as it again and again, no token stays       *)
(* dormant, whatever hangs off it.                                         *)
THEOREM DormantGoInTheEnd == TokenSpec => Retired
<1>1. ASSUME NEW t \in Token PROVE TokenSpec /\ PruneRuns => (Dormant(t) ~> ~Dormant(t))
  <2> DEFINE D == Dormant(t)
             NoneLeft == Retiring = {}
  <2>1. NoneLeft => ~D
    BY DEF Retiring
  <2>2. <<PruneTokens>>_tokenVars => ~D'
    <3> SUFFICES ASSUME PruneTokens PROVE ~D'
      OBVIOUS
    <3>1. now' = now /\ seen'[t] = IF t \in Retiring THEN Gone ELSE seen[t]
      BY DEF PruneTokens, Erase
    <3> QED BY <3>1 DEF Retiring, Dormant, Live
  <2>3. PruneRuns <=> []<>NoneLeft \/ []<><<PruneTokens>>_tokenVars
    BY DEF PruneRuns
  <2> HIDE DEF D, NoneLeft
  <2>4. PruneRuns => (D ~> ~D)
    BY <2>1, <2>2, <2>3, PTL
  <2> QED BY <2>4 DEF D
<1> QED BY <1>1 DEF Retired
=============================================================================
