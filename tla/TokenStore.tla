------------------------------ MODULE TokenStore ------------------------------
(***************************************************************************)
(* What readers keep under a token: internal/store/ident.go as the         *)
(* handlers of internal/web/personal.go use it.  Adding is three           *)
(* statements, each committed on its own: touch the token (creating it),   *)
(* count what it has, insert.  Requests under one token run beside each    *)
(* other, beside `forget`, and beside the nightly retirement of dormant    *)
(* tokens.  A row of a child table needs its token's row (foreign keys are *)
(* on) and goes with it (ON DELETE CASCADE).                               *)
(***************************************************************************)
EXTENDS Integers, FiniteSets

CONSTANTS
  Token,
  Request,     \* handlers running at one time
  Item,        \* items, of which a token may make favourites
  Counted,     \* the tables of rows with an id: "ledger", "alerts"
  Cap,         \* Limits: rows of one table under one token
  PruneAfter,  \* Limits.PruneAfter
  Patience,    \* a handler inserts within Patience ticks of touching
  MaxTime      \* bound on the clock

ASSUME TokenAssumption ==
  /\ IsFiniteSet(Request) /\ IsFiniteSet(Item)
  /\ Counted \subseteq {"ledger", "alerts"}
  /\ Item \cap {"ledger", "alerts", "prefs"} = {}
  /\ Cap \in Nat \ {0}              \* no cap at all is left out
  /\ PruneAfter \in Nat /\ Patience \in Nat /\ MaxTime \in Nat

VARIABLES
  now,
  seen,        \* tokens.last_seen, or Gone
  favs,        \* favourites: the items under each token
  count,       \* ledger and alerts: how many rows under each token
  prefs,       \* the tokens with a row of preferences
  req,         \* what each handler is doing
  used,        \* history: when a row was last added under each token
  forgot       \* history: tokens forgotten and not touched since

tokenVars == <<now, seen, favs, count, prefs, req, used, forgot>>
tables == <<favs, count, prefs>>

Gone == -1
Thing == Item \cup Counted \cup {"prefs"}
Idle == [at |-> "idle"]
Handler == [at : {"row", "count", "insert"}, token : Token, adds : Thing,
            many : BOOLEAN, since : Nat]

TokenTypeOK ==
  /\ now \in Nat
  /\ seen \in [Token -> Nat \cup {Gone}]
  /\ favs \in [Token -> SUBSET Item]
  /\ count \in [Token -> [Counted -> Nat]]
  /\ prefs \subseteq Token
  /\ req \in [Request -> Handler \cup {Idle}]
  /\ used \in [Token -> Int]
  /\ forgot \subseteq Token

TokenInit ==
  /\ now = 0
  /\ seen = [t \in Token |-> Gone]
  /\ favs = [t \in Token |-> {}]
  /\ count = [t \in Token |-> [k \in Counted |-> 0]]
  /\ prefs = {}
  /\ req = [r \in Request |-> Idle]
  /\ used = [t \in Token |-> -PruneAfter - 1]
  /\ forgot = {}

Live(t) == seen[t] # Gone
Rows(t, x) == IF x \in Item THEN Cardinality(favs[t]) ELSE count[t][x]

-----------------------------------------------------------------------------
(* A handler that adds.  Preferences replace a row, so nothing is counted; *)
(* an import adds trades one after the other.                              *)

Touch(r, t, x, m) ==
  /\ seen' = [seen EXCEPT ![t] = now]
  /\ forgot' = forgot \ {t}
  /\ req' = [req EXCEPT ![r] = [at |-> IF x = "prefs" THEN "insert" ELSE "count",
                                token |-> t, adds |-> x, many |-> m, since |-> now]]
  /\ UNCHANGED <<now, tables, used>>

Post(r) ==
  /\ req[r].at = "idle"
  /\ \E t \in Token, x \in Thing, m \in BOOLEAN :
       /\ m => x = "ledger"
       /\ Touch(r, t, x, m)

NextRow(r) ==
  /\ req[r].at = "row"
  /\ Touch(r, req[r].token, req[r].adds, TRUE)

Count_AtCap(r) ==                  \* a bug: n > cap where n >= cap is meant
  /\ req[r].at = "count"
  /\ req' = [req EXCEPT ![r] =
       IF Rows(req[r].token, req[r].adds) > Cap THEN Idle ELSE [@ EXCEPT !.at = "insert"]]
  /\ UNCHANGED <<now, seen, tables, used, forgot>>

(* ErrLimit is the request's answer, and the end of an import.             *)
Count(r) ==
  /\ req[r].at = "count"
  /\ req' = [req EXCEPT ![r] =
       IF Rows(req[r].token, req[r].adds) >= Cap THEN Idle ELSE [@ EXCEPT !.at = "insert"]]
  /\ UNCHANGED <<now, seen, tables, used, forgot>>

(* A row is dealt with, stored or not: an import may have another.         *)
Done(r) ==
  \/ req' = [req EXCEPT ![r] = Idle]
  \/ req[r].many /\ req' = [req EXCEPT ![r].at = "row"]

Put(t, x) ==
  /\ favs' = IF x \in Item THEN [favs EXCEPT ![t] = @ \cup {x}] ELSE favs
  /\ count' = IF x \in Counted THEN [count EXCEPT ![t][x] = @ + 1] ELSE count
  /\ prefs' = IF x = "prefs" THEN prefs \cup {t} ELSE prefs

Insert_Unchecked(r) ==             \* a bug: a connection without foreign_keys
  /\ req[r].at = "insert"
  /\ Put(req[r].token, req[r].adds)
  /\ used' = [used EXCEPT ![req[r].token] = now]
  /\ Done(r)
  /\ UNCHANGED <<now, seen, forgot>>

Insert(r) ==
  /\ req[r].at = "insert"
  /\ Live(req[r].token)            \* FOREIGN KEY constraint
  /\ Put(req[r].token, req[r].adds)
  /\ used' = [used EXCEPT ![req[r].token] = now]
  /\ Done(r)
  /\ UNCHANGED <<now, seen, forgot>>

(* The token is gone, the item is not one, or the database is busy.        *)
Fail(r) ==
  /\ req[r].at \in {"count", "insert"}
  /\ Done(r)
  /\ UNCHANGED <<now, seen, tables, used, forgot>>

(* The client goes away, or the process is replaced.                       *)
Abandon(r) ==
  /\ req[r].at # "idle"
  /\ req' = [req EXCEPT ![r] = Idle]
  /\ UNCHANGED <<now, seen, tables, used, forgot>>

-----------------------------------------------------------------------------
(* One statement each.  None of these touches the token.                   *)

RemoveFavourite(t, i) ==
  /\ i \in favs[t]
  /\ favs' = [favs EXCEPT ![t] = @ \ {i}]
  /\ UNCHANGED <<now, seen, count, prefs, req, used, forgot>>

Delete(t, k) ==
  /\ count[t][k] > 0
  /\ count' = [count EXCEPT ![t][k] = @ - 1]
  /\ UNCHANGED <<now, seen, favs, prefs, req, used, forgot>>

ClearLedger(t) ==
  /\ "ledger" \in Counted
  /\ count' = [count EXCEPT ![t]["ledger"] = 0]
  /\ UNCHANGED <<now, seen, favs, prefs, req, used, forgot>>

(* Deletes the rows of `tokens` and, by cascade, what hangs off them.      *)
Erase(T) ==
  /\ seen' = [t \in Token |-> IF t \in T THEN Gone ELSE seen[t]]
  /\ favs' = [t \in Token |-> IF t \in T THEN {} ELSE favs[t]]
  /\ count' = [t \in Token |-> IF t \in T THEN [k \in Counted |-> 0] ELSE count[t]]
  /\ prefs' = prefs \ T

Forget(t) ==
  /\ Erase({t})
  /\ forgot' = forgot \cup {t}
  /\ UNCHANGED <<now, req, used>>

Dormant(t) == Live(t) /\ seen[t] < now - PruneAfter

Retiring_Empty ==                  \* a bug: only tokens nothing hangs off
  {t \in Token : Dormant(t) /\ favs[t] = {}}

Retiring_Early ==                  \* a bug: a cutoff short of the promised age
  {t \in Token : Live(t) /\ seen[t] < now - PruneAfter + 2}

Retiring == {t \in Token : Dormant(t)}

PruneTokens ==
  /\ Retiring # {}
  /\ Erase(Retiring)
  /\ UNCHANGED <<now, req, used, forgot>>

Tick ==
  /\ now < MaxTime
  /\ \A r \in Request : req[r].at \in {"count", "insert"} => now < req[r].since + Patience
  /\ now' = now + 1
  /\ UNCHANGED <<seen, tables, req, used, forgot>>

TokenNext ==
  \/ Tick \/ PruneTokens
  \/ \E r \in Request : Post(r) \/ NextRow(r) \/ Count(r) \/ Insert(r) \/ Fail(r) \/ Abandon(r)
  \/ \E t \in Token :
       \/ Forget(t) \/ ClearLedger(t)
       \/ \E i \in Item : RemoveFavourite(t, i)
       \/ \E k \in Counted : Delete(t, k)

TokenSpec == TokenInit /\ [][TokenNext]_tokenVars

(* The nightly run gets as far as the tokens again and again: weak         *)
(* fairness of PruneTokens, its guard written out.                         *)
PruneRuns == []<>(Retiring = {}) \/ []<><<PruneTokens>>_tokenVars

-----------------------------------------------------------------------------
(* The cap, "so the scheme cannot be abused as free hosting", is counted   *)
(* and enforced in separate statements: what is stored and what has been   *)
(* let through never passes it by more than the requests that can be       *)
(* beside one another, however long the run.                               *)
Passed(t, x) == {r \in Request : req[r].at = "insert" /\ req[r].token = t /\ req[r].adds = x}
Favouring(t) == {r \in Request : req[r].at = "insert" /\ req[r].token = t /\ req[r].adds \in Item}

CapNearlyHeld ==
  \A t \in Token :
    /\ Cardinality(favs[t]) + Cardinality(Favouring(t)) < Cap + Cardinality(Request)
    /\ \A k \in Counted : count[t][k] + Cardinality(Passed(t, k)) < Cap + Cardinality(Request)

(* No row outlives its token, on whatever connection it is inserted:       *)
(* nothing is stored under a token that is not there.  A request that      *)
(* touched its token before it was forgotten, or retired, so stores        *)
(* nothing more, unless the token is touched again: by another request     *)
(* under it or by the same import at its next trade, for a touch creates a *)
(* token that is gone (see MCTokenForget).                                 *)
NothingOrphaned ==
  \A t \in Token : ~Live(t) =>
    favs[t] = {} /\ t \notin prefs /\ \A k \in Counted : count[t][k] = 0

(* "Data attached to a code untouched for N months is deleted              *)
(* automatically", and no other: a token that was not forgotten goes only  *)
(* PruneAfter after its last row was stored, less the time a request takes.*)
KeptWhileUsed ==
  [][\A t \in Token : Live(t) /\ seen'[t] = Gone /\ t \notin forgot'
       => now - used[t] + Patience > PruneAfter]_tokenVars

(* Why: a row is stored soon after a touch, and a touch is never undone.   *)
UsedSoonAfterTouch ==
  /\ \A t \in Token : seen[t] <= now /\ used[t] <= now /\ (Live(t) => used[t] <= seen[t] + Patience)
  /\ \A r \in Request : req[r].at \in {"count", "insert"} =>
       LET t == req[r].token IN
         /\ req[r].since <= now /\ now <= req[r].since + Patience
         /\ Live(t) => req[r].since <= seen[t]

(* The inductive invariant.                                                *)
IInv == TokenTypeOK /\ CapNearlyHeld /\ NothingOrphaned /\ UsedSoonAfterTouch

(* And it does go, unless it is used again.                                *)
Retired == PruneRuns => \A t \in Token : Dormant(t) ~> ~Dormant(t)
=============================================================================
