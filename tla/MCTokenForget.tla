---------------------------- MODULE MCTokenForget ----------------------------
(* Two handlers under one token, with what is needed to see whether what   *)
(* was forgotten comes back.                                               *)
EXTENDS TokenStore

CONSTANTS t1, q1, q2, i1
MCToken   == {t1}
MCRequest == {q1, q2}
MCItem    == {i1}
MCCounted == {"ledger"}

VARIABLE late      \* history: handlers whose token was forgotten while they ran

Busy == {r \in Request : req[r].at # "idle"}
MCInit == TokenInit /\ late = {}
MCNext ==
  /\ TokenNext
  /\ late' = (late \cap Busy')
              \cup {r \in Busy : req'[r] = req[r] /\ req[r].token \in forgot' \ forgot}
MCSpec == MCInit /\ [][MCNext]_<<tokenVars, late>>

(* "This deletes your favourites, preferences, trades, alerts and the code *)
(* itself.  It cannot be undone" (forgetPage, above postForget): a request *)
(* that was under way when its token was forgotten does not bring it back. *)
ForgottenForGood ==
  [][\A r \in late : LET t == req[r].token IN
       ~Live(t) /\ req'[r] # req[r] => seen'[t] = Gone]_<<tokenVars, late>>
=============================================================================
