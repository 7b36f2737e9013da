--------------------------- MODULE AlertEvaluation ---------------------------
(***************************************************************************)
(* Price alerts (internal/store/ident.go, run from ingest.Recompute): each *)
(* statistics run is followed by an evaluation that appends an event for   *)
(* every alert whose condition has begun to hold, while the web handlers   *)
(* add and delete alerts and forget tokens, and the process may fail       *)
(* between two statements.                                                 *)
(*                                                                         *)
(* The statistics are abstracted to the set of alerts whose condition they *)
(* satisfy.  An evaluator is a process that runs Recompute: the daemon,    *)
(* and `openget -once stats` or `-once latest` beside it.                  *)
(***************************************************************************)
EXTENDS Naturals

CONSTANTS
  Alert,      \* ids; AUTOINCREMENT, so an id is used once
  Holder,
  Owner,      \* Owner[a]: the token that creates alert a
  Evaluator,
  MaxFail     \* bound: passes cut short by a failing statement or a restart

ASSUME OwnerAssumption == Owner \in [Alert -> Holder] /\ MaxFail \in Nat

VARIABLES
  tokens,     \* rows of tokens
  unborn,     \* ids not handed out yet
  alerts,     \* rows of alerts
  fired,      \* alerts whose last_fired is not NULL
  holds,      \* alerts whose condition item_stats satisfies
  firings,    \* history: events appended since the condition last began to hold
  torn,       \* history: of these, failures between the event and its mark
  fails,      \* history: passes cut short
  stage, todo, cur   \* per evaluator: where it is, the rest of its list, the alert in hand

alertVars == <<tokens, unborn, alerts, fired, holds, firings, torn, fails, stage, todo, cur>>
web  == <<tokens, unborn, alerts>>
cuts == <<torn, fails>>

Stage == {"idle", "scan", "loop", "insert", "mark", "clear"}

(* An entry of `todo`: the alert, and whether it held when it was read.    *)
Entry == [alert : Alert, hold : BOOLEAN]

AlertTypeOK ==
  /\ tokens \subseteq Holder /\ unborn \subseteq Alert /\ alerts \subseteq Alert \ unborn
  /\ \A a \in alerts : Owner[a] \in tokens
  /\ fired \subseteq alerts /\ holds \subseteq Alert
  /\ firings \in [Alert -> Nat] /\ torn \in [Alert -> Nat] /\ fails \in Nat
  /\ stage \in [Evaluator -> Stage]
  /\ todo \in [Evaluator -> SUBSET Entry]
  /\ cur \in [Evaluator -> Alert]

AlertInit ==
  /\ tokens = {} /\ unborn = Alert /\ alerts = {} /\ fired = {} /\ holds = {}
  /\ firings = [a \in Alert |-> 0] /\ torn = [a \in Alert |-> 0] /\ fails = 0
  /\ stage = [e \in Evaluator |-> "idle"]
  /\ todo = [e \in Evaluator |-> {}]
  /\ cur \in [Evaluator -> Alert]

-----------------------------------------------------------------------------
(* The web handlers.                                                       *)

(* The condition of a new alert may hold already.                          *)
AddAlert(a) ==
  /\ a \in unborn
  /\ tokens' = tokens \cup {Owner[a]}         \* TouchToken
  /\ unborn' = unborn \ {a}
  /\ alerts' = alerts \cup {a}
  /\ holds' \in {holds, holds \cup {a}}
  /\ UNCHANGED <<fired, firings, stage, todo, cur, cuts>>

DeleteAlert(a) ==
  /\ a \in alerts
  /\ alerts' = alerts \ {a} /\ fired' = fired \ {a}
  /\ UNCHANGED <<tokens, unborn, holds, firings, stage, todo, cur, cuts>>

(* postForget and PruneTokens: one DELETE, and everything cascades.        *)
ForgetHolder(t) ==
  /\ t \in tokens
  /\ tokens' = tokens \ {t}
  /\ alerts' = {a \in alerts : Owner[a] # t}
  /\ fired' = {a \in fired : Owner[a] # t}
  /\ UNCHANGED <<unborn, holds, firings, stage, todo, cur, cuts>>

-----------------------------------------------------------------------------
ComputeStats_Anytime(e) ==         \* a bug: the evaluation has a timer of its own
  /\ holds' \in SUBSET (Alert \ unborn)
  /\ firings' = [a \in Alert |-> IF a \in holds' THEN firings[a] ELSE 0]
  /\ torn' = [a \in Alert |-> IF a \in holds' THEN torn[a] ELSE 0]
  /\ stage' = [stage EXCEPT ![e] = IF @ = "idle" THEN "scan" ELSE @]
  /\ UNCHANGED <<web, fired, todo, cur, fails>>

(* Recompute: the statistics are replaced in one transaction, and the      *)
(* evaluation follows in the same goroutine.                               *)
ComputeStats(e) ==
  /\ stage[e] = "idle"
  /\ holds' \in SUBSET (Alert \ unborn)
  /\ firings' = [a \in Alert |-> IF a \in holds' THEN firings[a] ELSE 0]
  /\ torn' = [a \in Alert |-> IF a \in holds' THEN torn[a] ELSE 0]
  /\ stage' = [stage EXCEPT ![e] = "scan"]
  /\ UNCHANGED <<web, fired, todo, cur, fails>>

(* The query reads every alert with the statistics of one moment.          *)
Scan(e) ==
  /\ stage[e] = "scan"
  /\ todo' = [todo EXCEPT ![e] = {[alert |-> a, hold |-> a \in holds] : a \in alerts}]
  /\ stage' = [stage EXCEPT ![e] = "loop"]
  /\ UNCHANGED <<web, fired, holds, firings, cur, cuts>>

Take_NoReread(e) ==                \* a bug: fires without looking at last_fired
  /\ stage[e] = "loop"
  /\ \E p \in todo[e] :
       /\ todo' = [todo EXCEPT ![e] = @ \ {p}]
       /\ cur' = [cur EXCEPT ![e] = p.alert]
       /\ stage' = [stage EXCEPT ![e] = IF p.hold THEN "insert" ELSE "clear"]
  /\ UNCHANGED <<web, fired, holds, firings, cuts>>

(* The next entry: last_fired is read again; an alert that is gone is      *)
(* passed over.                                                            *)
Take(e) ==
  /\ stage[e] = "loop"
  /\ \E p \in todo[e] :
       /\ todo' = [todo EXCEPT ![e] = @ \ {p}]
       /\ cur' = [cur EXCEPT ![e] = p.alert]
       /\ stage' = [stage EXCEPT ![e] =
                   IF p.hold /\ p.alert \in alerts \ fired THEN "insert"
                   ELSE IF ~p.hold /\ p.alert \in fired THEN "clear" ELSE "loop"]
  /\ UNCHANGED <<web, fired, holds, firings, cuts>>

AppendEvent_Retry(e) ==                 \* a bug: a failed insert is tried again at once
  /\ stage[e] = "insert"
  /\ IF Owner[cur[e]] \in tokens
     THEN /\ firings' = [firings EXCEPT ![cur[e]] = @ + 1]
          /\ stage' = [stage EXCEPT ![e] = "mark"]
     ELSE UNCHANGED <<firings, stage, cuts>>
  /\ UNCHANGED <<web, fired, holds, todo, cur, cuts>>

(* The event refers to its token: once that is forgotten the insert fails, *)
(* and the error ends the pass for every alert still on the list.          *)
AppendEvent(e) ==
  /\ stage[e] = "insert"
  /\ IF Owner[cur[e]] \in tokens
     THEN /\ firings' = [firings EXCEPT ![cur[e]] = @ + 1]
          /\ stage' = [stage EXCEPT ![e] = "mark"]
          /\ UNCHANGED todo
     ELSE /\ stage' = [stage EXCEPT ![e] = "idle"]
          /\ todo' = [todo EXCEPT ![e] = {}]
          /\ UNCHANGED firings
  /\ UNCHANGED <<web, fired, holds, cur, cuts>>

Mark(e) ==
  /\ stage[e] = "mark"
  /\ fired' = fired \cup ({cur[e]} \cap alerts)
  /\ stage' = [stage EXCEPT ![e] = "loop"]
  /\ UNCHANGED <<web, holds, firings, todo, cur, cuts>>

Clear(e) ==
  /\ stage[e] = "clear"
  /\ fired' = fired \ {cur[e]}
  /\ stage' = [stage EXCEPT ![e] = "loop"]
  /\ UNCHANGED <<web, holds, firings, todo, cur, cuts>>

Finish(e) ==
  /\ stage[e] = "loop" /\ todo[e] = {}
  /\ stage' = [stage EXCEPT ![e] = "idle"]
  /\ UNCHANGED <<web, fired, holds, firings, todo, cur, cuts>>

(* A statement fails (a locked or full database) or the process stops.     *)
CutShort(e) ==
  /\ stage[e] # "idle" /\ fails < MaxFail
  /\ fails' = fails + 1
  /\ torn' = IF stage[e] = "mark" THEN [torn EXCEPT ![cur[e]] = @ + 1] ELSE torn
  /\ stage' = [stage EXCEPT ![e] = "idle"]
  /\ todo' = [todo EXCEPT ![e] = {}]
  /\ UNCHANGED <<web, fired, holds, firings, cur>>

Evaluate(e) == Scan(e) \/ Take(e) \/ AppendEvent(e) \/ Mark(e) \/ Clear(e) \/ Finish(e)

AlertNext ==
  \/ \E a \in Alert : AddAlert(a) \/ DeleteAlert(a)
  \/ \E t \in Holder : ForgetHolder(t)
  \/ \E e \in Evaluator : ComputeStats(e) \/ Evaluate(e) \/ CutShort(e)

(* The evaluation runs in the goroutine of the `latest` loop, which takes  *)
(* a tick every minute for as long as the process lives.                   *)
AlertFairness == \A e \in Evaluator : WF_alertVars(ComputeStats(e)) /\ WF_alertVars(Evaluate(e))

AlertSpec == AlertInit /\ [][AlertNext]_alertVars
FairAlertSpec == AlertSpec /\ AlertFairness

-----------------------------------------------------------------------------
(* "A price sitting under a threshold produces one event rather than one   *)
(* every minute" (EvaluateAlerts): however often the statistics are        *)
(* recomputed, whatever the user does and wherever passes are cut short,   *)
(* one uninterrupted period in which the condition holds appends one event *)
(* and, at most, one more for each failure between an event and its mark.  *)
OneEventPerEpisode == \A a \in Alert : firings[a] <= 1 + torn[a]

(* "A firing can never be based on a price the site is not already         *)
(* showing" (Recompute).                                                   *)
FiringShown ==
  [][\A a \in Alert : firings'[a] > firings[a] => a \in holds]_alertVars

(* "Re-arms after it stops being true" (the alerts page), and not before:  *)
(* an alert whose last_fired is set brings no event, even where passes are *)
(* cut short and started again on newer statistics.                        *)
MarkedSilent ==
  [][\A a \in Alert : firings'[a] > firings[a] => a \notin fired]_alertVars

(* An alert that is armed while its condition holds fires, unless the      *)
(* condition stops or the alert goes away first: another reader's          *)
(* forgotten token may end a pass but cannot starve the others.            *)
ArmedFires ==
  \A a \in Alert :
    (a \in alerts \cap holds /\ a \notin fired)
      ~> (a \in fired \/ a \notin holds \/ a \notin alerts)

(* The alerts page says that "an alert fires once when its condition       *)
(* becomes true, and re-arms after it stops being true": every period in   *)
(* which the condition keeps holding brings an event.                      *)
EveryEpisodeFires ==
  \A a \in Alert :
    (a \in alerts \cap holds) ~> (firings[a] > 0 \/ a \notin holds \/ a \notin alerts)
=============================================================================
