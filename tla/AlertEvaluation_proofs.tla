------------------------ MODULE AlertEvaluation_proofs ------------------------
(***************************************************************************)
(* With one evaluator an episode brings one event, and one more only for a *)
(* failure between an event and its mark; and every event is of a          *)
(* condition that the stored statistics satisfy.  Both follow from         *)
(* Episodes: what an evaluator has read of the statistics is still true    *)
(* when it acts on it, and an alert with one event more than it had such   *)
(* failures is marked, gone, or about to be marked.                        *)
(***************************************************************************)
EXTENDS AlertEvaluation, TLAPS

(* What the evaluator d has read still stands.                             *)
ReadStands(d) ==
  /\ stage[d] \in {"loop", "insert", "mark", "clear"} =>
       \A p \in todo[d] : p.alert \notin unborn /\ (p.hold <=> p.alert \in holds)
  /\ stage[d] = "insert" => cur[d] \in holds \ fired /\ firings[cur[d]] <= torn[cur[d]]
  /\ stage[d] = "mark" => cur[d] \in holds
  /\ stage[d] = "clear" => cur[d] \notin holds \cup unborn

(* An alert whose last event was not torn from its mark is marked, gone,   *)
(* or in hand.                                                             *)
Accounted(d) ==
  \A a \in Alert :
    /\ firings[a] # 0 => a \in holds
    /\ firings[a] <= 1 + torn[a]
    /\ firings[a] > torn[a] =>
         a \in fired \/ a \notin alerts \cup unborn \/ (stage[d] = "mark" /\ cur[d] = a)

Episodes(d) ==
  /\ AlertTypeOK
  /\ holds \cap unborn = {}
  /\ ReadStands(d)
  /\ Accounted(d)

(* The hypothesis of this module: the daemon alone evaluates.              *)
Alone(d) == Evaluator = {d}

-----------------------------------------------------------------------------
LEMMA EpisodesInit ==
  ASSUME NEW d, Alone(d), AlertInit
  PROVE  Episodes(d)
BY OwnerAssumption DEF AlertInit, Episodes, AlertTypeOK, ReadStands, Accounted, Alone, Stage, Entry

(* A user's edit touches no alert that the evaluator is about to act on in *)
(* a way that matters: an id is used once.                                 *)
LEMMA WebStep ==
  ASSUME NEW d, Alone(d), Episodes(d),
         \/ \E a \in Alert : AddAlert(a) \/ DeleteAlert(a)
         \/ \E t \in Holder : ForgetHolder(t)
  PROVE  Episodes(d)'
<1>1. ASSUME NEW a \in Alert, AddAlert(a) PROVE Episodes(d)'
  <2>1. AlertTypeOK'
    BY <1>1, OwnerAssumption DEF Episodes, AlertTypeOK, AddAlert, cuts
  <2>2. (holds \cap unborn = {})'
    BY <1>1 DEF Episodes, AddAlert, cuts
  <2>3. ReadStands(d)'
    BY <1>1 DEF Episodes, ReadStands, AddAlert, cuts
  <2>4. Accounted(d)'
    BY <1>1 DEF Episodes, Accounted, AddAlert, cuts
  <2> QED BY <2>1, <2>2, <2>3, <2>4 DEF Episodes
<1>2. ASSUME NEW a \in Alert, DeleteAlert(a) PROVE Episodes(d)'
  BY <1>2 DEF Episodes, AlertTypeOK, ReadStands, Accounted, DeleteAlert, cuts
<1>3. ASSUME NEW t \in Holder, ForgetHolder(t) PROVE Episodes(d)'
  <2>1. AlertTypeOK'
    BY <1>3 DEF Episodes, AlertTypeOK, ForgetHolder, cuts
  <2>2. ReadStands(d)' /\ Accounted(d)' /\ (holds \cap unborn = {})'
    BY <1>3 DEF Episodes, AlertTypeOK, ReadStands, Accounted, ForgetHolder, cuts
  <2> QED BY <2>1, <2>2 DEF Episodes
<1> QED BY <1>1, <1>2, <1>3

LEMMA TypeStep ==
  ASSUME NEW e \in Evaluator, AlertTypeOK, ComputeStats(e) \/ Evaluate(e) \/ CutShort(e)
  PROVE  AlertTypeOK'
<1>1. CASE ComputeStats(e)
  BY <1>1 DEF AlertTypeOK, ComputeStats, web, cuts, Stage
<1>2. CASE Scan(e)
  <2>1. \A a \in alerts : [alert |-> a, hold |-> a \in holds] \in Entry
    BY DEF AlertTypeOK, Entry
  <2>2. todo' \in [Evaluator -> SUBSET Entry]
    BY <1>2, <2>1 DEF AlertTypeOK, Scan
  <2> QED BY <1>2, <2>2 DEF AlertTypeOK, Scan, web, cuts, Stage
<1>3. CASE Take(e)
  BY <1>3 DEF AlertTypeOK, Take, web, cuts, Stage, Entry
<1>4. CASE AppendEvent(e)
  BY <1>4 DEF AlertTypeOK, AppendEvent, web, cuts, Stage
<1>5. CASE Mark(e)
  BY <1>5 DEF AlertTypeOK, Mark, web, cuts, Stage
<1>6. CASE Clear(e)
  BY <1>6 DEF AlertTypeOK, Clear, web, cuts, Stage
<1>7. CASE Finish(e)
  BY <1>7 DEF AlertTypeOK, Finish, web, cuts, Stage
<1>8. CASE CutShort(e)
  BY <1>8 DEF AlertTypeOK, CutShort, web, Stage
<1> QED BY <1>1, <1>2, <1>3, <1>4, <1>5, <1>6, <1>7, <1>8 DEF Evaluate

(* The statistics change only between passes, so what a pass has read of   *)
(* them stands until it ends; last_fired is read again for each alert.     *)
LEMMA EvaluatorStep ==
  ASSUME NEW d, Alone(d), Episodes(d), ComputeStats(d) \/ Evaluate(d) \/ CutShort(d)
  PROVE  Episodes(d)'
<1> d \in Evaluator
  BY DEF Alone
<1>0. AlertTypeOK'
  BY TypeStep DEF Episodes
<1>1. CASE ComputeStats(d)
  BY <1>0, <1>1 DEF Episodes, AlertTypeOK, ReadStands, Accounted, ComputeStats, web, cuts
<1>2. CASE Scan(d)
  <2>1. todo'[d] = {[alert |-> a, hold |-> a \in holds] : a \in alerts}
    BY <1>2 DEF Scan, Episodes, AlertTypeOK
  <2>2. \A p \in todo'[d] : p.alert \notin unborn /\ (p.hold <=> p.alert \in holds)
    <3> SUFFICES ASSUME NEW p \in todo'[d]
                 PROVE  p.alert \notin unborn /\ (p.hold <=> p.alert \in holds)
      OBVIOUS
    <3>1. PICK a \in alerts : p = [alert |-> a, hold |-> a \in holds]
      BY <2>1
    <3>2. p.alert = a /\ (p.hold <=> a \in holds)
      BY <3>1, Zenon
    <3> QED BY <3>2 DEF Episodes, AlertTypeOK
  <2>3. ReadStands(d)' /\ Accounted(d)'
    BY <1>2, <2>2 DEF Episodes, AlertTypeOK, ReadStands, Accounted, Scan, web, cuts
  <2> QED BY <1>0, <1>2, <2>3 DEF Episodes, Scan, web, cuts
<1>3. CASE Take(d)
  <2>1. PICK p \in todo[d] :
          /\ todo' = [todo EXCEPT ![d] = @ \ {p}]
          /\ cur' = [cur EXCEPT ![d] = p.alert]
          /\ stage' = [stage EXCEPT ![d] =
                      IF p.hold /\ p.alert \in alerts \ fired THEN "insert"
                      ELSE IF ~p.hold /\ p.alert \in fired THEN "clear" ELSE "loop"]
    BY <1>3 DEF Take
  <2>2. stage[d] = "loop" /\ UNCHANGED <<web, fired, holds, firings, cuts>>
    BY <1>3 DEF Take
  <2>3. p.alert \in Alert /\ p.alert \notin unborn /\ (p.hold <=> p.alert \in holds)
    BY <2>1, <2>2 DEF Episodes, AlertTypeOK, ReadStands, Entry
  <2>4. Accounted(d)'
    BY <2>1, <2>2 DEF Episodes, AlertTypeOK, Accounted, web, cuts
  <2>5. stage'[d] = "insert" => firings[p.alert] <= torn[p.alert]
    BY <2>1, <2>2, <2>3 DEF Episodes, AlertTypeOK, Accounted
  <2>6. ReadStands(d)'
    BY <2>1, <2>2, <2>3, <2>5 DEF Episodes, AlertTypeOK, ReadStands, web, cuts
  <2> QED BY <1>0, <2>2, <2>4, <2>6 DEF Episodes, web, cuts
<1>4. CASE AppendEvent(d)
  <2>1. CASE Owner[cur[d]] \in tokens
    BY <1>0, <1>4, <2>1 DEF Episodes, AlertTypeOK, ReadStands, Accounted, AppendEvent, web, cuts
  <2>2. CASE Owner[cur[d]] \notin tokens
    BY <1>0, <1>4, <2>2 DEF Episodes, AlertTypeOK, ReadStands, Accounted, AppendEvent, web, cuts
  <2> QED BY <2>1, <2>2
<1>5. CASE Mark(d)
  BY <1>0, <1>5 DEF Episodes, AlertTypeOK, ReadStands, Accounted, Mark, web, cuts
<1>6. CASE Clear(d)
  BY <1>0, <1>6 DEF Episodes, AlertTypeOK, ReadStands, Accounted, Clear, web, cuts
<1>7. CASE Finish(d)
  BY <1>0, <1>7 DEF Episodes, AlertTypeOK, ReadStands, Accounted, Finish, web, cuts
<1>8. CASE CutShort(d)
  BY <1>0, <1>8 DEF Episodes, AlertTypeOK, ReadStands, Accounted, CutShort, web
<1> QED BY <1>1, <1>2, <1>3, <1>4, <1>5, <1>6, <1>7, <1>8 DEF Evaluate

LEMMA StutterStep ==
  ASSUME NEW d, Episodes(d), UNCHANGED alertVars
  PROVE  Episodes(d)'
BY DEF Episodes, AlertTypeOK, ReadStands, Accounted, alertVars

LEMMA EpisodesNext ==
  ASSUME NEW d, Alone(d), Episodes(d), [AlertNext]_alertVars
  PROVE  Episodes(d)'
<1>1. ASSUME NEW e \in Evaluator, ComputeStats(e) \/ Evaluate(e) \/ CutShort(e)
      PROVE  Episodes(d)'
  BY <1>1, EvaluatorStep DEF Alone
<1> QED BY <1>1, WebStep, StutterStep DEF AlertNext

LEMMA EpisodesAlways == ASSUME NEW d, Alone(d) PROVE AlertSpec => []Episodes(d)
<1>1. AlertInit => Episodes(d)
  BY EpisodesInit
<1>2. Episodes(d) /\ [AlertNext]_alertVars => Episodes(d)'
  BY EpisodesNext
<1> QED BY <1>1, <1>2, PTL DEF AlertSpec

(* EvaluateAlerts: one event for one uninterrupted period of a condition,  *)
(* plus one for each failure between an event and its mark, for any number *)
(* of alerts, readers, edits and failures.                                 *)
THEOREM OneEvent ==
  ASSUME NEW d, Alone(d)
  PROVE  AlertSpec => [](AlertTypeOK /\ OneEventPerEpisode)
<1>1. Episodes(d) => AlertTypeOK /\ OneEventPerEpisode
  BY DEF Episodes, AlertTypeOK, Accounted, OneEventPerEpisode
<1> QED BY <1>1, EpisodesAlways, PTL

(* Where an event comes from: only the evaluator's insert appends one, and *)
(* what it last read of the alert still stands.                            *)
LEMMA AppendedWhen ==
  ASSUME NEW d, Alone(d), Episodes(d), [AlertNext]_alertVars,
         NEW a \in Alert, firings'[a] > firings[a]
  PROVE  a \in holds /\ a \notin fired
<1>1. PICK e \in Evaluator : ComputeStats(e) \/ AppendEvent(e)
  BY DEF AlertNext, alertVars, AddAlert, DeleteAlert, ForgetHolder, Evaluate, Scan, Take, Mark, Clear,
         Finish, CutShort, Episodes, AlertTypeOK
<1>2. e = d
  BY DEF Alone
<1>3. CASE ComputeStats(d)
  BY <1>3 DEF ComputeStats, Episodes, AlertTypeOK
<1>4. CASE AppendEvent(d)
  BY <1>4 DEF AppendEvent, Episodes, AlertTypeOK, ReadStands
<1> QED BY <1>1, <1>2, <1>3, <1>4

(* Recompute: an event is appended only while the stored statistics        *)
(* satisfy its alert's condition.                                          *)
THEOREM FiringsSound == ASSUME NEW d, Alone(d) PROVE AlertSpec => FiringShown
<1>1. Episodes(d) /\ [AlertNext]_alertVars
      => [\A a \in Alert : firings'[a] > firings[a] => a \in holds]_alertVars
  BY AppendedWhen
<1> QED BY <1>1, EpisodesAlways, PTL DEF AlertSpec, FiringShown

(* EvaluateAlerts reads last_fired again before it appends: an alert that  *)
(* is marked gets no further event until the mark has been taken away,     *)
(* whatever was edited, failed or was cut short since the scan.            *)
THEOREM MarkedStaysSilent == ASSUME NEW d, Alone(d) PROVE AlertSpec => MarkedSilent
<1>1. Episodes(d) /\ [AlertNext]_alertVars
      => [\A a \in Alert : firings'[a] > firings[a] => a \notin fired]_alertVars
  BY AppendedWhen
<1> QED BY <1>1, EpisodesAlways, PTL DEF AlertSpec, MarkedSilent
=============================================================================
