------------------------------ MODULE MCOpenget ------------------------------
(***************************************************************************)
(* When openget asks upstream and what it keeps of an answer, the nightly  *)
(* run, what readers keep under a token, and what becomes of their alerts. *)
(* The parts meet in calls, not in state: a run looks at one of them, the  *)
(* others stay where they began.                                           *)
(*                                                                         *)
(* poll      one feed: jobs share only `items` and the process, and both   *)
(*           are seen by a single job as well; three attempts, as in getURL *)
(* schedule  ten ticks to the period, of which three settle; a process is  *)
(*           started at any of them                                        *)
(* nightly   a day of sixteen ticks with four disk checks and the run at   *)
(*           tick five; the ticker's offsets are those with which no check *)
(*           coincides with 03:17                                          *)
(* tokens    two handlers beside each other under one token: tokens share  *)
(*           nothing but the statement that retires them; alerts are       *)
(*           stored by the same three statements as trades, so one counted *)
(*           table stands for both                                         *)
(* alerts    see MCAlertEvaluation; the store counts the rows of `alerts`, *)
(*           the evaluation asks which of their conditions hold, and both  *)
(*           have adding, deleting and forgetting in them                  *)
(***************************************************************************)
EXTENDS ConditionalPoll, PollSchedule, NightlySchedule, TokenStore, MCAlertEvaluation

CONSTANTS latest, t1, q1, q2, i1, i2
MCFeed    == {latest}
MCStart   == 0 .. Every - 1
MCApart   == {o \in 0 .. DiskEvery - 1 :
                \A d \in 0..MaxCheck : (Night + DiskEvery - d) % DiskEvery # o}
MCToken   == {t1}
MCRequest == {q1, q2}
MCItem    == {i1, i2}
MCCounted == {"ledger"}

VARIABLE lane
MCVars == <<lane, pollVars, scheduleVars, nightlyVars, tokenVars, alertVars>>

MCInit ==
  /\ lane \in {"poll", "schedule", "nightly", "tokens", "alerts"}
  /\ PollInit /\ ScheduleInit /\ NightlyInit /\ TokenInit /\ AlertInit
  /\ lane # "poll" => known
  /\ lane # "schedule" => phase = Settle /\ pub = 1
  /\ lane # "nightly" => clock \in MCApart /\ clock + 1 \in MCApart /\ ~low
  /\ lane # "alerts" => cur = [e \in Evaluator |-> w1]

MCNext ==
  /\ UNCHANGED lane
  /\ \/ /\ lane = "poll" /\ PollNext
        /\ UNCHANGED <<scheduleVars, nightlyVars, tokenVars, alertVars>>
     \/ /\ lane = "schedule" /\ ScheduleNext
        /\ UNCHANGED <<pollVars, nightlyVars, tokenVars, alertVars>>
     \/ /\ lane = "nightly" /\ NightlyNext
        /\ UNCHANGED <<pollVars, scheduleVars, tokenVars, alertVars>>
     \/ /\ lane = "tokens" /\ TokenNext
        /\ UNCHANGED <<pollVars, scheduleVars, nightlyVars, alertVars>>
     \/ /\ lane = "alerts" /\ AlertNext
        /\ UNCHANGED <<pollVars, scheduleVars, nightlyVars, tokenVars>>

(* AlertFairness, where there are alerts.                                  *)
MCFairness ==
  \A e \in Evaluator :
    /\ WF_alertVars(lane = "alerts" /\ ComputeStats(e))
    /\ WF_alertVars(lane = "alerts" /\ Evaluate(e))

MCSpec == MCInit /\ [][MCNext]_MCVars /\ MCFairness
=============================================================================
