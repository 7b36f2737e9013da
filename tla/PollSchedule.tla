----------------------------- MODULE PollSchedule -----------------------------
(***************************************************************************)
(* The schedule of one bucket poll (loop and untilNext in                  *)
(* internal/ingest/ingest.go) against the feed it reads.  A bucket closes  *)
(* at a multiple of Every and upstream publishes it within Settle; the     *)
(* job runs at once when the process starts and then Settle after each     *)
(* boundary, the next tick being computed from the moment the job ends.    *)
(*                                                                         *)
(* Time is in ticks: `period` counts boundaries and `phase` the ticks      *)
(* since the last, so that now.Truncate(every) is phase 0.  Ingestion is   *)
(* not paused (NightlySchedule has the disk guard).                        *)
(***************************************************************************)
EXTENDS Naturals

CONSTANTS
  Every,       \* the poll's interval, a minute or more
  Settle,      \* untilNext's settling offset
  MaxJob,      \* the longest a run takes
  StartPhase,  \* phases at which a process may be started
  MaxPeriod    \* bound on the clock

ASSUME ScheduleAssumption ==
  /\ Every \in Nat /\ Settle \in 1 .. Every - 1
  /\ MaxJob \in Nat /\ MaxPeriod \in Nat
  /\ StartPhase \subseteq 0 .. Every - 1

VARIABLES
  period, phase,
  pub,     \* the newest bucket upstream serves, by the boundary that closed it
  pc,      \* "run" until the request is made, "read" after it, "sleep" between runs
  taken,   \* ticks the run has taken
  wake,    \* the period in which the timer fires, at phase Settle
  got,     \* the newest bucket read
  hasty    \* history: the buckets a start of the process has put at risk

scheduleVars == <<period, phase, pub, pc, taken, wake, got, hasty>>

ScheduleTypeOK ==
  /\ period \in Nat \ {0} /\ phase \in 0 .. Every - 1
  /\ pub \in {period - 1, period}
  /\ pc \in {"run", "read", "sleep"} /\ taken \in 0..MaxJob
  /\ wake \in Nat /\ got \in 0..pub /\ hasty \subseteq Nat

(* What the first run of a process, made at once, puts at risk.  Before    *)
(* the boundary has settled it may ask too early for the bucket that has   *)
(* just closed, and the next tick is a period away.  Too late to end in    *)
(* its period it may come too late for this one, and ends in the next,     *)
(* whose tick it skips.                                                    *)
AtRisk ==
  {b \in {period, period + 1} :
     \/ b = period /\ got < period /\ (phase < Settle \/ phase + MaxJob >= Every)
     \/ b = period + 1 /\ phase + MaxJob >= Every}

ScheduleInit ==
  /\ period = 1 /\ phase \in StartPhase
  /\ pub \in {0, 1} /\ (phase >= Settle => pub = 1)
  /\ pc = "run" /\ taken = 0
  /\ wake = 0 /\ got = pub            \* what was served before is not held against it
  /\ hasty = AtRisk

(* Upstream publishes the bucket that has closed.                          *)
PublishBucket ==
  /\ pub < period /\ pub' = period
  /\ UNCHANGED <<period, phase, pc, taken, wake, got, hasty>>

(* The request, at some moment of the run.                                 *)
Ask ==
  /\ pc = "run"
  /\ pc' = "read" /\ got' = pub
  /\ UNCHANGED <<period, phase, pub, taken, wake, hasty>>

(* The run ends, and untilNext is the settled boundary of the next period, *)
(* even where this period's still lies ahead.                              *)
EndRun ==
  /\ pc = "read"
  /\ pc' = "sleep"
  /\ wake' = period + 1
  /\ UNCHANGED <<period, phase, pub, taken, got, hasty>>

Due == period > wake \/ (period = wake /\ phase >= Settle)

Wake_Early ==                      \* a bug: no settling offset
  /\ pc = "sleep" /\ period >= wake
  /\ pc' = "run" /\ taken' = 0
  /\ UNCHANGED <<period, phase, pub, wake, got, hasty>>

Wake ==
  /\ pc = "sleep" /\ Due
  /\ pc' = "run" /\ taken' = 0
  /\ UNCHANGED <<period, phase, pub, wake, got, hasty>>

(* The process is replaced, and the new one runs every job at once.        *)
RestartLoop ==
  /\ phase \in StartPhase
  /\ pc' = "run" /\ taken' = 0
  /\ hasty' = hasty \cup AtRisk
  /\ UNCHANGED <<period, phase, pub, wake, got>>

(* Timers fire on time, runs end within MaxJob, and a bucket is served by  *)
(* the end of the settling offset.                                         *)
ScheduleTick ==
  /\ pc = "sleep" => ~Due
  /\ pc # "sleep" => taken < MaxJob
  /\ phase + 1 = Settle => pub = period
  /\ IF phase + 1 = Every
     THEN period < MaxPeriod /\ period' = period + 1 /\ phase' = 0
     ELSE period' = period /\ phase' = phase + 1
  /\ taken' = IF pc # "sleep" THEN taken + 1 ELSE taken
  /\ UNCHANGED <<pub, pc, wake, got, hasty>>

ScheduleNext == PublishBucket \/ Ask \/ EndRun \/ Wake \/ RestartLoop \/ ScheduleTick

ScheduleSpec == ScheduleInit /\ [][ScheduleNext]_scheduleVars

-----------------------------------------------------------------------------
(* "So we read a bucket after upstream has published it" (untilNext): no   *)
(* bucket is replaced upstream before it has been read, from the first one *)
(* served while the process runs, but for those the start of a process put *)
(* at risk: the schedule itself loses none, and a start costs at most the  *)
(* two buckets around it.                                                  *)
EveryBucketRead == [][pub' # pub => got = pub \/ pub \in hasty]_scheduleVars
=============================================================================
