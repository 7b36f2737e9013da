---------------------------- MODULE PriceArchive ----------------------------
(***************************************************************************)
(* The price archive of the openget daemon (internal/ingest, internal/     *)
(* store/write.go): three tiers of price rows, filled by the live bucket   *)
(* polls, by the one-time backfill and by the nightly rollups, and emptied *)
(* by the retention prune.                                                 *)
(*                                                                         *)
(* One item stands for all of them: every statement of the code treats the *)
(* rows of an item independently of the rows of another.  Time is counted  *)
(* in buckets of the finest tier (5 minutes).  A row is abstracted to the  *)
(* set of 5-minute buckets whose trades its averages summarise; the empty  *)
(* set means that the table has no such row, since no writer stores a row  *)
(* with neither price.                                                     *)
(***************************************************************************)
EXTENDS Naturals, FiniteSets

CONSTANTS
  Hour,           \* width of a 1h bucket, in 5m buckets (12 in the code)
  Day,            \* width of a 24h bucket, in 5m buckets (288 in the code)
  Traded,         \* the 5m buckets in which the item traded upstream
  Points,         \* points a /timeseries answer holds (365)
  BackfillSteps,  \* cfg.Backfill.Steps: the tiers the backfill seeds
  Window,         \* how far back the rollup into a tier looks (48h, 14d)
  Keep,           \* cfg.Retention per tier; 0 keeps for ever
  MaxGap,         \* longest time between two completed runs of a rollup
  MaxTime         \* bound: the last moment considered

Tier   == {"5m", "1h", "24h"}
Rolled == {"1h", "24h"}                 \* the tiers a rollup writes
Finer  == [to \in Rolled |-> IF to = "1h" THEN "5m" ELSE "1h"]
Width  == [t \in Tier |-> CASE t = "5m" -> 1 [] t = "1h" -> Hour [] OTHER -> Day]

Moment == 0..MaxTime
Stages == {"idle", "roll1h", "roll24h", "prune5m", "prune1h", "prune24h"}

ASSUME WidthAssumption  == Hour \in Nat \ {0} /\ Day \in Nat \ {0}
ASSUME NestingAssumption == \E k \in 1..Day : Day = k * Hour   \* hours divide days
ASSUME BoundAssumption  == MaxTime \in Nat /\ MaxGap \in Nat /\ Points \in Nat \ {0}
ASSUME TradedAssumption == Traded \subseteq Nat
ASSUME PolicyAssumption == /\ Window \in [Rolled -> Nat]
                           /\ Keep \in [Tier -> Nat]
                           /\ BackfillSteps \subseteq Tier

VARIABLES
  now,       \* the 5m bucket that is open
  listing,   \* the item's row in the items table: "absent", "listed", "removed"
  rows,      \* rows[t][b]: what the row of tier t that starts at b summarises
  filled,    \* backfill_state: the steps already marked done for the item
  batch,     \* the step whose backfill pass has the item in hand, or "none"
  paused,    \* ingest.paused, the disk guard
  stage,     \* where Maintenance is: the statement it executes next
  maintNow,  \* the `now` Maintenance read when it started
  lastRoll,  \* history: maintNow of the last rollup into a tier that completed
  rolledAt   \* history: the moment at which that rollup was executed

vars == <<now, listing, rows, filled, batch, paused, stage, maintNow, lastRoll, rolledAt>>

(* The bucket of tier t that holds moment u, by its start:                 *)
(* (bucket_ts / width) * width.                                            *)
Start(t, u) == u - (u % Width[t])

Span(t, b) == b .. (b + Width[t] - 1)

(* What upstream itself reports for a closed bucket.                       *)
Upstream(t, b) == Traded \cap Span(t, b)

TypeOK ==
  /\ now \in Nat
  /\ listing \in {"absent", "listed", "removed"}
  /\ rows \in [Tier -> [Moment -> SUBSET Traded]]
  /\ filled \subseteq BackfillSteps
  /\ batch \in BackfillSteps \cup {"none"}
  /\ paused \in BOOLEAN
  /\ stage \in Stages
  /\ maintNow \in Nat
  /\ lastRoll \in [Rolled -> Nat]
  /\ rolledAt \in [Rolled -> Nat]

Init ==
  /\ now = 0
  /\ listing = "absent"
  /\ rows = [t \in Tier |-> [b \in Moment |-> {}]]
  /\ filled = {}
  /\ batch = "none"
  /\ paused = FALSE
  /\ stage = "idle"
  /\ maintNow = 0
  /\ lastRoll = [to \in Rolled |-> 0]
  /\ rolledAt = [to \in Rolled |-> 0]

-----------------------------------------------------------------------------
(* The environment.                                                        *)

(* Time passes.  MaxGap is an assumption on the deployment, not on the     *)
(* code: the daemon is up, unpaused and error-free often enough for each   *)
(* rollup to complete at least every MaxGap.                               *)
Tick ==
  /\ now < MaxTime
  /\ \A to \in Rolled : now < lastRoll[to] + MaxGap
  /\ now' = now + 1
  /\ UNCHANGED <<listing, rows, filled, batch, paused, stage, maintNow, lastRoll, rolledAt>>

(* The process dies and starts again: only the database survives.          *)
Crash ==
  /\ batch' = "none"
  /\ paused' = FALSE
  /\ stage' = "idle"
  /\ UNCHANGED <<now, listing, rows, filled, maintNow, lastRoll, rolledAt>>

-----------------------------------------------------------------------------
(* Mapping: UpsertItems lists every item of the answer and marks the rest  *)
(* removed.  A row of the items table is never deleted.  Run calls it at   *)
(* start before any disk check, so it is not held back by the pause.       *)
Mapping ==
  /\ listing' \in {"listed", IF listing = "absent" THEN "absent" ELSE "removed"}
  /\ UNCHANGED <<now, rows, filled, batch, paused, stage, maintNow, lastRoll, rolledAt>>

(* BucketPoll(t): the live endpoint answers with the last closed bucket    *)
(* and UpsertBucket overwrites the row, unless the item is unknown or has  *)
(* neither price.  A failed or 304 poll changes nothing.                   *)
BucketPoll_OpenBucket(t) ==       \* a bug: stored under the bucket that is open
  /\ ~paused /\ listing # "absent" /\ Start(t, now) >= Width[t]
  /\ rows' = [rows EXCEPT ![t][Start(t, now)] = Upstream(t, Start(t, now) - Width[t])]
  /\ UNCHANGED <<now, listing, filled, batch, paused, stage, maintNow, lastRoll, rolledAt>>

BucketPoll(t) ==
  LET b == Start(t, now) - Width[t]
  IN  /\ ~paused
      /\ Start(t, now) >= Width[t]
      /\ listing # "absent"
      /\ Upstream(t, b) # {}
      /\ rows' = [rows EXCEPT ![t][b] = Upstream(t, b)]
      /\ UNCHANGED <<now, listing, filled, batch, paused, stage, maintNow, lastRoll, rolledAt>>

(* backfillStep: a pass lists the pending items unless ingestion is        *)
(* paused.  The pause is not looked at again inside the pass.              *)
BackfillPass(t) ==
  /\ ~paused
  /\ batch = "none"
  /\ listing = "listed"
  /\ t \in BackfillSteps \ filled
  /\ batch' = t
  /\ UNCHANGED <<now, listing, rows, filled, paused, stage, maintNow, lastRoll, rolledAt>>

(* The closed buckets a /timeseries answer for tier t reports.             *)
Series(t) ==
  {b \in Moment : /\ b = Start(t, b)
                  /\ b + Width[t] <= now
                  /\ b + Points * Width[t] >= now
                  /\ Upstream(t, b) # {}}

(* The answer is stored ON CONFLICT DO NOTHING and the step marked done;   *)
(* the mark is a statement of its own and may fail.                        *)
BackfillStore ==
  /\ batch # "none"
  /\ rows' = [rows EXCEPT ![batch] =
                [b \in Moment |-> IF rows[batch][b] = {} /\ b \in Series(batch)
                                  THEN Upstream(batch, b) ELSE rows[batch][b]]]
  /\ filled' \in {filled, filled \cup {batch}}
  /\ batch' = "none"
  /\ UNCHANGED <<now, listing, paused, stage, maintNow, lastRoll, rolledAt>>

(* The request failed: the item is marked done all the same.  Or the store *)
(* failed, and nothing is marked.                                          *)
BackfillFail ==
  /\ batch # "none"
  /\ filled' \in {filled, filled \cup {batch}}
  /\ batch' = "none"
  /\ UNCHANGED <<now, listing, rows, paused, stage, maintNow, lastRoll, rolledAt>>

-----------------------------------------------------------------------------
(* Maintenance, one action per statement: each is a transaction of its     *)
(* own, so polls and the backfill interleave with them.                    *)
MaintStart ==
  /\ ~paused
  /\ stage = "idle"
  /\ stage' = "roll1h"
  /\ maintNow' = now
  /\ UNCHANGED <<now, listing, rows, filled, batch, paused, lastRoll, rolledAt>>

(* What the rollup's GROUP BY makes of the finer rows since the window's   *)
(* start that fall in bucket b of tier `to`.                               *)
Contribution_Unrounded(to, b) ==  \* a bug: grouped by the finer bucket's own start
  UNION {rows[Finer[to]][f] : f \in {g \in Moment : /\ g + Window[to] >= maintNow
                                                    /\ Start(Finer[to], g) = b}}

Contribution(to, b) ==
  UNION {rows[Finer[to]][f] : f \in {g \in Moment : /\ g + Window[to] >= maintNow
                                                    /\ Start(to, g) = b}}

(* ON CONFLICT DO NOTHING: a row that exists is left as it is.             *)
RolledUp_Replacing(to) ==         \* a bug: ON CONFLICT DO UPDATE
  [b \in Moment |-> IF Contribution(to, b) # {} THEN Contribution(to, b) ELSE rows[to][b]]

RolledUp(to) ==
  [b \in Moment |-> IF rows[to][b] = {} THEN Contribution(to, b) ELSE rows[to][b]]

RollupStage(to) == IF to = "1h" THEN "roll1h" ELSE "roll24h"

Rollup(to) ==
  /\ stage = RollupStage(to)
  /\ rows' = [rows EXCEPT ![to] = RolledUp(to)]
  /\ lastRoll' = [lastRoll EXCEPT ![to] = maintNow]
  /\ rolledAt' = [rolledAt EXCEPT ![to] = now]
  /\ stage' = IF to = "1h" THEN "roll24h" ELSE "prune5m"
  /\ UNCHANGED <<now, listing, filled, batch, paused, maintNow>>

(* DELETE ... WHERE bucket_ts < now - keep.                                *)
Expired_Always(t, b) == b + Keep[t] < maintNow   \* a bug: retention 0 keeps nothing

Expired(t, b) == Keep[t] > 0 /\ b + Keep[t] < maintNow

PruneStage(t) == CASE t = "5m" -> "prune5m" [] t = "1h" -> "prune1h" [] OTHER -> "prune24h"

Prune(t) ==
  /\ stage = PruneStage(t)
  /\ rows' = [rows EXCEPT ![t] =
                [b \in Moment |-> IF Expired(t, b) THEN {} ELSE rows[t][b]]]
  /\ stage' = CASE t = "5m" -> "prune1h" [] t = "1h" -> "prune24h" [] OTHER -> "idle"
  /\ IF t = "24h" THEN paused' \in BOOLEAN ELSE UNCHANGED paused  \* its closing checkDisk
  /\ UNCHANGED <<now, listing, filled, batch, maintNow, lastRoll, rolledAt>>

(* Any statement's error ends the run; nothing later is attempted.         *)
MaintAbort_PruneAnyway ==         \* a bug: a rollup's error does not end the run
  /\ stage # "idle"
  /\ stage' = IF stage \in {"roll1h", "roll24h"} THEN "prune5m" ELSE "idle"
  /\ UNCHANGED <<now, listing, rows, filled, batch, paused, maintNow, lastRoll, rolledAt>>

MaintAbort ==
  /\ stage # "idle"
  /\ stage' = "idle"
  /\ UNCHANGED <<now, listing, rows, filled, batch, paused, maintNow, lastRoll, rolledAt>>

(* The five-minute disk tick of maintenanceLoop, which is the goroutine    *)
(* that runs Maintenance: never while a run is under way.                  *)
CheckDisk ==
  /\ stage = "idle"
  /\ paused' \in BOOLEAN
  /\ UNCHANGED <<now, listing, rows, filled, batch, stage, maintNow, lastRoll, rolledAt>>

Next ==
  \/ Tick
  \/ Crash
  \/ Mapping
  \/ \E t \in Tier : BucketPoll(t)
  \/ \E t \in Tier : BackfillPass(t)
  \/ BackfillStore
  \/ BackfillFail
  \/ MaintStart
  \/ \E to \in Rolled : Rollup(to)
  \/ \E t \in Tier : Prune(t)
  \/ MaintAbort
  \/ CheckDisk

Spec == Init /\ [][Next]_vars

-----------------------------------------------------------------------------
(* Properties that need no assumption on the deployment.                   *)

(* A row summarises only trades of its own bucket, and only trades of 5m   *)
(* buckets that have closed: no order of polls, backfill, rollups of a     *)
(* still open bucket and restarts stores a row under the wrong bucket      *)
(* (Rollup's bucket_ts arithmetic, UpsertBucket's b.Timestamp).            *)
Closed == {u \in Traded : u < now}

RowsSound ==
  \A t \in Tier, b \in Moment : rows[t][b] \subseteq Upstream(t, b) \cap Closed

(* As long as a row is kept it only gains contributions: a rollup made     *)
(* from an incomplete finer tier never replaces what upstream reported     *)
(* (ON CONFLICT DO NOTHING), and a poll that overwrites (DO UPDATE) only   *)
(* completes.                                                              *)
ContributionsKept ==
  [][\A t \in Tier, b \in Moment :
       rows[t][b] # {} /\ rows'[t][b] # {} => rows[t][b] \subseteq rows'[t][b]]_vars

(* Every finer row of a coarse bucket is there as upstream reported it.    *)
Captured(to, b) ==
  \A f \in Moment : Start(to, f) = b /\ f = Start(Finer[to], f)
                      => rows[Finer[to]][f] = Upstream(Finer[to], f)

(* The bucket of tier `to` that starts at b had closed when the run        *)
(* started, lies whole in the rollup's window, and has its finer rows.     *)
Reconstructible(to, b) ==
  /\ b = Start(to, b)
  /\ b + Width[to] <= maintNow
  /\ b + Window[to] >= maintNow
  /\ Captured(to, b)

(* Rollup's promise: a bucket whose own poll was missed is reconstructed   *)
(* exactly as upstream would have reported it, whatever polls and backfill *)
(* did in between, as long as this is the first rollup into the tier since *)
(* the bucket had any closed part.  An earlier one, at 03:17 over the open *)
(* hour and the open day, leaves a partial row that no rollup replaces.    *)
RollupReconstructs ==
  [][\A to \in Rolled, b \in Moment :
       stage = RollupStage(to) /\ lastRoll' # lastRoll /\ rolledAt[to] <= b
       /\ Reconstructible(to, b)
       => rows'[to][b] = Upstream(to, b)]_vars

(* The comment above the rollups (ingest.go:440) says it without the       *)
(* reservation: "a bucket that was still open at the previous run gets     *)
(* recomputed with its full set of contributions".                         *)
OpenBucketRecomputed ==
  [][\A to \in Rolled, b \in Moment :
       stage = RollupStage(to) /\ lastRoll' # lastRoll /\ Reconstructible(to, b)
       => rows'[to][b] = Upstream(to, b)]_vars

-----------------------------------------------------------------------------
(* The comment above the prune says that it comes "only after the rollups, *)
(* so nothing is deleted before the coarser tier has had its chance to     *)
(* absorb it": a row deleted from a tier has its coarser bucket stored, by *)
(* some coarse row at least; one made over an open bucket may be partial.  *)
DeletedOnlyIfAbsorbed ==
  [][\A to \in Rolled, f \in Moment :
       rows[Finer[to]][f] # {} /\ rows'[Finer[to]][f] = {}
       => rows'[to][Start(to, f)] # {}]_vars
=============================================================================
