------------------------- MODULE PriceArchiveNightly -------------------------
(***************************************************************************)
(* The archive under a maintenance schedule that keeps its promise: the    *)
(* relation between the windows, the retention and the longest gap between *)
(* two rollups under which nothing leaves the archive unabsorbed.          *)
(***************************************************************************)
EXTENDS PriceArchive

CONSTANT Reach   \* the oldest a row of a finer tier may be when it is first stored

(* With config.toml's values, in 5m buckets: Hour = 12, Day = 288,         *)
(* Window = 576 and 4032, Keep = 8640, 210240 and 0, a nightly MaxGap of   *)
(* 288, and only 24h backfilled: Reach = 2 and 588.                        *)
ASSUME ReachAssumption ==
  /\ Reach \in [{"5m", "1h"} -> Nat]
  /\ \A t \in {"5m", "1h"} :
       /\ Reach[t] >= 2 * Width[t]
       /\ t \in BackfillSteps => Reach[t] >= Points * Width[t]
  /\ Reach["1h"] >= Window["1h"] + Hour

ASSUME WindowAssumption ==
  \A to \in Rolled : Window[to] >= Reach[Finer[to]] + MaxGap

ASSUME KeepAssumption ==
  /\ \A t \in {"5m", "1h"} : Keep[t] > 0 => Keep[t] >= Reach[t]
  /\ \A to \in Rolled :
       Keep[to] > 0 => Keep[Finer[to]] > 0 /\ Keep[to] >= Keep[Finer[to]] + Width[to]

(* The configured retention of the coarsest tier: daily = "0", for ever.   *)
ASSUME ForeverAssumption == Keep["24h"] = 0

-----------------------------------------------------------------------------
(* The rollup clocks: no rollup is further back than MaxGap, and none is   *)
(* ahead of the run that made it.                                          *)
Clock ==
  /\ maintNow <= now
  /\ \A to \in Rolled : lastRoll[to] <= maintNow /\ now <= lastRoll[to] + MaxGap

(* Prune is reached only through both rollups of the same run.             *)
StageOrder ==
  /\ stage \in Stages \ {"idle", "roll1h"} => lastRoll["1h"] = maintNow
  /\ stage \in {"prune5m", "prune1h", "prune24h"} => lastRoll["24h"] = maintNow

(* Every row of a finer tier has its coarser bucket stored, or is recent   *)
(* enough for the next rollup's window to reach it.                        *)
Absorbed ==
  \A to \in Rolled, f \in Moment :
    rows[Finer[to]][f] # {} =>
      \/ rows[to][Start(to, f)] # {}
      \/ f + Reach[Finer[to]] >= lastRoll[to]

(* While a tier is pruned, the finer tier holds nothing that has expired:  *)
(* a late backfill or poll never slips an expired row in behind the prune. *)
Trimmed ==
  /\ stage \in {"prune1h", "prune24h"} =>
       \A b \in Moment : rows["5m"][b] # {} => ~Expired("5m", b)
  /\ stage = "prune24h" =>
       \A b \in Moment : rows["1h"][b] # {} => ~Expired("1h", b)

IInv == TypeOK /\ Clock /\ StageOrder /\ Absorbed /\ Trimmed

-----------------------------------------------------------------------------
(* The moments for which the archive can still answer, at some resolution. *)
Covered == {u \in Moment : \E t \in Tier : rows[t][Start(t, u)] # {}}

History == INSTANCE HistoryLog WITH covered <- Covered

(* "The archive is the asset": through polls, rollups, prunes, crashes and *)
(* pauses, a moment once covered stays covered, at a coarser resolution if *)
(* need be.  Covered means that a row answers for the moment's bucket; one *)
(* a rollup made over an open bucket may leave out some of its trades.     *)
HistoryKept == History!Spec
=============================================================================
