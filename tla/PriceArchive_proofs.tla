------------------------- MODULE PriceArchive_proofs -------------------------
(***************************************************************************)
(* What the model checker shows of one small archive, proved for every     *)
(* width, window, retention and reach that satisfy the assumptions of      *)
(* PriceArchiveNightly.                                                    *)
(***************************************************************************)
EXTENDS PriceArchiveNightly, Integers, TLAPS

(* A bucket starts at or before each of its moments, less than a width     *)
(* before.                                                                 *)
LEMMA StartBounds ==
  ASSUME NEW t \in Tier, NEW u \in Nat
  PROVE  /\ Width[t] \in Nat \ {0}
         /\ Start(t, u) \in Nat
         /\ Start(t, u) <= u
         /\ u < Start(t, u) + Width[t]
<1>1. Width[t] \in Nat \ {0}
  BY WidthAssumption DEF Width, Tier
<1>2. \A w \in Nat \ {0} : u % w \in 0 .. (w - 1) /\ u % w <= u
  OBVIOUS
<1> QED
  BY <1>1, <1>2 DEF Start

(* What SMT knows of division, in the form the lemmas below use.           *)
LEMMA DivMod ==
  ASSUME NEW n \in Nat, NEW d \in Nat \ {0}
  PROVE  n \div d \in Nat /\ n % d \in 0 .. (d - 1) /\ n = d * (n \div d) + (n % d)
  OBVIOUS

(* Division with remainder is unique.                                      *)
LEMMA ModUnique ==
  ASSUME NEW d \in Nat \ {0}, NEW q \in Int, NEW x \in 0 .. (d - 1), d * q + x \in Nat
  PROVE  (d * q + x) % d = x
<1> DEFINE n == d * q + x
           p == n \div d
           y == n % d
<1>1. p \in Int /\ y \in 0 .. (d - 1) /\ n = d * p + y
  OBVIOUS
<1>2. d * (p - q) = x - y
  BY <1>1
<1>3. CASE p - q >= 1
  <2>1. d * (p - q) >= d
    BY <1>1, <1>3
  <2> QED
    BY <1>1, <1>2, <2>1
<1>4. CASE p - q <= -1
  <2>1. d * (p - q) <= -d
    BY <1>1, <1>4
  <2> QED
    BY <1>1, <1>2, <2>1
<1>5. CASE p - q = 0
  BY <1>1, <1>2, <1>5
<1> QED
  BY <1>1, <1>3, <1>4, <1>5

(* Two divisions of one number, by w and by a multiple of w: the remainders *)
(* differ by whole multiples of w.                                         *)
LEMMA Remainders ==
  ASSUME NEW w \in Nat \ {0}, NEW k \in Nat \ {0}, NEW q \in Nat, NEW a \in Nat,
         NEW r \in Nat, NEW s \in 0 .. (w - 1),
         r < k * w, (k * w) * q + r = w * a + s
  PROVE  r - s >= 0 /\ r - s + w <= k * w
<1> DEFINE e == a - k * q
<1>1. e \in Int /\ w * e = w * a - w * (k * q) /\ w * (k * q) = (k * w) * q
  OBVIOUS
<1>2. w * e = r - s
  BY <1>1
<1> HIDE DEF e
<1>3. e >= 0
  <2>1. CASE e <= -1
    <3>1. w * e <= -w
      BY <1>1, <2>1
    <3> QED
      BY <1>2, <3>1
  <2> QED
    BY <1>1, <2>1
<1>4. e <= k - 1
  <2>1. CASE e >= k
    <3>1. w * e >= k * w
      BY <1>1, <2>1
    <3> QED
      BY <1>2, <3>1
  <2> QED
    BY <1>1, <2>1
<1>5. w * e >= 0 /\ w * e <= w * (k - 1) /\ w * (k - 1) = k * w - w
  BY <1>1, <1>3, <1>4
<1> QED
  BY <1>2, <1>5

(* An hour of a day: when w divides d, the w-bucket of a moment lies       *)
(* whole inside the moment's d-bucket.                                     *)
LEMMA Nested ==
  ASSUME NEW w \in Nat \ {0}, NEW k \in Nat \ {0}, NEW u \in Nat
  PROVE  /\ (u - (u % w)) - ((u - (u % w)) % (k * w)) = u - (u % (k * w))
         /\ (u - (u % w)) + w <= (u - (u % (k * w))) + k * w
<1> DEFINE d == k * w
           q == u \div d
           r == u % d
           s == u % w
<1>1. d \in Nat \ {0}
  OBVIOUS
<1>2. q \in Nat /\ r \in 0 .. (d - 1) /\ u = d * q + r
  BY <1>1, DivMod
<1>3. s \in 0 .. (w - 1) /\ u \div w \in Nat /\ u = w * (u \div w) + s
  BY DivMod
<1>4. r - s >= 0 /\ r - s + w <= d
  <2>1. s \in 0 .. (w - 1) /\ r \in Nat /\ r < k * w /\ (k * w) * q + r = w * (u \div w) + s
    BY <1>1, <1>2, <1>3
  <2> HIDE DEF q, r, s
  <2>2. r - s >= 0 /\ r - s + w <= k * w
    BY <1>2, <1>3, <2>1, Remainders
  <2> QED
    BY <2>2
<1>5. (u - s) % d = r - s
  <2> HIDE DEF d, q, r, s
  <2>1. s \in Nat /\ r \in Nat /\ r - s \in 0 .. (d - 1)
    BY <1>1, <1>2, <1>3, <1>4
  <2>2. d * q \in Int
    BY <1>1, <1>2
  <2>3. u - s = d * q + (r - s) /\ u - s \in Nat
    BY <1>1, <1>2, <2>1, <2>2
  <2> QED
    BY <1>1, <1>2, <2>1, <2>3, ModUnique
<1> HIDE DEF d, q, r, s
<1>6. (u - s) - ((u - s) % d) = u - r /\ (u - s) + w <= (u - r) + d
  BY <1>1, <1>2, <1>3, <1>4, <1>5
<1> QED
  BY <1>6 DEF d, r, s

(* Every step keeps the types.                                             *)
LEMMA TypeStep == TypeOK /\ [Next]_vars => TypeOK'
<1> SUFFICES ASSUME TypeOK, [Next]_vars
             PROVE  TypeOK'
  OBVIOUS
<1> USE BoundAssumption, PolicyAssumption, TradedAssumption DEF TypeOK, Moment, Stages
<1>1. CASE Tick
  BY <1>1 DEF Tick
<1>2. CASE Crash
  BY <1>2 DEF Crash
<1>3. CASE Mapping
  BY <1>3 DEF Mapping
<1>4. ASSUME NEW t \in Tier, BucketPoll(t) PROVE TypeOK'
  BY <1>4 DEF BucketPoll, Upstream
<1>5. ASSUME NEW t \in Tier, BackfillPass(t) PROVE TypeOK'
  BY <1>5 DEF BackfillPass
<1>6. CASE BackfillStore
  BY <1>6 DEF BackfillStore, Upstream
<1>7. CASE BackfillFail
  BY <1>7 DEF BackfillFail
<1>8. CASE MaintStart
  BY <1>8 DEF MaintStart
<1>9. ASSUME NEW to \in Rolled, Rollup(to) PROVE TypeOK'
  <2>1. Finer[to] \in Tier /\ to \in Tier
    BY DEF Finer, Rolled, Tier
  <2>2. \A b \in Moment : Contribution(to, b) \subseteq Traded
    BY <2>1 DEF Contribution
  <2> QED
    BY <1>9, <2>1, <2>2 DEF Rollup, RolledUp
<1>10. ASSUME NEW t \in Tier, Prune(t) PROVE TypeOK'
  BY <1>10 DEF Prune, Tier
<1>11. CASE MaintAbort
  BY <1>11 DEF MaintAbort
<1>12. CASE CheckDisk
  BY <1>12 DEF CheckDisk
<1>13. CASE UNCHANGED vars
  BY <1>13 DEF vars
<1> QED
  BY <1>1, <1>2, <1>3, <1>4, <1>5, <1>6, <1>7, <1>8, <1>9, <1>10, <1>11, <1>12, <1>13
     DEF Next

-----------------------------------------------------------------------------
(* What a step may do to the rows: the facts every later proof rests on.   *)

(* Only a prune removes a row, and only an expired one of its own tier.    *)
LEMMA OnlyPruneDeletes ==
  ASSUME TypeOK, [Next]_vars, NEW t \in Tier, NEW b \in Moment,
         rows[t][b] # {}, rows'[t][b] = {}
  PROVE  Prune(t) /\ Expired(t, b)
<1> USE DEF TypeOK
<1>1. ASSUME NEW s \in Tier, BucketPoll(s) PROVE FALSE
  BY <1>1 DEF BucketPoll, Moment
<1>2. CASE BackfillStore
  BY <1>2 DEF BackfillStore
<1>3. ASSUME NEW to \in Rolled, Rollup(to) PROVE FALSE
  BY <1>3 DEF Rollup, RolledUp, Rolled, Tier
<1>4. ASSUME NEW s \in Tier, Prune(s) PROVE s = t /\ Expired(t, b)
  BY <1>4 DEF Prune
<1>5. CASE UNCHANGED rows
  BY <1>5
<1> QED
  BY <1>1, <1>2, <1>3, <1>4, <1>5
     DEF Next, vars, Tick, Crash, Mapping, BackfillPass, BackfillFail, MaintStart,
         MaintAbort, CheckDisk

(* A row is young when it enters a tier: no writer reaches further back    *)
(* than Reach from the clock of the latest maintenance run.                *)
LEMMA NewRowsFresh ==
  ASSUME TypeOK, Clock, [Next]_vars, NEW t \in {"5m", "1h"}, NEW b \in Moment,
         rows[t][b] = {}, rows'[t][b] # {}
  PROVE  b + Reach[t] >= maintNow
<1> USE ReachAssumption DEF TypeOK
<1>0. /\ t \in Tier /\ Width[t] \in Nat \ {0} /\ now \in Nat /\ b \in Nat
      /\ Reach[t] \in Nat /\ maintNow <= now /\ maintNow \in Nat
  BY WidthAssumption DEF Tier, Width, Clock, Moment
<1>1. ASSUME NEW s \in Tier, BucketPoll(s) PROVE b + Reach[t] >= maintNow
  <2>1. s = t /\ b = Start(t, now) - Width[t]
    BY <1>1, <1>0 DEF BucketPoll
  <2>2. now < Start(t, now) + Width[t] /\ Start(t, now) \in Nat
    BY <1>0, StartBounds
  <2>3. Reach[t] >= 2 * Width[t]
    OBVIOUS
  <2> QED
    BY <2>1, <2>2, <2>3, <1>0
<1>2. CASE BackfillStore
  <2>1. batch = t /\ b \in Series(t)
    BY <1>2, <1>0 DEF BackfillStore
  <2>2. CASE t \in BackfillSteps
    <3>1. Reach[t] >= Points * Width[t] /\ Points * Width[t] \in Nat
      BY <2>2, <1>0, BoundAssumption
    <3> QED
      BY <2>1, <3>1, <1>0 DEF Series
  <2>3. CASE t \notin BackfillSteps
    BY <2>1, <2>3
  <2> QED
    BY <2>2, <2>3
<1>3. ASSUME NEW to \in Rolled, Rollup(to) PROVE b + Reach[t] >= maintNow
  <2>1. to = t /\ t = "1h" /\ Contribution("1h", b) # {}
    BY <1>3, <1>0 DEF Rollup, RolledUp, Rolled
  <2>2. PICK g \in Moment : g + Window["1h"] >= maintNow /\ Start("1h", g) = b
    BY <2>1 DEF Contribution
  <2>3. g \in Nat /\ g < b + Width["1h"]
    <3>1. g \in Nat /\ "1h" \in Tier
      BY BoundAssumption DEF Tier, Moment
    <3>2. g < Start("1h", g) + Width["1h"]
      BY <3>1, StartBounds
    <3> QED
      BY <3>1, <3>2, <2>2
  <2>4. Width["1h"] = Hour /\ Window["1h"] \in Nat /\ Hour \in Nat
    BY PolicyAssumption, WidthAssumption DEF Width, Tier, Rolled
  <2> QED
    BY <2>1, <2>2, <2>3, <2>4, <1>0
<1>4. ASSUME NEW s \in Tier, Prune(s) PROVE FALSE
  BY <1>4, <1>0 DEF Prune
<1>5. CASE UNCHANGED rows
  BY <1>5
<1> QED
  BY <1>1, <1>2, <1>3, <1>4, <1>5
     DEF Next, vars, Tick, Crash, Mapping, BackfillPass, BackfillFail, MaintStart,
         MaintAbort, CheckDisk

-----------------------------------------------------------------------------
(* The parts of the inductive invariant, one lemma each.                   *)

LEMMA ClockInductive == TypeOK /\ Clock /\ [Next]_vars => Clock'
<1> SUFFICES ASSUME TypeOK, Clock, [Next]_vars
             PROVE  Clock'
  OBVIOUS
<1> USE BoundAssumption DEF TypeOK, Clock
<1>1. CASE Tick
  BY <1>1 DEF Tick
<1>2. CASE MaintStart
  BY <1>2 DEF MaintStart
<1>3. ASSUME NEW to \in Rolled, Rollup(to) PROVE Clock'
  <2>1. /\ now' = now /\ maintNow' = maintNow
        /\ \A r \in Rolled : lastRoll'[r] = IF r = to THEN maintNow ELSE lastRoll[r]
    BY <1>3 DEF Rollup
  <2> QED
    BY <2>1
<1>4. CASE UNCHANGED <<now, maintNow, lastRoll>>
  BY <1>4
<1> QED
  BY <1>1, <1>2, <1>3, <1>4
     DEF Next, vars, Crash, Mapping, BucketPoll, BackfillPass, BackfillStore, BackfillFail,
         Prune, MaintAbort, CheckDisk

LEMMA StageOrderInductive == TypeOK /\ StageOrder /\ [Next]_vars => StageOrder'
<1> SUFFICES ASSUME TypeOK, StageOrder, [Next]_vars
             PROVE  StageOrder'
  OBVIOUS
<1> USE DEF TypeOK, StageOrder, Stages
<1>1. ASSUME stage' = "idle" PROVE StageOrder'
  BY <1>1
<1>2. CASE MaintStart
  BY <1>2 DEF MaintStart
<1>3. ASSUME NEW to \in Rolled, Rollup(to) PROVE StageOrder'
  BY <1>3 DEF Rollup, RollupStage, Rolled
<1>4. ASSUME NEW t \in Tier, Prune(t) PROVE StageOrder'
  BY <1>4 DEF Prune, PruneStage, Tier
<1>5. CASE UNCHANGED <<stage, maintNow, lastRoll>>
  BY <1>5
<1> QED
  BY <1>1, <1>2, <1>3, <1>4, <1>5
     DEF Next, vars, Tick, Crash, Mapping, BucketPoll, BackfillPass, BackfillStore,
         BackfillFail, MaintAbort, CheckDisk

(* The stage is left alone by every step but those of Maintenance and a    *)
(* restart; Trimmed speaks of the two stages that only a prune leads to.   *)
LEMMA TrimmedInductive == TypeOK /\ Clock /\ Trimmed /\ [Next]_vars => Trimmed'
<1> SUFFICES ASSUME TypeOK, Clock, Trimmed, [Next]_vars
             PROVE  Trimmed'
  OBVIOUS
<1> DEFINE Live(t) == \A b \in Moment : rows[t][b] # {} => ~Expired(t, b)
<1>1. /\ "5m" \in Tier /\ "1h" \in Tier /\ Keep \in [Tier -> Nat] /\ Moment \subseteq Nat
      /\ maintNow \in Nat
      /\ \A t \in {"5m", "1h"} : Reach[t] \in Nat /\ (Keep[t] > 0 => Keep[t] >= Reach[t])
  BY PolicyAssumption, BoundAssumption, ReachAssumption, KeepAssumption
     DEF Tier, Moment, TypeOK
<1>2. ASSUME NEW t \in {"5m", "1h"}, Live(t), maintNow' = maintNow PROVE Live(t)'
  <2> SUFFICES ASSUME NEW b \in Moment, rows'[t][b] # {} PROVE ~Expired(t, b)'
    OBVIOUS
  <2>1. CASE rows[t][b] # {}
    BY <1>2, <2>1 DEF Expired
  <2>2. CASE rows[t][b] = {}
    <3>1. b + Reach[t] >= maintNow
      BY <2>2, NewRowsFresh
    <3> QED
      BY <3>1, <1>1, <1>2 DEF Expired
  <2> QED
    BY <2>1, <2>2
<1>3. ASSUME NEW t \in {"5m", "1h"}, Prune(t) PROVE Live(t)'
  BY <1>1, <1>3 DEF Prune, Expired, TypeOK
<1>4. CASE stage' = stage /\ maintNow' = maintNow
  BY <1>2, <1>4 DEF Trimmed
<1>5. CASE stage' \notin {"prune1h", "prune24h"}
  BY <1>5 DEF Trimmed
<1>6. CASE Prune("5m")
  BY <1>3, <1>6 DEF Trimmed, Prune
<1>7. CASE Prune("1h")
  <2>1. stage = "prune1h" /\ stage' = "prune24h" /\ maintNow' = maintNow
    BY <1>7 DEF Prune, PruneStage
  <2> QED
    BY <2>1, <1>2, <1>3, <1>7 DEF Trimmed
<1>8. CASE Prune("24h")
  BY <1>8, <1>5 DEF Prune
<1>9. ASSUME NEW to \in Rolled, Rollup(to) PROVE Trimmed'
  BY <1>9, <1>5 DEF Rollup
<1> QED
  BY <1>4, <1>5, <1>6, <1>7, <1>8, <1>9
     DEF Next, vars, Tier, Tick, Crash, Mapping, BucketPoll, BackfillPass, BackfillStore,
         BackfillFail, MaintStart, MaintAbort, CheckDisk

LEMMA AbsorbedInductive == IInv /\ [Next]_vars => Absorbed'
<1> SUFFICES ASSUME IInv, [Next]_vars,
                    NEW to \in Rolled, NEW f \in Moment, rows'[Finer[to]][f] # {}
             PROVE  \/ rows'[to][Start(to, f)] # {}
                    \/ f + Reach[Finer[to]] >= lastRoll'[to]
  BY DEF Absorbed
<1> DEFINE t == Finer[to]
           c == Start(to, f)
<1>1. /\ t \in {"5m", "1h"} /\ t \in Tier /\ to \in Tier /\ f \in Nat /\ Reach[t] \in Nat
      /\ lastRoll[to] \in Nat /\ maintNow \in Nat /\ now \in Nat /\ lastRoll[to] <= maintNow
      /\ maintNow <= now /\ now <= lastRoll[to] + MaxGap /\ MaxGap \in Nat
      /\ Window[to] \in Nat /\ Window[to] >= Reach[t] + MaxGap
  BY BoundAssumption, ReachAssumption, WindowAssumption, PolicyAssumption
     DEF Finer, Rolled, Tier, Moment, IInv, TypeOK, Clock
<1>2. c \in Moment
  BY <1>1, StartBounds, BoundAssumption DEF Moment
<1>3. lastRoll'[to] \in {lastRoll[to], maintNow}
      /\ (lastRoll'[to] # lastRoll[to] => Rollup(to))
  BY <1>1 DEF Next, vars, IInv, TypeOK, Tick, Crash, Mapping, BucketPoll, BackfillPass,
     BackfillStore, BackfillFail, MaintStart, Rollup, Prune, MaintAbort, CheckDisk
<1>4. CASE rows[t][f] = {}
  <2>1. f + Reach[t] >= maintNow
    BY <1>1, <1>4, NewRowsFresh DEF IInv
  <2> QED
    BY <2>1, <1>1, <1>3
<1>5. CASE rows[t][f] # {} /\ rows[to][c] # {}
  <2>1. ASSUME rows'[to][c] = {} PROVE FALSE
    <3>1. Prune(to) /\ Expired(to, c)
      BY <1>1, <1>2, <1>5, <2>1, OnlyPruneDeletes DEF IInv
    <3>2. Keep[t] > 0 /\ Keep[to] >= Keep[t] + Width[to] /\ Keep[t] \in Nat /\ Keep[to] \in Nat
      BY <3>1, <1>1, KeepAssumption, PolicyAssumption DEF Expired
    <3>3. ~Expired(t, f)
      BY <3>1, <1>5 DEF Prune, PruneStage, IInv, Trimmed, Finer, Rolled
    <3>4. f < c + Width[to] /\ c \in Nat /\ Width[to] \in Nat
      BY <1>1, StartBounds
    <3> QED
      BY <3>1, <3>2, <3>3, <3>4, <1>1 DEF Expired
  <2> QED
    BY <2>1
<1>6. CASE rows[t][f] # {} /\ f + Reach[t] >= lastRoll[to]
  <2>1. CASE lastRoll'[to] = lastRoll[to]
    BY <2>1, <1>6
  <2>2. CASE Rollup(to)
    <3>1. f + Window[to] >= maintNow
      BY <1>1, <1>6
    <3>2. rows[t][f] \subseteq Contribution(to, c)
      BY <3>1 DEF Contribution
    <3>3. rows'[to][c] = IF rows[to][c] = {} THEN Contribution(to, c) ELSE rows[to][c]
      BY <2>2, <1>1, <1>2 DEF Rollup, RolledUp, IInv, TypeOK
    <3> QED
      BY <3>2, <3>3, <1>6
  <2> QED
    BY <2>1, <2>2, <1>3
<1> QED
  BY <1>4, <1>5, <1>6 DEF IInv, Absorbed

-----------------------------------------------------------------------------
(* The theorems.                                                           *)

(* The archive never drifts out of the state in which every row of a finer *)
(* tier is either absorbed or still within reach of the next rollup        *)
(* (Maintenance, Rollup, Prune, with polls and backfill in between).       *)
THEOREM ArchiveInvariant == Spec => []IInv
<1>1. Init => IInv
  <2> SUFFICES ASSUME Init PROVE IInv
    OBVIOUS
  <2>1. TypeOK
    <3>1. rows \in [Tier -> [Moment -> SUBSET Traded]] /\ lastRoll \in [Rolled -> Nat]
         /\ rolledAt \in [Rolled -> Nat]
      BY DEF Init
    <3> QED
      BY <3>1 DEF Init, TypeOK, Stages
  <2>2. Clock /\ StageOrder /\ Trimmed
    BY BoundAssumption DEF Init, Clock, StageOrder, Trimmed
  <2>3. Absorbed
    BY DEF Init, Absorbed, Finer, Rolled, Tier
  <2> QED
    BY <2>1, <2>2, <2>3 DEF IInv
<1>2. IInv /\ [Next]_vars => IInv'
  <2>1. TypeOK /\ [Next]_vars => TypeOK'
    BY TypeStep
  <2> QED
    BY <2>1, ClockInductive, StageOrderInductive, TrimmedInductive, AbsorbedInductive DEF IInv
<1> QED
  BY <1>1, <1>2, PTL DEF Spec

(* Prune never deletes a row whose coarser bucket is not stored, however   *)
(* polls, backfill, aborted runs and restarts interleave with it.          *)
LEMMA DeletedAbsorbedStep ==
  ASSUME IInv, [Next]_vars, NEW to \in Rolled, NEW f \in Moment,
         rows[Finer[to]][f] # {}, rows'[Finer[to]][f] = {}
  PROVE  rows'[to][Start(to, f)] # {}
<1> DEFINE t == Finer[to]
<1>1. /\ t \in {"5m", "1h"} /\ t \in Tier /\ to \in Tier /\ to # t /\ f \in Nat
      /\ Reach[t] \in Nat /\ Keep[t] \in Nat /\ maintNow \in Nat
      /\ (Keep[t] > 0 => Keep[t] >= Reach[t])
  BY BoundAssumption, ReachAssumption, KeepAssumption, PolicyAssumption
     DEF Finer, Rolled, Tier, Moment, IInv, TypeOK
<1>2. Prune(t) /\ Expired(t, f)
  BY <1>1, OnlyPruneDeletes DEF IInv
<1>3. rows'[to] = rows[to]
  BY <1>1, <1>2 DEF Prune, IInv, TypeOK
<1>4. lastRoll[to] = maintNow
  BY <1>2 DEF Prune, PruneStage, IInv, StageOrder, Stages, Finer, Rolled
<1>5. ~(f + Reach[t] >= lastRoll[to])
  BY <1>1, <1>2, <1>4 DEF Expired
<1> QED
  BY <1>3, <1>5 DEF IInv, Absorbed

THEOREM NothingDeletedUnabsorbed == Spec => DeletedOnlyIfAbsorbed
<1>1. IInv /\ [Next]_vars
      => [\A to \in Rolled, f \in Moment :
            rows[Finer[to]][f] # {} /\ rows'[Finer[to]][f] = {}
            => rows'[to][Start(to, f)] # {}]_vars
  BY DeletedAbsorbedStep
<1> QED
  BY <1>1, ArchiveInvariant, PTL DEF Spec, DeletedOnlyIfAbsorbed
-----------------------------------------------------------------------------
(* Soundness of the rows.  On its own RowsSound is not inductive: a rollup *)
(* carries a whole finer row into the coarser bucket of its start, which   *)
(* holds all of its trades only because rows lie at aligned starts.        *)
RowsAligned == \A t \in Tier, b \in Moment : rows[t][b] # {} => b = Start(t, b)

LEMMA FinerNested ==
  ASSUME NEW to \in Rolled, NEW f \in Nat
  PROVE  LET s == Start(Finer[to], f) IN
         /\ Start(to, s) = Start(to, f)
         /\ Start(to, f) <= s
         /\ s + Width[Finer[to]] <= Start(to, f) + Width[to]
<1> DEFINE t == Finer[to]
           s == Start(t, f)
<1>1. PICK w \in Nat \ {0}, k \in Nat \ {0} : Width[t] = w /\ Width[to] = k * w
  <2>1. CASE to = "1h"
    <3>1. Width[t] = 1 /\ Width[to] = Hour /\ Hour = Hour * 1
      BY <2>1, WidthAssumption DEF Width, Tier, Finer, Rolled
    <3> QED
      BY <3>1, WidthAssumption
  <2>2. CASE to = "24h"
    <3>1. Width[t] = Hour /\ Width[to] = Day
      BY <2>2 DEF Width, Tier, Finer, Rolled
    <3> QED
      BY <3>1, WidthAssumption, NestingAssumption
  <2> QED
    BY <2>1, <2>2 DEF Rolled
<1>2. /\ (f - (f % w)) - ((f - (f % w)) % (k * w)) = f - (f % (k * w))
      /\ (f - (f % w)) + w <= (f - (f % (k * w))) + k * w
  BY Nested
<1>3. Start(to, s) = Start(to, f) /\ s + Width[t] <= Start(to, f) + Width[to]
  BY <1>1, <1>2 DEF Start
<1>4. t \in Tier /\ to \in Tier
  BY DEF Finer, Rolled, Tier
<1>5. s \in Nat
  BY <1>4, StartBounds
<1>6. Start(to, s) <= s
  BY <1>4, <1>5, StartBounds
<1> QED
  BY <1>3, <1>6

(* A bucket's start is aligned, and so is the one a width before it.       *)
LEMMA StartAligned ==
  ASSUME NEW t \in Tier, NEW u \in Nat
  PROVE  /\ Start(t, Start(t, u)) = Start(t, u)
         /\ Start(t, u) >= Width[t] => /\ Start(t, u) - Width[t] \in Nat
                                       /\ Start(t, Start(t, u) - Width[t]) = Start(t, u) - Width[t]
<1>1. PICK w \in Nat \ {0} : Width[t] = w
  BY StartBounds
<1> DEFINE q == u \div w
<1>2. q \in Nat /\ u % w \in 0 .. (w - 1) /\ u = w * q + (u % w)
  BY DivMod
<1>3. Start(t, u) = w * q
  BY <1>1, <1>2 DEF Start
<1>4. \A p \in Nat : (w * p) % w = 0
  <2> TAKE p \in Nat
  <2>1. (w * p + 0) % w = 0 /\ w * p \in Nat
    BY ModUnique
  <2> QED
    BY <2>1
<1> HIDE DEF q
<1>5. Start(t, Start(t, u)) = Start(t, u)
  <2>1. (w * q) % w = 0 /\ w * q \in Int
    BY <1>2, <1>4
  <2>2. Start(t, w * q) = (w * q) - ((w * q) % w)
    BY <1>1 DEF Start
  <2> QED
    BY <1>3, <2>1, <2>2
<1>6. ASSUME Start(t, u) >= Width[t]
      PROVE  /\ Start(t, u) - Width[t] \in Nat
             /\ Start(t, Start(t, u) - Width[t]) = Start(t, u) - Width[t]
  <2>1. q >= 1
    <3>1. w * 0 = 0
      OBVIOUS
    <3> QED
      BY <1>1, <1>2, <1>3, <1>6, <3>1
  <2>2. q - 1 \in Nat /\ w * q - w = w * (q - 1) /\ w * (q - 1) \in Nat
    BY <1>2, <2>1
  <2>3. (w * (q - 1)) % w = 0
    BY <1>4, <2>2
  <2> QED
    BY <1>1, <1>3, <2>2, <2>3 DEF Start
<1> QED
  BY <1>5, <1>6

SoundInv == TypeOK /\ maintNow <= now /\ RowsAligned /\ RowsSound

(* What a writer may put into a row, and where: the one fact about the     *)
(* steps that soundness needs.                                             *)
LEMMA SoundWrites ==
  ASSUME SoundInv, [Next]_vars, NEW t \in Tier, NEW b \in Moment,
         rows'[t][b] # {}, rows'[t][b] # rows[t][b]
  PROVE  /\ b = Start(t, b)
         /\ rows'[t][b] \subseteq Upstream(t, b) \cap Closed
         /\ rows[t][b] = {} \/ rows'[t][b] = Upstream(t, b)
         /\ rows'[t][b] = Upstream(t, b) \/ (t \in Rolled /\ Rollup(t))
<1> USE DEF SoundInv, TypeOK
<1>0. b \in Nat /\ now \in Nat /\ Width[t] \in Nat \ {0} /\ Moment \subseteq Nat
  <2>1. b \in Nat /\ now \in Nat /\ Moment \subseteq Nat
    BY BoundAssumption DEF Moment
  <2> QED
    BY <2>1, StartBounds
<1>6. ASSUME b + Width[t] <= now PROVE Upstream(t, b) \subseteq Closed
  BY <1>6, <1>0, TradedAssumption DEF Upstream, Span, Closed
<1>1. ASSUME NEW s \in Tier, BucketPoll(s)
      PROVE  b = Start(t, b) /\ rows'[t][b] = Upstream(t, b) /\ b + Width[t] <= now
  <2>1. s = t /\ b = Start(t, now) - Width[t] /\ Start(t, now) >= Width[t]
        /\ rows'[t][b] = Upstream(t, b)
    BY <1>1 DEF BucketPoll
  <2>2. b = Start(t, b)
    BY <2>1, <1>0, StartAligned
  <2>3. Start(t, now) <= now /\ Start(t, now) \in Nat
    BY <1>0, StartBounds
  <2> QED
    BY <2>1, <2>2, <2>3, <1>0
<1>2. CASE BackfillStore
  <2>1. /\ batch = t /\ b \in Series(t) /\ rows[t][b] = {} /\ rows'[t][b] = Upstream(t, b)
    BY <1>2 DEF BackfillStore
  <2>2. b = Start(t, b) /\ b + Width[t] <= now
    BY <2>1 DEF Series
  <2>3. Upstream(t, b) \subseteq Closed
    BY <2>2, <1>6
  <2> QED
    BY <2>1, <2>2, <2>3
<1>3. ASSUME NEW to \in Rolled, Rollup(to)
      PROVE  /\ b = Start(t, b)
             /\ rows'[t][b] \subseteq Upstream(t, b) \cap Closed
             /\ rows[t][b] = {}
             /\ to = t
  <2>1. to = t /\ rows[t][b] = {} /\ rows'[t][b] = Contribution(t, b) /\ t \in Rolled
    BY <1>3 DEF Rollup, RolledUp
  <2>2. Finer[t] \in Tier
    BY <2>1 DEF Finer, Rolled, Tier
  <2>3. ASSUME NEW g \in Moment, Start(t, g) = b, rows[Finer[t]][g] # {}
        PROVE  /\ b = Start(t, b)
               /\ rows[Finer[t]][g] \subseteq Upstream(t, b) \cap Closed
    <3>1. g \in Nat /\ g = Start(Finer[t], g)
      BY <2>2, <2>3, <1>0 DEF RowsAligned
    <3>2. /\ b = Start(t, b) /\ b <= g /\ g + Width[Finer[t]] <= b + Width[t]
          /\ Width[Finer[t]] \in Nat
      BY <2>1, <2>2, <2>3, <3>1, FinerNested, StartAligned, StartBounds
    <3>3. Span(Finer[t], g) \subseteq Span(t, b)
      BY <3>1, <3>2, <1>0 DEF Span
    <3> QED
      BY <2>2, <3>2, <3>3 DEF RowsSound, Upstream
  <2> QED
    BY <2>1, <2>3 DEF Contribution
<1>4. ASSUME NEW s \in Tier, Prune(s) PROVE FALSE
  BY <1>4 DEF Prune
<1>5. ASSUME UNCHANGED rows PROVE FALSE
  BY <1>5
<1> QED
  BY <1>1, <1>2, <1>3, <1>4, <1>5, <1>6
     DEF Next, vars, Tick, Crash, Mapping, BackfillPass, BackfillFail, MaintStart,
         MaintAbort, CheckDisk

LEMMA SoundStep == SoundInv /\ [Next]_vars => SoundInv'
<1> SUFFICES ASSUME SoundInv, [Next]_vars
             PROVE  SoundInv'
  OBVIOUS
<1> USE BoundAssumption DEF SoundInv
<1>1. TypeOK'
  BY TypeStep
<1>2. maintNow' <= now' /\ now <= now' /\ now \in Nat /\ now' \in Nat
  BY <1>1 DEF Next, vars, TypeOK, Tick, Crash, Mapping, BucketPoll, BackfillPass, BackfillStore,
         BackfillFail, MaintStart, Rollup, Prune, MaintAbort, CheckDisk
<1>3. RowsAligned'
  <2> SUFFICES ASSUME NEW t \in Tier, NEW b \in Moment, rows'[t][b] # {}
               PROVE  b = Start(t, b)
    BY DEF RowsAligned, Start
  <2> QED
    BY SoundWrites DEF RowsAligned
<1>4. RowsSound'
  <2> SUFFICES ASSUME NEW t \in Tier, NEW b \in Moment
               PROVE  rows'[t][b] \subseteq Upstream(t, b) \cap Closed'
    BY DEF RowsSound
  <2>1. rows[t][b] \subseteq Upstream(t, b) \cap Closed
    BY DEF RowsSound
  <2>2. rows'[t][b] \subseteq Upstream(t, b) \cap Closed
    BY <2>1, SoundWrites
  <2>3. ASSUME NEW u \in Traded, u < now PROVE u < now'
    <3>1. u \in Nat /\ now \in Nat /\ now' \in Nat /\ now <= now'
      BY <1>2, TradedAssumption
    <3> QED
      BY <3>1, <2>3
  <2>4. Closed \subseteq Closed'
    BY <2>3 DEF Closed
  <2> QED
    BY <2>2, <2>4
<1> QED
  BY <1>1, <1>2, <1>3, <1>4

LEMMA SoundInvariant == Spec => []SoundInv
<1>1. Init => SoundInv
  <2> SUFFICES ASSUME Init PROVE SoundInv
    OBVIOUS
  <2>1. TypeOK
    <3>1. rows \in [Tier -> [Moment -> SUBSET Traded]] /\ lastRoll \in [Rolled -> Nat]
         /\ rolledAt \in [Rolled -> Nat]
      BY DEF Init
    <3> QED
      BY <3>1 DEF Init, TypeOK, Stages
  <2>2. \A t \in Tier, b \in Moment : rows[t][b] = {}
    BY DEF Init
  <2> QED
    BY <2>1, <2>2 DEF SoundInv, RowsAligned, RowsSound, Init
<1> QED
  BY <1>1, SoundStep, PTL DEF Spec

(* No schedule of polls, backfill, rollups of a still open bucket and      *)
(* restarts stores a row that summarises trades outside its own bucket.    *)
THEOREM RowsAlwaysSound == Spec => []RowsSound
<1>1. SoundInv => RowsSound
  BY DEF SoundInv
<1> QED
  BY <1>1, SoundInvariant, PTL

(* A row that stays stored never loses a contribution (UpsertBucket's      *)
(* overwrite, Rollup's and UpsertTimeseries' DO NOTHING).                  *)
THEOREM NoContributionLost == Spec => ContributionsKept
<1>1. SoundInv /\ [Next]_vars
      => [\A t \in Tier, b \in Moment :
            rows[t][b] # {} /\ rows'[t][b] # {} => rows[t][b] \subseteq rows'[t][b]]_vars
  <2> SUFFICES ASSUME SoundInv, [Next]_vars, NEW t \in Tier, NEW b \in Moment,
                      rows[t][b] # {}, rows'[t][b] # {}
               PROVE  rows[t][b] \subseteq rows'[t][b]
    OBVIOUS
  <2>1. CASE rows'[t][b] = Upstream(t, b)
    BY <2>1 DEF SoundInv, RowsSound
  <2>2. CASE rows'[t][b] = rows[t][b]
    BY <2>2
  <2> QED
    BY <2>1, <2>2, SoundWrites
<1> QED
  BY <1>1, SoundInvariant, PTL DEF Spec, ContributionsKept
-----------------------------------------------------------------------------
(* A missed coarse poll is made good by the first rollup since the bucket  *)
(* had any closed part: until then the row is as upstream reported it or   *)
(* not there, and what the rollup unites is all that upstream reported,    *)
(* since every moment of the bucket lies in one finer bucket, which lies   *)
(* whole in the bucket and in the window.                                  *)
Untouched ==
  \A to \in Rolled, b \in Moment : rolledAt[to] <= b => rows[to][b] \in {{}, Upstream(to, b)}

ReachedInv == SoundInv /\ now <= MaxTime /\ Untouched

(* A moment within an aligned bucket has that bucket as its own.           *)
LEMMA StartOfMoment ==
  ASSUME NEW t \in Tier, NEW b \in Nat, b = Start(t, b), NEW u \in Nat,
         b <= u, u < b + Width[t]
  PROVE  Start(t, u) = b
<1>1. PICK w \in Nat \ {0} : Width[t] = w
  BY StartBounds
<1> DEFINE q == b \div w
           r == u - b
<1>2. q \in Nat /\ b % w \in 0 .. (w - 1) /\ b = w * q + (b % w)
  BY DivMod
<1>3. b % w = 0 /\ b = w * q
  BY <1>1, <1>2 DEF Start
<1>4. r \in 0 .. (w - 1) /\ u = w * q + r
  BY <1>1, <1>3
<1> HIDE DEF q, r
<1>5. (w * q + r) % w = r
  BY <1>2, <1>4, ModUnique
<1> QED
  BY <1>1, <1>3, <1>4, <1>5 DEF Start

LEMMA ReachedStep == ReachedInv /\ [Next]_vars => ReachedInv'
<1> SUFFICES ASSUME ReachedInv, [Next]_vars
             PROVE  (now <= MaxTime)' /\ Untouched'
  BY SoundStep DEF ReachedInv
<1> USE BoundAssumption DEF ReachedInv, SoundInv, TypeOK
<1>1. (now <= MaxTime)'
  <2>1. CASE Tick
    BY <2>1 DEF Tick
  <2>2. CASE now' = now
    BY <2>2
  <2> QED
    BY <2>1, <2>2
       DEF Next, vars, Crash, Mapping, BucketPoll, BackfillPass, BackfillStore, BackfillFail,
           MaintStart, Rollup, Prune, MaintAbort, CheckDisk
<1>2. Untouched'
  <2> SUFFICES ASSUME NEW to \in Rolled, NEW b \in Moment, rolledAt'[to] <= b
               PROVE  rows'[to][b] \in {{}, Upstream(to, b)}
    BY DEF Untouched, Upstream, Span
  <2>1. to \in Tier /\ b \in Nat /\ now \in Nat
    BY DEF Rolled, Tier, Moment
  <2>2. CASE Rollup(to)
    <3>1. now <= b
      BY <2>2 DEF Rollup
    <3>2. rows'[to][b] \subseteq Upstream(to, b) \cap Closed
      BY <2>1, SoundWrites DEF RowsSound
    <3>3. Upstream(to, b) \cap Closed = {}
      BY <2>1, <3>1, StartBounds, TradedAssumption DEF Upstream, Span, Closed
    <3> QED
      BY <3>2, <3>3
  <2>3. CASE ~Rollup(to)
    <3>1. rolledAt'[to] = rolledAt[to]
      <4>1. ASSUME NEW s \in Rolled, Rollup(s) PROVE rolledAt'[to] = rolledAt[to]
        BY <2>3, <4>1 DEF Rollup
      <4> QED
        BY <4>1 DEF Next, vars, Tick, Crash, Mapping, BucketPoll, BackfillPass, BackfillStore,
           BackfillFail, MaintStart, Prune, MaintAbort, CheckDisk
    <3>2. rows[to][b] \in {{}, Upstream(to, b)}
      BY <3>1 DEF Untouched
    <3> QED
      BY <2>1, <2>3, <3>2, SoundWrites
  <2> QED
    BY <2>2, <2>3
<1> QED
  BY <1>1, <1>2

LEMMA ReconstructStep ==
  ASSUME ReachedInv, [Next]_vars, NEW to \in Rolled, NEW b \in Moment,
         stage = RollupStage(to), lastRoll' # lastRoll, rolledAt[to] <= b,
         Reconstructible(to, b)
  PROVE  rows'[to][b] = Upstream(to, b)
<1> USE DEF Reconstructible
<1> DEFINE t == Finer[to]
<1>0. /\ t \in Tier /\ to \in Tier /\ b \in Nat /\ maintNow \in Nat /\ now \in Nat
      /\ MaxTime \in Nat /\ Window[to] \in Nat /\ maintNow <= now /\ now <= MaxTime
      /\ Width[to] \in Nat
  <2>1. t \in Tier /\ to \in Tier
    BY DEF Finer, Rolled, Tier
  <2>2. Width[to] \in Nat
    BY <2>1, StartBounds
  <2> QED
    BY <2>1, <2>2, BoundAssumption, PolicyAssumption DEF Moment, ReachedInv, SoundInv, TypeOK
<1>1. Rollup(to)
  <2>1. \E s \in Rolled : Rollup(s)
    BY DEF Next, vars, Tick, Crash, Mapping, BucketPoll, BackfillPass, BackfillStore,
       BackfillFail, MaintStart, Prune, MaintAbort, CheckDisk
  <2> QED
    BY <2>1 DEF Rollup, RollupStage, Rolled
<1>2. rows'[to][b] = IF rows[to][b] = {} THEN Contribution(to, b) ELSE rows[to][b]
  BY <1>0, <1>1 DEF Rollup, RolledUp, ReachedInv, SoundInv, TypeOK
<1>3. rows[to][b] \in {{}, Upstream(to, b)}
  BY DEF ReachedInv, Untouched
<1>5. rows'[to][b] \subseteq Upstream(to, b)
  <2>1. RowsSound'
    BY SoundStep DEF ReachedInv, SoundInv
  <2> QED
    BY <2>1, <1>0 DEF RowsSound, Upstream, Span
<1>4. ASSUME NEW u \in Upstream(to, b) PROVE u \in Contribution(to, b)
  <2> DEFINE f == Start(t, u)
  <2>1. u \in Traded /\ u \in Nat /\ b <= u /\ u < b + Width[to]
    BY <1>0, TradedAssumption DEF Upstream, Span
  <2>2. /\ f \in Nat /\ f <= u /\ u < f + Width[t] /\ Width[t] \in Nat /\ f = Start(t, f)
    BY <1>0, <2>1, StartBounds, StartAligned
  <2>3. Start(to, f) = b
    BY <1>0, <2>1, StartOfMoment, FinerNested
  <2>4. b <= f
    BY <2>2, <2>3, <1>0, StartBounds
  <2>5. f \in Moment /\ f + Window[to] >= maintNow
    BY <1>0, <2>1, <2>2, <2>4 DEF Moment
  <2>6. rows[t][f] = Upstream(t, f)
    BY <2>2, <2>3, <2>5 DEF Captured
  <2>7. u \in Upstream(t, f)
    BY <2>1, <2>2 DEF Upstream, Span
  <2> QED
    BY <2>3, <2>5, <2>6, <2>7 DEF Contribution
<1> QED
  BY <1>2, <1>3, <1>4, <1>5

(* Rollup makes good a missed poll of a coarse bucket: when every finer    *)
(* row of it was captured, the bucket is whole and inside the window, and  *)
(* no rollup ran since its first 5m bucket closed, the row is afterwards   *)
(* what upstream would have said.                                          *)
THEOREM MissedPollsMadeGood == Spec => RollupReconstructs
<1>1. Init => now <= MaxTime /\ Untouched
  BY BoundAssumption DEF Init, Untouched, Rolled, Tier
<1>2. ReachedInv /\ [Next]_vars => (now <= MaxTime)' /\ Untouched'
  BY ReachedStep DEF ReachedInv
<1>3. Spec => []ReachedInv
  BY <1>1, <1>2, SoundInvariant, PTL DEF Spec, ReachedInv
<1>4. ReachedInv /\ [Next]_vars
      => [\A to \in Rolled, b \in Moment :
            stage = RollupStage(to) /\ lastRoll' # lastRoll /\ rolledAt[to] <= b
            /\ Reconstructible(to, b)
            => rows'[to][b] = Upstream(to, b)]_vars
  BY ReconstructStep
<1> QED
  BY <1>3, <1>4, PTL DEF Spec, RollupReconstructs
-----------------------------------------------------------------------------
(* The archive implements HistoryLog: a moment covered by a row that is    *)
(* pruned is covered, in the same step, by the coarser row that absorbed   *)
(* it (Maintenance's order, Rollup, Prune).                                *)
THEOREM ArchiveKeepsHistory == Spec => HistoryKept
<1>1. Init => Covered = {}
  <2> SUFFICES ASSUME Init, NEW u \in Moment, NEW t \in Tier
               PROVE  rows[t][Start(t, u)] = {}
    BY DEF Covered
  <2>1. Start(t, u) \in Moment
    BY StartBounds, BoundAssumption DEF Moment
  <2> QED
    BY <2>1 DEF Init
<1>2. IInv /\ [Next]_vars => Covered \subseteq Covered'
  <2> SUFFICES ASSUME IInv, [Next]_vars, NEW u \in Moment, NEW t \in Tier,
                      rows[t][Start(t, u)] # {}
               PROVE  \E s \in Tier : rows'[s][Start(s, u)] # {}
    BY DEF Covered, Start
  <2> DEFINE f == Start(t, u)
  <2>1. u \in Nat /\ f \in Moment
    BY StartBounds, BoundAssumption DEF Moment
  <2>2. CASE rows'[t][f] # {}
    BY <2>2
  <2>3. CASE rows'[t][f] = {}
    <3>1. Expired(t, f)
      BY <2>1, <2>3, OnlyPruneDeletes DEF IInv
    <3>2. t # "24h"
      BY <3>1, ForeverAssumption DEF Expired
    <3>3. PICK to \in Rolled : t = Finer[to]
      BY <3>2 DEF Tier, Rolled, Finer
    <3>4. rows'[to][Start(to, f)] # {}
      BY <2>1, <2>3, <3>3, DeletedAbsorbedStep
    <3>5. Start(to, f) = Start(to, u)
      BY <2>1, <3>3, FinerNested
    <3> QED
      BY <3>4, <3>5 DEF Rolled, Tier
  <2> QED
    BY <2>2, <2>3
<1>3. Covered = {} => History!Init
  BY DEF History!Init
<1>4. Covered \subseteq Covered' => [History!Record]_Covered
  BY DEF History!Record
<1> QED
  BY <1>1, <1>2, <1>3, <1>4, ArchiveInvariant, PTL DEF Spec, HistoryKept, History!Spec
=============================================================================
