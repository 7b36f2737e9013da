---------------------------- MODULE NightlySchedule ----------------------------
(***************************************************************************)
(* maintenanceLoop (internal/ingest/ingest.go): one select over the disk   *)
(* ticker and a timer for the next 03:17.  The timer is made anew on every *)
(* turn of the loop, from the time that turn begins, and the disk guard it *)
(* interleaves with decides whether the nightly run is skipped.            *)
(*                                                                         *)
(* Time is in ticks of a day: `clock` is the time of day.                  *)
(***************************************************************************)
EXTENDS Naturals

CONSTANTS
  Day,        \* ticks in a day
  Night,      \* 03:17
  DiskEvery,  \* the ticker's period; divides a day, as five minutes do
  MaxCheck,   \* the longest a statfs takes
  MaxNight,   \* the longest a nightly run takes
  TickAt,     \* offsets the ticker may have, which is when the process started
  MaxDay      \* bound on the clock

ASSUME NightlyAssumption ==
  /\ Day \in Nat \ {0} /\ Night \in 0 .. Day - 1
  /\ DiskEvery \in Nat \ {0} /\ Day % DiskEvery = 0
  /\ MaxCheck \in Nat /\ MaxNight \in Nat /\ MaxDay \in Nat
  /\ TickAt \subseteq 0 .. DiskEvery - 1

VARIABLES
  day, clock,
  tickAt,    \* the ticker's offset
  diskDue,   \* the ticker's channel, which holds one tick
  turn,      \* "select", "check", "job"
  busy,      \* ticks spent in the check or the run
  timer,     \* the day whose 03:17 the timer is for
  low,       \* the disk is below the floor
  paused,    \* Ingester.paused
  had,       \* history: the last day whose nightly run began or was skipped
  unchecked, \* history: ticks since statfs was last tried
  steady     \* history: ticks since the disk crossed the floor or a statfs failed

nightlyVars == <<day, clock, tickAt, diskDue, turn, busy, timer, low, paused, had, unchecked, steady>>

NightlyTypeOK ==
  /\ day \in Nat /\ clock \in 0 .. Day - 1
  /\ tickAt \in TickAt /\ diskDue \in BOOLEAN
  /\ turn \in {"select", "check", "job"}
  /\ busy \in 0 .. (IF turn = "check" THEN MaxCheck ELSE MaxNight)
  /\ timer \in {day, day + 1} /\ low \in BOOLEAN /\ paused \in BOOLEAN
  /\ had \in 0..day /\ unchecked \in Nat /\ steady \in Nat

(* A period, a check and a nightly run; `steady` counts no further.        *)
Blind == DiskEvery + MaxCheck + MaxNight

NextNight_Tomorrow == day + 1      \* a bug: 24 hours are always added

(* untilNextNightly: today's 03:17 if it is still ahead.                   *)
NextNight == IF clock < Night THEN day ELSE day + 1

(* The loop's first turn, after its first look at the disk, which may      *)
(* fail; a day whose 03:17 has gone is not asked for.                      *)
NightlyInit ==
  /\ day = 1 /\ clock \in 0 .. Day - 1
  /\ tickAt \in TickAt /\ tickAt = clock % DiskEvery
  /\ diskDue = FALSE /\ turn = "select" /\ busy = 0
  /\ timer = NextNight
  /\ low \in BOOLEAN /\ paused \in {low, FALSE}
  /\ had = IF clock < Night THEN 0 ELSE 1
  /\ unchecked = 0 /\ steady = 0

NightDue == day > timer \/ (day = timer /\ clock >= Night)

(* Both channels may be ready: select takes either.                        *)
TakeDisk ==
  /\ turn = "select" /\ diskDue
  /\ diskDue' = FALSE /\ turn' = "check" /\ busy' = 0
  /\ UNCHANGED <<day, clock, tickAt, timer, low, paused, had, unchecked, steady>>

(* A statfs that fails leaves the guard as it was.  With a floor of 0 the  *)
(* code looks at nothing; that is a disk that is never low.                *)
CheckDisk ==
  /\ unchecked' = 0
  /\ \/ paused' = low /\ UNCHANGED steady
     \/ UNCHANGED paused /\ steady' = 0

(* The loop's next turn stops the old timer and makes a new one.           *)
NextTurn == turn' = "select" /\ busy' = 0 /\ timer' = NextNight

EndCheck_NotPaused ==              \* a bug: a pause skips the check like any other job
  /\ turn = "check"
  /\ NextTurn
  /\ IF paused THEN UNCHANGED <<paused, unchecked, steady>> ELSE CheckDisk
  /\ UNCHANGED <<day, clock, tickAt, diskDue, low, had>>

EndCheck ==
  /\ turn = "check"
  /\ CheckDisk /\ NextTurn
  /\ UNCHANGED <<day, clock, tickAt, diskDue, low, had>>

(* runJob, which skips the run while ingestion is paused.                  *)
TakeNight ==
  /\ turn = "select" /\ NightDue
  /\ had' = timer
  /\ IF paused
     THEN NextTurn
     ELSE turn' = "job" /\ busy' = 0 /\ UNCHANGED timer
  /\ UNCHANGED <<day, clock, tickAt, diskDue, low, paused, unchecked, steady>>

(* Maintenance ends by looking at the disk, unless a rollup or a prune     *)
(* failed: then it returns at once.                                        *)
EndJob ==
  /\ turn = "job"
  /\ CheckDisk \/ UNCHANGED <<paused, unchecked, steady>>
  /\ NextTurn
  /\ UNCHANGED <<day, clock, tickAt, diskDue, low, had>>

Disk ==
  /\ low' = ~low /\ steady' = 0
  /\ UNCHANGED <<day, clock, tickAt, diskDue, turn, busy, timer, paused, had, unchecked>>

(* The clock; the loop never dawdles, and a tick finds the channel full or *)
(* fills it.                                                               *)
NightlyTick ==
  /\ turn = "select" => ~diskDue /\ ~NightDue
  /\ turn = "check" => busy < MaxCheck
  /\ turn = "job" => busy < MaxNight
  /\ IF clock + 1 = Day
     THEN day < MaxDay /\ day' = day + 1 /\ clock' = 0
     ELSE day' = day /\ clock' = clock + 1
  /\ diskDue' = (diskDue \/ clock' % DiskEvery = tickAt)
  /\ busy' = IF turn = "select" THEN 0 ELSE busy + 1
  /\ unchecked' = unchecked + 1
  /\ steady' = IF steady > Blind THEN steady ELSE steady + 1
  /\ UNCHANGED <<tickAt, turn, timer, low, paused, had>>

NightlyNext == TakeDisk \/ EndCheck \/ TakeNight \/ EndJob \/ Disk \/ NightlyTick

NightlySpec == NightlyInit /\ [][NightlyNext]_nightlyVars

-----------------------------------------------------------------------------
(* The "nightly rollup and prune": no day ends without its 03:17 having    *)
(* been acted upon, if only by skipping the run while paused.              *)
EveryNight == [][day' # day => had = day]_nightlyVars

(* "Disk is checked far more often than the nightly job runs": once the    *)
(* disk has kept to one side of the floor, and statfs has worked, for      *)
(* longer than one period, a check and the longest run, ingestion is       *)
(* paused exactly if the disk is low, whatever ticks the full channel      *)
(* drops and however many nightly runs end in an error.                    *)
GuardNeverBlind == steady > Blind => paused = low
=============================================================================
