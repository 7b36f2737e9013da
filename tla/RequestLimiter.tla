---------------------------- MODULE RequestLimiter ----------------------------
(***************************************************************************)
(* The limiter of internal/wiki/wiki.go, shared by every job and by the    *)
(* backfill: a caller is handed the next slot under the mutex, sleeps      *)
(* until it, and sends.  Slots are at least Gap apart; how far apart the   *)
(* requests are depends on how late a woken goroutine gets to run, which   *)
(* Lag bounds.  Time is in ticks; a caller is a goroutine, so it waits for *)
(* one slot at a time.                                                     *)
(***************************************************************************)
EXTENDS Integers, FiniteSets

CONSTANTS
  Caller,
  Gap,      \* limiter.gap
  Lag,      \* a caller sends within Lag ticks of its slot
  MaxInstant   \* bound on the clock

ASSUME LimiterAssumption ==
  IsFiniteSet(Caller) /\ Gap \in Nat \ {0} /\ Lag \in Nat /\ MaxInstant \in Nat

VARIABLES
  instant,
  next,      \* limiter.next
  waiting,   \* callers between the mutex and their request
  slot,      \* the slot each waits for, or last had
  stopped,   \* ctx is cancelled: the process is shutting down
  sent,      \* history: when the last request went out, -1 before the first
  spacing    \* history: the least time between two requests, or Gap

limiterVars == <<instant, next, waiting, slot, stopped, sent, spacing>>

LimiterTypeOK ==
  /\ instant \in Nat /\ next \in Nat
  /\ waiting \subseteq Caller /\ slot \in [Caller -> Nat]
  /\ stopped \in BOOLEAN
  /\ sent \in Nat \cup {-1} /\ spacing \in Int

LimiterInit ==
  /\ instant = 0 /\ next = 0
  /\ waiting = {} /\ slot = [c \in Caller |-> 0]
  /\ stopped = FALSE /\ sent = -1 /\ spacing = Gap

Later(a, b) == IF a < b THEN b ELSE a

Take_Add(c) ==                     \* a bug: a slot in the past is not moved to now
  /\ c \notin waiting /\ ~stopped
  /\ slot' = [slot EXCEPT ![c] = next]
  /\ next' = next + Gap
  /\ waiting' = waiting \cup {c}
  /\ UNCHANGED <<instant, stopped, sent, spacing>>

(* wait, under the mutex.                                                  *)
Take(c) ==
  /\ c \notin waiting /\ ~stopped
  /\ slot' = [slot EXCEPT ![c] = Later(next, instant)]
  /\ next' = Later(next, instant) + Gap
  /\ waiting' = waiting \cup {c}
  /\ UNCHANGED <<instant, stopped, sent, spacing>>

(* The timer has fired, or the slot was not in the future.                 *)
Send(c) ==
  /\ c \in waiting /\ slot[c] <= instant
  /\ waiting' = waiting \ {c}
  /\ sent' = instant
  /\ spacing' = IF sent # -1 /\ instant - sent < spacing THEN instant - sent ELSE spacing
  /\ UNCHANGED <<instant, next, slot, stopped>>

Shutdown == ~stopped /\ stopped' = TRUE /\ UNCHANGED <<instant, next, waiting, slot, sent, spacing>>

(* ctx.Done() wins over the timer: the slot is given up.                   *)
Cancel(c) ==
  /\ stopped /\ c \in waiting
  /\ waiting' = waiting \ {c}
  /\ UNCHANGED <<instant, next, slot, stopped, sent, spacing>>

(* Nobody is later than Lag.                                               *)
LimiterTick ==
  /\ instant < MaxInstant
  /\ \A c \in waiting : instant < slot[c] + Lag
  /\ instant' = instant + 1
  /\ UNCHANGED <<next, waiting, slot, stopped, sent, spacing>>

LimiterNext ==
  \/ Shutdown \/ LimiterTick
  \/ \E c \in Caller : Take(c) \/ Send(c) \/ Cancel(c)

LimiterSpec == LimiterInit /\ [][LimiterNext]_limiterVars

-----------------------------------------------------------------------------
(* "limiter spaces requests by at least gap": what is spaced is the slots, *)
(* so two requests are never closer than the gap less the lag of the first.*)
SendsSpaced == spacing >= Gap - Lag

(* A request is delayed by the others in line, not by those long gone: no  *)
(* caller waits more than a gap for each caller there is.                  *)
WaitBounded ==
  \A c \in waiting : slot[c] - instant <= Gap * Cardinality(Caller)

(* What the limiter promises upstream, and what the jobs rely on.          *)
Limited == SendsSpaced /\ WaitBounded
=============================================================================
