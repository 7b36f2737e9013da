---------------------------- MODULE ConditionalPoll ----------------------------
(***************************************************************************)
(* Conditional polling (internal/wiki/wiki.go and the jobs of              *)
(* internal/ingest/ingest.go): the client remembers the ETag of the last   *)
(* answer it could decode, the job then stores the answer, and a 304 ends  *)
(* a run as a success that stores nothing.                                 *)
(*                                                                         *)
(* A feed is an endpoint polled with an ETag: /latest, /5m, /1h, /24h,     *)
(* /volumes.  Its content is abstracted to a version number, which is its  *)
(* ETag too.  Each feed has one job, so one request at a time.             *)
(***************************************************************************)
EXTENDS Naturals

CONSTANTS
  Feed,
  Attempts,      \* requests per call of getURL
  StoreMayFail,  \* whether the upsert's transaction may fail
  ItemsMissing,  \* whether the first /mapping poll may have failed
  MaxVersion     \* bound: versions a feed publishes

ASSUME PollAssumption ==
  /\ Attempts \in Nat \ {0}
  /\ StoreMayFail \in BOOLEAN /\ ItemsMissing \in BOOLEAN
  /\ MaxVersion \in Nat

VARIABLES
  upstream,  \* the version each feed serves
  etag,      \* Client.etags; 0 where there is no entry
  stored,    \* the version the feed's rows come from
  known,     \* whether `items` lists the ids the feeds speak of
  at,        \* where each job is
  left,      \* requests it may still send
  answer,    \* the body in flight or in hand
  outcome,   \* poll_runs.ok of the job's last run
  met,       \* history: the version that answered that run
  dropped    \* history: feeds whose last answer in hand did not reach the tables

pollVars == <<upstream, etag, stored, known, at, left, answer, outcome, met, dropped>>

Place == {"idle", "ask", "reply", "store"}

PollTypeOK ==
  /\ upstream \in [Feed -> Nat \ {0}]
  /\ etag \in [Feed -> Nat] /\ stored \in [Feed -> Nat]
  /\ known \in BOOLEAN
  /\ at \in [Feed -> Place] /\ left \in [Feed -> 0..Attempts]
  /\ answer \in [Feed -> Nat]
  /\ outcome \in [Feed -> {"none", "ok", "failed"}]
  /\ met \in [Feed -> Nat] /\ dropped \subseteq Feed

PollInit ==
  /\ upstream = [f \in Feed |-> 1]
  /\ etag = [f \in Feed |-> 0] /\ stored = [f \in Feed |-> 0]
  /\ known \in BOOLEAN /\ (known \/ ItemsMissing)
  /\ at = [f \in Feed |-> "idle"] /\ left = [f \in Feed |-> 0]
  /\ answer = [f \in Feed |-> 0]
  /\ outcome = [f \in Feed |-> "none"] /\ met = [f \in Feed |-> 0]
  /\ dropped = {}

-----------------------------------------------------------------------------
Publish(f) ==
  /\ upstream[f] < MaxVersion
  /\ upstream' = [upstream EXCEPT ![f] = @ + 1]
  /\ UNCHANGED <<etag, stored, known, at, left, answer, outcome, met, dropped>>

(* The daily mapping poll lands.                                           *)
Mapping ==
  /\ ~known /\ known' = TRUE
  /\ UNCHANGED <<upstream, etag, stored, at, left, answer, outcome, met, dropped>>

(* runJob, on the job's tick.                                              *)
Start(f) ==
  /\ at[f] = "idle"
  /\ at' = [at EXCEPT ![f] = "ask"]
  /\ left' = [left EXCEPT ![f] = Attempts]
  /\ UNCHANGED <<upstream, etag, stored, known, answer, outcome, met, dropped>>

(* A run ends: FinishRun.                                                  *)
End(f, how) ==
  /\ at' = [at EXCEPT ![f] = "idle"]
  /\ left' = [left EXCEPT ![f] = 0] /\ answer' = [answer EXCEPT ![f] = 0]
  /\ outcome' = [outcome EXCEPT ![f] = how]

(* The request meets the current version: a 304 if the ETag is its own.    *)
NotModified(f) ==
  /\ at[f] = "ask" /\ etag[f] = upstream[f]
  /\ met' = [met EXCEPT ![f] = upstream[f]]
  /\ End(f, "ok")
  /\ UNCHANGED <<upstream, etag, stored, known, dropped>>

Modified(f) ==
  /\ at[f] = "ask" /\ etag[f] # upstream[f]
  /\ at' = [at EXCEPT ![f] = "reply"]
  /\ answer' = [answer EXCEPT ![f] = upstream[f]]
  /\ UNCHANGED <<upstream, etag, stored, known, left, outcome, met, dropped>>

(* A failed attempt is repeated while attempts are left, unless the status *)
(* says that asking again is pointless.                                    *)
Retry(f, again) ==
  IF again /\ left[f] > 1
  THEN /\ at' = [at EXCEPT ![f] = "ask"]
       /\ left' = [left EXCEPT ![f] = @ - 1] /\ answer' = [answer EXCEPT ![f] = 0]
       /\ UNCHANGED outcome
  ELSE End(f, "failed")

Read(f) ==
  /\ at' = [at EXCEPT ![f] = "store"]
  /\ UNCHANGED <<left, answer, outcome>>

Decode_TagFirst(f, good) ==        \* a bug: the ETag is kept before the body is read
  /\ at[f] = "reply"
  /\ etag' = [etag EXCEPT ![f] = answer[f]]
  /\ IF good THEN Read(f) ELSE Retry(f, TRUE)
  /\ UNCHANGED <<upstream, stored, known, met, dropped>>

Decode_Unchecked(f, good) ==       \* a bug: a truncated body passes for an empty answer
  /\ at[f] = "reply"
  /\ (good /\ Read(f)) \/ (~good /\ at' = [at EXCEPT ![f] = "store"]
                        /\ answer' = [answer EXCEPT ![f] = 0] /\ UNCHANGED <<left, outcome>>)
  /\ etag' = [etag EXCEPT ![f] = answer[f]]
  /\ UNCHANGED <<upstream, stored, known, met, dropped>>

(* The body is read; the ETag is kept once it could be.                    *)
Decode(f, good) ==
  /\ at[f] = "reply"
  /\ IF good
     THEN etag' = [etag EXCEPT ![f] = answer[f]] /\ Read(f)
     ELSE Retry(f, TRUE) /\ UNCHANGED etag
  /\ UNCHANGED <<upstream, stored, known, met, dropped>>

(* No usable answer: a timeout, a 5xx or 429 (again), another 4xx (not).   *)
Refused(f, again) ==
  /\ at[f] = "ask"
  /\ Retry(f, again)
  /\ UNCHANGED <<upstream, etag, stored, known, met, dropped>>

(* The upsert: one transaction, which passes over ids that `items` lacks.  *)
Store(f) ==
  /\ at[f] = "store"
  /\ IF known
     THEN stored' = [stored EXCEPT ![f] = answer[f]] /\ dropped' = dropped \ {f}
     ELSE UNCHANGED stored /\ dropped' = dropped \cup {f}
  /\ met' = [met EXCEPT ![f] = answer[f]]
  /\ End(f, "ok")
  /\ UNCHANGED <<upstream, etag, known>>

StoreFails(f) ==
  /\ StoreMayFail /\ at[f] = "store"
  /\ dropped' = dropped \cup {f}
  /\ End(f, "failed")
  /\ UNCHANGED <<upstream, etag, stored, known, met>>

Restart_TagsKept ==                \* a bug: the ETags outlive the process
  /\ at' = [f \in Feed |-> "idle"]
  /\ left' = [f \in Feed |-> 0] /\ answer' = [f \in Feed |-> 0]
  /\ UNCHANGED <<upstream, etag, stored, known, outcome, met, dropped>>

(* The process is replaced: requests in flight and ETags are gone.         *)
Restart ==
  /\ etag' = [f \in Feed |-> 0]
  /\ at' = [f \in Feed |-> "idle"]
  /\ left' = [f \in Feed |-> 0] /\ answer' = [f \in Feed |-> 0]
  /\ UNCHANGED <<upstream, stored, known, outcome, met, dropped>>

Job(f) ==
  \/ Start(f) \/ NotModified(f) \/ Modified(f)
  \/ \E good \in BOOLEAN : Decode(f, good)
  \/ \E again \in BOOLEAN : Refused(f, again)
  \/ Store(f) \/ StoreFails(f)

PollNext ==
  \/ Mapping \/ Restart
  \/ \E f \in Feed : Publish(f) \/ Job(f)

(* A loop takes a tick for as long as its process lives, and neither the   *)
(* network nor restarts stand in the way of the same step for ever: strong *)
(* fairness of Start, Modified, Decode of a readable body and Store, with  *)
(* the condition under which each may be taken written out.                *)
FairTo(f) ==
  /\ <>[](at[f] # "idle") \/ []<><<Start(f)>>_pollVars
  /\ <>[]~(at[f] = "ask" /\ etag[f] # upstream[f]) \/ []<><<Modified(f)>>_pollVars
  /\ <>[](at[f] # "reply") \/ []<><<Decode(f, TRUE)>>_pollVars
  /\ <>[](at[f] # "store") \/ []<><<Store(f)>>_pollVars

Fairness == \A f \in Feed : FairTo(f)

PollSpec == PollInit /\ [][PollNext]_pollVars

-----------------------------------------------------------------------------
(* "Callers that just want to skip a poll cycle can treat it as a no-op"   *)
(* (ErrNotModified): a run that is recorded as a success leaves the tables *)
(* with what the feed answered in that run, whether it answered 200 or     *)
(* 304, unless the feed's last answer was dropped on its way to them.      *)
OkIsCurrent ==
  \A f \in Feed \ dropped : outcome[f] = "ok" => stored[f] >= met[f]

(* The ETag never vouches for an answer that was not stored, except while  *)
(* the job has it in hand, and where it was dropped.                       *)
TagIsStored ==
  \A f \in Feed \ dropped : at[f] # "store" => etag[f] \in {0, stored[f]}

(* The tables follow the feed: no retry, restart or late answer puts them  *)
(* back or invents anything.                                               *)
F == INSTANCE FeedReplica WITH source <- upstream, copy <- stored
FollowsFeed == F!Spec

(* Every version is stored, or a later one, whatever attempts fail and     *)
(* however often the process is replaced, unless an answer is dropped.     *)
Fresh ==
  Fairness =>
    \A f \in Feed : \A v \in 1..MaxVersion :
      (upstream[f] = v) ~> (stored[f] >= v \/ f \in dropped)
=============================================================================
