--------------------------- MODULE Ingestion_proofs ---------------------------
(***************************************************************************)
(* When openget asks upstream, how often, and what it keeps of an answer:  *)
(* the proofs about ConditionalPoll, PollSchedule, NightlySchedule and     *)
(* RequestLimiter.  The four share no state and no lemma; each part opens  *)
(* with what its invariant says.                                           *)
(***************************************************************************)
EXTENDS ConditionalPoll, PollSchedule, NightlySchedule, RequestLimiter, Integers,
        FiniteSetTheorems, TLAPS

-----------------------------------------------------------------------------
(***************************************************************************)
(* ConditionalPoll.  The tables follow the feed whatever fails; and,       *)
(* except where an answer was dropped on its way to them, a run that is    *)
(* recorded as a success leaves the tables with what the feed answered.    *)
(***************************************************************************)
(* An answer is newer than the rows it will replace, and older than what   *)
(* the feed serves by now.                                                 *)
Between ==
  \A f \in Feed :
    /\ stored[f] <= upstream[f] /\ met[f] <= upstream[f]
    /\ at[f] \in {"reply", "store"} => stored[f] <= answer[f] /\ answer[f] <= upstream[f]

LEMMA PollTypeInvariant == PollSpec => []PollTypeOK
<1>1. PollInit => PollTypeOK
  BY PollAssumption DEF PollInit, PollTypeOK, Place
<1>2. PollTypeOK /\ [PollNext]_pollVars => PollTypeOK'
  <2> SUFFICES ASSUME PollTypeOK, [PollNext]_pollVars PROVE PollTypeOK'
    OBVIOUS
  <2>1. ASSUME NEW f \in Feed, Publish(f) PROVE PollTypeOK'
    BY <2>1 DEF PollTypeOK, Publish
  <2>2. CASE Mapping
    BY <2>2 DEF PollTypeOK, Mapping
  <2>3. CASE Restart
    BY <2>3, PollAssumption DEF PollTypeOK, Restart, Place
  <2>4. ASSUME NEW f \in Feed, Start(f) PROVE PollTypeOK'
    BY <2>4, PollAssumption DEF PollTypeOK, Start, Place
  <2>5. ASSUME NEW f \in Feed, NotModified(f) PROVE PollTypeOK'
    BY <2>5, PollAssumption DEF PollTypeOK, NotModified, End, Place
  <2>6. ASSUME NEW f \in Feed, Modified(f) PROVE PollTypeOK'
    BY <2>6 DEF PollTypeOK, Modified, Place
  <2>7. ASSUME NEW f \in Feed, NEW good \in BOOLEAN, Decode(f, good) PROVE PollTypeOK'
    BY <2>7, PollAssumption DEF PollTypeOK, Decode, Read, Retry, End, Place
  <2>8. ASSUME NEW f \in Feed, NEW again \in BOOLEAN, Refused(f, again) PROVE PollTypeOK'
    BY <2>8, PollAssumption DEF PollTypeOK, Refused, Retry, End, Place
  <2>9. ASSUME NEW f \in Feed, Store(f) \/ StoreFails(f) PROVE PollTypeOK'
    BY <2>9, PollAssumption DEF PollTypeOK, Store, StoreFails, End, Place
  <2>10. CASE UNCHANGED pollVars
    BY <2>10 DEF PollTypeOK, pollVars
  <2> QED
    BY <2>1, <2>2, <2>3, <2>4, <2>5, <2>6, <2>7, <2>8, <2>9, <2>10 DEF PollNext, Job
<1> QED BY <1>1, <1>2, PTL DEF PollSpec

LEMMA BetweenNext ==
  ASSUME PollTypeOK, Between, [PollNext]_pollVars
  PROVE  Between'
<1>1. ASSUME NEW f \in Feed, Publish(f) PROVE Between'
  BY <1>1 DEF PollTypeOK, Between, Publish
<1>2. CASE Mapping \/ Restart
  BY <1>2 DEF PollTypeOK, Between, Mapping, Restart
<1>3. ASSUME NEW f \in Feed, Start(f) \/ NotModified(f) \/ Modified(f) PROVE Between'
  BY <1>3 DEF PollTypeOK, Between, Start, NotModified, Modified, End
<1>4. ASSUME NEW f \in Feed, NEW good \in BOOLEAN, Decode(f, good) PROVE Between'
  BY <1>4 DEF PollTypeOK, Between, Decode, Read, Retry, End
<1>5. ASSUME NEW f \in Feed, NEW again \in BOOLEAN, Refused(f, again) PROVE Between'
  BY <1>5 DEF PollTypeOK, Between, Refused, Retry, End
<1>6. ASSUME NEW f \in Feed, Store(f) \/ StoreFails(f) PROVE Between'
  BY <1>6 DEF PollTypeOK, Between, Store, StoreFails, End
<1>7. CASE UNCHANGED pollVars
  BY <1>7 DEF Between, pollVars
<1> QED BY <1>1, <1>2, <1>3, <1>4, <1>5, <1>6, <1>7 DEF PollNext, Job

(* Only two steps of a job or the feed touch what the abstract replica     *)
(* sees: a publication, and a stored answer.                               *)
LEMMA StepFollows ==
  ASSUME PollTypeOK, Between, [PollNext]_pollVars
  PROVE  [F!Next]_<<upstream, stored>>
<1>1. ASSUME NEW f \in Feed, Publish(f) PROVE F!Next
  BY <1>1 DEF Publish, F!Next, F!Publish
<1>2. ASSUME NEW f \in Feed, Store(f), stored' # stored PROVE F!Next
  <2>1. stored' = [stored EXCEPT ![f] = answer[f]] /\ UNCHANGED upstream /\ at[f] = "store"
    BY <1>2 DEF Store
  <2>2. answer[f] # stored[f]
    BY <1>2, <2>1 DEF PollTypeOK
  <2>3. stored[f] \in Nat /\ answer[f] \in Nat /\ upstream[f] \in Nat
        /\ stored[f] <= answer[f] /\ answer[f] <= upstream[f]
    BY <2>1 DEF PollTypeOK, Between
  <2>4. stored[f] < upstream[f] /\ answer[f] \in stored[f] + 1 .. upstream[f]
    BY <2>2, <2>3
  <2>5. F!Follow(f)
    BY <2>1, <2>4 DEF F!Follow
  <2> QED BY <2>5 DEF F!Next
<1>3. ASSUME NEW f \in Feed, Store(f), UNCHANGED stored PROVE UNCHANGED <<upstream, stored>>
  BY <1>3 DEF Store
<1>4. ASSUME NEW f \in Feed,
             \/ Start(f) \/ NotModified(f) \/ Modified(f) \/ StoreFails(f)
             \/ \E good \in BOOLEAN : Decode(f, good)
             \/ \E again \in BOOLEAN : Refused(f, again)
      PROVE  UNCHANGED <<upstream, stored>>
  BY <1>4 DEF Start, NotModified, Modified, StoreFails, Decode, Refused
<1>5. CASE Mapping \/ Restart \/ UNCHANGED pollVars
  BY <1>5 DEF Mapping, Restart, pollVars
<1> QED BY <1>1, <1>2, <1>3, <1>4, <1>5 DEF PollNext, Job

(* However requests fail, retries repeat, upserts fail and processes are   *)
(* replaced, the tables only move forward, to what the feed has served.    *)
THEOREM TablesFollowFeed == PollSpec => FollowsFeed
<1>1. PollInit => Between
  <2> SUFFICES ASSUME PollInit, NEW f \in Feed
               PROVE  /\ stored[f] <= upstream[f] /\ met[f] <= upstream[f]
                      /\ at[f] \in {"reply", "store"} =>
                           stored[f] <= answer[f] /\ answer[f] <= upstream[f]
    BY DEF Between
  <2>1. stored[f] = 0 /\ met[f] = 0 /\ upstream[f] = 1 /\ at[f] = "idle"
    BY DEF PollInit
  <2> QED BY <2>1
<1>2. PollInit => F!Init
  BY DEF PollInit, F!Init
<1>3. PollTypeOK /\ Between /\ [PollNext]_pollVars => Between'
  BY BetweenNext
<1>4. PollTypeOK /\ Between /\ [PollNext]_pollVars => [F!Next]_<<upstream, stored>>
  BY StepFollows
<1> QED BY <1>1, <1>2, <1>3, <1>4, PollTypeInvariant, PTL DEF PollSpec, F!Spec, FollowsFeed

-----------------------------------------------------------------------------
(* OkIsCurrent is not inductive: a 304 is harmless because the ETag, then, *)
(* is that of the stored rows, or about to be.                             *)
Vouched ==
  \A f \in Feed :
    /\ at[f] = "store" => etag[f] = answer[f]
    /\ f \in dropped \/ at[f] = "store" \/ etag[f] = 0 \/ etag[f] = stored[f]
    /\ f \in dropped \/ outcome[f] # "ok" \/ stored[f] >= met[f]

LEMMA VouchedNext ==
  ASSUME PollTypeOK, Vouched, [PollNext]_pollVars
  PROVE  Vouched'
<1>1. ASSUME NEW f \in Feed, Publish(f) PROVE Vouched'
  BY <1>1 DEF PollTypeOK, Vouched, Publish
<1>2. CASE Mapping
  BY <1>2 DEF Vouched, Mapping
<1>3. CASE Restart
  BY <1>3 DEF PollTypeOK, Vouched, Restart
<1>4. ASSUME NEW f \in Feed, Start(f) \/ Modified(f) PROVE Vouched'
  BY <1>4 DEF PollTypeOK, Vouched, Start, Modified
<1>5. ASSUME NEW f \in Feed, NotModified(f) PROVE Vouched'
  <2>1. f \notin dropped => etag[f] = stored[f] /\ upstream[f] = stored[f]
    BY <1>5 DEF PollTypeOK, Vouched, NotModified
  <2> QED BY <1>5, <2>1 DEF PollTypeOK, Vouched, NotModified, End
<1>6. ASSUME NEW f \in Feed, NEW good \in BOOLEAN, Decode(f, good) PROVE Vouched'
  BY <1>6 DEF PollTypeOK, Vouched, Decode, Read, Retry, End
<1>7. ASSUME NEW f \in Feed, NEW again \in BOOLEAN, Refused(f, again) PROVE Vouched'
  BY <1>7 DEF PollTypeOK, Vouched, Refused, Retry, End
<1>8. ASSUME NEW f \in Feed, Store(f) PROVE Vouched'
  <2>1. /\ met' = [met EXCEPT ![f] = answer[f]]
        /\ at' = [at EXCEPT ![f] = "idle"] /\ outcome' = [outcome EXCEPT ![f] = "ok"]
        /\ at[f] = "store" /\ answer' = [answer EXCEPT ![f] = 0] /\ UNCHANGED etag
    BY <1>8 DEF Store, End
  <2>2. CASE known
    <3>1. stored' = [stored EXCEPT ![f] = answer[f]] /\ dropped' = dropped \ {f}
      BY <1>8, <2>2 DEF Store
    <3>2. etag[f] = answer[f]
      BY <2>1 DEF Vouched
    <3> QED BY <2>1, <3>1, <3>2 DEF PollTypeOK, Vouched
  <2>3. CASE ~known
    <3>1. UNCHANGED stored /\ dropped' = dropped \cup {f}
      BY <1>8, <2>3 DEF Store
    <3> QED BY <2>1, <3>1 DEF PollTypeOK, Vouched
  <2> QED BY <2>2, <2>3
<1>9. ASSUME NEW f \in Feed, StoreFails(f) PROVE Vouched'
  BY <1>9 DEF PollTypeOK, Vouched, StoreFails, End
<1>10. CASE UNCHANGED pollVars
  BY <1>10 DEF Vouched, pollVars
<1> QED BY <1>1, <1>2, <1>3, <1>4, <1>5, <1>6, <1>7, <1>8, <1>9, <1>10 DEF PollNext, Job

LEMMA VouchedInvariant == PollSpec => []Vouched
<1>1. PollInit => Vouched
  BY DEF PollInit, Vouched
<1>2. PollTypeOK /\ Vouched /\ [PollNext]_pollVars => Vouched'
  BY VouchedNext
<1> QED BY <1>1, <1>2, PollTypeInvariant, PTL DEF PollSpec

(* Where no answer was dropped, a run recorded as a success leaves what    *)
(* the feed answered, and the ETag vouches for nothing that is not stored. *)
THEOREM OkRunsAreCurrent == PollSpec => [](TagIsStored /\ OkIsCurrent)
<1>1. Vouched => TagIsStored /\ OkIsCurrent
  BY DEF Vouched, TagIsStored, OkIsCurrent
<1> QED BY <1>1, VouchedInvariant, PTL

(* While the version, or a later one, waits to be stored: an answer in     *)
(* hand, once it is no older, stays so, and storing it is the end of it.   *)
Waits(f, v) == upstream[f] >= v /\ stored[f] < v /\ f \notin dropped
NoOlder(f, v) == at[f] \in {"reply", "store"} => answer[f] >= v

LEMMA WaitingStep ==
  ASSUME NEW f \in Feed, NEW v \in 1..MaxVersion, PollTypeOK, Vouched, Waits(f, v), [PollNext]_pollVars
  PROVE  /\ upstream'[f] >= v
         /\ NoOlder(f, v) => NoOlder(f, v)'
         /\ at[f] = "ask" => etag[f] # upstream[f]
         /\ Store(f) /\ NoOlder(f, v) => ~Waits(f, v)'
<1>0. /\ v \in Nat \ {0} /\ upstream \in [Feed -> Nat \ {0}] /\ stored \in [Feed -> Nat]
      /\ at \in [Feed -> Place] /\ answer \in [Feed -> Nat] /\ etag \in [Feed -> Nat]
  BY PollAssumption DEF PollTypeOK
<1>a. upstream[f] >= v /\ stored[f] < v /\ f \notin dropped
  BY DEF Waits
<1>1. at[f] = "ask" => etag[f] # upstream[f]
  BY <1>0, <1>a DEF Vouched
<1>2. Store(f) /\ NoOlder(f, v) => ~Waits(f, v)'
  <2> SUFFICES ASSUME Store(f), NoOlder(f, v) PROVE stored'[f] >= v \/ f \in dropped'
    BY <1>0 DEF Waits, Store
  <2>1. answer[f] >= v
    BY DEF Store, NoOlder
  <2> QED BY <1>0, <2>1 DEF Store
<1>3. upstream'[f] >= v /\ (NoOlder(f, v) => NoOlder(f, v)')
  <2>1. ASSUME NEW g \in Feed, Publish(g) PROVE upstream'[f] >= v /\ (NoOlder(f, v) => NoOlder(f, v)')
    BY <1>0, <1>a, <2>1 DEF Publish, NoOlder
  <2>2. CASE Mapping \/ Restart
    BY <1>0, <1>a, <2>2 DEF Mapping, Restart, NoOlder
  <2>3. ASSUME NEW g \in Feed, Start(g) \/ NotModified(g) \/ Modified(g)
        PROVE  upstream'[f] >= v /\ (NoOlder(f, v) => NoOlder(f, v)')
    BY <1>0, <1>a, <2>3 DEF Start, NotModified, Modified, End, NoOlder
  <2>4. ASSUME NEW g \in Feed, NEW good \in BOOLEAN, Decode(g, good)
        PROVE  upstream'[f] >= v /\ (NoOlder(f, v) => NoOlder(f, v)')
    BY <1>0, <1>a, <2>4 DEF Decode, Read, Retry, End, NoOlder
  <2>5. ASSUME NEW g \in Feed, NEW again \in BOOLEAN, Refused(g, again)
        PROVE  upstream'[f] >= v /\ (NoOlder(f, v) => NoOlder(f, v)')
    BY <1>0, <1>a, <2>5 DEF Refused, Retry, End, NoOlder
  <2>6. ASSUME NEW g \in Feed, Store(g) \/ StoreFails(g)
        PROVE  upstream'[f] >= v /\ (NoOlder(f, v) => NoOlder(f, v)')
    BY <1>0, <1>a, <2>6 DEF Store, StoreFails, End, NoOlder
  <2>7. CASE UNCHANGED pollVars
    BY <1>a, <2>7 DEF pollVars, NoOlder
  <2> QED BY <2>1, <2>2, <2>3, <2>4, <2>5, <2>6, <2>7 DEF PollNext, Job
<1> QED BY <1>1, <1>2, <1>3

(* If it waited for ever, it would be asked for and read again and again,  *)
(* and then stored.                                                        *)
LEMMA StoredInTheEnd ==
  ASSUME NEW f \in Feed, NEW v \in 1..MaxVersion
  PROVE  PollSpec /\ FairTo(f) => ((upstream[f] = v) ~> (stored[f] >= v \/ f \in dropped))
<1> DEFINE Serves == upstream[f] = v
<1> DEFINE Done == stored[f] >= v \/ f \in dropped
<1> DEFINE Served == upstream[f] >= v
<1> DEFINE Ready == NoOlder(f, v)
<1> DEFINE Fit == at[f] = "ask" /\ etag[f] # upstream[f]
<1> DEFINE Off == at[f] = "idle"
<1> DEFINE Asks == at[f] = "ask"
<1> DEFINE Has == at[f] = "reply"
<1> DEFINE Holds == at[f] = "store"
<1> DEFINE Sound == PollTypeOK /\ Vouched
<1>1. PollSpec => []Sound /\ [][PollNext]_pollVars
  BY PollTypeInvariant, VouchedInvariant, PTL DEF PollSpec
<1>2. Sound /\ Sound' /\ Served /\ ~Done /\ [PollNext]_pollVars =>
        Served' /\ (Ready => Ready') /\ (Asks => Fit) /\ (<<Store(f)>>_pollVars /\ Ready => Done')
  <2> SUFFICES ASSUME PollTypeOK, Vouched, PollTypeOK', Served, ~Done, [PollNext]_pollVars
               PROVE  Served' /\ (Ready => Ready') /\ (Asks => Fit) /\ (<<Store(f)>>_pollVars /\ Ready => Done')
    OBVIOUS
  <2>1. v \in Nat /\ stored[f] \in Nat /\ stored'[f] \in Nat
    BY PollAssumption DEF PollTypeOK
  <2>2. Waits(f, v)
    BY <2>1 DEF Waits
  <2>3. /\ Served' /\ (Ready => Ready') /\ (Asks => Fit)
        /\ Store(f) /\ Ready => ~Waits(f, v)'
    BY <2>2, WaitingStep
  <2> QED BY <2>1, <2>3 DEF Waits
<1>3. Sound => (Serves => Served) /\ (Off \/ Asks => Ready) /\ (Off \/ Asks \/ Has \/ Holds)
  BY PollAssumption DEF PollTypeOK, Place, NoOlder
<1>4. Sound => /\ <<Start(f)>>_pollVars => Asks'
               /\ <<Modified(f)>>_pollVars => Has'
               /\ <<Decode(f, TRUE)>>_pollVars => Holds'
               /\ <<Store(f)>>_pollVars => Off' /\ Holds
  BY DEF PollTypeOK, Start, Modified, Decode, Read, Store, End
<1>5. ~(Off /\ (Asks \/ Has \/ Holds)) /\ ~(Asks /\ (Has \/ Holds)) /\ ~(Has /\ Holds)
  OBVIOUS
<1>6. FairTo(f) => /\ <>[]~Off \/ []<><<Start(f)>>_pollVars
                   /\ <>[]~Fit \/ []<><<Modified(f)>>_pollVars
                   /\ <>[]~Has \/ []<><<Decode(f, TRUE)>>_pollVars
                   /\ <>[]~Holds \/ []<><<Store(f)>>_pollVars
  <2>1. /\ at[f] # "idle" <=> ~Off
        /\ at[f] # "reply" <=> ~Has
        /\ at[f] # "store" <=> ~Holds
    OBVIOUS
  <2> QED BY <2>1, PTL DEF FairTo
<1> HIDE DEF Serves, Done, Served, Ready, Fit, Off, Asks, Has, Holds, Sound
<1>7. PollSpec /\ FairTo(f) => [](Serves => <>Done)
  BY <1>1, <1>2, <1>3, <1>4, <1>5, <1>6, PTL
<1>8. PollSpec /\ FairTo(f) => (Serves ~> Done)
  BY <1>7, PTL
<1> QED BY <1>8 DEF Serves, Done

(* Every version a feed serves reaches the tables, or a later one does,    *)
(* unless an answer is dropped on its way to them: however many attempts   *)
(* fail and processes are replaced, as long as none of the four steps that *)
(* get it there is refused for ever.                                       *)
THEOREM FeedsStayFresh == PollSpec => Fresh
<1>1. \A f \in Feed : \A v \in 1..MaxVersion :
        PollSpec /\ FairTo(f) => ((upstream[f] = v) ~> (stored[f] >= v \/ f \in dropped))
  BY StoredInTheEnd
<1> QED BY <1>1 DEF Fresh, Fairness

-----------------------------------------------------------------------------
(***************************************************************************)
(* PollSchedule.  A process reads every bucket but those its starts put at *)
(* risk, whenever it is started.  The invariant says what is in hand, or   *)
(* given up, at each place of a run in its period: a run that a tick woke  *)
(* ends in its period (OnTime); one that a start made may have begun too   *)
(* early, or in the period before (Early), or may end too late (Late).     *)
(***************************************************************************)
(* The hypothesis on the deployment: a run that a tick woke ends before    *)
(* the next boundary.                                                      *)
RunsFit == Settle + MaxJob < Every

(* A bucket that need not be read any more.                                *)
Settled(b) == got >= b \/ b \in hasty

OnTime == Settle + taken <= phase /\ phase + MaxJob < Every + taken
Early  == phase < Settle + taken /\ Settled(period)
Late   == taken <= phase /\ phase + MaxJob >= Every + taken /\ Settled(period) /\ Settled(period + 1)

Running ==
  pc # "sleep" =>
    /\ OnTime \/ Early \/ Late
    /\ pc = "read" => Settled(period)

Sleeping ==
  pc = "sleep" =>
    \/ wake = period + 1 /\ Settled(period)
    \/ wake = period /\ phase <= Settle

ScheduleInv ==
  /\ ScheduleTypeOK
  /\ pub = period \/ phase < Settle
  /\ Settled(period - 1)
  /\ Running /\ Sleeping

(* What a start puts at risk is given up, and nothing else need be.        *)
LEMMA StartSettles ==
  ASSUME RunsFit, ScheduleTypeOK, pub = period \/ phase < Settle, pc' = "run", taken' = 0,
         UNCHANGED <<period, phase, got>>, AtRisk \subseteq hasty'
  PROVE  Running'
<1> USE ScheduleAssumption DEF RunsFit, ScheduleTypeOK
<1>1. period \in AtRisk \/ got = period \/ (phase >= Settle /\ phase + MaxJob < Every)
  BY DEF AtRisk
<1>2. phase + MaxJob >= Every => period + 1 \in AtRisk
  BY DEF AtRisk
<1>3. CASE phase >= Settle /\ phase + MaxJob < Every
  BY <1>3 DEF Running, OnTime
<1>4. CASE phase < Settle
  BY <1>1, <1>4 DEF Running, Early, Settled
<1>5. CASE phase >= Settle /\ phase + MaxJob >= Every
  BY <1>1, <1>2, <1>5 DEF Running, Late, Settled
<1> QED BY <1>3, <1>4, <1>5

LEMMA ScheduleInvInit ==
  ASSUME RunsFit, ScheduleInit
  PROVE  ScheduleInv
<1> USE ScheduleAssumption DEF RunsFit, ScheduleInit
<1>1. AtRisk \subseteq Nat
  BY DEF AtRisk
<1>2. ScheduleTypeOK
  BY <1>1 DEF ScheduleTypeOK
<1>3. Running
  <2>1. phase + MaxJob >= Every => period + 1 \in AtRisk
    BY <1>2 DEF AtRisk, ScheduleTypeOK
  <2>2. got < period /\ (phase < Settle \/ phase + MaxJob >= Every) => period \in AtRisk
    BY <1>2 DEF AtRisk, ScheduleTypeOK
  <2> QED BY <1>2, <2>1, <2>2 DEF Running, OnTime, Early, Late, Settled, ScheduleTypeOK
<1> QED BY <1>2, <1>3 DEF ScheduleInv, Sleeping, Settled

LEMMA ScheduleInvNext ==
  ASSUME RunsFit, ScheduleInv, [ScheduleNext]_scheduleVars
  PROVE  ScheduleInv'
<1> USE ScheduleAssumption DEF RunsFit
<1>1. CASE PublishBucket
  BY <1>1 DEF ScheduleInv, ScheduleTypeOK, Running, Sleeping, OnTime, Early, Late, Settled,
     PublishBucket
<1>2. CASE Ask
  BY <1>2 DEF ScheduleInv, ScheduleTypeOK, Running, Sleeping, OnTime, Early, Late, Settled, Ask
<1>3. CASE EndRun
  BY <1>3 DEF ScheduleInv, ScheduleTypeOK, Running, Sleeping, OnTime, Early, Late, Settled, EndRun
<1>4. CASE Wake
  BY <1>4 DEF ScheduleInv, ScheduleTypeOK, Running, Sleeping, OnTime, Early, Late, Settled, Wake, Due
<1>5. CASE RestartLoop
  <2>1. AtRisk \subseteq Nat
    BY DEF ScheduleInv, ScheduleTypeOK, AtRisk
  <2>2. ScheduleTypeOK'
    BY <1>5, <2>1 DEF ScheduleInv, ScheduleTypeOK, RestartLoop
  <2>3. Running'
    BY <1>5, StartSettles DEF ScheduleInv, RestartLoop
  <2> QED BY <1>5, <2>2, <2>3 DEF ScheduleInv, Sleeping, Settled, RestartLoop
<1>6. CASE ScheduleTick
  <2>1. CASE phase + 1 = Every
    <3>1. /\ period' = period + 1 /\ phase' = 0 /\ UNCHANGED <<pub, pc, wake, got, hasty>>
          /\ taken' = IF pc # "sleep" THEN taken + 1 ELSE taken
          /\ pc = "sleep" => ~Due
          /\ pc # "sleep" => taken < MaxJob
      BY <1>6, <2>1 DEF ScheduleTick
    <3>2. pub = period
      BY <2>1 DEF ScheduleInv, ScheduleTypeOK
    <3>3. pc # "sleep" => Late
      BY <2>1, <3>1 DEF ScheduleInv, ScheduleTypeOK, Running, OnTime, Early
    <3>4. Settled(period) /\ (pc = "sleep" => wake = period + 1)
      BY <2>1, <3>1, <3>3 DEF ScheduleInv, ScheduleTypeOK, Sleeping, Late, Due
    <3>5. ScheduleTypeOK'
      BY <3>1, <3>2 DEF ScheduleInv, ScheduleTypeOK
    <3>6. Running'
      BY <3>1, <3>3 DEF ScheduleInv, ScheduleTypeOK, Running, Early, Late, Settled
    <3>7. Sleeping' /\ Settled(period - 1)'
      BY <3>1, <3>4 DEF ScheduleInv, ScheduleTypeOK, Sleeping, Settled
    <3> QED BY <3>1, <3>5, <3>6, <3>7 DEF ScheduleInv
  <2>2. CASE phase + 1 # Every
    <3>1. /\ phase' = phase + 1 /\ UNCHANGED <<period, pub, pc, wake, got, hasty>>
          /\ taken' = IF pc # "sleep" THEN taken + 1 ELSE taken
          /\ pc = "sleep" => ~Due
          /\ pc # "sleep" => taken < MaxJob
          /\ phase + 1 = Settle => pub = period
      BY <1>6, <2>2 DEF ScheduleTick
    <3>2. ScheduleTypeOK' /\ (pub = period \/ phase < Settle)'
      BY <2>2, <3>1 DEF ScheduleInv, ScheduleTypeOK
    <3>3. Running'
      BY <3>1 DEF ScheduleInv, ScheduleTypeOK, Running, OnTime, Early, Late, Settled
    <3>4. Sleeping' /\ Settled(period - 1)'
      BY <3>1 DEF ScheduleInv, ScheduleTypeOK, Sleeping, Settled, Due
    <3> QED BY <3>2, <3>3, <3>4 DEF ScheduleInv
  <2> QED BY <2>1, <2>2
<1>7. CASE UNCHANGED scheduleVars
  BY <1>7 DEF ScheduleInv, ScheduleTypeOK, Running, Sleeping, OnTime, Early, Late, Settled,
     scheduleVars
<1> QED BY <1>1, <1>2, <1>3, <1>4, <1>5, <1>6, <1>7 DEF ScheduleNext

(* loop and untilNext: every bucket published while the process runs is    *)
(* read before upstream replaces it, or was put at risk by a start at the  *)
(* wrong moment, for any interval, offset and run that fit, and any        *)
(* moments of starting.                                                    *)
THEOREM BucketsRead ==
  ASSUME RunsFit
  PROVE  ScheduleSpec => EveryBucketRead
<1>1. ScheduleInit => ScheduleInv
  BY ScheduleInvInit
<1>2. ScheduleInv /\ [ScheduleNext]_scheduleVars => ScheduleInv'
  BY ScheduleInvNext
<1>3. ScheduleInv /\ [ScheduleNext]_scheduleVars
      => [pub' # pub => got = pub \/ pub \in hasty]_scheduleVars
  <2> SUFFICES ASSUME ScheduleInv, [ScheduleNext]_scheduleVars, pub' # pub
               PROVE  got = pub \/ pub \in hasty
    OBVIOUS
  <2>1. pub < period
    BY DEF ScheduleNext, PublishBucket, Ask, EndRun, Wake, RestartLoop, ScheduleTick, scheduleVars
  <2> QED BY <2>1 DEF ScheduleInv, ScheduleTypeOK, Settled
<1> QED BY <1>1, <1>2, <1>3, PTL DEF ScheduleSpec, EveryBucketRead

-----------------------------------------------------------------------------
(***************************************************************************)
(* NightlySchedule.  With a ticker that keeps clear of 03:17, no night is  *)
(* lost and the disk guard is never blind for long.  The invariant says    *)
(* that the loop, when it is not catching up with what a nightly run has   *)
(* held back, starts its checks on the tick that asks for them (Keeps); so *)
(* no check can be under way at 03:17.  After the run it catches up in at  *)
(* most two checks, and does so on the same day (CatchesUp).               *)
(***************************************************************************)
(* Ticks since the ticker last fired, for one with offset o.               *)
Since(c, o) == (c + (DiskEvery - o)) % DiskEvery

(* The hypothesis on the deployment: a check takes less than half a period, *)
(* no ticker fires within a check's duration of 03:17, and a nightly run    *)
(* with the two checks behind it ends on its day.                          *)
Apart ==
  /\ 2 * MaxCheck < DiskEvery
  /\ \A o \in TickAt : MaxCheck < Since(Night, o)
  /\ Night + MaxNight + 2 * MaxCheck < Day

since == Since(clock, tickAt)

(* Where the numbers lie.                                                  *)
Ranges ==
  /\ day \in Nat /\ clock \in 0 .. Day - 1 /\ tickAt \in TickAt
  /\ turn \in {"select", "check", "job"}
  /\ busy \in Nat /\ busy <= (IF turn = "check" THEN MaxCheck ELSE MaxNight)
  /\ timer \in Nat /\ had \in Nat /\ unchecked \in Nat

(* The loop's ordinary course.                                             *)
Keeps ==
  /\ turn = "select" => unchecked <= DiskEvery /\ IF diskDue THEN since = 0 ELSE unchecked <= since
  /\ turn = "check" => ~diskDue /\ busy = since /\ unchecked <= DiskEvery + busy
  /\ turn # "job"

(* From the start of a nightly run to the end of the second check after.   *)
CatchesUp ==
  /\ had = day
  /\ turn = "job" =>
       /\ clock = Night + busy /\ unchecked <= DiskEvery + busy
       /\ diskDue \/ unchecked <= since
  /\ turn = "select" =>
       /\ diskDue /\ unchecked <= DiskEvery + MaxNight
       /\ \/ clock <= Night + MaxNight
          \/ clock <= Night + MaxNight + MaxCheck /\ since <= MaxCheck
  /\ turn = "check" =>
       /\ unchecked <= DiskEvery + MaxNight + busy
       /\ \/ clock <= Night + MaxNight + busy /\ (diskDue => since <= busy)
          \/ clock <= Night + MaxNight + MaxCheck + busy /\ ~diskDue /\ since <= MaxCheck + busy

NightlyInv ==
  /\ Ranges
  /\ clock < Night => had = day - 1
  /\ clock > Night => had = day
  /\ had \in {day - 1, day}
  /\ had # day => Keeps /\ (clock = Night => turn = "select" /\ ~diskDue)
  /\ turn = "select" => timer = IF had = day THEN day + 1 ELSE day
  /\ Keeps \/ CatchesUp

(* A statfs that was tried, and not failed, since the disk crossed the     *)
(* floor has set the guard.                                                *)
Knows == unchecked \in Nat /\ steady \in Nat /\ (unchecked < steady => paused = low)

-----------------------------------------------------------------------------
(* Division with remainder.                                                *)
LEMMA DivMod ==
  ASSUME NEW n \in Nat, NEW d \in Nat \ {0}
  PROVE  n \div d \in Nat /\ n % d \in 0 .. (d - 1) /\ n = d * (n \div d) + (n % d)
  OBVIOUS

(* The remainder is unique.                                                *)
LEMMA ModUnique ==
  ASSUME NEW d \in Nat \ {0}, NEW q \in Int, NEW x \in 0 .. (d - 1), d * q + x \in Nat
  PROVE  (d * q + x) % d = x
<1> DEFINE p == (d * q + x) \div d
           y == (d * q + x) % d
<1>1. p \in Int /\ y \in 0 .. (d - 1) /\ d * q + x = d * p + y
  OBVIOUS
<1> HIDE DEF p, y
<1>2. d * (p - q) = x - y
  BY <1>1
<1>3. CASE p - q >= 1
  <2>1. d * (p - q) >= d
    BY <1>1, <1>3
  <2> QED BY <1>1, <1>2, <2>1
<1>4. CASE p - q <= -1
  <2>1. d * (p - q) <= -d
    BY <1>1, <1>4
  <2> QED BY <1>1, <1>2, <2>1
<1>5. CASE p - q = 0
  BY <1>1, <1>2, <1>5
<1>6. y = x
  BY <1>1, <1>3, <1>4, <1>5
<1> QED BY <1>6 DEF y

(* One more than a number has one more than its remainder, or none.        *)
LEMMA ModNext ==
  ASSUME NEW d \in Nat \ {0}, NEW n \in Nat
  PROVE  (n + 1) % d = IF (n % d) + 1 = d THEN 0 ELSE (n % d) + 1
<1> DEFINE q == n \div d
           x == n % d
<1>1. q \in Nat /\ x \in 0 .. (d - 1) /\ n = d * q + x
  BY DivMod
<1> HIDE DEF q, x
<1>2. CASE x + 1 = d
  <2>1. d * (q + 1) = d * q + d
    BY <1>1
  <2>2. n + 1 = d * (q + 1) + 0 /\ d * (q + 1) + 0 \in Nat
    BY <1>1, <1>2, <2>1
  <2>3. (d * (q + 1) + 0) % d = 0
    BY <1>1, <2>2, ModUnique
  <2> QED BY <1>2, <2>2, <2>3 DEF x
<1>3. CASE x + 1 # d
  <2>1. n + 1 = d * q + (x + 1) /\ d * q + (x + 1) \in Nat /\ x + 1 \in 0 .. (d - 1)
    BY <1>1, <1>3
  <2>2. (d * q + (x + 1)) % d = x + 1
    BY <1>1, <2>1, ModUnique
  <2> QED BY <1>3, <2>1, <2>2 DEF x
<1> QED BY <1>2, <1>3

(* Adding multiples of the divisor changes nothing.                        *)
LEMMA ModShift ==
  ASSUME NEW d \in Nat \ {0}, NEW n \in Nat, NEW m \in Nat, m % d = 0
  PROVE  (n + m) % d = n % d
<1> DEFINE q == n \div d
           x == n % d
           k == m \div d
<1>1. q \in Nat /\ x \in 0 .. (d - 1) /\ n = d * q + x
  BY DivMod
<1>2. k \in Nat /\ m = d * k
  BY DivMod
<1> HIDE DEF q, x, k
<1>3. d * (q + k) = d * q + d * k
  BY <1>1, <1>2
<1>4. n + m = d * (q + k) + x /\ d * (q + k) + x \in Nat
  BY <1>1, <1>2, <1>3
<1>5. (d * (q + k) + x) % d = x
  BY <1>1, <1>2, <1>4, ModUnique
<1> QED BY <1>4, <1>5 DEF x

(* The time since the ticker fired: where it starts, that it is nought     *)
(* exactly when the ticker fires, and how it goes on, across midnight too. *)
LEMMA SinceRange ==
  ASSUME NEW c \in Nat, NEW o \in 0 .. DiskEvery - 1
  PROVE  Since(c, o) \in 0 .. DiskEvery - 1
BY NightlyAssumption DEF Since

LEMMA SinceNext ==
  ASSUME NEW c \in Nat, NEW o \in 0 .. DiskEvery - 1
  PROVE  Since(c + 1, o) = IF Since(c, o) + 1 = DiskEvery THEN 0 ELSE Since(c, o) + 1
<1> DEFINE n == c + (DiskEvery - o)
<1>1. n \in Nat /\ DiskEvery \in Nat \ {0}
  BY NightlyAssumption
<1>2. (c + 1) + (DiskEvery - o) = n + 1
  BY NightlyAssumption
<1>3. (n + 1) % DiskEvery = IF (n % DiskEvery) + 1 = DiskEvery THEN 0 ELSE (n % DiskEvery) + 1
  <2> HIDE DEF n
  <2> QED BY <1>1, ModNext
<1>4. Since(c, o) = n % DiskEvery /\ Since(c + 1, o) = (n + 1) % DiskEvery
  BY <1>2 DEF Since
<1> QED BY <1>3, <1>4

LEMMA SinceMidnight ==
  ASSUME NEW o \in 0 .. DiskEvery - 1
  PROVE  Since(Day, o) = Since(0, o)
<1>1. Day + (DiskEvery - o) = (DiskEvery - o) + Day /\ DiskEvery - o \in Nat
      /\ 0 + (DiskEvery - o) = DiskEvery - o /\ Day \in Nat
  BY NightlyAssumption
<1>2. ((DiskEvery - o) + Day) % DiskEvery = (DiskEvery - o) % DiskEvery
  BY <1>1, ModShift, NightlyAssumption
<1> QED BY <1>1, <1>2 DEF Since

LEMMA SinceZero ==
  ASSUME NEW c \in Nat, NEW o \in 0 .. DiskEvery - 1
  PROVE  Since(c, o) = 0 <=> c % DiskEvery = o
<1> DEFINE d == DiskEvery
           q == c \div d
           x == c % d
<1>1. d \in Nat \ {0} /\ q \in Nat /\ x \in 0 .. (d - 1) /\ c = d * q + x
  BY DivMod, NightlyAssumption
<1> HIDE DEF d, q, x
<1>2. CASE x >= o
  <2> DEFINE p == q + 1
             y == x - o
  <2>1. d * (q + 1) = d * q + d
    BY <1>1
  <2>2. p \in Int /\ y \in 0 .. (d - 1) /\ c + (d - o) = d * p + y /\ d * p + y \in Nat /\ (y = 0 <=> x = o)
    BY <1>1, <1>2, <2>1 DEF d
  <2> HIDE DEF p, y
  <2>3. (d * p + y) % d = y
    BY <1>1, <2>2, ModUnique
  <2>4. (c + (d - o)) % d = y
    BY <2>2, <2>3
  <2> QED BY <2>2, <2>4 DEF d, x, Since
<1>3. CASE x < o
  <2> DEFINE y == x + (d - o)
  <2>1. q \in Int /\ y \in 0 .. (d - 1) /\ c + (d - o) = d * q + y /\ d * q + y \in Nat /\ y # 0 /\ x # o
    BY <1>1, <1>3 DEF d
  <2> HIDE DEF y
  <2>2. (d * q + y) % d = y
    BY <1>1, <2>1, ModUnique
  <2>3. (c + (d - o)) % d = y
    BY <2>1, <2>2
  <2> QED BY <2>1, <2>3 DEF d, x, Since
<1> QED BY <1>1, <1>2, <1>3 DEF d

-----------------------------------------------------------------------------
(* What a tick does to the time since the ticker fired and to its channel. *)
LEMMA TickSince ==
  ASSUME NightlyInv, NightlyTick
  PROVE  /\ since \in 0 .. DiskEvery - 1
         /\ since' = IF since + 1 = DiskEvery THEN 0 ELSE since + 1
         /\ (diskDue' <=> (diskDue \/ since' = 0))
<1>1. clock \in Nat /\ clock' \in Nat /\ tickAt \in 0 .. DiskEvery - 1 /\ tickAt' = tickAt
  BY NightlyAssumption DEF NightlyInv, Ranges, NightlyTick
<1>2. since' = Since(clock', tickAt)
  BY <1>1 DEF since
<1>3. since' = Since(clock + 1, tickAt)
  <2>1. CASE clock + 1 = Day
    <3>1. clock' = 0
      BY <2>1 DEF NightlyTick
    <3> QED BY <1>1, <1>2, <2>1, <3>1, SinceMidnight
  <2>2. CASE clock + 1 # Day
    <3>1. clock' = clock + 1
      BY <2>2 DEF NightlyTick
    <3> QED BY <1>2, <3>1
  <2> QED BY <2>1, <2>2
<1>4. since' = 0 <=> clock' % DiskEvery = tickAt
  BY <1>1, <1>2, SinceZero
<1>5. since \in 0 .. DiskEvery - 1
  BY <1>1, SinceRange DEF since
<1>6. since' = IF since + 1 = DiskEvery THEN 0 ELSE since + 1
  BY <1>1, <1>3, SinceNext DEF since
<1>7. diskDue' <=> (diskDue \/ clock' % DiskEvery = tickAt)
  BY DEF NightlyTick
<1> QED BY <1>4, <1>5, <1>6, <1>7

LEMMA NightlyInvInit ==
  ASSUME Apart, NightlyInit
  PROVE  NightlyInv
<1>1. clock \in Nat /\ tickAt \in 0 .. DiskEvery - 1 /\ clock % DiskEvery = tickAt
  BY NightlyAssumption DEF NightlyInit
<1>2. since = 0
  BY <1>1, SinceZero DEF since
<1>3. Ranges
  BY NightlyAssumption DEF NightlyInit, NextNight, Ranges
<1>4. Keeps
  BY <1>2, NightlyAssumption DEF NightlyInit, Keeps
<1> QED BY <1>3, <1>4, NightlyAssumption DEF NightlyInit, NextNight, NightlyInv

LEMMA NightlyInvTick ==
  ASSUME Apart, NightlyInv, NightlyTick
  PROVE  NightlyInv'
<1> USE NightlyAssumption
<1> DEFINE s == since
<1>1. /\ s \in 0 .. DiskEvery - 1
      /\ s' = IF s + 1 = DiskEvery THEN 0 ELSE s + 1
      /\ (diskDue' <=> (diskDue \/ s' = 0))
  BY TickSince
<1>2. /\ turn = "select" => ~diskDue /\ ~NightDue
      /\ turn = "check" => busy < MaxCheck
      /\ turn = "job" => busy < MaxNight
      /\ busy' = IF turn = "select" THEN 0 ELSE busy + 1
      /\ unchecked' = unchecked + 1
      /\ UNCHANGED <<tickAt, turn, timer, had>>
  BY DEF NightlyTick
<1>3. IF clock + 1 = Day THEN day' = day + 1 /\ clock' = 0 ELSE day' = day /\ clock' = clock + 1
  BY DEF NightlyTick
<1>4. Ranges'
  BY <1>2, <1>3 DEF NightlyInv, Ranges
<1>5. clock' = Night => MaxCheck < s'
  <2>1. tickAt' \in TickAt
    BY <1>4 DEF Ranges
  <2>2. s' = Since(clock', tickAt')
    BY DEF since
  <2> QED BY <2>1, <2>2 DEF Apart
<1>6. CASE Keeps
  <2>1. Keeps'
    <3>1. CASE turn = "select"
      BY <1>1, <1>2, <1>6, <3>1 DEF NightlyInv, Ranges, Keeps
    <3>2. CASE turn = "check"
      BY <1>1, <1>2, <1>6, <3>2 DEF Apart, NightlyInv, Ranges, Keeps
    <3> QED BY <1>6, <3>1, <3>2 DEF NightlyInv, Ranges, Keeps
  <2>2. had = day \/ clock < Night
    BY <1>2, <1>6 DEF NightlyInv, Ranges, Keeps, NightDue
  <2>3. clock' = Night => turn' = "select" /\ ~diskDue'
    <3>1. turn' = "check" => busy' = s' /\ busy' <= MaxCheck
      BY <1>4, <2>1 DEF Ranges, Keeps
    <3>2. turn' = "select" /\ diskDue' => s' = 0
      BY <2>1 DEF Keeps
    <3>3. turn' \in {"select", "check"} /\ s' \in Nat
      BY <1>1, <1>4, <2>1 DEF Ranges, Keeps
    <3> HIDE DEF s
    <3> QED BY <1>5, <3>1, <3>2, <3>3
  <2>4. clock' < Night => had' = day' - 1
    BY <1>2, <1>3, <2>2 DEF NightlyInv, Ranges
  <2>5. clock' > Night => had' = day'
    BY <1>2, <1>3, <2>2 DEF NightlyInv, Ranges
  <2>6. had' \in {day' - 1, day'}
    BY <1>2, <1>3, <2>2 DEF NightlyInv, Ranges
  <2>7. turn' = "select" => timer' = IF had' = day' THEN day' + 1 ELSE day'
    BY <1>2, <1>3, <2>2 DEF NightlyInv, Ranges
  <2> QED BY <1>4, <2>1, <2>3, <2>4, <2>5, <2>6, <2>7 DEF NightlyInv
<1>7. CASE CatchesUp /\ ~Keeps
  <2>1. turn # "select" /\ clock + 1 < Day
    BY <1>2, <1>7 DEF Apart, NightlyInv, Ranges, CatchesUp
  <2>2. clock' = clock + 1 /\ day' = day
    BY <1>3, <2>1 DEF NightlyInv, Ranges
  <2>3. CatchesUp'
    <3>1. CASE turn = "job"
      BY <1>1, <1>2, <1>7, <2>2, <3>1 DEF NightlyInv, Ranges, CatchesUp
    <3>2. CASE turn = "check" /\ clock <= Night + MaxNight + busy /\ (diskDue => since <= busy)
      BY <1>1, <1>2, <1>7, <2>2, <3>2 DEF NightlyInv, Ranges, CatchesUp
    <3>3. CASE turn = "check" /\ clock <= Night + MaxNight + MaxCheck + busy /\ ~diskDue
               /\ since <= MaxCheck + busy
      BY <1>1, <1>2, <1>7, <2>2, <3>3 DEF Apart, NightlyInv, Ranges, CatchesUp
    <3> QED BY <1>7, <2>1, <3>1, <3>2, <3>3 DEF NightlyInv, Ranges, CatchesUp
  <2> QED BY <1>2, <1>4, <1>7, <2>1, <2>2, <2>3 DEF NightlyInv, Ranges, CatchesUp
<1> QED BY <1>6, <1>7 DEF NightlyInv

(* The timer is made anew, and the disk looked at, or not at the end of a  *)
(* run that failed.                                                        *)
LEMMA NightlyInvEnd ==
  ASSUME Apart, NightlyInv, EndCheck \/ EndJob
  PROVE  NightlyInv'
<1> USE NightlyAssumption
<1>1. /\ turn' = "select" /\ busy' = 0
      /\ timer' = IF clock < Night THEN day ELSE day + 1
      /\ UNCHANGED <<day, clock, tickAt, diskDue, had>>
      /\ \/ turn = "check" /\ unchecked' = 0
         \/ turn = "job" /\ unchecked' \in {0, unchecked}
  BY DEF EndCheck, EndJob, CheckDisk, NextTurn, NextNight
<1>2. Ranges'
  BY <1>1 DEF Apart, NightlyInv, Ranges
<1>3. since' = since /\ since \in 0 .. DiskEvery - 1
  <2>1. clock \in Nat /\ tickAt \in 0 .. DiskEvery - 1
    BY DEF NightlyInv, Ranges
  <2>2. Since(clock, tickAt) \in 0 .. DiskEvery - 1
    BY <2>1, SinceRange
  <2> QED BY <1>1, <2>2 DEF since
<1>4. had = day \/ clock < Night
  BY <1>1 DEF NightlyInv, Ranges, Keeps
<1>5. CASE Keeps
  <2>1. Keeps' /\ ~diskDue'
    BY <1>1, <1>3, <1>5 DEF NightlyInv, Ranges, Keeps
  <2> QED BY <1>1, <1>2, <1>4, <2>1 DEF NightlyInv, Ranges
<1>6. CASE CatchesUp /\ ~diskDue
  <2>1. unchecked' <= since
    BY <1>1, <1>3, <1>6 DEF NightlyInv, Ranges, CatchesUp
  <2>2. Keeps'
    BY <1>1, <1>2, <1>3, <1>6, <2>1 DEF Ranges, Keeps
  <2> QED BY <1>1, <1>2, <1>4, <1>6, <2>2 DEF NightlyInv, Ranges, CatchesUp
<1>7. CASE CatchesUp /\ diskDue
  <2>1. unchecked' <= DiskEvery + MaxNight
    <3>1. CASE turn = "check"
      BY <1>1, <3>1
    <3>2. CASE turn = "job"
      BY <1>1, <1>7, <3>2 DEF NightlyInv, Ranges, CatchesUp
    <3> QED BY <1>1, <3>1, <3>2
  <2>2. \/ clock <= Night + MaxNight
        \/ clock <= Night + MaxNight + MaxCheck /\ since <= MaxCheck
    <3>1. CASE turn = "check"
      BY <1>1, <1>3, <1>7, <3>1 DEF NightlyInv, Ranges, CatchesUp
    <3>2. CASE turn = "job"
      BY <1>1, <1>7, <3>2 DEF NightlyInv, Ranges, CatchesUp
    <3> QED BY <1>1, <3>1, <3>2
  <2>3. CatchesUp'
    BY <1>1, <1>3, <1>7, <2>1, <2>2 DEF CatchesUp
  <2> QED BY <1>1, <1>2, <1>4, <1>7, <2>3 DEF NightlyInv, Ranges, CatchesUp
<1> QED BY <1>5, <1>6, <1>7 DEF NightlyInv

LEMMA NightlyInvTakeDisk ==
  ASSUME Apart, NightlyInv, TakeDisk
  PROVE  NightlyInv'
<1> USE NightlyAssumption
<1>1. /\ turn = "select" /\ diskDue /\ ~diskDue' /\ turn' = "check" /\ busy' = 0
      /\ UNCHANGED <<day, clock, tickAt, timer, had, unchecked>>
  BY DEF TakeDisk
<1>2. Ranges'
  BY <1>1 DEF NightlyInv, Ranges
<1>3. since' = since
  BY <1>1 DEF since
<1>4. CASE Keeps
  <2>1. Keeps'
    BY <1>1, <1>3, <1>4 DEF NightlyInv, Ranges, Keeps
  <2> QED BY <1>1, <1>2, <2>1 DEF NightlyInv
<1>5. CASE CatchesUp
  <2>1. CatchesUp'
    BY <1>1, <1>3, <1>5 DEF NightlyInv, Ranges, CatchesUp
  <2> QED BY <1>1, <1>2, <1>5, <2>1 DEF NightlyInv, CatchesUp
<1> QED BY <1>4, <1>5 DEF NightlyInv

(* The night is taken at 03:17 itself, in the loop's ordinary course.      *)
LEMMA NightlyInvTakeNight ==
  ASSUME Apart, NightlyInv, TakeNight
  PROVE  NightlyInv'
<1> USE NightlyAssumption
<1>1. turn = "select" /\ had # day /\ timer = day /\ clock = Night /\ Keeps /\ ~diskDue
  BY DEF NightlyInv, Ranges, TakeNight, NightDue
<1>2. had' = day' /\ UNCHANGED <<day, clock, tickAt, diskDue, unchecked>>
  BY <1>1 DEF TakeNight
<1>3. since' = since /\ since \in 0 .. DiskEvery - 1
  <2>1. clock \in Nat /\ tickAt \in 0 .. DiskEvery - 1
    BY DEF NightlyInv, Ranges
  <2>2. Since(clock, tickAt) \in 0 .. DiskEvery - 1
    BY <2>1, SinceRange
  <2> QED BY <1>2, <2>2 DEF since
<1>4. CASE paused
  <2>1. turn' = "select" /\ busy' = 0 /\ timer' = day + 1
    BY <1>1, <1>4 DEF TakeNight, NextTurn, NextNight, NightlyInv, Ranges
  <2>2. Ranges' /\ Keeps'
    BY <1>1, <1>2, <1>3, <2>1 DEF NightlyInv, Ranges, Keeps
  <2> QED BY <1>1, <1>2, <2>1, <2>2 DEF NightlyInv, Ranges
<1>5. CASE ~paused
  <2>1. turn' = "job" /\ busy' = 0 /\ timer' = timer
    BY <1>5 DEF TakeNight
  <2>2. Ranges' /\ CatchesUp'
    BY <1>1, <1>2, <1>3, <2>1 DEF NightlyInv, Ranges, Keeps, CatchesUp
  <2> QED BY <1>1, <1>2, <2>1, <2>2 DEF NightlyInv, Ranges
<1> QED BY <1>4, <1>5

LEMMA NightlyInvNext ==
  ASSUME Apart, NightlyInv, [NightlyNext]_nightlyVars
  PROVE  NightlyInv'
<1>1. CASE Disk \/ UNCHANGED nightlyVars
  <2>1. UNCHANGED <<day, clock, tickAt, diskDue, turn, busy, timer, had, unchecked>>
    BY <1>1 DEF Disk, nightlyVars
  <2> QED BY <2>1 DEF NightlyInv, Ranges, Keeps, CatchesUp, since
<1> QED BY <1>1, NightlyInvTick, NightlyInvEnd, NightlyInvTakeDisk, NightlyInvTakeNight DEF NightlyNext

-----------------------------------------------------------------------------
(* The "nightly rollup and prune" (maintenanceLoop): no day ends without   *)
(* its 03:17 having been acted upon, for any period, offset and durations  *)
(* that keep apart.                                                        *)
THEOREM NoNightLost ==
  ASSUME Apart
  PROVE  NightlySpec => EveryNight
<1>1. NightlyInit => NightlyInv
  BY NightlyInvInit
<1>2. NightlyInv /\ [NightlyNext]_nightlyVars => NightlyInv'
  BY NightlyInvNext
<1>3. ASSUME NightlyInv, [NightlyNext]_nightlyVars
      PROVE  [day' # day => had = day]_nightlyVars
  <2>1. SUFFICES ASSUME NightlyTick, day' # day PROVE had = day
    BY <1>3 DEF NightlyNext, TakeDisk, EndCheck, TakeNight, EndJob, Disk, nightlyVars
  <2>2. clock + 1 = Day
    BY <2>1 DEF NightlyTick
  <2>3. clock \in 0 .. Day - 1 /\ Night \in 0 .. Day - 1 /\ Day \in Nat
    BY <1>3, NightlyAssumption DEF NightlyInv, Ranges
  <2>4. CASE clock > Night
    BY <1>3, <2>4 DEF NightlyInv
  <2>5. CASE clock = Night /\ had # day
    <3>1. turn = "select" /\ timer = day
      BY <1>3, <2>5 DEF NightlyInv
    <3>2. NightDue
      BY <2>3, <2>5, <3>1 DEF NightDue
    <3> QED BY <2>1, <3>1, <3>2 DEF NightlyTick
  <2> QED BY <2>2, <2>3, <2>4, <2>5
<1> QED BY <1>1, <1>2, <1>3, PTL DEF NightlySpec, EveryNight

LEMMA KnowsInvariant == NightlySpec => []Knows
<1>1. NightlyInit => Knows
  BY DEF NightlyInit, Knows
<1>2. Knows /\ [NightlyNext]_nightlyVars => Knows'
  <2> SUFFICES ASSUME Knows, [NightlyNext]_nightlyVars PROVE Knows'
    OBVIOUS
  <2> USE NightlyAssumption
  <2>1. CASE TakeDisk \/ TakeNight \/ UNCHANGED nightlyVars
    BY <2>1 DEF TakeDisk, TakeNight, nightlyVars, Knows
  <2>2. CASE EndCheck
    BY <2>2 DEF EndCheck, CheckDisk, Knows
  <2>3. CASE EndJob
    BY <2>3 DEF EndJob, CheckDisk, Knows
  <2>4. CASE Disk
    BY <2>4 DEF Disk, Knows
  <2>5. CASE NightlyTick
    BY <2>5 DEF NightlyTick, Blind, Knows
  <2> QED BY <2>1, <2>2, <2>3, <2>4, <2>5 DEF NightlyNext
<1> QED BY <1>1, <1>2, PTL DEF NightlySpec

(* "Disk is checked far more often than the nightly job runs": under the   *)
(* same conditions a disk that keeps to its side of the floor, and lets    *)
(* itself be looked at, for longer than a period, a check and a nightly    *)
(* run has set checkDisk's guard, whatever ticks the channel drops and     *)
(* however the runs end: statfs is tried at least that often.              *)
THEOREM GuardSees ==
  ASSUME Apart
  PROVE  NightlySpec => []GuardNeverBlind
<1>1. NightlyInit => NightlyInv
  BY NightlyInvInit
<1>2. NightlyInv /\ [NightlyNext]_nightlyVars => NightlyInv'
  BY NightlyInvNext
<1>3. ASSUME NightlyInv, Knows
      PROVE  GuardNeverBlind
  <2>1. unchecked <= Blind
    <3>1. CASE Keeps
      BY <1>3, <3>1, NightlyAssumption DEF NightlyInv, Ranges, Keeps, Blind
    <3>2. CASE CatchesUp
      BY <1>3, <3>2, NightlyAssumption DEF NightlyInv, Ranges, CatchesUp, Blind
    <3> QED BY <1>3, <3>1, <3>2 DEF NightlyInv
  <2> QED BY <1>3, <2>1, NightlyAssumption DEF Knows, GuardNeverBlind, Blind
<1> QED BY <1>1, <1>2, <1>3, KnowsInvariant, PTL DEF NightlySpec

-----------------------------------------------------------------------------
(***************************************************************************)
(* RequestLimiter.  However many goroutines share the limiter, two         *)
(* requests are never closer than the gap less the lag.  SendsSpaced alone *)
(* is not inductive: the slots still to be used must be known to lie far   *)
(* enough after the last request, which follows from the slots being a gap *)
(* apart.  Nor is WaitBounded, see Filled.                                 *)
(***************************************************************************)
(* Slots in hand are a gap apart, before `next`, and not overdue.          *)
SlotsApart ==
  \A c \in waiting :
    /\ slot[c] + Gap <= next
    /\ instant <= slot[c] + Lag
    /\ \A d \in waiting : d # c => slot[c] + Gap <= slot[d] \/ slot[d] + Gap <= slot[c]

(* Nobody will send sooner than the gap, less the lag, after the last one; *)
(* a lag beyond the gap could reorder the senders, and promises nothing.   *)
Clear ==
  /\ sent <= instant
  /\ Lag < Gap /\ sent # -1 =>
       /\ next >= sent + Gap - Lag
       /\ \A c \in waiting : slot[c] >= sent + Gap - Lag

SpacedInv == LimiterTypeOK /\ SlotsApart /\ Clear /\ SendsSpaced

LEMMA SpacedInvNext ==
  ASSUME SpacedInv, [LimiterNext]_limiterVars
  PROVE  SpacedInv'
<1> USE LimiterAssumption
<1>1. ASSUME NEW c \in Caller, Take(c) PROVE SpacedInv'
  <2>1. Later(next, instant) \in Nat /\ Later(next, instant) >= next /\ Later(next, instant) >= instant
    BY DEF SpacedInv, LimiterTypeOK, Later
  <2>2. LimiterTypeOK'
    BY <1>1, <2>1 DEF SpacedInv, LimiterTypeOK, Take
  <2>3. SlotsApart'
    BY <1>1, <2>1 DEF SpacedInv, LimiterTypeOK, SlotsApart, Take
  <2>4. Clear' /\ SendsSpaced'
    BY <1>1, <2>1 DEF SpacedInv, LimiterTypeOK, Clear, SendsSpaced, Take
  <2> QED BY <2>2, <2>3, <2>4 DEF SpacedInv
<1>2. ASSUME NEW c \in Caller, Send(c) PROVE SpacedInv'
  <2>1. LimiterTypeOK'
    BY <1>2 DEF SpacedInv, LimiterTypeOK, Send
  <2>2. SlotsApart'
    BY <1>2 DEF SpacedInv, LimiterTypeOK, SlotsApart, Send
  <2>3. Clear'
    <3>1. next >= instant + Gap - Lag
      BY <1>2 DEF SpacedInv, LimiterTypeOK, SlotsApart, Send
    <3>2. ASSUME Lag < Gap, NEW d \in waiting, d # c PROVE slot[d] >= instant + Gap - Lag
      BY <1>2, <3>2 DEF SpacedInv, LimiterTypeOK, SlotsApart, Clear, Send
    <3> QED BY <1>2, <3>1, <3>2 DEF SpacedInv, LimiterTypeOK, Clear, Send
  <2>4. SendsSpaced'
    BY <1>2 DEF SpacedInv, LimiterTypeOK, Clear, SendsSpaced, Send
  <2> QED BY <2>1, <2>2, <2>3, <2>4 DEF SpacedInv
<1>3. ASSUME NEW c \in Caller, Cancel(c) PROVE SpacedInv'
  BY <1>3 DEF SpacedInv, LimiterTypeOK, SlotsApart, Clear, SendsSpaced, Cancel
<1>4. CASE Shutdown
  BY <1>4 DEF SpacedInv, LimiterTypeOK, SlotsApart, Clear, SendsSpaced, Shutdown
<1>5. CASE LimiterTick
  BY <1>5 DEF SpacedInv, LimiterTypeOK, SlotsApart, Clear, SendsSpaced, LimiterTick
<1>6. CASE UNCHANGED limiterVars
  BY <1>6 DEF SpacedInv, LimiterTypeOK, SlotsApart, Clear, SendsSpaced, limiterVars
<1> QED BY <1>1, <1>2, <1>3, <1>4, <1>5, <1>6 DEF LimiterNext

LEMMA SpacedInvInit == LimiterInit => SpacedInv
<1> SUFFICES ASSUME LimiterInit PROVE SpacedInv
  OBVIOUS
<1>1. LimiterTypeOK
  <2>1. stopped \in BOOLEAN
    BY DEF LimiterInit
  <2>2. waiting \subseteq Caller /\ slot \in [Caller -> Nat] /\ sent \in Nat \cup {-1}
    BY DEF LimiterInit
  <2> QED BY <2>1, <2>2, LimiterAssumption DEF LimiterInit, LimiterTypeOK
<1>2. SlotsApart /\ Clear /\ SendsSpaced
  BY LimiterAssumption DEF LimiterInit, SlotsApart, Clear, SendsSpaced
<1> QED BY <1>1, <1>2 DEF SpacedInv

(* WaitBounded is not inductive: a new caller is sent behind `next`, which *)
(* could be anywhere.  It is near because every slot before it that is not *)
(* due yet is some waiting caller's, and only so many can wait.            *)
Filled ==
  ~stopped =>
    \A j \in Nat \ {0} :
      next - Gap * j > instant => \E c \in waiting : slot[c] = next - Gap * j

WaitInv == LimiterTypeOK /\ Filled /\ WaitBounded

(* A caller that joins the line finds `next` within a gap for each caller: *)
(* were it further off, more slots would be taken than callers can wait.   *)
LEMMA NextNear ==
  ASSUME LimiterTypeOK, Filled, ~stopped, NEW c \in Caller, c \notin waiting
  PROVE  next - instant <= Gap * Cardinality(Caller)
<1> USE LimiterAssumption
<1> DEFINE N == Cardinality(Caller)
           Others == Caller \ {c}
           holder == [j \in 1..N |-> CHOOSE d \in waiting : slot[d] = next - Gap * j]
<1>1. IsFiniteSet(Others) /\ Cardinality(Others) = N - 1 /\ N \in Nat
  BY FS_RemoveElement, FS_CardinalityType
<1>2. IsFiniteSet(1..N) /\ Cardinality(1..N) = N
  <2>1. 1 \in Int /\ N \in Int
    BY <1>1
  <2>2. N > 0
    BY <1>1, FS_CardinalityType
  <2> HIDE DEF N
  <2> QED BY <2>1, <2>2, FS_Interval
<1> SUFFICES ASSUME next - instant > Gap * N PROVE FALSE
  BY <1>1 DEF LimiterTypeOK
<1> HIDE DEF N
<1>3. ASSUME NEW j \in 1..N PROVE holder[j] \in waiting /\ slot[holder[j]] = next - Gap * j
  <2>1. Gap * j <= Gap * N
    BY <1>1
  <2>2. next - Gap * j > instant
    BY <2>1, <1>1 DEF LimiterTypeOK
  <2>3. \E d \in waiting : slot[d] = next - Gap * j
    BY <2>2, <1>1 DEF Filled
  <2> QED BY <2>3
<1>4. holder \in [1..N -> Others]
  BY <1>3 DEF LimiterTypeOK
<1>5. PICK i, j \in 1..N : i # j /\ holder[i] = holder[j]
  <2> HIDE DEF holder, Others
  <2> QED BY <1>1, <1>2, <1>4, FS_PigeonHole
<1>6. next - Gap * i = next - Gap * j
  BY <1>3, <1>5
<1>7. Gap * i = Gap * j
  BY <1>6, <1>1 DEF LimiterTypeOK
<1> QED BY <1>5, <1>7, <1>1

LEMMA WaitInvNext ==
  ASSUME WaitInv, [LimiterNext]_limiterVars, LimiterTypeOK'
  PROVE  WaitInv'
<1> USE LimiterAssumption
<1>1. ASSUME NEW c \in Caller, Take(c) PROVE WaitInv'
  <2>1. Cardinality(Caller) \in Nat
    BY FS_CardinalityType
  <2>2. Later(next, instant) \in Nat /\ Later(next, instant) >= next /\ Later(next, instant) >= instant
    BY DEF WaitInv, LimiterTypeOK, Later
  <2>3. Later(next, instant) - instant <= Gap * Cardinality(Caller)
    BY <1>1, <2>1, NextNear DEF WaitInv, LimiterTypeOK, Later, Take
  <2>4. WaitBounded'
    BY <1>1, <2>1, <2>2, <2>3 DEF WaitInv, LimiterTypeOK, WaitBounded, Take
  <2>5. Filled'
    <3> SUFFICES ASSUME NEW j \in Nat \ {0}, next' - Gap * j > instant
                 PROVE  \E d \in waiting' : slot'[d] = next' - Gap * j
      BY <1>1 DEF Filled, Take
    <3>1. next' = Later(next, instant) + Gap /\ c \in waiting' /\ slot'[c] = Later(next, instant)
      BY <1>1 DEF WaitInv, LimiterTypeOK, Take
    <3>2. CASE j = 1
      <4>1. Gap * j = Gap
        BY <3>2
      <4> QED BY <3>1, <4>1, <2>2
    <3>3. CASE j > 1
      <4>1. Gap * j = Gap * (j - 1) + Gap /\ Gap * (j - 1) \in Nat
        OBVIOUS
      <4>2. Later(next, instant) - Gap * (j - 1) > instant /\ next' - Gap * j = Later(next, instant) - Gap * (j - 1)
        BY <3>1, <4>1, <2>2 DEF WaitInv, LimiterTypeOK
      <4>3. Later(next, instant) = next
        <5>1. Later(next, instant) > instant
          BY <4>1, <4>2, <2>2 DEF WaitInv, LimiterTypeOK
        <5> QED BY <5>1 DEF WaitInv, LimiterTypeOK, Later
      <4>4. PICK d \in waiting : slot[d] = next - Gap * (j - 1)
        <5>1. j - 1 \in Nat \ {0} /\ ~stopped /\ Filled
          BY <3>3, <1>1 DEF WaitInv, Take
        <5> QED BY <4>2, <4>3, <5>1 DEF Filled
      <4>5. d # c /\ d \in waiting' /\ slot'[d] = slot[d]
        BY <1>1 DEF WaitInv, LimiterTypeOK, Take
      <4> QED BY <4>2, <4>3, <4>4, <4>5
    <3> QED BY <3>2, <3>3
  <2> QED BY <2>4, <2>5 DEF WaitInv
<1>2. ASSUME NEW c \in Caller, Send(c) PROVE WaitInv'
  <2>1. WaitBounded'
    BY <1>2 DEF WaitInv, WaitBounded, Send
  <2>2. Filled'
    <3> SUFFICES ASSUME ~stopped, NEW j \in Nat \ {0}, next - Gap * j > instant
                 PROVE  \E d \in waiting' : slot[d] = next - Gap * j
      BY <1>2 DEF Filled, Send
    <3>1. PICK d \in waiting : slot[d] = next - Gap * j
      BY DEF WaitInv, Filled
    <3>2. d # c
      BY <1>2, <3>1 DEF Send, WaitInv, LimiterTypeOK
    <3> QED BY <1>2, <3>1, <3>2 DEF Send
  <2> QED BY <2>1, <2>2 DEF WaitInv
<1>3. ASSUME NEW c \in Caller, Cancel(c) PROVE WaitInv'
  BY <1>3 DEF WaitInv, Filled, WaitBounded, Cancel
<1>4. CASE Shutdown
  BY <1>4 DEF WaitInv, Filled, WaitBounded, Shutdown
<1>5. CASE LimiterTick
  <2>1. Cardinality(Caller) \in Nat
    BY FS_CardinalityType
  <2>2. WaitBounded'
    BY <1>5, <2>1 DEF WaitInv, LimiterTypeOK, WaitBounded, LimiterTick
  <2>3. Filled'
    <3> SUFFICES ASSUME ~stopped, NEW j \in Nat \ {0}, next - Gap * j > instant'
                 PROVE  \E d \in waiting : slot[d] = next - Gap * j
      BY <1>5 DEF Filled, LimiterTick
    <3>1. next - Gap * j \in Int
      BY LimiterAssumption DEF WaitInv, LimiterTypeOK
    <3>2. next - Gap * j > instant
      BY <1>5, <3>1 DEF LimiterTick, WaitInv, LimiterTypeOK
    <3> QED BY <3>2 DEF WaitInv, Filled
  <2> QED BY <2>2, <2>3 DEF WaitInv
<1>6. CASE UNCHANGED limiterVars
  BY <1>6 DEF WaitInv, Filled, WaitBounded, limiterVars
<1> QED BY <1>1, <1>2, <1>3, <1>4, <1>5, <1>6 DEF LimiterNext

(* limiter.wait: requests are spaced, and a job in line is delayed only by *)
(* the others in line, for any number of goroutines, any gap and any lag.  *)
THEOREM LimiterKeepsBoth == LimiterSpec => []Limited
<1>1. LimiterInit => WaitInv
  <2> SUFFICES ASSUME LimiterInit PROVE WaitInv
    OBVIOUS
  <2>1. LimiterTypeOK
    BY SpacedInvInit DEF SpacedInv
  <2>2. WaitBounded
    BY DEF LimiterInit, WaitBounded
  <2>3. Filled
    BY LimiterAssumption DEF LimiterInit, Filled
  <2> QED BY <2>1, <2>2, <2>3 DEF WaitInv
<1>2. LimiterInit => SpacedInv
  BY SpacedInvInit
<1>3. SpacedInv /\ [LimiterNext]_limiterVars => SpacedInv'
  BY SpacedInvNext
<1>4. SpacedInv /\ SpacedInv' /\ WaitInv /\ [LimiterNext]_limiterVars => WaitInv'
  BY WaitInvNext DEF SpacedInv
<1>5. SpacedInv /\ WaitInv => Limited
  BY DEF SpacedInv, WaitInv, Limited
<1> QED BY <1>1, <1>2, <1>3, <1>4, <1>5, PTL DEF LimiterSpec

=============================================================================
