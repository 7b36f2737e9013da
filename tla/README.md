# dreamstation.systems in TLA+

This directory is the verification project kept beside the repository. It
models the parts of the system whose correctness depends on order, failure and
time, checks them with TLC on small instances, and proves the statements that
matter most with TLAPS for every value of their constants.

Paths below are relative to the repository (`src/` in PROJECT.json).

## 1. The system

The repository holds a small web property and everything that runs it:

| part | where | state it keeps | operations |
|---|---|---|---|
| **Ingester** | openget/internal/ingest | nothing but `paused`; the timers of its goroutines | seven poll loops, the backfill, nightly maintenance, disk guard |
| **Upstream client** | openget/internal/wiki | ETag per endpoint, the limiter's next slot (memory only) | conditional GET with three attempts, per-item /timeseries, paged storeline query |
| **Store** | openget/internal/store | SQLite: items, latest, prices_5m/1h/24h, volumes, item_stats, indices, poll_runs, backfill_state, tokens and what hangs off them | upserts, rollup, prune, statistics, personal data |
| **Alerts** | openget/internal/store/ident.go | alerts, alert_events | evaluation after each statistics run, edits by the user |
| **Tokens** | openget/internal/{store,ident,web/personal.go} | tokens, favourites, prefs, ledger, gemini_certs | mint, touch, bind, import, forget, retire |
| **Web and API** | openget/internal/web | mint limiter, archive statistics cache | handlers, JSON API, pages |
| **Retro frontends** | openget/internal/retro | the last build time, the published tree | debounced rebuild of gopher/gemini trees |
| **Views, render, calc** | openget/internal/{views,render,calc} | none | pages as documents; tax, recipes |
| **Deploy** | stageSite.sh, promoteSite.sh, dangerouslyDeployImmediately.sh, deploy/ | staging tree, live trees, stamp of the last promoted commit | stage, promote, roll back, skip what is deployed |
| **Git hooks** | gitHooks/ | the index | checks and generators before a commit |
| **Status pipeline** | statusSample/, cgi/status.cgi | samples, snapshots pulled from the other host, stamps | sample, export, pull, render |
| **Fortunes** | cgi/fortunes.cgi, cgi/cookie.cgi | the fortune file and its .dat index | add, remove, rebuild, draw |
| **Build tools** | buildTimeTools/ | none | triptych templates, asset building, lawaPage |
| **Configuration** | fhs/, config.toml | none | nginx, systemd, logrotate |
| **Wiktionary Racing lobby** | staticish/http/.../wiktionaryRacingV2/{multiplayer,game}.js | each page's copy of the lobby, the data channels | join by hand-carried codes, ready, countdown, moves, departures |
| **Wiktionary Racing page** | staticish/http/.../wiktionaryRacingV2/game.js | the game, the screens, requests in flight, records in the browser | daily and practice games, links, records, following the room |
| **!~ATH interpreter** | staticish/http/.../personal/ath/tildeath.js | entities, scopes, branches, timers of a run | lex, parse, evaluate, run on the event loop |
| **Hypnospace page renderer** | staticish/http/.../hsptohtml/README/lib/hsp.js | the page's elements, motion, music, zoom, text view; choices in the browser | build, lay out, tick, controls |
| **Content** | staticish/, unbuiltContent/, docs/ | none | static files |

How they meet. The ingester's goroutines share one `store.DB` (one writer
connection, SQLite transactions) and one `wiki.Client` (one limiter). The alert
evaluation, the index samples and the retro rebuild run inside the `latest`
job, after the statistics. The web handlers write tokens, favourites, ledger
and alerts through the same store while the evaluation runs. `openget -once`
runs a single job in a second process beside the daemon. The deploy scripts
replace the daemon's binary and restart it. The status CGI reads files that a
timer on another host exports and a timer here pulls. The programs in pages share
nothing with the server but the files it hands out; two race pages meet through
the messages of the lobby.

What is hard here, and hardly reached by the repository's tests:

* interleaving of polls, backfill and the statements of the nightly run; of the
  alert evaluation with a user's edits; of two requests under one token;
* a restart or an error between two statements that belong together;
* conditional requests: an answer acknowledged upstream and lost here;
* schedules: a tick skipped, a nightly run missed, a bucket never polled;
* retention against rollup windows over many nights;
* pages: answers that come after the user went on; a build in flight when motion is
  switched; a callback that finds the scope, the screen or the room changed;
* an interpreter whose branches share one current scope, and whose timers, composites
  and errors must still let a run end.

PROJECT.json lists each hazard at its line with the properties that watch it.

## 2. Modules

| module | models | kind |
|---|---|---|
| PriceArchive | ingest.go, store/write.go: the three price tiers and all their writers | specification |
| PriceArchiveNightly | the schedule assumption, the inductive invariant, the refinement mapping | assumptions, invariant |
| HistoryLog | "the archive is the asset": what is covered only grows | abstract specification |
| AlertEvaluation | store/ident.go EvaluateAlerts with Recompute and the handlers that edit alerts | specification |
| FeedReplica | the tables follow the feed, forward only | abstract specification |
| ConditionalPoll | wiki.go: ETags, attempts, 304; ingest.go: a run and its outcome | specification |
| PollSchedule | untilNext: the tick of a bucket poll against the feed's publication | specification |
| NightlySchedule | maintenanceLoop: the disk ticker and the 03:17 timer in one select | specification |
| RequestLimiter | wiki.go limiter | specification |
| TokenStore | tokens, favourites, preferences, ledger and alerts as rows under a token; touch, caps, forget, retire | specification |
| RaceLobby | multiplayer.js: host, guests and the channels between them | specification |
| FortuneFile | fortunes.cgi: a fortune file and its index; cookie.cgi, which reads both | specification |
| AthLexer, AthParser, AthValues | tildeath.js: text to tokens, tokens to tree, values with operators and pure rites | operators |
| AthFrontEnd, AthLaws | the lexer against the language's lexemes, the parser against writing down by precedence; laws of the values | specifications over bounded inputs |
| AthTypes | tildeath.js: the forms of values and what counts as true, all that the run time needs of them | operators |
| AthRuntime | tildeath.js: the interpreter on the event loop | specification |
| RacePage | game.js with the page's side of multiplayer.js: screens, dialogs, games, requests, records, the room | specification |
| RaceWords | game.js: the random challenge, with its two checks of a word | specification |
| WordPage | game.js: where the links and pictures of a dictionary page lead; the order of the results; what the lobby tells | operators |
| HspText | hsp.js: escapes, wrapping, glyphs, the layers of a drawing, reading order, links | operators |
| HspElements | hsp.js: what moves on a page | specification |
| HspPage | hsp.js: building, and the controls with what the browser keeps | specification |
| PageLaws | WordPage and HspText against what they owe, one input at a time | specification over bounded inputs |
| PriceArchive_proofs, AlertEvaluation_proofs, TokenStore_proofs, FortuneFile_proofs, RaceLobby_proofs, AthRuntime_proofs | theorems about the module they are named after | proofs |
| Ingestion_proofs | theorems about ConditionalPoll, PollSchedule, NightlySchedule and RequestLimiter, which share neither state nor lemmas | proofs |
| Pages_proofs | theorems about RacePage, RaceWords, WordPage, HspPage, HspElements and HspText | proofs |
| MC*X* | small values for the constants of *X* | model checking |

An MC module gives values to constants. Five of them gather parts that share no state:
a variable `lane`, chosen at the start, says which part a behaviour looks at, and
the others stay where they began, so that the run is the sum of the parts and not
their product. MCArchive has the lanes archive and limiter; MCOpenget poll, schedule,
nightly, tokens and alerts; MCVisitors lobby and fortunes; MCAth run, text and law; MCPages
alone, room, hunt, text, gif, build, controls and law. MCPriceArchive,
MCPriceArchiveOutage, MCAlertEvaluation, MCTokenForget, MCFortuneFile and MCRaceLobby
hold the values of one part, for the runs that ask it alone and for those modules. Operators marked "a bug" in a
specification are not part of it: each is a plausible mistake in the operator
it stands before, kept to show that the properties notice it. Three modules
compose: PriceArchiveNightly adds to PriceArchive what the schedule must
promise; ConditionalPoll and PriceArchive each carry a refinement mapping to
the abstract specification named in the table.

## 3. The price archive

Source: `Run`, `Mapping`, `BucketPoll`, `backfillStep`, `Maintenance`,
`checkDisk` of ingest.go; `UpsertItems`, `UpsertBucket`, `UpsertTimeseries`,
`Rollup`, `Prune` of store/write.go.

**State.** `rows[t][b]` is the row of tier `t` that starts at `b`, as the set of
5-minute buckets its averages summarise; the empty set is no row. This is what
tells a complete row from one made of half its parts, which prices would not.
`listing` is the item's row in `items`, `filled` the `backfill_state` table,
`batch` a backfill pass under way, `paused` the disk guard, `stage` the
statement the nightly run executes next. One item stands for all: no statement
relates the rows of two.

**Actions.** One per statement, since each is a transaction of its own: the
polls and the backfill come between any two statements of `Maintenance`, and a
crash or an error (`Crash`, `MaintAbort`) after any.

**Run `archive`.** `RowsSound`: no row holds trades of another bucket, or of a 5-minute
bucket that has not closed. `ContributionsKept`: a stored row only gains.
`RollupReconstructs`: a coarse bucket whose own poll was missed is made good exactly by
the first rollup into its tier since the bucket had any closed part, given
its finer rows (`rolledAt`, history, is when a rollup last wrote the tier). A rollup
that came earlier stored a partial row, which is outside it: see `archive_open`.
`DeletedOnlyIfAbsorbed`: the prune deletes only what some coarser row stands for, which may be
such a partial one. `HistoryKept`: refinement of HistoryLog by "the moments some row
covers", again by a full or a partial row.

**Bounds.** 2 five-minute buckets to the hour, 2 hours to the day, 10 moments:
two whole days, several nightly runs, every retention limit reached in the 5m
tier and in the 1h tier. The item trades in moments 0, 2 and 3, so there are
hours without trade, with a partial and with a full one. `MaxGap` is 2, the
smallest value for which missed runs matter; with it no whole day goes by without a
rollup, so that in the run `RollupReconstructs` speaks of hours only. The proof has no such bound.

**What is assumed.** PriceArchiveNightly's assumptions are the relation between
configuration values under which the promise holds: `Window[to] >=
Reach[finer] + MaxGap` (a rollup looks back at least as far as rows can be late
plus the longest time without a rollup), `Keep >= Reach`, and a coarser tier
kept longer than the finer. In the repository's configuration: 48 h >= 10 min +
24 h, 14 d >= 49 h + 24 h. `MaxGap` is a condition on operation, not on the code.

**Run `archive_outage`** drops that condition: when the daemon is paused or
down for longer than the rollup window, the next prune deletes 5-minute rows
whose hour was never rolled up, although the comment above the prune says that
"nothing is deleted before the coarser tier has had its chance to absorb it".

**Run `archive_open`.** The comment above the rollups says that "a bucket that was still
open at the previous run gets recomputed with its full set of contributions".
It does not (`OpenBucketRecomputed`): the rollup inserts ON CONFLICT DO
NOTHING, so the row that 03:17 makes of an open hour or day stays as it is, with half
of the trades, when the bucket's own poll is missed. No outage is needed.

**Proved** (PriceArchive_proofs), for any widths, windows, retentions, trades
and lengths of time: `IInv`, `DeletedOnlyIfAbsorbed`, `RowsSound`,
`ContributionsKept`, `RollupReconstructs`, and the refinement `HistoryKept`. The deletion property
is not inductive. `IInv` adds: `Clock` (how far the last rollups are back),
`StageOrder` (the prunes are reached only through both rollups of the same
run), `Absorbed` (a fine row has its coarse row, or is young enough for the next
window) and `Trimmed` (while a tier is pruned, the finer one has no expired
rows left, so that a row deleted from the coarser tier leaves nothing below
it). Soundness has an invariant of its own that needs no assumption on the
deployment: rows lie at aligned starts (`RowsAligned`), so that a whole finer
row belongs into the bucket of its start. With it a rollup writes neither more
than upstream had (`RowsSound` of the next state) nor less (each moment of the
bucket lies in one finer bucket, inside bucket and window): that is
`RollupReconstructs`. The arithmetic of nested buckets is a group of lemmas on `%`.

## 4. Alerts

Source: `EvaluateAlerts`, `AddAlert`, `DeleteAlert` (store/ident.go), `postForget`
(personal.go), `Recompute` (ingest.go).

**State.** The rows of `alerts` and `tokens`, `fired` (those with `last_fired`
set), `holds` (the alerts whose condition the statistics satisfy), and of the
evaluation where it is, the rest of its list and the alert in hand. History:
`firings` counts the events of the period in which a condition has held without
a break, `torn` the failures in it between an event and its mark.

**Actions.** Scan, then for each entry: read `last_fired` again (`Take`), append
the event (`AppendEvent`), set (`Mark`) or clear (`Clear`) it - every one a separate
statement, with the web handlers and failures between them.

**Run `openget`, lane alerts**: three alerts of two readers. `OneEventPerEpisode` allows one
event to a period, plus one for each failure between event and mark: the two are
separate statements, so that much is real. `FiringShown` and `MarkedSilent` are
action properties about where events come from; `ArmedFires` is liveness: a
reader whose token is forgotten during a pass ends the pass (the foreign key
refuses the event) and yet cannot starve the others. *Fairness*: weak, on the
statistics and on the evaluation's steps - both are steps of the `latest` loop,
which gets a tick each minute for as long as the process lives. One pass may be cut
short (`MaxFail`), at any of its steps; those that a forgotten token ends come on top.

**Run `alerts_missed`**: the alerts page promises that an alert "re-arms after
it stops being true". A failed or cut short pass may miss the statistics on which a
condition did not hold; if it holds again at the next, the alert is still marked
and stays silent for the whole of the new period.

**Proved** (AlertEvaluation_proofs), assuming a single evaluator (`Alone(d)`,
the daemon; `openget -once` in a second process is outside of it):
`OneEventPerEpisode` (theorem OneEvent), `FiringShown` (FiringsSound) and
`MarkedSilent` (MarkedStaysSilent), for any alerts, readers and failures. The invariant `Episodes`
relates the counters to `fired` and the evaluator's place.

## 5. Conditional polling

Source: `getURL` and the ETag map (wiki.go), `runJob` and the jobs (ingest.go),
the `known` test of `UpsertLatest`/`UpsertBucket` (write.go).

**State.** Per feed: the version upstream serves, the ETag remembered, the
version stored, and the request in hand. `dropped` is history: the feed's last
answer was decoded, so its ETag is remembered, and did not reach the tables.

**Run `openget`, lane poll**: `OkIsCurrent` with that exception, `FollowsFeed`
(refinement of FeedReplica: forward only, nothing invented, whatever is retried
or restarted), and `Fresh`: each version or a later one is stored. *Fairness* (`FairTo`):
strong, for each of a run's good steps (tick, answer, decode, store) - the loop
ticks for ever, and neither the network nor restarts are assumed to hit the same
step each time. It is stated with the guards of those steps written out, as the
hypothesis of the property, so that it can be reasoned about without ENABLED. Three attempts as in the code; four versions, so that a version
is skipped, a retry meets a newer one, and a restart comes between.

The exception is real: the ETag is kept when the body is decoded, and when the
transaction then fails, the next polls get a 304 and are recorded as successes
while the rows are missing, until upstream changes (TLC finds it at once when
`OkIsCurrent` is stated without `\ dropped`). The same goes for ids that are not listed yet.

**Proved** (Ingestion_proofs): the refinement (TablesFollowFeed) and both
invariants (OkRunsAreCurrent) for any number of feeds, attempts and versions;
the invariants `Between` (stored <= answer <= upstream), `TagIsStored` (a remembered
ETag is that of the stored version, but for what was dropped) and `Vouched`. And
`Fresh` itself, a liveness property (FeedsStayFresh): a run is where it starts, asks, holds
an answer or stores; strong fairness to each of these gets it to the next or lets it fail, so a
feed of which a version is served and not yet stored cannot stay behind for ever.

## 6. Schedules and the limiter

**PollSchedule.** A bucket closes at a multiple of `Every`; upstream serves it
within `Settle`; the job runs at the start and `Settle` after each boundary,
computed from the end of the last run. A process may be started, and replaced, at any tick.
`EveryBucketRead` (run `openget`, lane schedule): no bucket is replaced upstream before it was
read, but for those a start has put at risk. The exception is the hazard at its line: a
run that starts after a boundary, before the bucket is served, and ends before the settled
tick, sleeps past that tick, since `untilNext` always adds a whole interval; and one that
starts too late to end in its period may come too late for that bucket, and skips the next tick.
`hasty` (history) is exactly these: the bucket just closed, if it was not yet read, and
the next. A start costs no other, and the schedule itself none. Ten ticks to the period, three of
them settling, runs of up to four: a start fits before, in and after the settling
time, and one that ends in its period, beside the boundary and past it. Proved (BucketsRead), for every interval,
settling time and set of starts, from one hypothesis: a scheduled run ends before the next boundary.

**NightlySchedule.** The timer for 03:17 is made anew on each turn of a loop that
the disk ticker also turns. `EveryNight` (lane nightly): with the ticker's phase away
from 03:17 no night is lost. The condition is needed: when the ticker fires within the
check's duration of 03:17, `select` may take the disk first, and the new timer is for
tomorrow: the night is lost. The run and the theorem leave that coincidence out. A day of 16 ticks with four
disk periods and four days lets every phase meet every other.

`GuardNeverBlind`: a nightly run that meets an error in a rollup or a prune returns
at once, without the look at the disk it otherwise ends with; a statfs that fails leaves the
guard as it was; and no tick is answered during a run. Nonetheless, once the disk has kept to
one side of the floor and statfs has worked for longer than a period, a check
and a nightly run (`steady > Blind`), ingestion is paused exactly if the disk is low.

Both are proved (NoNightLost, GuardSees) for any day, period and durations under the
hypothesis `Apart`: a check takes less than half a disk period, the ticker never fires
within a check's duration of 03:17, and a nightly run with the two checks behind
it ends the same day. The invariant has two modes. `Keeps`: checks start on the tick
that asks for them, so none is under way at 03:17. `CatchesUp`: behind a nightly run
there is at most one check that was held back and one that fell due meanwhile,
both before the next day. The values of the run satisfy `Apart`.

**RequestLimiter.** Callers take slots under the mutex and send when they are
scheduled. Run `archive`, lane limiter, `Limited`: requests are at least the gap less one caller's lag apart
(`SendsSpaced`), and nobody waits longer than a gap for each caller there is
(`WaitBounded`). Three callers, gap 3, lag 2. Proved (LimiterKeepsBoth) for any
callers, gap and lag; the invariant says that slots are a gap apart
(`SlotsApart`) and that the last request is clear of each slot still to come
(`Clear`). For the wait it says that each slot between now and the next free one is
some waiting caller's (`Filled`): were the next one further off than a gap for
each caller, two slots would have one holder.

## 7. Tokens and personal data

Source: `TouchToken`, `AddFavourite`, `AddLedger`, `AddAlert`, `SetPrefs`, `PruneTokens`
(store/ident.go), the handlers of web/personal.go.

**State.** `tokens` with their last touch, the rows under each token by table, and
for each handler its place: touch, count against the cap, insert. The three are
separate statements, and the count runs on another connection pool than the
insert. An import touches and adds again for each line. Time is abstract; a
handler takes at most `Patience`.

**Run `openget`, lane tokens.** `CapNearlyHeld`: handlers side by side may pass a cap together,
yet never by as many as there are of them. `NothingOrphaned`: nothing is stored
under a token that is not there; what a handler was about to store when its token was
forgotten is not stored, on connections of which only some enforce foreign keys. It does not say that a
forgotten token stays away: see `forget`. `KeptWhileUsed`: retirement waits for
`PruneAfter` from the last stored row, less a handler's time. `Retired`
(liveness): an idle token goes. *Fairness* (`PruneRuns`): weak, on the prune alone, its
guard written out (`Retiring`: some token is older than the horizon) - the nightly
run comes each night and, as long as its earlier statements do not fail for
ever, reaches it. Bounds: one token, two handlers, two items, a cap of 1 on one
counted table and one table without a cap: the smallest instance in
which two handlers are let through together and a third row is refused.

**Run `forget`.** The page that deletes everything says "It cannot be undone". Every trade of an
import touches the token first, though, and a touch inserts a token that is not there: an
import that is half way when its reader forgets brings the token back with its next
trade, and stores the rest under it. `ForgottenForGood` asks only that requests
under way at the time do not bring a token back (`late`, history), and fails.

**Proved** (TokenStore_proofs), for any tokens, handlers, items, tables and cap:
`IInv`, `CapNearlyHeld` (CapHeldWithinHandlers), `NothingOrphaned` (ForgottenMeansForgotten),
`KeptWhileUsed` (RetiredOnlyWhenIdle). The cap's invariant
counts the stored rows together with the handlers already let through; the
retirement's says that a handler past its touch touched recently
(`UsedSoonAfterTouch`). Assumption: a handler ends sooner than a token ages out.
`Retired` is proved as well (DormantGoInTheEnd): a token that is due stays due until it is
touched or pruned, so a prune that came never again would find `Retiring` not empty for ever.

## 8. The racing lobby

Source: multiplayer.js with the state-change handler and moves of game.js.
The host owns the lobby; every page keeps a copy, changed by messages over one
ordered channel per guest. Joining goes by codes carried by hand, so the copy a
guest starts from may be older than what the host has since sent to others.

**Run `visitors`, lane lobby**: two guests, a countdown of one, one click, one challenge, one departure
or failure, two messages in flight when a user acts. `ViewsConverge`: once a
guest has presented itself, applying what is on its way makes its copy the
host's, for everyone but itself. `NobodyEarly` and `NobodyLeftBehind` are about
the countdown against late channels. Guests are symmetric (no property names
one). The bounds cover a join, a departure and a broken channel at every
moment of a countdown and of a race; more clicks repeat the same messages.

**Proved** (RaceLobby_proofs), for any number of guests, clicks, races and messages in
flight: the types, `ViewsConverge` (LobbyConverges), `NobodyEarly` (LobbyWaits)
and `NobodyLeftBehind` (LobbyComplete). Applying what is on its way is a fold over
a queue. Two lemmas carry it: a message at the end of a queue is applied last, and
one taken from its head is applied first, so that every action of host and guest moves one
message from one side of the equation to the other. The invariant `RoomInv` has
besides `ViewsConverge`:

* `Presented`: a guest the host has not heard has its presentation on the way.
  Without it, a guest that the host broadcasts to would not be in the host's copy;
* `HostClock`: the host's interval, its copy and the number of races agree;
* `BeforeFirst`: until the first countdown is over no copy, no code carried by hand
  and no message on its way says that it is, which makes `NobodyEarly` inductive
  although guests start by what they read;
* `StartedAll`: whoever's copy says that the countdown is over has started.

`ViewsConverge` leaves a page's own record out, and the proof shows where that is
needed: a whole state that crosses the guest's own report overwrites what the
guest wrote of itself.

## 9. The fortune file

Source: the add, remove and create branches and `write_dat` of cgi/fortunes.cgi;
`offsets` and the drawing of cgi/cookie.cgi. Each request is a process.

**State.** `file` maps the offset of each fortune to the add that brought it, and
offsets count lines, a delimiter being one: what an index says, and what a
removal does to everything after it, are facts about offsets. `index` is the .dat
in place, `built` those about to be renamed over it. `saw` and `chosen` are what
an editor read and its user ticked, `look` what a drawing page holds. `epoch`,
`added` and `took` are history: an epoch is a stretch in which the file is only
appended to, an odd one the moment between a removal's write and its truncate.

**Actions.** Lock and append; list, lock (and compare the sum), rewrite, truncate;
then, without the lock, read the file and rename the index; and the page's
three steps: the file's length, the offsets, the text. `Overlaid` is the file as a
page sees it between rewrite and truncate, the old tail behind the new text.
`FortuneFail` returns an editor that died under the lock; one that dies elsewhere
is one that takes no further step, which safety allows.

**Run `visitors`, lane fortunes** (two adds of different lengths, two removals, one page).
`BooksBalance`: the file is what was added and not ticked, once each - a
stale listing, a lock left out or a wrong offset shows here. `DrawsWhole` and
`DrawsFromAll`: without a lock the page prints a whole fortune, from all there
are, whichever index it found; the exception is a removal between its
reading the offsets and its reading the text, which no order of its steps could
exclude, and an index that a removal has overtaken but whose end happens to be the
file's. Two fortunes of unequal length are the least in which a removal moves
one, two removals the least in which a listing goes stale.

**Run `fortunes_index`** (two adds and the create). `LastRenameCovers`, which the
comment over the rebuild states, fails: the request that read the file
first may rename last. cookie.cgi is safe from it (`DrawsFromAll`) since the index's
last offset is then short of the file; fortune(6) would miss a fortune until
the next change.

**Proved** (FortuneFile_proofs), for any number of requests and any lengths: all three.
Readings - indexes, and the offsets a page holds - carry the epoch they were made in,
and while it lasts they lack only what was appended since (`Snap`). That nothing is
lost rests on the layout: each fortune ends before the next begins (`Laid`), the
lines a removal takes are counted (`Left`), and what stays keeps its distance
(RemainingApart). Assumption: fortunes have at least a line, adds are told apart.

## 10. The !~ATH interpreter

Source: personal/ath/tildeath.js, a language whose loops wait for the death of
entities. Three layers, as in the file.

**Front end.** AthLexer and AthParser are operators: a text becomes tokens, the types
of the tokens a tree. The parser is data: each production is one definition in
terms of the few moves the code's functions are made of, and `Parse` makes
the moves. AthFrontEnd looks at one text or tree at a time. `FrontEndSound` compares
the lexer with a definition of the language's lexemes that needs no scanner (the
longest match, nothing but blanks and comments between, and an error only where no
lexeme begins), and the parser with the inverse direction: a tree written down
with the fewest parentheses its precedences allow is read as that tree, and what
is read can be written down and read again. The precedences are those of the language's
description (`!~ATH spec.md`) where it has any. In three places the parser and the
description differ, or the description is silent, and the property takes no side or
the parser's:

* the grammar (line 1092) puts `&&` and `||` between entities on one level, from left
  to right; the parser lets `&&` bind more. `A || B && C` is (A || B) && C to the one and
  A || (B && C) to the other. Trees are written down with parentheses wherever the two, or one of them and `!`, meet,
  so `FrontEndSound` holds under either and says nothing of such a text without them;
* lines 413 and 1166 make `EXECUTE()` a syntax error; the parser accepts it as an empty
  block. No program of the run has one, and the property neither asks for it to be read nor
  to be refused;
* the description does not order the bitwise operators: the parser's order is taken.

**Values.** AthValues is `evaluate` with the operators and the pure built-in rites,
on tagged tuples. `LawsHold` (AthLaws) asks what these owe one another: a quotient
and its remainder give back the dividend for both signs, the bitwise operators are
those of a signed word, what is split and joined, cut and put together, written and
parsed is what it was, and an operand that does not decide is not evaluated.

**Run time.** AthRuntime is the interpreter on its event loop. `ents` are the
entities ever made, `names` the interpreter's table, `scopes` with `current` (one
field, shared by everything that runs), `threads` the async functions as stacks
of frames: the program and a thread for each branch. Each statement ends in an
`await`, so any thread that is not blocked may take the next step; a timer fires only
when nothing else can run, a shorter one before a longer one set later.
`Throw` is the way out of frames with their `finally` clauses.

**Run `ath`.** `SequentialScope`: without branches the shared field is the scope
of the innermost rite or SALVAGE that was entered and not left, or the global one, whatever errors and waits
came. An EXECUTE block is not among them: the description gives each a scope of its own
(lines 940-946), the interpreter runs it in the scope around the loop and a variable
declared in it is seen after it; that is what is modelled. `CompositeSound`: `&&` and `||`
die for their reasons. `SiblingsSurvive`: a branch dies by itself, by name, or with
the program, not because its sibling ended. `EveryTimerEnds` (liveness): what is made
of timers dies and nobody waits for it any longer; until then the loop is never stuck
(`NeverStuck`). *Fairness*: weak, on the whole
next-state relation: the event loop goes on while anything can. *Bounds*: the
programs are all pairs of fourteen pieces (timers, rites that wait, handlers,
composites, names put to death, imports that fail), and all arrangements of three
with two branches; `MaxEntities` 8 is above what any of them makes. Texts of up to
five characters from the alphabets in which tokens are ambiguous; every statement and
every pair of operators as trees. Words of 8 bits in place of 32.

**Proved** (AthRuntime_proofs), for any program and any entities: `CompositeSound`,
`SequentialScope`, the action property `SiblingsSurvive` and the safety part of
`EveryTimerEnds` (TimersAlwaysGoOn). `AthInv` is about what is
kept by reference. `Whole`: an entity is made of entities made before it, and a dead
composite has its reason, which stays one because the dead stay dead. `NamesOf`:
names stand for entities that exist and never for a composite, so nothing puts one to
death but its reason. `Stacks`: each stack has the frame of the program, or of its branch,
at the bottom and nowhere else, so that an error that unwinds it ends that thread alone.
`InScope`: each frame that keeps a scope for later keeps the one in which the frames
around it stand; this makes `SequentialScope` inductive, since a return, an error or the
end of a wait puts back what a frame has kept. Frames hold values and statements of any
form, so a stack is only said to be a sequence. The guard `EntityExpr` of the loops states
what the parser makes of the expression behind `~ATH`: names and operators over those before
them; other programs cannot be written. For `NeverStuck`, parts being made before the whole
(`Whole`) gives the oldest living entity that is made of timers: its parts are dead, or it has
none, so either it is due or it is a timer, and then the first of the running timers can fire. The values that AthRuntime needs are
in AthTypes, since AthValues has recursive operators, which the provers cannot take.

**Run `ath_scope`.** Once there are branches, a thread may declare or assign in a
scope that is another thread's: while one branch waits inside of a rite, `current` is
the rite's. The language's description promises lexical scoping.

## 11. The race page

Source: wiktionaryRacingV2/game.js, and what multiplayer.js does in one page.

**RacePage.** `game` is `gameState`; `screen`, `modals` and `overlay` say what
covers what, and guards of buttons are that nothing covers them; `loads` are the
requests for dictionary pages in flight, answered in any order or failing, and
`shown` the page on display; `history` the records in the browser; `room` this
page's copy of the lobby, which changes by own acts, the other person's
reports, the countdown and the bot. Entering a room goes by codes, as in
multiplayer.js: `GenerateJoinCode`, `JoinCodeMade` when the candidates are gathered,
`CompleteJoin` with what the host's answer says of the room at that moment (waiting,
counting, racing); `Sections` is what `updateLobbyUI` offers a host and
a guest. `Told` is the handler of a change, which may begin
or end a race from whatever screen the page is on. `crossed` is history.

**Run `pages`, lanes alone and room.** `RecordsTrue`: whatever answers, races and
dialogs came between, a stored record is of a game of one's own, from its start
to its target, with one click for each step. `PathIsRoute`: each step of the
path follows a link of the page before it, as long as no two requests crossed - the
code does not tell a late answer from the current one, so then another page may be
on display than the path says. `OverlayLifts` (liveness): the overlay of the countdown
covers every button, so it must go; it does, unless the page is a guest's and the host
is gone, since then nobody counts down. Its safety part: whoever is covered has ticks to come and
no interval outlives its countdown (`Covered`), and no step puts the end off (`CountsDown`). *Fairness*: weak, on the tick alone, an
interval at the host and the host's messages over an ordered channel at a guest.
*Bounds*: four titles, two of which are one word in different case; two clicks and
two requests in flight alone (the least at which answers cross and a path is
taken back), one click, by a link, and one request in a room; a countdown of one, a bot that may
finish at once, one record kept.

**Run `race_again`.** When a race has ended, the room stays started with no
countdown. The page's condition for beginning a race is then met by any further change,
so the next one starts a race nobody asked for. The comment there says "Start the game
if countdown just ended".

**RaceWords** (lane hunt). Two words are looked for side by side, each in a
bounded number of tries; practice mode repeats that and keeps what it found. A title
is tried (`Tried`) by asking whether it is there and, when English is asked
for, whether it has an English section. Either request may fail: what cannot be looked up is not
there, but what cannot be checked for English is let through, which `blind` records.
`HuntSettles`: whatever the server answers the handler ends, and what it fills in are
two ordinary, existing words that are not the same but for case - also when they
come from different attempts, where the code compares them a second time - and, where
English was asked for and every such check was answered, nothing else is held on to
at any time. Each step leaves less to be asked (`HuntShortens`). *Fairness*:
weak, on the handler's steps: a request ends, by an answer or an error. Two tries
and two attempts in place of 5 and 10.

**WordPage** (lane law). Where the pictures of a dictionary page come from and what its
links do; the order of the results; what the lobby tells of each
player and why a race cannot begin yet. `PageLawsHold` says that
a live link stays in the dictionary and, if its address has no query, goes to the very word it points to; that one
that leaves the dictionary is dead, whatever its form; that a picture is asked for where the dictionary's own page would
ask, if its address has a scheme, a host or a path from the root;
and that the ranking puts finishers first, by time, ties as in the lobby. Two cases are left
out because the code does something else there. A link with a query: the pattern for
relative addresses stops at `#` only, so `/w/index.php?title=x` leads to the word
"index.php?title=x", and the one for absolute addresses drops the query, so that neither goes
to x. A picture whose path does not begin at the root: the code puts it there, where a browser on
`/wiki/...` would begin at `/wiki/`; only the host is then what it was. `LobbyTells`: the start button
is on exactly if the line below it says so, and a line that blames the players has
one to blame by its badge.

**Proved** (Pages_proofs), for any dictionary, clicks, requests and records:
`RecordsTrue` (RecordsAreTrue) and `PathIsRoute` (PathsAreRoutes). The two are far from inductive: a
record is made when a link is clicked, from a game begun long before. `PageInv` carries
what connects them. `Counted`: a game's clicks are the steps of its path, through
taking back, typing and victory. `OnScreen`: on the page of a game there is
one that is daily, practice or a race, or the results of a race cover it, so a record cannot be of
something else. `Steered`: only games of one's own are steered by typing. `Facing`: while
no two requests were in flight together, what is displayed or asked for is the
last word of the path, so the link that is clicked is a link of it. For the challenge
ChallengeIsSound states the safety half of `HuntSettles` (`HuntSound`), for any number
of tries and attempts and any server; the words held over from earlier attempts
make it an invariant (`HuntInv`) about everything the handler holds. HuntGetsShorter
proves its measure: the tries left of both words and, for each attempt left, the tries of a
whole attempt and one more, so a new attempt costs more than the tries it gives back.
CountdownComesToItsEnd proves the safety part of `OverlayLifts`. What the pages compute is
PagesShowWhatIs: see the end of the next section.

## 12. Hypnospace pages

Source: hsptohtml/README/lib/hsp.js.

**HspPage.** `Type` says of each element whether it is text or a gif, `Order` the
order in which they are read. `builds` are the builds in flight, each with the image it waits
for, since `build` awaits fonts and gifs one after the other; `els` what stands in the
document; `disk` and `session` what the browser keeps, if it grants storage.
Actions are an answer to a build, `setMotion`, buttons, keys, gestures, resizes,
reloads, and another tab of the same export that writes the same keys.

**Run `pages`, lanes build and controls.** `EachOnce`: when all is built each
element stands once, in reading order, moving or still as the button says, unless motion
was switched while a build was in flight. The exception is the code's: `setMotion` does not stop such a build, so switching
motion before the page is complete leaves elements twice and out of order; what is
checked, and proved, then is only that none is missing. An element stands where its place in the order is
(`Placed`), whichever answer came first. `ChoicesKept`: what the browser keeps is what the page does,
over reloads, resizes and each order of buttons and keys; music that was stopped stays
silent. Four elements of both kinds, two of them at one place; two builds.

**HspElements** (lanes text and gif). `AnimationsTurn`: pointers stay inside what they
point into, and nothing gets stuck: a typewriter shows all of its text and starts again, a
marquee enters again, a colour reaches both ends, however long frames take. *Fairness*:
weak, on the frames of the display, each at least a unit long: two frames at the
same instant turn the colour round at an end.

**Proved** (Pages_proofs), for any page, any number of builds in flight, scales and sizes:
`EachOnce` (ElementsStandOnce, with the exception above) and `ChoicesKept` (ChoicesAreKept). For the first, `BuildInv`
says what a build has made by the time it waits for an image (`Done`: everything of
its kind before it) and that, unless motion was switched meanwhile, there is one
build and nothing before it (`Single`). That the order is a permutation of the elements
is an induction over the length of the page, done on sets of indexes. For the
second, `ChoiceInv` has what music has waited for (`Heard`) and what a view shows
of what is kept (`Shows`).
PaintStaysInBounds states the safety half of `AnimationsTurn`, for any
length, speed, frame time and run of late frames. One clause needs a condition that
the proof brought out: a single frame of the display longer than a whole fade leaves
the counter of the fade beyond its end. What is painted is still right,
since `Opacity` is cut to its range; that part is proved for all frames.

**HspText** (lane law). Escapes, Construct 2's line breaking, glyphs, reading order
and links. `PageLawsHold`: wrapping loses nothing that can be seen, a line is wider than
the box only if it is one word, and none is broken where the next word would have
fit; doubled escapes are read as text; elements are read from top to bottom and, in
bands of eight pixels, from left to right; a link within the page has its target. All
texts of up to five characters.

PagesShowWhatIs proves `PageLawsHold` for every input of six kinds: links in content, images
(both with the two exceptions of section 11), lobby notices, anchors, the reading order and the ranking. The two orders are
the same argument: a list of the elements that is sorted by a strict order of keys, ties by
place, exists and is the only one. The other kinds (escapes, wrapping, painting) are folds along
a text, where a proof would be an induction over its length for each of
the operators that pass over it; they stay with TLC.

## 13. What is proved and what is not

PROJECT.json lists the theorems. All are proved from the named assumptions of the
modules and the hypotheses their statements carry, and nothing else. They hold
for every value of the constants, where the runs show small ones. Type
correctness is part of each inductive invariant.

| component | inductive invariant | what follows from it |
|---|---|---|
| archive | `IInv`; `SoundInv` | deletion, refinement of HistoryLog; soundness, contributions, reconstruction |
| alerts | `Episodes` | one event to a period, events only of armed alerts whose condition holds |
| ingestion | `Between`, `TagIsStored`, `Vouched`; `Keeps` and `CatchesUp`; `SlotsApart`, `Clear`, `Filled` | refinement of FeedReplica, successes are current, feeds stay fresh; no night lost, guard never blind; the limiter |
| tokens | `IInv` of TokenStore | the cap, forgetting, retirement, also that it comes |
| fortunes | `Snap`, `Laid`, `Left` | nothing lost, draws whole and from all |
| lobby | `RoomInv` | copies converge, nobody early, nobody left behind |
| interpreter | `AthInv` | composites, scopes, branches, no stuck timers |
| race page | `PageInv`; `HuntInv` | records, paths, the countdown; the challenge and its measure; links, pictures, notices, ranking |
| Hypnospace | `BuildInv`, `ChoiceInv`, `ElementsInv` | elements once, choices kept, painting in bounds; anchors, reading order |

Every safety property of a passing run is a theorem, but for two and a part of a third,
and so are two of the liveness properties, `Fresh` and `Retired`: with the guards of the fair
steps written out, a leads-to of one step, or of few named ones, follows from safety steps by
temporal logic alone. Left to TLC:

* the other liveness properties. `ArmedFires` and `AnimationsTurn` (but for
  `PaintInBounds`) take a number of steps that depends on the constants, `EveryTimerEnds`,
  `OverlayLifts` and `HuntSettles` one that depends on the state: each is a leads-to by
  induction on a measure, and the temporal rule for that is a theorem with an operator parameter,
  which no installed prover can instantiate; fairness to a whole next-state relation, as that of
  the interpreter, is about ENABLED besides. What is proved of these is all that is not
  temporal: that there is always a step to take (TimersAlwaysGoOn), that no step leads
  away from the end and which ones lead to it (CountdownComesToItsEnd, HuntGetsShorter), and what
  holds on the way (ChallengeIsSound, PaintStaysInBounds).
* `FrontEndSound` and `LawsHold`: lexer, parser and values are recursive operators,
  which the provers cannot take.
* the kinds of `PageLawsHold` that pass over a text, as section 12 says. Induction is
  done here only where it can be said of a set of numbers (a queue, a page, the entities).

CHECK_DEADLOCK is off where the clock or the number of acts is bounded and nothing
else repeats (the limiter in `archive`, the schedules in `openget`, the lobby in `visitors`, the
adds of `fortunes_index`), in a program of !~ATH, which ends, and in the pages,
where a lane of the run looks at one input only; the others can always move. Symmetry is used in
`visitors` only, over the guests and over the removals: no property of it is temporal, none
names one of them, and the constants treat them alike (the adds differ in length and
are not permuted).

## 14. Not modelled

Layout, wording and logging everywhere. Prices as numbers (only which trades a row
speaks for). The 6h view, derived on read. Statistics as formulas: alerts see the
set of conditions they satisfy. The token's text form and certificates
(`BindCert` has no caller). Two openget processes at once: ETags, limiter and
evaluation are then doubled, and what is said here of one evaluator and of one
limiter does not hold.

* !~ATH: lines and columns of messages, fractions, assignments into arrays and maps,
  printing and input, the clock and chance; the order in which promises resume (any
  is allowed); user rites inside of larger expressions.
* Race page: clocks, what the lobby and the history display, errors that are only
  displayed; entering a room from a page that is still in another (its channels would
  belong to both); the requests of one try of the random challenge are one step, and
  the two handlers of it are not run beside each other.
* Hypnospace pages: the sines (bob, sway, swing), which keep only an angle; sheets,
  markup and rounding to pixels; what another tab's writes do beyond the next reload.
* The lobby: a whole state the host sent before it had a guest's report may overwrite
  that guest's own record, which the host does not send back to its author.
  `ViewsConverge` leaves a page's own record out for that reason; PROJECT.json
  lists it as the one hazard no property covers.
* oldsite/: earlier copies of the pages; what is said of the current ones is not
  claimed of them.
* Deploy scripts, git hooks and the status pipeline: shell around rsync, git and
  files, run by one person or one timer at a time. They have hazards of their own (a
  failed shipment only warns while the stamp says all is live; files are installed
  before the first service is restarted; a frame that did not arrive leaves the older
  one in place under a new stamp) and would be the next to model.
* The other components without a module are listed in PROJECT.json with the reason.

## 15. What is left

In this order, each with its invariant and, where it is reachable, a theorem:

1. **Promote** - stage, promote, stamp, and the script that skips what the stamp
   vouches for: install, test and roll back with runs that stop half way.
2. **StatusPull** - sampler, export, pull, page: no figure looks younger than it is.
3. **Mint limiter with browsers** - two first writes of one browser, two tokens;
   the sweep of addresses.
4. Smaller parts: the archive statistics cache, retro debounce, index base,
   chunked shop download, migrations across restarts, tax and flips against a
   reference definition.
