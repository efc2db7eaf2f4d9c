# Pronostic-AI: a TLA+ model

Pronostic-AI is a football prediction platform. A *collector* copies fixtures
from API-Football into PostgreSQL, a *backend* predicts matches with an ML
service, caches predictions in Redis and pushes live updates to browsers over
WebSockets. This directory models the parts of the two Go programs that run
concurrently on shared state, and the algorithm that chooses a coupon, checks
them with TLC on small instances, and proves the central safety properties with
TLAPS for every instance.

## 1. Inventory

| Part | State it keeps | Operations | Talks to |
|---|---|---|---|
| Collector, match sync (`collector/internal/sync`, `httpadmin`, `cmd/collector`) | none of its own but the goroutines' local variables; writes `matches.status`, `live:match:<id>`, `collector:last_sync_date` | boot sync, cron jobs (00:05, sync interval, live interval), `/sync/today`, `/sync/date`, backfill | API-Football, PostgreSQL, Redis (keys and `ws:broadcast`), backend hooks |
| Collector, details (`syncFixtureDetails`, `SyncInjuries`, `SyncOdds`) | `match_statistics`, `match_events`, `injuries`, `match_odds` and its history | one upsert per team, delete and re-insert of events | API-Football, PostgreSQL |
| API-Football client | `lastCall`, shared by all jobs without a lock | one request at a time with retries on 429 | API-Football |
| Predictions (`backend/internal/predictions`) | `predictions` rows, `prediction:<id>` keys | GetPrediction, GetOrCreatePrediction, AnalyzeMatch, PreWarm, RunLivePrediction | ML service, AI agent, PostgreSQL, Redis |
| Live poller (`ws.LiveService`) | the list of the current poll, the previous prediction of each match | a poll every ten seconds | predictions, hub |
| WebSocket hub (`ws.Hub`) | the map of clients, the broadcast channel, each client's send channel | register, unregister, broadcast; readPump, writePump | browsers, poller, Redis subscriber |
| Evaluation (`backend/internal/evaluation`, `db`) | `prediction_outcomes`, `coupon_selection_outcomes`, `model_performance`, `notifications` | RunEvaluation: four statements in a row | called by the collector after every live sync |
| Coupons (`backend/internal/coupons`, `markets`) | `saved_coupons`, `coupon_selections` | Generate: candidates, the search for a combined odd, save | predictions, odds |
| Odds (`backend/internal/odds`) | none; reads `match_odds` and `match_odds_history` | market of a label, summary and trend of a market | matches API, coupons |
| Features and history enricher (`predictions/features.go`, `history_enricher.go`) | none | averages, last matches and meetings from the store, completed by API-Football when the store has few | API-Football, PostgreSQL |
| Matches API and sync trigger | `collector:sync:requested:<date>` | on-demand sync of a date, once per 30 minutes | collector |
| Rate limiter | visitors by address | count, window, clean-up goroutine | every route it wraps |
| Authentication, statistics, performance, notification endpoints | `users`, `notifications.read_at` | single statements | PostgreSQL |
| Frontend hooks | the React state of a live page | reconnect, merge of events | backend |
| ML service, AI agent, ML pipeline | models on disk | one HTTP call each; offline training | backend |

Hard behaviours. Nothing keeps two collector jobs apart: cron starts a
goroutine per firing, the admin endpoint one per request, and each holds its own
copy of the API's answer while others write the same rows. Every statement on
PostgreSQL or Redis is a step of its own, errors of Redis are ignored, the
collector may die between any two steps, and the calendar may turn over during a
job. In the backend a request reads the cache, then the table, then runs a model
that takes seconds, while the collector deletes the cache entry. In the hub,
connections break, stall and lag at any moment relative to registration,
unregistration and broadcast. A coupon and the features of a prediction are put
together from a dozen reads that are no transaction, while the collector rewrites
the odds and imports results. Evaluations overlap, because nothing keeps the
collector's trigger apart from another caller, and share one pool of connections,
of which a notification takes two. `PROJECT.json` lists each of these at its line.

What makes each part correct: a match that is over in time ends up finished and
unmarked and is announced only if it is really over; a cached prediction is one
that was saved; a live prediction is of a match in play; reads do not run the model
without bound; the hub never panics, keeps no dead client, sends without gaps
and is never blocked by one peer; outcomes are those of final results, nothing is
judged twice, and every verdict is told; a coupon is stored as its user was told,
and the search for its odd ends with one playable selection per match; features
count final results of the past, each meeting once.

## 2. Modules

| Module | Models | State and actions |
|---|---|---|
| `MatchData` | the row status, the two Redis keys and the saved predictions of a match, with one operator per statement | `status`, `liveKey`, `predCache`, `preds`. A prediction is named by its row number, so "newest" is the last. A Redis command may change nothing, because every caller ignores its error |
| `MatchSync` | the collector: `SyncByDate`, `SyncLive`, `SyncLeagueSeason`, `processFixture`, `maybeSyncNewDay`, `RegisterDaemonJobs`, the admin server | `run[w]` is a goroutine with its program counter and local variables; one action per call. `api`, `today` are the world; `published`, `opened` are history variables |
| `SyncSchedule` | the collector under its own cron: the ticks of the date job in a day | `ticks` still to come today; `missed` is a history variable: the final results a date job asked for and did not get, or lost. `Tick`, `NewDate`, `Lose`, `Keep`, `Proceed` and `Die` are the steps of `MatchSync` with what they do to these two |
| `Predictions` | `GetPrediction`, `GetOrCreatePrediction`, `AnalyzeMatch`, `runPrediction`, `pollLiveMatches` | `req[p]` is a request with its local variables, `pollTodo` the list of the current poll; `readRuns` and `lost` are history variables, the runs of the model that reads have asked for and those of them that came to nothing |
| `LivePlatform` | the composition on one database | `Collect` (collector and world) or `PredNext`; the properties and the poller's fairness |
| `Feed` | the abstract promise of the hub: one log, each subscriber sees it from where it joined, without gaps | |
| `WsHub` | `Hub.Run`, `HandleWebSocket`, `readPump`, `writePump` | an unbuffered channel is a joint step, a buffered one a sequence with a capacity; `panicked` records a send on a closed channel or a second close |
| `Evaluation` | `RunEvaluation` and the jobs and requests it races with: `UpsertMatch`, `syncFixtureDetails`, `SavePrediction`, `SaveCoupon` | `row`, `stats`, `preds`, `outcomes`, `picks`, `verdicts` are tables, `eval[e]` a run between two statements; `reports` is what the API has said, which jobs may write late |
| `Settlement` | the abstract promise of the evaluation: a match ends once, what was predicted of it is settled after that and once, each selection gets one verdict that a settled prediction bears out | `result`, `outcomes`, `verdicts`; `End`, `Settle`, `Judge` |
| `EvaluationServer` | `RunEvaluation` once more, as the server runs it for several callers: connections, notifications, the refresh of `model_performance` | `pc[c]` is where a caller's request is; the rows of an open query and the statements of one `Exec` keep a connection (`Holders`); `table` holds the copies of the metrics, `del[c]` those an open transaction has deleted; `told`, `missed` and `alone` are history variables |
| `CouponData` | candidates, the product of their odds, what a request may ask for, and `Playable`: what an answer promises | odds in tenths and percentages, so the comparisons are exact |
| `CouponPick` | the abstract search: no answer, then a playable one | |
| `CouponPicker` | `pickForOddsTarget`: per attempt the best candidate of each match, filling, swapping, then shrinking | `phase`, `attempt`, `selected`, `swaps`; one action per turn of a loop |
| `Odds` | `MapToMLKey`, `OddsSummaryForMarket`, `OddTrendForMarket` | operators; a label is its bet, part, side, pick and line |
| `CouponDesk` | `Handler.Generate` and `SaveCoupon` against `SyncOdds` and `UpsertMatchOdds` | `book`, `history` are tables, `feed` the sync, `phase` to `selections` the request; the search is taken by its promise (`Playable`), which `CouponPicker` implements |
| `History` | `buildFeatures`, the `HistoryEnricher` and the store's and the API's lists | `rows` and `api` are what the store and the API say of a fixture, `at` the request's next read, `lists`, `averages` and `features` what it has read; one action per statement or call, of which any may fail |
| `MC...` | the instances TLC checks | |
| `LivePlatformProofs`, `WsHubProofs`, `EvaluationProofs`, `EvaluationServerProofs`, `CouponPickerProofs`, `OddsProofs`, `CouponDeskProofs`, `HistoryProofs` | the theorems; `OddsProofs` has the lemmas about the operators of `Odds` | |

The line of the code behind every definition is in the `map` of `PROJECT.json`.
Definitions named `X_Something` are variants of `X` with a plausible bug; no
specification uses them, and replacing `X` by the variant makes a property fail.

Abstractions. A fixture is its short status; goals, minutes and names are left
out because no guard of the sync depends on them. The set `Codes` of a run is
the part of the API's codes it contains; `Follows` says which code may follow
which (nothing follows an ending). A match of a league in the leagues file is in
`Tracked`: date jobs and imports ask for these only (`isCouponLeague`,
`trackedLeagueIDs`), while live jobs with the default scope `all` write rows of any
league; `LiveScope` is that setting. A leagues file that cannot be read, when the
two checks of a league differ, is left out. The features of a prediction are abstracted
to the status they were built from, which is what decides `is_live`. The team
and league upserts of `processFixture` matter only in that they may fail
(`SkipFixture`). `Evaluation` says what outcomes and verdicts say and takes the
refresh as one step; `EvaluationServer` says when they are told and who waits for
whom, and there a selection is settled once its match is over. A list of
`History` is a set of matches with where each entry came from, an average the set
it is taken over: that tells a look ahead, a match in play and a repetition apart,
which is all its properties are about. The players' availability, which is in no
list, is left out but for the failure of its reads.

## 3. Runs

| Run | Question | Bounds |
|---|---|---|
| `live_platform` | Do the invariants of the cache, of live predictions and of the number of model runs survive collector, poller and readers together? | one match, one collector job at a time, two readers and the poller, codes NS and 1H, one oddity, which is a failed read of the table, a lost run or a row that no read has saved; a date job stands for all, and what the collector publishes or marks is cut off (`OneDateJob`, `OneOfAKind`, `QuietCollector`) |
| `collector` | Two overlapping jobs of all kinds, with a crash and a midnight | one match, two workers, two days, codes NS, SUSP, FT, scope `tracked`; no prediction is made. The suspended code is chosen because it is in play but not `live` |
| `collector_live` | Does the row of a match that is over in time end up finished? | one match, two days of two ticks, a crash, scope `all`; one worker for the boot and the ticks, one for ticks, live jobs and their look at the calendar; codes NS, 1H, FT |
| `live_poll` | Does a live match get its live prediction? | two matches, so that one may delay the other; the second is of a league that is not tracked |
| `ws_hub` | Safety of the hub, the refinement of `Feed`, and is everyone served and cleaned up? | two clients, one that may stall and one that may break, capacity 1 of both channels (256 in the code), three messages: one is being written to the stalled peer, one is in its buffer and one finds it full |
| `evaluation` | Are outcomes those of the final result, is nothing judged twice, does it all implement `Settlement`, and is every selection of an evaluated market judged in the end? | one match, one coupon, two overlapping evaluations that may fail, three markets, one settled by the score, one by statistics and one that coupons offer and no statement evaluates, at most two predictions, of which one may lack a market, three reports, of which a job may write an old one late |
| `evaluation_server` | Is every verdict told, are the metrics whole, is every request answered? | two callers, a pool of two connections (so that both can be held by runs that want one more), two selections of two coupons |
| `coupon_picker` | Does the search end, and with what? | every subset of eight candidates of three matches and two pools more, seven requests from narrow to wide, one to three selections; candidates include one without a quote, two within 0.05 of one another, a match with more markets than the swaps have passes (`Ladder`), and one whose first candidate is too much while its second would do (`Skipped`) |
| `coupon_desk` | Is a coupon stored as told, and its odd that of its rows? | two matches, one sync with two possible answers per match, two bookmakers, two requests, one failure, two distinct seconds |
| `history` | Do features see the past, final results, each meeting once? | four fixtures of three teams, three meetings of the same two, one award or walkover, one failure; limits of two and three, so that lists are cut |
| `evaluation_selections` | Does a selection reported as correct come true? (It need not.) | two teams, four reports |
| `history_leakage` | Is everything a feature counts from before the kickoff? (It need not be.) | as `history` |

The bounds are enough for the races at hand: each involves one match, two
jobs or two requests, and one stale copy; capacities of two or less already
distinguish full, partly full and empty. `MaxSaved` leaves room for more
rows of readers than `ReadsRunModelOnce` allows in any case, so the cap never hides
a run. Two oddities at once are for the theorems. What `live_platform` cuts off is
out of sight of its properties: the events and the live keys of the collector,
which `collector` and `collector_live` keep.
`TypeOK` holds the counter of a live job under its limit; with one match only its
theorem says so of any number. `evaluation` leaves out the second team's statistics, which no invariant of
it reads. Where a run is small because states are many (`ws_hub`, `evaluation`),
its safety properties are proved for every size.
`CHECK_DEADLOCK FALSE` appears where the system comes to rest: the hub, whose
messages and connections are bounded, the search, which ends, and the coupon
desk, whose requests are bounded.

Fairness. `SchedFairness`: the daemon boots; each tick of the cron starts a
goroutine (strong fairness, because here a worker that is free again and again
stands for the new goroutine), and a day is not over before its ticks have fired;
a started job takes its steps; a key that is not renewed expires. Nothing says
that a job ever succeeds: a call or an upsert that fails where it matters is noted
in `missed`, and the property excepts it. `PollFairness`:
the ticker fires for ever and runs one poll at a time; for each match the model
and the insert succeed sometimes. `Fairness` of the hub: a goroutine that can
run does; registrations, unregistrations and broadcasts get strong fairness
because Go's `select` picks at random among the ready channels. `Fairness` of
`Evaluation`: the collector triggers a run after every live sync, for ever, and
each statement succeeds sometimes. `Fairness` of `EvaluationServer`: strong,
because pgxpool serves its waiters in the order they came, so a connection that
is free again and again is had in the end, and the database answers; a caller's
hang-up is under no fairness, and nothing relies on it. The search is one
goroutine that runs. No fairness is assumed of the API, the network, readers or
crashes.

What liveness says, and excepts. `FinishIsRecorded` is about a match of a tracked
league that is over while a tick of its day is still to come (00:05, and by
default every six hours), when no job holds an answer from before the end. Then it ends up finished,
its key gone, for good, unless the date jobs that ask for it fail or die
(`missed`). Two matches are left out, because the code does nothing for them. One
that ends after the last tick of its day, or after midnight, is asked for by no job
of the next day (`daemon.go:14`). One of a league that is not tracked is written by
live jobs (`service.go:107`, scope `all` by default) and passed over by every date
job (`service.go:80`). Both rows stay live once the API no longer lists the
match as live, and the poller goes on predicting them every ten seconds: the first
until somebody asks for its date or imports its season, the second for ever. `PumpsEnd` excepts a stalled peer, because the code sets no
write deadline. `EveryPickIsJudged` is about a newest prediction that stays the
newest; the bound on predictions per match makes that come true, and in the code
it does because no prediction is asked for a match that is over without end.
`Evaluation` abstracts the markets to one settled by the score and one by
statistics, and the score to who leads, which is all `home_win` depends on; it
takes the confidence of a market to be its probability, which is how the ML
service fills it for a match that is not live. Of the markets that coupons offer
(`coupons/handler.go:225`), the twelve keys of `store.go:1091` and `:1121` have
outcomes; a selection of any other (double chances, unders, a team's goals, draw no
bet, ...) is never judged, and neither is one of a market the newest prediction
lacks: `EveryPickIsJudged` says nothing of these, and the model contains both.
`EveryRunEnds` excepts `AllWait`: `CreateNotification` wants a connection while
the rows of `NotifyRecentCouponEvaluations` keep one, so as many overlapping runs
as the pool has connections (the larger of four and the number of processors,
when the URL does not say) wait for each other; nothing ends that, because `RunEvaluation` does not read the request's body and Go's
server then does not notice that the caller has gone.

What the evaluation server shows. Overlapping refreshes of `model_performance`
may list a metric once per refresh that overlapped, never more (`OneCopyEach`);
readers never see the table empty in between, because pgx sends the two
statements of one `Exec` as one transaction (`MetricsNeverVanish`); and the next refresh
that runs alone repairs it (`LoneRefreshRepairs`). The five-minute window loses
no verdict (`ToldUnlessMissed`), given that less than five minutes pass between
the judging and the very next statement (`Age`); it repeats many: the collector
triggers a run after every live sync, and each tells every verdict of the window.

What the reads show. `ReadsRunModelOnce` counts runs, not rows: a run whose insert
fails leaves no row, so the next read runs the model again. Each such loss, and each
failed read of the table, is worth one run more, and nothing else is. `AnalyzeMatch`
and the poller run the model at every call and are not counted.

What the coupons show. `CannotBeHelped` is the promise of the repeated swaps: no
fill, no other market of a match that is in and no replacement of the worst selection
by another match brings an answer below the interval nearer to it, provided the
search stopped because nothing helped. `swapTowardInterval` makes at
most `2*picks` passes, and a match with more markets than that can use them all up
while each still helps; then a better neighbour may be left (`diversify.go`, found
when the proof of the property without this condition failed).
An empty answer promises less. Filling looks at one candidate of each match, and
the swaps return at once when nothing was filled in (`diversify.go:189`): with an
interval from 5 to 6, a match whose more confident candidate is at 7.0 and whose other
is at 5.5 is left out and the user gets nothing. What holds of an empty answer is
that every match of a candidate has one, put first by the order of `bestPerMatchForTarget`, that
is over the limit alone; the pool `Skipped` contains the case.
`CombinedOddIsStored` has one exception, in the code: a selection picked without
a quote, whose odd then counts as that of its confidence, is saved with the quote
that has appeared since (`handler.go:155`).

Two runs are counterexamples, because the code does not do what it, or its
documentation, says.
`evaluation_selections`: `EvaluateUserCoupons` copies `is_correct` of the newest
prediction, which is also true when the model gave less than one half to something
that then did not happen. A selection taken at a probability of 0.45 to 0.5, or one
whose newest prediction turned against it, is reported as correct when it lost
(`store_extended.go:92` against the text at `:336`). `VerdictFollowsFinalScore`
says where the verdict is right: as long as every prediction calls it likely.
`history_leakage`: `docs/architecture.md:13` says that every feature uses only
data from before the kickoff. `GetLastFixturesByTeam` and `GetHeadToHead` ask the
API for the last fixtures without a date, so that a match analysed again after it
was played counts itself and later ones (`history_enricher.go:72` and `:99`).
`StoreNeverLooksAhead` says what is right: whatever comes from the store, or from
a list that says so, is of the past.

Known behaviour without a run, because nothing in the repository says what it
should be. An evaluation between the two upserts of `syncFixtureDetails`, or after
one that failed, settles the corner markets on one team's corners, for good
(`store.go:1113`). `GetTeamRecentMatchHistory` gives the team's own name as the
opponent (`store.go:497`), so that `mergeTeamHistory` never recognises the API's
entry of the same match and lists it twice. `MapToMLKey` takes lines of a half
other than over 0.5 for lines of the match (`mapping.go:86`). `OddTrendForMarket`
compares the best odds of the last two seconds in which a quote was written:
when one sync spreads over two seconds, these are of different bookmakers
(`mapping.go:205`). `ml-pipeline/evaluation/persist_metrics.py` also deletes and
fills `model_performance`, and each erases what the other wrote.

## 4. Proofs

Each proof follows the same line: an invariant that is inductive, kept by one
lemma or step per action, and the property from it. The assumptions are the named
ones of each module's constants, no more.

`LivePlatformProofs` (any matches, workers, readers and bounds):

- `TypeCorrect`. `TypeOK` is not inductive: the counter of a live job stays
  within `LIVE_MAX_FIXTURES` because a job inside the loop body has not reached it
  yet. `TypeInv` adds that (`CounterOK`).
- `CacheServesSavedRows`. `CacheInv` adds that a request about to cache holds the
  number of a saved row.
- `AnnouncementsAreReal` and `RegressionsAreStale`. `OverInv` relates each job's
  snapshot to the API (what a snapshot saw over is over), the previous status it
  read to the history of the row, and a job about to announce to its snapshot.
  A step that keeps every job's snapshot and is not at a write is handled once,
  by a lemma.
- `LivePredictionsAreOfPlay`. `PlayInv` carries "the API has had it in play" along
  the chain: from a job's snapshot to the row, from the row to what a request has
  read of it, and from there to the saved prediction.
- `ReadsComputeOnce`. `Accounted` says where the runs for reads have gone: into rows,
  into losses, or they are on the way to one of these. `ReadsInv` counts what may
  still become a row: the rows saved by reads of a match, plus the reads that are
  computing one, are no more than the readers plus the reads of the table that
  failed. A read that
  finds a row never runs the model. When one finds none, there is none: the first
  number is zero at that moment, and the second at most the readers. A read of the
  table that fails adds one to both sides; saving moves one from the second number
  to the first. The two together bound the runs.

`WsHubProofs` (any clients and capacities): `TypeCorrect`, `HubNeverPanics`,
`ClientsThatLeftStayOut` and `HubImplementsFeed`. `MapInv` says that the channels
of clients in the map are open, and that the loop of a broadcast only visits
clients in the map; `OrderInv` says that what a client received, what its
writePump holds and what is in its buffer are, in this order, the log from where
it registered: this is what makes every step of the hub a step of `Feed` or a
stutter.

`EvaluationProofs`: `TypeCorrect`, `JudgedOnce`, `ScoresAreFinal`,
`VerdictsFollowTheScore` and `EvaluationImplementsSettlement`. The first two are
inductive (a verdict is unique because the outcome of the newest prediction is). `FinalInv` says that "finished" is the
last report of a match, so that a row that says finished holds the final score;
the assumption behind it, that the API does not revise a final result, is the
guard of `Report`. `VerdictInv` ties a verdict to an outcome and an outcome to the
prediction it reads. With all of them each statement of a run is a step of
`Settlement` or a stutter: the last report of a match is its `End`, an insert of
outcomes a `Settle`, an insert of verdicts a `Judge`; what jobs write into the rows,
predictions and coupons are not seen there.

`EvaluationServerProofs` (any callers, selections and pool): `TypeCorrect`,
`VerdictsAreTold`, `CopiesAreBounded`, `LoneRefreshIsExact`, `MetricsStay` and
`OnlyOneDeadlock`.
`IInv` says that a verdict not told or missed is in the hands of a run
(`Accounted`), which keeps it there while it is on the way to tell it and while it
is fresh (`InHand`); that a refresh deletes at least the earlier copy of its own
caller, and one that is alone all there are (`Replaces`); and that metrics in the
table come from outcomes, which never go away. The pool's bound is counted with
the cardinality theorems. `OnlyOneDeadlock` is the safe half of `EveryRunEnds`: as
long as a request is under way, either every connection is held by a run that wants
another (`AllWait`), or some request can go on. `CanAdvance` writes out when that is;
TLC found it equal to `ENABLED Advance(c)` in every state of the instance.

`CouponPickerProofs` (any candidates and requests): `TypeCorrect`,
`NeverOverTheOdd`, `ReachedIsFinal`, `NoSwapHelps`, `EveryTurnCounts` and
`PickerImplementsPick`. `Inv` holds the
selection to eligible candidates, one per match, and under the odd asked for;
every change goes through `Improves`, which refuses a product over the limit, so
the shrinking never removes anything. That makes an answer `Playable`, and every
other step a stutter of `CouponPick`. `NoSwapHelps` is `CannotBeHelped`: `Settled`
carries the condition on which the swaps stopped to the end of the attempt, and
`Unfilled` that an empty selection stays empty only while every match has a first
candidate that does not fit.
`EveryTurnCounts` is what `Terminates` rests on: `StepsLeft`, which counts the
attempts, places to fill and passes left, starts at no more than 196 and gets
smaller with every turn of every loop.

`CouponDeskProofs` (any calendar, answers and predictions): `TypeCorrect`,
`ToldIsTrue`, `CombinedOddIsTrue` and `OddsArePublished`. `SavedInv` says that a coupon being
written holds exactly the first rows of its request's selections; `OddInv` that each
selection keeps the quote of its candidate unless that had none. For
`OddsArePublished` an odd is followed from the API's answer to the coupon: `FeedInv`
says that `match_odds` holds finitely many rows, each published for its match;
`CandInv` that the candidates' odds are such rows' or none; `SaleInv` the same of
selections and of saved rows. On the way `OddsSummaryForMarket` takes the greatest of
a set of odds: `OddsProofs` proves that a finite set of integers has one, by the
well-foundedness of strict inclusion, where induction is out of reach. The types need
one assumption on the predictions, that scores are percentages (`Predictions` of
`CouponDesk`).

`HistoryProofs` (any calendar and limits): `TypeCorrect`, `StoreIsOfThePast`, `HistoryOfFinals`
and `MeetingsCountOnce`. `IInv` says that a row says finished only of a final result, that
every entry with the store's mark is final and kicked off before the match, that a
list said to be the database's has only such entries, and that the features are
taken over what was read, league average and venue forms included, each read by a
step of its own. `NoMeetingTwice` is inductive: each source names a match
once, and what is merged in has a key the list does not have.

Every invariant and action property of a passing run is proved, and so are the
refinements. Only model-checked: the liveness properties `FinishIsRecorded` (and so
`SyncSchedule`, whose every step is one of `MatchSync`),
`LiveMatchGetsLivePrediction`, `EveryoneIsServed`, `PumpsEnd`, `EveryPickIsJudged`,
`EveryRunEnds` and `Terminates`, because fairness and `ENABLED` are out of the
prover's reach. The two counterexamples are TLC's as well.

## 5. Not modelled

The ML service, the AI agent and the pipeline (numerical code behind one call
that answers or fails; the script that also writes `model_performance` runs
offline); authentication and the read-only endpoints (single statements); the
rate limiter (one critical section per request); the table of leagues
(`leagues/registry.go`, data); the pages of the frontend (rendering). Of the
collector's details, events, lineups and injuries: single upserts whose readers
show what they find.

## 6. Plan

Done: the collector and the predictions, because every other part reads what they
write; the hub, the one component with fine-grained concurrency; the evaluation,
first its data, then its requests, connections and notifications; the coupons,
first the search, then the desk around it; the features. What is left, in this
order:

1. `SyncTrigger`: the key that keeps a date from being asked for twice in 30
   minutes, and the request that may fail while the key stays; composed with
   `MatchSync` as one more way to start a job.
2. `LiveFeedClient`: the frontend's reconnection and merge of updates, composed
   with `Feed` in place of the hub.
3. `Details`: the events deleted and inserted again one by one, and what a reader
   sees in between.

The same bounds as above apply: two actors, one shared item, the smallest capacity
that tells full from empty.
