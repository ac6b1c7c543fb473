# Verification of the volatility services

TLA+ modules, TLC configurations and TLAPS proofs about the services that compute,
replay, store and publish the MFIV volatility index. Paths are relative to the root
of the repository; `ws.service.ts:184` stands for `services/ws.service.ts:184`, and
`lib/…` for `src/lib/…`.

1. [The system](#the-system) — components, state, operations, what is hard
2. [The modules](#the-modules) — how state and actions correspond to the code
3. [The runs](#the-runs) — what each one checks, its bounds
4. [Fairness](#fairness)
5. [What the runs found](#what-the-runs-found)
6. [The proofs](#the-proofs)
7. [What is not modelled](#what-is-not-modelled)
8. [Plan](#plan)

## The system

Moleculer services in one process or several. They call each other's actions through
the broker (request timeout 10 s, three retries, an in-memory cache of answers), they
broadcast events, and they share a PostgreSQL database through TypeORM.

```
 exchange --stream--> ingest <--summaries-- index <--estimate-- cron (tick)
                                              |  ^--rate.updated-- rate (tick)
                        methodology_indices <-+--broadcast--> ws --publish--> clients
 provider --replay--> VixCalculatorV2 --onCompute--> ws (SUBSCRIBE with a period) --> client
                            |                         backfill (POST /mfiv)
                            +----------> mfiv_indices <--GET /mfiv-- ws
 exchange --stream--> tradeoption, tradepair --one-second buckets--> trade_options, trade_pairs
 ws --check--> tokens --> auth_tokens
```

| Component | State | Operations | What makes it correct |
| --- | --- | --- | --- |
| expiry calendar (`lib/expiries.ts`; the older one in `lib/vix_calculator.ts`) | none | `mfivDates`; `rolloverWeekly`, `rolloverSemiWeekly` | the two Fridays bracket now + 14 days; the pair changes exactly at the rollover it announces |
| instrument selection (`lib/utils/expiries.ts`) | none | `buildExpiries` | the terms of a replay are those the live index would have used |
| `VixCalculatorV2` (`lib/vix_calculator_v2.ts`) | book, options set aside, last report, terms of the stream | `fetchIndex`, `createStream`, `summaryStream`, `calculateIndex`, `deleteEntries` | no index from expired terms; the book follows the terms across rollovers; reports in order and spaced; it ends |
| ingest | terms, `expiryMap`, the stream, cached answers | `started`, `process`, `summaries` | it streams what the index asks for; answers are at most as old as the cache allows |
| index | `risklessRate`; table `methodology_indices` | `estimate`, `rate.updated` | terms belong to the tick, even in a late retry; what is stored was announced |
| cron | none but the schedule | tick | every call it makes is settled |
| rate | `lastRate`; table `rates` | tick, `risklessRate`, `rate.updated` | what is announced is in the table, which records changes; an index never goes back to an older rate |
| tokens | table `auth_tokens` | `generate`, `check`, `remove`, `clearExpired` | using a token does not alter the grant; a removed token stays removed |
| tradeoption, tradepair, buckets | the open bucket, `latest`; tables `trade_options`, `trade_pairs` | `started`, `compute`, `captureMessage` | keys increase, nothing is stored early, nothing is lost to a key clash, also across restarts |
| start of a process (`waitForDatasourceReady`, `moleculer.config.ts` `created` and `stopped`) | `AppDataSource`, a countdown | connect, poll, give up | every start comes to an end |
| ws (gateway) | sockets, topics; reads and writes `mfiv_indices` | `authorize`, `open`, `message`, `close`, publishing, `GET /mfiv`; `replay` and `process`, which nothing calls | nobody is admitted without a valid key; a replay is whole, and a connection does not end after half a replay; recorded values are stored; an interval is what its name says |
| backfill | none of its own | `POST /mfiv` | as a recorded replay without a client |
| instrument_info | the list of instruments, cached answers | `started`, `instrumentInfo`, `refreshInstrumentInfos`, `available` | no instrument that is alive at the moment asked for is missing |
| `VixCalculator` (`lib/vix_calculator.ts`), superseded by V2 | book, latest index, terms | `fetchIndex`, `summaryStream`, `calculateIndex` | reports stop at the end of the query; the book that is summed is whole |
| ipfs, test service, data sources, mixins | – | pure I/O | – |

What is hard to test here, and what the properties are for:

- **time**: terms are looked up at one moment and used at others (a Friday 08:00 UTC
  in between); slots rounded up to five seconds decide whether a replay rolls over,
  completes or just ends; gaps between messages are arbitrary;
- **interleaving**: the broker retries a call whose first handler is still running, with
  shared state read before and written after an await; replays share a socket; a token is checked while it is
  removed; inserts are begun and not waited for; replays share a cache; refreshes of one list overlap;
- **failure**: a database does not answer a start, or goes away under a stream; the process restarts between
  announcing and persisting, or with a bucket open; a client leaves a running replay, or is dropped by the
  server; the provider, `compute`, `send` or an insert throws;
- **staleness**: two terms of one index read from a cache at different moments.

`PROJECT.json` lists these as hazards, each at its line, with the properties for it.

## The modules

Moments are integers. Each module names its unit.

### `MfivDates`, `WeeklyTerms`, `Calendar`, `BuildExpiries`

`MfivDates` is `mfivDates` and `nextExpiration` of `lib/expiries.ts` as operators on
minutes since a Sunday midnight (weekday = day mod 7, an expiry is 08:00 of a Friday).
`BuildExpiries` is `buildExpiries` of `lib/utils/expiries.ts` over a set of instruments
with a listing and an expiry moment; its answer is a set, empty when the code throws
because a term has no instrument. `Calendar` is the machine that requests both along a
clock that jumps by up to `MaxStep`: `now` is the moment of the request, `dates` and
`expiries` are the answers. Formatting to ISO strings and back is left out. `WeeklyTerms` has the
two calendars of the superseded calculator over the same minutes. In the first three hours of a Sunday the
semi-weekly one still counts the weekend: the rollover it announces is that of the next Sunday, a week
away, and Thursday's is skipped. The run `semi_weekly` is about that.

### `VixCalculator`, `ReplayJob`

`VixCalculator` follows `VixCalculatorV2` message by message. Time is counted in slots
of five seconds, the rounding of `summaryStream`.

| Variable | Code |
| --- | --- |
| `phase` | where `fetchIndex` is: waiting for `buildExpiries` (`building`, `rolling`), in the loop (`streaming`), returned or rejected |
| `refDate`, `expiries` | `refDate` and `expiries` of the current stream |
| `lastReport` | `lastReport`, line 177 and 198 |
| `midBook`, `options` | `midBook` (by symbol) and the `options` set aside, line 188 |
| `sink` | the socket of the consumer (ws), or nothing to close (backfill) |
| `sent` | what `onCompute` has been given |
| `live`, `clock`, `seen` | the kind of stream, the latest message, a history for `BookIsCurrent` |

| Action | Code |
| --- | --- |
| `FirstStream`, `Rollover` | `fetchIndex` 107-123, rollover 231-263, `createStream` 125-174, head of `summaryStream` 177-183 |
| `BuildThrows`, `StreamThrows` | `getInstrumentInfo`, `buildExpiries` or the stream rejects |
| `FutureMessage` | 186-191 |
| `BookOnly`, `ComputeThrows`, `SendIndex`, `SendToClosed` | 193-263 for a near or next message, by what the report does; each ends in `Proceed`, the checks 226-233 |
| `StreamEnds` | the loop is exhausted, 266-268 |
| `ClientHangsUp` | `close` of the gateway: the replay is not told |

A message is one step up to the `await` of `buildExpiries` in a rollover: the loop has no
other suspension. `compute` (the library `node-volatility-mfiv`) gives a value or
throws; which options are in the book matters to the model, not their prices.

`ReplayJob` is the abstract specification of what a consumer is promised: deliveries at
later and later moments at least `MinGap` apart, and one end, after which nothing is
delivered. `VixCalculator` implements it (`IsReplayJob`) with
`status <- IF Ended THEN phase ELSE "running"`, `delivered <-` the moments of `sent` and
`MinGap <- Frequency - Minute`. The minute is the code's: each stream begins with
`lastReport` one minute before its `refDate`.

### `Ingest`, `EstimatePipeline`

`Ingest` holds the state of the ingest service (`dates` from line 120, `book` for
`expiryMap`, the stream's status) and the broker's cache of `summaries` answers.
A summary is abstracted to the moment it arrived. `EstimatePipeline` extends it with
the cron tick, `index.estimate` and the rate. An execution of `estimate` is identified by
its tick and its attempt; executions of one tick overlap because a timeout starts the next
attempt and does not stop the previous one.

| Action | Code |
| --- | --- |
| `StartStream`, `Summary`, `StreamStops`, `Query` | `ingest.service.ts` 103-205 and the action `summaries` |
| `MinutePasses` | the clock; `cron.service.ts` 59-110 when the expression matches |
| `RequestTimeout` | `requestTimeout` and `retryPolicy`, `moleculer.config.ts` 110-126 |
| `AskNear`, `AskNext` | `optionSummariesLists`: both requests at once, each answered or failed |
| `ComputeAndAnnounce`, `ComputeFails`, `Persist` | `index.service.ts` 108-242 |
| `RateUpdated` | `rate.updated`, 92-99 |
| `Restart` | the process dies and is started: memory is lost, tables stay |

An index value is abstracted to its evidence: the tick, the terms, the latest summary
of each and the rate.

### `Tokens`

`tokens.service.ts` over the table `auth_tokens`. `check` is three steps because the
service awaits the database in between: find, then the two statements of TypeORM's `save`
(select the row of the id; update what differs, or insert). `remove` is two: find, delete.
`clearExpired` changes nothing, since the statement it sends is one the database rejects.
Hashing is left out: a token is a model value.

### `Authorization`

Extends `Tokens` by its caller, the gateway's `authorize`, `handleAuthorize` and
`handleAuthorize2` (ws.service.ts): `KeyOf` takes the key from the header or, without a header, from
the query; `AuthorizeChecks` is the beginning of `check`, `AuthorizeAdmits` its end, two statements
later, when the answer reaches the gateway; other callers check, remove and generate in between.
`asking` holds what the gateway waits for, with the day of the request and whether the key had
been removed by then with no check under way.

### `TradeCapture`

`OptionBucket` and `TradeBucket` (`src/computables`) are the same machine: a message of a
later bucket emits the open one. The services await each insert within the loop, so that
a message with its insert is one step. The two differ in the key of a row: an option under
the end of its bucket, a trade under the time of the last message in it. `StartAnew`
is the end of the process and a new one with computables of its own. A lost connection to the exchange is no
action: the streams are made without `withDisconnectMessages` (trade_option.service.ts:104,
trade_pair.service.ts:91), so that the client library connects again and the computables keep their bucket; the
messages that are missed then are messages that did not come.

### `TradeServices`

Extends `TradeCapture` by the process around it: `AppDataSource` is initialized when the broker is created
(`DatabaseConnects`, `DatabaseFails`: `broker.fatal`), a service polls once a second
(`WaitTick` is one interval of `waitForDatasourceReady`), tradeoption looks its instruments up, and the
stream runs until it ends or throws. `BrokerStops` destroys the connection under streams that
nobody ends; `ProcessEnds` and `Restart` are a crash and the supervisor. Three things of the code
show in the guards: `counter === 0` is the only end of the countdown, so that `Timeout` has to be
a whole number of seconds (`WaitAssumption`; the code's is); tradeoption and tradepair catch
the rejection of their start and stay up without a stream (`AfterTimeout`), where index and rate end the
process; and the list of instruments is built once per start, so that later listings are not streamed.
The symbols and exchanges merged into one stream do not share buckets; they matter when one of
them throws, which ends all (`StreamEnds`).

### `Rate`

`rate.service.ts` with the datasource it reads (`datasources/aave.ts`) and the index service that
takes its broadcasts. An execution of `risklessRate` is a tick and an attempt, as in
`EstimatePipeline`, and has two phases, since there are two awaits: `reading` the contract and
`saving` a row. `Compare` is the comparison with `lastRate` at the moment the first await ends;
the assignment of `lastRate` belongs to the end of the second. An insert may be done and its
acknowledgement lost. `alone`, `acknowledged` and `restarts` of a row are history. A value is a
model value, as the number and its string are compared by the code in the same form.
`EstimatePipeline` uses only that rates arrive.

### `ReplayGateway`

The gateway's sockets and replay subscriptions (`ws.service.ts` 135-296), the recording of indexes
(`executeMfivInsert`), the backfill service and `GET /mfiv`. A calculator is what it computes and its end. Nothing is
supposed of the moments it computes for: the promises of `ReplayJob` are proved of recorded queries only, while
a SUBSCRIBE may ask for one that turns live. `onCompute` sends and begins an insert without waiting;
`Insert` is the end of one, in any order, refused when the key is taken.

A connection ends in four ways, each an action: a replay on it completes (`OnComplete`), the client leaves or
is lost (`HangUp`), the server closes it since it is idle or reads too slowly (`ReachesLimit`; `idleTimeout` and
`closeOnBackpressureLimit`, lines 109-119: a client that only waits for its replay has to send heartbeats,
README.md:167), or the client sends a message of an unknown type (`UnknownMessage`, `socket.disconnect()`
in the default branch, 275-280). `dropped` keeps the connections that ended in one of the last three ways.

Live channels are not modelled: `subscribe` and `publish` hand over to uWebSockets, and the documentation says of the
feed that messages may be dropped or come out of order (README.md:171-177).

### `InstrumentInfo`, `LegacyReplay`

`InstrumentInfo` is `instrument_info.service.ts`: the request of the start, refreshes and `available`, each with
the moment the provider reads its list and the moment the answer arrives, in any order; `Available` is
the conditional of line 191 with the precedence it has; `AskInstruments` is `instrumentInfo` behind
the broker's cache (300 s; the comment beside it, :82, says five seconds). The asset a caller names is
not looked at, while a refresh for another asset replaces the list.
`LegacyReplay` extends it with `replay` and `process` of `ws.service.ts`, which nothing calls any more: a
replay asks for its instruments, puts summaries into the shared cache, and at each bucket makes an
index of what the cache has of its two terms, looked up one after the other (`FetchNear`,
`FetchNextAndSend`). A bucket follows the message that closes it.

### `VixCalculatorV1`, `StrikeBook`

`VixCalculator`, the calculator before V2. `VixCalculatorV1` has its streams, rollovers and reports, message
by message. What is reported is left out: any message that is due is, with the latest index there is. That
may be 0 before the first one; an index of earlier terms, since the book is not cleared at a rollover and each
new term needs a call and a put at its target strike and two entries before there is another; or not
a number, as `calculateIndex` assigns `index` (line 247) before its caller's guard (165). `StrikeBook` is the rest of `calculateIndex`: the mids of one term by strike and side, the
target strike, the final book on either side of it and the widths, over all books of a few strikes.
Two facts of the code that the model shares: a missing ask halves the mid
(`vix_calculator.ts:257`), and the running average of `fetchIndex` is never used, as its log is
never written.

## The runs

`tlc -config <cfg> <module>` in this directory. Every property of a passing run has a
mutant in `PROJECT.json`: a change of one mapped definition, of the kind a bug would make,
under which TLC finds the property violated with the same configuration.

| Run (cfg) | Bounds | What it shows |
| --- | --- | --- |
| `calendar` (MCCalendar) | 14 days of minutes, requests 1–61 minutes apart, Friday expiries four weeks out, one of them listed late, and daily ones | `Bracketing`, `RollsOverWhenAnnounced`, `SupersededTermsBracket` for the older calendars, and `BothPathsAgree` where the exchange lists the two Fridays and nothing else between them. Two weeks contain every weekday and hour twice, the week being the period of the algorithm; 61 > 60 makes requests skip every full hour somewhere |
| `semi_weekly` (MCSemiWeekly) | the same | violated: `RollsOverTwicePerWeek` |
| `replay_gaps` (MCReplayGaps) | daily expiries, a day of 8 slots, a query of 13 slots over two rollovers, messages in any slots, a client that leaves, failures | `NoExpiredTerm`, `ReportedTermsBracket`, `BookIsCurrent`, refinement of `ReplayJob`, `ReplayEnds`. Two rollovers are the least in which a term is new, then near, then gone; two instruments are listed meanwhile |
| `replay_busy` (MCReplayBusy) | a calendar that thins out, so that one rollover leaves the near term in place and the next does not; a message in every slot; streams that may be live | `CompletedCoversQuery`, `ReportsWithinQuery`: a backfill covers its query and nothing else |
| `pipeline` (MCPipeline) | four minutes up to a rollover, one tick, one retry, one restart, one rate change, two moments for summaries, any interleaving | `AnnouncedTermsBracket`, `CacheBoundsStaleness`, `RowsWereAnnounced`, `StreamsQueriedTermsUntilRollover`, `CallsSettle` |
| `tokens` (MCTokens) | two tokens, two owners, two concurrent calls, three days | `GrantIsFixed`, and `AdmittedHeldAGrant` of the gateway's calls. A call holds one token, so that two calls are all that can disturb each other pairwise |
| `tokens_removed` (MCTokensRemoved) | the same | violated: `RemovedStaysRemoved` |
| `capture` (MCTradeCapture) | buckets of two milliseconds, six timestamps in any order, three buckets emitted, a countdown of two seconds, database failures, crashes and restarts anywhere (module `TradeServices`) | `OptionKeysIncrease`, `TradeKeysIncrease`, `NoLookAhead`, `NothingLost`, `EveryStartSettles` |
| `rate` (MCRate) | three ticks of two attempts, two rates, three rows, one restart of the service, any number of the index service's | `AnnouncedRatesArePersisted`, `RowsRecordChanges`, `RateNeverGoesBack` |
| `gateway` (MCGateway) | one connection, two replays (recorded, not recorded, or backfills), two moments, two indexes computed by each replay, a table that already has three rows, a client that leaves and a server that drops it | `WholeUnlessShared`, `RecordedReplaysAreStored`, `ClosedAfterAWholeReplay`. A second replay is all that can disturb one on its connection; two indexes are the least of which one can be sent and the other not |
| `superseded` (MCSuperseded) | one part at a time: a calculator with weeks of six slots and a query over two rollovers; every book of three strikes and prices 0–2; two refreshers over three moments and six instruments, one listed late and one of another asset; two replays of two seconds over two timestamps | `OneReportPastTheEnd`, `FinalBookIsWhole`, `NothingListedIsMissing`, `OwnEvidenceUnlessShared` |
| `gateway_hour` (MCGatewayHour) | an hour of rows, the last one being inserted | violated: `IntervalsAreHonoured` for 1H |

Notes on the bounds:

- `MCPipeline` has `CacheTTL = 0` minutes (the code: 120 s) on a clock of minutes. An
  answer is then served from the cache within the minute it was cached in, which is
  the case the property is about: the tick's two terms are read before and after
  other executions have filled the cache. The bound of `CacheBoundsStaleness` is stated
  for any `CacheTTL`.
- `Retries = 1` (the code: 3): a second retry overlaps the first as the first does
  the original call; the model has no state that counts beyond "the latest attempt" and
  "an earlier one".
- `MCRate`: an execution given up in one tick can last through the next two, the least in which
  it can undo and then repeat what they have done. Ticks do not overlap: four attempts of ten
  seconds and their delays take 41 s, the default cron expression is one minute
  (rate.service.ts:25); with a shorter one `RateNeverGoesBack` would not be promised.
- `CHECK_DEADLOCK FALSE` is in the configurations of `Calendar`, `EstimatePipeline`, `Rate`,
  `ReplayGateway` and `MCSuperseded`, whose clock, ticks or replays are bounded: at the bound nothing
  is left to do. `VixCalculator` says of itself where it may stop (`Terminated`), `Authorization`
  and `TradeServices` never do, and there deadlock is checked.
- `MCSuperseded` chooses one of four parts in the initial state and lets it run alone: they share no
  state but the list of instruments, which the replays read. Its `Gateway` holds the clock and the
  refreshes still, since what a replay's `OwnEvidenceUnlessShared` speaks of is the cache of
  summaries. Its strikes 2, 3, 5 are unevenly spaced, so that a width taken at the wrong end shows.
- In `MCTradeCapture` the timestamps span three buckets; three emissions are the least in which an
  earlier bucket comes back between two others, within one life of the process or after a restart.
- A calculator of `MCVixCalculator` reports every minute of two slots instead of every 5 or
  15 of twelve: a report interval then spans several slots, and a rollover falls inside it.
- `BookIsCurrent` speaks of calendars in which terms stay or move up by one at a rollover
  (`TermsMoveUp`), as those of `replay_gaps` and `replay_busy` do. When an expiry is listed between the terms
  during a replay, options of the old next term stay in the book; nothing in the repository says that they must
  not, and what compute does with them is the library's.
- `CompletedCoversQuery` and `ReportsWithinQuery` suppose a near or next message in every
  slot (`Busy`). Without it a recorded stream whose last slot before an expiry is quiet falls
  through to `onComplete` (lib/vix_calculator_v2.ts:266) and the replay ends at the
  rollover: the model does that too (`StreamEnds` with `Busy = FALSE`), and no line of the
  documentation says otherwise, so it is recorded as a hazard and not as a finding.

## Fairness

- `VixCalculator`: a request to the provider is answered or fails (`FirstStream`,
  `Rollover` or `BuildThrows`; both are promises of HTTP clients with a timeout), and a recorded
  stream moves on to later slots and ends (it is a finite file). Nothing is assumed of the client,
  of a live stream, of the success of `compute` or of any particular message. That is enough for
  `ReplayEnds`: with `Busy`, even for replays that turn live, since near or next messages are
  then due in every slot.
- `EstimatePipeline`: weak fairness of `RequestTimeout` alone, the broker's timer. Ingest,
  compute, the database and the cron tick may stop at any moment, and `CallsSettle` holds
  nevertheless.
- `TradeServices`: the interval timer of `waitForDatasourceReady` fires (`WaitTick`), and the look-up of
  the instruments is answered or fails (`ListInstruments`). Nothing is assumed of the database,
  the stream, crashes or the supervisor; `EveryStartSettles` says that the countdown is enough.
- The other modules state safety only.

## What the runs found

Three disagreements between the code and what its comments, schema or documentation say;
each is a run that TLC finds violated.

1. `semi_weekly`: "Rollover twice per week" (lib/vix_calculator.ts:472). At its Sunday 02:00 rollover the
   calendar still finds `hour() <= 2` (line 487) and announces the next Sunday: a calculator that asks at each
   rollover for the next one rolls over once a week from then on. The only caller is commented out (431-435). The
   other half of the comment, "Targets a rolling average of 14 days out", holds: `SupersededTermsBracket`.
2. `tokens_removed`: "Remove an invalidated token" (tokens.service.ts:153); a `check` that has read
   the token saves it after the removal, and TypeORM's `save` inserts it again.
3. `gateway_hour`: the interval `1H` (ws.service.ts:384) takes every 11th row of five minutes
   instead of every 12th (and `1D` every 287th instead of the 288th).

More were read off the code without a run: ingest looks the terms up once, when it starts, and from the
next Friday 08:00 UTC on does not stream the next term that the index asks for, until it is restarted
(ingest.service.ts:120; `StreamsQueriedTermsUntilRollover` is what does hold); a trade service whose start
fails stays up and healthy without a stream; the error handler that the gateway passes to
`VixCalculatorV2` (ws.service.ts:253) is stored and never called, so that a replay that fails leaves
its client connected and uninformed; the answer of `subscriptionCheck` (ws.service.ts:200) is truthy for
unknown channels too, so that the answer `topic_not_found` is never sent; the tick of the rate service
looks for an error among the values (rate.service.ts:31) that the action throws (line 76); a replay that
turns live and reports every minute sends one index for the slot before the start of its query.

## The proofs

Checked by `tlapm`; no step is assumed. The conclusions name the same definitions as the runs.
Every safety invariant and action property of a passing run is a theorem. Each argument is an inductive invariant, stated as a conjunction of
named parts in the proof module, with a lemma per action; the parts are said here.

**`MfivDatesProofs`** (lemmas on `mfivDates` for every moment, used by the next module and by
`PipelineProofs`). A moment is a minute of a weekday of a week (`MomentInWeek`); `FourteenDaysBracket` does the
arithmetic of weekdays by cases of that position, `PairAfterPair` shows that the pair stays until
the rollover it announces and moves up by one there.

**`CalendarProofs`** (`TimePeriod = 14` for the first three, the only one the offsets 19, 20 and 21 of
`nextExpiration` are right for; any `MaxStep`, `Horizon`, instruments).
`BracketingAlways`, `RollsOverWhenAnnouncedAlways`, `BothPathsAgreeAlways`, and
`SupersededTermsBracketAlways` for the two older calendars. The invariant is
`AnswersNow`: the state holds the answers for `now`. `AnswersTheBracket` says that
`buildExpiries` has exactly one answer, with given terms, once its candidates are known (`LeastExists`:
a set of naturals has a least element); `WeeklyIsMfivDates` that the weekly calendar announces
the Fridays of `mfivDates`.

**`VixCalculatorProofs`** (every calendar, query, time period and frequency).

- `TypeCorrect`, for recorded and live streams.
- `NoExpiredTermAlways`, `ReportedTermsBracketAlways`, and the refinement `CalculatorIsReplayJob`
  (`JobInitially`, `JobStep`), for a query that is recorded (`~LivePossible`): a live stream has no end at
  the first expiry, and may report from a term that has just expired until the rollover is noticed. `StreamInv`:
  while a stream runs, `expiries` is an answer of `buildExpiries` for its `refDate`, so that
  (`AnswerFacts`, `ArrivesInTerm`) every message is older than `rolloverAt` and thus than the near
  term; while it rolls over, the clock is before the new `refDate`. `LatestInv`: the latest delivery
  is not later than the clock, nor than `lastReport` by more than the minute that a rollover
  takes off it, which gives the spacing.
- `CompletedCoversQueryAlways`, `ReportsWithinQueryAlways`, for recorded and live streams, from `QueryInv`:
  a stream begins no earlier than the query (`StartInv`), and with a message in every slot one that
  goes on has reached neither the end of the query nor, when recorded, its rollover (`PaceInv`). The second theorem
  supposes a report frequency of two minutes or more if a stream can be live: with one minute
  a live stream, which shows messages from before the start, reports for the slot just before it.
- `BookIsCurrentAlways`, for recorded and live streams, from `CurrentInv`: what was seen and is not in
  the book is of a term that has passed, or has been set aside and is of the one future term. The rollover
  (`RolloverKeepsBook`) is where `TermsMoveUp` is needed. `TermsMoveUp` speaks of the answers of
  `buildExpiries`; `OrderedCalendarsMoveUp` derives it from conditions on the listings alone, which
  the calendar of `replay_gaps` satisfies: every next term is a time period or more after a listed expiry, and
  what is listed later expires later than the terms in use (`OrderedCalendarsKeepTheBook`).
- `ReplaysMoveOn`, the safety half of `ReplayEnds` for a recorded query: each of the steps fairness is assumed
  of moves the replay on (`Onward`: to its end, to a later stream that begins before the end of the query, or to a
  later moment of this stream, within its length), no step moves it back, and what has ended stays ended.

**`PipelineProofs`** (every clock, set of ticks, time to live, number of retries, rates and restarts;
`TimePeriod = 14` for the two theorems about terms). `PipelineTypeCorrect`, `AnnouncedTermsBracketAlways`,
`CacheBoundsStalenessAlways`, `RowsWereAnnouncedAlways`, `StreamsQueriedTermsAlways`. The promises are about
indexes announced long ago; the invariant says of every place a summary waits in on its way there how
much it may ignore: the book nothing (`BookInv`), an entry of the broker's cache nothing from before it was
made (`CachedInv`), an execution, which read its two terms at different moments and perhaps from the
cache, nothing from more than the time to live before its tick (`RunsInv`, `IsFresh`), and so what is announced
(`AnnouncedInv`). `SummariesAreFresh` is the step from one to the next, where time has passed between
the tick and the answer. `StreamInv` keeps that the streamed terms are those of a moment in the past.
`TicksAreAnnouncedOncePerAttempt`: a tick is announced at most `Retries + 1` times, however its attempts
overlap and whatever restarts. The count is not inductive; `OnceInv` is: the announced indexes of a tick can
be numbered by attempts, each by one of its own that was made and asks no more. `CallsComeToAnEnd` is the
safety half of `CallsSettle`: the timeouts left to a call are never more than `Retries + 1`, none is added,
a timeout takes one away, and the call has settled exactly when none is left.

**`TokensProofs`** (any number of tokens, owners, concurrent calls, days). `AuthorizationImplementsTokens`: the
gateway's calls are calls of the service, so that what is proved of `Tokens` holds of its composition.
`GrantIsFixedAlways`, and `AdmittedHeldAGrantAlways`, `AuthorizationTypeCorrect`. The properties speak of the table,
which every check writes to from an entity it has read a while ago; the invariant is about these
entities: what a call holds is what was granted, however old it is (`HeldInv`).
`RemovedInPeaceIsGone` is the part of "Remove an invalidated token" that does hold: a token that was removed
while no check held it does not come back.

**`GatewayProofs`** (any number of sockets, replays, moments and indexes). `GatewayTypeCorrect`,
`WholeUnlessSharedAlways`, `RecordedReplaysAreStoredAlways`, `ClosedAfterAWholeReplayAlways`. Nothing
in the state says why a socket is closed; the invariant names the culprit. `SocketsInv`: a closed socket has
been dropped, or some replay of it has completed and was sent whole. `SentInv`: a replay whose client was sent less than
was computed is not that replay. Both rest on `RobbedInv`: only a closed socket misses an index, so that the
replay that closes an open one has sent all it computed.
`ShortIntervalsAreHonoured` is what holds of `IntervalsAreHonoured`: `5M` and `15M` are what their names
say, for every table with an index every five minutes and every period asked for (`EveryThirdRow`, by
counting the rows before a row).

**`TradeProofs`** (every `Interval`, every set of timestamps, every whole number of seconds to wait).
`OptionKeysIncreaseAlways`, `TradeKeysIncreaseAlways`, `NoLookAheadAlways`,
`NothingLostAlways`. The properties are not inductive: `IInv` adds that the open bucket is
later than everything emitted (until a restart, or for ordered messages), that its
open and close times are at most the latest time, and that the rows in the tables are keys of
emitted buckets — the link between "keys increase" and "no insert is refused".
`ServicesImplementCapture`: a behaviour of `TradeServices` is one of `TradeCapture` — a process started
again is its `StartAnew`, and everything else leaves its variables alone — so that the theorems above hold
across crashes, restarts and a database that goes away; `ServicesLoseNothing` draws that conclusion for
`NothingLost`. `ServicesTypeCorrect` is inductive as it stands once the counter is known to be a multiple of
1000: that is why it ends at zero and does not run past it.
`StartsComeToAnEnd` is the safety half of `EveryStartSettles`: each second of the timer and each answer to the
look-up lowers `Left`, and nothing raises it while the process lives.

**`StandaloneProofs`**: the components that have a specification of their own.

- The rate service (any number of ticks, retries, rows and restarts): `RateTypeCorrect`,
  `AnnouncedRatesArePersistedAlways`, `RowsRecordChangesAlways`, `RateNeverGoesBackAlways`. The properties speak of the
  table, the code of `lastRate`; the invariant ties them. `SavedInv`: `lastRate` is in the table. `LastInv`: it is
  the last row's value if this process has inserted that row and knows it. `AloneInv`: an execution that is
  alone is the only one, so that what it compared with is still `lastRate` when it inserts (`RowAppended`).
- The superseded calculator (`CalculatorSpec`): `OneReportPastTheEndAlways`, from `SupersededInv`: an overrun is
  the last report.
- instrument_info (`InfoSpec`): `NothingListedIsMissingAlways`. `ListInv` says of the list and of every request
  on its way, in whatever order they arrive, that it is of the service's asset and read no earlier than
  the list the service began with, unless somebody refreshed for another asset; `CacheInv` that a
  cached answer is complete in the same sense; `StartingInv` that no request of a start is left later.
- The superseded replays (`LegacySpec`): `OwnEvidenceUnlessSharedAlways`, which holds because each index
  is of summaries of terms of its replay alone (`SentInv`), wherever they come from; `SharedInv` and `LookUpInv`
  follow them through the shared cache and between the two look-ups of a bucket.
- The final book (`MidsSpec`): `FinalBookIsWholeAlways`, for every book over every finite set of strikes. What
  is summed does not follow from a case analysis, as the book has any length. `EntriesHaveAnOrder`:
  sorting does something, as each entry has a place, the number of those up to it. `TargetIsTheAdjacentStrike`
  and `ForwardIsANumber` find the target, which the search in the code always does. `WidthsTelescope`:
  the sum of the widths is twice the distance from first to last, and the gaps at the two ends, which the
  code does not halve; for every length, as a shortest list that fails would be longer than one that fails already
  (`NaturalsHaveALeast`).

Assumptions on constants, all named in the modules that declare them and evaluated by the runs: natural
numbers where the code has them, a clock that begins before it ends (`IngestAssumption`), a timeout of whole
seconds (`WaitAssumption`), a finite set of strikes (`StrikeBookAssumption`), and two different terms for every timestamp asked for (`LegacyReplayAssumption`; they
are `mfivDates`' near and next Friday).

Only model-checked:

- liveness (`ReplayEnds`, `CallsSettle`, `EveryStartSettles`): the prover has no fairness and no `ENABLED`. What
  it does reach is proved (`ReplaysMoveOn`, `CallsComeToAnEnd`, `StartsComeToAnEnd`): that the steps fairness is
  assumed of bring the end nearer, and no step takes it further away. That one of them is possible until the
  end is left to the runs;
- that the three properties of `semi_weekly`, `tokens_removed` and `gateway_hour` are violated; the part
  of each that does hold is proved (the last conjunct of `SupersededTermsBracket`, `RemovedInPeaceIsGone`,
  `ShortIntervalsAreHonoured`).

## What is not modelled

- **compute**, the library `node-volatility-mfiv`: it is outside of the repository. It gives a
  value or throws.
- **Live channels** of the gateway: who is subscribed, and what of a published index arrives, is up to
  uWebSockets, and the documentation promises nothing of it. **CLIENT_MESSAGE**: published to a topic that is not a
  channel.
- **rate** with persisting switched off; the circuit breaker and the bulkhead of the broker, which the
  configuration disables.
- In the superseded code: the arithmetic that closes `calculateIndex` and the index that a report carries,
  and the growth factor of the forward price in `StrikeBook`, which is taken as 1.
- **ipfs**, data sources, secret manager, `test.service.ts`, REPL commands and mixins: pure I/O,
  or template code; the cron mixin appears as ticks.
- `src/ws/stream.ts` is behind a route that is commented out. `src/graph.ts` and the scripts are
  utilities for the command line that share no state with the services.
- Migrations, entities and deployment files: declarations; their primary keys appear in the modules
  that insert.
- Prices, strikes and the numbers of an index, except the mids of `StrikeBook`.

## Plan

Done, in this order: the calendar and the selection of terms (every index rests on
them), the calculator of replays and its abstract job, the live pipeline, tokens and the gateway's
authorization, trade capture and the start of its processes, the gateway, the
rate, the instrument_info service, and the superseded calculator and replay; then the theorems: the
safety properties of all of them.

What is left to model is small: several symbols through one stream.

Next, to prove:

1. `VixCalculator` beside `ReplayGateway`: the gateway supposes nothing of the moments of a calculator, so that its
   theorems hold with any; a specification that runs both side by side would say in addition that a recorded
   replay inserts no key twice, from the spacing that `CalculatorIsReplayJob` proves;
2. `EstimatePipeline`: what the table keeps of the indexes that several attempts announce for one tick.
