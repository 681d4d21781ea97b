# Signaller: a verification project

TLA+ models of the journey planner's services, checked with TLC on small
instances and, for most of the safety properties, proved with TLAPS for every
value of the constants. Paths below are relative to the repository's root; every
module says in its header which files it models, and `PROJECT.json` maps each
definition to its lines.

## 1. The system

Signaller is a TypeScript monorepo: three feed services and a web application
around one Postgres database, one Redis, and a MOTIS routing engine.

| component | state it keeps | operations | talks to |
|---|---|---|---|
| `services/nr-ingest` | `nr_train_position` (one snapshot row per train key), `nr_position_history`; in memory: `keyLocks`, `ridStrikes`, the history buffer and its timer, the connection and its generation, a candidate cache, S-class area state | `applyMovement`, `applyActivation`, `applyBerthStep`, `revalidateRid`, `queueHistory`, `flushHistory`, `applySClass`, reference loads, subscribe and reconnect, shutdown | Network Rail (STOMP, Kafka), Postgres, Redis `nr:pos:*` |
| `services/darwin-ingest` | `darwin_train`, `darwin_stop_forecast`, formations, loading, station messages, `alert`; in memory: the cached set of tracked trains | `applyTS`, `applySchedule`, `applyDeactivation`, other Push Port messages, `matchDelay`, `matchCancellation`, corridor precompute, nightly prune, disruption poll, pre-departure digest | Darwin (Kafka), Postgres, Redis, Web Push, APNs |
| `services/etl`, `services/motis-sidecar` | `etl_run`, the timetable and fares tables, the scratch database, fixed paths, the input volume and data directory of MOTIS | run guard, import of pending files, export to GTFS, load, upload, reimport and restart of MOTIS | SFTP, HTTP between the two, Postgres |
| `apps/web` server libraries | commutes, runs, overrides, pins, favourites, push subscriptions; in memory: live sources, the Redis bus, promise caches | request handlers, `subscribeToSource`, `subscribeToMap`; the views: service page, live map, boards, journeys | Postgres, Redis, MOTIS, LDBWS, TfL |
| `packages/db`, `packages/shared`, `packages/routing-adapter` | the schema; a session-level advisory lock (`singleton.ts`) | pure helpers (dating of times, matching of runs, resolution of a commute), queries | Postgres, MOTIS |
| `apps/web` pages, `apps/ios` | what is on the screen, a stream or a poll | opening, reconnecting, polling, leaving | the web API |

Where the difficulty lies:

- **nr-ingest handles frames concurrently.** A frame's handler has several
  awaits, and nothing awaits one handler before starting the next. Only
  `withKeyLock` keeps handlers of one train apart. Frames come late, twice and
  after restarts; a query may fail in the middle of a handler.
- **The history is buffered** in memory between a report and its INSERT, and the
  buffer is shared by every handler, a timer and the shutdown. Connections are
  replaced while the retired ones still speak.
- **darwin-ingest handles messages one at a time**, but its cron jobs run at the
  awaits of the consumer: the prune deletes rows a handler has just read, the
  precompute invalidates a cache a handler is filling. A failed message is
  skipped for good; a replay after an outage brings old messages again.
- **A viewer of the map** may leave, and another come, in the middle of a
  computation; what one is sent is a difference to what was sent before. At the
  other end, a page mixes a stream with polls whose answers overtake it.
- **The ETL** shares one scratch database and two fixed paths between four ways
  to start it, commits a timetable before MOTIS reloads it, and gives up on a
  sidecar that goes on.
- **A commute** is read statement by statement while other devices start and end
  its run and its grid is edited.
- **The views** put one train together from four tables, which three feeds fill
  at their own pace, with bare HH:MM times, stations visited twice, other days'
  runs of the same timetable, and reports of other trains.

What makes each component correct: reports of a train take effect in order and
the newest stands (nr-ingest); no history row is lost or written twice
(history); a forecast is never undone by an older message and a calling pattern
stays in travel order (Darwin); an alert goes out once and none is passed over
(alerts); what is on a viewer's map is what was computed last, and a page comes
to show it (streams); the engine serves a timetable the database was loaded
with, and lags only where somebody can see it (ETL); one run of a commute is in
play and ends (commutes); no view puts a train ahead of where it was (views).

## 2. The modules

| module | models | in |
|---|---|---|
| `FifoLock` | what `withKeyLock` promises: one call per key at a time, in arrival order | the comment and the uses of `withKeyLock` |
| `KeyLock` | the chain of promises: the map entry, `previous`, the inner promise and `release()`, the `finally` block, one action per microtask | `nr-ingest/src/store.ts` |
| `NrPosition` | the handlers of movements, activations and berth steps, split at their awaits, with strikes, failed queries, lost answers and restarts | `nr-ingest/src/store.ts`, `index.ts` |
| `LockedPosition`, `MCNrPosition` | those handlers over that chain: what the process runs | `nr-ingest/src/store.ts` |
| `PositionHistory` | the buffer, its timer, its batches and the shutdown | `nr-ingest/src/store.ts`, `index.ts` |
| `IngestProcess` | the same under the process's connections: errors, reconnects, refusals, the Kafka consumer's crash | `nr-ingest/src/index.ts` |
| `DarwinTrain`, `MCDarwinTrain` | one service's calling pattern under status messages, schedules, deactivation, abandoned handlers and the nightly prune | `darwin-ingest/src/store.ts`, `maintenance.ts` |
| `Alerts`, `MCAlerts` | the consumer's alerts with their deduplication, cache, publication and push, next to the precompute and the user's edits | `darwin-ingest/src/alerts.ts`, `push.ts`, `index.ts` |
| `Serving` | what the import promises: the engine serves a version that was loaded into the database | the two services' use of one timetable |
| `Timetable`, `MCTimetable` | the four guarded ways to start an import and the bundle upload, stage by stage, the advisory lock, the watermark, the upload, the sidecar | `etl/src`, `motis-sidecar/src`, `packages/db/src/singleton.ts`, `web/lib/etl-apply.ts` |
| `LiveSource` | the shared computation of the map with its viewers, triggers, ticks and differences | `web/lib/live-source.ts`, `live-trains-source.ts` |
| `LiveClient` | a page that shows a stream, in five kinds: its stream, its poll, its timers, its leaving | `web/components`, `web/lib`, `ios/Signaller` |
| `CommuteResolve` | what the grid, a date's override and the clock make of a commute | `packages/shared/src/commute.ts` |
| `Commute`, `MCCommute` | starts, polls and ends from several devices, over those definitions, with edits in between | `web/lib/commute-runs.ts`, `commute-dashboard.ts`, `commutes.ts`, `commute-overrides.ts` |
| `Lists` | the members of a list at chosen places, for the modules below | |
| `UkTime` | HH:MM, the instant it means, and the change of the clocks | `packages/shared/src/uk-time.ts` |
| `ServiceMatch` | which run a service is, which report and which stops are its | `packages/shared/src/service-match.ts` |
| `ServiceProgress` | the front of the train from each feed, the markers, the banner | `web/lib/service-progress.ts` |
| `ServiceDetails` | the calls of a page and of a leg | `web/lib/service-details.ts` |
| `LiveTrains` | the map's trains: which row stands, its list, its place on its leg | `web/lib/live-trains.ts` |
| `Boards` | a board's live times, places and order | `web/lib/darwin-board.ts`, `board-position.ts`, `board-order.ts`, `darwin-forecasts.ts` |
| `TrainViews`, `MCTrainViews` | a train that moves and is reported, and those five read meanwhile | the above, over the tables the feeds write |
| `NrIngestProofs` | the theorems about `NrPosition`, `KeyLock`, `LockedPosition`, `PositionHistory` and `IngestProcess` | |
| `DarwinIngestProofs` | the theorems about `DarwinTrain` and `Alerts` | |
| `TrainTimesProofs` | the theorems about the times that `TrainViews` shows, and about the choice of the run | |
| the other `*Proofs` | the (other) theorems about the module of that name | |

How they are put together:

- `KeyLock` implements `FifoLock` (`Abstract == INSTANCE FifoLock`), and
  `NrPosition` extends `FifoLock` and runs its handlers under it.
  `LockedPosition` extends `NrPosition` and `KeyLock`: a handler starts when its
  promise is settled and ends in the `finally` block, a restart takes the chain
  along, and the whole implements `NrPosition` (`ImplementsPosition`).
- `IngestProcess` extends `PositionHistory`: reports come while a connection
  delivers, a signal closes the connection and starts the shutdown.
- `Timetable` implements `Serving`: `published` is the set of versions with an
  `ok` row in `etl_run`, `serving` is the engine's.
- `Commute` extends `CommuteResolve`.
- `TrainViews` extends `ServiceDetails`, `Boards` and `LiveTrains`, which extend
  `ServiceProgress`, `ServiceMatch`, `UkTime` and `Lists`: page, map and boards
  look at the same tables of the same moment.
- The other modules stand alone: they meet in the database and in Redis.

### State and code

- *A handler is split at its awaits*: `step`, `pc`, `at` or `phase` says which
  await a handler is at, and the variables named "locals" in a module are its
  local variables. A stretch without an await is one action.
- *A statement on the database is one atomic action*; its answer is a separate
  action where something can happen in between that matters (`RefreshReads`
  and `RefreshReturns`, `Read` and `Finish`).
- *Data the properties do not tell apart is left out*: a report is its kind,
  time and whether it can be placed; a stop's live fields are the time of the
  message that wrote them; a map is a function from trains to places; a
  timetable is a version. In the views, times are minutes and matter.
- *Answers that depend on tables outside the module are nondeterministic*: the
  rid found for a headcode, whether a link is plausible, which stops a prune's
  statement picks.
- *History variables* (so named in the modules) record what a property speaks
  of and the code does not keep: the number of publications, the ticket of the
  report that wrote a row, the instants at which a train passed its points.
- *Definitions under a comment "Mutant:"* are not used by the models. Each is
  the definition next to it with a bug that could have been written; replacing
  one by the other violates the property named in `PROJECT.json`.

Some choices deserve a word. `NrPosition` takes the lock from `FifoLock` rather
than from `KeyLock`: its proofs then need not speak of promises, and
`LockedPosition` shows that the process with its promises behaves like that. In
`DarwinTrain`, stops are numbered in travel order, which is what a schedule says
and what the properties are about; the booked times, which are all that
`seqForTime` has, are minutes of the day beside it (`booked`), so that a run
over midnight has a later stop with an earlier time. Schedules list the whole
pattern. In `LiveSource`, a source's number stands for
one object in the `sources()` map: a source that is stopped and created again
under the same key is another number. In `Timetable`, two overlapping runs of
`motis import` write the data directory in either order, but do not mix in it.
In `TrainViews`, the page's answer is loaded in four queries while the world
moves on, and the map and the boards, which are single reads, are functions of
the world; the feeds' tables are written by the train's movement directly, in
the form the ingesters leave them in. Estimates are part of a scenario: Darwin
and the board's service say of a call, until the train has been there, how many
minutes late or early it will be, and take that back when an actual time comes.

## 3. The runs

| run | cfg | states | properties | bounds |
|---|---|---|---|---|
| `key_lock` | `KeyLock.cfg` | 157 000 | `NoEntryWhenIdle` `ImplementsFifoLock` `EveryCallRuns` | 4 calls, 2 keys |
| `nr_position` | `NrPosition.cfg` | 1 692 000 | `ReadIsCurrent` `SnapshotIsNewest` `NoResurrection` `TrustUnlinkTakesTwoFailures` `ImplementsPosition` | 3 reports, a TRUST and a TD key, 2 rids, 2 times, 1 fault where all reports are of the TRUST key |
| `history` | `IngestProcess.cfg` | 524 000 | `EachRowOnce` `ShutdownFlushCompletes` `OneStream` `EveryRowIsFlushed` | 4 rows, batches of 3; 2 connections, 2 errors, 1 refusal |
| `darwin_train` | `DarwinTrain.cfg` | 2 743 000 | `EstimateIsNewest` `TimedStopsInOrder` `ScheduleOrderStands` | 3 stops, 2 of them timed, by day or over midnight, 2 message times, 1 prune of 2 statements |
| `darwin_prune` | `DarwinPrune.cfg` | violation | `NoOrphanStops` | 2 stops, 1 prune of 1 statement |
| `alerts` | `Alerts.cfg` | 1 340 000 | `AlertedOnce` `SilentAlertsAreFaults` `NoMatchPassedOver` | 4 corridor rows, 2 subscriptions, 1 fault, 1 edit |
| `timetable` | `Timetable.cfg` | 333 000 | `FilesInOrder` `NoFileIsSkipped` `EngineFollowsDatabase` `ServesWhatWasPublished` `LockIsReleased` | 2 files, 3 runs of the four guarded kinds, 2 at work at once, 1 fault |
| `timetable_bundle` | `TimetableBundle.cfg` | violation | `OneRunAtATime` | 2 files, a sync and a bundle, no fault |
| `live_source` | `LiveSource.cfg` | 23 000 | `OneSourceServesAll` `ViewsFollowLatest` `TriggersAreServed` `StoppedSourcesEnd` | 2 viewers, 2 sources, 1 train in 2 places, 1 failure |
| `live_client` | `LiveClient.cfg` | 98 000 | `OneFeed` `LeavesQuietly` `PageCatchesUp` | five kinds of page, 2 streams, 2 fetches under way, 1 change of the world, 1 fault |
| `commute` | `Commute.cfg` | 270 000 | `StartLeavesOneRun` `DirectionHeld` `EndedOnce` `RunsEnd` | 2 devices, 2 runs, 2 saves of the grid, a day of 3 ticks, a grace of 1 |
| `train_views` | `TrainViews.cfg` | 505 000 | `NeverAhead` `MarkersAgree` `NeverRetreats` `OursIsFound` `MapFollowsNewest` `TimesAreBooked` | 9 scenarios on 2 routes, 1 oddity, 2 loads of the page |

Why the bounds are enough to be of interest. The lock's hazards need three
calls of one key (one that finishes, one queued behind it, one that arrives
between) and a fourth under the other. A position goes wrong with two reports
and an activation, and a link is dropped by two checks after the report that
made it; the strike map's limit is 1, so that it is cleared. A batch can be in
flight while another fills and the shutdown begins; a second connection is all
that a late error of the first can disturb. Two stops with a third between them
exercise every branch that places a stop; message times 1 and 2, and none, give
a replay, and the two timetables, 10:00 and 10:20 or 23:50 and 00:10, have the
clock agree with the order of travel and not. The rows of `MCAlerts` have one train that serves a commute both ways
and another commute too, which is where deduplication and the loop over matches
meet. Two files (delivered in the order of their times), of which the second may come
while the first is being imported or after it failed, are what the watermark can
get wrong, and a third run meets both a lost reimport and the lock of a dead
one. Two sources are what it takes for
the computation of a stopped one to cross that of its successor. A page that is
left and opened again meets the stream and the fetch of its earlier visit. Two
devices make every race of read, UPDATE and INSERT there is, with the second
grid to disagree with what was read. The night train of `MCTrainViews` (23:50 to
02:05, with a point it only passes) crosses midnight and, at 01:00, the start of
summer time; the other one comes back to where it started. The scenarios are: a
portion that divides from it; a page asked for by rid while yesterday's and
tomorrow's runs are active; no feed linked to its run; a schedule that lacks two
of its points, with the other days' runs and an unlinked describer; one that
lacks the last, without a rid and with it; one that has the first point only; no
schedule at all; the loop. Some calls have an estimate, of up to twenty minutes
late or two early, which puts the night train's departure at 23:50 on the next
day; the scenario by rid has none. The one oddity is a lost report, a
train held for 12 minutes, or another train reported at one of three stations.
Each scenario satisfies `Timetabled`, on which the theorems about times rest,
and `Divided` and `ToldOnce`, which `TimesAreRight` supposes besides; each that
`OursIsFound` is about satisfies `ToldApart`, on which the one about the choice
of the run rests. `MCTrainViews` has TLC evaluate all four.
Where a bound could hide something, the theorems of section 5 hold without it.

`CHECK_DEADLOCK FALSE` stands where a run really ends: every report has been
handled, the process has exited, the day is over, the last run is done.
`NrPosition` is checked up to permutations of the reports and of the rids,
`Alerts` up to permutations of the subscriptions; the runs with liveness
properties use no symmetry.

### Fairness

- `KeyLock`: a microtask that is ready runs, and whatever a handler awaits is
  answered or fails (the drivers have timeouts). Nothing makes a report arrive.
- `IngestProcess`: a timer of the buffer that is set fires, and an INSERT is
  answered. Connections are given no fairness; `OneStream` says of every state
  that a reconnect is owed and not that it succeeds.
- `Timetable`: a run that was started goes through its stages, which end or fail
  (timeouts around the subprocesses and requests), or dies. Nothing makes a file
  arrive, a run start or a process die.
- `LiveSource`: a debounce timeout that is set fires, and the query is answered.
  The interval is left unfair on purpose: were it fair, every trigger would be
  served by the next tick, and a trigger lost in the middle of a computation
  would go unnoticed.
- `LiveClient`: timers fire, a connection attempt is answered, the server serves
  a fetch and its answer arrives. Firing of the poll, and what a server sends
  over a stream, are strongly fair: a stream may drop, and a poll be stood down,
  again and again in between.
- `Commute`: the clock goes on, and a device whose request is under way goes on
  with it and polls again, for the page refreshes every thirty seconds. Ends by
  hand and edits are left to chance.
- `NrPosition`, `DarwinTrain`, `Alerts` and `TrainViews` have safety properties
  only, and no fairness.

## 4. What the runs show

**Holds.** The promise chain is a FIFO mutex per key, leaves no entry behind
and starves no call. Under it, no handler writes a rid that its row has lost
since, a snapshot never lags behind the history recorded for it, a link that a
report rejected does not come back by an older report or a late activation, and
a link of a TRUST train is dropped only by the second report in a row that fails
it (item 3 has the exception), whatever other reports, activations and restarts
come in between. Rows of the history are
in one place each, and the shutdown awaits the batch it sends; the process has
one connection or one reconnect on its way. A forecast is that of the newest
message, whatever the order and the prune; the timed stops of a run that stays
within one day are in the order of their booked times although messages mention
them in any order (item 11 has the others); a schedule's order, over midnight
too, survives the messages after it. An alert is published and pushed once, no match is passed
over, and an alert that stays silent has a fault to show for it. Files are
imported in the order of their times and none is passed over by the watermark;
the engine serves only what the database was loaded with, and lags behind it
with nothing running only if the newest row of `etl_run` is a failure (or one of
the ends that leave no row, which the property names). Viewers share one source,
what they were sent adds up to the latest computation, triggers are served, and
a stopped source ends. A page does not poll beside a flowing stream, runs no
timer after it was left, and comes to show the world as it is. One run of a
commute is in play at most, a start leaves one, a run ends once and does end,
and the dashboard holds the direction of the run it was asked for. Page, map and
boards never put the train ahead of where it was, a page's markers agree with
each other and with its banner, it does not go back, it is of this day's run,
the map has the train once and where the newest report puts it. A call of a
page, or of a leg that begins on the day the train starts on, is shown for when
the train is booked there, for when it was there only once it was, and for when
it is forecast there; a portion is dated behind the point where it leaves; and a
board shows when the train left or is expected to, and moves it behind a train
that is booked before then.

**Does not hold**, against what a comment says (the trace is the run's):

1. `darwin_prune`: when the stops' table stops at its chunk ceiling, or a late
   message writes a stop after its last statement, the trains are deleted all
   the same and the rows left are "orphaned forever" (`maintenance.ts:86`).
2. `timetable_bundle`: a bundle uploaded to the web application
   (`etl-apply.ts:104`) loads and pushes beside a sync, though the guard counts
   it among the "four ways to start one" (`run-guard.ts:9`). With two bundles
   the database ends on one version and the engine on the other.

**Does not hold, stated in a module but checked by no standing run.** The
definitions are there to be put into a cfg.

3. `UnlinkTakesTwoFailures` (`NrPosition`): a strike counted against a berth
   step's link is charged to the link that replaces it, which is then dropped
   after one failed check. The same befalls a TRUST train, with more frames than
   the run has: a query fails after the strike was counted, so that the row an
   activation seeded stays as it was; a second activation puts another rid into
   it, and the new link inherits the strike. `TrustUnlinkTakesTwoFailures`
   excepts a train that is activated and meets a fault.
4. `NothingQueuedIsLost` (`PositionHistory`): a batch sent by the timer just
   before the signal, or a row queued by a handler still running, is not awaited
   by the exit, though "anything still queued has to be written before exiting".
5. `InvalidationForcesRefresh` (`Alerts`): an invalidation that falls between a
   refresh's query and its answer is undone by the answer; the trains just
   stored are not matched until the set ages, five minutes later.
6. `OnlyExpiredIsCleared` (`Alerts`): a push service's 410 for an old
   subscription clears the one the user has registered meanwhile.
7. `NothingIsLeft` (`LiveClient`): the map and the diagram never close their
   stream when the page is left, against "Nothing runs when nobody is looking"
   (`live-source.ts:13`).
8. `NothingOlder` (`LiveClient`): the answer of a poll sent before the stream
   was ready lands after its snapshot and puts the older map back
   (`live-map.tsx:304`, `MapModel.swift`).
9. `PollsAreShown` (`LiveClient`): once a stream has spoken, the service page
   shows its last message and nothing it polls after the stream dropped
   (`service-position-map.tsx:174`).
10. `OursIsFound` (`TrainViews`), if `SummerFrom` is an hour after the midnight
    the train's starting day begins with: `candidateServiceDays`
    (`darwin-forecasts.ts:38`) takes twenty-four hours off the clock, which
    between 00:00 and 01:00 on the day after the change lead to the day before
    it. A night train of the day of the change is not found in that hour, by
    pages without its rid and by boards, against "bounded ... to the
    current/previous service day" (`service-progress.ts:270`). The other
    invariants hold there. The run has the change on the second day, where it
    falls in the middle of the journey.
11. `StopsInTravelOrder` (`DarwinTrain`): on a run over midnight that no
    schedule seeded, `seqForTime` compares HH:MM by the clock alone
    (`darwin-ingest/src/store.ts:79`). A stop booked at 00:10 and first
    mentioned after one of 23:50 finds none booked before it and goes one place
    ahead of the first, against "place it by scheduled time relative to the
    stops we do know" (`store.ts:51`). The pattern then goes backwards in time,
    which `resolvePatternTimes` takes for another midnight (`store.ts:95`).

**Does not hold, met while modelling, and excepted by a property.**

- `ViewsFollowLatest` excepts a source that was *crossed*: the last viewer
  leaves during a computation (a page reload does it), a new source is created
  and computes, and then the first computation ends. Both write the module's
  variable `previous`, so the next difference is taken to a map that no viewer
  shows. Without the exception the invariant is violated in twelve steps, and a
  train that moved and moved back in between stays wrong until it moves again,
  against "the whole snapshot first, then only what changed"
  (`live-trains-source.ts:101`). For the same reason "runs at most once at a
  time per key" (`live-source.ts:33`) holds per source object and not per key,
  and a computation noted before the stop still runs afterwards
  (`StoppedSourcesEnd` bounds it).
- `PageCatchesUp` excepts a page on which an older answer has landed (8), and an
  alert feed that missed one: its refetch after a frame is not tried again when
  it fails, and the stream says `ready` before its SUBSCRIBE is effective. It
  says nothing of a page without a feed (`HasAFeed`): an iOS map without Redis
  or behind a proxy that buffers polls once only, an alert feed behind such a
  proxy never.
- `TimesAreBooked` admits that a call whose actual time Darwin has is still
  given its booked time as the expected one: the estimate is taken back with the
  actual, and the page falls back on the schedule (`service-progress.ts:497`).
  On a line that passes a station twice, and of a page of another day's run, it
  speaks of booked times alone. It leaves out a leg that begins after midnight:
  `service-details.ts:508` anchors it at noon of the day the train started and
  dates it a day early, though the comment there speaks of the "correct service
  date for overnight trains". `Timetabled` leaves out, for the same reason, a
  summer train whose first known call is booked between 00:00 and 01:00: the
  anchor is noon by UTC, more than twelve hours on, and all the calls of its
  page by rid come out a day late.
- `OursIsFound` leaves out a deactivated run and one whose schedule Darwin
  lacks: the page by rid goes back to awaiting a report, or takes another day's
  run that is still active, at whatever distance in time.
- `NeverRetreats` holds with the one oddity of the run. With two it does not:
  Darwin's time at a stop is lost, a page shows the stop by a fresh report, the
  train is held until that report has aged, and the next load finds neither; or
  it finds the next report in the describer's query only, after it had settled
  for less in the queries before.
- `NeverRetreats` is about a train linked to its run by both feeds: the page
  goes back when an unlinked describer's row moves to a point the train only
  passes. A page may also adopt the position of a stranger with its headcode.
- `MapFollowsNewest` speaks of the map's list of calls where the report's
  station is on the list, and the list has more than that one, of which the map
  draws nothing. Elsewhere the list marks the
  stop Darwin expects next; as passing points never get an actual time, that is
  the first of them for the rest of the journey, and the origin when every call
  has one.
- `NeverAhead` is about a page on any line in the run's scenarios, but the
  theorem is about lines that pass no station twice. Where a train passes a
  station first and calls at it later, a page marks the call as soon as the
  train has passed: the describer's report goes to the only call of that name
  (`service-progress.ts:648`), and if the train makes no call in between,
  `alignCallsToRun` takes the first row of that name, the passing point's,
  though passing points "are simply skipped over" (`service-match.ts:312`).
- `NeverAhead`, on a line that comes back to its origin, takes the visit by the
  distance in calls where the comment (`service-progress.ts:191`) has the
  distance in scheduled time, which is why reports that expired can put it at
  the other visit; and an overrun marks two calls as the current one against
  "MUST name the same stop" (`service-progress.ts:510`).

Of the same kind, seen in the code and outside what the models' properties say:
a rival day's run at the same minute hides a board's row or takes it;
`board-position.ts` keeps the last of a run's rows the database returns, not the
newest; a start of a run whose leg was deleted fails after it ended the run
before; in `nr-ingest/src/index.ts` the test `generation !== clientGeneration`
after `connect()` cannot be true, for the stamp is read after the await, and the
second connection (VSTP, TSR, RTPPM) is replaced without closing the first;
`expireStaleRuns` has no caller.

## 5. What is proved

All proofs are by TLAPS, for any values of the constants that satisfy the
`ASSUME`s of the module (which TLC evaluates in every run). An invariant is
seldom inductive as it stands; the strengthenings are these.

- **`NrIngestProofs`**, the handlers: `TypeCorrect`, `CarriedRidIsCurrent`,
  `SnapshotFollowsHistory`, `SnapshotTimeGrows`, `RejectedLinksStayRejected`.
  The invariant (`HandlersAreSerial`) says that the running handler of a key is
  the earliest unfinished one, at which steps it has which locals, that what it
  read is what the row holds, and that a stored row is as new as any report
  recorded. It holds under failed queries, lost answers and restarts; a restart
  keeps the tickets, so "newest" spans it.
  `TrustLinksDropLate` needs to know more of the strikes (`StrikesInv`): they
  are failed checks of the link in the row, none is left when there is no link
  or another is about to be written, and a row that an activation may still
  overwrite has none unless the handler that counted them is about to write it.
- **`NrIngestProofs`**, the chain: `ChainTypeCorrect`, `LockExcludes`,
  `LockKeepsOrder`, `LockMapIsTidy` and `ChainImplementsLock`, the refinement of
  `FifoLock`. The invariant (`ChainShape`) describes the chain: a call's
  `previous` is the call made just before it with its key, or none when all
  earlier ones are done; the map names the last call of the chain; and a call is
  armed only when all calls before it are done.
- **`NrIngestProofs`**, the two together: `ChainServesPosition` shows that
  `LockedPosition` implements `NrPosition`, for the shape of the chain survives
  the handlers' steps and the restarts; hence `ProcessKeepsPosition`, all of the
  above for the process as it runs.
- **`NrIngestProofs`**, the history and the process: `RowsAreWrittenOnce`, `BufferStaysBounded`,
  `ShutdownAwaitsItsFlush`, from a partition of the queued rows. The process
  with its connections takes only steps of the buffer (`ProcessIsHistory`), and
  so keeps these properties (`ProcessKeepsHistory`). `OneStreamOnly` is about the
  connections: the invariant (`StreamInv`) says that the subscribed connection
  is the one in `activeClient`, that it alone is of the present generation, so
  that every late error is ignored, and that `reconnecting` is set exactly while
  a reconnect waits for its timer.
- **`DarwinIngestProofs`**, the calling pattern: `TypeCorrect`, `NewestEstimate`, `ScheduleStands`,
  `TravelOrder`, for any booked times. The last, which is about runs that stay
  within one day (item 11 is the exception), is the hard one: the places are computed from rows
  read before an await, and the prune may have deleted some since. The
  strengthening (`ReadInv`) is that while a handler waits to write, the rows it
  read are in order and hold every row the table still has, at the same place;
  `PlacesAscend` shows that the places chosen among them are in order.
- **`DarwinIngestProofs`**, the alerts: `AlertTypeCorrect`, `AlertsAreRaisedOnce`,
  `MatchesAreHandled`, `FaultsSilenceOneEach`: an alert not yet inserted has no
  publication; every match of the event is in the rest of the loop, at hand,
  skipped or alerted; and the unpublished alerts are counted against a budget
  of faults.
- **`TimetableProofs`**: `TypeCorrect`, `GuardedOneAtATime`, `RefinesServing`,
  `FilesAreInOrder`, `NothingIsSkipped`, the last three for any overlap of runs,
  failures and deaths. A guarded run at work holds the lock (`Exclusive`), so
  one at most shares the scratch database; without bundles this is
  `OneRunAtATime`. The refinement rests on `OnTheWay`: every copy of a timetable
  between the database and the engine, in a request, on the volume, in the data
  directory, was loaded before (or is the mixture of two uploads, which the
  sidecar's import refuses). The order of files needs `RowsOfFiles` and
  `QueueInOrder`: what a sync still has to import is newer than every row, and
  what it imports now comes before the rest; `NothingMissed` adds that a file
  the watermark has passed is a row. `NothingIsSkipped` assumes that no two
  files share a time and that they arrive in that order (`DistinctTimes`); the
  watermark would pass over one that came late. `EngineCatchesUp`
  (`EngineFollowsDatabase`) assumes that no bundle is uploaded, for a bundle
  takes no lock and the statement is then false (section 4, 2). Its invariant
  (`Follows`) follows the newest timetable of the database to the engine: either
  a run is on its way to deliver it, in which case every copy on that way is the
  newest, or the engine has it, or the newest row is a failure, or one of the
  ends that leave no row came since.
- **`LiveSourceProofs`**: `TypeCorrect`, `ViewersShareOneSource`, `DeltasAddUp`:
  `previous` is the latest computation of the source in the map unless that
  source was crossed, and `DeltasApply` shows that a difference applied to what
  it was taken to gives what it was taken from.
- **`LiveClientProofs`**: `TypeCorrect`, `PageHasOneFeed`, `PageLeavesQuietly`,
  for any kinds of pages, visits, fetches and faults. The invariants say that a
  page has one stream or waits for the timer that opens one, never both
  (`FeedInv`, which needs that the streams of a page are there and the page
  open), and that only the map and the diagram have a stream that is not their
  page's any more (`QuietInv`).
- **`CommuteProofs`**: `TypeCorrect`, `OneRunInPlay`, `RunsEndOnce`,
  `DashboardHolds`, for any devices, runs, saves of the grid and hours. That one
  run is in play rests on the INSERT's partial unique index (`OneRunInv`). That
  the direction holds needs to know, at each statement of the dashboard, which
  of the things it read still stand (`HeldInv`): the run it saw open is the one
  it was asked for, or that one has ended. That reasons stay needs that the
  dashboard ends a run only for a reason (`ReasonInv`).
- **`TrainViewsProofs`**, the tables and what is read from them at once:
  `WorldIsReported`, `MapFollowsReports`, `BoardsAreReported`, for any set of
  scenarios: any route of two points or more, any part of it known to Darwin,
  other days' runs, linked feeds, and any number of losses, pauses and strays.
  The invariant (`WorldInv`) says that every row and entry is of a place where
  the train has been, or where another train was reported; that a feed has one
  row of the train; and that Darwin has actual times of points behind it only.
  That the map marks the report's place rests on which of its rows stands
  (`OneStands`) and on a lemma about the list's walk (`PathMarks`).
- **`TrainViewsProofs`**, the page: `PageIsReported`, `PageAgrees`,
  `ViewsAreBehind`. A page's four queries read four states of the world, and
  what each found is carried to the next. The invariant (`PageInv`) says at
  every query what has been read (`LoadInv`, `MatchedInv`, `HeardOn`): the calls
  agree with themselves, the stops Darwin has times of are reached, and stay so
  while the train moves on. That a front is never ahead needs that a call and
  the stop it is aligned to are the same point of the route, which holds on
  lines that pass no station twice, and fails on others (section 4): hence
  `~circular` in `ViewsAreBehind` and in the part of `PageAgrees` about the next
  stop. That markers and banner name one stop holds on any line.
- **`TrainViewsProofs`** and **`TrainTimesProofs`**, the times: `TimesReadBack`,
  `NearestDay` and `PatternIsDated`, in the first, are about what `uk-time.ts`
  computes, over both changes of the clocks. A time with its date gives back its
  instant, but in the hour that is there twice. A bare time is put on the right
  day if it is less than twelve hours from its anchor, or eleven and a half
  where the spring change falls between the two readings that compete. A list of
  bare times is right over any number of midnights if its first is, and if less
  than a day passes from each to the next. `TimesAreDated` puts these together
  for a page loaded at any moment and for a leg: the invariant (`DatesInv`) says
  that the clock is as late as the pauses so far (`LatenessInv`), so that the
  anchor, which is the clock, is near enough, and that the calls read so far are
  dated as booked. Its hypothesis, `Timetabled`, is what makes a bare time mean
  something: the times of a route ascend, none is in the hour that the clocks
  leave out, the journey and the delays the run admits take less than half a
  day, and noon of the starting day, by which Darwin's times are dated, is near
  to the points of that day. Every scenario of the run satisfies it.
- **`TrainTimesProofs`**, the times that a view shows: `TimesAreRight` adds what
  `TimesAreBooked` says of actual and expected times, portions and boards. A
  portion is a list of its own, dated from the clock like the calls, so that its
  first time has to be near by itself and the others follow it
  (`PortionPattern`): `Divided` says that it goes on behind the point where it
  leaves, for less than half a day. An actual or expected time of a call is
  dated by the call's booked time, so that it is read back (`ActedReadsBack`,
  `ForecastIsRead`) where the train is no later, and no estimate further off,
  than `NearestDay` allows. What a page has read stays true while the train
  moves on: the invariant (`TimelyInv`) says at each query that the actual times
  so far, of LDBWS, of Darwin's rows and of the reports matched to them, are of
  points that the train has passed, at those instants (`Timely`), and that the
  forecasts are the scenario's. A call and the stop it is aligned to have to be
  the same point, hence `~circular` there too. A board needs to know how late a
  train was at the points behind it, which is no longer the clock: `PassedInv`
  bounds each by the pauses there can be. Then Darwin's minute is read back as
  the instant at which the train left (`LeftReadsBack`), or is expected to while
  it has not (`ForecastReadsBack`), no other row of the board is given it
  (`BoardRows`), and the sort has the two rows in the order of what was read
  (`BoardOrder`). `ToldOnce` keeps a late train, and an estimate, out of the
  hour that the clocks go through twice, where the minute says two instants,
  estimates within half a day, and the second row of the board at another
  minute; on a line that passes a station twice one board has the train twice,
  hence `~circular`.
- **`TrainTimesProofs`**, the run: `OursAreFound`. The keys a page is matched by
  are stations and times of the route (`IsKeys`), and every run of the timetable
  has the same of them among its stops (`RunScore`): the score, by which
  `pickBestRun` goes first, never tells them apart, and the distance to the
  window in which a run is booked decides. Ours is less than half a day off
  while the train is on its way, another day's is more, over a change of the
  clocks too (`OursIsNearer`), as windows read back from bare times (`LikeWindow`,
  by `PatternIsDated`). That the run is a candidate at all needs that its date
  is that of the clock or of the clock a day before (`DayIsNear`), which is
  where a page fails on the night of the spring change (10 in section 4); that
  it is accepted needs three fifths of the calls (`RunIsAcceptable`). These and
  an anchor near to the first point that Darwin knows are the hypothesis
  `ToldApart`; `OursIsFound` itself supposes the three calls of `MinMatched` and
  a run that is not deactivated. From the choice on, the page's queries hand the
  run on (`FoundInv`).

**Only model-checked.**

- The liveness properties (`EveryCallRuns`, `EveryRowIsFlushed`,
  `LockIsReleased`, `TriggersAreServed`, `StoppedSourcesEnd`, `PageCatchesUp`,
  `RunsEnd`) rest on fairness, which is out of the prover's reach.
- `NeverAhead`, and what `TimesAreBooked` says of boards, on lines that pass a
  station twice, of which the run has one; for the others they are
  `ViewsAreBehind` and `TimesAreRight`.
- `NeverRetreats`, which is false with two oddities (section 4): what it says of
  one is a count of losses and pauses over two loads, and it is checked for the
  scenarios of the run.

No module with a theorem reaches a recursive operator.

## 6. What is not modelled

- Parsers, loaders, reference data and the scoring of candidates
  (`correlation.ts`): data rather than control. Their answers are
  nondeterministic where a model needs them.
- `applySClass`, the candidate cache, `pendingHistoryFor`, nr-ingest's second
  connection; formations, loading and station messages of Darwin; the late
  reason of a train; APNs devices; the digest and the disruption poll, which
  raise alerts of their own kinds from cron.
- Fares, knowledge base, track model and signals of the ETL; the street extract
  at the sidecar.
- Journeys, fares and London transport of the web application, its caches, its
  Redis bus, the signalling diagrams: requests whose answers are reshaped, and
  geometry. Of the views, platforms, formations, cancellations, coordinates,
  wording (LDBWS gives words such as "On time" in place of an estimate), the
  mark of a board's row that changed places (`movedFromSchedule`), estimates of
  another day's run, and estimates that change while the train runs; of
  commutes, holidays (an input of the resolution), favourites and
  the search for a pinned train.
- Rendering, and the iOS application but for its map's stream.

`PROJECT.json` lists each with its reason. It keeps the hazards that a property
of a run is about; what the code is exposed to beyond them is in section 4.

## 7. Plan

Done, in this order: the lock, the positions, the history, Darwin's calling
patterns, alerts, live sources, the timetable import, commutes, the clients of
the streams, the views of a running train, the ingester's connections. To come,
the most important first:

1. **Alerts, further actors**: the digest and the disruption poll as producers
   without an overlap guard; APNs devices.
2. **History for readers**: `pendingHistoryFor` composed with
   `PositionHistory`; a matcher sees its own train's queued rows.
3. **Board cache** (`board-cache.ts`): the entry of a failed promise deleted by
   key alone, next to a newer entry.
4. **DarwinTrain, further inputs**: amended schedules, formations and loading.
5. **Candidate scoring** as pure operators against a reference definition over
   bounded patterns.

## 8. Running it

    tlc -config KeyLock.cfg KeyLock
    tlc -config NrPosition.cfg MCNrPosition
    tlc -config DarwinTrain.cfg MCDarwinTrain
    tlc -config TrainViews.cfg MCTrainViews
    tlapm NrIngestProofs.tla
    tlapm TrainTimesProofs.tla

Each passing run ends within three or four minutes on two cores.
