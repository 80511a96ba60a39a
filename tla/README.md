# Verification of app-analytics-platform

This directory holds a TLA+ development beside the Go code of the platform:
modules that model its components, TLC configurations that check them on small
instances, and TLAPS proofs that hold for every value of the constants.
`PROJECT.json` lists components, runs, mutants, the map from definitions to
source lines, hazards and theorems.

    tlc -workers 2 -config WorkerSafety.cfg MCWorker     # a run
    tlapm WorkerProofs.tla                               # a proof

## 1. Inventory

The platform accepts application events over HTTP, queues them in RabbitMQ,
and stores them in ClickHouse through Worker processes; statistics and
rankings are read from ClickHouse.

    client --POST /events--> API (event.Service) --Publisher--> RabbitMQ queue
                              | Exists                            | Deliver
                              v                                   v
                          PostgreSQL                Consumer -> Worker (batches)
                                                                  | InsertBatch
    client --GET stats, rankings--> API (analytics) --------> ClickHouse

| Component | State | Operations | Interacts with |
| --- | --- | --- | --- |
| API process (`cmd/api`, `httpserver`) | listener, active requests, exit status | run, Start, Shutdown, deferred closes | every service below |
| Event ingestion (`event`) | none of its own | ingest, Ingest, Validate | registry (Exists), publisher |
| Publisher (`rabbitmq/publisher.go`) | mutex, closed flag, channel | NewPublisher, Publish, Close | broker confirmations |
| Application registry (`app`, `postgres`) | table apps | Create, GetByID, Exists | PostgreSQL |
| Broker topology (`rabbitmq/topology.go`) | main and dead-letter queue | declareTopology | both AMQP clients |
| Consumer (`rabbitmq/consumer.go`) | session, delivery channel | NewConsumer, Receive, Ack, Reject, Stop, Close | broker, Worker |
| Worker (`worker`, `cmd/worker`) | batch, timer, buffered channel, two contexts | Run, receive, flush, rejectBatch | consumer, event repository |
| Event repository (`clickhouse/event_repository.go`) | table events | InsertBatch | ClickHouse |
| Analytics (`analytics`, `clickhouse/*_repository.go`) | none | GetApplicationStatistics, GetApplicationRankings | ClickHouse |
| Generator (`generator`, `cmd/generator`) | counters of one run | New, Run | the API, over HTTP |
| Performance measurement (`performance`, `cmd/performance`) | a temporary database, two connections, the report | Measure, runner.run | ClickHouse |
| Connection setup (`clickhouse.go`, `postgres.go`) | a pool | Open | the stores, at startup |
| Configuration (`config`) | none | Load | environment variables |

What is hard in this code, and so what the properties are about:

- **Interleaving inside a Worker.** The receiver goroutine, the processor's
  `select` over channel, timer and context, and a shutdown that cancels a
  *separate* receive context. A delivery between `Receive` and the channel at
  the moment of shutdown must not be dropped.
- **Two halves of one AMQP session.** Broker and client notice a lost
  connection at different times. Until the client does, an `Ack` is written
  into the void without an error, while the message belongs to another Worker.
- **Ambiguous inserts.** `InsertBatch` may report an error after some or all
  rows were committed; the retry, or the redelivery after a crash between
  insert and acknowledgement, stores an event twice.
- **Bounded resources.** The prefetch limits unacknowledged deliveries; a
  delivery that is neither acknowledged nor rejected leaks a slot. The channel
  must have room for a whole prefetch.
- **A mutex held across the network.** `Publish` holds the publisher's mutex
  while it waits for the confirmation; `Close`, in the shutdown, needs it.
- **Doubtful answers.** A request answered 500, or not at all, may have been
  queued; an INSERT whose reply is lost may have happened or happen later; a
  `CREATE DATABASE` that was cancelled may have created it. Whoever retries,
  counts or cleans up acts on less than the truth.
- **Startup races.** Every process declares the whole topology, statement by
  statement, while others already serve; publications are not mandatory, so a
  missing binding loses confirmed events.
- **Changing representations.** An event is a zoned Go time, UTC, JSON and a
  `DateTime64(3)` in turn, each with a range of its own.
- **Boundaries.** Inclusive dates become exclusive bounds, limits have a
  minimum and a maximum, revenue is summed in Int64.

What makes each component correct: the Worker and the queue never lose an
accepted event (at-least-once), dead-letter only for cause, settle every
message eventually and stop when asked; ingestion answers 202 only for queued
events of registered applications, and what it publishes is readable and
valid to the Worker; an event is queued twice only after an answer that left
its client in doubt; an application whose creation was reported can be read;
queries count exactly the asked days and never return a partial ranking as a
whole one; who serves has its routes; the generator reports only what exists;
a measurement leaves the source table alone, removes its database and compares
like with like.

## 2. Modules

| Module | Models |
| --- | --- |
| `Broker` | RabbitMQ and the amqp091 client as `consumer.go` uses them |
| `Worker` | `cmd/worker`, `internal/worker`, `Consumer`, `InsertBatch`, over `Broker` |
| `EventDelivery` | abstract specification of the queue, the Workers and ClickHouse together |
| `Ingest` | `POST /api/v1/events`, `Publisher`, shutdown of `cmd/api` |
| `Platform` | clients that retry + `Ingest` with restarts + `EventDelivery` |
| `EventPath` | the data of one event from the request body to its row |
| `Registry` | `POST` and `GET /api/v1/apps`, `AppRepository` |
| `Startup` | the startup of `cmd/api` and `cmd/worker`, `declareTopology` |
| `Generator` | `cmd/generator` and `internal/generator`, over `Ingest` |
| `Performance` | `cmd/performance` and `internal/performance` |
| `Analytics` | both query endpoints and the ClickHouse queries |
| `Text` | what JSON decoding and `strings.TrimSpace` do to a string |
| `Sorting` | the result of `sort.Float64s` and of `ORDER BY` |
| `MC*` | small instances for TLC |
| `*Proofs` | theorems about the module of that name; `IngestProofs` also about `Platform` and `Generator`, which extend `Ingest` |

`Worker` extends `Broker` and is shown to implement `EventDelivery`;
`Platform` composes `Ingest` with `EventDelivery`, so what is proved of the
Workers carries over to the whole path. `Generator` extends `Ingest` with one
particular client. `Startup` establishes the routes `Broker` and `Ingest`
take for granted, and `EventPath` the constants `BadRequests` and
`PoisonMessages` of the two stand for.

Definitions whose comment begins with `Mutant:` are plausible bugs of the
definition that follows them. They are used by no specification; `PROJECT.json`
says which property must fail when one takes that definition's place.

### Broker and Worker

`loc[m]` is where a message is: `unpublished`, `ready`, held by the session of
a Worker, `acked` or `dead`. `sessions` is the broker's view of open sessions
and `connected` the client's: the two differ after a loss until both notice.
`acks` and `rejects` are frames in transit; they die with the session. `inbox`
is amqp091's buffer.

A Worker's processor is at `pc` and its receiver at `recv`:

| `pc` | code (`worker.go`) | `recv` | code |
| --- | --- | --- | --- |
| `select` | select of Run, 109 | `top` | context check of Receive |
| `insert` | attempt loop of flush, 206 | `select` | select of Receive |
| `ack`, `reject` | loops at 227 and 245 | `send` | first select of receive, 175 |
| `stop`, `drain` | 147 and 149 | `blocked` | second select, 180 |
| `return`, `discard` | deferred function, 92 to 99 | `done` | channel closed, result sent |
| `close` | `consumer.Close` in `cmd/worker` | | |

Every turn of a loop, every case of a `select` and every call to another
process is an action of its own, so a crash, a signal or a connection loss can
fall between any two of them. Abstractions:

- Queue, channel and batch are sets. A session delivers a message at most
  once, and no property tells two orders apart.
- The timer may fire whenever it is armed; backoffs take no time.
- An insert that reports failure stores any subset of the batch: nothing, all
  of it (lost reply, error of the deferred `batch.Close`), or the part of some
  partitions. `waitForRetry` cannot be interrupted, since flush runs under
  `context.WithoutCancel`, so that branch does not exist in the model.
- `Prefetch` and `BatchSize` are separate constants although the code sets
  both to 500: the comment in `receive` relies on their relation, which
  `BufferHasRoom` states and `worker_race` breaks on purpose, so that the
  second `select` of receive is reached.
- A Worker is a process slot. It starts again only after the broker has ended
  its previous session; a new process that overlaps with a dead one's session
  is another slot.
- Errors of `Stop` and `Close` other than `amqp.ErrClosed` only change the
  exit status. A failed start ends before any delivery is held.

### Ingest

One `phase` per request: `idle`, `check` (Exists), `lock` (waiting for the
mutex), `publish`, `confirm`, `answered`. `server` follows `run` through
`serving`, `draining` (Shutdown), `closing` (deferred `Publisher.Close`),
`closingDB` and `exited`. A shutdown that times out leaves handlers running
under the deferred closes. `holder` is the mutex. The wait for the mutex
ignores the request's context, as in the code; `WaitContext` does not. Which
requests `decodeJSON` and `validateInput` refuse is a constant,
`BadRequests`. The publisher never reconnects, so `link` stays down.

### Platform

`seen[r]` is what the client of attempt `r` read: a status, or nothing because
it gave up. A retry is an attempt of its own, sent only after 500 or silence,
and gets a new event ID, so the Worker cannot recognise it. `Restart` starts an
exited API again; its old requests are never answered. `Enqueue` makes what an
API step queued pending in `EventDelivery`. Clients are external.

### EventPath

One event, sequentially: `Ingest` and `Worker` have the concurrency. A time is
a wall-clock reading and the offset of its zone, in ticks; the ranges of RFC
3339 years and of `DateTime64(3)`, the zero time and the ticks of a millisecond
are constants. Strings are sequences of characters of which only blanks and
bytes that are not UTF-8 are special. ClickHouse rounds to one of the two
neighbouring milliseconds; which one does not matter here.

### Registry

A create is identified by the ID `newID` gives it. `CreateFails` answers 500
with the statement not executed or still under way; `LateInsert` completes the
latter at any later time. The clock is finer than the column, so `created_at`
as it is read back equals the one in the answer to the create only to the
microsecond, which `CreatedIsReadable` allows for.

### Startup

`step[p]` is the next step of `run`. Each statement of `declareTopology` is an
action, a repeated declaration has no effect, and one with other arguments is
refused. Any step may fail with or without its effect (`Fail`), and the process
is started again. An old queue without dead-letter arguments may exist at the
beginning; `DeleteOldQueue` is the operator following the upgrade note of the
repository's `README.md`.

### Generator

Requests are numbered in the order of Run, so `created`, `accepted` and `sent`
describe its whole state. The API may see a request after the generator has
given it up, or never. `AppOf` is the random choice of `newEvent`, whose other
contents are left out. `exit` tells the paths of `cmd/generator` apart.

### Performance

`step` is the next statement of Measure or of its deferred calls, which run in
reverse order from the point of failure. A statement fails because a signal
has cancelled the context or because the server does, and may have had its
effect. The DROP has a context of its own. Tables map events to row counts, so
a run into a dirty table, a lost and a repeated batch all show. Durations are
small numbers and the median is kept doubled, so that it is an integer. The
runs are sorted with `Sorting`: an element's place is the number of elements
ahead of it, which any correct sort agrees with.

### Analytics

Raw query values keep what the code tells apart: absent, unparsable, padded
with blanks, plain. Dates are days and timestamps ticks; a row is a record. A
ranking is read row by row and the stream may break at any row. A query sees
the table as it was when it started, and requests share nothing but the table,
so the module follows one request at a time and inserts between them.
Application IDs are numbers, for the order ClickHouse sorts UUIDs by; `ORDER
BY` is `Sorting`'s `InOrder`.

## 3. Runs

No run checks for deadlock: with no publication, no signal and no request the
system rightly waits, and a behaviour whose bounds are used up stops. That it
does not stop *early* is the liveness runs' concern.

| Run | Instance | Shows |
| --- | --- | --- |
| `worker_safety` | 1 Worker, 3 messages (two of one event, one poison), batch 2, 2 attempts, 1 fault, 1 signal; 568k states | `AckedIsStored`, `DeadLetterIsJustified`, `NoDeliveryForgotten`, `DuplicatesExplained`, `GracefulShutdownDrains` |
| `worker_race` | 2 Workers, 2 messages, prefetch 2 over a channel of 1, 1 fault, Workers and messages symmetric; 388k states | `SettlementsOutstanding`, refinement `ImplementsDelivery`, `NoDeliveryForgotten` |
| `worker_liveness` | 1 Worker, 2 events in batches of 2, 1 fault, 1 signal; 98k states | `EventuallySettled`, `ShutdownCompletes`, `DuplicatesExplained` |
| `ingest` | 3 requests (1 malformed), 2 applications; 24k states | `AcceptedIsQueued`, `OnlyCheckedEventsPublished`, `PublisherSerialised`, `CloseWaitsForPublish`, `CleanExitIsComplete`, `RequestsAnswered`, `ShutdownEnds` |
| `platform` | an attempt and its retry, 1 restart; 187k states | `DuplicateNeedsDoubt`, `StoredIsRegistered`, `AcceptedIsSettled` |
| `event_path` | every combination of field values, times around each edge in three zones; 8k states | `PublishedIsNeverPoison`, `RowIsInput` |
| `registry` | 2 creates, 1 get, 6 bodies; 4.9k states | `CreatedIsReadable`, `RowsAreWellFormed` |
| `startup` | an API and 2 Workers, one with a queue of its own, an old queue, 2 faults; 40k states | `OpenIsRouted`, `DeadLetterRouteComplete`, `EventuallyServing` |
| `generator` | up to 2 applications and 3 events; 8.4k states | `SummaryIsReal`, `AtMostOneUncounted` |
| `performance` | 8 option sets, 1 server failure, a signal; 10.6k states | `SourceUntouched`, `CancelledRunIsCleanedUp`, `SuccessLeavesNothing`, `ReportIsExact`, `MedianIsMiddle` |
| `performance_removal` | the same | finding: `TemporaryDatabaseRemoved` is violated |
| `analytics` | 6 rows, 3 applications, 2 days of 2 ticks, limits 0 to 3; 36k states | `AdjacentRangesAddUp`, `StatisticsCountAskedDays`, `RankingIsExact` |

Why the bounds are enough to be interesting. A batch of two with three messages
gives full batches, partial batches flushed by the timer, and a message that
waits behind the prefetch. Two messages of one event exercise deduplication
(`worker_safety`), two events in a batch the insert that stores only one of
them (`worker_liveness`).
One fault reaches every pair (crash or loss, control point); with two Workers
the lost session's batch is redelivered while its first owner still holds it.
Two attempts tell a retry from the last attempt. In `analytics` the rows sit on
the first and the last tick of each day, applications tie, the default and the
maximum limit both cut a list, and the purchases exceed `Int64Range`. In
`platform` one restart lets the first attempt die with the old process in
every position while the second meets the new one. In `startup` two faults
interrupt two processes, or the same one twice, between any two statements. In
`performance` the options include runs of an incomplete last batch, a batch
larger than all events, odd and even numbers of runs, and each refused kind.
The theorems of section 5 remove the bounds for what they cover.

Two properties say less than their names might suggest. `DuplicatesExplained`
does not exclude duplicates, which `docs/reliability.md` rightly does not
promise; it says that each needs a redelivery or an insert that reported
failure. `GracefulShutdownDrains` speaks of what the receiver took from the
client library: deliveries still in amqp091's buffer are requeued.

### Finding

`performance_removal`. The repository's `README.md` (line 254) says that
measurements use "temporary databases that are removed after the run". The
DROP is deferred only after `CREATE DATABASE` has returned without an error
(`performance.go`, 107 to 110): a signal that cancels the statement after the
server executed it leaves the database. `CancelledRunIsCleanedUp` shows that
this is the only way a signal can leave it.

## 4. Fairness

`Worker!Fairness`: weak fairness for each goroutine (the Go scheduler), for the
broker's deliveries and its handling of frames, and for noticing a dead
connection (amqp091 heartbeats, socket errors). `Start` is fair because
`docs/reliability.md` relies on supervision to "surface and restart the failed
worker"; the supervisor itself is outside the repository. Weak fairness of the
whole `Processor` does not promise that a particular `select` case wins. An
insert need not succeed: a batch that always fails is dead-lettered, which
settles it too. Publications, signals, crashes and losses of a live connection
are never forced.

`Ingest!FairSpec`: handlers and `run` make progress, and the broker answers
what it received on a live connection. The last assumption is needed. `Close`
waits for a mutex that a handler may hold until its confirmation, under a
context the shutdown does not cancel, so a live broker that never confirms
would hold up the exit beyond `SHUTDOWN_TIMEOUT`.

`Platform!PlatformFairSpec`: the Workers settle what is pending, which
`worker_liveness` shows of them. Neither the API nor a client need take a step.

`Startup!FairSpec`: processes run and are restarted when they fail, and the
operator deletes the old queue. Failures are bounded by `MaxFaults`, since a
process that fails for ever does not serve.

## 5. Proofs

All theorems hold for every value of the constants, under the assumptions the
modules name and TLC evaluates on every run: `Messages` is finite, sizes are
positive and functions have the right type; Workers are distinct from the
location names, creates from gets. Three say a little more.
`StartupAssumption`: no main queue of an older version has the name of a
dead-letter queue; deleting it, as the upgrade note asks, would delete that
one. `PerformanceAssumption`: the
default batch sizes are a non-empty list of positive numbers, as
`defaultBatchSizes` is; what a caller passes may be any integers.
`AnalyticsAssumption`: rows belong to applications of `Apps` (which
`StoredIsRegistered` shows of the platform) and their times and revenues are
integers; the default limit is one of the limits allowed.

**`WorkerProofs`** (`TypeCorrect`, `AtLeastOnce`, `DeadLettersJustified`,
`AnswersAreSound`). `AckedIsStored` is not inductive: whether an `Ack` that
arrives is justified was decided earlier, in another process. `IndInv` adds
that what is being acknowledged, or acknowledged in transit, is stored
(`AcksAreStored`), the same for rejections (`RejectsAreJustified`), and that a
frame refers to a delivery its session still holds. That last fact needs
`MemoryIsOwed` (what a process on a live session holds is unacknowledged and
unanswered), which needs `PlacesApart` (a delivery is in one place), since
otherwise one delivery could be answered twice, and the bookkeeping facts
`DownIsEmpty` and `TodoInLoops`. One step per action shows it is preserved;
the steps that only move the processor's control share a lemma
(`OnlyPcMoves`), and so do the two ways a process ends (`ProcessGone`).

`PrefetchFitsBuffer` proves the comment in `receive`. What a session holds,
and what its process keeps after losing it, never exceeds the prefetch;
channel and hand are disjoint parts of it, so a receiver with a delivery in
hand finds room (`BufferInv`). It is proved only: the runs spend their states
on what is not.

`DeliveriesAccounted` (`NoDeliveryForgotten`) and `GracefulShutdown`
(`GracefulShutdownDrains`) are about the converse of `MemoryIsOwed`: what the
broker holds for a session is somewhere. `ControlInv` says what the two
goroutines know of each other: the hand is empty unless the receiver is
sending; the processor takes the receiver for finished only when the channel
is empty; and `Run` ends before the receiver only with an error. `TraceInv`
then follows a delivery through every exit of the two loops. The one place
where a delivery can be dropped, a blocked send that is aborted, is excluded
by `NeverBlocked`, which is why the second theorem needs
`Prefetch <= BatchSize`.

`DuplicatesAreExplained` (`DuplicatesExplained`) is a counting argument. A
message is `Fresh` for an event as long as it can still be inserted for the
first time; as long as no carrier of the event was redelivered or inserted
with an unknown outcome, there are at most as many rows as carriers that are
no longer fresh (`RowsAreCarried`). An insert adds a row and uses up a fresh
carrier, because a delivery not yet inserted is held by one Worker only and
has no answer under way (`UninsertedIsOwned`).

`WorkersImplementDelivery`: under `Status` and `Stored`, each step is a step
of `EventDelivery` or invisible. A commit refines `Store` because what a
process holds was published; an acknowledgement refines `Acknowledge` by
`AcksAreStored`.

**`IngestProofs`** proves the type invariant (`TypeCorrect`) and the five
safety properties of `ingest`. The
strengthening ties a handler's position to the checks it passed
(`PastCheckIsChecked`), publications to handlers (`WrittenByPublish`),
confirmations to the queue (`AckMeansQueued`), and the exit status to drained
handlers (`CleanMeansDrained`).

Of `Platform` (`DuplicatesNeedDoubt`, `StoredEventsAreRegistered`), in the
same module: `PlatformInv` is the inductive invariant of `Ingest`, which a restart
preserves (`RestartIndInv`), and what ties its parts to the rest: a client has
read only statuses the API answered; a retry was sent only after 500 or
silence, and what a client was told never changes afterwards; only queued
events are pending, stored or settled. `ApiStepMonotone` says once for all
steps of the API that they take back no answer, no registration and no queued
event.

Of `Generator` (`SummaryReal`, `OneUncounted`): `GeneratorInv` is the same
invariant, and adds that the generator has one request under way
at a time (`OneAtATime`) and that the API has seen only what was sent
(`OnlySentIsSeen`): that is why a lost answer costs one resource at most.

**`EventPathProofs`** (`NoPoisonFromApi`, `RowsAreFaithful`). The invariant
says for each stage what has been established: past validation the event is
what `Accepted` makes of the input and is valid, past `Publish` its UTC time
can be written, and a row is the event to the millisecond. It covers all
inputs, zones, ranges and resolutions the assumption allows.

**`StartupProofs`** (`OpenRouted`, `RouteComplete`), for any processes, each
with its own configuration. Neither property is inductive: that a process
which serves is routed rests on statements it executed many steps ago, while
others declared and the operator deleted. `StartupInv` says what every
statement a process has behind it left (`BehindIsDeclared`), that a queue
with dead-letter arguments has its route (`FullQueuesAreRouted`), and that no
two queues have one name (`QueueNamesUnique`), which is what makes RabbitMQ
refuse the conflicting declaration; deletion takes only queues without
arguments, so it never takes away what a process relies on.

**`RegistryProofs`** (`CreatedReadable`, `RowsWellFormed`). A row is the
stored form of its create's application (`RowsOfCreates`), a create that was
answered 201 has its row, and a late statement belongs to a create answered
500 (`UnderWayIsChecked`); what a get knew before it began is still so when it
selects (`KnownIsCreated`, `ReadIsRow`). That the CHECK constraints hold of a
row needs `TrimAgain`: what `TrimSpace` leaves of a string of any length is
empty or begins with a visible character, so trimming it again cannot empty
it. Its proof uses `HasSmallest` of `SortingProofs`: a non-empty set of
numbers has a smallest member (well-foundedness of `<` on `Nat`).

**`PerformanceProofs`** (`SourceSafe`, `CancelledRunsCleanUp`,
`NothingIsHidden`, `ReportsExact`, `MediansMiddle`). `CleanupInv` says for each step of
`Measure` which connections are open, to which database, whether the database
may exist and whether an error can be known; the first three properties follow
for any number of server failures. `ReportInv` is the invariant of the nested
loops of `runner.run`: during a run the table holds each event before `start`
exactly once and `start = calls * BatchSize`, so the calls of a finished run
are `ceil(events / BatchSize)` (`CallsAreOperations`) whatever the sizes; the
runs and measurements recorded so far have that form, and a run that reaches
its deferred calls without an error is complete.

`MediansMiddle` (`MedianIsMiddle`) holds for any number of runs and any
durations: a recorded median is that of its runs (`MediansBelong`), the run at
place `i` of the sorted list has `i - 1` runs ahead of it and the others
behind (`PlaceSplitsRuns`), and the middle one, or the mean of the middle two,
therefore has half of them on each side (`MedianSplitsRuns`).

**`SortingProofs`** (`InOrderSorts`). For a strict total order on a finite set,
two elements never have the same number ahead of them (`AheadGrows`), so the
elements map one to one into as many places, and every place is taken
(`PlaceIsTaken`, a pigeonhole argument). Hence `InOrder` is a sequence of all
the elements, in order.

**`AnalyticsProofs`** (`StatisticsExact`, `RangesAddUp`, `RankingsExact`), for
any rows, day length, limits and width of the sums.

- *Sums.* The library's `MapThenSumSet` is a recursive function whose existence
  and independence of the order would be proved by induction over finite sets.
  The proofs take the smallest counterexample instead (`SmallestBad`): a
  function that satisfies the fold's equation exists (`TotalExists`), removing
  any row subtracts its revenue (`TotalRemoves`), so sums over disjoint sets
  add up (`TotalAddsUp`), and still do when they wrap around (`WrapAddsUp`).
- *Days.* A time lies between the filter's bounds exactly if its day lies
  between the dates (`DayBounds`, `WhereByDay`), so what a query counts is what
  was asked (`StatisticsOfAsked`) and a range splits between two days
  (`RangesSplit`).
- *Requests.* `RankingsAreBest` says what the ranking query returns. `RequestInv`
  ties a request in progress to it: what was read so far is a prefix of the
  result of the query over the snapshot (`ReadIsPrefix`), and a reply is
  the whole of it (`ReplyAnswers`). A read that breaks never becomes a 200.

With this every safety invariant of a passing run, and the refinement, is a
theorem. Only model-checked are the liveness properties (`EventuallySettled`,
`ShutdownCompletes`, `RequestsAnswered`, `ShutdownEnds`, `AcceptedIsSettled`,
`EventuallyServing`): fairness and `ENABLED` are beyond the prover.

## 6. Not modelled

- **Configuration**: environment variables are parsed sequentially and once,
  before there is any state; the results are constants of the modules.
- **`GET /health`** and the timeouts of the HTTP server: no state.
- **Migrations and deployment files**: only the tables' constraints matter,
  which `RowsAreWellFormed` states.
- **Contents without consequence**: random field values of the generator and
  of `generateEvents`, the text of the query plan that `analyzeStatisticsQuery`
  parses, logging, wording and layout.
- In `Worker` a row is its event; `EventPath` and `Analytics` have contents.

## 7. Plan

Every component but the configuration is modelled, and every safety property
the runs check is proved for all values of the constants. What is left is
liveness for all constants, which needs a prover with `ENABLED` and leads-to
reasoning, and keeping the modules in step with the code: the places to look
first when it changes are the attempt loop and the shutdown of `worker.go`, the
relation of prefetch and channel capacity, and the order of deferred calls in
`cmd/api` and `Measure`.
