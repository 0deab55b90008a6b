# Timekeep: TLA+ models and proofs

Timekeep collects attendance punches from biometric terminals, stores them once,
hands them on to other systems and reports on them in a dashboard. This
directory models the parts of the server (`crates/`) and of the dashboard whose
correctness depends on order, concurrency or failure, and the calculation of
working hours. The models are checked on small instances, and the main safety
properties are proved for every instance.

    tlc -config Pipeline_records.cfg MCPunchPipeline    # one run
    tlapm PunchPipelineProofs.tla                       # one proof module

`PROJECT.json` lists components, runs, mutants, the source lines behind every
definition, hazards, findings and theorems.

## 1. Inventory

### How the parts interact

    terminal --ADMS push--> AdmsServer --+                 +--> DedupCache -> BatchWriter -> SQLite
    terminal --live events-> listener ---+--> EventBus --> Engine                             |
    terminal <--SDK poll--- pollers -----+      |          +--> DistributorHandle -> endpoint |
                                                |                     | CircuitBreaker        |
      registration, discovery, online  <--------+                     v                       |
      tasks -> DeviceRegistry, connection state              Outbox, outbox_worker <-> SQLite |
                                                                                              |
    browser: auth atoms, query cache, side panel <--HTTP--> API: records, reports <-----------+

All communication inside the process goes over one `tokio::broadcast` channel
(a slow receiver loses the oldest events), two unbounded `mpsc` channels, a few
mutexes and the database. Everything that is not in the database is lost at a
restart; there is no orderly hand-over of what is in flight.

### Components

| component | state | operations | what is hard | what makes it correct | model |
|---|---|---|---|---|---|
| Circuit breaker (`timekeep-circuit`) | three atomics, a timestamp behind a mutex | `call`, `force_open`, `force_close` | lock-free: every load and store interleaves; a call can be aborted at its await | no stuck counter, no probe phase out of nowhere, recovery | `CircuitBreaker`, `SequentialBreaker` |
| Distribution and outbox (`engine/distribution.rs`, `app/outbox_worker.rs`, `sqlite/outbox.rs`) | channel, two tables, counters | distribute, retry in memory, retry from the table, dead-letter | two workers on one row, several statements without a transaction, crashes | nothing vanishes, no early dead letter, retries end | `DeliveryOutbox`, `DeliveryLifecycle` |
| Punch pipeline (bus, engine, dedup cache, batch writer, punch table) | receiver, cache, buffer, table | publish, check, forward, flush, stop, restart | a lossy bus, check and store far apart, a cache written before storage | at most once per process, never again once stored, eventually stored | `PunchPipeline` |
| SDK session (`zkteco/sdk/connection.rs`, the poller in `zkteco/lib.rs`) | a TCP stream, what the terminal prepared | commands, options, reads of datasets in chunks | reply numbers are not compared: a late answer or a live event shifts a stream | what is returned are punches, every punch gets in | `SdkSession` |
| ADMS command queue (`adms/queue.rs`, `handle_getrequest`, `handle_devicecmd`) | queue with ids and TTL | enqueue, hand out, confirm, expire | lost answers, lost and repeated confirmations | a command leaves only for cause, and leaves | `CommandQueue` |
| Device presence (`adms/mod.rs`, `wiring/device_connect.rs`, `api/app_state.rs`) | ADMS registry, device registry, connection state | resolve, mark active, discover, register, connect, poll | check and act under different locks, subscribers that come late or die of lag | an online terminal is shown, one poller per terminal, a discovered terminal is connected | `DevicePresence` |
| Attendance of a day (`attendance_calculator.rs`, `routes/attendance.rs`, `attendance/compute.ts`) | none: punches in, hours out | pair, total, flag, classify | missing, doubled and late punches; three algorithms for the same hours; a page limit | totals are the time inside the periods, the reports agree | `AttendanceDay` |
| Dashboard session (`api-client.ts`, `atoms/auth.ts`, `use-current-user.ts`, the guards) | token in three places, profile, route | sign in and out, 401, reload, load the profile | answers of a former session, effects, other tabs | the session's own token and profile, no session lost or outlived | `DashboardSession` |
| Dashboard records (`use-record-inline-edit.ts`, `use-record-detail.ts`, `record-detail-actions.tsx`, `action-factories.ts`) | query cache, panel, requests | list, open, edit, create, delete | overlapping optimistic writes, rollbacks of snapshots, late fetches | what is held for fresh is stored | `RecordPanel` |
| Punch identity and normalisation | none (pure) | id of a record over four collection paths | the same punch reaches the server in four forms | one punch, one id | planned |
| Onboarding sessions | a session row | create, advance, retry, cancel | read, act for seconds, write back | a cancelled session stays cancelled | planned |
| Fingerprint transfer, domain event handlers | device locks | transfer, user sync | two locks; not spawned at this commit | no deadlock | planned |
| Wire formats, CRUD routes, authentication, PostgreSQL backend, query builder, search, Odoo and webhook clients, health counters, simulator | database or none | | sequential, or pure I/O | | section 7 |
| Dashboard: URL state, cell editing, wizards, report and settings pages, widgets, generated types, lint rules, code generators | one page's, or none | | follows one user, or build time | | section 7 |

## 2. Modules and their relation to the code

Each action stands for the code between two points where another task can
intervene: an atomic access in the breaker, a statement in the outbox, a packet
in the SDK session, an `await` or the release of a lock elsewhere; in the
dashboard a handler or an effect of React. Variables carry the name of the field
they model; variables that only record history (`accepted`, `evicted`, `early`,
`lost`, `refused`, `missed`, `dropped`, `executed`, `adopted`, `disturbed`,
`late`, `since`) say so.

**CircuitBreaker.** `state`, `failures`, `successes` are the atomics. The
timestamp is reduced to what `should_probe` can tell: `None`, too recent, past
the recovery timeout; `TimeoutElapses` is the clock. A caller's `pc` walks
through `call`, `transition_to`, `trip` and `reset`, one atomic access a step.
The wrapped operation succeeds, fails or is dropped (`Abort`).
**SequentialBreaker** is the breaker of the crate's header: one variable for
the phase, each outcome of a call a single step. The header promises that "only
one call at a time" probes a half-open breaker; the code lets every call
through, and the properties hold with the overlapping probes.
**BreakerOverlap** adds a variable that remembers whether two callers have been
in the breaker at once; until then the first implements the second, and the
counters keep the limits of the configuration (`WithinLimits`).

**DeliveryOutbox.** `task` is the spawned distribution task, `inbox` and
`entry` the outbox channel and the entry in hand, `batch` and `row` the
snapshot the database worker iterates over, `pending` and `dead` the two
tables. Backoff is reduced to "due or not", the circuit breaker to "may
reject". Both workers call `move_to_dead_letter`, which is three steps here
because it is three statements there: a failure or a crash before the delete
leaves the delivery in both tables, and it is retried although it is a dead
letter (the run `outbox_buried`). A row whose event does not parse
(`Unreadable`) is buried without an attempt (`WorkerRejects`). A crash empties
the memory and keeps the tables. **DeliveryLifecycle** is the diagram in
`pending_delivery.rs` with the one state it lacks: "split", for a delivery in
both tables, which goes on being tried; only what has left
`pending_deliveries`, "delivered" or "dead", is final. It is implemented for the
deliveries an earlier process stored (`Backlog`), with both workers running. For
the others it does not hold, see section 5.

**PunchPipeline.** A punch is its deduplication id. `log` is the terminal's
log, which the pollers publish again and again; `bus` the engine's receiver,
bounded and dropping its oldest event; `hand` and `stage` the event inside
`handle_event`; then the writer's channel, its buffer and the batch inside
`store_punches`. `is_duplicate` is split at the storage lookup, where the
writer's task can run. Ctrl-C stops the engine and drops the writer, a crash
just ends it; both are followed by `Start`. After a failed flush the cache goes
on filtering punches no database holds, and `RememberedIsKept` excepts that
batch. A full cache evicts some id, stored or not: `AcceptedOnce` excepts
ids this process has evicted (`evicted`), `StoredNotReaccepted` those it evicted
before they were stored (`early`), of which a copy can be past the lookup by
then.

**SdkSession.** One terminal and two connections: the one kept since startup,
which the poll loop and the handlers share under the device's lock, and the
poller's, made anew for each poll. `line[c]` is what the terminal sent and
nobody has read, `call[c]` the operation with its place in `connection.rs`.
Reading a packet and sending the next request are one action, as they are
between two awaits. `send_and_receive` takes whatever packet is next, so the
model lets every operation meet every packet: after a timeout the line is one
answer ahead, after a live event on the kept connection too, for good.
Abstracted: the terminal serves a request when it is sent, and only its answer
is late; packets arrive whole; connecting, authentication and `SDKBuild` are
part of `BeginPoll`, and a poll that cannot connect is no poll; the `since`
filter (the properties speak of the newest punch and of whole reads); a size
parsed from an answer that announces none is any number up to `MaxGoal`.

**CommandQueue.** The `VecDeque` is a set ordered by id. Time is the largest
id whose TTL has passed. The terminal is external: it receives what an answer
carries, executes it, and confirms it, perhaps more than once. `EchoesId` says
whether it confirms with the command's id or, as `confirm` also accepts, with
the bare text.

**DevicePresence.** One terminal. `pc` is where each of its concurrent HTTP
requests stands between the lookup, the insert and the marking; the three
tasks subscribe in the order of `composition.rs`, after the server has started.
A receiver is the number of unread events its task cares for, or `Lagged`.
Device objects are numbered so that a poller whose object was replaced can be
told from the current one.

**AttendanceDay.** `rows` are one employee's punches as the database returns
them, newest first. The only action is the arrival of a punch, however late;
everything else is operators: `Pairs` is the calculator's pairing (one open
period a kind), `Summary` the timeline's own algorithm, `Classified` the
dashboard's, each translated from its source and compared with a definition
that counts time units. `Page` is `clamped_limit`.

**DashboardSession.** One page in full and the other tabs as its environment:
they share `storage`, and the browser delivers their writes as `events`.
`cached`, `storage` and `token` are the three places of the token. An effect of
React is an action of its own, since a response may be handled between the
change of an atom and the effect; `deps` is what the loader's effect last ran
with, and an input event finds the effects run (`Flushed`).

**RecordPanel.** The list query and the record queries as the dashboard uses
TanStack Query: data, freshness, a request in flight, invalidation and
cancellation. Fields hold the number of the edit that wrote them, so that a
value tells who wrote it. An edit is sent, applied, settled, or given up and
applied later.

**MC\*** give names to the values a configuration cannot write down.
**\*Proofs** hold the theorems, a module for each component but the
attendance. A definition whose comment begins with "Mutant" is a
plausible bug in the definition after it, by which the properties are tested.

## 3. Runs

| run | instance | checks |
|---|---|---|
| `breaker_concurrent` | 2 callers, limits 2 and 2 | `TypeOK`, `CloseNeverLost`, `HalfOpenOnlyFromOpen`, `Recovers`, `SequentialUntilOverlap`: until two calls overlap the separate stores amount to the documented breaker |
| `outbox_workers` | 4 deliveries: 1 stored, 1 stored whose event does not parse, 1 new to an endpoint with a handle or 1 new to one without; 2 attempts, 1 retry in memory, 2 faults | `TypeOK`, `QueuedIsBacklog`, `DeadOnlyWhenExhausted`, `RowNeverVanishes`, `ImplementsLifecycle` for the stored deliveries, `RetriesEnd` |
| `pipeline_records` | 3 punches, bus of 1, cache of 2, batch of 2, writer's channel of 1, 1 stop or crash, 1 failed flush or lookup | `TypeOK`, `RememberedIsKept`, `AcceptedOnce`, `StoredNotReaccepted`, `EventuallyStored` |
| `sdk_session` | 2 punches, a log of operations with their bytes, a user without, chunks of 1 record, 2 reads that time out, live events | `RecordsAreRecords`: what `get_attendance` returns is one dataset in order, the attendance log or one whose bytes are those of the punches just counted; `PunchesGetIn`: every punch is made, the terminal being unlocked again, and published |
| `commands_ids` | 3 commands over 2 texts, ids echoed | `TypeOK`, `RemovedForCause`, `Settles` |
| `presence_tasks` | 2 requests, 1 registration, lagging receivers | `TypeOK`, `OnlineIsShown`, `OnePollerPerTerminal`, `DiscoveredIsConnected` |
| `session_tabs` | 2 accounts, 2 tokens, 2 requests in flight, 2 storage events | `TypeOK`, `TokenInUse`, `ProfileIsOwners`, `SessionKept`, `ExpiredSessionEnds` |
| `record_panel` | 2 records, 1 field, 2 changes | `TypeOK`, `FreshIsStored`, `OptimisticKept`, `ListCatchesUp` |
| `attendance_day` | all days of up to 4 punches, 6 kinds, 5 times | `TypeOK`, `TotalsAreTime`, `FlaggedAreUnpaired`, `CalendarIsTimeline`, `SameHours`, `LateForGood` |

Three runs show the code departing from what it says of itself:

| run | property | what happens |
|---|---|---|
| `presence_again` | `ShownAgain` | after one failed poll a terminal that keeps pushing is shown disconnected for ever |
| `outbox_buried` | `DeadAreNotRetried` | "No further automatic retries" (`pending_delivery.rs:22`): when the `DELETE` of `move_to_dead_letter` fails, or the process dies before it, the dead letter is listed and tried again; the move is not "atomically in a transaction" (`outbox.rs:101`) |
| `attendance_unpaged` | `EveryPunchCounts` | a report that asks for "ALL punches" gets the newest page: with one punch more than the limit the hours of the first are gone |

### Bounds and why they are enough

- *Two callers, two requests, two connections.* The races are between a check
  and an act of one actor with one other actor in between; the invariants are
  proved for any number of callers and requests.
- *Limits of the breaker.* 2 and 2 separate "first", "below" and "at" the limit.
- *Three punches with a bus of one and batches of two.* Enough for an overflow,
  a full batch and a remainder. A cache of two has to evict: without their
  exceptions `AcceptedOnce` and `StoredNotReaccepted` fail in this instance.
  `MaxQueue` keeps the writer's unbounded channel to one punch, which with the
  hand, the buffer and the batch in flight puts a punch in each place at once.
- *Faults, crashes, failed lookups and flushes* are bounded by `Max...`
  constants; one is enough to separate any two statements, and in the outbox
  two let a second one hit the recovery from the first. The pipeline's one
  failure (`MaxFailures`) is a flush or a lookup, and each of its two temporal
  properties supposes that one kind does not happen. The proofs hold for any
  values of the bounds.
- *SDK session.* One record a packet makes every log of two a read in chunks
  and a log of one a whole answer; two late reads shift a connection by two
  answers, live events and what failed operations leave by up to `MaxShift`
  (4) when an operation starts: with 3 no read of punches gets as far as a
  whole answer to a read of another dataset, with 4 only the size of a record
  keeps it out. Of the two other datasets one passes that check and is reached,
  the other does not.
  `RecordsAreRecords` is proved without the bounds.
- *Three commands over two texts*: two commands with the same text and one
  that differs is what the scan in `confirm` can tell apart.
- *One delivery distributed beside two stored ones* (`MaxTasks`): the two
  workers interfere over one row, and what is stored is there for a burial to be
  cut off while the outbox runs. The second endpoint has no handle and shows the
  path that drops its entry.
- *Two tokens and two requests in flight* are a former and a present session,
  each with an answer to come. *Two changes* of two records are the overlap of
  an edit with an edit, a creation or a deletion.
- *Four punches over five times* hold two periods, a break inside work, a
  doubled and a missing punch, and two punches of one time; a page of four is
  not cut.

### Fairness

Weak fairness is asked only of code the runtime keeps polling or the browser
keeps running: the calls of the breaker and its clock, both outbox workers, the
engine, the batch writer, the bus subscribers, the poll loops, the poller's
interval, the reader of a connection with a packet on it, effects, storage
events and answers (`API_TIMEOUT_MS` bounds them), and the restart of the
service. Nothing is asked of users, of other tabs, or of the kept SDK
connection, which may be dead for ever.

Strong fairness is asked of how the environment behaves and never of a
particular interleaving: the engine is not outpaced by the bus for ever
(`Consume`), of the terminal's polls and repeated confirmations some get
through, whoever finds the terminal locked tries again (`Punch`), a page asks
again and a server that refuses a token is heard some time. `Recovers` and
`RetriesEnd` state their own conditions as the left-hand side of the implication: from some point on no call fails,
nobody forces the breaker and no probe is aborted, while calls through a closed
breaker go on and may be aborted; storage does not fail. `EventuallyStored`
supposes that no flush fails: the cache filters the punches of a lost batch until
a restart, however often the pollers bring them.
`PunchesGetIn` has `MaxLate`: with a timeout in every poll nothing would get in.

## 4. Proofs

| theorem | states | rests on |
|---|---|---|
| `TypeCorrect` | breaker, `[]TypeOK` | limits positive |
| `CloseIsNeverLost` | `[]CloseNeverLost` for any number of callers | `TypeOK`; whoever raises the counter to its limit is the one about to reset it |
| `HalfOpenEntry` | `HalfOpenOnlyFromOpen` | `Armed`: a caller at the compare-exchange expects `Open` |
| `SequentialWhenAlone` | `SequentialUntilOverlap` for any number of callers | `Alone`, below |
| `LimitsWhenAlone` | `[]WithinLimitsUntilOverlap`: until two calls overlap the counters agree with the phase | `Alone`; that the sequential breaker keeps its limits (`LimitsKept`) |
| `OutboxTypeCorrect` | outbox, `[]TypeOK` | `InPlace`, `CountInv` |
| `QueuedCountsBacklog` | `[]QueuedIsBacklog` | `InPlace`: who holds an entry, and that some handle takes it; `CountInv` |
| `DeadLettersExhausted` | `[]DeadOnlyWhenExhausted`, of all dead letters that parse | `DeadInv`, below |
| `RowsAccounted` | `RowNeverVanishes` | `Justified`: a worker about to delete a row has seen the punch accepted or written the dead letter |
| `RowsNeverReturn` | `RowsLeaveForGood`: a deleted row is never written again | `Single`, below |
| `StoredImplementLifecycle` | `ImplementsLifecycle`, both workers running: what is delivered, or dead and out of `pending_deliveries`, is never tried again | `Single`, `StoredKept` and `Justified`, below |
| `PipelineTypeCorrect` | pipeline, `[]TypeOK` | capacities positive |
| `CacheLosesNothing` | `[]RememberedIsKept` | `KeptInv`, below |
| `AcceptedNeverLost` | `[]AcceptedIsKept`: what was let through is stored, on its way or of a failed batch, also once the cache has evicted it | `KeptInv`, `AcceptedInv` |
| `CacheAdmitsOnce` | `[]AcceptedOnce`, of a cache of any size for the ids it has not evicted | `OnceInv`, below |
| `StorageCheckHolds` | `StoredNotReaccepted`, of a cache of any size: while no lookup fails, a stored punch is let through again only if its id was evicted before it was stored | `OnceInv`, below |
| `PunchesOnly` | SDK session, `[]RecordsAreRecords`, whatever the datasets and their sizes | `Inv`, below |
| `QueueTypeCorrect` | command queue, `[]TypeOK` | |
| `RemovalHasCause` | `[]RemovedForCause`, if the terminal echoes ids | `AcksAreEarned`: a confirmation in flight names a command that was executed |
| `DistinctTextsSuffice` | `[]RemovedForCause`, if no two commands have one text | `EarnedAs`: a confirmation carries the text of a command that was executed |
| `PresenceTypeCorrect` | presence, `[]TypeOK` | |
| `OnlineNeverLost` | `[]OnlineIsShown` for any number of requests | `LagIsMissed`: an overrun receiver has missed an event |
| `DiscoveryConnectsOnce` | `[]OnePollerPerTerminal` for any number of requests | `OneConnector`, below |
| `StrayPollersBounded` | `[]OneStrayPoller`, however often the terminal is registered | `StrayInv`, below |
| `SessionTypeCorrect` | dashboard session, `[]TypeOK` | tokens in use were issued |
| `RequestsCarryToken` | `[]TokenInUse` | the token of a page that took none of another tab is the stored one |
| `ProfileOfSession` | `[]ProfileIsOwners` | a live profile request carries the token of the session the page has, and none is in flight beside a login |
| `SessionLasts` | `SessionKept` | while nothing disturbs, every request carries a good token |
| `PanelTypeCorrect` | records, `[]TypeOK` | `Typed`: the snapshots of pending edits are data of the query they came from |
| `FreshDataIsStored` | `[]FreshIsStored` for any number of changes | `CurrentInv`, below |
| `OptimisticValuesLast` | `OptimisticKept` | `StartedAfter`: what is in flight was asked after the pending edits of its data |

`RememberedIsKept` is not inductive: a punch moves from the engine's hand
through channel, buffer and batch into the table, and a step that moves it must
not lose it. `KeptInv` adds what is in flight at each stage; the lemmas about
`Elements` (of a concatenation, an append, a tail) carry a punch from one
sequence to the next (`StationsHandOn`). The same lemma gives what remains once
the cache has evicted an id and may admit a copy again: `AcceptedNeverLost`.
`OnceInv` follows an id through one process: what was let through is in the
cache or was evicted from it; what is on its way to the table is in the cache,
stored, or was evicted too early; and a punch the engine asks storage about is
not in the cache. So a lookup that found nothing is still right when the engine
acts on it. `RememberAccounts` says where an insertion leaves the
ids: remembered, or recorded as evicted.

`OnePollerPerTerminal` speaks of the registry and of held
objects; what makes it inductive is that the discovery task connects only while
the registry is empty, that an idle registration task has nothing to read, and
that objects with a poller are exactly the one held or the one registered
(`OneConnector`). With registrations both tasks can find the registry empty
before either inserts, and the poller of the object that is replaced runs on,
which is why `OnePollerPerTerminal` has its condition. `StrayPollersBounded`
says that it stops there.
`StrayInv` counts what a task that passed the check will still make: objects
made and tasks connecting are two at most together, none passes once the
registry is filled, and until then every object made is held by its task.

`DeadOnlyWhenExhausted` relates a dead letter to how often the delivery was
refused. The counts that decide it are copied: into an entry in memory, a
snapshot of the table, a row. `DeadInv` says of every copy that the delivery
was refused at least that often (`Counted`), and of every worker on its way
into `move_to_dead_letter` that the count it acts on is at the limit or the
event does not parse (`Exhausted`).

`ImplementsLifecycle` and `RowsLeaveForGood` rest on how a delivery moves
between the tasks, the channel, the worker's hands and the table. `Single` says
that it is in one of these places at most as long as it can still be inserted:
the outbox holds one entry for it, gives it up with the insert, and nothing
else inserts. So a row that was deleted is not written again (`NothingEnters`),
whichever worker deleted it, and a delivery of the backlog is never inserted at
all (`HeldIsNew`). `StoredKept` ties its place in the lifecycle to the rows:
what the worker has listed or in hand still has one, and what has none and is
not dead was accepted. `OutboxKeepsBacklog` and `OthersSpareBacklog` say that
nobody but the database worker changes such a delivery's place; `WorkerShown`
shows each of that worker's steps to be one of the lifecycle or none.

`QueuedIsBacklog` compares a counter with a number of entries, some still with
the tasks that counted them, some in the channel, one in the worker's hands.
Entries of an endpoint are counted as the set of their places, so that receiving
one (`PlacesOfTail`, by the bijection that moves every place down by one) and
sending one (`PlacesOfAppend`) change its cardinality by one at most and no
induction over the channel is needed. `InPlace` supplies what the counters alone
do not know: an outbox at rest holds nothing, and where it takes a count back it
holds an entry of that endpoint, so that the count was at least one.

`SequentialUntilOverlap` is a refinement, proved step by step: `TakesTurn` says
that a caller that moves while no two overlap is the only one that is not idle,
so that its place decides whether the breaker is opening or closing and the
refinement mapping (`Phase`, `Failed`, `Succeeded`, `Cooled`) can be computed.
`Alone` says what such a caller relies on: the state it loaded is the state
still (`Placed`), what its earlier stores wrote is there when the last one
makes it visible, and an open breaker at rest has a timestamp while any other
has none that is running (`Settled`). With two callers each of these fails,
and that is what the overlap makes visible.

`FreshIsStored` speaks of quiet moments only. In between, the cache may hold a
value of an edit that will be refused, or one the server has overwritten; what
never happens is that a query vouches for such a value (`Claims`), or that an
answer on its way would (`Offers`), once no change of it remains whose
settling is to invalidate it (`Unsettled`). `KeptFor` says so of every query,
and each handler that ends a change either invalidates the queries of it or
leaves them marked late.

`RecordsAreRecords` holds although reply numbers are not compared, and
`SdkSessionProofs` shows why. Whatever answers a connection still has to read,
they are in the order of the requests: a chunk follows the chunk or the total
before it, a total or a whole dataset follows the answer to
`CMD_ENABLE_DEVICE` (`Follows`, `Linked`). An operation that is out of step
meets a packet its code or length rules out and fails, or it goes through a
whole dataset in order, and then the size of a record tells punches from
anything that does not happen to have their bytes (`Holding`, `SizeTells`).
`Ready` and `Entry` say what the newest packet is when the next request goes
out, so that each request keeps the order.

Assumptions are those declared with the constants: positive limits, Boolean
switches, finite bounds. Two theorems need more and say so in their
statement. `RemovalHasCause` needs `EchoesId`: without it `confirm` removes the
first command with the same text, and of two such commands the terminal's
confirmation of the second, or a repeated one of the first, removes a command
that was not executed. `DistinctTextsSuffice` takes the other way out: whatever
the terminal echoes, the queue only ever holds commands whose texts differ.
`DataAssumption` keeps the values apart that stand for "no data", "no record",
"no request" and for the list's key. Nothing is assumed of the sizes of caches
or datasets: what an eviction or a coincidence of sizes lets through is excepted
in the properties, by name.

Only model-checked: liveness under fairness (`Recovers`, `RetriesEnd`,
`EventuallyStored`, `PunchesGetIn`, `Settles`, `DiscoveredIsConnected`,
`ExpiredSessionEnds`, `ListCatchesUp`), which is out of the proof system's
reach; and `AttendanceDay`, whose operators are folds over the punches of a day:
what they compute for every sequence is an induction over data, which the
installed provers cannot do (its `TypeOK` alone, which says that rows are
inserted in order, needs no induction and is left to TLC). The three runs that end in a violation refute what they state.

## 5. Hazards and what covers them

`PROJECT.json` lists hazards at their lines. Four kinds stand out.

- *A history the code cannot see.* The dedup cache, `is_online`, the breaker's
  counters, the cached token and the query cache are copies of something
  another task changes. The properties relate both sides (`RememberedIsKept`,
  `OnlineIsShown`, `CloseNeverLost`, `TokenInUse`, `FreshIsStored`); where the
  code lets them drift, a run shows it or the property says when.
- *Windows.* Between the start of the ADMS server and the subscription of the
  tasks, between the check of a registry and the insert, between the statements
  of a move. They are in the models; properties that fail inside a window carry
  the condition in their statement (`~missed[...]`, `registered = 0`).
- *Answers that belong to something else.* A late reply on an SDK connection, a
  401 or a profile of a former session, a fetch from before an edit.
- *Nothing restarts.* A subscriber that lagged, a terminal that failed to
  connect and a batch that failed to store are given up until the next restart.

Met while modelling and covered by no property:

- Circuit breaker: a call admitted while the breaker was closed may end in any
  later phase, and its outcome counts in that one (`circuit/lib.rs:239`).
- Pipeline: the cache may evict an id that still waits in the writer's buffer
  (`dedup.rs:86`); with 200 ids and batches of 500 a copy then passes both
  checks, and only `INSERT OR IGNORE` keeps the table right. The endpoints get
  it twice.
- Outbox: a delivery can be buried after it was delivered. The outbox stores it
  and goes on with it, the database worker reads it as due, delivers it and
  deletes the row between the `SELECT` and the `INSERT` of the outbox's
  `move_to_dead_letter` (`outbox.rs:102`); the diagram at `pending_delivery.rs:5`
  has no such step, which is why the lifecycle is stated for stored deliveries
  only, which the outbox never holds. A delivery goes to the first handle that takes it, whatever endpoint
  it is for (`outbox_worker.rs:84`); a refusal, unlike a timeout, is not
  enqueued (`distribution.rs:171`); `Engine::new` runs an outbox of its own
  beside the handles' (`engine/lib.rs:105`); `main` does not wait for the
  writer's last flush (`batch.rs:134`).
- Terminals: `connect_devices` never puts a terminal that fails at startup
  where the poll loop would retry it (`device_connect.rs:76`); a polled record
  is identified by host and configured offset, a pushed one by serial number
  and learned offset (`connection.rs:1012`); the `since` filter takes "older
  than the newest stored" for "stored" (`connection.rs:1029`); the event
  handlers queue commands on an object the ADMS server does not serve
  (`event_handlers.rs:162`).
- SDK connection: an answer shifted from another dataset passes for punches if
  its bytes divided by their number give 40, as for five users of 72 bytes and
  nine punches (`connection.rs:1002`); `enable_realtime` drops the sender of the channel it returns,
  so that its listener ends at once and live events reach nobody but
  `send_and_receive`; out of step, `get_device_info` can report another
  option's value as the serial number; `Vec::with_capacity` takes a size parsed
  from whatever answer came; a punch between the sizes and the read of a short
  log fails that poll, because the count no longer fits the bytes.
- Device locks: `fingerprint_transfer.rs:139` takes two in the order of the
  request; the handler is not spawned at this commit.
- Reports: `compute.ts:70` treats the two break kinds opposite to the server;
  `project_today_snapshot` takes the newest check-in for the first
  (`attendance_calculator.rs:480`); punches are grouped by UTC date, which
  splits a night shift (`:591`); the timeline paints as a warning what its
  summary counts (`routes/attendance.rs:328`).
- Dashboard: a profile request lost once is not repeated
  (`use-current-user.ts:42`), and after a reload an administrator is redirected
  before it arrives (`require-role.tsx:34`); a creation whose answer is lost
  can be made twice, and its answer renames whatever entry is active
  (`record-detail-actions.tsx:135`, `:117`); a deletion leaves the panel on the
  deleted record (`action-factories.ts:283`); device actions invalidate another
  key than the panel reads (`:74`); the header edits by mutation while a record
  is created (`record-detail-header.tsx:27`); fields gathered for one type stay
  for the next form (`record-detail-context.tsx:85`); going back in the
  registration wizard provisions twice (`device-register-test-step.tsx:49`).

## 6. Plan

Done: the order of this list followed what the system would lose first: punches
(`PunchPipeline`, `SdkSession`), deliveries (`DeliveryOutbox`), terminals
(`DevicePresence`, `CommandQueue`), then what users see (`AttendanceDay`,
`DashboardSession`, `RecordPanel`). Left:

1. **PunchIdentity**: the four collection paths with serial number or host,
   learned or configured time zone, and the id each yields; composed with
   `PunchPipeline` through the set of ids. Questions: is a punch that arrives
   twice stored once, does the `since` filter discard only what is stored.
2. **OnboardingSession**: create, advance, retry and cancel with the read, the
   action and the write back as separate steps. A cancelled session stays
   cancelled, an action runs once per completed step.
3. **FingerprintTransfer** and the domain event handlers, once they are
   spawned: device locks, lock order, progress.
4. **SdkSession**: writes of users and fingerprints, enrolment with
   `wait_for_event`.
5. Proofs: what of the breaker's refinement survives an overlap.

## 7. What is not modelled

Of the server: wire formats and parsers (pure functions over bytes, covered by
unit tests), CRUD routes, DTOs and authentication (checks around single
statements), the PostgreSQL backend (same trait; the models use the default
backend), query building and pagination, full-text search and Odoo
synchronisation (their tasks are commented out in `composition.rs` at this
commit; their remote calls are the "succeeds or fails" of `DeliveryOutbox`),
the simulator and the seed tool. Within the modelled parts: contents of
messages, log lines, metrics, time zones and the enrichment of a punch; in
`DevicePresence` what a request carries, and terminals that never connected at
startup; in `AttendanceDay` the grouping by day, policies and aggregates over
weeks; in `SdkSession` what section 2 names, and clearing the log.

Of the dashboard, which is most of the TypeScript in the repository, only the
session, the record cache and the computation of hours are modelled, and the
models map a small share of its lines. The rest is what the screen shows of
given properties (components, stories, charts, form and column tables, design
tokens), type declarations generated from the API, mock data, lint rules and
programs over the source text: there is no state in it that a later step
depends on, so that a model would repeat the text and say nothing. The exports
and report drawers are read-only queries. URL state, the stack of sub-pages,
keyboard navigation and the command registry do keep state, of one page that
follows one user by synchronous updates; their unit tests cover what a model
would.

`DeliveryOutbox` models code that exists and is tested, but at this commit the
composition root runs neither worker: `spawn_outbox_worker` is commented out and
no handle is built with an outbox.
