# TLA+ models of the service-oriented-architecture services

The repository is a set of course projects, each a small service landscape of
its own. This directory models the ones whose logic is hard to test: the
warehouse state consumer (`hm6`), the flight booking pair (`hm3`), the shop
(`hm2`) and the two services of the cinema pipeline (`hm5`).

## 1. The system

| part | state it keeps | operations | hard behaviour |
|---|---|---|---|
| **hm6 warehouse consumer** (`consumer/main.py`, `handlers.py`, `cassandra_client.py`, `dlq.py`) | Cassandra: stock per product and zone in three denormalised tables, orders, `processed_events`, history; Kafka: committed offsets; in memory: poll position, DLQ producer buffer | poll, deserialize, eight handlers, mark (lightweight transaction), LOGGED BATCH, commit, DLQ send, shutdown | redelivery, events out of order and duplicated, a failing call between any two steps, batches that time out and are applied later, crash and restart |
| **hm3 flight service** (`flight-service/internal`) | Postgres: `flights.available_seats`, `seat_reservations`; Redis: cached flights and searches | `ReserveSeats`, `ReleaseReservation`, `GetFlight`, `SearchFlights` (gRPC) | concurrent SERIALIZABLE transactions with row locks taken in two orders, cache-aside reads overlapping invalidations |
| **hm3 booking service** (`booking-service/internal`) | Postgres: `bookings` | create, cancel, get, list (HTTP) | a two-service saga without log: lost answers, failing compensation, crash between two steps, concurrent cancellations |
| **hm2 shop** (`hm2/src/main/java`) | Postgres: products with stock, orders, promo codes, `user_operations` | create, update, cancel order; product CRUD; JWT login | read-check-write transactions in READ COMMITTED without locks or versions; rows written back whole |
| **hm5 event producer** (`producer/app`) | in memory: sessions of the generator, librdkafka's queue; Kafka: `movie-events` | generate, `POST /events`, send, flush, stop | a queue at its limit, three attempts, sessions that change before their event is sent, restarts |
| **hm5 aggregation** (`aggregation/app`) | ClickHouse: views; Postgres: `movie_aggregates`, `aggregation_runs`; Parquet in MinIO | scheduled or triggered run, export by hand | one run writes two days to two stores, with retries of calls that may have taken effect, midnight and restarts in between |
| hm1 stub, hm4 (text), hm7 (CI) | none | health endpoint | none |

Interactions: in hm6 producers write Avro events to one topic, one consumer
group reads it and writes Cassandra and a DLQ topic. In hm5 the producer writes
`movie-events`, ClickHouse's Kafka engine stores it, and the aggregation reads
ClickHouse: the two share nothing else. In hm3 the booking service
calls the flight service over gRPC inside an HTTP request; they share no
database. Nothing connects the homeworks with one another.

What makes each part correct:

* hm6: quantities never negative; an older event never replaces newer state; one
  event id changes the state at most once; the three tables agree; a failure
  loses at most the event it hits; a bad message blocks nothing; what open
  orders have reserved stays reserved.
* hm3 flight service: each seat is available or in one active reservation; the
  calls are atomic to their callers; no deadlock; the cache is stale only in
  windows one can name.
* hm3 booking service: a cancelled booking has given its seats back; clients are
  told the truth; bookings and reservations agree unless a call was torn; seats
  of a booking that was not stored go back.
* hm2: what the stock loses, active orders hold, and the uses of a promo code
  follow the orders that have it; no row is oversold; the promo counter keeps its
  limit; a user's active orders are bounded.
* hm5 producer: a user's events are in the topic in order, each once; sessions
  pause and resume in turn and end; the queue keeps its limit.
* hm5 aggregation: Postgres and MinIO show what ClickHouse held of a day at some
  moment and never go back; a run that reports success has covered its days and
  left both stores with the same rows; a run that stays open was interrupted.

## 2. Modules

| module | models |
|---|---|
| `WarehouseHandlers` | the eight handlers of `handlers.py`: each reads rows and ends in `"ops"` (rows to write), `"stale"` (None) or `"invalid"` (ValidationError) |
| `Warehouse` | handlers over a plain table: the meaning of the events |
| `WarehouseConsumer` | everything around the handlers: Kafka, marks, batches, DLQ, failures, restarts |
| `EventJournal` | abstract: each event id is recorded at most once |
| `SeatInventory` | abstract: seats reserved and released in one step |
| `FlightService` | the concurrent gRPC calls: transactions, row locks, cache |
| `BookingSaga` | `CreateBooking` and `CancelBooking` against `SeatInventory` over a lossy wire |
| `Shop` | `OrderService` and `ProductService`: interleaved READ COMMITTED transactions |
| `DailySnapshots` | abstract: stores that publish growing snapshots of a source, day by day |
| `MovieAggregation` | `run_aggregation` and `/export-parquet` over the three stores |
| `EventProducer` | generator, `KafkaProducer.send`, librdkafka's queue and the topic |
| `SumTheorems` | lemmas about sums over finite sets |
| `WarehouseProofs`, `ConsumerProofs`, `FlightProofs`, `BookingSagaProofs`, `ShopProofs`, `AggregationProofs`, `ProducerProofs` | lemmas and theorems about the module of their name |
| `MCWarehouse`, `MCWarehouseConsumer`, `MCFlightService`, `MCBookingSaga`, `MCShop`, `MCMovieAggregation`, `MCEventProducer` | constants for TLC |

Composition: `Warehouse` and `WarehouseConsumer` EXTEND `WarehouseHandlers`, so
the handlers that are proved about are the handlers the consumer runs.
Three components implement an abstract specification, each under an explicit
`INSTANCE ... WITH`: `WarehouseConsumer` implements `EventJournal`
(`AppliedAtMostOnce`), `FlightService` implements `SeatInventory`
(`ReservesAtomically`), and `MovieAggregation` implements `DailySnapshots`
(`StoresFollowViews`). `BookingSaga` uses `SeatInventory` for the flight service:
what is shown of the saga therefore holds of the pair.

### 2.1 Warehouse

`zones` is `inventory_by_product_zone` (`ts` is `last_event_ts`, `NoTs` for a
missing row), `orders` the orders table, `ev`, `phase`, `seen`, `lines` the
locals of `_process_one` and of a handler. A single-row handler is one action
because its only await is one read; the two order handlers read a row per line,
so they take a step per line (`OrderCreatedLine`, `OrderCompletedLine`) and keep
rows already read in `seen`, as the code does in its dictionary. A move reads two
rows in one step: between two reads only a mutation of one row can happen, and
reading both before or after it, or one of each, is covered by the order in
which mutations of different rows are applied.

In `WarehouseConsumer` an event goes through the phases

    idle -> handling -> (lines) -> ops -> batch -> executing -> commit -> idle
                     \-> stale --------------------------------/
                     \-> invalid, unusable --(SendToDlq)------/

`Poll` moves the position in memory; `Mark` is `INSERT ... IF NOT EXISTS`;
`ExecuteBatch` logs a batch; `ApplyMutation` applies it row by row, later than
the client's timeout if need be, with the newest write time winning
(`written`); `BatchReturns` is the acknowledgement. `MarkFails`, `BatchFails`,
`BatchTimesOut`, `ReadFails` lead to `InfraError`: no commit, and no seek, so the
position stays behind the message. `Crash`, `Stop`, `Start`, `Rebalance` are the
life of the process. `journal`, `concluded`, `abandoned`, `rejected` are history
variables no action reads.

### 2.2 Flights and bookings

`FlightService` has a place `pc` per call. A transaction takes its snapshot at
its first statement; `stale[g]` are the rows committed by others since, and
locking one of them is a serialization failure, which the code does not retry.
`holder` is the owner of each row lock. After the commit the two cache keys are
deleted one by one. A reading call may be anywhere between its query and its
write to Redis while all this happens; `excused` records the keys that were
filled with an old value or not deleted.

`BookingSaga` has a record per call. `wire` and `answers` are gRPC messages: a
caller may give up (a lost connection, a cancelled context), and the request may
be served after that. `torn` records the calls that ended between two steps that
belong together, or without knowing what a step did. There are no retries in the
code and none in the model.

### 2.3 Shop

`products`, `orders`, `uses` and `recent` are the tables. `tx[c]` is the request
client `c` has under way with its persistence context: `was` holds the product
rows it has read, `old` the order, `code` the uses of the promo code. The reads
are actions (`FindOrder`, `CheckRateLimit`, `CountActive`, `LoadProduct`,
`LoadPromo`) in the order of the code; all changes are made to rows in memory and
reach the tables at the flush, so `CommitOrder` and `CommitProduct` are one step
each. They write a row back whole, and only if it was changed there (dirty
checking; no entity has a `@Version` or a `@DynamicUpdate`): this is where a
request that was overtaken loses the other's update. `Rollback` is possible at
any point; a failed check is a step that is not possible any more. An update
deletes the items it has read, so that two updates of one order cannot both
succeed (`Doomed`).

### 2.4 Cinema pipeline

`MovieAggregation` has one call under way at most: `run_aggregation` and the
route handlers are coroutines that never await, so nothing interleaves with them
in their process. `pc` and `job` are the place and the local variables of the
call: `query`, `upsert` and `export` of a day, then the next day (`DayDone`), then
`close` or `abort`. The surroundings do interleave: views arrive for today and
for any other day, since `POST /events` takes any timestamp (`Ingest`), and days
pass (`DayEnds`), while the loop keeps the two dates it took at its start.
`CallFails` is an attempt that raises before or after it took effect; `TryAgain`
counts the attempts, and the last one gives up. Nothing bounds the failures but
that count: a store may stay down for ever. `start_run` and `finish_run` are
not retried; `finish_run` is called inside the `try` block, so that its failure
leads to the `except` branch, which calls it again. `Crash` may come anywhere and
nothing is resumed. `torn` records the runs that began or ended in a failing call
or a crash. `started` and `day` of a run are recorded for the properties only.

`EventProducer` has one event in `send` at a time, for the same reason. The
generator's sessions change before (`ContinueSession`) or after (`StartSession`,
`FinishSession`) their event is sent, as the code does it. `Produce` puts the event
into librdkafka's queue; a delivery report counts towards the limit of the queue
until `poll` serves it, so `BufferError` depends on both. `SendRaises` is any
other exception. `Deliver` keeps the order of the queue (`enable.idempotence`);
`DeliveryFails` may or may not have reached the broker. `Stop` and `Halt` are the
shutdown with a flush that times out, and the end of the process. `Viewers` are
the users the generator plays; clients post events about any user.

## 3. Runs

| run | shows | bounds and why they are enough |
|---|---|---|
| `warehouse` | `TypeOK`, `StockNonNegative`, `OrderLoopMeetsReference`, `OnlyNewerEventsChangeRows`, `TransfersConserve`, `OpenOrdersStayCovered` | 1 product, 2 zones, 2 orders, timestamps 1..4, quantities -1..2. Four timestamps let a receipt be followed by two orders on a row and the completion of one; a repeated row, two rows and a negative line are among the order lines |
| `order_reserve_doc` | what the docstrings of the order handlers say of `available` (section 6) | those of `warehouse`; one order is enough |
| `consumer` | `TypeOK` (with non-negative quantities), `CommittedWasHandled`, `TablesAgree`, `LossBoundedByFailures`, `AppliedAtMostOnce`, `NewestEventStands`, `NoMessageBlocks`, `EveryMessageEnds`, `RejectsReachDlq` | every topic of up to two messages out of eight kinds: an id sent twice, timestamps out of order, a count, a move, an order, an invalid and an undecodable one; one failing call, and two crashes, stops or rebalances anywhere, each of which delivers messages again. Two messages are enough for a late batch beside a newer one and for a commit that passes another message; the safety properties are proved for every topic (section 5) |
| `consumer_retry_doc` | a statement of the hm6 README and a comment the code does not keep (section 6) | one failure is enough |
| `flights` | `SeatsAccountedFor`, `FreshUnlessExcused`, `NoDeadlock`, `ReservesAtomically`, `EveryCallReturns` | two concurrent calls out of three reservations, two releases and the reads of a flight and of the route (`MCAsked`), two flights of two seats. Two bookings compete for the seats of one flight, and one of them is also asked for on the other: reservations lock a flight and then the reservation row, releases the other way round, so the two lock orders meet. Two calls are enough for the shortest circle of waiting calls |
| `bookings` | `TypeOK`, `CancelledIsReleased`, `AnswersAreTrue`, `SettledBookingsAgree`, `OrphanedSeatsReturn` | two bookings, two cancellations, two faults anywhere (a crash is one) |
| `shop` | `ActiveOrdersBounded`, `UsesWithinLimit`, `OversoldOnlyByTwoLines`, `FreshCommitsConserve` | two requests at one time, four in all, a buyer and an admin, three orders, a stock of two, carts of one line and of two lines of one product, one use of the promo code: enough for two racing creations, two racing cancellations, and an update that brings a cancelled order back beside a new one. The bound of `ActiveOrdersBounded` is reached |
| `aggregation` | `TypeOK`, `RanksFollowCounts`, `SuccessCoversItsDays`, `StoresAgreeAfterRun`, `OpenRunsWereInterrupted`, `StoresFollowViews`, `CallsEnd` | two movies (ties and changes of rank), days 0 to 2 so that midnight passes inside a run, two views of days 1 and 2 (a day of a run without views happens with day 0, two days with views after midnight), two runs, three attempts as in the code, and no bound on failing calls and crashes: a store may be down for ever |
| `aggregation_schedule_doc` | the interval job never runs by itself (section 6) | one movie more or less makes no difference: nothing ever starts |
| `producer` | `TypeOK`, `SessionsInOrder`, `SessionsAlternate`, `SessionsEnd` | a viewer and a client, sessions of one or two steps, three events begun (a session that was begun goes on beyond that), a queue of two so that it is full while reports are unserved, three faults: enough for a send that raises three times |
| `producer_session_doc` | a session that ends while it is paused (section 6) | a session of one step |
| `producer_delivery_doc` | an accepted event that is nowhere (section 6) | no fault is needed |

`CHECK_DEADLOCK FALSE` is set where the model ends: the consumer at the end of a
finite topic with its restarts used up, the saga when all calls have returned,
the shop when its requests are used up, the producer when its events and faults
are. `shop` uses symmetry of clients and order
ids, which none of its (safety) properties tells apart.

Each property has a mutant: a `Mut...` operator next to the definition it
changes, the way a plausible bug would, under which TLC finds the property
violated.

## 4. Fairness

* `WarehouseConsumer!FairSpec`: the loop runs as long as the process does
  (`while not stop_event`), the container has `restart: unless-stopped`,
  Cassandra replays its batchlog, librdkafka works off its queue. Failures,
  crashes and rebalances are never fair and are bounded by `MaxInfraErrors` and
  `MaxRestarts`: liveness is claimed once they stop.
* `FlightService!FairSpec`: weak fairness for a goroutine that can run, strong
  fairness for one that waits for a row lock, which may be taken again before it
  runs. Postgres queues waiters, so strong fairness is what it gives.
* `BookingSaga!FairSpec`: goroutines run, and gRPC serves what was sent and not
  lost; `Refuse` and giving up are unfair faults.
* `MovieAggregation!FairSpec`: a coroutine that was started goes on, the container
  is restarted, and a job that has a next run time is run. A step that goes on is one that
  works or an attempt that fails (`WF_vars(Work \/ AttemptFails)`): the synchronous
  clients return or raise, and no call ever has to succeed. The last conjunct is
  `WF_vars(NextRunTime # None /\ StartRun)`: with the `next_run_time=None` of the
  code it demands nothing. Nobody has to call a route.
* `EventProducer!FairSpec`: `send` is a loop, librdkafka works off its queue, a
  process that stops ends. Strong fairness for `GenerateFor(u)`: the generator
  picks among its users at random again and again, while clients' events keep
  `send` busy in between, so its step is enabled again and again and not always.

## 5. Proofs

For every value of the constants (any products, zones, messages, flights,
bookings, calls, movies, days, users; unbounded queues and numbers of faults):

* `SumTheorems`: sums over finite sets (`SumFunction` of the community modules),
  which the balances of three components rest on. The library defines a sum by a
  recursive table of subsets, so that what it adds up to is an induction over the
  subsets of a finite set. The library's induction theorems take an operator; here
  the induction is stated for a set of subsets (`SubsetInduction`) and follows from
  the well-foundedness of the strict subset ordering. The lemmas say what a sum is
  when a point is added or changed, when points are zero, and when values grow.
* `WarehouseProofs`: first what the handlers shared by `Warehouse` and
  `WarehouseConsumer` compute: rows of the right type, non-negative, and only when
  the stored rows are older than the event; `ConsumerProofs` cites this part.
  `TypeCorrect`; `StockStaysNonNegative`, whose inductive invariant adds to the
  non-negativity of the stored rows that of the rows a handler has in hand
  (`seen`): an order loop works on its own copies over many steps, and a copy is
  what it writes. `RowsToWriteAreFresh` says that every row in hand belongs to a
  stored row older than the event, and gives `OnlyNewerEvents`, the action
  property. `LoopMeetsReference` needs the loop invariant of the order handlers
  (`LoopInv`, from `LoopAndTables`): what is in hand plus the lines not yet looked
  at is what the reference gives; the invariant also says that `available` stays as
  it is, of which the property claims the part the docstrings share. The same invariant says what the rows to write
  are for the other handlers, and so gives `TransfersLoseNothing` (a sum over the
  rows before and after) and `OpenOrdersKeepReserve` (a sum over the open orders:
  the event's own order enters or leaves it together with its lines).
* `ConsumerProofs`: six theorems. `CommitsFollowHandling` needs where the position
  and the message in hand are (`Located`) and that everything behind the position
  was handled, given up or is in hand (`BehindIsHandled`). `EachEventOnce`, the
  refinement of `EventJournal`, rests on the mark (`Marked`: what is recorded has a
  row in `processed_events`, and the event about to be written has one too but is
  not yet recorded).
  `TypeCorrect` includes that no quantity is negative, through late batches.
  `MirrorsAgree`: a batch gives its rows one write time (`WriteTimes`), a table
  that shows an older write than another still has a mutation of some batch ahead of
  it (`Pending`), so that without batches the tables agree, by the newest write
  winning. `LossIsBounded`: every step that loses an event loses one only, and
  is a failing call or the end of the process (`LossInv`).
  `NewestStands`: as long as nothing failed, a batch is applied before the next
  event is read, and its rows are newer than the stored ones (`OrderInv`).
* `FlightProofs`: `ReservationsAtomic`, the refinement of `SeatInventory`; its
  invariant (`Claims`) says for each place of a call what the call knows there:
  which locks it holds and that the rows it has read are still those in the tables,
  because nobody else can commit a change of a row it has locked. `SeatsKept` is
  proved of the abstract inventory, where it is inductive (`Accounted`), and holds of
  the service by that refinement: the sum runs over the active reservations of a
  flight, which are finitely many even when `Bookings` is not. `NoCircle`: a lock is
  explained by the place of the call that holds it (`LocksExplained`), and the places
  have ranks (`WaitsUpward`): a call that is about to insert its reservation waits
  only for one about to commit, a release that waits for the flight only for an
  insertion or a commit. The first holds because a release that has a reservation
  row has found the reservation, and the insertion of an id that exists fails
  instead of waiting. `TypeCorrect` (its `TypeOK` is proved only: what a run of it
  could find, seats below zero, `ReservesAtomically` finds too); `CacheIsFresh`, which is inductive with what a
  reading call carries.
* `BookingSagaProofs`: `TypeCorrect`, `SeatsOfCancelledReturn`,
  `ClientsToldTheTruth`. The inductive invariant `IInv` says that a request on the
  wire belongs to a call that is waiting or gave up (`WireMatches`), that an
  answer "ok" to a release means the seats were released for that caller
  (`AnswersMatch`, `WinnerReleased`), that at most one caller per booking ever
  gets that answer (`OneWinner`), and how rows and places relate (`RowsMatch`).
  One winner is the heart: the check of the status in `CancelBooking` is not
  protected, so two cancellations do reach the release; only the ACTIVE check in
  the flight service's transaction separates them. `SettledAgree` adds what holds
  of a call until it is torn (`SagaInv`): one message under way at most
  (`OneMessage`), the seats at each place of `CreateBooking` (`SeatsFollow`), and that
  the seats of a confirmed booking are gone only while the winner of its
  cancellation is about to mark it (`WinnerMarks`).
* `ShopProofs`: `ActiveOrdersStayBounded`. The bound itself is not inductive: the
  invariant `HeldBounded` counts, per user, the active orders together with the
  orders of requests that may still make one active (`Held`). The count of
  `createOrder` is the only step that lets a new order in, and it passes only when
  none is active, so that from then on `Held` is made of requests under way alone,
  of which there are at most as many as `Clients`. `UsesStayWithinLimit`: the
  counter and every copy of it that a request has read are within the limit.
  `Shapes` is the part of type correctness both need (records and their fields).
  `SoundHolds` types tables and requests, and says that the id of a new order
  belongs to its request alone (`FreshIds`): this is why a commit changes the sum of
  what active orders hold by one order only. With it `OversoldByTwoLines` compares
  the written stock with the lines of the cart (one line is covered by the check of
  the code, two are not), and `FreshCommitsKeep` follows the stock, the sum of what
  is reserved and the number of orders with the promo code through a commit whose
  reads are still true.
* `AggregationProofs`: `TypeCorrect`; `SnapshotsRefined` and `RanksBelongToCounts`
  from `StoresInv` (what a store shows is bounded by the rows in hand, and those by
  ClickHouse: a run that was overtaken by midnight or by other views still writes
  no less than what is there); `SuccessKept`, `AgreementAfterRun` and
  `OpenRunsExplained` from `RunsInv`, which says for each day the loop has passed
  what both stores have of it.
* `ProducerProofs`: `TypeCorrect`, with the limit of the queue; `TopicInOrder`. Its
  invariant extends the order of the topic to the queue and to the event in `send`
  (`OrderInv`, `NextInOrder`), and says that no event of an active session ended it
  or belongs to a later one (`SessionIsLast`). `SessionsKeepAlternating`: the alternation
  is not a property of the topic alone, since the next event is chosen by the state of
  a session in memory. `ProtocolInv` ties the two together: the last event of a
  session of which nothing is lost is the one its state tells of (`StateTold`), every
  event that librdkafka was given has its place after an event that admits it
  (`AllPlaced`), and a session that goes on was begun (`Begun`).

The assumptions are the named `ASSUME`s of the modules, which TLC evaluates.

Every invariant, action property and refinement that a passing run checks is stated
by one of these theorems. Only model-checked is liveness (`NoMessageBlocks`,
`EveryMessageEnds`, `RejectsReachDlq`, `EveryCallReturns`, `OrphanedSeatsReturn`,
`CallsEnd`, `SessionsEnd`): it needs ENABLED and rules for fairness, which the
provers used here do not have. `NoDeadlock` is the safety part of
`EveryCallReturns`; that a waiting call is served in the end rests on the fairness
of section 4. The violation runs are counterexamples and need no proof.

## 6. Where code and documents differ

The violation runs show, with the quoted lines in `PROJECT.json`:

1. a message that failed on Cassandra is not retried: the next message's commit
   passes it (main.py 392, README 227-229);
2. the aggregation never runs by itself: the job is added with
   `next_run_time=None` and so is paused (scheduler.py 24, README 46);
3. an event for which `produce` finds the queue full three times is dropped, and
   `send` returns as if it had been accepted (producer.py 102, README 26);
4. ORDER_CREATED adds to `reserved` and takes nothing from `available`, although
   its docstring says it reserves like PRODUCT_RESERVED, and that of ORDER_COMPLETED
   relies on it (handlers.py 387, 474-476); the demo scenario asserts what the code
   does (run_scenarios.py 180). `OrderLoopMeetsReference` claims only what both say;
5. a session of the generator may end while it is paused, although the docstring
   lets every pause be followed by a resumption (generator.py 16, 115).
   `SessionsAlternate` is what does hold.

Some properties hold because they name the case a hazard is about and claim
the rest: a torn call in `SettledBookingsAgree`, an overlapping read in
`FreshUnlessExcused`, an overtaken request in `FreshCommitsConserve`, two lines of one
product in `OversoldOnlyByTwoLines`, concurrent requests in `ActiveOrdersBounded`, a
failing call in `OpenRunsWereInterrupted`. No document speaks of these
cases, so that no violation run refutes one; the notes of the hazards name them.

Met while modelling hm6, hm3 and hm2, without a run: the idempotency mark is not
in the batch with the state (README 129-130, main.py 311-334), so a failure
between them loses the event, as `LossBoundedByFailures` counts; a rejected
message is only buffered when its offset is committed, and a crash or an expired
send loses it (README 224, dlq.py 56; `RejectsReachDlq` speaks of behaviours
without either); any failure of the schema registry is taken for a malformed
message and sent to the DLQ (main.py 214; the step `RegistryFails`); a seller
writes an absolute stock that was read before an order changed it
(ProductService.java 108); no code ever sets a reservation to EXPIRED
(er-diagram.md 202); an order with two lines of one product is checked line by
line and can drive the stock below zero (OrderService.java 69;
`OversoldOnlyByTwoLines` says it is the only way a fresh request does); a search
that overlaps an invalidation can leave old seats in the cache until they expire
(test.sh 39, 51; `FreshUnlessExcused` names these windows); a batch that timed
out and is applied later can be overtaken by an older event or mix with a later
batch (why `NewestEventStands` has its premise); concurrent reservations on one
flight end in a serialization error that nobody retries; a missing booking is
answered with 500, because `GetByID` returns an error and never nil; of two
concurrent cancellations the second is answered with 500, not 409; a search
without flights is cached as `null` and taken for a miss. In the shop, requests
that overtake one another oversell a product, leave a user with two active
orders, bring a cancelled order back, give one promo use back twice so that the
counter falls below zero, or let more orders have a code than its limit; the
code's check allows one active order while `max-active-orders: 10`
(application.yml) is read by nothing; `setItems` replaces a collection with
orphan removal (OrderService.java 214), which Hibernate may refuse at the flush,
so that no update would succeed: the model allows both outcomes.

Met while modelling hm5, without a run: the parameter `days` of `/top-movies` is
read by nothing; `/export-parquet` writes rows without `rank_position`;
`total_watch_time` sums the progress of VIEW_STARTED events, which is 0; the
number of rows the upsert reports is that of the last page of `execute_values`
(postgres_writer.py 67); a view that arrives for a day before yesterday is never
aggregated (scheduler.py 46; `SuccessCoversItsDays` speaks of the two days of a
run); ClickHouse ingests at least once and removes no duplicates; a run may be
closed as successful and then overwritten as failed when the answer is lost
(scheduler.py 57); the waiting between attempts blocks the event loop, `/health`
included.

## 7. Not modelled, and limits

* `supplier_id`, `last_event_id`, the append-only `event_history`, the 30-day TTL
  of `processed_events`, metrics, health checks and the lag updater.
* One consumer; a second member of the group would only take partitions over, as
  `Rebalance` does between two messages.
* Unknown flights and flights whose status changes: no code changes a status
  after the migration.
* Authentication, parsing, protobuf and Avro layouts, logging.
* Shop: the discount, a promo code that expires or is switched off, and the
  statuses PAYMENT_PENDING, PAID and DELIVERED, which no code sets. A
  cancellation is recorded as an operation too, but only creations and updates
  have a rate limit. A role that is refused changes nothing.
* hm5: `unique_users` and `total_watch_time`, which travel with `views_count` in one
  row and decide nothing; times, devices and progress of events; the dashboards and
  the TTL of the ClickHouse tables; ClickHouse itself beyond what its queries
  return.
* hm1, hm4 and hm7 have no logic; the demo producer of hm6 sends fixed scenarios,
  which are among the topics the models try.

## 8. Plan

1. The consumer with two members of the group and an expiring mark.
2. hm2: `calculateDiscount` against a reference over bounded amounts; the shop with
   two products in one order.
3. Proofs: the liveness properties as far as they have a safety core, as
   `NoDeadlock` is that of `EveryCallReturns`; an abstract log per user that
   `EventProducer` implements.
