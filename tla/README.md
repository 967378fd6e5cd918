# A verification of the order service

The repository is a small Go service: it reads orders from a Kafka topic, stores
them in four PostgreSQL tables, keeps a cache of them and serves the cache over
HTTP. This directory holds TLA+ modules for the parts of it that are hard to
test, the TLC configurations that check them and TLAPS proofs of the safety
properties. `PROJECT.json` lists the same things in machine-readable form: runs,
the source lines behind each definition, the hazards and the findings.

## 1. The system

| Component | Source | State | Operations |
|---|---|---|---|
| Cache contract | `internal/cache/cache_interface.go` | none | the `Cache` interface |
| In-memory cache | `internal/cache/inmemory_cache.go` | map of list elements, LRU list, one mutex, `stopCh` | `SaveOrder`, `GetOrder`, `OrderExists`, `RemoveOrder`, `Clear`, `GetAllOrders`, `Close`; the cleanup goroutine |
| Redis cache | `internal/cache/redis_cache.go` | keys in Redis, TTL 24 h | the same interface; `Clear` and `GetAllOrders` are several commands |
| Order tables | `internal/repository/` | `orders`, `payments`, `items`, `deliveries` | `AddOrder` (six statements or more, no transaction), `GetOrders` |
| Consumer | `internal/consumer/consumer.go` | the position in partition 0, the message at hand | `Subscribe`, `restoreCacheFromDB`, `runConsumer`, `handleMessage`, `sendToDLQ` |
| Service process | `cmd/service/main.go` | which goroutines run | start, cache load, signal, deferred closes |
| HTTP server and handlers | `internal/server`, `internal/controller/router` | `s.server`, the open connections | get, list, delete, clear; `Launch`, `Shutdown` |
| Order producer, menu, generator | `internal/service/order_producer.go`, `cmd/producer`, `cmd/ui/menu`, `internal/datagenerators` | none that lasts | writes orders to the topic |
| Order validator | `internal/service/order_validation.go` | none | a predicate on orders |
| Migrations | `migrations/` | `schema_migrations`, the schema it describes | `Up`, `Down`; `InitializeDatabaseSchema` |
| DLQ reader | `cmd/dlq_reader` | none | prints the DLQ topic |
| Factory, configuration | `internal/cache/factory.go`, `config/` | none | checks values, picks the backend |

How they interact. `main` opens the database, loads every order into the cache
(`initializeCache`), starts the HTTP server and the consumer goroutine, and waits
for a signal. The consumer first restores the cache again, then connects to
Kafka and handles one message at a time: cache lookup, `AddOrder`, cache write;
what it refuses it sends to the DLQ topic through an asynchronous producer. The
HTTP handlers share the cache with it. On a signal `main` cancels the context,
shuts the HTTP server down, closes the cache, then the database, and returns; it
does not wait for the consumer.

What is hard here, and what makes each component correct:

* **In-memory cache.** Two data structures updated by separate statements, a
  background goroutine, a clock. They must describe the same entries, stay within
  the capacity, evict the least recently used entry, and a read must never
  return an order that was replaced, removed or has expired.
* **Tables and consumer.** `AddOrder` can stop between any two statements. A
  complete order must be recognisable, rows of different messages must not mix,
  the cache must not hold what is not stored, and a half-written order must not
  do harm later. It does: see the findings.
* **Kafka.** Connections are lost, messages come twice, the process restarts.
  What has been read and what will never be read depends on where the consumer
  starts again.
* **DLQ producer.** Answers come late, or never, on two channels shared by all
  messages. A message must not be lost on the way except where the code says so,
  and the consumer must not hang.
* **Redis cache.** `Clear` and `GetAllOrders` are sequences of commands that can be
  interrupted or overtaken. A `Clear` must not leave what it found, a listing must
  not have holes, and both must end.
* **HTTP server.** `Launch` runs in a goroutine of its own and writes `s.server`,
  which `Shutdown` reads without synchronisation and waits on for ten seconds at
  most; a delete checks first and removes later. No request should meet a closed
  cache, an answer must be true of some moment of the request, and a signal must
  end the process.
* **Configuration and factory.** The value is checked in one place, converted in
  a second and used in a third. What the first accepts must work in the last.
* **Migrations.** A version's objects and its record in `schema_migrations` are
  written separately, and several processes may call `Up` and `Down`. A crash
  between doing a thing and recording it must not leave the two apart for good.
  `Down` does not achieve that: see the findings. At this commit the service does
  not call them (`cmd/service/main.go` has the call commented out).

## 2. Modules

| Module | Models | Uses |
|---|---|---|
| `CacheContract` | the `Cache` interface: a store that may forget an order at any time but never answers with anything except the order saved last | |
| `InMemoryCache` | `inmemory_cache.go` | refines `CacheContract` |
| `MCInMemoryCache` | `InMemoryCache` with history variables for two properties | `InMemoryCache` |
| `InMemoryCacheProofs` | theorems | `InMemoryCache` |
| `MCInMemoryCacheProofs` | theorems about the history variables | `MCInMemoryCache`, `InMemoryCacheProofs` |
| `RedisCache` | `redis_cache.go` | |
| `MCRedisCache` | `RedisCache` with history variables for two properties | `RedisCache` |
| `RedisCacheProofs` | theorems | `MCRedisCache` |
| `OrdersDB` | the tables, the statements of `AddOrder`, the outcomes of `GetOrders` | |
| `OrderStore` | what the service as a whole owes an order: unknown, half written or whole, and the cache's copies | |
| `OrderService` | the process, the consumer, the cache-changing handlers, the shutdown | `OrdersDB`, refines `OrderStore` |
| `MCOrderService` | values for its constants | `OrderService` |
| `OrderServiceProofs` | theorems | `OrderService` |
| `OrderStoreProofs` | that `OrderService` implements `OrderStore` | `OrderServiceProofs` |
| `DlqProducer` | `sendToDLQ` and the sarama producer | |
| `DlqProducerProofs` | theorems | `DlqProducer` |
| `CacheConfig` | what `config.go` and `factory.go` make of the cache's settings: operators, no state | |
| `HttpService` | the process around its HTTP server: start, `Launch`, the handlers, `Shutdown`, the deferred closes | `CacheConfig` |
| `MCHttpService` | `HttpService` with history variables for one property | `HttpService` |
| `HttpServiceProofs` | theorems | `MCHttpService` |
| `Migrations` | `Up` and `Down` of `migrations/`, one statement at a time | |
| `MCMigrations` | the files of `migrations/versions`, and three history variables | `Migrations` |
| `MigrationsProofs` | theorems | `MCMigrations` |

A name with a suffix after an underscore (`Kept_OneTooMany`) is the next
definition with a plausible bug in it. No action uses these; substituted for the
real definition, each must make the property named in `PROJECT.json`
("mutants") fail.

### InMemoryCache

`cache` is the map, `lruList` the list, front first. A list element is identified
with its entry, which is never written after it is created. A call that holds
the mutex from beginning to end is one action. `cleanupExpired` is not: it holds
the mutex too, but its second loop relies on what the first one collected, so it
is `CleanupStart`, one `CleanupRemove` per key, `CleanupEnd`, with `locked` in
between; the other calls have `MutexFree` as a guard. `Close` closes `stopCh`
before its `Clear` gets the mutex, hence `CloseStop` and `CloseClear`. The
capacity is positive (`factory.go` and `config.go` refuse anything else) and
evictIfNeeded may therefore be taken as one cut of the list.

`OrderExists` is `GetOrder`. Time is a counter moved by `Tick`.

`reply` is the answer of the last call. `Visible`, the unexpired entries, and
`reply` map this module to `CacheContract`; `ImplementsContract` is that
refinement. It has to cope with a difference between `GetOrder` (expired *after*
`exp`) and `GetAllOrders` (listed *before* `exp`): the listing may be short by
an entry that a read would return, which the contract allows.

`MCInMemoryCache` adds what two properties speak of and the code does not keep: when
an order was last saved, and for each order the orders used since (`usedSince`). The
list is the code's way to know that order of use; the history is what it has to agree
with.

### RedisCache

`keys` is what the `order:*` keys hold. A method that is one Redis command is one
action. `call[c]` is where goroutine `c` is in `Clear` or `GetAllOrders`: `todo`, the
keys its loop has still to visit; `ahead`, what SCAN's cursor has not reached;
`found`, what a listing has read. `ScanPage` follows what Redis promises of SCAN: the
cursor moves over some part of the key space, returns all keys that are in it at
that moment and perhaps, when a table is being resized, some it returned before.
`Expire` may take any key at any time, which covers the TTL of 24 hours.
`CommandFails` is any error of Redis, `ClientClosed` what a call meets after `Close`.
The keys outlive `Close` and the process.

This backend does not refine `CacheContract`: other goroutines see a `Clear` half
done, a listing is no snapshot (it may hold an order removed meanwhile), and `Close`
forgets nothing. What `Clear` and a listing do keep, `MCRedisCache` states with two
history variables: `steady`, the orders that were there throughout the call, and
`seen`, those that were there at some moment of it.

### OrdersDB and OrderService

An order is its `uid` and a `version`, which stands for all other contents; a row
keeps the version of the message it was written from. `ItemsOf` gives the
`chrt_id`s of an order. `Unfit` says which columns cannot hold a version: the
migrations declare `VARCHAR`s and `DECIMAL`s narrower than what the validator
lets pass, and such an `INSERT` is an error. What `GetOrders` returns is read off the
rows: `Loaded` gives each order the versions its parts are of (`RowsOf`) and the items
whose rows are its own (`StoredItems`), which may be fewer than its message had
(`FromMessage`). The cache holds such copies. `UniqueChrt` says whether the items
table has a unique index on `chrt_id` alone, which `ON CONFLICT (chrt_id)` needs:
without it every `AddItem` is an error.

`OrderService` has three threads of control:

* `proc`, where `main` is: `Start`, `Load` (or `LoadFails`, `LoadError`, both of
  which end the process), `Signal`, `ShutdownDone`, `CloseCache`,
  `CloseRepository`, `MainReturns`.
* `pc`, where the consumer goroutine is: `Restore`, `RestoreClear`,
  `RestoreSave`, `RestoreEnd`; `RunConsumer`, `Connect`, `Disconnect`,
  `Reconnect`, `ConsumerReturns`; `Receive`, `CheckDuplicate`, and `AddOrder`
  one statement at a time (`AddOrderExists` to `AddOrderDelivery`, an `AddItems`
  round each), `SaveToCache`.
* `deleting`, the HTTP deletions between their check and their removal;
  `HandleClearOrders`.

`Statement` gives each statement its outcomes: done; rejected by the server; an
error although the server has executed it; an error and nothing done; the pool
closed already. `Crash` and `MainReturns` may come between any two steps and
leave the tables and the topic, nothing else. The cache is the contract's:
`CacheForgets` may drop any order at any time, which covers eviction and expiry.
It is lost with the process, so this is the service with the in-memory backend;
with the Redis backend it would survive a restart until the load rewrites it.

The topic has one partition, as `ConsumePartition(orderTopic, 0, ...)` reads one.
`position` is moved to the end by `Connect` (`OffsetNewest`); nothing is
committed to Kafka, since a plain `sarama.Consumer` commits no offsets.

`OrderStore` is the same service seen from outside, without messages, tables,
statements or restarts: an order becomes half written once (`Begin`), is made whole
by that writer in the same go (`Complete`) or never (`GiveUp`, `End`), and the cache
takes copies of whole orders (`Cache`, `Load`) or loses them (`Forget`). `Half`,
`Whole`, `Writing` and `Cached` in `OrderService` say what each of its variables is
there; an order's contents are the set of the versions its rows are of (`RowsOf`), so
that a mixture of two messages is visible. An order is `Whole` there as soon as it has
its delivery row; one that has lost an item to another order counts as whole.
`ImplementsStore` is the refinement. It
implies that no stored row is ever replaced (`FirstMessageWins`), which is therefore
proved but has no run of its own.

A message that is empty, not JSON, without an `OrderUID` or not valid is `Bad`:
the consumer refuses it in `Receive`, and what `sendToDLQ` then does is the next
module.

### DlqProducer

`phase` is where `sendToDLQ` is: `offer` in the outer `select`, `await` in the
inner one. The producer is external: it has taken a message (`accepted`),
answers it with `Deliver` or `Fail` whenever it likes, and blocks `Input()` when
it holds `Room` messages, those with unread answers included. A timer fires only
if nothing else in its `select` is possible: the timeouts are seconds, a channel
operation that is possible is taken at once. `CloseProducer` is the deferred
`safeClose` of `runConsumer`; `sarama` flushes the messages it holds, unless
that fails. `dropped` remembers the messages given up because `Input()` blocked,
which in the program is a line in the log. `failures` counts failed sends, `breaks`
crashes and closes that did not flush, and `Lost` are the messages that are nowhere:
`LossBounded` weighs the one against the others. A stale error read in the outer
`select` makes `sendToDLQ` skip its own message, so a failed send may cost two. That a
close flushes (`Flushed`) is taken from sarama.

### CacheConfig and HttpService

`CacheConfig` follows one configuration through `Validate`, `ToCacheConfig` and
`New`. A TTL is empty, malformed or a number of nanoseconds; the settings of the
other sections are one yes or no. `TickerPanics` is `time.NewTicker(ttl / 2)` with a
TTL too short to be halved.

`HttpService` is the other view of the process, beside `OrderService`: there the
consumer and the tables matter and the HTTP server is a source of deletions; here
the server matters and the consumer is a source of saves.

* `main`, from `Start` with any configuration through `LoadConfig`, `NewCache` (or
  `CacheRefused`) and `LoadOrders` to `Signal`, the four outcomes of `Shutdown`,
  `CloseCache` and `MainReturns`. `Killed` stands for whatever ends the process at
  once: an unreadable file, database or Redis at the start, a signal before
  `signal.Notify` or one that cannot be caught.
* `launch`, the goroutine of `startServer`: `starting`, `assigned` (`s.server` is
  written, `ListenAndServe` not yet called), `binding`, `listening`, `ended`.
  `Launch` and `main` both log a line on their way, and the lock of the logger is
  all that orders the write of `s.server` before `Shutdown`'s read. That is why
  `ShutdownMisses` is possible in `starting` and in `assigned`, and not later.
* `shutdown`: `waiting`, or how it returned: `quiet` (every connection idle),
  `missed` (it found nil), `gaveUp` (after ten seconds).
* `cleaner`, the cleanup goroutine as far as `NewTicker` may end the process.
* `req[c]`, one connection: accepted without a request, in a handler, or closed or
  idle. `HandleDeleteOrder` is `DeleteCheck` and `DeleteRemove`; every other handler
  makes one call of the cache. Each action takes the status it answers with.

`cached` is the contract's cache with only the uids in it. `Clear` and the listing
are atomic here, since `RedisCache` is about what happens in the middle of them. An
in-memory cache that has been closed is an empty one that still answers; a Redis
client that has been closed fails every call (`CacheDead`).

### Migrations

`recorded` is `schema_migrations`, `objects` the tables, foreign keys and indexes that
exist, `run[r]` where process `r` is in `Up` or `Down`. A file is one transaction:
`Applied` is what its `CREATE ... IF NOT EXISTS` statements leave, `Refused` that one
of them refers to a table that is not there, `Drops` what its `DROP ... CASCADE`
statements take along. The record is a statement of its own before or after. Each
step has an outcome where the call ends in an error, with the work done or not, and
`Stop` ends a call between two steps. `Migrations` takes any files that satisfy
`FilesAssumption`; `MCMigrations` has those of the repository.

Its history variables say what the properties make an exception of. `crossed`: an
`Up` and a `Down` have been under way together; nothing protects them from each
other. `halfDown`: recorded versions whose `Down` ended after its `DROP`s. `severed`:
the tables from which a `Down` took the foreign key while their own version stood
unrecorded. PostgreSQL may refuse one of two `CREATE ... IF NOT EXISTS` of the same
name that run at the same time; this is one of the budgeted errors, not a step of its
own.

## 3. What TLC checks

| Run | Expect | Properties | Distinct states |
|---|---|---|---|
| `inmemory_cache` | pass | `TypeOK`, `MapListAgree`, `WithinCapacity`, `CollectedStillExpired`, `ImplementsContract`, `EvictsLeastRecentlyUsed`, `HitsAreFresh`, `ExpiredEntriesDropped` | 238,802 |
| `order_service` | pass | `TypeOK`, `DeliveryMarksComplete`, `CacheBackedByDB`, `GoneUntilRestart`, `TornOnlyByFault`, `TornForever`, `ImplementsStore` | 2,247,806 |
| `order_service_live` | pass | `UnreadOrdersStored`, `ConsumerSubscribes` | 11,304 |
| `dlq_producer` | pass | `TypeOK`, `AnswersBounded`, `LossBounded`, `DroppedAfterTimeouts`, `SendReturns` | 11,835 |
| `redis_cache` | pass | `TypeOK`, `ClearedAreGone`, `ListingComplete`, `CallsReturn` | 180,450 |
| `http_service` | pass | `TypeOK`, `NeverUpWithoutServer`, `QuietAfterShutdown`, `AcceptedConfigurationsWork`, `AnswersHonest`, `ShutdownDrains`, `StopEnds` | 182,124 |
| `migrations` | pass | `TypeOK`, `RecordedInOrder`, `RecordedAreThere`, `TablesHaveTheirKeys`, `RefusedOnlyOverHalfDown`, `UpAppliesAll`, `HalfDownStays` | 354,809 |
| `restart` | violation | `EveryStartRestores` | |
| `reconnect` | violation | `ResumesWhereItStopped` | |
| `item_key` | violation | `TornOnlyByFault` without the index | |
| `consumer_ends` | violation | `ConsumerStaysUp` | |
| `dlq_confirmation` | violation | `ConfirmationIsOwn` | |

Bounds, and why they are enough:

* Cache: three orders and a capacity of two, so that each insertion into a full
  cache evicts; two contents per order, so that a stale answer can be told from a
  current one; a TTL of one tick and three ticks, so that entries live, expire
  and are saved again. `MaxTime` bounds the clock.
* Service: two orders with an item in common, so that one of them loses an item
  to `ON CONFLICT DO NOTHING`; two contents that fit and one whose delivery does
  not; three messages (`MaxMessages`), so that an order can come twice with
  another in between; two faults and two stops (`MaxFaults`, `MaxStops`), so that
  an order torn once can be met again by a second failure or restart. The two
  contents that fit are symmetric. The liveness run has one content, two
  messages, one fault and one stop, and no symmetry.
* Redis: three orders, so that SCAN's pages can be cut in several ways and a key can
  vanish while two others are still to be visited; two contents, so that a listing
  can read an order that was replaced; one goroutine in a `Clear` or a listing (what
  another one's would do to it, `RemoveOrder` does); one failed command.
* DLQ: five messages and room for two, so that the producer fills up by timeouts
  and still meets messages after that; two failures.
* HTTP: two connections, so that two requests meet in one delete's gap; two uids,
  one of them longer than the 50 bytes `HandleGetOrder` takes; one error or kill;
  TTLs of -1, 0 and 1 ns, empty and malformed, and capacities 0 and 2, the values on
  either side of every comparison in the code.
* Migrations: the five files; two processes; two faults, so that a call stopped
  half way can meet another one stopped half way. An `Up` crossing a `Down` counts as
  a fault, since after one only the types are claimed.

Deadlock is checked in every run: at their bounds the modules can always take
some step (a handler call, a crash counted no more, a closed producer), and a
service that is down can always start.

Fairness, and what justifies it:

* `InMemoryCache`: the cleanup goroutine is weakly fair (its ticker fires as long
  as it runs; `sync.RWMutex` admits every waiter) and so is the second half of
  `Close`. Callers and the clock are not.
* `OrderService`: `Consume` and `Main` are weakly fair as wholes: a goroutine that
  can run does run, and PostgreSQL, Kafka and the cache answer every call, with a
  result or an error. `Start` is in `Main`: someone starts the service again.
  Faults, stops and requests are not fair; the properties end at the next one.
* `RedisCache`: a call that has begun is weakly fair (its goroutine runs, Redis
  answers). Saves, removals, expiry, errors and the end of the process are not.
* `DlqProducer`: the handler is weakly fair (timers fire), Kafka is not.
* `HttpService`: only `main` is weakly fair; `Shutdown`'s timer is a step of `main`.
  `StopEnds` needs neither `Launch` nor the handlers to make progress, and clients,
  signals and faults get no fairness either.
* `Migrations`: none; all its properties are safety properties.

### What the violations show

Each of these runs checks what a document or a comment in the repository says;
the quotations are under "findings" in `PROJECT.json`.

* `restart`: a signal while `AddOrder` is between two statements leaves an order
  without a delivery row. `populateOrderDetails` dereferences the nil delivery
  (`orders.go:162`), so this start and every later one ends in a panic.
* `reconnect`: messages published while the consumer is not connected are never
  read.
* `item_key`: with the items table of `migrations/versions`, `AddItem` is always
  an error, and every order stays half written. The other runs assume the index.
* `consumer_ends`: one database error in the consumer's restore and the service
  runs on without a consumer.
* `dlq_confirmation`: after a confirmation timeout, `sendToDLQ` reports the
  answers one message late.

### Findings that are exceptions in a passing run

These disagreements are what a property has to make an exception of; the property
says exactly how far they reach, and "findings" has the quotations.

* A `Down` stopped between its `DROP`s and its `DELETE` leaves a version recorded
  without its objects, and no `Up` makes them again (`HalfDownStays`).
* A `Down` after an unrecorded `Up` can take the foreign keys of tables it does not
  know of; the next `Up` leaves those tables as they are. `TablesHaveTheirKeys` is an
  equivalence: these tables are without their keys as long as they stand, and no others.
* A signal right after the start: `Shutdown` finds no server, reports success and
  stops nothing (`shutdown = "missed"` in `QuietAfterShutdown`). `ShutdownDrains` says
  how far that reaches: no connection has been accepted by then. It also speaks of the
  case where `Shutdown` gives up, which `QuietAfterShutdown` leaves out.
* A connection lost while `GetOrders` reads its rows ends its loop like the last row
  does (`rows.Err()` is not looked at): the cache is restored in part, without an error.
  `GoneUntilRestart` says that nothing in the running service makes up for it: if the
  message of such an order comes again, `AddOrder` refuses it and nothing is cached.
* A Redis configuration with a malformed TTL passes `Validate` and is then refused
  as an unknown cache type (`AcceptedConfigurationsWork`).
* A GET of an order whose uid is longer than 50 bytes answers 400, although the order
  can be stored, listed and deleted (`LongUid`).
* A listing from Redis fails if one key goes between `KEYS` and `GET` (`ListMiss`).
* An order of whose items each is an item of another order too may be stored whole,
  without an item of its own; `GetItems` then answers with an error and every later
  start fails, although nothing ever went wrong (`ReadFails`; the hypothesis `OwnItem`
  of two theorems).
* An order half written once is never completed by sending it again
  (`TornForever`); and a direct caller's TTL of 0 expires entries at once.

## 4. What is proved

All theorems hold for every value of the constants that satisfies the named
assumptions: any number of orders, any capacity and TTL, any bound, either schema.

**InMemoryCacheProofs.** The inductive invariant `IInv` is `TypeOK`,
`MapListAgree`, `WithinCapacity` and that the keys the cleaner has collected are
in the map, still expired, and are removed under the lock. `MapListAgree` alone is not
inductive: `cleanupExpired` keeps it only because its keys are still there, and
`evictIfNeeded` only because the list holds no entry twice. The lemmas on
`Removed`, `PushedFront`, `MovedToFront` and `Kept` say what each list operation
does to positions and ranges; `DropAgrees`, `PushAgrees` and `EvictAgrees` lift
them to the pair of map and list. `CacheImplementsContract` then maps each action to
an action of the contract, or to `Forget` where only expired entries go.
Theorems: `TypeCorrect`, `MapAndListAgree`, `CapacityRespected`,
`CleanupDropsOnlyExpired`, `CacheImplementsContract`.

**MCInMemoryCacheProofs.** The history variables beside the code's. `Ordered`: of two
entries in the list, the one in front has been used since the last use of the one
behind, which every `PushFront` and `MoveToFront` keeps and which survives the removal of any
element. `ExpiryFromSave`: an entry's `exp` is the time of its save plus the TTL. They
are inductive together with `IInv`. What a `SaveOrder` drops lies behind all it keeps,
by `Kept` and the agreement of list and map, and what a hit returns has not passed its
`exp`. Theorems: `EvictionIsLeastRecentlyUsed`, `HitsAlwaysFresh`.

**OrderServiceProofs.** `IInv` ties the tables to the place `AddOrder` has reached:

* `RowsFollowOrders`: every row belongs to a row of `orders` and is from the same
  message;
* `DeliveryIsLast`: a delivery row means that the payment and the items are there;
* `StoredSoFar`: what the current order has in the tables at each statement, in
  particular that every item is either stored or still in `itemsLeft`;
* `ItemsInv`: what `AddItems` stores are items of its own order;
* `LoadedBackedByDB`, `CacheBackedByDB`: what is in the cache, or on its way into
  it, has its orders, payment and delivery rows, is of the version of all its rows, and
  each item in it has a row of its own or was lost to an order that holds its `chrt_id`;
* `StartedAfterLoad`, `MessageAtHand`: the control state the rest relies on.

`CacheBackedByDB` is not inductive without `LoadedBackedByDB` (the restore puts
into the cache what it read earlier), and that one holds only because rows never
go and never change, and an order with a delivery row gets no more items, which is
`TablesGrow`, proved for every step. A message is cached as it came, with the items it
may have lost; a restart serves it with those it has, or fails if it has none. That is
the exception in the formula, and the finding about `ON CONFLICT (chrt_id)`. From `IInv`:
`ServiceTypeCorrect`, `CompleteWhenDelivered`, `CacheIsBacked`. From `IInv` and
`TablesGrow`: `FirstMessageAlwaysWins`, `TornStaysTorn`. `GoneStaysGone` rests on both:
an order with a delivery row has an orders row, at which `AddOrder` stops
(`OrderExists`), so the only way back into the cache is a restore. `TornOnlyByFaultHolds`
needs a second invariant, `TornInv`, and the index on `chrt_id` (`UniqueChrt`) as
a hypothesis, which run `item_key` shows to be necessary. `NoMessageLostSilently` is the
safety half of `UnreadOrdersStored`: while the database answers, the consumer goes on to
the next message only if the order of this one is whole, was abandoned earlier, or
is refused by the tables. It needs `CacheBackedByDB` where the cache calls a message a
duplicate and `StoredSoFar` at the other statements, and it is false without the
database: a message met after `CloseRepository` is dropped.

`ItemsInv` gives the two theorems on restarts. `WholeOrderReadable`: `GetOrders` reads any order that has a delivery row and an
item no other order has. `StartRestoresUnlessTorn`: if all orders have such an item, a
half-written order is the only thing that can keep a start from restoring the cache. The
hypothesis is a real one: see the findings. Items are a function of the `order_uid` in
this model (`ItemsOf`), so two messages about one order have the same items.

**OrderStoreProofs.** `ServiceImplementsStore`: `Init` implies the abstract `Init`, and
each step of `OrderService` is a step of `OrderStore` or leaves its variables alone. The
invariant is `IInv` and that the cache is empty until the start has loaded it
(`EmptyUntilLoaded`), which `Load` asks for. There is one lemma per kind of step: the
statements of `AddOrder` that are visible outside (the first `INSERT` and the last) and
those that are not, which have to write rows of the version that is there already; the
cache's; the ends of the process.

**RedisCacheProofs.** `ClearReaches`: what has been there all along and is not yet
deleted is in the page at hand or ahead of the cursor. `ListReaches`: what has been
there all along is read or still to be read, and what is read was there. With the
types they are inductive, and at the last step of a call, when nothing is left to
visit, they are `ClearedAreGone` and `ListingComplete`. Theorems: `RedisTypeCorrect`,
`ClearLeavesNothingOld`, `ListingIsComplete`.

**DlqProducerProofs.** The inductive invariant is `TypeOK`, `AnswersBounded`,
`LossBounded` and `TimeoutsPast`: each call of `sendToDLQ` has timed out at most once,
and the present one not yet, which keeps what the producer holds bounded by the
timeouts past. `LossBounded` is inductive because it counts the errors not read yet:
a failed send adds a lost message and an error, reading the error trades it for one
more message, and a crash loses what the producer holds, at most `Room`, and the
message on offer. Theorems: `DlqTypeCorrect`, `AnswersAreBounded`, `LossIsBounded`,
`DropsFollowTimeouts`.

**HttpServiceProofs.** `QuietAfterShutdown` needs `LaunchPlace` and `ShutdownPlace` (at
which places of `main` the goroutine and `Shutdown` can be where they are) and that a
handler is entered only from an open connection of a listening server.
`NeverUpWithoutServer` needs `EndedTold`: `Launch` ends quietly only in a shutdown.
`ConfigAccepted`, that what `NewCache` meets has passed `Validate`, gives
`AcceptedConfigurationsWork`. For `AnswersHonest` the history variables are tied to
the cache: `steady` is within it, `seen` covers it, and a delete past its check has
seen its order. `ShutdownDrains` needs that nobody is connected before `Launch` listens
(`NobodyYet`). Theorems: `HttpTypeCorrect`, `ServerStays`, `ShutdownIsQuiet`,
`StopDrains`, `ConfigurationsWork`, `AnswersAreHonest`.

**MigrationsProofs.** For any files that satisfy `FilesAssumption` and any number of
processes. Until calls have crossed, what is under way is all `Up` or all `Down`,
and the rest of the invariant, `Safe`, ties each process's place to the records: an
`Up` at version `v` has everything below `v` recorded, and beside a `Down` of version
`v` nothing later is recorded. `HaveKeys` is `TablesHaveTheirKeys` and that a severed
table still stands. After a crossing only the types are
claimed. Theorems: `MigrationsTypeCorrect`, `RecordsInOrder`, `RecordsTellTheTruth`,
`KeysAreKept`, `UpPassesOtherwise`, `UpIsComplete`, `HalfDownIsForUp`.

**Only model-checked.** The liveness properties (`ExpiredEntriesDropped`,
`UnreadOrdersStored`, `ConsumerSubscribes`, `SendReturns`, `StopEnds`, and `CallsReturn`
of Redis): temporal reasoning with fairness is out of the prover's reach. Every invariant, action property
and refinement of the passing runs is proved as well as checked.

## 5. What is not modelled

* The validator, the JSON formats, CORS and the other middleware, the logs, the
  settings of the database and Kafka (`GetDBConnectionString` and the like), and
  cleanenv's reading of them: sequential code over data, to which the tests of the
  repository are suited.
* `OrdersRepo.GetOrder`: nothing calls it.
* The health answer, which reads nothing.
* The rest of the order producer: its argument checks and errors. What it puts
  into the topic is `Publish` in `OrderService`.
* The menu, the generator, the DLQ reader, the mock cache and the web page: tools
  around the service that keep no state. The menu does have a flaw worth knowing
  (it loops for ever on the read error at the end of its input, `menu.go:121`).
* `InitializeDatabaseSchema`: it executes `migrations/schema.sql`, which is not in
  the repository, or skips it.

## 6. Plan

Done, in this order: the cache and its contract; the tables and the service; the
proofs of both; the DLQ producer; the Redis cache and its proofs; the migrations and
their proofs; the configuration and the HTTP service with their proofs; the proofs
about the DLQ producer.

Then the proofs about the cache's history variables, the abstract life of an order
with the proof that the service implements it, and the theorems on restarts and on the
messages the consumer is done with.

Next:

1. That the cache of `OrderService`, and that of `HttpService`, behave as
   `CacheContract` allows.
2. That a handler meets a closed cache only after a `Shutdown` that found no server or
   gave up, as a corollary of `QuietAfterShutdown`.
