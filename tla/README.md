# CryptocurrencyTradingEngine in TLA+

TLA+ models of the trading engine server in `src/`, TLC runs that check them on
small instances, and TLAPS proofs of their safety properties for every value of
the constants.

Parse a module with `tlasany M.tla`, check an instance with
`tlc -workers 2 -config X.cfg M`, check the proofs of a module with
`tlapm M.tla`. `PROJECT.json` lists the runs, the mutants of each property, the
source lines of every definition, the hazards and the theorems.

## 1. The system

`engine_server` (`src/src/engine_server.cpp`) is one process. Its `main()`
builds a `TradingEngineManager`, starts its engine and serves HTTP until it is
interrupted. Market data are written into TimescaleDB by a collector that is
not in the repository; the process copies the newest of them to Redis, and the
strategies read them from there.

```
 HTTP clients                      collector
      |                                |
 [Crow worker threads]            TimescaleDB
      | create/start/stop              | read_latest_*
      v                                v
 TradingEngineManager --owns--> DataSyncService <--starts a thread-- Scheduler
      | trading loop (one thread)      | SETEX pipeline
      v                                v
 ArbitrageStrategy, MarketMaking  <-- Redis

 OrderManager --> CCXTClient --> HTTP gateway --> exchanges   (no caller yet)
```

| component | state | operations | threads |
|---|---|---|---|
| `Scheduler` | `running`, `tasks` with `nextRunTime`, mutex and condition variable | `start`, `stop`, `addTask`, `run` | the scheduler thread, one detached thread per run of a task, the owner |
| `DataSyncService`, `TimescaleDBReader`, `RedisWriter` (writing) | one connection to each store, `stats_` | `sync_once`, `schedule_sync_task`, `start_scheduler`, `stop_scheduler` | the detached task threads, which may overlap |
| `TradingEngineManager` with `crow_router`, `engine_api`, `engine_server` | `engine_status_`, `should_run_`, `trading_sessions_` (status, profit, last update of each session) | `create_`, `start_`, `stop_`, `remove_trading_session`, `initialize`, `start_engine`, `stop_engine`, `shutdown`, the loop and its cleanup | HTTP workers, the loop, `main()`; no lock at all |
| `ArbitrageStrategy`, `MarketMakingStrategy`, `RedisWriter` (reading) | parameters | `run_once`: price from Redis, profit estimate or quote | the loop |
| `OrderManager`, `CCXTClient` | `orders_`, the exchange's identifiers | create, submit, cancel, update, the batches of these, cancel on expiry and on destruction | its one caller; the gateway and the exchange act meanwhile |
| `main.cpp` | | a demonstration, not in `CMakeLists.txt` | |
| Crow's `Server`, `Connection`, `task_timer` (`include/crow/`) | sockets, `task_queue_length_pool_`, each worker's table of deadlines, the flags of a connection | accept, `start`, `do_read`, `handle`, `end`, `start_deadline`, `tick_handler`, `stop` | one that accepts, workers that each run the handlers of an `io_context`, the signal |
| `HTTPParser` | state, header state, `nread`, `content_length`, what it has of a request | `http_parser_execute` and its callbacks | the worker of the connection |
| `Router`, `Trie` | rules, one tree per method | `add`, `optimize`, `find`, `handle_initial`, `handle` | built once, then read by the workers |
| `query_string`, `sanitize_filename`, `json` | the text and pointers into it | parsing, `get`, `pop` and so on; `load`, `dump` | as above |
| websockets, mustache, multipart, middleware, compression of Crow; `nlohmann/json` | | not used by the server, or external | |

What is hard in it, and what must be true of each part:

* **Scheduler.** The flag `running` is tested outside of the mutex that the
  condition variable uses; the chosen entry is used after the unlock; tasks
  outlive the scheduler thread. Entries must run no faster than their interval,
  must not starve each other, must run in the end, and must not be chosen any
  more after `stop()`.
* **DataSync.** The scheduler starts a sync every five seconds whether or not
  the one before has ended; a pipeline may be executed in part; a failed query
  looks like an empty table; the first reads of a sync are outside of any `try`.
  A sync that reports success must have delivered, Redis must go back in time
  only by overtaken syncs, and must be fresh again after failures.
* **TradingEngine.** Handlers, loop and `main()` interleave at every access.
  The limit on sessions, the take-profit stop, the cleanup's two passes, and
  shutdown each depend on what the others do in between.
* **Orders.** A request to the gateway can be lost, be answered late or not at
  all, while the exchange fills or cancels the order. No order may be placed
  twice, and the manager must never say more than the exchange.

* **HTTP server.** Reads, deadlines and hang-ups of a connection meet in the queue
  of its worker, and the shared pointers in those handlers are all that keeps it
  alive. Identifiers of deadlines are used again. Every complete request must be
  answered, an open connection must be read, a closed one must be released, and a
  silent client must be given up after the time-out.
* **Parser to reply.** The network cuts a text anywhere; one parser, one response
  and one set of flags serve all requests of a connection. The end of each
  request, its rule, its parameters, its JSON and the end of each answer must be
  what both sides take them for.
* **Strategies.** They act on a record without looking at its age, which may be
  expired, garbage or unreachable, and round.

The full list of hazards, each at its line with the properties that cover it or
the reason why none does, is in `PROJECT.json`.

## 2. The modules

| module | models | lines of code |
|---|---|---|
| `PeriodicTimer` | what a user of the scheduler relies on: armed tasks fired no sooner than their interval, again and again, until disarmed | abstract |
| `Scheduler` | `scheduler.cpp` | detailed; implements `PeriodicTimer` |
| `SessionLifecycle` | the life of a session as a client sees it | abstract |
| `TradingEngine` | `trading_engine_manager.cpp`, the HTTP handlers, `engine_server.cpp`, what a strategy does to a session | detailed; implements `SessionLifecycle` |
| `OrderLifecycle` | the life of an order as a caller sees it | abstract |
| `OrderManager` | `order_manager.cpp`, `ccxt_client.cpp`, with gateway and exchange | detailed; implements `OrderLifecycle` |
| `DataSync` | `data_sync_service.cpp`, `timescaledb_reader.cpp`, the writers of `redis_writer.cpp` | detailed |
| `TaskTimer` | `task_timer.h` | operators on a table of deadlines |
| `HttpConnection` | `http_connection.h`, `response::end` | operators on the record of a connection |
| `HttpServer` | `http_server.h` and the handlers of `http_connection.h` | detailed |
| `Octets` | the pieces that texts are made of | |
| `HttpParser` | `http_parser_merged.h`, `parser.h` | operators on the record of a parser |
| `Router` | `Trie` and `Router` of `routing.h` | functions, with a reference definition (`Declared`) |
| `JsonText` | the strings of `json.h`: `escape`, `decode_string`, `unescape` | functions of their rounds |
| `Json` | the rest of `json.h` | functions, with a reference definition (`IsJson`) |
| `QueryString`, `FileName` | `query_string.h`, `utility::sanitize_filename` | functions |
| `HttpExchange` | one connection from the octets to the answers: `HttpParser`, the callbacks of `parser.h` and `HttpConnection`, with router and handlers left open | composition |
| `HttpRequests` | `HttpExchange` with `Router`, the handlers of `crow_router.cpp`, `Json`, `QueryString` and the static files, and a client | composition |
| `Strategies` | `arbitrage_strategy.cpp`, `market_making_strategy.cpp`, the readers of `redis_writer.cpp` | detailed |
| `MC...` | constants of the instances | |
| `...Proofs` | theorems and their proofs | |
| `NatFacts` | lemmas about numbers, iteration and induction that the proofs share | |

Definitions marked *Faulty* are wrong variants of the one that follows, used to
see that a property can fail; no specification uses them.

### Scheduler

One step is one critical section of `mtx`, or the unlocked test of `running`
at `scheduler.cpp:46`. `runner` is where the scheduler thread is (`check`,
`lock`, `wait`, `waitUntil`, `launch`, `exited`), `owner` where the thread is
that calls `start`, `addTask` and `stop`. `NotifyAll` wakes a sleeping thread;
`SpuriousWake` wakes it for nothing; `RunTimeout` when `wakeAt` has come.
`taskToRun` is the loop's local copy of the chosen entry, which `stop()` and `addTask`
cannot reach: there is one exactly at `launch` (`TypeOK`), whatever happens to the list
between the unlock and the launch.
`executing` counts the detached threads of a task. `clock` is
`steady_clock::now()` in whole units, read inside the section that uses it.
`addedAt`, `fired` and `passed` are history.

### TradingEngine

One step is one access to shared state: a lookup with the test that follows it,
a status written, the map changed. `pc[t]` says where each thread is, `cur[t]`
the session it has a reference to, `todo` what the loop's iteration has still to
visit, `doomed` the cleanup's `sessions_to_remove`. A stop is three steps in
whichever thread calls it (`StopCheck`, `StopMark`, `StopDone`), a start up to
three (`StartCheck`, `StartMark`, `StartHealth`), a creation two (`Validate`,
`Insert`). A visit of the loop is the arbitrage run, the market making run
and the judgement of the limits, or an exception in between. `launched` and
`over` are history.

Abstractions: races *on the map object itself* (a rehash under an iteration, a
freed session written to) are undefined behaviour and only the outcomes in which
the process lives on are modelled: an operation on the map is atomic and a
write to an erased session is lost. `stats_` is written and never read, and left
out, as are logs and the read-only routes. A client's request is chosen at
`Init` and never changes, as in the code. Profits are small integers and `Gains`
what one arbitrage run may earn; market making earns 0 (`:91` of its file).
`stop_scheduler()` inside `shutdown` is a step of its own (`OwnerStopScheduler`), which nothing
obliges to come: `Scheduler` shows that it may hang (below). Only where the engine was never
started, and so no scheduler either, is it sure to return (`OwnerSkipsScheduler`). The liveness properties
that depend on it say so (`SchedulerStops`).
Workers take requests while `main()` serves; the engine is stopped when the server has
returned and its threads are joined, so that every handler that has begun has come to its end.

`SessionLifecycle` knows no threads: a session is there or not, and runs or not; a
client has asked for its start or not (`waiting`); one session at a time may earn
(`trading`). A session that is being started or stopped is one that is there and does not run.
It says what the program keeps although nothing is locked: a start is
answered once and begins at most one run; an execution begins only while its session runs, and
each one that reaches the target, or begins past it, takes a start of its own; a
session that is gone is not run, stopped or removed again; there are at most `Limit` of
them; and when the engine is over, nothing is waited for, runs or earns. It also says what is
*not* kept, by what it allows: a session in the course of an execution may be stopped and
started again under it and still earn, a running session may be removed
(`engine_removed`), and `Limit` is `max_sessions_` plus the workers less one.

### OrderManager

The manager is single-threaded: at most one `call` is outstanding and an
operation over several orders is a `batch` that is taken in any order (the map
is unordered). An order is created on its own (`CreateOne`) or as one of the two
legs of an arbitrage or of a quote (`CreateTwo`), and cancelled or updated by the
manager's identifier (`One`) or by the exchange's (`OneById`, which takes any order
that has it, on whatever exchange). `wire` holds requests on their way, also those whose caller has
given up; the gateway's answer reaches the manager (`Answered`) only while it
still waits, otherwise the client's time limit ends the call (`TimedOut`). The
exchange accepts, refuses, fills, cancels, and reports; a request may be lost
(`Lose`). `Report` may give an older quantity than the exchange has by the time
the answer arrives. `Uninit` is what `filled` may hold when the answer has no
such field and `OrderStatusResult` is left uninitialised.

Abstractions: prices, balances and profits are left out; identifiers are fresh
(`generate_order_id` draws one of 90000 numbers within a second, and a clash would
replace the earlier order); an exchange says `closed` only of an order that is filled completely, and
uses the statuses the code knows.

### DataSync

A record is a version of its key: `db[k]` is the newest row, `redis[k]` what
Redis has, 0 nothing. A sync goes through `count` (`sync_once:115-116`), `raw`,
`writeRaw`, `stats`, `writeStats`, `update`; each entry of a pipeline is
written, refused, or lost with the connection on its own. `batch[s]` is what it
has read and not yet written. `bad` are keys whose newest row does not parse;
`dbUp` and `refusing` say whether queries succeed and whether Redis answers
writes with errors; `redisUp` is `context_->err == 0`, which nothing restores.
`start` and `disturbed` are history: where the database was at the launch of a
sync, and which running syncs another sync, a failed query or an expiry has
interfered with.

Abstractions: a call on a shared connection is one step (the libraries do not
allow two threads on one connection; that corruption is not modelled); the two
reads that count are one step, because they change nothing but whether the
process lives; a database connection that fails may come back (libpq's would
not, which is the case that `dbUp` stays false); a key expires only while
writes are impossible, since it is renewed every five seconds and lives an
hour. `stats_`, `set_redis_expire_time`, reconnection and the writers of single
records, which have no caller, are left out.

### HttpServer

One step is one handler, as each `io_context` is run by one thread: `RunStart`,
`RunRead` and `RunTick` take the head of the worker's `queue`. `Accept` is the
handler of the accepting thread; `Send`, `Hangup`, `ReadCompletes` and `Tick` are
the client, the kernel and the clock, which post handlers. `timer[w]` is the
worker's `task_timer`, `conn[c]` the flags of a connection and what its client was
sent (`out`), `task_id[c]` the deadline it would cancel. A closed socket whose
handlers are gone is a freed connection. What a client sends is a whole request,
part of one, or bad input: what the parser makes of octets is in `HttpExchange`.

Abstractions: a tick of the timer is a tick of the clock and a deadline that is
due exactly at a tick may or may not be past (`MayRun`, `MustRun`); an answer is
written in one step. A write that blocks because its client does not read is a worker that
takes no step any more: no step of a worker, its end after `stop` included (`WorkerEnds`), is
obliged to come, and no liveness is claimed. `stop` may come at any time, after
`run` has begun. `remote_endpoint()` throws when the peer has reset the connection; the
exception leaves `io_context::run`, which the worker catches and goes on from.

### HttpParser, Router, JsonText, Json, QueryString, FileName, HttpExchange, HttpRequests

A text is a sequence of *pieces*. A piece is a symbol, a digit, or a run of
letters that the code reads without a choice on the way; a piece has length 1, and
where the code reads a word letter by letter and may leave it in the middle, the
word has several (`"con"`, `"tent-length"`). `HttpExchange` has one action, `Read`:
the parser takes the next piece, which may or may not be the last that the read of
the socket has brought (`last`), and its callbacks run: `OnUrl` routes, `OnHeaders`
may answer 100, `OnMessage` runs the handler, with what the engine says (`Answers`)
chosen freely. `input` is the text and `at` how much of it was read; `parser`, `connection`
and `route` are the records that C++ keeps in the connection; `log` is, for each
request that was answered, what the server made of it. What Crow is given by its
application is left open there, as operators that are constants: `RouteOf` (the trees),
`Respond` (the handlers), `ServesFiles` and `AlsoGiven`. `HttpRequests` has the server's own
(`HandleInitial`, `Reply`, `IsStatic`, `Beside`, which the .cfg puts in their places) and
`script`, what the client meant, which never changes; most properties compare `log` with it.
The tree of the router is built as the code builds it and searched as
the code searches it; the reference is that the first rule declared wins
(`Declared`, `Bindings`). The reference of `Json` is its grammar (`IsJson`).
In `JsonText` a loop is a function of the number of its rounds, which can be reasoned about;
`NUL` stands for the control characters that have no short escape.

Abstractions: numbers keep their text, `max_header_size`, `CROW_ULLONG_MAX`, `max_depth`,
`MAX_KEY_VALUE_PAIRS_COUNT` and the 255 octets of a file name are constants that are
small here; methods, parameters and words are those that the rules and the
properties tell apart. `SplitUrls = FALSE` excludes a read that ends within a URL,
which the code does not survive (below). The server's own code calls none of the
getters of `query_string`; they are evaluated on what the parser stored.

### Strategies

One step executes one session of a round of the loop (`Execute`, `ArbitrageThrows`),
writes a record (`SyncStats`, `SyncMarket`), begins a round (`NextRound`, which also
lets the records age) or breaks the connection. Doubles are exact integers: a
profit is in units of `1 / (10000 * Scale)` dollar, where `Scale` is divisible by
every price to buy at, so that nothing is lost to a remainder; `Floor` and `Ceiling`
are those of `calculate_quotes`. Start, stop and removal of sessions are in
`TradingEngine`; the writer's failures are in `DataSync`. `repeats` is history.

## 3. What is checked

| run | instance | what it shows |
|---|---|---|
| `scheduler` | 2 entries, intervals 1 and 2, 4 instants | `RateBound`: an entry is chosen no more than once per interval since it was added, whatever wakes the thread. `PassedAtMostOnce`: no entry is chosen twice while another is due. `StopDisarms`: nothing is chosen after the critical section of `stop()`. `DueTaskFires`: a due entry is started or dropped. `ImplementsTimer`: refinement of `PeriodicTimer`, its fairness included |
| `scheduler_stop_returns` | same, 2 instants | **violated**: `stop()` between the test of `running` and the lock notifies nobody and joins a thread that then waits for ever |
| `engine` | 3 sessions, limit 1, 2 workers | `SessionLimit`: the map exceeds `max_sessions_` by at most the workers less one. `LoopNeverDangles`: the loop holds only sessions that are in the map |
| `engine_live` | 1 session, 2 starts, 4 kinds of request, 2 workers | Under fairness: `NoLimbo`: no start or stop is left half-way. `ShutdownCompletes`: the loop leaves and is joined, wherever the shutdown meets it, and where `stop_scheduler()` returns so does `shutdown()`. Where it returns, too: `ErrorIsCleared`, `TakeProfitStops`. `ImplementsLifecycle`: refinement of `SessionLifecycle`; in particular a session that has reached its take-profit amount is executed no more often than it was started |
| `engine_removed` | 1 session, 2 workers | **violated**: a session started between the cleanup's test and its erase is removed while it runs |
| `order` | 2 orders of quantity 2, 2 exchange identifiers | `PlacedOnce`, `NeverAhead`, `ImplementsLifecycle` (refinement of `OrderLifecycle`), `OperationsEnd` |
| `sync` | 2 overlapping syncs, 1 raw key with up to 2 rows, 1 statistic | `Delivered`: an undisturbed sync that reports success has brought Redis to where the database was. `NeverBack`: Redis goes back only by a disturbed sync. `Fresh`: Redis equals the database in the end |
| `http` | 2 connections, 1 accepting thread and 1 worker, 2 units of input of 4 kinds, deadlines of 1 tick, 1 failing accept, resets | `OneDeadline`: an armed deadline is the latest of its connection, though identifiers are reused. `DeadlineKept`: a connection that waits for its client without a deadline has lost it to the end of another connection of its worker, and to nothing else. `NoRequestUnanswered`: a connection that waits for its client has answered each complete request. `ClosedIsFreed`: nothing holds a closed connection once its handlers have run. `SomeoneReads`: an open connection is being read, or about to be |
| `http_deadline` | same | **violated** (`WaitingHasDeadline`): the identifiers of the deadlines start again at 1 after a deadline has closed the only connection, another connection is given 1, and the aborted read of the closed one cancels it |
| `requests` | 4339 scripts of one or two requests: framings, folded and long headers, versions, methods, upgrade, keep-alive, bodies of JSON, queries, file names; 9 URLs against some 700 tables of 3 rules | `Framing`: the server sees the requests that were sent, with their fields and bodies, or rejects what is to be rejected. `KeptOpen`: it closes only for a reason, among which is a header that would be within the limit but for what the last chunk of the request before has left of it; nothing else of an earlier request counts. `Routed`: the first rule that matches, with its parameters. `GivenAsSent`: the parameters of a query and the path of a file arrive as they were meant. `AnswersInOrder`: one answer for each, in order, with its handler's status and the length it announces, and at most one interim answer (100) before it. `JsonBothWays`: JSON is told from what is none, and replies read back as what the engine said |
| `requests_split` | 1 request, `SplitUrls` | **violated** (`Routed`): a URL that arrives in two reads is routed at the first |
| `strategies` | 3 sessions, 3 opportunities, 2 markets, records that live 2 rounds | `Earned`: what is booked is worth the client's target, and a stop-loss never stops a session that has a limit. `StaleOnlyUntilExpiry`: a record is booked at most as many rounds as it lives. `ProfitIsTaken`: an opportunity that stays ends in a take-profit. Quotes never meet or cross (in `TypeOK`) |

Every passing run also checks its module's type invariant, except
`engine_live`, whose module `engine` covers.

**Why the bounds are enough to be interesting.** Intervals 1 and 2 over four
instants let both entries be due at once, one overtake the other, and each be
added while the thread sleeps for the other; a third entry adds no new relation,
as every property relates two. Three sessions with a limit of one let two
workers pass the test together (two sessions) with a third one refused; one
session with two starts is what stop–restart races need, and they involve one
session only, as sessions share nothing but the loop. Two hours are what the
cleanup's comparison needs. A quantity of 2 is the least with a partial fill;
two orders are the least for a batch with something left while one is worked
on. One key with two versions and two syncs are the least for an overtaking;
the second key is the one that is in the other half of `sync_once` and may be
bad. Two connections on one worker share its queue, its timer and its identifiers, which
is all that connections share; a deadline of one tick is the least that is
sometimes due and sometimes not. A script has two requests because the second shows
what the first leaves in the parser and in the connection; headers of 64 pieces,
lengths up to 75, JSON of depth 3, 4 parameters and names of 6 pieces are the least
with scripts on both sides of each limit; 24 scripts have a second header
that is at the limit, one piece beyond it, and on both sides of what the end of the first leaves of it. Records of 2 rounds can expire, be renewed
or be used twice; the three opportunities pay for both, one and no session; a market record
may lack its prices, which are then read as 0. Sessions and workers are symmetric where a run says so, never in a
run with a liveness property. Bounds on counters (`MaxClock`, `MaxProfit`,
`MaxStarts`, `MaxHours`, `MaxVersion`) are guards of the actions that would pass
them.

**Deadlock** is checked in every run but those of `HttpServer` and `HttpRequests`: a
server that was stopped has nothing left to do, and a script comes to its end. In the
others, where the system may end (`Terminated`), it stutters explicitly.

**Fairness.** The scheduler thread and a join that can return are scheduled by
the operating system; nobody has to call anything, time may stop, a task may
run for ever. The loop, a handler that has begun and `main()` outside of its
waits go on; no client has to send a request and `Hour` need not come. A call
of `OrderManager` ends because the HTTP client has a time limit
(`ccxt_client.cpp:59`, `:107`). A sync's next step comes because queries
and writes end, with an answer or an error, and the scheduler goes on launching
(`DueTaskFires`); `Fresh` asks, in its premise, that the connection lasts and that
both stores serve for good from some time on.

The call of `stop_scheduler()` in the shutdown has no fairness, nor has any step of
`HttpServer`, whose workers may block for ever in a write. In `Strategies` the loop goes round (`WF` of `Round`); the writer need not
write.

**Mutants.** Each property of each passing run comes with a faulty variant of a
definition that breaks it: a dropped test, an off-by-one, a missing
notification, a swapped order.

## 4. What the code does not do

Shown by a run: a lost wake-up makes `stop()` hang, and the shutdown of the engine with it; a running
session is removed; a URL that arrives in two reads is answered with 404; a client that says
nothing may be waited for without a time-out.

Read off the code while modelling, with no run of their own:

* A row with a NULL ends the process: `sync_once` reads both tables outside of any `try`
  (`data_sync_service.cpp:115`), and `stoi` and `stod` throw on the detached thread. The model has the
  crash (`alive`); nothing is promised after it.
* After a chunked request a header that is just within the limit is refused, because the end of
  the trailer (`http_parser_merged.h:1586`) does not set `nread` back. The exception is named in
  `KeptOpen` (`Overfull`), and scripts on both sides of it are run.
* Tasks run on detached threads that outlive `Scheduler::stop()`
  (`scheduler.cpp:75`).
* A stop that meets STARTING does nothing and is answered "Session stopped"
  (`trading_engine_manager.cpp:279`).
* A submission whose answer is lost or late leaves an order FAILED that the exchange
  may trade (`order_manager.cpp:117`).
* `filled` is indeterminate when the gateway's answer has no such field
  (`ccxt_client.cpp:317`); with `Uninit` not empty `NeverAhead` fails.
* `max_sessions_` is tested without a lock (`trading_engine_manager.cpp:113`);
  `SessionLimit` is the bound that does hold.
* `get_active_sessions` lists every session, whatever its status.
* Hours are truncated before the comparison (`:546`): cleanup comes after two
  hours, not one.
* The destructor of `OrderManager` cancels expired orders only, where its comment
  says all active ones.
* A second submission of a FAILED order is refused with the words "already
  submitted".
* An exchange's order identifier is looked up without the exchange.
* A cancelled order keeps the filled quantity of its last update
  (`order_manager.cpp:199`): too small, never too large (`NeverAhead`).
* A strategy books the profit of the record in Redis at each run, without
  looking at its time.

* The stop-loss can stop only a session whose limit is zero or negative: no strategy
  books a loss (`Earned`). A target above 40000 basis points makes a negative bid, and a
  market below a cent is quoted 0.00 / 0.01. A market record without prices gives the quote
  0.00 / 0.00 (`redis_writer.cpp:233` takes 0 for a field that is missing).
* `exists_*`, `get_all_*`, `get_ttl` and `clear` of `RedisWriter` have no caller, and
  `clear` gives a pattern to `DEL`; a record that does not parse leaks its reply
  (`redis_writer.cpp:340`).
* HTTP: after HEAD without Host `skip_body` stays set for the answers that follow, because
  only `response::end` resets it (`http_response.h:242`) and the answer 400 does not go through
  it; HEAD for a file is answered with the file; and of HEAD that ends in an error
  `response::end` drops the body, but `prepare_buffers` puts the text of the status in its
  place (`http_connection.h:345`), under the length that was announced before. The three are
  the exceptions of `AnswersInOrder`, each of which lets a client mistake where an answer ends. A request for another protocol
  gets no answer. What follows a request that closes the connection, in the same
  read, is still answered. OPTIONS closes the connection. A field with an empty value is
  dropped unless it is the last; "Host" with an empty value passes for a Host there
  (`http_connection.h:155` counts the fields). "keep-alive, close" counts as neither. A client that
  does not read what it is sent holds its worker in `asio::write` (`http_connection.h:441`, `:549`),
  and with it the worker's other connections, and `run()` after `stop()`.
  `task_queue_length_pool_` counts connections that have ended.
* `query_string`: an "=" in a value and a code that is none end the value; `pop` leaves a
  parameter without a value where it is; the pops compare names without decoding them;
  `get_dict` takes every name that begins with the one it is asked for and ends at
  the first with its brackets the wrong way round.

## 5. What is proved

All theorems are about the safety part of a specification (`Safety`, of the parser `Fed`, of the
exchange `Serving`) and hold
for all values of the constants that satisfy the module's `ASSUME`. Each proof
starts with the type invariant and has one step per action.

* **SchedulerProofs**: `TypeCorrect`, from `NoThreadInv` (while the owner has no thread to join there is
  none in the loop); `RateCorrect` from `RateInv` (the next run
  of an entry is an interval beyond the runs already made, and at most one
  interval ahead of now — `RateBound` alone says nothing about `nextRun` and is
  not inductive); `NoOvertaking` from `PassedInv` (an entry chosen while `t` was
  due has been put off beyond `t`); `StopDisarmsCorrect` from `EntriesInv`
  (there are entries only between start and stop); `TimerSafety`, that every step
  is a step of `PeriodicTimer` or a stutter. `DueIsAttendedCorrect` is the safety half of
  `DueTaskFires`, from `AwakeInv` (what the thread knew when it went to sleep stays
  true while it sleeps): a due entry has a thread that is up or whose wait has run out.
* **TradingEngineProofs**: `TypeCorrect`; `LoopNeverDanglesCorrect` from
  `ControlInv` (the owner clears the map only when the loop has ended) and
  `HeldInv` (at each place of the loop, which of `todo`, `doomed` and `cur` may be
  occupied); `OvershootPaidCorrect` from `OverInv` (a running session past its
  amount that is not being visited has a start not yet paid for) and `StartedInv` (what runs, or
  is executed, was started);
  `SessionLimitCorrect` from `SeenInv` (a thread works only on sessions that were
  created, so nothing enters the map but by an insertion that was tested) and
  cardinality lemmas, for any finite number of workers. `SomeoneFinishesCorrect` is the
  safety half of `NoLimbo`: a session is STARTING or STOPPING only while some thread is
  between its two writes; it needs `ControlInv`, as `start_engine` moves two threads.
  `ImplementsLifecycleCorrect` takes all of these and `WorkersInv` (handlers run only while
  `main()` serves): `StopSeen`, `WorkerStepSeen`, `LoopStepSeen` and `OwnerStepSeen` say for each
  thread which abstract step, or none, a client sees of its steps. A status written late
  through a reference, after the session has changed again, is seen as a halt or not at all (`HaltSeen`).
  `ProfitBoundedCorrect` is proved of the abstract steps alone: profit is at most the target
  and one execution's earnings for each start. With a target of 0 that is
  attained, and with a positive one all but the last unit, where another start of the
  session overlaps the loop's visit: no better bound holds of this code.
* **OrderManagerProofs**: `TypeCorrect` with `MarketInv`; `PlacedOnceCorrect` from
  `PlacedInv` (a submission on the wire is of an order not yet placed);
  `NeverAheadCorrect` and `ImplementsLifecycleCorrect`, where answers hold every
  quantity (`Uninit = {}`), from
  `AnswerInv`, `CallInv` and `LifeInv` (an answer on its way is no more than the exchange
  knows, and calls are about active orders).
* **DataSyncProofs**: `TypeCorrect`; `DeliveredCorrect` and `NeverBackCorrect` from
  one invariant: `RowsInv` (neither Redis nor a sync is ahead of the database,
  and what a sync holds is as new as the database was at its launch) and
  `SyncInv` (Redis is not ahead of what an undisturbed sync holds, and has what
  that sync has written). The versions, the keys and the syncs are unbounded.
* **StrategiesProofs**: `TypeCorrect`, in which the quotes never cross for any prices,
  spread and size of a cent (lemmas about `Floor`, `Ceiling` and integer division);
  `StaleCorrect` from `ExpiryInv` (the bookings so far and the rounds the record has left
  make its life, with one more for the round in which the session has had its turn);
  `EarnedCorrect` from `ProfitInv` and a lemma about `Gain`.
* **HttpServerProofs**: six properties from one invariant, for any number of connections,
  acceptors, workers and requests. `Posted`: a connection has at most one handler,
  in the queue of its worker, and then no read is pending; the callbacks of a connection
  take turns for no other reason. `Watched`: an open connection has one of the two, and
  has answered what it was asked. `DeadlinesOpen`: only an open socket has a deadline; with
  `OneDeadline` and `Types` (identifiers on a timer were given out by it) this gives `FreedCorrect`.
  `ClosedIsFreed` and `SomeoneReads` are not inductive without `Posted`: a second handler of
  a connection would find it closed, or would begin a second read. `DeadlineKeptCorrect` has the
  invariant `KeptInv`: while every connection of the worker is open, each of them that was started
  has its deadline (`StartDeadlineKeeps`: the identifier that is cancelled is then one's own, by
  `OneDeadline`). That the requests in one
  chunk are all answered (`FeedCorrect`) is an induction over the rounds of `Feed`, by `NatFacts`.
* **HttpTextProofs**: `CountersCorrect`, about a parser that is fed any pieces whatever, cut
  anywhere (`Fed`; each step of `HttpExchange` on its parser is one of these): `length` is
  never the sentinel where a body is read and never wraps around, and `nread` stops at
  the limit. `Counted`, which is in `HttpExchange!TypeOK`, is not inductive; `Sane` adds
  what each state knows of the flags, the error and the length.
  `ExchangeTypeCorrect` and `AnswersInOrderCorrect` are about `HttpExchange` as a whole, for every
  router, every handler, every text and every cut (also within a URL). The first has the
  invariant `Present`: while the connection is open the parser is in a state of a request, has no
  error and owes no callback. It rests on `ExecuteMoves`, which says for each piece which
  callbacks it calls and between which states (`Steps`): the URL before the headers, the
  headers before the message, and nothing of the next request before the message of this one.
  The second has the invariant `Tallies`. `AnswersInOrder` alone speaks of what was
  answered and not of the request that is being read; `Recalls` adds that behind the URL a rule is
  known and HEAD has set `skip_body`, that `skip_body` is set for no other reason than HEAD now or
  HEAD without Host earlier, and that when the last answer is an interim one the parser is in the body of
  the request it belongs to, so that the next answer is final. What a handler does to the
  connection is in `EndCorrect`, `RequestHandled` and `HeaderHandled`, what one more answer
  does to the counts in `AnswerRecorded`. The theorem asks that no handler gives the status 100
  (`StatusesFinal`), which is a promise of the application to Crow and not of Crow: of the handlers of this
  server TLC checks it in `JsonBothWays`.
  `SanitizeCorrect`:
  whatever the text, what `sanitize_filename` returns is harmless. Its invariant is
  `Clean`: what lies behind the position of the loop stays harmless although the text gets
  shorter under it, and `entry` says whether a name begins at the position.
  `QuotedReadsBack`: a string, whatever it holds and wherever it is put, is read back as it
  was. Each piece becomes a chunk that one round of `decode_string` passes and one round of
  `unescape` resolves (`EscapeOfCorrect`, `NextCorrect`, `UnescapeNextCorrect`), chunks stay
  where they were put (`ChunksStand`), and the rounds follow by induction (`SameRounds`).
  The pieces are any set that holds those of the escapes themselves (`Lettered`).
* **NatFacts**: least numbers, induction over a set of numbers and what it says of a
  function that is iterated. The induction theorems of the library take an operator, which
  the provers cannot instantiate; here the hypothesis is a set, which they can.

`AwakeInv`, `DueIsAttended`, `SomeoneFinishes`, `OverInv`, `BoundInv` and `ProfitBounded`, the inductive invariants of `HttpServer` and
`Strategies`, and the conjuncts of `Present` and `Tallies` were also evaluated by TLC on the instances
of §3 before they were proved.

Only model-checked: every liveness property and the fairness half of `ImplementsTimer`
(liveness under fairness and ENABLED are beyond the prover); and of `HttpRequests`

* `Framing` and `KeptOpen`, which compare what the parser makes of a whole text with the request that
  the text was made from: an induction over that text and over all ways to write it, with
  the chunks of a body (`Chunks`, recursive);
* `Routed` and `GivenAsSent`, about `Router` and `QueryString`, and the rest of `JsonBothWays`, about
  `Json`: recursive operators over trees and texts, which the prover cannot see through.
  `SanitizeCorrect` is the part of `GivenAsSent` that is about file names, `QuotedReadsBack` the
  part of `JsonBothWays` that is about strings.

## 6. What is not modelled

`stats_` of the engine and of the sync (never read by other code), logs and
wording, the rounding of doubles, balances, `get_session_profit` and
`get_session_trades`, `main.cpp`, memory corruption by data races. Of Crow: websockets,
mustache, multipart, middleware, cookies, CORS, sessions and compression, which the
server does not use; blueprints and catch-all rules, of which it has none; the
formatting of numbers and indentation of JSON; the rest of `utility.h`; logging and
settings. `nlohmann/json`, Asio, hiredis, libpq and libcurl are external.

## 7. Plan

Order of work, most important behaviour first. Done: 1–7 and 10.

1. `PeriodicTimer`, `Scheduler`, proofs.
2. `TradingEngine`, proofs.
3. `OrderLifecycle`, `OrderManager`, proofs.
4. `DataSync`, proofs.
5. `Strategies`.
6. The HTTP server: `TaskTimer`, `HttpConnection`, `HttpServer`; `HttpParser`, `Router`,
   `JsonText`, `Json`, `QueryString`, `FileName`, composed in `HttpExchange` and `HttpRequests`.
7. Proofs for them, where nothing is recursive, and the safety halves of `DueTaskFires` and
   `NoLimbo`.
8. `DataSync` launched by `PeriodicTimer` instead of its own `Launch`: what an
   interval and the length of a sync say about how many overlap. Then `Scheduler` in
   the place of the timer, by the refinement already proved.
9. The engine over `DataSync` and `Strategies`: what profit a session may book from one
   record while the writer fails.
10. `SessionLifecycle`, which `TradingEngine` implements, proved, and the bound on the
   profit of a session that follows from it.
11. `Router`, `Json` and `QueryString` with recursive functions in the place of recursive
   operators, as far as TLC evaluates them as fast, as `JsonText` already is: then that a
   rule's first match is what the search of its tree finds, and that a parameter of a query
   is decoded once, are within reach of `NatFacts`.
