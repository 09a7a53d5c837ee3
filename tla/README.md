# TLA+ models of the trading engine

TLA+ modules, TLC configurations and TLAPS proofs for the order-book-imbalance
trading engine in `src/`: a program that reads Coinbase market data from a
WebSocket, keeps an order book, and trades against simulated fills.

Run a model with `tlc -config <cfg> <module>` and a proof with
`tlapm <module>_proofs.tla`. `PROJECT.json` lists components, runs, the source
lines of each definition, hazards, findings and theorems.

## 1. The system

Three threads:

* the **main thread** (`main.cpp`) loads the configuration, calls
  `Runtime::start()`, prints a heartbeat, calls `Runtime::stop()`;
* the **network thread** (`CoinbaseWSClient::run`) dials, subscribes, reads and
  parses messages and hands them to `Runtime::onCoinbaseMessage`, which turns
  them into `MarketEvent`s in a lock-free queue; on a second or later connection
  it first sets the flag `bookInvalidate_`;
* the **strategy thread** (`Runtime::strategyLoop`) tests the flag, pops an event,
  updates the book, runs the strategy, and takes the resulting order through
  circuit breaker, risk check, simulated fill and bookkeeping.

A fourth, the **drainer** of the logger, prints what the others log.

| Component | State | Operations | Talks to | What makes it correct |
|---|---|---|---|---|
| SPSC queue | `head_`, `tail_`, slots | `try_push`, `try_pop` | network and strategy thread, atomics only | FIFO, no element lost, torn or duplicated; no race |
| Order book | two ladders, bit index with summary, best slots, window | `clear`, `seedReference`, `update`, `topOfBook`, `depth` | strategy thread | index = ladder = market, also after rebases |
| Runtime | `started_`, `running_`, `bookInvalidate_`, `bookReady_`, queue, counters | `start`, `stop`, `onCoinbaseMessage`, `strategyLoop`, `processEvent` | all threads | nothing lost uncounted, no mixing of connections, clean stop |
| WebSocket client | `running_`, `hasConnectedOnce_`, back-off, `lastSeen` | `start`, `stop`, `run` | callbacks into Runtime | reconnect announced before its data, dials paced, silence detected, prompt stop |
| Message parser | none between messages | `parse` | network thread | malformed entries skipped, nothing else lost |
| Strategy | smoothing ring, `skip_next_signal_`, last trade, PnL | `onMarketUpdate`, `onFill`, `onReconnect` | book, sizer | one position at a time, no stale smoothing |
| Sizer, engine | none | `computeOrder`, `simulate` | book | what is sized is what is filled |
| Risk manager, PnL tracker | position, cash; average entry, realized | `approve`, `onFill` | `dispatchOrder` | limits hold, ledgers agree and balance |
| Circuit breaker | `msgs_`, `errors_`, `tripped_` | `recordMessage`, `recordError`, `isTripped` | `processEvent`, `dispatchOrder` | trips and resets as documented |
| Logger | ring of records, `head_`, `tail_`, `running_` | `log`, `drainLoop`, `stop` | every thread | whole records in order, drops only when full |
| Latency histogram | cells, count, maximum | `recordNs`, `percentileNs`, `dump` | written by one thread, dumped by the main thread | documented accuracy, a dump agrees with itself |
| Main program | `g_running` | report loop, final report | reads what the strategy thread publishes | the final report balances |
| Authentication, configuration file, clock, affinity, error and result | see section 8 | | | |

Hard to test here: the orders in which threads take their steps (queue cursors,
the reconnect flag against queued events, stop against a full queue, logger
producers against the drainer, a dump against the recording thread); limits (full
queue, full ring, cut snapshot, chunk and window edges, counter wrap-around); time
(dead-man timer, back-off, stop in any of them); and long legal sequences (rebases,
partial closes, breaker windows).

## 2. Modules

| Module | Models | State and actions |
|---|---|---|
| `BoundedFifo` | the promise of the queue | a sequence of at most `Capacity` items; `Put`, `Get` |
| `SPSCQueue` | `util/spsc_queue.hpp` | one action per atomic access; each thread has a possibly stale copy of the other's cursor; counters modulo `Modulus` |
| `BoundedBook` | `md/bounded_book.hpp` | the book is a record, each method an operator on it; `Clear`, `SeedReference`, `Update` with the recentering it triggers; `market` is the reference: all levels since the last clear |
| `BookFeed` | `md/coinbase_parser.cpp`, message handling of `core/runtime.cpp` | extends `BoundedBook`: `Snapshot` and `L2Update` take a message from its JSON entries through parser, rounding, cutting and chunking into the book; any chunk may be lost. `market` is the exchange's own book. `MCBookFeed` gives it messages |
| `WSClient` | the clock of `md/coinbase_ws_client.cpp` | one action per step of `run()` and per thing the peer may do; `Tick` passes time while the thread is blocked |
| `HdrHistogram` | `util/hdr_histogram.hpp` | operators only: cell of a value, value of a cell, percentile |
| `Reporting` | report loop of `main.cpp`, `publishPnl`, the marks, `pnlUnrealized` | strategy thread records and publishes; the main thread's relaxed loads return any value since the one it last saw. `MCReporting` gives it durations |
| `Runtime` | `core/runtime.cpp`, control of `md/coinbase_ws_client.cpp` | program counters of the three threads; one action per shared access. Events carry their kind and connection number |
| `CircuitBreaker` | `exec/circuit_breaker.hpp` | one step per event with what became of its order |
| `Logger` | `core/logger.cpp` | one action per atomic access of `log`, `drainLoop`, `stop` |
| `Execution` | sizer, engine, risk manager, PnL tracker | operators only; a walk over levels is a recursive function of the levels passed |
| `Trading` | `strategy/imbalance_strategy.cpp`, `Runtime::dispatchOrder` | one step per event: strategy, breaker (`INSTANCE CircuitBreaker`), risk, fill, both ledgers. `MCTrading` gives it books |

Composition: `Runtime` uses the queue as the bounded FIFO that `SPSCQueue` is
proved to implement; `Trading` uses the operators of `Execution` and of
`CircuitBreaker`, and takes the book of an event as an input of the shape that
`BoundedBook` shows `depth()` to return. `BookFeed` composes parser, event building and
book; that `bookReady_` is reset on a reconnect is in `Runtime`, and what the exchange
says while the program is away counts in `BookFeed` as lost, until the snapshot.
`WSClient` and `Runtime` model the same `run()`: one with time and without the other
threads, the other the reverse. `Reporting` uses `Execution`'s `PnlOnFill`.

Operators marked `Mutant` in the modules are plausible wrong versions of the
definition that follows them. None is used by a specification; with one put in
place of its original, the property named in `PROJECT.json` must fail.

Abstractions of data: prices are ticks, quantities whole lots, so money is an
integer and the tolerance 1e-12 is 0. (The PnL tracker takes a rest of at most 1e-12 for
no position, `pnl_tracker.hpp:52`, and the risk manager does not; with whole lots there is
no such rest.) A ratio is compared by cross-multiplication.
Imbalances are parts of `Scale` and the books of `MCTrading` have imbalances that
are exact in those parts. `trade_fraction * cash / mid` is rounded down to a lot.
An average entry price is an exact integer because a position is opened by one fill
(property `OnePosition`). Clock time in `Trading` is the time since the last order, up
to the cooldown. In `BookFeed` a JSON item is a number, another string or no string, and a
feed price is a count of `Parts` of a tick that may fall short of the tick by one part, as
a quotient of doubles may. Time in `WSClient` is discrete.

## 3. Runs

| Run | Module, cfg | Shows |
|---|---|---|
| `spsc_queue` | SPSCQueue, MCSPSCQueue | no data race, cursors in order, refinement of `BoundedFifo`, delivery |
| `bounded_book` | MCBookFeed, MCBookFeed | from JSON entries to the book: index and ladder agree, no phantom levels, the book is complete inside a window that has not moved and `depth()` is the exchange's, a snapshot is anchored on its mid, a rebase keeps what stays inside, recentering keeps a touch that does not span the window |
| `book_touch` | BoundedBook, MCBoundedBookTouch | the book of a market that is never crossed; violation, finding 3 |
| `runtime` | Runtime, MCRuntime | accounting, drained stop, prompt invalidation, no return to an older connection, first connection in sync, `stop()` returns, a queued snapshot reaches the book |
| `runtime_drops` | Runtime, MCRuntimeDrops | violation, finding 1 |
| `runtime_applied` | Runtime, MCRuntimeApplied | violation, finding 2 |
| `circuit_breaker` | CircuitBreaker, MCCircuitBreaker | trips exactly when the history says so, halts for one to two windows |
| `logger` | Logger, MCLogger | whole records in order, exclusive records, everything printed, `stop()` returns |
| `logger_drop` | Logger, MCLoggerDrop | violation, finding 4 |
| `ws_client` | WSClient, MCWSClient | dials at least the documented pause apart, silence ends a connection, also under garbage and partial messages, `stop()` is prompt outside a dial, the client always dials again |
| `reporting` | MCReporting, MCReporting | no percentile of a dump is above the maximum the dump prints, final percentiles within half a cell of the exact ones, the final PnL line balances |
| `trading` | MCTrading, MCTrading | ledgers agree and balance, limits, whole fills, long exits never rejected, one position, smoothing only of what came since the reconnect |

The type invariants of the queue, the runtime and the breaker are proved (section 6) and
not run.

### Findings

1. **The reconnect flag can invalidate the snapshot it announces**
   (`runtime.cpp:126`). Between the flag's test and the pop, the network thread can
   reconnect, set the flag and push the new snapshot. The snapshot is processed, then
   the flag un-readies the fresh book; all further updates of the connection are dropped.
2. **An update can meet another connection's book** (`runtime.cpp:172`). `bookReady_`
   does not know which connection made the book ready. What does hold, and is proved, is
   that the book never goes *back* to an older connection.
3. **Recentering can drop the best ask** (`bounded_book.hpp:172`), if best bid and best
   ask are in the first and last slot: the mid rounds down by one. The trace: bids in
   slots 1 and 0 and an ask in the last slot, around which the window stands; when the
   bid in slot 1 is removed, the window moves one tick down and the ask falls out.
4. **The logger can drop with room in the ring** (`logger.cpp:37`): `head - tail` wraps
   when the copy of `head_` is older than `tail_`.

## 4. Bounds

* SPSCQueue: 4 slots, counters modulo 8, two values: slots and counters wrap many
  times, and stale views of every age occur. No bound on the length of a run.
* BookFeed: 8 slots in words of 2 bits (recenter margin 1), prices 0..9 without 2 and 7
  (outside the window on both sides), at most 3 live levels and 2 rebases: words with one
  and two bits, both edges, both directions of a shift. Snapshots of 2 levels a side and
  events of 2 changes, so that snapshots are cut and updates have one, two or no changes
  in their last chunk; messages with malformed entries before good ones; two levels
  at a time may be unknown to the program (`MaxUntold`), so that a chunk of two changes can
  be lost. The exchange's book is never crossed
  and its snapshot lists the best levels first. `book_touch` uses `BoundedBook` alone,
  for a market that is never crossed (`UncrossedSpec`), with all prices 0..9, three levels
  and two rebases.
* WSClient: heartbeat timeout 9, back-off 3, 6, 12, 20 (doubled three times, then capped),
  slices of 2, read limit 4, messages of up to 3 pieces, callback of at most 1: the timer
  runs out in, between and just after reads; a slice does not divide the back-off. The
  code has no bound on the pieces; `SilenceEnds` and `StopPrompt` are stated in terms of
  `MaxPieces`.
* Reporting: one bit of sub-buckets and values of 4 bits: cells of width 1, 2 and 4. Three
  events, durations -1, 6, 8 and 13 (8 is the first value of a wider cell), two prices, one- and two-sided books.
* Runtime: queue of 2, one retry of a snapshot, two starts, two connections with two
  messages each, updates of up to two chunks: full queue, lost snapshot, old events behind a
  reconnect, restart.
* CircuitBreaker: threshold 2, windows of 3, 10 events: three window ends.
* Logger: two producers, ring of 2, four positions: two laps. `Modulus` only needs to be
  larger than every difference.
* Trading: smoothing of 2, twelve books (tight, wide, crossed, one-sided, thin, two-level,
  up, down, far up), 7 events, threshold 2 in windows of 3: entries both ways, partial and
  whole exits with profit and loss, rejections by position and by cash, blocked orders.

## 5. Fairness

* SPSCQueue: the consumer's steps. The strategy thread polls for ever, and a release store
  becomes visible in finite time.
* Runtime: the threads' own steps and the joins of `stop()`. Nothing of the feed: it may
  be silent or refuse connections, and a dial may block (no limit is set before the read
  loop). So `StopReturns` excepts a network thread in the dial. A read is taken
  to return after one second (`SO_RCVTIMEO`), which is why the read loop's test of
  `running_` is fair; see below.
* WSClient: the thread's own steps, and time. Nothing of the peer: a dial may block, a
  connection may stay silent or send pieces for as long as the bound allows.
* **Unverified: `SO_RCVTIMEO` ends a blocking read.** `WSClient` and `Runtime` take this from
  the comment at `coinbase_ws_client.cpp:114`. It depends on Boost.Asio, which is outside the
  repository: its synchronous read may answer the time-out of the socket (`EAGAIN`) by
  waiting for data again, without a limit. Then `ws.read()` would not return on a silent
  connection, the dead-man timer and `running_` would not be looked at, and `StopReturns`
  (of `Runtime`), `SilenceEnds`, `StopPrompt` and `Redials` would not hold for a peer that
  keeps the connection open and sends nothing. For a peer that sends whole messages or closes
  they do not depend on the limit. A test against a silent server would settle it.
* Logger: a thread inside `log()`, the drainer, and the join. No thread has to log and
  nobody has to call `stop()`.

## 6. Proofs

All theorems are for every value of the constants that the named assumptions allow, so
also for runs longer than any bound of section 4. `PROJECT.json` lists them.

| Module | Theorems | Inductive invariant and argument |
|---|---|---|
| `SPSCQueue_proofs` | `TypeCorrect`, `CursorsOrdered`, `RaceFreedom`, `RingIsFifo` | `CursorOrder` with `TypeOK`, by lemmas on how a distance modulo `Modulus` changes when an end moves. Positions less than a capacity apart have different slots, hence no race. With `PendingValue` (a copied but unpublished value is in its slot) every step is a step of `BoundedFifo` or a stutter under the mapping `Contents` |
| `Runtime_proofs` | `TypeCorrect`, `NothingUncounted`, `StopLeavesNothing`, `InvalidationPrompt`, `BookNeverGoesBack`, `FirstInSync` | `NetShape`: which steps of the network thread have an event in hand. `Lifecycle`: the network thread is off before the loop is told to end. `LateBound`: nothing is late when the loop is about to pop. `ConnOrder`: the connections of book, queue and network thread are in order. `FirstReady`: until the second connection the flag is not set and the book is ready exactly when it has a connection |
| `CircuitBreaker_proofs` | `TypeCorrect`, `HaltBounded`, `TripsExactly` | `HaltAge` ties the age of a trip and the error count to the position in the window. `CountsWindow`: the error count is the number of rejections of the window in the history; lemmas say how the positions counted change when the history grows and when a window closes |
| `Trading_proofs` | `TypeCorrect`, `LedgersAgree`, `MoneyKept`, `LimitsHold`, `OrdersFilledWhole`, `LongExitsPass`, `RingSmoothsRecent`, `OneAtATime` | types, the three ledger properties and the ring's shape together. An order of the strategy opens a position or reduces it (`Reduces`); on the book it was sized from it fills whole, because sizer and engine take the same lots of every level (`Sized`, `Filled`), and a fill that opens or reduces keeps the money |
| `Logger_proofs` | `TypeCorrect`, `NoSharedRecord`, `PrintsClaimed` | `CountersOrdered` (released, printed, seen, claimed, at most a ring apart), `StampsClaimed`, `WritersOwn` (a producer inside a record has a position no one else has, not stamped yet), `StampedComplete`, `PrintedPrefix` |
| `WSClient_proofs` | `TypeCorrect`, `SilenceIsEnded`, `StopIsPrompt`, `DialsArePaced` | for every place where the thread can be, the time it has been silent, stopped or waiting plus the limit of the call it is in stays below what the place allows (`SilenceInv`, `StopInv`, `PauseInv`) |
| `Reporting_proofs` | `DumpsBelowMax`, `ReportsBalance` | what is already printed of a dump is at most the last `max_` seen, which never falls; a percentile is at most that maximum for every combination of stale counts. The ledger balances, it is published as it is, and there is no position before both marks are set |
| `BookFeed_proofs` | of the book under any caller: `TypeCorrect`, `IndexNeverDisagrees`, `NarrowTouchKept`, `NoPhantoms`; of the book under the feed: `FeedIndexNeverDisagrees`, `FeedNarrowTouchKept`, `FeedHasNoPhantoms` | every method takes a book of `GoodBooks` (typed, index equal to the ladders) to one: two-level search, `clearBit` with its summary, rebuild after a rebase. `Holds`: a live level is the market's at its price, except in a set of open levels; `update()` closes its own level, also outside of the window and when the window moves. For the feed (`FeedInv`, open levels = `untold`): the parser takes exactly the well-formed entries and the rounding gives back their ticks (`Relayed`, `SnapshotParsed`), the chunks of an l2update are consecutive and end with it (`SentFacts`, `ChunkFacts`), a change that arrives closes its level and one that is lost opens it (`ReachedFaithful`, `LostFaithful`), by induction over the changes of a chunk and over the chunks |

Assumptions. They are the `ASSUME`s of the modules and TLC evaluates them for the
constants of the runs. Most are ranges (a capacity is at least 2, a modulus is a multiple
of it, a timeout is a natural number). `BooksAssumption` of `Trading` says what the
module takes from the book: both sides are sequences of live levels, the best first.
`FeedAssumption` of `BookFeed` says what the feed is: a well-formed change is about one of
its sides, prices and quantities, and what is malformed has too few strings or numbers for
the parser to take it. (An entry that the parser takes and the exchange does not mean, such
as one with a number for the side, would be believed. So would a snapshot without a `bids`
or without an `asks` array, which the parser takes as an empty side,
`coinbase_parser.cpp:74` and `:95`: the model's snapshot always carries both sides.) The prices are finitely many.

Recursion. A walk over levels, entries or chunks and the doubling of the back-off are
recursive functions. That such a function exists, and what it is at 0 and at n + 1,
follows from induction on sets of naturals (lemmas `SetInduction` and those that follow
it); a property of all its values is then proved as "the set of the n that have it is all
of `Nat`".

Model-checked only:

* liveness (`Delivered`, `StopReturns`, `SnapshotReachesBook`, `EventuallyPrinted`,
  `Redials`) and what rests on it: out of this prover's reach;
* `PercentilesAccurate`: compares a percentile with an element of a sorted sequence; needs
  sums over all cells and facts about sorting, which are induction over data;
* `BookIsMarket`, `SnapshotAnchored`, `FeedWindowLevelsKept`: not attempted yet. The first
  compares two sorted sequences; the other two need that the window stays where it is while
  levels that are not better than the touch go in.

## 7. Plan

1. Done: queue, book, feed, runtime, WebSocket client, breaker, logger, trading core and
   report; the proofs above.
2. Proofs left: `SnapshotAnchored` and `FeedWindowLevelsKept`, then the part of
   `BookIsMarket` about single levels, from the lemmas on the walks of the feed.

## 8. Not modelled

* TLS, sockets, the JSON grammar (simdjson's) and the text of the subscription message: the
  outside world, or libraries.
* Request signing (`coinbase_auth.cpp`): one HMAC through OpenSSL, without state.
* Reading the configuration file; its checks are assumptions on constants.
* The heartbeat line of the report loop. Its reads of position, mark and average entry, and
  the stores of `publishPnl()`, are not one step each and may mix two fills; the line is only
  printed. In `Reporting` publishing is one step, which is exact for the final report alone:
  it is read after the strategy thread has been joined. The mean of the
  histogram, for the same reason: count and sum are read at different moments.
* The counters of `Metrics` other than the two drop counters.
* Clock, thread affinity, error and result types: wrappers without behaviour of their own.
* Rounding of doubles other than that of `Price::fromDouble`.
* `CircuitBreaker::reset` and `PnlTracker::unrealized` are called by tests only.
