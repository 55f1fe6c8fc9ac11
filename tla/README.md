# A verification of the Kalshi research platform

TLA+ models of the repository: how order books are kept from an unreliable feed,
recorded, and read back; how a backtest or a paper trader matches orders against
them and keeps its account; how the market makers quote and the detector finds,
sizes and follows arbitrage; how the collectors resume; and what forecasts and
reports may rest on. Each model is translated from the Python source; TLC checks
it on small instances and TLAPS proves the central theorems of the ledger, the
fill models, the engine, the market makers, the episode scanner, the live feed, its
recording, three of the collectors and the paper session for every value of the
constants. `PROJECT.json`
maps each definition to the lines it models.

    tlc -workers 2 -config MCEngine.cfg MCEngine      # one run
    tlapm PortfolioProofs.tla                         # one module of proofs

## 1. The system

The platform collects market data from the exchange (REST and WebSocket),
stores it in DuckDB, and replays or streams it through one engine to research
strategies. Prices are integer ticks, quantities integer centi-contracts, money
integer micro-dollars. All times are integer nanoseconds.

| Part (`src/`) | State | Operations | Interacts with |
|---|---|---|---|
| Order book `market/order_book.py` | bids per side: price to quantity | `apply_snapshot`, `apply_delta`, derived asks | everything that has books |
| Book stream `data/normalization/book_stream.py` | books, ticker to stream map, last sequence numbers, poisoned streams, stale tickers, resync flag | `on_connected`, `process` (snapshot or delta), `acknowledge_resync`, `book` | fed by the adapter and the recorder |
| WebSocket client `kalshi_client/websocket.py` | `_closed`, `_resync_reason`, reconnect count, socket | `stream` (an async generator), `close`, `request_resync` | called by `WsSource`, calls the exchange |
| Adapter and sources `paper/adapter.py`, `paper/sources.py` | connected, last frame time, incidents; polled books and a filter of trades seen | `on_stream_event`, `tick`, `events` | stream in, feed events out |
| Paper trader `paper/trader.py`, `paper/tape.py` | event queue between an asyncio pump and the engine's thread, tape | pump, `LiveFeed.__next__`, `run` | sources in, engine out |
| Backtest engine `backtest/engine.py`, `events.py`, `feed.py` | time, heap, books, resting orders, reservations, records | `submit`, `request_cancel`, feed events, arrivals, cancels, fills | feed and strategy in, portfolio out |
| Fill models `backtest/fills.py` | queue position per resting order | `TakerModel.execute`, `on_place`, `on_trade`, `on_book` | called by the engine |
| Portfolio `backtest/portfolio.py` | cash, positions with cost, realised profit, fees, settled markets | `buy` (with netting), `settle` | called by the engine |
| Fees and units `market/fees.py`, `market/units.py` | none | exact and rounded fees | called by the engine and the detector |
| Market makers and risk `market_making/` | quotes in flight, busy times, killed, the tracker of features | quoting on each event, limits, kill switch | a strategy of the engine |
| Relations `market/relationships.py`, `market/semantics.py` | none (pure) | relations of an event, their constraints and evidence | used by the detector |
| Arbitrage detector `arbitrage/` | counts of a funnel | pricing and sizing of bundles | used by a strategy and the scanner |
| Scanner `research/scanner.py` | books, open episodes, pending probes, exposure | a batch of feed events | reads the store, feeds the studies |
| Universe scan, history, events `data/collectors/` | checkpoints, partitions, a Selector | paginated fetch, resume, flush | REST client and store |
| Book recorders `data/collectors/books.py` | last hashes, buffered rows | `poll_once`, `handle`, `flush` | REST client, WebSocket client, store |
| REST client `kalshi_client/rest.py` | token bucket, penalty time | `_get` with retries, `_paginate` | used by collectors and the polling source |
| Store `data/storage/` | tables | insert-ignore, upsert, checkpoints | used by collectors and the feed |
| Pricing `pricing/`, scripts of stages 7 and 8 | fitted models, an access log | instances, folds, fits, recalibration | read the store |
| Metrics and studies `backtest/metrics.py`, `research/` | none that outlives a call | statistics and reports | read the store and finished runs |

What is hard in it:

- *Unreliable delivery.* Frames are lost, repeated, reordered, damaged or cut by
  a reconnect; a book silently missing one change looks like any other book.
- *Callbacks between awaits.* The client is a generator that is resumed by its
  consumer; resync requests, `close` and ticks come between two resumptions.
- *Order of simultaneous events.* The engine merges a feed that it reads one
  event ahead with its own heap, and everything of one instant has an order.
- *Latency.* A market maker does not see a quote before it arrives; a probe asks
  what an order would meet some time later, between two sightings of the books.
- *Long sequences.* Reservations, queue positions and netted costs are changed
  in many places and must add up after any sequence of legal calls.
- *Partial failure and restarts.* Collectors resume from checkpoints, recorders
  from what is in the database, while the exchange goes on; two threads end.
- *Time travel.* Trades are fetched after the fact, books are not; forecasts are
  fitted on a corpus that holds the outcomes they are scored with.

What makes each part correct, in one line each: a shown book is the exchange's
book or none, and so is one rebuilt from a recording; a confirmation never vouches
for a book the strategy has not seen; a hole in the feed never stays quiet; the
fill models are nested and share prints; the books of the account balance exactly
and every report agrees with them; no order uses cash or liquidity that another
has; what is over (cancelled, closed, settled) stays over; a position stays within
its limit whatever is filled; a claimed relation holds at every settlement and an
order sized on it earns what was promised; an open episode is one a fresh
detection would find; a resumed collection misses nothing and selects the same; a
sample, a label and a forecast rest on nothing later than they say.

## 2. The modules

| Module | Models | Extends |
|---|---|---|
| `OrderBook` | order book: validation, snapshot, delta, best prices; Python's min, max and sum | |
| `TrustedView` | abstract: what a consumer of books is promised | |
| `BookStream` | the book stream processor, the exchange and the wire | `OrderBook` |
| `WsRecorder` | the WebSocket recorder and the replay of its tables | `BookStream` |
| `LiveFeed` | WebSocket client, adapter and source driving the processor | `BookStream` |
| `Portfolio` | the ledger | `OrderBook` |
| `Fills` | taker walk and queue models, as operators | `OrderBook` |
| `FillModels` | several queue models in lock step over one tape | `Fills` |
| `Fees` | fees of fills and orders, as operators | `OrderBook` |
| `Engine` | the replay loop, composing ledger, fills and fees | `Portfolio`, `Fills`, `Fees` |
| `Evaluation` | the reports made of a run | `Engine` |
| `Quoting` | inventory risk, limits, the quotes of a bounded claim | `Portfolio` |
| `MarketMaker` | the market makers on the engine as they see it | `Quoting` |
| `Relations` | constraints of relations; what a market's strike and rules say | `OrderBook` |
| `Execution` | relations claimed for a listing, with their evidence; pricing, fees, sizing, the verdict and its funnel | `Relations`, `Fees` |
| `Scanner` | episodes, probes, exposure over a recording | `Execution` |
| `Episodes` | lifetimes and tables of the studies; the detector traded through the engine at each latency | `Scanner`, `Fills` |
| `Arbitrage` | the composition and its properties | `Episodes` |
| `Rest`, `JobRun` | retries and pages of the client; the row of a run | |
| `Scan` | the resumable selection of markets | `Rest`, `JobRun` |
| `TradeSync` | the resumable sync of a market's trades | `Rest`, `JobRun` |
| `EventStudy` | the collector of settled events with their siblings | `Rest`, `JobRun` |
| `Polling` | which markets are polled, and what a poll answers | `Rest` |
| `Recorder` | the polling recorder across runs | `Polling`, `JobRun` |
| `Study` | the merged feed, the tracker, samples, labels, book instances | `Recorder` |
| `PaperSession` | a paper session on polls, two threads | `Polling` |
| `Calibration`, `Forecasts` | calibration; instances, models and what forecasts rest on | |
| `Collection` | the programs that gather data and read it, one at a time | `Scan`, `TradeSync`, `EventStudy`, `Study`, `PaperSession`, `Forecasts` |
| `MC...` | instances for TLC: input sets and bounds | |
| `...Proofs` | theorems of a module and their proofs | |

### Order books, the live feed and its recording

A book is a total function from `<<side, price>>` to quantity, 0 standing for a
level the code does not store. A snapshot message is a `Listing`, the quantities
it lists at each cell, so that duplicate and negative levels can be expressed.

`BookStream` keeps the processor's six fields under the code's names. `Process`
is one frame: envelope check, sequence check (`_sequence`), then the snapshot or
delta handler, with every rejection a disjunct of its own. The environment
publishes frames numbered 1, 2, ... per subscription and *any* published frame of
the current connection can be delivered at any time, intact, damaged or without
its envelope: that is loss, repetition and reordering at once. Frames of an old
connection are not delivered, because `websockets` delivers per socket.

`TrustedView` says what that is for, without sequence numbers or poison: a market
is shown with the exchange's book at the newest frame heard, or not at all; the
cut only advances; after a gap nothing is shown; a hidden market comes back only
with its snapshot. `BookStream` implements it with `shown <- View`.

`WsRecorder` lets either another consumer drive the processor (`recorder =
"none"`) or `record_ws`. The recorder's rows are buffered, written in batches of
`FlushRows` (rows that belong to no book may fill a batch at any time), in six
statements one after the other, and a kill may come between two of them. `replay`
is a second processor that is given the rows written.

`LiveFeed` adds the stream generator's position (`phase`), `_closed`,
`_resync_reason`, the adapter's `connected` and the age of the last frame as the
Boolean `quiet`, and for the properties what the strategy was `told` and what the
latest step `confirmed`. No await lies between processing a frame and reading the
resync flag, so ticks are excluded in phase `handling` and allowed everywhere
else. Every step is a step of `BookStream` or leaves its variables alone.

### Account, fills, engine, reports

`Portfolio` is `buy` and `settle`, with `_net` and its integer split of costs, on
`cash`, `realised`, `fees`, `held`, `settled`. `bought`, `spent` and `paidAt` are
history: the fill log and the first announcement of each settlement, from which
`LedgerRecomputed` recomputes the account as if nothing had been netted.

`Fills` has the two models as operators: `Taken` is the walk of `TakerModel.execute`
written as differences of cumulated offers, `AfterTaker` the removal of our fills
from the book, `QueueAfterPrint` and `QueueAfterBook` the bookkeeping of
`QueueModel`. Fractions are pairs, `int(share * n)` is floor division.

`FillModels` runs the same orders, prints and books under several models at once,
with the engine's budget (`_match_resting`) sharing a print among our orders, one
order per step. An order filled under one model may still rest under another,
which is how the repository's own property test compares models too.

`Engine` is the loop of `Backtest.run`. `stage` says what it is doing; `between`
and `strategy` are the points where the loop chooses what comes first, and in
`strategy` a callback is running, which may call `Submit` and `RequestCancel` any
number of times. The heap is not a variable: what is on it is the due time of each
submitted order and the set `cancels`, and the guards `NoArrival...` and
`NoCancel...` pop it in (time, priority, sequence) order. A batch of feed events of
one instant is applied event by event, in any order, before the strategy acts.
Loops that buy (the fills of a taker, the resting orders reached by a print or a
snapshot) take one step per iteration over the ids in `todo`, the copy of the list
that the code iterates over. Resting lists are in id order because the submit
latency is a constant. `shown`, `used` and `revoked` are history. A `Wake` may be
due at any of `WakeTimes`, as if the strategy had asked for it at the start; the
notices of fills and rejections, which only call the strategy, are covered by
these. A market that is bought after its settlement would raise in `Portfolio.buy`;
here the purchase would be disabled and the run would deadlock, which is checked.

`Evaluation` is operators over the fill log, the feed and the account: the figures
of `backtest/metrics.py` and the fill table of the market maker's evaluation. A run
may end after any batch, so the reports are checked at every such point.

### Market makers

`Quoting` has the loss of a position over the worlds an event's relations admit, the
headroom its limits leave, and the quotes. Certainty equivalents are logarithms;
reservation prices come from a table with the two facts the tests assert, rounding
and clipping are exact. `MarketMaker` is `_act` and what leads to it on an engine
seen from outside: which resting order a print fills, and how much of it, is left
open, so it is checked under every fill model; it sees its own order only after
arrival, its fills only after the acknowledgement.

### Arbitrage

`Relations` gives a market a strike and the rules it states, a subset of an
arithmetic line; values are half-hundredths so that a point between two grid
values exists. `Execution` derives an event's relations as `analyze_event` does, in
its order of cases, with the level of evidence; then it walks the asks, charges fees per fill or per order, finds the best and the break-even size, and
classifies. `Scanner.Process` is one batch of a recording; `pendingAfter` and
`probes` are its two kinds of question about the future. `Arbitrage` composes
them: a listing is chosen, analysed, and if it is a recorded one, any feed of
batches is scanned. `Episodes` computes from the finished scan what the
studies tabulate, and replay the same recording through the taker at each latency.

### Collection and what is made of it

`Collection` has one variable more than its parts, the program that is running: the
programs share the run's row, the client and the exchange's books, the database is
single-writer, and a behaviour is of one program. `Scan` keeps the Selector's heaps
and `_meta` as one function; `saved` is `scan_state`. `TradeSync` names a trade by
its instant. Every `Get` has the outcomes that retries leave: an answer, or one of
the exceptions the caller tells apart. A kill (`Kill`) loses what is in memory and
leaves the run's row "running"; an exception runs the `finally`.

`Recorder` is `poll_once` step by step: chunks answered one by one at their own
instants, the snapshots stored, then the row of `poll_log`. `Study` is operators on
the tables: `Replay` folds the merged feed through a tracker per market as
`build_samples` does, with the mids and prints the tracker keeps pruned as the code
prunes them. `PaperSession` has `RestPollSource`, the queue and the engine's
thread; `told`, `mislaid`, `read` and `missed` are history.

In `Forecasts` a forecast is the record of everything its value is computed from,
fitted parameters included, so that two forecasts are equal when the code is bound
to return the same number. "Does not leak" is then a statement about pairs of
histories: flip the outcomes that must not matter and nothing changes.
`Calibration` computes with exact fractions.

## 3. What the runs show

| Run | Instance and bounds | Shows |
|---|---|---|
| `book_stream` | 2 markets on 1 subscription, 1 price, quantity at most 1, 2 connections, 4 frames per subscription; batches of 2 rows, 2 recorded connections | `TrustedIsExact`: shown books are exact. `RecordIsFaithful`: so are those rebuilt from the tables. `ImplementsTrustedView`: the refinement |
| `live_feed` | 1 market, 2 connections, 3 frames, 2 reconnects | `ToldIsTrusted`, `ConfirmIsExact`, `NoQuietHole`; under fairness `HoleEndsConnection`, `CloseEndsStream` |
| `live_feed_doc` | the same, 1 reconnect | violation of the documented claim that confirmations stop when a frame is missing |
| `ledger` | 2 markets, a dollar of 3 ticks, fills of 1 or 2, 3 contracts per market and side, a fee of 1 | `LedgerBalances`, `LedgerRecomputed`, `HoldingsAreSound` |
| `fill_models` | 4 models, 2 orders, prints of 1 or 2, levels up to 3 | `ModelsAreNested`, `PrintIsShared`, `PriorityAtLevel` |
| `engine` | 2 markets, a dollar of 5 ticks, cash 9, 2 orders, latencies 1, three books, feed of 3 events at instants 1 and 2 | cash, records with reservations, depth, finality, time order, the refinement of `Portfolio`, and `EvaluationAddsUp` of every report |
| `engine_doc` | the same | violation of the documented "No leverage" once fees are counted |
| `engine_slippage` | the same with a slippage of one tick | violation of the documented self-impact: a displayed contract is taken twice |
| `market_maker` | 2 markets of one partition event, 3 feed events, 4 quotes, 7 instants, latencies 1, busy 2, wake 3, minimum requote 3 | `PositionIsBounded`, `KillPullsEverything`, `SelfCrossIsHandled` |
| `arbitrage` | listings of 2 or 3 markets from 14 shapes for the analysis; a ladder and a union of tiles recorded, 3 batches over 4 instants | `RelationsHold`, `NetIsGuaranteed`, `OptimalSize` (with `FunnelsAgree` and `PeakIsHighest`), `OpenIsExact`, `ProbesAreBracketed`, `ExposureIsWatched`, `LifetimesAreBracketed` (with `ExposureCoversEpisodes`), `SweepMatchesProbes` |
| `collection` | per program, see below | `SelectionIsReproducible`, `NothingElseIsMissing`, `EventsAreComplete`, `RecordingIsFaithful`, `LabelsAreObserved`, `SessionIsFaithful`, `NothingLeaks`, `RecalibrationIsSound` |
| `paper_doc` | two markets in two batches, one change, a session of two instants | violation of the documented claim that every book is current as of the poll confirmed |

Why the bounds are enough to meet the hard cases:

- *book_stream*: two markets on one subscription let a frame of one reveal a gap
  that hides the other. Four frames are two opening snapshots and two changes, so
  one can be lost and the next heard; the second connection reuses the same sid and
  numbers. Batches of two rows are cut between any two tables.
- *live_feed*: with one market a gap, a damaged frame and a missing envelope each
  reach every phase; two reconnects let a resync be asked for in one connection and
  read, or lost, in the next.
- *ledger*: quantity 3 against 2 makes the netted cost a genuine fraction (the
  floor division has a remainder), on either side; the second market keeps the
  sums honest.
- *fill_models*: two orders at one level, on one side at two levels and on opposite
  sides; levels of 3 and half shares make the truncation visible; a print of 2
  passes a queue of 1.
- *engine*: an order takes two levels, or one and rests; two orders share a level
  and cash; a cancel meets its order's arrival and a fill at one instant; a book of
  age 2 is stale, one of age 1 is not; cash can run out with the second order; a
  report is made of a run that ends after any batch.
- *market_maker*: position limit 6 and quotes of 4 units, so that one quote more than
  counted would break it; loss limits one apart; tops far from each other and a signal
  that shifts and widens, so that quotes of different ages cross; a drawdown of 6; a
  market that stops at instant 5 and one that never does.
- *arbitrage*: markets that nest, tile, overlap and exclude each other, on and off
  a settlement grid, with and without the exchange's flag, complete and incomplete
  events, rules that contradict the strike; lots of 12 against levels in sixes make
  a size at the end of a lot differ from one in a level; a gap longer than
  `GapAfter`, a close, a confirmation between two books, all within three batches.
- *collection*: selection: two series with a cap, a window, a floor, a market that is
  listed at the head or the tail while scans run, pages of one, checkpoints of two
  pages, two runs. Trades: a market open for up to two instants and settled after, a
  cutoff that moves over its life and an instant beyond, a trade shown an instant late,
  pages of one, two runs. Events: two series, five events, one that the
  client cannot parse and one with a market that cannot be read, two runs. Books: two
  markets in two chunks, one book that changes twice, also to nothing and back, five
  instants, heartbeat 2, outage 2, two runs, prints of alternating sides and three prices
  in the market whose book changes at every instant and in the other at two. Paper: two batches, two prints, one
  change, a session of two. Forecasts: four histories of eight markets in six events,
  one straddling the holdout, one void; four shuffles; two outer and two inner folds.
  Calibration: every frame of up to four rows of three forecasts.

Fairness (`live_feed` only): the asyncio loop resumes a task that can run
(`HandleResync`, `Resume`, `StopConnecting`), closing a socket takes bounded time
(`Disconnect`), and a receive with nothing to receive ends (`ReceiveEnds`), for the
live trader sets `stale_timeout=20` (`scripts/stage11_paper_trade.py:108`). Nothing
is assumed of the exchange, the wire or connection attempts. The other runs check
safety only and assume nothing.

Deadlock is checked in `fill_models` and `engine`, where the loop can always go on
or finish. In the others the bounded environment really stops: no more frames, the
feed has ended, a listing is not among the recorded ones, the last run is over.

### Findings

1. *Confirmations after an unreadable frame* (`live_feed_doc`): a book frame that
   does not parse asks for no resync, so ticks keep confirming a book that misses a
   frame until the next numbered frame reveals the gap, where the adapter's
   documentation says confirmations stop when a frame is missing.
2. *Fees are not reserved* (`engine_doc`): buying power and reservations count
   price times quantity only, so accepted orders can drive cash below what is
   reserved, and below zero, by their fees. Without fees the rule holds
   (`NoLeverage`).
3. *Slippage loses self-impact* (`engine_slippage`): fills are removed from the
   book at their haircut price, not at the level they were taken from.
4. *A failed cycle swallows a book* (`paper_doc`): the polling source remembers a
   market's new book before the cycle is known to succeed; when a later request of
   the cycle raises, the update is dropped, the next cycle sees no change, and its
   confirmation vouches for a book the exchange no longer shows. Trades are lost in
   the same way.

### Observations without a run

Each was met while a property was being stated; where a property has an exception,
this is why.

*Engine and fills.* Our second resting order at a level counts as traded only what
the budget left for it, so what our first order took looks to it like a cancellation
at the next snapshot. A cancel whose latency is shorter than its order's is lost
silently.

*Recorder.* A snapshot the book refuses is recorded as an incident only, so it uses
up a number: the replay sees a gap there and hides the subscription's markets, or
does not see one the live processor saw (`hollow`). Replaying `ORDER BY seq`
(`tests/test_books.py:270`) would see a gap after a late frame where the order of
receipt does not; the six tables of a batch are not written atomically. A poll's row
confirms also markets that were missing from the answer, and confirms every chunk as
of the last one's instant, so a print between two chunks counts as seen. The outage
check is global; a hole of one market gives labels of exactly zero.

*Reports.* The market maker's fill table takes the mid 30 s after a fill even when
none was seen since (it is then the spread captured), where the metrics leave such
fills out. Groups by time to resolution or by probability drop rows without a key, so
they do not add up. Settlement sums use the database's value also for settlements
after the feed's end, and do not know of profit realised by netting.

*Market makers.* Loss limits are checked quote by quote, against neither live quotes
nor unnoticed fills, so "limits are hard constraints" (`docs/market_making.md:126`)
is not claimed of them; the headroom is found by halving, not the largest. A quote's
latency must be below its busy time, or quotes stack.

*Arbitrage.* That the open episodes equal a detection from scratch over every relation
(`docs/arbitrage_research.md:29`) fails when a rung of a chain closes, and after a gap
for displayed violations until a book of theirs changes; such an episode is then
opened as new if a cycle was confirmed in between. A market that closes inside a gap
counts the gap as exposure (`scanner.py:36`). "Every stage is a subset of the
previous" (`opportunity.py:116`) fails under cent rounding, and so may the cap on the
size (`detector.py:36`); both are checked for unrounded fees. "Died as early as
possible (a lower curve)" of the Kaplan-Meier readings is false with censoring. The
share of relation-cycles in violation can exceed one. "Confirmed episodes cannot be
composites" (`arbitrage_analysis.py:14`) needs books that do not oscillate between polls.

*Collectors.* Dropping a partition after a false restart loses markets of other
partitions that its own had evicted, so a selection can depend on resumes
(`misled`); `universe.py`'s docstring says not. "Historical data is immutable once
fully fetched" (`history.py:255`) misses trades that pass the moving cutoff
(`Slipped`), and a sync may straddle settlement (`ShownTooLate`). A kill between the
events of a series and their markets leaves events that later runs take for
collected (`torn`), and so does an unreadable market. The history collector stores
events without siblings; the count of stored events is a fair measure only because
the event study has a database of its own, as its docstring says.

*Pricing.* Two of stage 7's "out-of-fold" forecasts are not: the Platt recalibration of
B and the blend are chained on rows that saw the event's outcome; `EventIsHeldOut` is
stated for the others. kappa is chosen on the whole corpus. "Strictly earlier events"
orders by first settlement. The holdout is split by market, so an event may straddle
it. The isotonic fit does not pool ties, so it depends on the order of rows.

## 4. What is proved

All theorems hold for every value of the constants that satisfies the modules'
assumptions (`BookStreamAssumption`, `PortfolioAssumption`, `EngineAssumption`, ...),
which TLC evaluates in the runs.

- `LiveFeedProofs`, of the processor: `TypeCorrect`, `TrustedBooksAreExact`, and
  `ProcessorImplementsTrustedView`, the refinement. `TrustedIsExact` alone is not
  inductive: a frame also patches books that are hidden by poison, and a snapshot
  can bring them back. `IInv` (`ProcessorInvariant`) adds that every kept, not stale
  book is the exchange's at the last sequence number applied on *its own* stream
  (`KeptIsPrefix`), that on a stream that is not poisoned what was heard is what was
  processed (`HeardIsProcessed`), that consecutive published frames differ by their
  own change (`PublishedIsCoherent`), and that streams of later connections are unknown.
- `LiveFeedProofs`, of what uses it: `FeedDrivesProcessor`, that `LiveFeed` implements `BookStream`,
  so its invariant carries over; on top of it `ToldBooksAreTrusted`,
  `ConfirmationsAreExact` and `NoHoleIsQuiet`. The recorder drives the processor in the
  same ways (`RecordedBooksAreTrusted`), and `RecordStaysReplayable` is about the books
  rebuilt from its rows. `RecorderInv` adds to `IInv` what the property needs of things
  it does not name: every buffered row is of a published frame (`AllGenuine`), so that a
  batch cut anywhere replays to a state whose kept books are exact (`Exact`), also those
  that poison or a refused change hides (`ReplayedStaysExact`, for a replay, like the
  processor, may bring them back); and the replay of what is written *and* buffered is
  in the processor's state on each subscription that is not hollow (`Alike`: last
  number, poison, books, stale marks), where the property compares only what is shown.
  `RowFollowsFrame` is the step that matters: the row of a frame does to the replay what
  the frame does to the processor. A replay is a recursive function over the rows;
  `OneRowMore` and `RebuiltStaysExact` are by induction over its length.
- `FillsProofs` has the lemmas the others share, which say nothing of the code by
  themselves and are not listed as results. Sums are recursive functions on an
  interval, and what is known of them is proved by induction over the set of lengths for
  which it holds (`SetInduction`); `TotalUpdate` is the fact the ledgers need,
  `TotalOfEqualTerms` and `TotalOfSmallerTerms` compare two sums. Then what a share of a
  quantity is bounded by and how a print or a book moves a queue.
- `PortfolioProofs`: `LedgerTypes`, `HoldingsStaySound`, `LedgerStaysBalanced`,
  `LedgerIsRecomputable`, which support one another: costs stay naturals because holdings
  are sound, and the recomputation needs that what is held is the difference of what was
  bought until the settlement.
- `FillModelsProofs`: `FillModelsAreNested`, `PriorityIsKept`, `PrintsAreShared` and
  the types. That the generous model has less left is not inductive by itself: in
  between one needs that its queue ahead is no longer either, that levels and traded
  volumes agree where both rest, and how the budgets of the two models compare while
  a print is being matched.
- `EngineProofs`: the backtest engine. Its invariant `OrdersInv` is seven parts that
  need one another: the types; the ledger's own invariant; what each record, status,
  reservation and place in the book say of one order (`RecordsSound`); that what is
  left to do in a loop still rests and in which stage the loop is (`WorkSound`); what
  the taker at hand may still take, within its order and within the book
  (`TakingSound`); that nothing scheduled lies in the past (`TimeSound`); that closed
  markets have no resting orders (`MarketsSound`). `OrdersInvariance` goes through the
  actions; steps that buy share the lemmas on a purchase. On it rest:
  - `EngineImplementsLedger`: every step is one of the ledger or none. A purchase is
    recognised by what it adds, so the ledger's theorems carry over
    (`EngineAccountIsSound`) to an account on which orders are matched.
  - `RecordsAlwaysAgree`, with `BoughtSound` (the ledger's purchases are the sum of
    the records' fills, by `TotalUpdate`).
  - `NoLeverageEver`, with `Covered`: cash plus fees covers the reservations *and* what
    the taker at hand has yet to pay, at a price no worse than its limit.
  - `NothingIsEverFilledLate` and `EventsAreInTimeOrder`, action properties: each action
    is shown to be of a kind that may buy, and when.
  - `DepthIsAlwaysConsumed`, with `DepthSound`: displayed, less used, is what is left
    in the book. It has the hypothesis `Slippage = 0`, the code's default; with slippage
    the run `engine_slippage` refutes it.
- `MarketMakerProofs`: the market makers, for any feed, fills, signals and latencies.
  Every step is either `on_event` (`EventStep`) or something that happens to the market
  maker (`QuietStep`): time, books, an arrival, a fill. `Reacting` says once what
  `on_event` does to the quotes, with the list of sides it places resolved into new ids;
  each invariant is then shown for the two kinds. `MakerInv` has the types, the ledger's
  invariant, that nothing scheduled lies in the past (`NothingOverdue`), what a quote's
  status says of it (`QuotesSound`), and that a side is busy for `BusyFor` after its last
  quote, which bounds the arrival of whatever is still on its way (`SideSound`). On it:
  - `PositionStaysBounded`. The sum of the property is not inductive: what holds is that
    a side has one quote at most on its way or resting (`OneLive`, as a submitted quote
    has arrived before its side may be acted on again) and that each quote alone keeps
    the limit (`WithinLimit`: sized from what is held, and a fill moves as much from the
    quote to the position). A sum with one term is that term.
  - `KillPullsAll`, with `RiskIsNear`: a check is never further away than one interval.
  - `SelfCrossStaysHandled`, with `CrossesHandled` about quotes on their way too: two
    sides that are quoted or found up to date at one event are around one fair value, so
    neither is more than `Requote - 1` ticks from a pair that does not cross; if the
    event cannot look at a side it asks to be woken. It has the hypothesis
    `ArrivesFirst` (`SubmitLatency < BusyFor`): otherwise a quote may come to rest that
    the last event could neither see nor withdraw. The runs of the studies have 100 or
    200 ms against a second; the sweep at 1000 ms (`market_making_analysis.py:572`) is
    covered by `PositionStaysBounded` alone, for `min_requote_s` is two seconds.
  - `AccountIsALedger`, the refinement of `Portfolio`, and `MakerStaysTyped`.
- `ArbitrageProofs`: the episode scanner, for any listing, any books and any number of
  batches. `ArbitrageAssumption` says what a batch is and that the relation constructors
  accept what the analysis of a listing finds; TLC evaluates it for the listings of the run.
  - `OpenEpisodesAreExact`: pricing only what a changed book touches finds what a detection
    from scratch would. `OpenInv` adds that an episode is kept under its trade, and that
    some relation has it. A batch then has three cases: what it found (`DetectedExactly`,
    with `CandidatesComplete`: the running minimum of a chain passes over no violated
    pair), what was open and is touched, which may have been found as *another* bundle of
    the same trade (`ViolatedByTrade`: the legs are the same in another order, and a sum
    does not depend on the order, `TotalOfPermuted`), and what no changed book touches,
    which is as violated as before (`ViolatedByBooks`).
  - `ProbesStayBracketed`, with `ProbesInv`: each probe of each episode, open or ended, is
    ahead, waits for a book with none seen since it was due, or has its results; and a
    result agrees with one entry of the log that no later entry can displace
    (`BeforeStays`, `AfterStays`).
  - `ExposureStaysWatched`. Exposure is bounded by the units of time watched, a set: time
    that goes on adds an interval to it, a gap takes one away (`WatchedGoesOn`,
    `WatchedAfterGap`). `ExposureInv` needs that a relation becomes observable only when
    books are seen, and that one that no longer is has a closed market, so never is again.
- `CollectionProofs`: four of the programs that gather data, over any number of runs that
  fail, are interrupted or killed at any step. `Collection` is one program at a time, so
  each invariant is guarded by `collecting`.
  - `RecordStaysFaithful`, the book recorder. A row is stored only when its hash differs
    from the last one the poller remembers, or the last is a heartbeat old; so one needs
    that this memory is the table's last row, also after a restart (`LastIsLatest`), that
    there is one answer for a market and an instant, and rows are answers (`RowsSound`),
    and that a poll is later than everything stored before (`PollIsNew`).
    `StoringIsFaithful` is the step that stores a poll: the row a reader finds at the
    instant of a poll is the one just stored or the one whose hash it repeats.
  - `NothingElseIsEverMissing`, the trade sync, with `SyncInv`: what may be hidden or
    behind the cutoff (`ExchangeSound`), what each checkpoint promises (`CheckpointsSound`),
    that a run that left the live partition out knew the market to have ended before its
    cutoff (`JobSound`, `FinishSound`), and how far down the pages of a fetch have reached
    (`FetchSound`; `PageReaches` is the fact about a page). It has the hypothesis
    `ShownInTime`: a trade is not shown later than `SYNC_MARGIN` and the overlap together
    allow for (`history.py:45`). That is what the margin is for, and with a margin of
    nothing TLC finds the property violated.
  - `SessionStaysFaithful`, the paper session, with `PaperInv`. What is on its way is a
    sequence of events of which two things matter: the trades it brings (`Ids`,
    `Ordered`) and the last book it brings of a market (`BookAfter`); `TradesOfBoth` and
    `BookOfBoth` say what they are for one sequence after another, so that a step that
    takes from the front or adds to the end is an equation. `CycleSound`: between two
    cycles nothing is gathered. `BooksSound`: the book the engine comes to hold is the
    last one answered, and that is what the source remembers. `TradesSound`: a trade seen
    is delivered or known as missed; one made before the last poll of the trades and not
    seen is missed and will not be listed again, being too old or behind too many
    (`Behind`); so, trades being made in the order of their names (`PrintsInOrder`), those
    a poll adds are newer than all delivered. It needs `Slack <= Lookback` (3 and
    5 s, `sources.py:92`, `:134`).
  - `EventsStayComplete`, the collector of settled events, with `EventsInv`. That no series
    falls short rests on what pagination keeps while events settle in front of it: with
    what comes after the cursor, what was got is enough for what the run owes
    (`PagesSound`; `OnePage` and `OneSettles` are the facts about a listing without
    repetition, `PageIsAdded` about a page with quarantined rows); a series the run is
    done with has it stored (`Accounted`). That siblings and log are whole rests on one
    series at most being written (`OneIsWritten`), so that what a stop may part is what
    that one series holds, and on the rows it logs being the ones it stored
    (`RowsAreStored`). It needs that an event's name is no market's, since one set
    (`torn`) has both.

The type invariants `LedgerTypeOK`, `ModelsTypeOK` and `EngineTypeOK`, and `IInv`, are
proved and no longer part of a run. `SyncInv`, `RecordInv` and the other invariants were
checked by TLC on the instances of the runs before they were proved. Only model-checked:
liveness (fairness and ENABLED are out of the prover's reach), the refuted claims,
everything of `Evaluation`, of `Arbitrage` the evidence of relations, sizes, nets,
lifetimes and the sweep, and of `Collection` the scan's selection, the labels and the
forecasts. Most of these compare folds over data with a second computation of the same,
which would need induction over data.

## 5. What is left out, and why

- Counters, logs, incidents and most metrics; `last_seq` and `last_ts` of a book, which
  nothing reads; durations of backoff; the rate limiter, which only delays; the text
  of messages; configuration, signing, command lines, rendering of reports and plots.
- Floating point: certainty equivalents, ridge and Platt fits, model C, bootstrap and
  Wilson intervals, the exponential fit. Where an order or a bound of the result is
  what matters the numbers come from tables or from exact fractions.
- Strings: rule texts are members of a menu (`Relations`), tickers and names are
  model values; parsing and formatting of units and timestamps.
- `FillModels` compares models under the same commands: a strategy that reacts to fills
  diverges between models, and then nothing is promised.
- Arbitrage: unions that are not disjoint, the history of observations, clusters,
  categories, margin retained and the settlement of the sweep; cash does not bind in
  it; which constraint of a relation the taker tries first is any, but the same.
- Market makers: the quote and exposure logs, fees.
- Collectors: quarantined rows, reconciliation, rehydration of withdrawn markets,
  counts. Rows of older connections are not replayed.
- Paper: timestamps and clock ticks, the tape's format. Replay parity holds because
  the engine is deterministic and is not checked.
- Features of the book alone (imbalance, microprice) and sizes: a feature of one
  instant has nothing to go stale.

## 6. Plan

1. Proofs of `SelectionIsReproducible` of `Scan` and of `RelationsHold` of `Arbitrage`.
2. The rate limiter of the client, if its callers come to depend on it.

Runs stay small enough for a few minutes each; every new property comes with a
fault of the code that it detects.
