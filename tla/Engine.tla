-------------------------------- MODULE Engine --------------------------------
(***************************************************************************)
(* The replay loop (backtest/engine.py): one owner of all state, which     *)
(* merges the feed with its own heap of scheduled events in time and       *)
(* priority order, matches orders against the last received books and the  *)
(* tape, and keeps the account.  The strategy is any caller of place and   *)
(* cancel, called after a batch of feed events or at an instant it chose.  *)
(*                                                                         *)
(* The engine is single threaded.  A loop over the fills of an order, or   *)
(* over the resting orders that an event concerns, takes one step per      *)
(* iteration here, because each iteration is a purchase of the ledger.     *)
(***************************************************************************)
EXTENDS Portfolio, Fills, Fees

CONSTANTS
    Orders,         \* what the strategy may order
    Updates,        \* what the feed may hold: <<market, book>>,
    Trades,         \* <<market, print>>
    Outcomes,       \* and <<market, settlement value>>
    MakerModel,     \* BacktestConfig.maker
    FeeRounding,    \* BacktestConfig.fees
    SubmitLatency,
    CancelLatency,
    MaxStaleness,   \* TakerModel.max_staleness_ns, or None
    MaxOrders,      \* bound: orders ever placed
    MaxTime,        \* bound: the last instant of the feed
    WakeTimes,      \* bound: the instants of a wake or a notice
    MaxFeed         \* bound: events of the feed

TIF == {"ioc", "gtc", "post_only"}
Status == {"submitted", "rejected", "filled", "partial", "resting", "cancelled", "expired"}

AnOrder == [market : Market, side : Side, price : Quote, qty : Int, tif : TIF]

ASSUME EngineAssumption ==
    /\ Orders \subseteq AnOrder /\ Updates \subseteq Market \X Book
    /\ Trades \subseteq Market \X TradePrint /\ Outcomes \subseteq Market \X Value
    /\ MakerModel \in QueueModel /\ FeeRounding \in Rounding
    /\ SubmitLatency \in Nat /\ CancelLatency \in Nat
    /\ MaxStaleness \in Nat \cup {None}
    /\ MaxOrders \in Nat /\ MaxTime \in Nat /\ MaxFeed \in Nat
    /\ WakeTimes \subseteq Nat
    /\ None \notin Book /\ None \notin Nat /\ None \notin TradePrint

VARIABLES
    now,
    stage,          \* what the loop is doing
    book, bookTs,   \* MarketState of each market: the last book and its time
    closed,
    placed,         \* number of orders placed; their ids are 1 .. placed
    order, due,     \* what was ordered, and its arrival_ts
    status, filled, \* OrderRecord
    resting,        \* the ids in the lists of resting orders, which are in id order
    queue,          \* RestingOrder
    reserved,       \* cash reserved for an order, 0 for an absent one
    cancels,        \* scheduled cancels
    todo,           \* the resting orders that the event being applied has yet to reach
    tick, budget,   \* the print being matched, or None, and what is left of it at its level
    taking,         \* the arriving order that takes liquidity, and how far its fills are recorded
    fed,            \* bound: events of the feed so far
    \* history
    shown,          \* the last book received, before our own fills
    used,           \* what our takers took of it
    revoked,        \* orders whose cancel has arrived
    log,            \* fill_log
    mids,           \* mid_series: of each market, the mids of the feed's two-sided books
    payouts         \* what each market's settlements realised

loop == <<now, stage, fed>>
markets == <<book, bookTs, closed>>
orders == <<placed, order, due, cancels>>
records == <<status, filled, log, resting, queue, reserved>>
work == <<todo, tick, budget, taking>>
depth == <<shown, used, mids>>
history == <<payouts, revoked>>
engine == <<ledger, loop, markets, orders, records, work, depth, history>>

NoQueue == [left |-> 0, ahead |-> 0, level |-> 0, traded |-> 0]
NoDepth == [c \in Cell |-> 0]

FillRecord ==
    [at : Nat, id : 1 .. MaxOrders, market : Market, side : Side, price : Nat, qty : Nat,
     fee : Nat, liquidity : {"taker", "maker"}]
Fill(id, price, qty, fee, liquidity) ==
    [at |-> now, id |-> id, market |-> order[id].market, side |-> order[id].side,
     price |-> price, qty |-> qty, fee |-> fee, liquidity |-> liquidity]

\* The mid of a YES, twice over: best bid and best ask, when there are both.
Mid == [at : Nat, twice : Nat]
MidsWith(series, b) ==
    IF HasBid(b, "YES") /\ HasBid(b, "NO")
    THEN Append(series, [at |-> now, twice |-> BestBid(b, "YES") + BestAsk(b, "YES")])
    ELSE series

\* An order that takes liquidity: what it takes of each derived ask, the next
\* ask to record and what is left of its fee.
Taking == [id : 1 .. MaxOrders, taken : [Tick -> Nat], level : 1 .. PriceScale, fee : Nat]

EngineTypeOK ==
    /\ LedgerTypeOK
    /\ now \in Nat /\ fed \in 0 .. MaxFeed
    /\ stage \in {"strategy", "between", "batch", "book", "print", "filling"}
    /\ book \in [Market -> Book \cup {None}] /\ bookTs \in [Market -> Nat \cup {None}]
    /\ closed \in [Market -> BOOLEAN]
    /\ placed \in 0 .. MaxOrders
    /\ order \in [1 .. placed -> AnOrder] /\ due \in [1 .. placed -> Nat]
    /\ status \in [1 .. placed -> Status] /\ filled \in [1 .. placed -> Nat]
    /\ resting \subseteq 1 .. placed
    /\ queue \in [1 .. placed -> Queue] /\ reserved \in [1 .. placed -> Nat]
    /\ cancels \subseteq Nat \X (1 .. placed)
    /\ todo \subseteq resting
    /\ tick \in TradePrint \cup {None} /\ budget \in Nat
    /\ taking \in Taking \cup {None}
    /\ shown \in [Market -> Book] /\ used \in [Market -> [Cell -> Nat]]
    /\ revoked \subseteq 1 .. placed
    /\ log \in Seq(FillRecord) /\ mids \in [Market -> Seq(Mid)] /\ payouts \in [Market -> Int]

EngineInit ==
    /\ LedgerInit
    /\ now = 0 /\ stage = "strategy" /\ fed = 0
    /\ book = [m \in Market |-> None] /\ bookTs = [m \in Market |-> None]
    /\ closed = [m \in Market |-> FALSE]
    /\ placed = 0 /\ order = <<>> /\ due = <<>> /\ cancels = {}
    /\ status = <<>> /\ filled = <<>> /\ resting = {} /\ queue = <<>> /\ reserved = <<>>
    /\ todo = {} /\ tick = None /\ budget = 0 /\ taking = None
    /\ shown = [m \in Market |-> NoDepth] /\ used = [m \in Market |-> NoDepth]
    /\ revoked = {} /\ log = <<>>
    /\ mids = [m \in Market |-> <<>>] /\ payouts = [m \in Market |-> 0]

----------------------------------------------------------------------------
(* The strategy. *)

\* f with one more order.
With(f, v) == [id \in 1 .. placed + 1 |-> IF id = placed + 1 THEN v ELSE f[id]]

\* Context.place: Backtest.submit
Submit(o) ==
    /\ stage = "strategy" /\ placed < MaxOrders
    /\ placed' = placed + 1
    /\ order' = With(order, o)
    /\ due' = With(due, now + SubmitLatency)
    /\ status' = With(status, "submitted")
    /\ filled' = With(filled, 0)
    /\ queue' = With(queue, NoQueue)
    /\ reserved' = With(reserved, 0)
    /\ UNCHANGED <<ledger, loop, markets, cancels, resting, log, work, depth, history>>

\* Context.cancel: Backtest.request_cancel, here once per order
RequestCancel(id) ==
    /\ stage = "strategy"
    /\ id \notin revoked /\ \A c \in cancels : c[2] # id
    /\ cancels' = cancels \cup {<<now + CancelLatency, id>>}
    /\ UNCHANGED <<ledger, loop, markets, placed, order, due, records, work, depth, history>>

----------------------------------------------------------------------------
(* The loop: what comes first. *)

\* The callback of the strategy, if there was one, returns and the loop goes on.
LoopGoesOn == stage \in {"strategy", "between"}

Submitted == {id \in 1 .. placed : status[id] = "submitted"}

\* Nothing is scheduled before t, of a priority that goes first at t.
NoArrivalBefore(t) == \A id \in Submitted : due[id] >= t
NoArrivalUntil(t) == \A id \in Submitted : due[id] > t
NoCancelBefore(t) == \A c \in cancels : c[1] >= t
NoCancelUntil(t) == \A c \in cancels : c[1] > t

\* Fault: the feed goes first whatever is scheduled.
BatchOvertaking(t) ==
    /\ LoopGoesOn /\ fed < MaxFeed
    /\ t > now
    /\ now' = t /\ stage' = "batch"
    /\ UNCHANGED <<ledger, fed, markets, orders, records, work, depth, history>>

\* The feed has something at t, before what is scheduled at t: all of it is
\* applied before the strategy sees any.
BatchStarts(t) ==
    /\ LoopGoesOn /\ fed < MaxFeed
    /\ t > now /\ NoArrivalBefore(t) /\ NoCancelBefore(t)
    /\ now' = t /\ stage' = "batch"
    /\ UNCHANGED <<ledger, fed, markets, orders, records, work, depth, history>>

\* The batch has been applied and the strategy is notified.
BatchEnds ==
    /\ stage = "batch"
    /\ stage' = "strategy"
    /\ UNCHANGED <<ledger, now, fed, markets, orders, records, work, depth, history>>

\* A Wake that the strategy asked for, or one of its notices, is due.
WakeUp(t) ==
    /\ LoopGoesOn
    /\ t >= now /\ NoArrivalUntil(t) /\ NoCancelUntil(t)
    /\ now' = t /\ stage' = "strategy"
    /\ UNCHANGED <<ledger, fed, markets, orders, records, work, depth, history>>

\* The feed is exhausted and nothing is scheduled.
Finish ==
    /\ LoopGoesOn /\ Submitted = {} /\ cancels = {}
    /\ UNCHANGED engine

----------------------------------------------------------------------------
(* Orders leaving the book. *)

\* Fault: an order that was filled in part is reported as merely cancelled.
DroppedAsCancelled(id) == "cancelled"

DroppedStatus(id) == IF filled[id] > 0 THEN "partial" ELSE "cancelled"

\* Fault: what is dropped stays reserved.
DropReserved(ids) ==
    /\ status' = [id \in 1 .. placed |-> IF id \in ids THEN DroppedStatus(id) ELSE status[id]]
    /\ queue' = [id \in 1 .. placed |-> IF id \in ids THEN NoQueue ELSE queue[id]]
    /\ resting' = resting \ ids
    /\ UNCHANGED <<filled, log, reserved>>

\* _drop_resting of several orders
Drop(ids) ==
    /\ status' = [id \in 1 .. placed |-> IF id \in ids THEN DroppedStatus(id) ELSE status[id]]
    /\ queue' = [id \in 1 .. placed |-> IF id \in ids THEN NoQueue ELSE queue[id]]
    /\ reserved' = [id \in 1 .. placed |-> IF id \in ids THEN 0 ELSE reserved[id]]
    /\ resting' = resting \ ids
    /\ UNCHANGED <<filled, log>>

RestingIn(m) == {id \in resting : order[id].market = m}

\* Fault: a cancel goes before an order that arrives at the same instant.
CancelGoesFirst(c) ==
    /\ LoopGoesOn
    /\ NoArrivalBefore(c[1]) /\ NoCancelBefore(c[1])
    /\ now' = c[1] /\ stage' = "between"
    /\ cancels' = cancels \ {c}
    /\ Drop({c[2]} \cap resting)
    /\ revoked' = revoked \cup {c[2]}
    /\ UNCHANGED <<ledger, fed, markets, placed, order, due, work, depth, payouts>>

\* _dispatch_scheduled of a cancel.
CancelArrives(c) ==
    /\ LoopGoesOn
    /\ NoArrivalUntil(c[1]) /\ NoCancelBefore(c[1])
    /\ now' = c[1] /\ stage' = "between"
    /\ cancels' = cancels \ {c}
    /\ Drop({c[2]} \cap resting)
    /\ revoked' = revoked \cup {c[2]}
    /\ UNCHANGED <<ledger, fed, markets, placed, order, due, work, depth, payouts>>

----------------------------------------------------------------------------
(* The feed. *)

FeedEvent == stage = "batch" /\ fed < MaxFeed /\ fed' = fed + 1 /\ now' = now

\* BookConfirm: the books are current, of one market or of all.
ConfirmBooks(ms) ==
    /\ FeedEvent
    /\ bookTs' = [m \in Market |-> IF m \in ms /\ book[m] # None THEN now ELSE bookTs[m]]
    /\ UNCHANGED <<ledger, stage, book, closed, orders, records, work, depth, history>>

\* BookUpdate: the book is replaced, and then on_book for our orders there.
UpdateBook(m, b) ==
    /\ FeedEvent
    /\ book' = [book EXCEPT ![m] = b]
    /\ bookTs' = [bookTs EXCEPT ![m] = now]
    /\ shown' = [shown EXCEPT ![m] = b]
    /\ used' = [used EXCEPT ![m] = NoDepth]
    /\ mids' = [mids EXCEPT ![m] = MidsWith(@, b)]
    /\ todo' = RestingIn(m)
    /\ stage' = "book"
    /\ UNCHANGED <<ledger, closed, orders, records, tick, budget, taking, history>>

\* TradeTick: our orders there are matched with the print.
TradeTick(m, p) ==
    /\ FeedEvent
    /\ todo' = RestingIn(m)
    /\ tick' = p /\ budget' = p.count
    /\ stage' = "print"
    /\ UNCHANGED <<ledger, markets, orders, records, taking, depth, history>>

\* MarketClose
CloseMarket(m) ==
    /\ FeedEvent
    /\ closed' = [closed EXCEPT ![m] = TRUE]
    /\ Drop(RestingIn(m))
    /\ UNCHANGED <<ledger, stage, book, bookTs, orders, work, depth, history>>

\* Fault: settling does not cancel what rests.
SettleOnly(m, value) ==
    /\ FeedEvent
    /\ closed' = [closed EXCEPT ![m] = TRUE]
    /\ Settle(m, value)
    /\ UNCHANGED <<stage, book, bookTs, orders, records, work, depth, history>>

\* Fault: the outcome is announced and the account is not paid.
SettleUnpaid(m, value) ==
    /\ FeedEvent
    /\ closed' = [closed EXCEPT ![m] = TRUE]
    /\ Drop(RestingIn(m))
    /\ Announce(m, value)
    /\ UNCHANGED <<cash, realised, fees, held, bought, spent, stage, book, bookTs, orders,
                   work, depth, history>>

\* Settlement
SettleMarket(m, value) ==
    /\ FeedEvent
    /\ closed' = [closed EXCEPT ![m] = TRUE]
    /\ Drop(RestingIn(m))
    /\ Settle(m, value)
    /\ payouts' = [payouts EXCEPT ![m] = @ + Payoff(held[m], value) - CostOf(held[m])]
    /\ UNCHANGED <<stage, book, bookTs, orders, work, depth, revoked>>

----------------------------------------------------------------------------
(* Maker fills. *)

First(ids) == CHOOSE id \in ids : \A other \in ids : id <= other

MakerFee(price, qty) == OrderFee(FeeRounding, MakerRate, <<[price |-> price, qty |-> qty]>>)

\* The queue state, cash and record of an order after it has been matched:
\* _maker_fill if it was filled at all.
MakerFill(id, q) ==
    LET o == order[id]
        got == queue[id].left - q.left
    IN  /\ queue' = [queue EXCEPT ![id] = IF q.left = 0 THEN NoQueue ELSE q]
        /\ resting' = IF q.left = 0 THEN resting \ {id} ELSE resting
        /\ reserved' = [reserved EXCEPT ![id] = o.price * q.left]
        /\ filled' = [filled EXCEPT ![id] = @ + got]
        /\ \/ got = 0 /\ UNCHANGED <<ledger, status, log>>
           \/ /\ got > 0
              /\ Buy(o.market, o.side, o.price, got, MakerFee(o.price, got))
              /\ log' = Append(log, Fill(id, o.price, got, MakerFee(o.price, got), "maker"))
              /\ status' = [status EXCEPT ![id] = IF q.left = 0 THEN "filled" ELSE "partial"]

\* on_book of the next order.
QueueAfterSnapshot(id) ==
    LET o == order[id]
        b == book[o.market]
    IN  IF CrossedBy(b, o.side, o.price) THEN [queue[id] EXCEPT !.left = 0]
        ELSE QueueAfterBook(MakerModel, queue[id], b[<<o.side, o.price>>])

MatchBook(id) ==
    /\ stage = "book" /\ todo # {} /\ id = First(todo)
    /\ MakerFill(id, QueueAfterSnapshot(id))
    /\ todo' = todo \ {id}
    /\ UNCHANGED <<loop, markets, orders, tick, budget, taking, depth, history>>

\* What of the print is left to an order: at its level the orders before it
\* have had theirs.
CountFor(id) ==
    IF TradePrice(order[id].side, tick) = order[id].price THEN budget ELSE tick.count

MatchPrint(id) ==
    LET o == order[id]
        q == QueueAfterPrint(MakerModel, queue[id], o.side, o.price, tick, CountFor(id))
    IN  /\ stage = "print" /\ todo # {} /\ id = First(todo)
        /\ MakerFill(id, q)
        /\ budget' = IF AtLevel(o.side, o.price, tick)
                     THEN MaxOf(0, budget - (queue[id].left - q.left) - (queue[id].ahead - q.ahead))
                     ELSE budget
        /\ todo' = todo \ {id}
        /\ UNCHANGED <<loop, markets, orders, tick, taking, depth, history>>

\* Every order has been matched; the next event of the batch.
Matched ==
    /\ stage \in {"book", "print"} /\ todo = {}
    /\ stage' = "batch"
    /\ tick' = None /\ budget' = 0
    /\ UNCHANGED <<ledger, now, fed, markets, orders, records, todo, taking, depth, history>>

----------------------------------------------------------------------------
(* An order arrives: _on_order_arrival. *)

Arriving(id) ==
    /\ LoopGoesOn
    /\ id \in Submitted /\ id = First({i \in Submitted : due[i] = due[id]})
    /\ NoArrivalBefore(due[id]) /\ NoCancelBefore(due[id])
    /\ now' = due[id]

AllReserved == Total(reserved, placed)

Marketable(id) ==
    LET o == order[id]
    IN  book[o.market] # None /\ CrossedBy(book[o.market], o.side, o.price)

\* Fault: what other resting orders have reserved is not deducted.
CanPayOnce(o) == cash >= o.price * o.qty

\* The check of the buying power.
CanPay(o) == cash - AllReserved >= o.price * o.qty

Accepted(id) ==
    LET o == order[id]
    IN  /\ ~closed[o.market]
        /\ o.qty > 0 /\ CheckPrice(o.price)
        /\ CanPay(o)
        /\ Marketable(id) => o.tif # "post_only"

\* The book is recent enough to be taken from.
Fresh(id) == MaxStaleness = None \/ due[id] - bookTs[order[id].market] <= MaxStaleness

\* TakerModel.execute
Executed(id) ==
    LET o == order[id]
    IN  IF Marketable(id) /\ Fresh(id)
        THEN Taken(book[o.market], o.side, o.price, o.qty)
        ELSE [ask \in Tick |-> 0]

AllTaken(taken) == Total(taken, PriceScale - 1)

TakerFee(taken) ==
    OrderFee(FeeRounding, TakerRate,
             [ask \in Tick |-> [price |-> ask + Slippage, qty |-> taken[ask]]])

\* _reject
Reject(id) ==
    /\ Arriving(id) /\ ~Accepted(id)
    /\ stage' = "between"
    /\ status' = [status EXCEPT ![id] = "rejected"]
    /\ UNCHANGED <<ledger, fed, markets, orders, filled, log, resting, queue, reserved,
                   work, depth, history>>

\* What becomes of an order when it has taken what it can; b is the book then.
Remainder(id, b) ==
    LET o == order[id]
        left == o.qty - filled[id]
        rests == left > 0 /\ o.tif # "ioc"
    IN  /\ status' = [status EXCEPT ![id] =
               IF left = 0 THEN "filled"
               ELSE IF filled[id] > 0 THEN "partial"
               ELSE IF rests THEN "resting" ELSE "expired"]
        /\ resting' = IF rests THEN resting \cup {id} ELSE resting
        /\ reserved' = [reserved EXCEPT ![id] = IF rests THEN o.price * left ELSE 0]
        /\ queue' = [queue EXCEPT ![id] =
               IF rests
               THEN OnPlace(MakerModel, left, IF b = None THEN 0 ELSE b[<<o.side, o.price>>])
               ELSE NoQueue]
        /\ UNCHANGED <<filled, log>>

\* Nothing can be taken: the order rests or expires.
Rest(id) ==
    /\ Arriving(id) /\ Accepted(id) /\ AllTaken(Executed(id)) = 0
    /\ stage' = "between"
    /\ Remainder(id, book[order[id].market])
    /\ UNCHANGED <<ledger, fed, markets, orders, work, depth, history>>

\* The order takes what it can; its fills are recorded one by one.
Take(id) ==
    /\ Arriving(id) /\ Accepted(id) /\ AllTaken(Executed(id)) > 0
    /\ stage' = "filling"
    /\ taking' = [id |-> id, taken |-> Executed(id), level |-> 1, fee |-> TakerFee(Executed(id))]
    /\ UNCHANGED <<ledger, fed, markets, orders, records, todo, tick, budget, depth, history>>

\* The asks whose fills are still to be recorded.
Unrecorded == {ask \in Tick : ask >= taking.level /\ taking.taken[ask] > 0}

\* The fee is split by quantity and the last fill has what is left of it.
FeeShare(ask) ==
    IF Unrecorded = {ask} THEN taking.fee
    ELSE (TakerFee(taking.taken) * taking.taken[ask]) \div AllTaken(taking.taken)

\* _record_fills of the next fill.
RecordFill(ask) ==
    LET o == order[taking.id]
    IN  /\ stage = "filling" /\ Unrecorded # {} /\ ask = First(Unrecorded)
        /\ Buy(o.market, o.side, ask + Slippage, taking.taken[ask], FeeShare(ask))
        /\ filled' = [filled EXCEPT ![taking.id] = @ + taking.taken[ask]]
        /\ log' = Append(log, Fill(taking.id, ask + Slippage, taking.taken[ask], FeeShare(ask), "taker"))
        /\ taking' = [taking EXCEPT !.level = ask + 1, !.fee = @ - FeeShare(ask)]
        /\ UNCHANGED <<loop, markets, orders, status, resting, queue, reserved,
                       todo, tick, budget, depth, history>>

\* The fills are taken out of the book, and the remainder rests or is dropped.
FillsRecorded ==
    LET id == taking.id
        m == order[id].market
        side == order[id].side
        b == AfterTaker(book[m], side, taking.taken)
    IN  /\ stage = "filling" /\ Unrecorded = {}
        /\ book' = [book EXCEPT ![m] = b]
        /\ used' = [used EXCEPT ![m] = [c \in Cell |->
               IF c[1] = Opposite(side) THEN @[c] + taking.taken[Complement(c[2])] ELSE @[c]]]
        /\ Remainder(id, b)
        /\ stage' = "between" /\ taking' = None
        /\ UNCHANGED <<ledger, now, fed, bookTs, closed, orders, todo, tick, budget, shown, mids, history>>

----------------------------------------------------------------------------

StrategyActs ==
    \/ \E o \in Orders : Submit(o)
    \/ \E id \in 1 .. placed : RequestCancel(id)

FeedActs ==
    \/ \E t \in 1 .. MaxTime : BatchStarts(t)
    \/ \E ms \in {{m} : m \in Market} \cup {Market} : ConfirmBooks(ms)
    \/ \E u \in Updates : UpdateBook(u[1], u[2])
    \/ \E p \in Trades : TradeTick(p[1], p[2])
    \/ \E m \in Market : CloseMarket(m)
    \/ \E s \in Outcomes : SettleMarket(s[1], s[2])
    \/ \E id \in todo : MatchBook(id)
    \/ \E id \in todo : MatchPrint(id)
    \/ Matched
    \/ BatchEnds

ScheduledActs ==
    \/ \E id \in 1 .. placed : Reject(id)
    \/ \E id \in 1 .. placed : Rest(id)
    \/ \E id \in 1 .. placed : Take(id)
    \/ \E ask \in Tick : RecordFill(ask)
    \/ FillsRecorded
    \/ \E c \in cancels : CancelArrives(c)
    \/ \E t \in WakeTimes : WakeUp(t)

EngineNext ==
    \/ StrategyActs
    \/ FeedActs
    \/ ScheduledActs
    \/ Finish

EngineSpec == EngineInit /\ [][EngineNext]_engine

----------------------------------------------------------------------------
(* Properties. *)

(***************************************************************************)
(* engine.py: cash is reserved for resting buy orders, so no order can     *)
(* create leverage the account lacks.  Up to fees, which nothing reserves: *)
(* what all resting orders may still cost is there.                        *)
(***************************************************************************)
NoLeverage == cash + fees >= AllReserved

(***************************************************************************)
(* The doc's "No leverage" as it stands: fees included.                    *)
(***************************************************************************)
NeverOverdrawn == cash >= AllReserved

\* The reservations are exactly those of the resting orders, at what is left of them,
\* whichever way the others went: filled in parts by takes, prints and crossings, cancelled,
\* closed or settled.
ReservedIsExact ==
    \A id \in 1 .. placed :
        /\ reserved[id] = (IF id \in resting THEN order[id].price * queue[id].left ELSE 0)
        /\ id \in resting => queue[id].left > 0 /\ queue[id].left + filled[id] = order[id].qty

\* Everything the records say was bought of a side.
FilledOf(m, side) ==
    Total([id \in 1 .. placed |->
        IF order[id].market = m /\ order[id].side = side THEN filled[id] ELSE 0], placed)

(***************************************************************************)
(* The records, the list of resting orders, what is reserved for them and  *)
(* the ledger tell one story.                                              *)
(***************************************************************************)
RecordsAgree ==
    /\ ReservedIsExact
    /\ \A m \in Market, side \in Side : bought[m][side] = FilledOf(m, side)
    /\ \A id \in 1 .. placed : stage # "filling" =>
        /\ status[id] \in {"submitted", "rejected", "resting", "cancelled", "expired"}
               => filled[id] = 0
        /\ status[id] = "filled" => filled[id] = order[id].qty
        /\ status[id] = "partial" => 0 < filled[id] /\ filled[id] < order[id].qty
        /\ status[id] = "resting" => id \in resting
        /\ id \in resting => status[id] \in {"resting", "partial"}

(***************************************************************************)
(* fills.py: a second order in the same snapshot cannot re-use what our    *)
(* takers consumed, so together they take no more than was displayed.      *)
(***************************************************************************)
DepthIsConsumed == \A m \in Market, c \in Cell : used[m][c] <= shown[m][c]

(***************************************************************************)
(* Nothing is filled when it is over: in a closed or settled market        *)
(* nothing rests and nothing is bought any more, and a cancel that arrived *)
(* is final, if it cannot overtake its order (the order arrives first at   *)
(* the same instant).                                                      *)
(***************************************************************************)
NoLateFill ==
    [][ /\ \A m \in Market : closed[m] =>
               closed'[m] /\ bought'[m] = bought[m] /\ RestingIn(m) = {}
        /\ CancelLatency >= SubmitLatency =>
               \A id \in revoked : id \notin resting /\ filled'[id] = filled[id] ]_engine

(***************************************************************************)
(* Events take effect in time order: time never runs backwards, an order   *)
(* is decided at the instant it arrives and sees the feed of that instant. *)
(***************************************************************************)
InTimeOrder ==
    [][ /\ now' >= now
        /\ \A id \in Submitted : status'[id] # "submitted" \/ filled'[id] > filled[id]
               => now' = due[id] ]_engine

\* What a step of a ledger is, with the quantity and the fee found from what the step adds.
LedgerStep ==
    \/ \E m \in Market, side \in Side, price \in Price :
           \E qty \in {bought'[m][side] - bought[m][side]} \cap (Nat \ {0}), fee \in {fees' - fees} \cap Nat :
               Buy(m, side, price, qty, fee)
    \/ \E m \in Market, value \in Value : Settle(m, value)

(***************************************************************************)
(* The engine touches the account only through Portfolio.buy and           *)
(* Portfolio.settle, with quantities, prices and fees that a ledger takes  *)
(* and never in a settled market: seen from the account, it is a ledger.   *)
(***************************************************************************)
ImplementsLedger == LedgerInit /\ [][LedgerStep]_ledger

=============================================================================
