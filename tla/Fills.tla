-------------------------------- MODULE Fills --------------------------------
(***************************************************************************)
(* The fill models (backtest/fills.py): what the recorded market lets an   *)
(* order have.  A taker walks the derived asks of the last book; a resting *)
(* order waits behind the quantity a queue model assumes ahead of it.      *)
(***************************************************************************)
EXTENDS OrderBook

CONSTANTS
    DepthFraction,  \* TakerModel.depth_fraction, as <<numerator, denominator>>
    Slippage        \* TakerModel.extra_slippage_ticks

Tick == 1 .. PriceScale - 1

IsShare(s) == s \in Nat \X (Nat \ {0}) /\ s[1] <= s[2]

ASSUME FillsAssumption ==
    Tick \subseteq Quote /\ Slippage \in Nat /\ IsShare(DepthFraction)

\* int(share * quantity)
Share(s, n) == (s[1] * n) \div s[2]

\* A queue model; throughOnly is the pessimistic one.
QueueModel == [alpha : {s \in Nat \X (Nat \ {0}) : IsShare(s)},
               cancel : {s \in Nat \X (Nat \ {0}) : IsShare(s)},
               throughOnly : BOOLEAN]

\* A print of the tape; price is the YES price.
TradePrint == [taker : Side, price : Tick, count : Nat \ {0}]

\* What a queue model knows of a resting order: what is left to fill, what is
\* ahead of it, the level at the last book and what traded there since.
Queue == [left : Nat, ahead : Nat, level : Nat, traded : Nat]

----------------------------------------------------------------------------
(* Taker. *)

\* What a level of the derived asks offers a buyer of side within limit.
Offered(book, side, limit, ask) ==
    IF ask + Slippage <= limit
    THEN Share(DepthFraction, book[<<Opposite(side), Complement(ask)>>])
    ELSE 0

\* TakerModel.execute: what is taken of each ask, the best asks first.
Taken(book, side, limit, qty) ==
    LET offered == [ask \in Tick |-> Offered(book, side, limit, ask)]
    IN  [ask \in Tick |-> MinOf(qty, Total(offered, ask)) - MinOf(qty, Total(offered, ask - 1))]

\* Fault: what we took is still in the book.
AfterTakerNothing(book, side, taken) == book

\* apply_taker_fills_to_book: the fill prices are looked up in the book, and a
\* level that does not hold the quantity there is left as it is.
AfterTaker(book, side, taken) ==
    [c \in Cell |->
        LET ask == Complement(c[2]) - Slippage
            took == IF c[1] = Opposite(side) /\ ask \in Tick THEN taken[ask] ELSE 0
        IN  IF took <= book[c] THEN book[c] - took ELSE book[c]]

----------------------------------------------------------------------------
(* Maker. *)

\* hits_side and trade_price
Hits(side, tick) == tick.taker = Opposite(side)
TradePrice(side, tick) == IF side = "YES" THEN tick.price ELSE Complement(tick.price)

\* QueueModel.on_place
OnPlace(model, qty, size) ==
    [left |-> qty, ahead |-> Share(model.alpha, size), level |-> size, traded |-> 0]

\* QueueModel.on_trade: what the print fills, and the queue after it.
AtLevel(side, price, tick) == Hits(side, tick) /\ TradePrice(side, tick) = price
Through(side, price, tick) == Hits(side, tick) /\ TradePrice(side, tick) < price

Consumed(q, count) == MinOf(q.ahead, count)

\* Fault: a print fills more than is left of the order.
FilledBeyondLeft(model, q, side, price, tick, count) ==
    IF Through(side, price, tick) THEN q.left
    ELSE IF AtLevel(side, price, tick) /\ ~model.throughOnly
    THEN count - Consumed(q, count)
    ELSE 0

FilledByPrint(model, q, side, price, tick, count) ==
    IF Through(side, price, tick) THEN q.left
    ELSE IF AtLevel(side, price, tick) /\ ~model.throughOnly
    THEN MinOf(q.left, count - Consumed(q, count))
    ELSE 0

QueueAfterPrint(model, q, side, price, tick, count) ==
    IF AtLevel(side, price, tick) /\ ~model.throughOnly
    THEN [q EXCEPT !.left = @ - FilledByPrint(model, q, side, price, tick, count),
                   !.ahead = @ - Consumed(q, count),
                   !.traded = @ + count]
    ELSE [q EXCEPT !.left = @ - FilledByPrint(model, q, side, price, tick, count)]

\* QueueModel.on_book: a market offering at or below our price fills us.
CrossedBy(book, side, price) == HasBid(book, Opposite(side)) /\ BestAsk(book, side) <= price

\* Fault: unexplained decreases put orders ahead of us.
QueueAfterBookReversed(model, q, size) ==
    LET expected == MaxOf(0, q.level - q.traded)
        gone == IF size < expected THEN Share(model.cancel, expected - size) ELSE 0
    IN  [q EXCEPT !.ahead = MaxOf(0, MinOf(q.ahead + gone, size)),
                  !.level = size, !.traded = 0]

\* Otherwise decreases that no print explains are cancellations.
QueueAfterBook(model, q, size) ==
    LET expected == MaxOf(0, q.level - q.traded)
        gone == IF size < expected THEN Share(model.cancel, expected - size) ELSE 0
    IN  [q EXCEPT !.ahead = MaxOf(0, MinOf(q.ahead - gone, size)),
                  !.level = size, !.traded = 0]

=============================================================================
