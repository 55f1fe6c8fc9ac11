------------------------------ MODULE OrderBook ------------------------------
(***************************************************************************)
(* The limit order book of one binary market (market/order_book.py).      *)
(*                                                                         *)
(* The exchange publishes bids only, on the YES and on the NO side, and    *)
(* asks are derived from the opposite bids.  The code keeps one map from   *)
(* price to quantity per side and stores no level of quantity zero; a book *)
(* here is a total function on <<side, price>> with 0 for an absent level. *)
(***************************************************************************)
EXTENDS Integers, Sequences

\* Python's min(), max() and sum() of integers.
MinOf(a, b) == IF a <= b THEN a ELSE b
MaxOf(a, b) == IF a <= b THEN b ELSE a

\* f[1] + ... + f[n]
Total(f, n) ==
    LET sum[i \in 0 .. n] == IF i = 0 THEN 0 ELSE sum[i-1] + f[i]
    IN  sum[n]

CONSTANTS
    PriceScale,     \* one dollar in price ticks (PRICE_SCALE)
    Quote           \* the prices a message can carry, in and out of range

ASSUME OrderBookAssumption == PriceScale \in Nat \ {0} /\ Quote \subseteq Int

Side == {"YES", "NO"}

Opposite(side) == IF side = "YES" THEN "NO" ELSE "YES"

\* The price in ticks of the other side's contract (units.complement).
Complement(price) == PriceScale - price

\* OrderBook._check_price: a bid price is strictly between $0 and $1.
CheckPrice(price) == 0 < price /\ price < PriceScale

Price == {p \in Quote : CheckPrice(p)}

Cell == Side \X Price       \* where a book can hold quantity
AnyCell == Side \X Quote    \* where a message can say there is some

Book == [Cell -> Nat]

(***************************************************************************)
(* A snapshot message lists levels in any order.  What matters is which    *)
(* quantities it lists at each cell: nothing, one, or (a fault) several.   *)
(***************************************************************************)
Listing == [AnyCell -> Seq(Int)]

\* What an exchange sends for a book: each level once, no empty level.
ListingOf(book) ==
    [c \in AnyCell |-> IF c \in Cell /\ book[c] > 0 THEN <<book[c]>> ELSE <<>>]

\* OrderBook._validated accepts both sides of a snapshot.
SnapshotOK(listing) ==
    \A c \in AnyCell : listing[c] # <<>> =>
        /\ CheckPrice(c[2])
        /\ Len(listing[c]) = 1
        /\ listing[c][1] >= 0

\* OrderBook.apply_snapshot of an accepted listing: it replaces the whole book.
FromListing(listing) ==
    [c \in Cell |-> IF listing[c] = <<>> THEN 0 ELSE listing[c][1]]

\* Fault: a reduction below zero is not caught.
DeltaOKBelowZero(book, cell, delta) == CheckPrice(cell[2])

\* OrderBook.apply_delta does not raise.
DeltaOK(book, cell, delta) == CheckPrice(cell[2]) /\ book[cell] + delta >= 0

\* OrderBook.apply_delta of an accepted change.
WithDelta(book, cell, delta) == [book EXCEPT ![cell] = @ + delta]

----------------------------------------------------------------------------

\* The prices with resting quantity on one side.
BidPrices(book, side) == {p \in Price : book[<<side, p>>] > 0}

\* OrderBook.best_bid is not None, and its price.
HasBid(book, side) == BidPrices(book, side) # {}
BestBid(book, side) ==
    CHOOSE p \in BidPrices(book, side) : \A q \in BidPrices(book, side) : q <= p

\* OrderBook.best_ask: the complement of the best bid of the other side.
BestAsk(book, side) == Complement(BestBid(book, Opposite(side)))

=============================================================================
