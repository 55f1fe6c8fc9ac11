------------------------------- MODULE Quoting -------------------------------
(***************************************************************************)
(* Inventory risk of binary contracts (market_making/risk.py): what a      *)
(* position can lose at settlement, over the worlds an event's relations   *)
(* admit, and the limits that cut the size of a quote.  Quantities are in  *)
(* units, Contract of them to a contract; money is price times quantity.   *)
(*                                                                         *)
(* And the quotes of a market maker in a bounded claim                     *)
(* (market_making/quoting.py).  Reservation prices come from a table: the  *)
(* certainty equivalents of the code are logarithms, and what follows uses *)
(* only what its tests assert of them, that they are prices and that they  *)
(* fall as inventory grows.  Prices are in ticks, reservation prices in    *)
(* Fine parts of a tick; rounding to the tick and clipping are exact.      *)
(***************************************************************************)
EXTENDS Portfolio, FiniteSetsExt

CONSTANTS
    Contract,           \* units of a contract (100 centi-contracts)
    EventOf,            \* event_of: the event of each market, or None
    Worlds,             \* admissible outcomes of an event; {} when nothing is known
    MaxPosition,        \* RiskLimits, in units
    MaxEventLoss,
    MaxPortfolioLoss,
    KillLoss,           \* max_portfolio_loss_usd * 1.05
    MaxDrawdown

ASSUME RiskAssumption ==
    /\ Contract \in Nat \ {0} /\ MaxPosition \in Nat
    /\ MaxEventLoss \in Nat /\ MaxPortfolioLoss \in Nat
    /\ KillLoss \in Nat /\ MaxPortfolioLoss <= KillLoss /\ MaxDrawdown \in Nat
    /\ DOMAIN EventOf = Market
    /\ \A m \in Market : EventOf[m] # None => EventOf[m] \in DOMAIN Worlds

IsFlat(h) == h.qty["YES"] = 0 /\ h.qty["NO"] = 0

NetYes(h) == h.qty["YES"] - h.qty["NO"]

\* Exposure
PnlIfYes(h) == PriceScale * h.qty["YES"] - CostOf(h)
PnlIfNo(h) == PriceScale * h.qty["NO"] - CostOf(h)
Worst(h) == MinOf(PnlIfYes(h), PnlIfNo(h))

\* Settlement P&L in one world; a market that the world leaves open may go either way.
PnlIn(world, positions) ==
    MapThenSumSet(LAMBDA m :
        IF m \notin DOMAIN world THEN Worst(positions[m])
        ELSE IF world[m] = 1 THEN PnlIfYes(positions[m]) ELSE PnlIfNo(positions[m]),
        DOMAIN positions)

\* event_worst_case
EventWorstCase(positions, worlds) ==
    IF positions = <<>> THEN 0
    ELSE IF worlds = {} THEN MapThenSumSet(LAMBDA m : Worst(positions[m]), DOMAIN positions)
    ELSE Min({PnlIn(w, positions) : w \in worlds})

\* partition_worlds
PartitionWorlds(ms) == {[m \in ms |-> IF m = winner THEN 1 ELSE 0] : winner \in ms}

EventLoss(e, positions) ==
    LET ms == {m \in DOMAIN positions : EventOf[m] = e /\ ~IsFlat(positions[m])}
    IN  MaxOf(0, -EventWorstCase([m \in ms |-> positions[m]], Worlds[e]))

PortfolioLoss(positions) ==
    LET events == {EventOf[m] : m \in {k \in DOMAIN positions : ~IsFlat(positions[k])}} \ {None}
    IN  MapThenSumSet(LAMBDA e : EventLoss(e, positions), events)

----------------------------------------------------------------------------
(* RiskMonitor.headroom *)

\* Fault: what is already held is not deducted.
RoomForAny(h, side) == MaxPosition

\* What the position limit leaves on one side.
Room(h, side) == IF side = "YES" THEN MaxPosition - NetYes(h) ELSE MaxPosition + NetYes(h)

PositionIn(positions, m) == IF m \in DOMAIN positions THEN positions[m] ELSE Flat

\* The position a fill would leave, before any netting, fits both loss limits.
FitsAfter(positions, m, side, price, qty) ==
    LET after == [k \in DOMAIN positions \cup {m} |->
                     IF k = m THEN Added(PositionIn(positions, m), side, price, qty)
                     ELSE positions[k]]
    IN  /\ EventLoss(EventOf[m], after) <= MaxEventLoss
        /\ PortfolioLoss(after) <= MaxPortfolioLoss

\* The loop tries twelve sizes.
Divisors == {1, 2, 4, 8, 16, 32, 64, 128, 256, 512, 1024, 2048}

\* The size after halvings by d in all, each down to whole contracts.
Halved(qty, d) == IF d = 1 THEN qty ELSE (qty \div (Contract * d)) * Contract

Headroom(positions, m, side, price, want) ==
    LET most == MaxOf(0, MinOf(want, Room(PositionIn(positions, m), side)))
        fitting == {d \in Divisors :
                       /\ d > 1 => Halved(most, d) >= Contract
                       /\ FitsAfter(positions, m, side, price, Halved(most, d))}
    IN  IF most = 0 \/ EventOf[m] = None THEN most
        ELSE IF fitting = {} THEN 0
        ELSE Halved(most, Min(fitting))

\* RiskMonitor.check trips: the drawdown from the peak, or the hard loss limit.
Trips(peak, equity, positions) ==
    \/ peak - equity >= MaxDrawdown
    \/ PortfolioLoss(positions) > KillLoss

----------------------------------------------------------------------------
CONSTANTS
    Fine,           \* parts of a tick
    Gamma,          \* the risk aversions used
    Inventory,      \* the net positions, in units, that the table covers
    Fairs,          \* the fair values it covers, in half ticks
    ReservationBid  \* [Gamma -> [Inventory -> [Fairs -> parts of a tick]]]

ASSUME QuotingAssumption ==
    /\ Fine \in Nat \ {0} /\ Inventory \subseteq Int /\ Fairs \subseteq Int
    /\ \A g \in Gamma, q \in Inventory, f \in Fairs :
           /\ ReservationBid[g][q][f] \in 0 .. Fine * PriceScale
           /\ q + Contract \in Inventory => ReservationBid[g][q + Contract][f] <= ReservationBid[g][q][f]

\* reservation_ask: what one contract less would be bid for.
ReservationAsk(g, q, fair) == ReservationBid[g][q - Contract][fair]

\* raw_quotes
RawBid(g, q, fair, half) == ReservationBid[g][q][fair] - half
RawAsk(g, q, fair, half) == ReservationAsk(g, q, fair) + half

FloorTick(x) == x \div Fine
CeilTick(x) == -((-x) \div Fine)

Quotable(price) == price \in 1 .. PriceScale - 1

\* Rounded away from the reservation price and kept off the other side.
BidTick(raw, bestAsk) == MinOf(FloorTick(raw), bestAsk - 1)
AskTick(raw, bestBid) == MaxOf(CeilTick(raw), bestBid + 1)

\* quote: the YES bid and the YES ask, each None when it cannot be quoted.
QuoteAround(g, q, fair, half, bestBid, bestAsk) ==
    LET bid == BidTick(RawBid(g, q, fair, half), bestAsk)
        ask == AskTick(RawAsk(g, q, fair, half), bestBid)
        meet == Quotable(bid) /\ Quotable(ask) /\ bid >= ask
    IN  [bid |-> IF Quotable(bid) /\ ~meet THEN bid ELSE None,
         ask |-> IF Quotable(ask) /\ ~meet THEN ask ELSE None]
=============================================================================
