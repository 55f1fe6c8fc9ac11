------------------------------ MODULE Portfolio ------------------------------
(***************************************************************************)
(* Portfolio (backtest/portfolio.py): exact integer accounting.  Every     *)
(* order buys a side; a YES and a NO of one market are netted into one     *)
(* dollar at once, the cost of what is netted being split off by integer   *)
(* division.  Money is price times quantity, so nothing is ever rounded    *)
(* except that split.                                                      *)
(***************************************************************************)
EXTENDS OrderBook

CONSTANTS
    NumMarkets,     \* markets, numbered from 1
    InitialCash,    \* cash at the start
    None            \* Python's None

Market == 1 .. NumMarkets
Value == 0 .. PriceScale        \* what a YES can pay; fractional for void markets

ASSUME PortfolioAssumption ==
    NumMarkets \in Nat /\ InitialCash \in Nat /\ None \notin Value

VARIABLES
    \* Portfolio
    cash,
    realised,
    fees,
    held,           \* positions: per market, quantity and cost of each side
    settled,        \* settled: the value last announced for a market, or None
    \* the fill log and the settlements, summed up independently
    bought,         \* per market and side, everything ever bought
    spent,          \* everything ever paid for it, without fees
    paidAt          \* the value first announced for a market, or None

ledger == <<cash, realised, fees, held, settled, bought, spent, paidAt>>

Holding == [qty : [Side -> Nat], cost : [Side -> Nat]]
Flat == [qty |-> [s \in Side |-> 0], cost |-> [s \in Side |-> 0]]

LedgerTypeOK ==
    /\ cash \in Int /\ realised \in Int /\ fees \in Nat /\ spent \in Nat
    /\ held \in [Market -> Holding]
    /\ settled \in [Market -> Value \cup {None}]
    /\ paidAt \in [Market -> Value \cup {None}]
    /\ bought \in [Market -> [Side -> Nat]]

LedgerInit ==
    /\ cash = InitialCash /\ realised = 0 /\ fees = 0 /\ spent = 0
    /\ held = [m \in Market |-> Flat]
    /\ settled = [m \in Market |-> None]
    /\ paidAt = [m \in Market |-> None]
    /\ bought = [m \in Market |-> [s \in Side |-> 0]]

----------------------------------------------------------------------------

\* The contracts that can be netted.
Pairs(h) == MinOf(h.qty["YES"], h.qty["NO"])

CostOf(h) == h.cost["YES"] + h.cost["NO"]

\* Fault: a side that is netted away entirely leaves its cost behind.
NettedCostLeftBehind(h, side) ==
    IF Pairs(h) < h.qty[side]
    THEN (h.cost[side] * Pairs(h)) \div h.qty[side]
    ELSE 0

\* What side paid for the contracts that are netted away.
NettedCost(h, side) ==
    IF Pairs(h) < h.qty[side]
    THEN (h.cost[side] * Pairs(h)) \div h.qty[side]
    ELSE h.cost[side]

\* Portfolio._net: what is left of a position.
Netted(h) ==
    IF Pairs(h) = 0 THEN h
    ELSE [qty |-> [s \in Side |-> h.qty[s] - Pairs(h)],
          cost |-> [s \in Side |-> h.cost[s] - NettedCost(h, s)]]

\* The position of Portfolio.buy before it is netted.
Added(h, side, price, qty) ==
    [qty |-> [h.qty EXCEPT ![side] = @ + qty],
     cost |-> [h.cost EXCEPT ![side] = @ + price * qty]]

\* Fault: a pair is netted into what it cost.
BuyNettingAtCost(m, side, price, qty, fee) ==
    LET h == Added(held[m], side, price, qty)
    IN  /\ settled[m] = None
        /\ cash' = cash - (price * qty + fee) + (CostOf(h) - CostOf(Netted(h)))
        /\ fees' = fees + fee
        /\ realised' = realised
        /\ held' = [held EXCEPT ![m] = Netted(h)]
        /\ bought' = [bought EXCEPT ![m][side] = @ + qty]
        /\ spent' = spent + price * qty
        /\ UNCHANGED <<settled, paidAt>>

\* Portfolio.buy; it raises when the market is already settled.
Buy(m, side, price, qty, fee) ==
    LET h == Added(held[m], side, price, qty)
    IN  /\ settled[m] = None
        /\ cash' = cash - (price * qty + fee) + PriceScale * Pairs(h)
        /\ fees' = fees + fee
        /\ realised' = realised + PriceScale * Pairs(h) - (CostOf(h) - CostOf(Netted(h)))
        /\ held' = [held EXCEPT ![m] = Netted(h)]
        /\ bought' = [bought EXCEPT ![m][side] = @ + qty]
        /\ spent' = spent + price * qty
        /\ UNCHANGED <<settled, paidAt>>

Payoff(h, value) == value * h.qty["YES"] + (PriceScale - value) * h.qty["NO"]

\* The first announcement is the one that pays.
Announce(m, value) ==
    /\ settled' = [settled EXCEPT ![m] = value]
    /\ paidAt' = IF settled[m] = None THEN [paidAt EXCEPT ![m] = value] ELSE paidAt

\* Fault: the settled position keeps its contracts.
SettleKeepingPosition(m, value) ==
    /\ Announce(m, value)
    /\ cash' = cash + Payoff(held[m], value)
    /\ realised' = realised + Payoff(held[m], value) - CostOf(held[m])
    /\ UNCHANGED <<fees, held, bought, spent>>

\* Portfolio.settle.  A settlement can be announced again, and a flat position
\* is paid nothing.
Settle(m, value) ==
    /\ Announce(m, value)
    /\ cash' = cash + Payoff(held[m], value)
    /\ realised' = realised + Payoff(held[m], value) - CostOf(held[m])
    /\ held' = [held EXCEPT ![m] = Flat]
    /\ UNCHANGED <<fees, bought, spent>>

\* Callers buy positive quantities at valid prices.
LedgerNext ==
    \/ \E m \in Market, side \in Side, price \in Price, qty \in Nat \ {0}, fee \in Nat :
           Buy(m, side, price, qty, fee)
    \/ \E m \in Market, value \in Value : Settle(m, value)

LedgerSpec == LedgerInit /\ [][LedgerNext]_ledger

----------------------------------------------------------------------------
(* Properties. *)

(***************************************************************************)
(* Exchange rules: YES and NO of one market are never both held, and what  *)
(* is held cost less than a dollar a contract, so that a flat side has no  *)
(* cost left behind by the integer split.                                  *)
(***************************************************************************)
HoldingsAreSound ==
    \A m \in Market :
        /\ held[m].qty["YES"] = 0 \/ held[m].qty["NO"] = 0
        /\ \A s \in Side : held[m].cost[s] <= PriceScale * held[m].qty[s]

(***************************************************************************)
(* The conservation identity of portfolio.py: with positions at cost,      *)
(* cash + cost of positions = initial cash + realised - fees, exactly.     *)
(***************************************************************************)
LedgerBalances ==
    cash + Total([m \in Market |-> CostOf(held[m])], NumMarkets)
        = InitialCash + realised - fees

\* What everything bought in a market has paid back so far.
PaidBack(m) ==
    IF paidAt[m] = None
    THEN PriceScale * MinOf(bought[m]["YES"], bought[m]["NO"])
    ELSE paidAt[m] * bought[m]["YES"] + (PriceScale - paidAt[m]) * bought[m]["NO"]

(***************************************************************************)
(* The recomputation from the fill log that the engine's tests make: cash  *)
(* is what was there, minus prices and fees, plus the payoff of every      *)
(* contract ever bought, as if nothing had ever been netted.               *)
(***************************************************************************)
LedgerRecomputed ==
    /\ cash = InitialCash - spent - fees + Total([m \in Market |-> PaidBack(m)], NumMarkets)
    /\ \A m \in Market : settled[m] = None =>
           held[m].qty["YES"] - held[m].qty["NO"] = bought[m]["YES"] - bought[m]["NO"]

=============================================================================
