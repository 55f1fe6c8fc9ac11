------------------------------ MODULE Evaluation ------------------------------
(***************************************************************************)
(* What is reported of a finished replay: the P&L, the fills and their     *)
(* execution (backtest/metrics.py), and the table of fills of the market   *)
(* maker's evaluation (research/market_making_analysis.py).  Everything is *)
(* computed from the fill log, the feed and the last account, after the    *)
(* run; the feed may end after any of its batches.                         *)
(***************************************************************************)
EXTENDS Engine, FiniteSets

CONSTANT MarkoutAfter   \* the horizon of a markout

ASSUME EvaluationAssumption == MarkoutAfter \in Nat /\ None \notin Int

Over(rows, value(_)) == Total([i \in DOMAIN log |-> IF i \in rows THEN value(i) ELSE 0], Len(log))
AllRows == DOMAIN log
RowsOf(m) == {i \in AllRows : log[i].market = m}

----------------------------------------------------------------------------
(* The account: marks are what the position would fetch now, or its cost.  *)

Mark(m, side) ==
    IF book[m] = None \/ ~HasBid(book[m], side) THEN None ELSE BestBid(book[m], side)
Worth(m, side) ==
    IF Mark(m, side) = None THEN held[m].cost[side] ELSE Mark(m, side) * held[m].qty[side]
OverHeld(value(_, _)) ==
    Total([m \in Market |-> value(m, "YES") + value(m, "NO")], NumMarkets)
Equity == cash + OverHeld(Worth)
Unrealised == OverHeld(LAMBDA m, side : Worth(m, side) - held[m].cost[side])

\* pnl_breakdown
Net == Equity - InitialCash
Gross == Net + fees
UnrealisedReported == Net - realised + fees
FeesBy(liquidity) == Over({i \in AllRows : log[i].liquidity = liquidity}, LAMBDA i : log[i].fee)

----------------------------------------------------------------------------
(* Orders and fills. *)

Ordered == Total([id \in 1 .. placed |-> IF status[id] = "rejected" THEN 0 ELSE order[id].qty], placed)
FilledQty == Total(filled, placed)
Turnover == Over(AllRows, LAMBDA i : log[i].qty)
FirstFill(id) ==
    LET rows == {i \in AllRows : log[i].id = id}
    IN  IF rows = {} THEN None ELSE log[First(rows)].at
SubmittedAt(id) == due[id] - SubmitLatency

\* The mid a market had at t, twice over, and how much of a mid is a side's.
LastBy(series, t) == {i \in DOMAIN series : series[i].at <= t}
MidAt(m, t) ==
    LET known == LastBy(mids[m], t)
    IN  IF known = {} THEN None ELSE mids[m][Cardinality(known)].twice
OnSide(side, twice) == IF side = "YES" THEN twice ELSE 2 * PriceScale - twice
Against(fill, twice) == OnSide(fill.side, twice) - 2 * fill.price

\* markouts: only by a mid seen after the fill.
Markout(fill) ==
    LET known == LastBy(mids[fill.market], fill.at + MarkoutAfter)
    IN  IF known = {} \/ mids[fill.market][Cardinality(known)].at <= fill.at THEN None
        ELSE Against(fill, mids[fill.market][Cardinality(known)].twice)

----------------------------------------------------------------------------
(* The table of fills. *)

InventoryAfter(m, n) ==
    Over({i \in RowsOf(m) : i <= n},
         LAMBDA i : IF log[i].side = "YES" THEN log[i].qty ELSE -log[i].qty)
MidAtFill(i) == MidAt(log[i].market, log[i].at)
Edge(i) == IF MidAtFill(i) = None THEN None ELSE Against(log[i], MidAtFill(i)) * log[i].qty
MarkoutOfRow(i) ==
    LET later == MidAt(log[i].market, log[i].at + MarkoutAfter)
    IN  IF later = None \/ MidAtFill(i) = None THEN None ELSE Against(log[i], later)

\* Fault: a NO is paid what a YES is.
PayoffOfYes(side, value) == value
PayoffOf(side, value) == IF side = "YES" THEN value ELSE PriceScale - value
SettledRows == {i \in AllRows : paidAt[log[i].market] # None}
SettlePnl(i) ==
    log[i].qty * (PayoffOf(log[i].side, paidAt[log[i].market]) - log[i].price)

\* evaluate, and _group_stats of the rows of one category.
SpreadCaptured == Over({i \in AllRows : Edge(i) # None}, Edge)
InventoryContribution == 2 * Gross - SpreadCaptured
SettledTotal(rows) == Over(rows \cap SettledRows, LAMBDA i : SettlePnl(i) - log[i].fee)
ByCategory == Total([m \in Market |-> SettledTotal(RowsOf(m))], NumMarkets)

----------------------------------------------------------------------------
(* Properties. *)

\* The account and the fill log agree on what was bought, paid and is left.
AccountAddsUp ==
    /\ UnrealisedReported = Unrealised
    /\ FeesBy("taker") + FeesBy("maker") = fees
    /\ \A m \in Market : settled[m] = None =>
           InventoryAfter(m, Len(log)) = held[m].qty["YES"] - held[m].qty["NO"]

\* The settled P&L of the fills is the account's: of all of them when no market is open, and
\* market by market where no pair was netted before.
SettledAddsUp ==
    /\ SettledRows = AllRows =>
        /\ Over(AllRows, SettlePnl) = realised
        /\ ByCategory = Net
        /\ (\A i \in AllRows : Edge(i) # None) =>
               InventoryContribution = Over(AllRows, LAMBDA i :
                   (2 * PayoffOf(log[i].side, paidAt[log[i].market])
                        - OnSide(log[i].side, MidAtFill(i))) * log[i].qty)
    /\ \A m \in Market : paidAt[m] # None /\ (\E s \in Side : bought[m][s] = 0) =>
           payouts[m] = Over(RowsOf(m), SettlePnl)

\* No more is filled than was ordered, nor before it arrived; and the two markouts of a fill
\* are one where a mid was seen after it.
ExecutionAddsUp ==
    /\ Turnover = FilledQty /\ FilledQty <= Ordered
    /\ \A id \in 1 .. placed : FirstFill(id) # None => FirstFill(id) - SubmittedAt(id) >= SubmitLatency
    /\ \A i \in AllRows : Markout(log[i]) # None /\ MidAtFill(i) # None =>
           MarkoutOfRow(i) = Markout(log[i])

(***************************************************************************)
(* market_making_analysis.py: "Summed over the fills of settled markets it *)
(* is EXACTLY the settled P&L before fees ... so any grouping of fills     *)
(* attributes P&L without approximation", and portfolio.py: equity =       *)
(* initial cash + realised + unrealised - fees, exactly.  Every report     *)
(* made of a run that ends between two events says what the account says.  *)
(***************************************************************************)
EvaluationAddsUp == LoopGoesOn => AccountAddsUp /\ SettledAddsUp /\ ExecutionAddsUp
=============================================================================
