--------------------------- MODULE PortfolioProofs ---------------------------
(***************************************************************************)
(* Theorems about Portfolio, for any number of markets, prices, quantities *)
(* and fees: the integer split of costs never loses or invents money.      *)
(***************************************************************************)
EXTENDS Portfolio, FillsProofs

USE OrderBookAssumption, PortfolioAssumption

\* Splitting cost off a position leaves a cost the rest is worth.
LEMMA SplitIsSound ==
    ASSUME NEW B \in Nat, NEW cost \in Nat, NEW qty \in Nat, NEW pairs \in Nat,
           pairs < qty, cost <= B * qty
    PROVE  /\ (cost * pairs) \div qty \in Nat
           /\ (cost * pairs) \div qty <= cost
           /\ cost - (cost * pairs) \div qty <= B * (qty - pairs)
<1> DEFINE k == (cost * pairs) \div qty
<1>1. cost * pairs \in Nat /\ qty > 0
  OBVIOUS
<1>2. k \in Nat /\ qty * k <= cost * pairs /\ cost * pairs < qty * k + qty
  BY <1>1
<1> HIDE DEF k
<1>3. cost * pairs <= cost * qty
  OBVIOUS
<1>4. k <= cost
  <2>1. SUFFICES ASSUME k >= cost + 1 PROVE FALSE
    BY <1>2
  <2>2. qty * k >= qty * (cost + 1)
    BY <1>2, <2>1
  <2>3. qty * (cost + 1) = cost * qty + qty
    OBVIOUS
  <2>4. QED
    BY <1>1, <1>2, <1>3, <2>2, <2>3
<1>5. cost - k <= B * (qty - pairs)
  <2> DEFINE r == qty - pairs
  <2>1. r \in Nat /\ cost * pairs = cost * qty - cost * r
    OBVIOUS
  <2> HIDE DEF r
  <2>2. cost * r <= (B * qty) * r
    BY <2>1
  <2>3. (B * qty) * r = qty * (B * r) /\ B * r \in Nat
    BY <2>1
  <2>4. cost * qty - qty * (B * r) < qty * k + qty
    BY <1>2, <2>1, <2>2, <2>3
  <2>5. SUFFICES ASSUME cost - k >= B * r + 1 PROVE FALSE
    BY <1>2, <2>3 DEF r
  <2>6. qty * (cost - k) >= qty * (B * r + 1)
    BY <1>2, <1>4, <2>3, <2>5
  <2>7. qty * (cost - k) = cost * qty - qty * k /\ qty * (B * r + 1) = qty * (B * r) + qty
    BY <1>2, <2>3
  <2>8. QED
    BY <1>2, <2>3, <2>4, <2>6, <2>7
<1>6. QED
  BY <1>2, <1>4, <1>5 DEF k

\* A position no side of which cost more than a dollar a contract.
Sound(h) == \A s \in Side : h.cost[s] <= PriceScale * h.qty[s]

\* Netting keeps a position sound and leaves one side at most.
LEMMA NettingIsSound ==
    ASSUME NEW h \in Holding, Sound(h)
    PROVE  /\ Netted(h) \in Holding
           /\ Sound(Netted(h))
           /\ Pairs(h) \in Nat
           /\ Netted(h).qty = [s \in Side |-> h.qty[s] - Pairs(h)]
           /\ Netted(h).qty["YES"] = 0 \/ Netted(h).qty["NO"] = 0
<1>1. /\ h.qty["YES"] \in Nat /\ h.qty["NO"] \in Nat
      /\ h.cost["YES"] \in Nat /\ h.cost["NO"] \in Nat
  BY DEF Holding, Side
<1>2. /\ Pairs(h) \in Nat /\ Pairs(h) <= h.qty["YES"] /\ Pairs(h) <= h.qty["NO"]
      /\ Pairs(h) = h.qty["YES"] \/ Pairs(h) = h.qty["NO"]
  BY <1>1 DEF Pairs, MinOf
<1>3. CASE Pairs(h) = 0
  <2>1. Netted(h) = h
    BY <1>3 DEF Netted
  <2>2. h.qty = [s \in Side |-> h.qty[s] - Pairs(h)]
    <3>1. h.qty \in [Side -> Nat]
      BY DEF Holding
    <3>2. \A s \in Side : h.qty[s] - Pairs(h) = h.qty[s]
      BY <1>3, <3>1
    <3>3. QED
      BY <3>1, <3>2
  <2>3. QED
    BY <1>2, <1>3, <2>1, <2>2
<1>4. CASE Pairs(h) # 0
  <2>1. ASSUME NEW s \in Side
        PROVE  /\ h.qty[s] - Pairs(h) \in Nat
               /\ h.cost[s] - NettedCost(h, s) \in Nat
               /\ h.cost[s] - NettedCost(h, s) <= PriceScale * (h.qty[s] - Pairs(h))
    <3>1. /\ h.qty[s] \in Nat /\ h.cost[s] \in Nat /\ Pairs(h) <= h.qty[s]
          /\ h.cost[s] <= PriceScale * h.qty[s] /\ PriceScale \in Nat
      BY <1>1, <1>2 DEF Side, Sound
    <3>2. CASE Pairs(h) < h.qty[s]
      <4>1. NettedCost(h, s) = (h.cost[s] * Pairs(h)) \div h.qty[s]
        BY <3>2 DEF NettedCost
      <4>2. Pairs(h) \in Nat
        BY <1>2
      <4>3. /\ (h.cost[s] * Pairs(h)) \div h.qty[s] \in Nat
            /\ (h.cost[s] * Pairs(h)) \div h.qty[s] <= h.cost[s]
            /\ h.cost[s] - (h.cost[s] * Pairs(h)) \div h.qty[s]
                   <= PriceScale * (h.qty[s] - Pairs(h))
        BY <3>1, <3>2, <4>2, SplitIsSound, Zenon
      <4>4. QED
        BY <1>2, <3>1, <4>1, <4>3
    <3>3. CASE Pairs(h) = h.qty[s]
      <4>1. NettedCost(h, s) = h.cost[s]
        BY <3>1, <3>3 DEF NettedCost
      <4>2. QED
        BY <1>2, <3>1, <3>3, <4>1
    <3>4. QED
      BY <1>2, <3>1, <3>2, <3>3
  <2>2. Netted(h) = [qty |-> [s \in Side |-> h.qty[s] - Pairs(h)],
                     cost |-> [s \in Side |-> h.cost[s] - NettedCost(h, s)]]
    BY <1>4 DEF Netted
  <2>3. Netted(h) \in Holding
    BY <2>1, <2>2 DEF Holding
  <2>4. Sound(Netted(h))
    BY <2>1, <2>2 DEF Sound
  <2>5. Netted(h).qty["YES"] = 0 \/ Netted(h).qty["NO"] = 0
    BY <1>1, <1>2, <2>2 DEF Side
  <2>6. QED
    BY <1>2, <2>2, <2>3, <2>4, <2>5
<1>5. QED
  BY <1>3, <1>4

\* The position a purchase is netted from.
LEMMA AddingIsSound ==
    ASSUME NEW h \in Holding, Sound(h), NEW side \in Side, NEW price \in Price, NEW qty \in Nat
    PROVE  /\ Added(h, side, price, qty) \in Holding
           /\ Sound(Added(h, side, price, qty))
           /\ price * qty \in Nat
           /\ CostOf(Added(h, side, price, qty)) = CostOf(h) + price * qty
<1>1. price \in Nat /\ price <= PriceScale
  BY DEF Price, CheckPrice
<1>2. price * qty \in Nat /\ price * qty <= PriceScale * qty
  BY <1>1
<1>3. h.qty \in [Side -> Nat] /\ h.cost \in [Side -> Nat]
  BY DEF Holding
<1>4. Added(h, side, price, qty) \in Holding
  BY <1>2, <1>3 DEF Added, Holding
<1>5. Sound(Added(h, side, price, qty))
  <2>1. SUFFICES ASSUME NEW s \in Side
                 PROVE  Added(h, side, price, qty).cost[s]
                            <= PriceScale * Added(h, side, price, qty).qty[s]
    BY DEF Sound
  <2>2. CASE s = side
    <3>1. /\ Added(h, side, price, qty).cost[s] = h.cost[s] + price * qty
          /\ Added(h, side, price, qty).qty[s] = h.qty[s] + qty
      BY <1>3, <2>2 DEF Added
    <3>2. h.cost[s] <= PriceScale * h.qty[s] /\ h.cost[s] \in Nat /\ h.qty[s] \in Nat
      BY <1>3 DEF Sound
    <3>3. PriceScale * (h.qty[s] + qty) = PriceScale * h.qty[s] + PriceScale * qty
      BY <3>2
    <3>4. QED
      BY <1>2, <3>1, <3>2, <3>3
  <2>3. CASE s # side
    BY <1>3, <2>3 DEF Added, Sound
  <2>4. QED
    BY <2>2, <2>3
<1>6. CostOf(Added(h, side, price, qty)) = CostOf(h) + price * qty
  <2>1. CASE side = "YES"
    BY <1>2, <1>3, <2>1 DEF Added, CostOf, Side
  <2>2. CASE side = "NO"
    BY <1>2, <1>3, <2>2 DEF Added, CostOf, Side
  <2>3. QED
    BY <2>1, <2>2 DEF Side
<1>7. QED
  BY <1>2, <1>4, <1>5, <1>6

----------------------------------------------------------------------------

\* What is known of a market's position from the fills in it.
MarketSound(m) ==
    /\ Sound(held[m])
    /\ held[m].qty["YES"] = 0 \/ held[m].qty["NO"] = 0
    /\ paidAt[m] = None <=> settled[m] = None
    /\ IF paidAt[m] = None
       THEN \A s \in Side :
                held[m].qty[s] = bought[m][s] - MinOf(bought[m]["YES"], bought[m]["NO"])
       ELSE held[m] = Flat

PositionInv == LedgerTypeOK /\ \A m \in Market : MarketSound(m)

\* A purchase, seen from its market.
LEMMA BuyStep ==
    ASSUME LedgerTypeOK, NEW m \in Market, MarketSound(m), NEW side \in Side, NEW price \in Price,
           NEW qty \in Nat, NEW fee \in Nat, Buy(m, side, price, qty, fee)
    PROVE  /\ LedgerTypeOK'
           /\ MarketSound(m)'
           /\ PaidBack(m) \in Int /\ PaidBack(m)' \in Int
           /\ cash' = cash - (price * qty + fee) + (PaidBack(m)' - PaidBack(m))
           /\ cash' + CostOf(held[m])' - realised' + fees'
                  = cash + CostOf(held[m]) - realised + fees
<1> DEFINE h == Added(held[m], side, price, qty)
<1>1. /\ held[m] \in Holding /\ Sound(held[m]) /\ settled[m] = None /\ paidAt[m] = None
      /\ \A s \in Side :
            held[m].qty[s] = bought[m][s] - MinOf(bought[m]["YES"], bought[m]["NO"])
  BY DEF LedgerTypeOK, MarketSound, Buy
<1>2. /\ h \in Holding /\ Sound(h) /\ price * qty \in Nat
      /\ CostOf(h) = CostOf(held[m]) + price * qty
      /\ h.qty = [held[m].qty EXCEPT ![side] = @ + qty]
  <2>1. /\ h \in Holding /\ Sound(h) /\ price * qty \in Nat
        /\ CostOf(h) = CostOf(held[m]) + price * qty
    BY <1>1, AddingIsSound
  <2>2. h.qty = [held[m].qty EXCEPT ![side] = @ + qty]
    BY DEF Added
  <2>3. QED
    BY <2>1, <2>2
<1>3. /\ Netted(h) \in Holding /\ Sound(Netted(h)) /\ Pairs(h) \in Nat
      /\ Netted(h).qty = [s \in Side |-> h.qty[s] - Pairs(h)]
      /\ Netted(h).qty["YES"] = 0 \/ Netted(h).qty["NO"] = 0
  BY <1>2, NettingIsSound
<1>4. /\ cash' = cash - (price * qty + fee) + PriceScale * Pairs(h)
      /\ fees' = fees + fee
      /\ realised' = realised + PriceScale * Pairs(h) - (CostOf(h) - CostOf(Netted(h)))
      /\ held' = [held EXCEPT ![m] = Netted(h)]
      /\ bought' = [bought EXCEPT ![m][side] = @ + qty]
      /\ spent' = spent + price * qty
      /\ settled' = settled /\ paidAt' = paidAt
  BY DEF Buy
<1> HIDE DEF h
<1>5. /\ CostOf(h) \in Int /\ CostOf(Netted(h)) \in Int /\ CostOf(held[m]) \in Int
      /\ PriceScale * Pairs(h) \in Nat
  BY <1>1, <1>2, <1>3 DEF CostOf, Holding, Side
<1>6. LedgerTypeOK'
  <2>1. held' \in [Market -> Holding] /\ bought' \in [Market -> [Side -> Nat]]
    BY <1>3, <1>4 DEF LedgerTypeOK
  <2>2. cash' \in Int /\ realised' \in Int /\ fees' \in Nat /\ spent' \in Nat
    BY <1>2, <1>4, <1>5 DEF LedgerTypeOK
  <2>3. QED
    BY <1>4, <2>1, <2>2 DEF LedgerTypeOK
<1>7. held'[m] = Netted(h)
  BY <1>4 DEF LedgerTypeOK
<1>8. bought'[m] = [bought[m] EXCEPT ![side] = @ + qty] /\ bought[m] \in [Side -> Nat]
  BY <1>4 DEF LedgerTypeOK
<1>9. /\ Pairs(h) = MinOf(bought'[m]["YES"], bought'[m]["NO"]) - MinOf(bought[m]["YES"], bought[m]["NO"])
      /\ \A s \in Side :
             held'[m].qty[s] = bought'[m][s] - MinOf(bought'[m]["YES"], bought'[m]["NO"])
      /\ MinOf(bought'[m]["YES"], bought'[m]["NO"]) \in Nat
      /\ MinOf(bought[m]["YES"], bought[m]["NO"]) \in Nat
  <2>1. held[m].qty \in [Side -> Nat]
    BY <1>1 DEF Holding
  <2> DEFINE y == bought[m]["YES"]
             n == bought[m]["NO"]
             dy == IF side = "YES" THEN qty ELSE 0
             dn == IF side = "NO" THEN qty ELSE 0
  <2>2. /\ y \in Nat /\ n \in Nat /\ dy \in Nat /\ dn \in Nat
        /\ bought'[m]["YES"] = y + dy /\ bought'[m]["NO"] = n + dn
    BY <1>8 DEF Side
  <2>3. /\ h.qty["YES"] = y - MinOf(y, n) + dy
        /\ h.qty["NO"] = n - MinOf(y, n) + dn
    <3>1. /\ held[m].qty["YES"] = y - MinOf(y, n)
          /\ held[m].qty["NO"] = n - MinOf(y, n)
      BY <1>1 DEF Side
    <3>2. /\ h.qty["YES"] = held[m].qty["YES"] + dy
          /\ h.qty["NO"] = held[m].qty["NO"] + dn
      BY <1>2, <2>1 DEF Side
    <3>3. QED
      BY <3>1, <3>2
  <2>4. Pairs(h) = MinOf(h.qty["YES"], h.qty["NO"])
    BY DEF Pairs
  <2>5. \A s \in Side : held'[m].qty[s] = h.qty[s] - Pairs(h)
    BY <1>3, <1>7
  <2> HIDE DEF y, n, dy, dn
  <2>6. /\ MinOf(y, n) \in Nat /\ MinOf(y + dy, n + dn) \in Nat
        /\ Pairs(h) = MinOf(y + dy, n + dn) - MinOf(y, n)
    BY <2>2, <2>3, <2>4 DEF MinOf
  <2>7. /\ held'[m].qty["YES"] = (y + dy) - MinOf(y + dy, n + dn)
        /\ held'[m].qty["NO"] = (n + dn) - MinOf(y + dy, n + dn)
    <3>1. /\ held'[m].qty["YES"] = h.qty["YES"] - Pairs(h)
          /\ held'[m].qty["NO"] = h.qty["NO"] - Pairs(h)
      BY <2>5 DEF Side
    <3>2. QED
      BY <2>2, <2>3, <2>6, <3>1
  <2>8. QED
    BY <2>2, <2>6, <2>7 DEF y, n, Side
<1>10. MarketSound(m)'
  BY <1>1, <1>3, <1>4, <1>7, <1>9 DEF MarketSound, Sound
<1>11. /\ PaidBack(m)' = PriceScale * MinOf(bought'[m]["YES"], bought'[m]["NO"])
       /\ PaidBack(m) = PriceScale * MinOf(bought[m]["YES"], bought[m]["NO"])
  BY <1>1, <1>4 DEF PaidBack
<1>12. PaidBack(m)' - PaidBack(m) = PriceScale * Pairs(h)
  <2> DEFINE old == MinOf(bought[m]["YES"], bought[m]["NO"])
             new == MinOf(bought'[m]["YES"], bought'[m]["NO"])
  <2>1. old \in Nat /\ new \in Nat /\ Pairs(h) = new - old
    BY <1>9
  <2>2. PaidBack(m)' = PriceScale * new /\ PaidBack(m) = PriceScale * old
    BY <1>11
  <2> HIDE DEF old, new
  <2>3. PriceScale * (new - old) = PriceScale * new - PriceScale * old
    BY <2>1
  <2>4. QED
    BY <2>1, <2>2, <2>3
<1>13. PaidBack(m) \in Int /\ PaidBack(m)' \in Int
  BY <1>9, <1>11
<1>14. cash' = cash - (price * qty + fee) + (PaidBack(m)' - PaidBack(m))
  BY <1>4, <1>12
<1>15. CostOf(held[m])' = CostOf(Netted(h))
  BY <1>7
<1>16. /\ cash \in Int /\ realised \in Int /\ fees \in Int
  BY DEF LedgerTypeOK
<1>17. cash' + CostOf(held[m])' - realised' + fees'
           = cash + CostOf(held[m]) - realised + fees
  BY <1>2, <1>4, <1>5, <1>15, <1>16
<1>18. QED
  BY <1>6, <1>10, <1>13, <1>14, <1>17

\* A settlement, seen from its market.
LEMMA SettleStep ==
    ASSUME LedgerTypeOK, NEW m \in Market, MarketSound(m), NEW value \in Value, Settle(m, value)
    PROVE  /\ LedgerTypeOK'
           /\ MarketSound(m)'
           /\ PaidBack(m) \in Int /\ PaidBack(m)' \in Int
           /\ cash' = cash + (PaidBack(m)' - PaidBack(m))
           /\ cash' + CostOf(held[m])' - realised' + fees'
                  = cash + CostOf(held[m]) - realised + fees
<1>1. /\ held[m] \in Holding
      /\ held[m].qty["YES"] \in Nat /\ held[m].qty["NO"] \in Nat
      /\ held[m].cost["YES"] \in Nat /\ held[m].cost["NO"] \in Nat
      /\ bought[m]["YES"] \in Nat /\ bought[m]["NO"] \in Nat
  BY DEF LedgerTypeOK, Holding, Side
<1>2. value \in Int /\ PriceScale - value \in Int
  BY DEF Value
<1>3. Payoff(held[m], value) \in Int /\ CostOf(held[m]) \in Int
  BY <1>1, <1>2 DEF Payoff, CostOf
<1>4. /\ held'[m] = Flat /\ Flat \in Holding /\ CostOf(Flat) = 0
      /\ Sound(Flat) /\ Flat.qty["YES"] = 0
  BY DEF Settle, LedgerTypeOK, Flat, Holding, CostOf, Side, Sound
<1>5. settled'[m] = value /\ settled' \in [Market -> Value \cup {None}]
      /\ paidAt' \in [Market -> Value \cup {None}]
      /\ paidAt'[m] = (IF settled[m] = None THEN value ELSE paidAt[m])
      /\ value # None
  BY DEF Settle, Announce, LedgerTypeOK
<1>6. LedgerTypeOK'
  <2>1. held' \in [Market -> Holding]
    BY <1>4 DEF Settle, LedgerTypeOK
  <2>2. cash' \in Int /\ realised' \in Int
    BY <1>3 DEF Settle, LedgerTypeOK
  <2>3. fees' = fees /\ spent' = spent /\ bought' = bought
    BY DEF Settle
  <2>4. QED
    BY <1>5, <2>1, <2>2, <2>3 DEF LedgerTypeOK
<1>7. MarketSound(m)'
  BY <1>4, <1>5 DEF MarketSound
<1>8. CASE settled[m] # None
  <2>1. paidAt[m] # None /\ paidAt'[m] = paidAt[m] /\ held[m] = Flat /\ paidAt[m] \in Value
    BY <1>5, <1>8 DEF MarketSound, LedgerTypeOK
  <2>2. Payoff(held[m], value) = 0
    BY <1>2, <2>1 DEF Payoff, Flat, Side
  <2>3. bought' = bought
    BY DEF Settle
  <2>4. PaidBack(m)' = PaidBack(m) /\ PaidBack(m) \in Int
    BY <1>1, <2>1, <2>3 DEF PaidBack, Value
  <2>5. QED
    BY <1>3, <1>4, <1>6, <1>7, <2>1, <2>2, <2>4 DEF Settle, LedgerTypeOK
<1>9. CASE settled[m] = None
  <2> DEFINE y == bought[m]["YES"]
             n == bought[m]["NO"]
             p == MinOf(bought[m]["YES"], bought[m]["NO"])
  <2>1. paidAt[m] = None /\ paidAt'[m] = value /\ bought' = bought
    BY <1>5, <1>9 DEF MarketSound, Settle
  <2>2. held[m].qty["YES"] = y - p /\ held[m].qty["NO"] = n - p /\ p \in Nat
    BY <1>1, <2>1 DEF MarketSound, Side, MinOf
  <2>3. PaidBack(m) = PriceScale * p /\ PaidBack(m)' = value * y + (PriceScale - value) * n
    BY <1>5, <2>1 DEF PaidBack
  <2>4. Payoff(held[m], value) = value * (y - p) + (PriceScale - value) * (n - p)
    BY <2>2 DEF Payoff
  <2> HIDE DEF y, n, p
  <2>5. y \in Nat /\ n \in Nat
    BY <1>1 DEF y, n
  <2>6. /\ value * (y - p) = value * y - value * p
        /\ (PriceScale - value) * (n - p) = (PriceScale - value) * n - PriceScale * p + value * p
    BY <1>2, <2>2, <2>5
  <2>7. /\ value * y \in Int /\ (PriceScale - value) * n \in Int
        /\ PriceScale * p \in Int /\ value * p \in Int
    BY <1>2, <2>2, <2>5
  <2>8. Payoff(held[m], value) = PaidBack(m)' - PaidBack(m)
    BY <2>3, <2>4, <2>6, <2>7
  <2>9. QED
    BY <1>3, <1>4, <1>6, <1>7, <2>3, <2>7, <2>8 DEF Settle, LedgerTypeOK
<1>10. QED
  BY <1>8, <1>9

----------------------------------------------------------------------------

\* The ledger's inductive invariant.
Balance == cash + Total([m \in Market |-> CostOf(held[m])], NumMarkets) - realised + fees
Explained == cash + spent + fees - Total([m \in Market |-> PaidBack(m)], NumMarkets)

LedgerInv ==
    /\ PositionInv
    /\ Balance = InitialCash
    /\ Explained = InitialCash

\* Both sums over the markets are sums of integers.
LEMMA MarketTotals ==
    ASSUME PositionInv
    PROVE  /\ \A m \in Market : CostOf(held[m]) \in Int /\ PaidBack(m) \in Int
           /\ Total([m \in Market |-> CostOf(held[m])], NumMarkets) \in Int
           /\ Total([m \in Market |-> PaidBack(m)], NumMarkets) \in Int
<1>1. ASSUME NEW m \in Market PROVE CostOf(held[m]) \in Int /\ PaidBack(m) \in Int
  <2>1. /\ bought[m]["YES"] \in Nat /\ bought[m]["NO"] \in Nat
        /\ held[m].cost["YES"] \in Nat /\ held[m].cost["NO"] \in Nat
        /\ paidAt[m] \in Int \cup {None}
    BY DEF PositionInv, LedgerTypeOK, Holding, Side, Value
  <2>2. CostOf(held[m]) \in Int
    BY <2>1 DEF CostOf
  <2>3. MinOf(bought[m]["YES"], bought[m]["NO"]) \in Int
    BY <2>1 DEF MinOf
  <2>4. QED
    BY <2>1, <2>2, <2>3 DEF PaidBack
<1>2. /\ [m \in Market |-> CostOf(held[m])] \in [1 .. NumMarkets -> Int]
      /\ [m \in Market |-> PaidBack(m)] \in [1 .. NumMarkets -> Int]
      /\ NumMarkets \in Nat
  BY <1>1 DEF Market
<1>3. QED
  BY <1>1, <1>2, TotalType

\* The sums over markets move with the one market a step touches.
LEMMA OneMarketMoves ==
    ASSUME PositionInv, NEW m \in Market, LedgerTypeOK', MarketSound(m)',
           held' = [held EXCEPT ![m] = held'[m]],
           \A k \in Market \ {m} : /\ bought'[k] = bought[k]
                                   /\ settled'[k] = settled[k]
                                   /\ paidAt'[k] = paidAt[k],
           CostOf(held[m])' \in Int, PaidBack(m)' \in Int
    PROVE  /\ PositionInv'
           /\ Total([k \in Market |-> CostOf(held[k])], NumMarkets) \in Int
           /\ Total([k \in Market |-> PaidBack(k)], NumMarkets) \in Int
           /\ Total([k \in Market |-> CostOf(held[k])], NumMarkets)'
                  = Total([k \in Market |-> CostOf(held[k])], NumMarkets)
                        - CostOf(held[m]) + CostOf(held[m])'
           /\ Total([k \in Market |-> PaidBack(k)], NumMarkets)'
                  = Total([k \in Market |-> PaidBack(k)], NumMarkets)
                        - PaidBack(m) + PaidBack(m)'
<1> DEFINE costs == [k \in Market |-> CostOf(held[k])]
           paid == [k \in Market |-> PaidBack(k)]
<1>1. \A k \in Market \ {m} : held'[k] = held[k]
  BY DEF PositionInv, LedgerTypeOK
<1>2. ASSUME NEW k \in Market \ {m}
      PROVE  MarketSound(k)' /\ PaidBack(k)' = PaidBack(k) /\ CostOf(held[k])' = CostOf(held[k])
  BY <1>1 DEF PositionInv, MarketSound, PaidBack, Sound
<1>3. PositionInv'
  BY <1>2 DEF PositionInv
<1>4. /\ \A k \in Market : CostOf(held[k]) \in Int /\ PaidBack(k) \in Int
      /\ Total(costs, NumMarkets) \in Int /\ Total(paid, NumMarkets) \in Int
  BY MarketTotals
<1>5. /\ costs \in [1 .. NumMarkets -> Int] /\ paid \in [1 .. NumMarkets -> Int]
      /\ CostOf(held[m])' \in Int /\ PaidBack(m)' \in Int
      /\ costs[m] = CostOf(held[m]) /\ paid[m] = PaidBack(m)
      /\ m \in 1 .. NumMarkets /\ NumMarkets \in Nat
  BY <1>4 DEF Market
<1>6. costs' = [costs EXCEPT ![m] = CostOf(held[m])']
  BY <1>2
<1>7. paid' = [paid EXCEPT ![m] = PaidBack(m)']
  BY <1>2
<1> HIDE DEF costs, paid
<1>8. Total(costs', NumMarkets) = Total(costs, NumMarkets) - CostOf(held[m]) + CostOf(held[m])'
  <2>1. \A v \in Int : Total([costs EXCEPT ![m] = v], NumMarkets)
                          = Total(costs, NumMarkets) - costs[m] + v
    BY <1>5, TotalUpdate, Zenon
  <2>2. QED
    BY <1>5, <1>6, <2>1, Zenon
<1>9. Total(paid', NumMarkets) = Total(paid, NumMarkets) - PaidBack(m) + PaidBack(m)'
  <2>1. \A v \in Int : Total([paid EXCEPT ![m] = v], NumMarkets)
                          = Total(paid, NumMarkets) - paid[m] + v
    BY <1>5, TotalUpdate, Zenon
  <2>2. QED
    BY <1>5, <1>7, <2>1, Zenon
<1>10. QED
  BY <1>3, <1>4, <1>8, <1>9 DEF costs, paid

\* A step that moves one market's cost and payoff as it moves cash keeps the
\* invariant.
LEMMA MovesKeepTheSums ==
    ASSUME LedgerInv, NEW m \in Market, LedgerTypeOK', MarketSound(m)',
           held' = [held EXCEPT ![m] = held'[m]],
           \A k \in Market \ {m} : /\ bought'[k] = bought[k]
                                   /\ settled'[k] = settled[k]
                                   /\ paidAt'[k] = paidAt[k],
           PaidBack(m)' \in Int,
           cash' + spent' + fees' - PaidBack(m)' = cash + spent + fees - PaidBack(m),
           cash' + CostOf(held[m])' - realised' + fees'
               = cash + CostOf(held[m]) - realised + fees
    PROVE  LedgerInv'
<1> DEFINE costs == Total([k \in Market |-> CostOf(held[k])], NumMarkets)
           paid == Total([k \in Market |-> PaidBack(k)], NumMarkets)
<1>1. CostOf(held[m])' \in Int
  <2>1. held'[m] \in Holding
    BY DEF LedgerTypeOK
  <2>2. held'[m].cost["YES"] \in Nat /\ held'[m].cost["NO"] \in Nat
    BY <2>1 DEF Holding, Side
  <2>3. QED
    BY <2>2 DEF CostOf
<1>2. /\ PositionInv'
      /\ costs \in Int /\ costs' = costs - CostOf(held[m]) + CostOf(held[m])'
      /\ paid \in Int /\ paid' = paid - PaidBack(m) + PaidBack(m)'
  BY <1>1, OneMarketMoves DEF LedgerInv
<1>3. CostOf(held[m]) \in Int /\ PaidBack(m) \in Int
  BY MarketTotals DEF LedgerInv
<1>4. /\ cash \in Int /\ realised \in Int /\ fees \in Int /\ spent \in Int
      /\ cash' \in Int /\ realised' \in Int /\ fees' \in Int /\ spent' \in Int
  BY DEF LedgerInv, PositionInv, LedgerTypeOK
<1>5. /\ cash + costs - realised + fees = InitialCash
      /\ cash + spent + fees - paid = InitialCash
  BY DEF LedgerInv, Balance, Explained
<1> HIDE DEF costs, paid
<1>6. /\ cash' + costs' - realised' + fees' = InitialCash
      /\ cash' + spent' + fees' - paid' = InitialCash
  BY <1>1, <1>2, <1>3, <1>4, <1>5
<1>7. QED
  BY <1>2, <1>6 DEF LedgerInv, Balance, Explained, costs, paid

\* Nothing is held, bought or paid at the start.
LEMMA LedgerStarts == LedgerInit => LedgerInv
<1> SUFFICES ASSUME LedgerInit PROVE LedgerInv
  OBVIOUS
<1>1. /\ Flat \in Holding /\ CostOf(Flat) = 0 /\ Sound(Flat)
      /\ Flat.qty["YES"] = 0 /\ \A s \in Side : Flat.qty[s] = 0
  BY DEF Flat, Holding, CostOf, Sound, Side
<1>2. \A m \in Market : /\ held[m] = Flat /\ paidAt[m] = None /\ settled[m] = None
                        /\ \A s \in Side : bought[m][s] = 0
  BY DEF LedgerInit
<1>3. LedgerTypeOK
  BY <1>1 DEF LedgerInit, LedgerTypeOK, Side
<1>4. PositionInv
  <2>1. ASSUME NEW m \in Market PROVE MarketSound(m)
    <3>1. MinOf(bought[m]["YES"], bought[m]["NO"]) = 0
      BY <1>2 DEF MinOf, Side
    <3>2. QED
      BY <1>1, <1>2, <3>1 DEF MarketSound
  <2>2. QED
    BY <1>3, <2>1 DEF PositionInv
<1>5. \A m \in Market : CostOf(held[m]) = 0 /\ PaidBack(m) = 0
  BY <1>1, <1>2 DEF PaidBack, MinOf, Side
<1>6. /\ [m \in Market |-> CostOf(held[m])] \in [1 .. NumMarkets -> Int]
      /\ [m \in Market |-> PaidBack(m)] \in [1 .. NumMarkets -> Int]
      /\ NumMarkets \in Nat
  BY <1>5 DEF Market
<1>7. /\ Total([m \in Market |-> CostOf(held[m])], NumMarkets) = 0
      /\ Total([m \in Market |-> PaidBack(m)], NumMarkets) = 0
  BY <1>5, <1>6, TotalOfZeros DEF Market
<1>8. QED
  BY <1>4, <1>7 DEF LedgerInv, Balance, Explained, LedgerInit

\* Every fill and every settlement keeps the invariant.
LEMMA LedgerSteps == LedgerInv /\ [LedgerNext]_ledger => LedgerInv'
<1> SUFFICES ASSUME LedgerInv, [LedgerNext]_ledger PROVE LedgerInv'
  OBVIOUS
<1>1. /\ LedgerTypeOK /\ PositionInv /\ \A m \in Market : MarketSound(m)
      /\ cash \in Int /\ realised \in Int /\ fees \in Int /\ spent \in Int
  BY DEF LedgerInv, PositionInv, LedgerTypeOK
<1>2. ASSUME NEW m \in Market, NEW side \in Side, NEW price \in Price, NEW qty \in Nat \ {0},
             NEW fee \in Nat, Buy(m, side, price, qty, fee)
      PROVE  LedgerInv'
  <2>1. /\ LedgerTypeOK' /\ MarketSound(m)'
        /\ PaidBack(m) \in Int /\ PaidBack(m)' \in Int
        /\ cash' = cash - (price * qty + fee) + (PaidBack(m)' - PaidBack(m))
        /\ cash' + CostOf(held[m])' - realised' + fees'
               = cash + CostOf(held[m]) - realised + fees
    BY <1>1, <1>2, BuyStep
  <2>2. /\ held' = [held EXCEPT ![m] = held'[m]]
        /\ \A k \in Market \ {m} : /\ bought'[k] = bought[k]
                                   /\ settled'[k] = settled[k]
                                   /\ paidAt'[k] = paidAt[k]
    BY <1>1, <1>2 DEF Buy, LedgerTypeOK
  <2>3. price * qty \in Int
    BY DEF Price
  <2>4. spent' = spent + price * qty /\ fees' = fees + fee
    BY <1>2 DEF Buy
  <2>5. QED
    BY <1>1, <2>1, <2>2, <2>3, <2>4, MovesKeepTheSums
<1>3. ASSUME NEW m \in Market, NEW value \in Value, Settle(m, value)
      PROVE  LedgerInv'
  <2>1. /\ LedgerTypeOK' /\ MarketSound(m)'
        /\ PaidBack(m) \in Int /\ PaidBack(m)' \in Int
        /\ cash' = cash + (PaidBack(m)' - PaidBack(m))
        /\ cash' + CostOf(held[m])' - realised' + fees'
               = cash + CostOf(held[m]) - realised + fees
    BY <1>1, <1>3, SettleStep
  <2>2. /\ held' = [held EXCEPT ![m] = held'[m]]
        /\ \A k \in Market \ {m} : /\ bought'[k] = bought[k]
                                   /\ settled'[k] = settled[k]
                                   /\ paidAt'[k] = paidAt[k]
    BY <1>1, <1>3 DEF Settle, Announce, LedgerTypeOK
  <2>3. spent' = spent /\ fees' = fees
    BY <1>3 DEF Settle
  <2>4. QED
    BY <1>1, <2>1, <2>2, <2>3, MovesKeepTheSums
<1>4. CASE UNCHANGED ledger
  BY <1>4 DEF ledger, LedgerInv, PositionInv, LedgerTypeOK, MarketSound, Sound,
              Balance, Explained, PaidBack
<1>5. QED
  BY <1>2, <1>3, <1>4 DEF LedgerNext

\* The inductive invariant holds throughout.
LEMMA LedgerInvariance == LedgerSpec => []LedgerInv
<1>1. QED
  BY LedgerStarts, LedgerSteps, PTL DEF LedgerSpec

\* The ledger keeps integers, naturals and positions throughout.
THEOREM LedgerTypes == LedgerSpec => []LedgerTypeOK
<1>1. LedgerInv => LedgerTypeOK
  BY DEF LedgerInv, PositionInv
<1>2. QED
  BY <1>1, LedgerInvariance, PTL

\* No market is ever held on both sides, nor at more than a dollar a contract.
THEOREM HoldingsStaySound == LedgerSpec => []HoldingsAreSound
<1>1. LedgerInv => HoldingsAreSound
  BY DEF LedgerInv, PositionInv, MarketSound, Sound, HoldingsAreSound
<1>2. QED
  BY <1>1, LedgerInvariance, PTL

\* The integer split of costs never loses or invents money.
THEOREM LedgerStaysBalanced == LedgerSpec => []LedgerBalances
<1>1. LedgerInv => LedgerBalances
  <2> SUFFICES ASSUME LedgerInv PROVE LedgerBalances
    OBVIOUS
  <2>1. cash \in Int /\ realised \in Int /\ fees \in Int
    BY DEF LedgerInv, PositionInv, LedgerTypeOK
  <2>2. Total([m \in Market |-> CostOf(held[m])], NumMarkets) \in Int
    BY MarketTotals DEF LedgerInv
  <2>3. cash + Total([m \in Market |-> CostOf(held[m])], NumMarkets) - realised + fees = InitialCash
    BY DEF LedgerInv, Balance
  <2> DEFINE costs == Total([m \in Market |-> CostOf(held[m])], NumMarkets)
  <2>4. costs \in Int /\ cash + costs - realised + fees = InitialCash
    BY <2>2, <2>3
  <2> HIDE DEF costs
  <2>5. cash + costs = InitialCash + realised - fees
    BY <2>1, <2>4
  <2>6. QED
    BY <2>5 DEF LedgerBalances, costs
<1>2. QED
  BY <1>1, LedgerInvariance, PTL

\* Netting early and settling twice pay exactly what holding everything would.
THEOREM LedgerIsRecomputable == LedgerSpec => []LedgerRecomputed
<1>1. LedgerInv => LedgerRecomputed
  <2> SUFFICES ASSUME LedgerInv PROVE LedgerRecomputed
    OBVIOUS
  <2>1. cash \in Int /\ spent \in Int /\ fees \in Int
    BY DEF LedgerInv, PositionInv, LedgerTypeOK
  <2>2. Total([m \in Market |-> PaidBack(m)], NumMarkets) \in Int
    BY MarketTotals DEF LedgerInv
  <2>3. cash = InitialCash - spent - fees + Total([m \in Market |-> PaidBack(m)], NumMarkets)
    BY <2>1, <2>2 DEF LedgerInv, Explained
  <2>4. ASSUME NEW m \in Market, settled[m] = None
        PROVE  held[m].qty["YES"] - held[m].qty["NO"] = bought[m]["YES"] - bought[m]["NO"]
    <3>1. /\ bought[m]["YES"] \in Nat /\ bought[m]["NO"] \in Nat
          /\ \A s \in Side :
                 held[m].qty[s] = bought[m][s] - MinOf(bought[m]["YES"], bought[m]["NO"])
      BY <2>4 DEF LedgerInv, PositionInv, LedgerTypeOK, MarketSound, Side
    <3>2. QED
      BY <3>1 DEF MinOf, Side
  <2>5. QED
    BY <2>3, <2>4 DEF LedgerRecomputed
<1>2. QED
  BY <1>1, LedgerInvariance, PTL

=============================================================================
