----------------------------- MODULE EngineProofs -----------------------------
(***************************************************************************)
(* Theorems about Engine, for any number of markets, any orders, feed and  *)
(* tape, any latencies, queue models and fee schedules: what the replay    *)
(* does to the account is what a ledger does, the records agree with it,   *)
(* no order creates leverage, nothing is filled late and events take       *)
(* effect in time order.                                                   *)
(***************************************************************************)
EXTENDS Engine, PortfolioProofs, FillsProofs

(***************************************************************************)
(* The inductive invariant, in parts.  The properties alone are not        *)
(* inductive: they say nothing of an order whose fills are being recorded, *)
(* of what the loop still has to do, nor of what is scheduled.             *)
(***************************************************************************)

\* The order whose fills are being recorded.
Busy == IF stage = "filling" THEN {taking.id} ELSE {}

\* The status of an order says how much of it was filled, and whether it rests.
StatusSound(id) ==
    /\ status[id] \in {"submitted", "rejected", "resting", "cancelled", "expired"} => filled[id] = 0
    /\ status[id] = "filled" => filled[id] = order[id].qty
    /\ status[id] = "partial" => 0 < filled[id] /\ filled[id] < order[id].qty
    /\ status[id] = "resting" => id \in resting

\* What rests was accepted, in a market that is still open.
RestingSound(id) ==
    /\ status[id] \in {"resting", "partial"}
    /\ CheckPrice(order[id].price)
    /\ ~closed[order[id].market]

RecordsSound ==
    /\ ReservedIsExact
    /\ \A id \in (1 .. placed) \ Busy : StatusSound(id)
    /\ \A id \in resting : RestingSound(id)

\* Orders are still to be matched only while a book or a print is applied.
WorkSound ==
    /\ stage \notin {"book", "print"} => todo = {}
    /\ stage = "book" => \A id \in todo : book[order[id].market] # None
    /\ stage = "print" => tick # None

\* What has yet to be recorded of the order that takes.
LeftToRecord ==
    Total([ask \in Tick |-> IF ask >= taking.level THEN taking.taken[ask] ELSE 0], PriceScale - 1)

\* The fills in the making are backed by the book, within the limit and the order, and what
\* is left of the fee covers the shares to come.
TakingSound ==
    LET id == taking.id
        o == order[id]
        taken == taking.taken
    IN  stage = "filling" =>
        /\ taking \in Taking
        /\ id \in Submitted /\ now = due[id]
        /\ ~closed[o.market] /\ CheckPrice(o.price)
        /\ book[o.market] # None
        /\ \A ask \in Tick :
               /\ taken[ask] <= book[o.market][<<Opposite(o.side), Complement(ask)>>]
               /\ taken[ask] > 0 => ask + Slippage <= o.price
        /\ o.qty > 0 /\ filled[id] + LeftToRecord <= o.qty
        /\ AllTaken(taken) > 0
        /\ TakerFee(taken) * LeftToRecord <= taking.fee * AllTaken(taken)

\* Nothing is scheduled in the past; an order is due no later than one that would be placed
\* now, and no cancel that takes as long overtakes its order.
TimeSound ==
    /\ \A id \in 1 .. placed : due[id] <= now + SubmitLatency
    /\ \A id \in Submitted : now <= due[id]
    /\ \A c \in cancels : now <= c[1]
    /\ CancelLatency >= SubmitLatency =>
        /\ \A c \in cancels : due[c[2]] <= c[1]
        /\ \A id \in revoked : id \notin Submitted /\ id \notin resting

\* A settled market is closed.
MarketsSound == \A m \in Market : settled[m] # None => closed[m]

\* What the records say was filled is what the ledger says was bought.
BoughtSound == \A m \in Market, side \in Side : bought[m][side] = FilledOf(m, side)

\* What the order that takes may still cost.
Committed ==
    IF stage = "filling"
    THEN order[taking.id].price * (order[taking.id].qty - filled[taking.id])
    ELSE 0

\* Cash covers what rests and what is being taken.
Covered == cash + fees >= AllReserved + Committed

\* What is left of the last book and what was taken of it are what was displayed.
DepthSound ==
    \A m \in Market, c \in Cell :
        shown[m][c] = used[m][c] + (IF book[m] = None THEN 0 ELSE book[m][c])

OrdersInv ==
    /\ EngineTypeOK /\ LedgerInv
    /\ RecordsSound /\ WorkSound /\ TakingSound /\ TimeSound /\ MarketsSound

----------------------------------------------------------------------------
(* Operators first. *)

\* The first of a set of numbers is in it and is the least.
LEMMA FirstIsLeast ==
    ASSUME NEW ids, ids \subseteq Nat, ids # {}
    PROVE  First(ids) \in ids /\ \A other \in ids : First(ids) <= other
<1>1. PICK x \in ids : \A y \in ids : x <= y
  BY LeastExists
<1>2. QED
  BY <1>1 DEF First

\* There is a best bid where there is a bid, and it is a price.
LEMMA BestBidType ==
    ASSUME NEW b \in Book, NEW side \in Side, HasBid(b, side)
    PROVE  BestBid(b, side) \in Nat /\ BestBid(b, side) <= PriceScale
<1> DEFINE gaps == {PriceScale - p : p \in BidPrices(b, side)}
<1>1. PriceScale \in Nat /\ \A p \in BidPrices(b, side) : p \in Nat /\ p <= PriceScale
  BY OrderBookAssumption DEF BidPrices, Price, CheckPrice
<1>2. gaps \subseteq Nat /\ gaps # {}
  BY <1>1 DEF HasBid
<1>3. PICK gap \in gaps : \A other \in gaps : gap <= other
  <2> HIDE DEF gaps
  <2>1. First(gaps) \in gaps /\ \A other \in gaps : First(gaps) <= other
    BY <1>2, FirstIsLeast
  <2>2. QED
    BY <2>1
<1>4. PICK p \in BidPrices(b, side) : gap = PriceScale - p
  BY <1>3
<1>5. \A q \in BidPrices(b, side) : q <= p
  <2>1. TAKE q \in BidPrices(b, side)
  <2>2. PriceScale - q \in gaps
    OBVIOUS
  <2>3. PriceScale - p <= PriceScale - q
    BY <1>3, <1>4, <2>2
  <2>4. QED
    BY <1>1, <2>3
<1>6. BestBid(b, side) \in BidPrices(b, side)
  BY <1>5 DEF BestBid
<1>7. QED
  BY <1>1, <1>6

\* Division that rounds up keeps naturals natural.
LEMMA CeilDivType ==
    ASSUME NEW n \in Nat, NEW d \in Nat \ {0}
    PROVE  CeilDiv(n, d) \in Nat
<1>1. (-n) \div d \in Int /\ d * ((-n) \div d) <= -n
  OBVIOUS
<1>2. (-n) \div d <= 0
  <2>1. SUFFICES ASSUME (-n) \div d >= 1 PROVE FALSE
    BY <1>1
  <2> DEFINE k == (-n) \div d
  <2>2. k \in Int /\ k >= 1 /\ d * k <= 0 - n
    BY <1>1, <2>1
  <2> HIDE DEF k
  <2>3. d * k >= d
    BY <2>2
  <2>4. QED
    BY <2>2, <2>3
<1>3. QED
  BY <1>1, <1>2 DEF CeilDiv

\* A fee is a natural number, whichever way it is rounded.
LEMMA OrderFeeType ==
    ASSUME NEW rounding, NEW rate \in Nat, NEW n \in Nat, NEW fills,
           DOMAIN fills = 1 .. n, Len(fills) = n,
           \A i \in 1 .. n : ExactFee(rate, fills[i]) \in Nat
    PROVE  OrderFee(rounding, rate, fills) \in Nat
<1>1. /\ CentMicro \in Nat \ {0} /\ RateScale \in Nat \ {0}
  BY FeesAssumption
<1>2. \A x \in Nat : UpToCent(x) \in Nat
  <2>1. TAKE x \in Nat
  <2>2. CeilDiv(x, CentMicro) \in Nat
    BY <1>1, CeilDivType
  <2>3. CeilDiv(x, CentMicro) * CentMicro \in Nat
    BY <1>1, <2>2
  <2>4. QED
    BY <2>3 DEF UpToCent
<1>3. CASE rounding = "cent_per_order"
  <2> DEFINE exact == [i \in DOMAIN fills |-> ExactFee(rate, fills[i])]
  <2>1. exact \in [1 .. n -> Nat]
    OBVIOUS
  <2> HIDE DEF exact
  <2>2. Total(exact, n) \in Nat
    BY <2>1, TotalOfNaturals
  <2>3. CeilDiv(Total(exact, n), RateScale) \in Nat
    BY <1>1, <2>2, CeilDivType
  <2>4. QED
    BY <1>2, <1>3, <2>3 DEF OrderFee, exact
<1>4. CASE rounding # "cent_per_order"
  <2> DEFINE each == [i \in DOMAIN fills |-> FeeMicro(rounding, rate, fills[i])]
  <2>1. ASSUME NEW i \in 1 .. n PROVE FeeMicro(rounding, rate, fills[i]) \in Nat
    <3>1. CeilDiv(ExactFee(rate, fills[i]), RateScale) \in Nat
      BY <1>1, CeilDivType
    <3>2. QED
      BY <1>2, <3>1 DEF FeeMicro
  <2>2. each \in [1 .. n -> Nat]
    BY <2>1
  <2> HIDE DEF each
  <2>3. Total(each, n) \in Nat
    BY <2>2, TotalOfNaturals
  <2>4. QED
    BY <1>4, <2>3 DEF OrderFee, each
<1>5. QED
  BY <1>3, <1>4

\* What a taker gets of each ask is offered there, within the limit, and no more than ordered.
LEMMA TakenSound ==
    ASSUME NEW b \in Book, NEW side \in Side, NEW limit \in Int, NEW qty \in Nat
    PROVE  LET taken == Taken(b, side, limit, qty)
           IN  /\ taken \in [Tick -> Nat]
               /\ \A ask \in Tick :
                      /\ taken[ask] <= b[<<Opposite(side), Complement(ask)>>]
                      /\ taken[ask] > 0 => ask + Slippage <= limit
               /\ AllTaken(taken) <= qty
<1> DEFINE offered == [ask \in Tick |-> Offered(b, side, limit, ask)]
           upTo(k) == MinOf(qty, Total(offered, k))
           taken == [ask \in Tick |-> upTo(ask) - upTo(ask - 1)]
<1>1. /\ PriceScale \in Nat \ {0} /\ Tick \subseteq Quote /\ Slippage \in Nat /\ IsShare(DepthFraction)
      /\ Tick = 1 .. PriceScale - 1
  BY OrderBookAssumption, FillsAssumption DEF Tick
<1>2. ASSUME NEW ask \in Tick
      PROVE  /\ offered[ask] \in Nat
             /\ offered[ask] <= b[<<Opposite(side), Complement(ask)>>]
             /\ offered[ask] > 0 => ask + Slippage <= limit
  <2>1. Complement(ask) \in Tick /\ Complement(ask) \in Price
    BY <1>1 DEF Complement, Price, CheckPrice
  <2>2. b[<<Opposite(side), Complement(ask)>>] \in Nat
    BY <2>1 DEF Book, Cell, Opposite, Side
  <2> DEFINE size == b[<<Opposite(side), Complement(ask)>>]
  <2>3. Share(DepthFraction, size) \in Nat /\ Share(DepthFraction, size) <= size
    BY <1>1, <2>2, ShareIsBounded
  <2>4. offered[ask] = IF ask + Slippage <= limit THEN Share(DepthFraction, size) ELSE 0
    BY DEF Offered
  <2> HIDE DEF offered, size
  <2>5. size \in Nat
    BY <2>2 DEF size
  <2>6. QED
    BY <2>3, <2>4, <2>5 DEF size
<1> HIDE DEF offered
<1>a. \A ask \in Tick : offered[ask] \in Nat
  BY <1>2
<1>3. ASSUME NEW k \in Nat, k + 1 <= PriceScale - 1
      PROVE  /\ k + 1 \in Tick /\ (k + 1) - 1 = k
             /\ Total(offered, k) \in Int
             /\ Total(offered, k + 1) = Total(offered, k) + offered[k+1]
  <2>1. \A i \in 1 .. k + 1 : i \in Tick
    BY <1>1, <1>3
  <2>a. \A i \in 1 .. k + 1 : offered[i] \in Int
    BY <1>a, <2>1
  <2>2. QED
    BY <1>1, <1>3, <2>a, TotalSteps
<1>4. \A k \in 0 .. PriceScale - 1 : Total(offered, k) \in Nat
  <2> DEFINE T == {k \in Nat : k <= PriceScale - 1 => Total(offered, k) \in Nat}
  <2>1. 0 \in T
    BY TotalOfNone
  <2>2. ASSUME NEW k \in T PROVE k + 1 \in T
    <3>1. SUFFICES ASSUME k + 1 <= PriceScale - 1 PROVE Total(offered, k + 1) \in Nat
      OBVIOUS
    <3>2. k \in Nat /\ Total(offered, k) \in Nat
      BY <1>1, <2>2, <3>1
    <3>3. k + 1 \in Tick /\ Total(offered, k + 1) = Total(offered, k) + offered[k+1]
      BY <1>3, <3>1, <3>2
    <3>4. offered[k+1] \in Nat
      BY <1>a, <3>3
    <3>5. QED
      BY <3>2, <3>3, <3>4
  <2>3. T = Nat
    <3> HIDE DEF T
    <3>1. T \subseteq Nat
      BY DEF T
    <3>2. QED
      BY <2>1, <2>2, <3>1, SetInduction
  <2>4. QED
    BY <2>3
<1>5. ASSUME NEW ask \in Tick
      PROVE  /\ taken[ask] \in Nat /\ taken[ask] <= offered[ask]
             /\ taken[ask] = upTo(ask) - upTo(ask - 1)
  <2>1. ask - 1 \in Nat /\ ask - 1 \in 0 .. PriceScale - 1 /\ (ask - 1) + 1 = ask
    BY <1>1
  <2>2. /\ Total(offered, ask - 1) \in Nat
        /\ Total(offered, ask) = Total(offered, ask - 1) + offered[ask]
    BY <1>1, <1>3, <1>4, <2>1
  <2>3. taken[ask] = upTo(ask) - upTo(ask - 1) /\ ask \in Nat
    BY <1>1
  <2> DEFINE here == Total(offered, ask)  before == Total(offered, ask - 1)
  <2>4. offered[ask] \in Nat /\ before \in Nat /\ here = before + offered[ask]
    BY <1>2, <2>2
  <2>5. upTo(ask) = MinOf(qty, here) /\ upTo(ask - 1) = MinOf(qty, before)
    OBVIOUS
  <2> HIDE DEF taken, upTo, here, before
  <2>6. QED
    BY <2>3, <2>4, <2>5 DEF MinOf
<1>6. taken \in [Tick -> Nat]
  BY <1>5
<1>7. \A k \in 0 .. PriceScale - 1 : Total(taken, k) = upTo(k)
  <2> DEFINE T == {k \in Nat : k <= PriceScale - 1 => Total(taken, k) = upTo(k)}
  <2>1. 0 \in T
    BY TotalOfNone DEF MinOf
  <2>2. ASSUME NEW k \in T PROVE k + 1 \in T
    <3>1. SUFFICES ASSUME k + 1 <= PriceScale - 1 PROVE Total(taken, k + 1) = upTo(k + 1)
      OBVIOUS
    <3>2. k \in Nat /\ Total(taken, k) = upTo(k) /\ k \in 0 .. PriceScale - 1 /\ k + 1 \in 0 .. PriceScale - 1
      BY <1>1, <2>2, <3>1
    <3>3. \A i \in 1 .. k + 1 : taken[i] \in Int
      BY <1>1, <1>5, <3>1
    <3> HIDE DEF taken
    <3>4. Total(taken, k + 1) = Total(taken, k) + taken[k+1]
      BY <3>2, <3>3, TotalSteps
    <3>5. taken[k+1] = upTo(k + 1) - upTo(k)
      BY <1>3, <1>5, <3>1, <3>2 DEF taken
    <3>6. upTo(k) \in Int /\ upTo(k + 1) \in Int
      BY <1>4, <3>2 DEF MinOf
    <3> HIDE DEF upTo
    <3>7. QED
      BY <3>2, <3>4, <3>5, <3>6
  <2>3. T = Nat
    <3> HIDE DEF T
    <3>1. T \subseteq Nat
      BY DEF T
    <3>2. QED
      BY <2>1, <2>2, <3>1, SetInduction
  <2>4. QED
    <3> HIDE DEF taken, upTo
    <3>1. QED
      BY <1>1, <2>3
<1>8. AllTaken(taken) <= qty
  <2>1. PriceScale - 1 \in 0 .. PriceScale - 1
    BY <1>1
  <2> HIDE DEF taken
  <2>2. AllTaken(taken) = MinOf(qty, Total(offered, PriceScale - 1))
    BY <1>7, <2>1 DEF AllTaken
  <2>3. QED
    BY <1>4, <2>1, <2>2 DEF MinOf
<1>9. taken = Taken(b, side, limit, qty)
  BY DEF Taken, offered
<1>10. ASSUME NEW ask \in Tick
       PROVE  /\ taken[ask] <= b[<<Opposite(side), Complement(ask)>>]
              /\ taken[ask] > 0 => ask + Slippage <= limit
  <2>1. b[<<Opposite(side), Complement(ask)>>] \in Nat
    <3>1. Complement(ask) \in Tick /\ Complement(ask) \in Price
      BY <1>1 DEF Complement, Price, CheckPrice
    <3>2. QED
      BY <3>1 DEF Book, Cell, Opposite, Side
  <2> HIDE DEF taken
  <2>2. QED
    BY <1>2, <1>5, <2>1
<1>11. QED
  <2> HIDE DEF taken
  <2>1. QED
    BY <1>6, <1>8, <1>9, <1>10

\* What a fill is charged, before any rounding, is a natural number at a price up to a dollar.
LEMMA ExactFeeType ==
    ASSUME NEW rate \in Nat, NEW price \in Nat, NEW qty \in Nat, qty = 0 \/ price <= PriceScale
    PROVE  ExactFee(rate, [price |-> price, qty |-> qty]) \in Nat
<1>1. PriceScale \in Nat /\ qty * price \in Nat
  BY OrderBookAssumption
<1>2. ExactFee(rate, [price |-> price, qty |-> qty]) = rate * (qty * price * (PriceScale - price))
  BY DEF ExactFee
<1>3. qty * price * (PriceScale - price) \in Nat
  <2>1. CASE qty = 0
    <3>1. qty * price = 0
      BY <2>1
    <3>2. QED
      BY <1>1, <3>1
  <2>2. CASE price <= PriceScale
    <3>1. PriceScale - price \in Nat
      BY <1>1, <2>2
    <3>2. QED
      BY <1>1, <3>1
  <2>3. QED
    BY <2>1, <2>2
<1>4. QED
  BY <1>2, <1>3

LEMMA MakerFeeType ==
    ASSUME NEW price \in Nat, price <= PriceScale, NEW qty \in Nat
    PROVE  MakerFee(price, qty) \in Nat
<1> DEFINE fills == <<[price |-> price, qty |-> qty]>>
<1>1. DOMAIN fills = 1 .. 1 /\ Len(fills) = 1 /\ fills[1] = [price |-> price, qty |-> qty]
  OBVIOUS
<1>2. ExactFee(MakerRate, fills[1]) \in Nat /\ MakerRate \in Nat
  BY <1>1, ExactFeeType, FeesAssumption
<1> HIDE DEF fills
<1>a. 1 \in Nat /\ \A i \in 1 .. 1 : ExactFee(MakerRate, fills[i]) \in Nat
  BY <1>2
<1>3. OrderFee(FeeRounding, MakerRate, fills) \in Nat
  BY <1>1, <1>2, <1>a, OrderFeeType
<1>4. QED
  BY <1>3 DEF MakerFee, fills

LEMMA TakerFeeType ==
    ASSUME NEW taken \in [Tick -> Nat], NEW limit \in Nat, limit <= PriceScale,
           \A ask \in Tick : taken[ask] > 0 => ask + Slippage <= limit
    PROVE  TakerFee(taken) \in Nat
<1> DEFINE fills == [ask \in Tick |-> [price |-> ask + Slippage, qty |-> taken[ask]]]
<1>1. PriceScale - 1 \in Nat /\ PriceScale \in Nat /\ Slippage \in Nat /\ TakerRate \in Nat
  BY OrderBookAssumption, FillsAssumption, FeesAssumption
<1>2. DOMAIN fills = 1 .. PriceScale - 1 /\ Len(fills) = PriceScale - 1
  BY <1>1 DEF Tick
<1>3. ASSUME NEW i \in 1 .. PriceScale - 1
      PROVE  ExactFee(TakerRate, fills[i]) \in Nat
  <2>1. i \in Tick /\ i + Slippage \in Nat /\ taken[i] \in Nat
    BY <1>1 DEF Tick
  <2>2. fills[i] = [price |-> i + Slippage, qty |-> taken[i]]
    BY <2>1
  <2>3. taken[i] = 0 \/ i + Slippage <= PriceScale
    BY <1>1, <2>1
  <2> HIDE DEF fills
  <2>4. ExactFee(TakerRate, [price |-> i + Slippage, qty |-> taken[i]]) \in Nat
    BY <1>1, <2>1, <2>3, ExactFeeType
  <2>5. QED
    BY <2>2, <2>4
<1> HIDE DEF fills
<1>4. OrderFee(FeeRounding, TakerRate, fills) \in Nat
  BY <1>1, <1>2, <1>3, OrderFeeType
<1>5. QED
  BY <1>4 DEF TakerFee, fills

\* What the book shows after a taker is a book.
LEMMA AfterTakerType ==
    ASSUME NEW b \in Book, NEW side \in Side, NEW taken \in [Tick -> Nat]
    PROVE  AfterTaker(b, side, taken) \in Book
<1>1. ASSUME NEW c \in Cell
      PROVE  LET ask == Complement(c[2]) - Slippage
                 took == IF c[1] = Opposite(side) /\ ask \in Tick THEN taken[ask] ELSE 0
             IN  (IF took <= b[c] THEN b[c] - took ELSE b[c]) \in Nat
  BY DEF Book
<1>2. QED
  BY <1>1 DEF AfterTaker, Book

\* One more order leaves the sums over the orders before it alone.
LEMMA TotalWith ==
    ASSUME NEW n \in Nat, NEW f \in [1 .. n -> Int], NEW g \in [1 .. n + 1 -> Int],
           \A i \in 1 .. n : g[i] = f[i], g[n+1] = 0
    PROVE  Total(g, n + 1) = Total(f, n)
<1>1. \A i \in 1 .. n + 1 : g[i] \in Int
  OBVIOUS
<1>2. Total(g, n + 1) = Total(g, n) + g[n+1] /\ Total(g, n) \in Int
  BY <1>1, TotalSteps
<1>3. \A i \in 1 .. n : f[i] \in Int /\ g[i] = f[i]
  OBVIOUS
<1>4. Total(g, n) = Total(f, n)
  BY <1>3, TotalOfEqualTerms
<1>5. QED
  BY <1>2, <1>4

----------------------------------------------------------------------------
(* Steps that fill nothing and drop nothing. *)

\* The lists of an accepted order, extended by one.
LEMMA WithType ==
    ASSUME NEW S, placed \in Nat, NEW f \in [1 .. placed -> S], NEW v \in S
    PROVE  /\ With(f, v) \in [1 .. placed + 1 -> S]
           /\ With(f, v)[placed + 1] = v
           /\ \A id \in 1 .. placed : With(f, v)[id] = f[id]
  BY DEF With

\* Records nobody touches stay sound, whichever order starts to take.
LEMMA RecordsKept ==
    ASSUME RecordsSound, resting \subseteq 1 .. placed, Busy \subseteq Busy',
           UNCHANGED <<placed, order, status, filled, resting, queue, reserved, closed>>
    PROVE  RecordsSound'
<1>1. ReservedIsExact'
  BY DEF RecordsSound, ReservedIsExact
<1>2. ASSUME NEW id \in (1 .. placed) \ Busy' PROVE StatusSound(id)'
  BY <1>2 DEF RecordsSound, StatusSound
<1>3. ASSUME NEW id \in resting PROVE RestingSound(id)'
  BY DEF RecordsSound, RestingSound
<1>4. QED
  BY <1>1, <1>2, <1>3 DEF RecordsSound

LEMMA LedgerKept == ASSUME LedgerInv, UNCHANGED ledger PROVE LedgerInv'
  BY LedgerSteps

LEMMA LedgerTypeKept == ASSUME LedgerTypeOK, UNCHANGED ledger PROVE LedgerTypeOK'
  BY DEF LedgerTypeOK, ledger

\* Context.place
LEMMA SubmitStep == ASSUME OrdersInv, NEW o \in Orders, Submit(o) PROVE OrdersInv'
<1>1. /\ placed \in Nat /\ placed + 1 \in 0 .. MaxOrders /\ o \in AnOrder
      /\ placed' = placed + 1 /\ stage = "strategy" /\ stage' = "strategy" /\ now \in Nat
      /\ SubmitLatency \in Nat /\ resting \subseteq 1 .. placed
  BY EngineAssumption DEF Submit, OrdersInv, EngineTypeOK, loop
<1>2. /\ order' \in [1 .. placed' -> AnOrder] /\ due' \in [1 .. placed' -> Nat]
      /\ status' \in [1 .. placed' -> Status] /\ filled' \in [1 .. placed' -> Nat]
      /\ queue' \in [1 .. placed' -> Queue] /\ reserved' \in [1 .. placed' -> Nat]
      /\ status'[placed + 1] = "submitted" /\ filled'[placed + 1] = 0 /\ reserved'[placed + 1] = 0
      /\ due'[placed + 1] = now + SubmitLatency
  <2>1. "submitted" \in Status /\ NoQueue \in Queue /\ 0 \in Nat /\ now + SubmitLatency \in Nat
    BY <1>1 DEF Status, NoQueue, Queue
  <2>2. /\ order \in [1 .. placed -> AnOrder] /\ due \in [1 .. placed -> Nat]
        /\ status \in [1 .. placed -> Status] /\ filled \in [1 .. placed -> Nat]
        /\ queue \in [1 .. placed -> Queue] /\ reserved \in [1 .. placed -> Nat]
    BY DEF OrdersInv, EngineTypeOK
  <2>3. /\ order' = With(order, o) /\ due' = With(due, now + SubmitLatency)
        /\ status' = With(status, "submitted") /\ filled' = With(filled, 0)
        /\ queue' = With(queue, NoQueue) /\ reserved' = With(reserved, 0)
    BY DEF Submit
  <2>4. \A f, v : With(f, v)[placed + 1] = v
    BY <1>1 DEF With
  <2>5. order' \in [1 .. placed' -> AnOrder] /\ due' \in [1 .. placed' -> Nat]
    BY <1>1, <2>1, <2>2, <2>3, WithType
  <2>6. status' \in [1 .. placed' -> Status] /\ queue' \in [1 .. placed' -> Queue]
    BY <1>1, <2>1, <2>2, <2>3 DEF With
  <2>7. filled' \in [1 .. placed' -> Nat] /\ reserved' \in [1 .. placed' -> Nat]
    BY <1>1, <2>1, <2>2, <2>3 DEF With
  <2>8. QED
    BY <2>3, <2>4, <2>5, <2>6, <2>7
<1>3. \A id \in 1 .. placed :
          /\ order'[id] = order[id] /\ due'[id] = due[id] /\ status'[id] = status[id]
          /\ filled'[id] = filled[id] /\ queue'[id] = queue[id] /\ reserved'[id] = reserved[id]
  BY <1>1 DEF Submit, With
<1>4. /\ resting' = resting /\ todo' = todo /\ cancels' = cancels /\ revoked' = revoked
      /\ book' = book /\ closed' = closed /\ tick' = tick /\ now' = now /\ settled' = settled
      /\ 1 .. placed' = (1 .. placed) \cup {placed + 1} /\ placed + 1 \notin resting
  BY <1>1 DEF Submit, work, markets, history, loop, ledger
<1>5. EngineTypeOK'
  <2>1. /\ cancels' \subseteq Nat \X (1 .. placed') /\ resting' \subseteq 1 .. placed'
        /\ revoked' \subseteq 1 .. placed'
    BY <1>4 DEF OrdersInv, EngineTypeOK
  <2>2. LedgerTypeOK'
    BY LedgerTypeKept DEF Submit, OrdersInv, EngineTypeOK
  <2>3. QED
    BY <1>1, <1>2, <1>4, <2>1, <2>2
       DEF Submit, OrdersInv, EngineTypeOK, loop, markets, work, depth, history
<1>6. LedgerInv'
  BY LedgerKept DEF Submit, OrdersInv
<1>7. RecordsSound'
  <2>1. Busy = {} /\ Busy' = {}
    BY <1>1 DEF Busy
  <2>2. ReservedIsExact'
    BY <1>1, <1>2, <1>3, <1>4 DEF OrdersInv, RecordsSound, ReservedIsExact
  <2>3. ASSUME NEW id \in 1 .. placed' PROVE StatusSound(id)'
    BY <1>1, <1>2, <1>3, <1>4, <2>1 DEF OrdersInv, RecordsSound, StatusSound
  <2>4. ASSUME NEW id \in resting PROVE RestingSound(id)'
    BY <1>1, <1>3, <1>4 DEF OrdersInv, RecordsSound, RestingSound
  <2>5. QED
    BY <1>4, <2>2, <2>3, <2>4 DEF RecordsSound
<1>8. WorkSound'
  BY <1>1, <1>3, <1>4 DEF OrdersInv, WorkSound
<1>9. TakingSound'
  BY <1>1 DEF TakingSound
<1>10. TimeSound'
  <2>1. Submitted' = Submitted \cup {placed + 1}
    BY <1>2, <1>3, <1>4 DEF Submitted
  <2>2. \A c \in cancels : c[2] \in 1 .. placed
    BY DEF OrdersInv, EngineTypeOK
  <2>3. placed + 1 \notin revoked
    BY <1>1 DEF OrdersInv, EngineTypeOK
  <2>4. \A id \in 1 .. placed' : due'[id] <= now' + SubmitLatency
    <3>1. TAKE id \in 1 .. placed'
    <3>2. CASE id = placed + 1
      BY <1>1, <1>2, <1>4, <3>2
    <3>3. CASE id # placed + 1
      BY <1>1, <1>3, <1>4, <3>3 DEF OrdersInv, TimeSound
    <3>4. QED
      BY <3>2, <3>3
  <2>5. \A id \in Submitted' : now' <= due'[id]
    <3>1. now <= now + SubmitLatency
      BY <1>1
    <3>2. \A id \in Submitted : id \in 1 .. placed /\ now <= due[id]
      BY DEF OrdersInv, TimeSound, Submitted
    <3>3. QED
      BY <1>2, <1>3, <1>4, <2>1, <3>1, <3>2
  <2>6. \A c \in cancels' : now' <= c[1] /\ due'[c[2]] = due[c[2]]
    BY <1>3, <1>4, <2>2 DEF OrdersInv, TimeSound
  <2>7. QED
    BY <1>4, <2>1, <2>3, <2>4, <2>5, <2>6 DEF OrdersInv, TimeSound
<1>11. MarketsSound'
  BY <1>4 DEF OrdersInv, MarketsSound
<1>12. QED
  BY <1>5, <1>6, <1>7, <1>8, <1>9, <1>10, <1>11 DEF OrdersInv

\* Context.cancel
LEMMA RequestCancelStep ==
    ASSUME OrdersInv, NEW id \in 1 .. placed, RequestCancel(id) PROVE OrdersInv'
<1>1. /\ stage = "strategy" /\ stage' = stage /\ now' = now /\ due' = due /\ placed' = placed
      /\ cancels' = cancels \cup {<<now + CancelLatency, id>>} /\ now \in Nat
      /\ SubmitLatency \in Nat /\ CancelLatency \in Nat /\ due[id] \in Nat
  BY EngineAssumption DEF RequestCancel, OrdersInv, EngineTypeOK, loop
<1>2. EngineTypeOK'
  <2>1. LedgerTypeOK'
    BY LedgerTypeKept DEF RequestCancel, OrdersInv, EngineTypeOK
  <2>2. <<now + CancelLatency, id>> \in Nat \X (1 .. placed)
    BY <1>1
  <2>3. QED
    BY <1>1, <2>1, <2>2
       DEF RequestCancel, OrdersInv, EngineTypeOK, loop, markets, records, work, depth, history
<1>3. LedgerInv'
  BY LedgerKept DEF RequestCancel, OrdersInv
<1>4. RecordsSound'
  BY <1>1, RecordsKept DEF RequestCancel, OrdersInv, EngineTypeOK, Busy, loop, markets, records
<1>5. WorkSound' /\ TakingSound' /\ MarketsSound'
  BY <1>1 DEF RequestCancel, OrdersInv, WorkSound, TakingSound, MarketsSound, ledger, markets, records, work
<1>6. TimeSound'
  <2>1. status' = status /\ revoked' = revoked /\ resting' = resting /\ Submitted' = Submitted
    BY <1>1 DEF RequestCancel, records, history, Submitted
  <2>2. \A c \in cancels' : now' <= c[1] /\ (CancelLatency >= SubmitLatency => due'[c[2]] <= c[1])
    <3>1. due[id] <= now + SubmitLatency
      BY DEF OrdersInv, TimeSound
    <3>2. \A c \in cancels : now <= c[1] /\ (CancelLatency >= SubmitLatency => due[c[2]] <= c[1])
      BY DEF OrdersInv, TimeSound
    <3>3. ASSUME CancelLatency >= SubmitLatency PROVE due[id] <= now + CancelLatency
      BY <1>1, <3>1, <3>3
    <3>4. now <= now + CancelLatency
      BY <1>1
    <3>5. QED
      BY <1>1, <3>2, <3>3, <3>4
  <2>3. QED
    BY <1>1, <2>1, <2>2 DEF OrdersInv, TimeSound
<1>7. QED
  BY <1>2, <1>3, <1>4, <1>5, <1>6 DEF OrdersInv

\* What is scheduled stays in the future when time moves to an instant before which nothing is,
\* as long as orders only leave the schedule, and only those that do may come to rest.
LEMMA TimeMoves ==
    ASSUME OrdersInv, now' \in Nat, now <= now', NoArrivalBefore(now'), NoCancelBefore(now'),
           UNCHANGED <<placed, due, cancels, revoked>>,
           Submitted' \subseteq Submitted, resting' \subseteq resting \cup Submitted
    PROVE  TimeSound'
<1>1. now \in Nat /\ SubmitLatency \in Nat /\ due \in [1 .. placed -> Nat]
  BY EngineAssumption DEF OrdersInv, EngineTypeOK
<1>2. \A id \in 1 .. placed : due[id] <= now' + SubmitLatency
  <2>1. TAKE id \in 1 .. placed
  <2>2. due[id] \in Nat /\ due[id] <= now + SubmitLatency
    BY <1>1 DEF OrdersInv, TimeSound
  <2>3. QED
    BY <1>1, <2>2
<1>3. \A id \in Submitted : now' <= due[id]
  BY <1>1 DEF NoArrivalBefore, Submitted
<1>4. \A c \in cancels : now' <= c[1]
  BY DEF NoCancelBefore, OrdersInv, EngineTypeOK
<1>5. QED
  BY <1>1, <1>2, <1>3, <1>4 DEF OrdersInv, TimeSound

\* Nothing is due before now.
LEMMA NothingIsLate == ASSUME OrdersInv PROVE NoArrivalBefore(now) /\ NoCancelBefore(now)
<1>1. now \in Nat
  BY DEF OrdersInv, EngineTypeOK
<1>2. \A id \in Submitted : now <= due[id] /\ due[id] \in Nat
  BY DEF OrdersInv, EngineTypeOK, TimeSound, Submitted
<1>3. \A c \in cancels : now <= c[1] /\ c[1] \in Nat
  BY DEF OrdersInv, EngineTypeOK, TimeSound
<1>4. QED
  BY <1>1, <1>2, <1>3 DEF NoArrivalBefore, NoCancelBefore

LEMMA TimeStands ==
    ASSUME OrdersInv, UNCHANGED <<now, placed, due, cancels, revoked>>,
           Submitted' \subseteq Submitted, resting' \subseteq resting \cup Submitted
    PROVE  TimeSound'
<1>1. now' \in Nat /\ now <= now' /\ NoArrivalBefore(now') /\ NoCancelBefore(now')
  <2>1. now' = now /\ now \in Nat /\ now <= now
    BY DEF OrdersInv, EngineTypeOK
  <2>2. NoArrivalBefore(now) /\ NoCancelBefore(now)
    BY NothingIsLate
  <2>3. QED
    BY <2>1, <2>2 DEF NoArrivalBefore, NoCancelBefore
<1>2. QED
  BY <1>1, TimeMoves

\* A batch starts or ends, the strategy is woken, or nothing is left to match.
LEMMA LoopStep ==
    ASSUME OrdersInv, \/ \E t \in 1 .. MaxTime : BatchStarts(t)
                      \/ BatchEnds
                      \/ \E t \in WakeTimes : WakeUp(t)
                      \/ Matched
    PROVE  OrdersInv'
<1>1. /\ UNCHANGED <<ledger, fed, markets, orders, records, todo, taking, depth, history>>
      /\ stage \in {"strategy", "between", "batch", "book", "print"}
      /\ stage' \in {"strategy", "batch"} /\ todo = {}
      /\ tick' \in {tick, None} /\ budget' \in {budget, 0}
      /\ now' \in Nat /\ now <= now' /\ NoArrivalBefore(now') /\ NoCancelBefore(now')
  <2>1. now \in Nat /\ NoArrivalBefore(now) /\ NoCancelBefore(now) /\ WakeTimes \subseteq Nat
    BY NothingIsLate, EngineAssumption DEF OrdersInv, EngineTypeOK
  <2>2. ASSUME NEW t \in 1 .. MaxTime, BatchStarts(t) PROVE <1>1!:
    BY <2>1, <2>2 DEF BatchStarts, LoopGoesOn, work, OrdersInv, WorkSound
  <2>3. CASE BatchEnds
    BY <2>1, <2>3 DEF BatchEnds, work, OrdersInv, WorkSound
  <2>4. ASSUME NEW t \in WakeTimes, WakeUp(t) PROVE <1>1!:
    <3>1. \A id \in Submitted : due[id] > t => due[id] >= t
      BY <2>1 DEF OrdersInv, EngineTypeOK, Submitted
    <3>2. \A c \in cancels : c[1] > t => c[1] >= t
      BY <2>1 DEF OrdersInv, EngineTypeOK
    <3>3. NoArrivalBefore(t) /\ NoCancelBefore(t)
      BY <2>4, <3>1, <3>2 DEF WakeUp, NoArrivalUntil, NoCancelUntil, NoArrivalBefore, NoCancelBefore
    <3>4. QED
      BY <2>1, <2>4, <3>3 DEF WakeUp, LoopGoesOn, work, OrdersInv, WorkSound
  <2>5. CASE Matched
    BY <2>1, <2>5 DEF Matched
  <2>6. QED
    BY <2>2, <2>3, <2>4, <2>5
<1>2. EngineTypeOK'
  <2>1. LedgerTypeOK'
    BY <1>1, LedgerTypeKept DEF OrdersInv, EngineTypeOK
  <2>2. /\ tick' \in TradePrint \cup {None} /\ budget' \in Nat /\ now' \in Nat
        /\ stage' \in {"strategy", "between", "batch", "book", "print", "filling"}
    BY <1>1 DEF OrdersInv, EngineTypeOK
  <2>3. /\ fed' = fed /\ book' = book /\ bookTs' = bookTs /\ closed' = closed
        /\ placed' = placed /\ order' = order /\ due' = due /\ cancels' = cancels
        /\ status' = status /\ filled' = filled /\ log' = log /\ resting' = resting
        /\ queue' = queue /\ reserved' = reserved /\ todo' = todo /\ taking' = taking
        /\ shown' = shown /\ used' = used /\ mids' = mids /\ payouts' = payouts /\ revoked' = revoked
    BY <1>1 DEF markets, orders, records, depth, history
  <2>4. QED
    BY <2>1, <2>2, <2>3 DEF OrdersInv, EngineTypeOK
<1>3. LedgerInv'
  BY <1>1, LedgerKept DEF OrdersInv
<1>4. RecordsSound'
  BY <1>1, RecordsKept DEF OrdersInv, EngineTypeOK, Busy, markets, orders, records
<1>5. WorkSound' /\ TakingSound' /\ MarketsSound'
  BY <1>1 DEF OrdersInv, WorkSound, TakingSound, MarketsSound, ledger, markets
<1>6. TimeSound'
  BY <1>1, TimeMoves DEF orders, records, history, Submitted
<1>7. QED
  BY <1>2, <1>3, <1>4, <1>5, <1>6 DEF OrdersInv

\* A step of the feed that leaves the orders, their records and the schedule alone.
LEMMA ScheduleKept ==
    ASSUME OrdersInv, UNCHANGED <<now, orders, records, revoked>>
    PROVE  TimeSound'
  BY DEF OrdersInv, TimeSound, Submitted, orders, records

LEMMA FeedEventFacts ==
    ASSUME OrdersInv, FeedEvent
    PROVE  stage = "batch" /\ todo = {} /\ now' = now /\ now \in Nat /\ fed' \in 0 .. MaxFeed
  BY EngineAssumption DEF OrdersInv, EngineTypeOK, WorkSound, FeedEvent

LEMMA ConfirmBooksStep ==
    ASSUME OrdersInv, NEW ms \in SUBSET Market, ConfirmBooks(ms) PROVE OrdersInv'
<1>1. /\ stage = "batch" /\ todo = {} /\ now' = now /\ now \in Nat /\ fed' \in 0 .. MaxFeed /\ stage' = stage
      /\ book' = book /\ closed' = closed
      /\ UNCHANGED <<ledger, orders, records, work, depth, history>>
      /\ bookTs' = [m \in Market |-> IF m \in ms /\ book[m] # None THEN now ELSE bookTs[m]]
  BY FeedEventFacts DEF ConfirmBooks
<1>2. EngineTypeOK'
  <2>1. LedgerTypeOK'
    BY <1>1, LedgerTypeKept DEF OrdersInv, EngineTypeOK
  <2>2. bookTs' \in [Market -> Nat \cup {None}]
    BY <1>1 DEF OrdersInv, EngineTypeOK
  <2>3. QED
    BY <1>1, <2>1, <2>2 DEF OrdersInv, EngineTypeOK, orders, records, work, depth, history
<1>3. LedgerInv'
  BY <1>1, LedgerKept DEF OrdersInv
<1>4. RecordsSound'
  BY <1>1, RecordsKept DEF OrdersInv, EngineTypeOK, Busy, orders, records
<1>5. WorkSound' /\ TakingSound' /\ MarketsSound'
  BY <1>1 DEF OrdersInv, WorkSound, TakingSound, MarketsSound, ledger, work
<1>6. TimeSound'
  BY <1>1, ScheduleKept DEF history
<1>7. QED
  BY <1>2, <1>3, <1>4, <1>5, <1>6 DEF OrdersInv

\* The mid of a two-sided book is recorded as a number.
LEMMA MidsType ==
    ASSUME NEW b \in Book, NEW series \in Seq(Mid), now \in Nat
    PROVE  MidsWith(series, b) \in Seq(Mid)
<1>1. CASE HasBid(b, "YES") /\ HasBid(b, "NO")
  <2>1. /\ BestBid(b, "YES") \in Nat /\ BestBid(b, "NO") \in Nat /\ BestBid(b, "NO") <= PriceScale
        /\ PriceScale \in Nat
    BY <1>1, BestBidType, OrderBookAssumption DEF Side
  <2>2. BestAsk(b, "YES") \in Nat
    BY <2>1 DEF BestAsk, Opposite, Complement
  <2>3. [at |-> now, twice |-> BestBid(b, "YES") + BestAsk(b, "YES")] \in Mid
    BY <2>1, <2>2 DEF Mid
  <2>4. QED
    BY <1>1, <2>3 DEF MidsWith
<1>2. CASE ~(HasBid(b, "YES") /\ HasBid(b, "NO"))
  BY <1>2 DEF MidsWith
<1>3. QED
  BY <1>1, <1>2

LEMMA UpdateBookStep ==
    ASSUME OrdersInv, NEW m \in Market, NEW b \in Book, UpdateBook(m, b) PROVE OrdersInv'
<1>1. /\ stage = "batch" /\ todo = {} /\ now' = now /\ now \in Nat /\ fed' \in 0 .. MaxFeed /\ stage' = "book"
      /\ book' = [book EXCEPT ![m] = b] /\ bookTs' = [bookTs EXCEPT ![m] = now]
      /\ shown' = [shown EXCEPT ![m] = b] /\ used' = [used EXCEPT ![m] = NoDepth]
      /\ mids' = [mids EXCEPT ![m] = MidsWith(@, b)]
      /\ todo' = RestingIn(m)
      /\ UNCHANGED <<ledger, closed, orders, records, tick, budget, taking, history>>
  BY FeedEventFacts DEF UpdateBook
<1>2. EngineTypeOK'
  <2>1. LedgerTypeOK'
    BY <1>1, LedgerTypeKept DEF OrdersInv, EngineTypeOK
  <2>2. book' \in [Market -> Book \cup {None}] /\ bookTs' \in [Market -> Nat \cup {None}]
    BY <1>1 DEF OrdersInv, EngineTypeOK
  <2>3. shown' \in [Market -> Book] /\ used' \in [Market -> [Cell -> Nat]]
    <3>1. NoDepth \in [Cell -> Nat]
      BY DEF NoDepth
    <3>2. QED
      BY <1>1, <3>1 DEF OrdersInv, EngineTypeOK
  <2>4. mids' \in [Market -> Seq(Mid)]
    <3>1. mids \in [Market -> Seq(Mid)] /\ MidsWith(mids[m], b) \in Seq(Mid)
      BY <1>1, MidsType DEF OrdersInv, EngineTypeOK
    <3>2. QED
      BY <1>1, <3>1
  <2>5. todo' \subseteq resting
    BY <1>1 DEF RestingIn
  <2>6. QED
    BY <1>1, <2>1, <2>2, <2>3, <2>4, <2>5 DEF OrdersInv, EngineTypeOK, orders, records, history
<1>3. LedgerInv'
  BY <1>1, LedgerKept DEF OrdersInv
<1>4. RecordsSound'
  BY <1>1, RecordsKept DEF OrdersInv, EngineTypeOK, Busy, orders, records
<1>5. WorkSound'
  <2>1. b # None /\ book \in [Market -> Book \cup {None}]
    BY EngineAssumption DEF OrdersInv, EngineTypeOK
  <2>2. QED
    BY <1>1, <2>1 DEF WorkSound, RestingIn, orders
<1>6. TakingSound' /\ MarketsSound'
  BY <1>1 DEF OrdersInv, TakingSound, MarketsSound, ledger
<1>7. TimeSound'
  BY <1>1, ScheduleKept DEF history
<1>8. QED
  BY <1>2, <1>3, <1>4, <1>5, <1>6, <1>7 DEF OrdersInv

LEMMA TradeTickStep ==
    ASSUME OrdersInv, NEW m \in Market, NEW p \in TradePrint, TradeTick(m, p) PROVE OrdersInv'
<1>1. /\ stage = "batch" /\ todo = {} /\ now' = now /\ now \in Nat /\ fed' \in 0 .. MaxFeed /\ stage' = "print"
      /\ todo' = RestingIn(m) /\ tick' = p /\ budget' = p.count
      /\ UNCHANGED <<ledger, markets, orders, records, taking, depth, history>>
  BY FeedEventFacts DEF TradeTick
<1>2. EngineTypeOK'
  <2>1. LedgerTypeOK'
    BY <1>1, LedgerTypeKept DEF OrdersInv, EngineTypeOK
  <2>2. todo' \subseteq resting /\ budget' \in Nat
    BY <1>1 DEF RestingIn, TradePrint
  <2>3. QED
    BY <1>1, <2>1, <2>2 DEF OrdersInv, EngineTypeOK, markets, orders, records, depth, history
<1>3. LedgerInv'
  BY <1>1, LedgerKept DEF OrdersInv
<1>4. RecordsSound'
  BY <1>1, RecordsKept DEF OrdersInv, EngineTypeOK, Busy, markets, orders, records
<1>5. WorkSound' /\ TakingSound' /\ MarketsSound'
  BY <1>1, EngineAssumption DEF OrdersInv, WorkSound, TakingSound, MarketsSound, ledger, markets
<1>6. TimeSound'
  BY <1>1, ScheduleKept DEF history
<1>7. QED
  BY <1>2, <1>3, <1>4, <1>5, <1>6 DEF OrdersInv

----------------------------------------------------------------------------
(* Orders leaving the book. *)

LEMMA DropSound ==
    ASSUME OrdersInv, NEW ids, ids \subseteq resting, Drop(ids),
           UNCHANGED <<placed, order, due>>, stage # "filling", stage' # "filling",
           \A id \in resting \ ids : ~closed'[order[id].market]
    PROVE  /\ RecordsSound'
           /\ status' \in [1 .. placed -> Status] /\ filled' = filled /\ log' = log
           /\ queue' \in [1 .. placed -> Queue] /\ reserved' \in [1 .. placed -> Nat]
           /\ resting' = resting \ ids /\ Submitted' = Submitted
<1>1. /\ status \in [1 .. placed -> Status] /\ filled \in [1 .. placed -> Nat]
      /\ queue \in [1 .. placed -> Queue] /\ reserved \in [1 .. placed -> Nat]
      /\ resting \subseteq 1 .. placed /\ order \in [1 .. placed -> AnOrder]
  BY DEF OrdersInv, EngineTypeOK
<1>2. /\ status' = [id \in 1 .. placed |-> IF id \in ids THEN DroppedStatus(id) ELSE status[id]]
      /\ queue' = [id \in 1 .. placed |-> IF id \in ids THEN NoQueue ELSE queue[id]]
      /\ reserved' = [id \in 1 .. placed |-> IF id \in ids THEN 0 ELSE reserved[id]]
      /\ resting' = resting \ ids /\ filled' = filled /\ log' = log
  BY DEF Drop
<1>3. Busy = {} /\ Busy' = {}
  BY DEF Busy
<1>4. ASSUME NEW id \in ids
      PROVE  /\ id \in 1 .. placed /\ DroppedStatus(id) \in {"partial", "cancelled"}
             /\ DroppedStatus(id) = "cancelled" <=> filled[id] = 0
             /\ filled[id] \in Nat /\ filled[id] < order[id].qty
             /\ status[id] \in {"resting", "partial"}
  <2>1. /\ id \in 1 .. placed /\ id \in resting /\ filled[id] \in Nat /\ order[id].qty \in Int
        /\ queue[id].left \in Nat
    BY <1>1, <1>4 DEF AnOrder, Queue
  <2>2. queue[id].left > 0 /\ queue[id].left + filled[id] = order[id].qty
    BY <2>1 DEF OrdersInv, RecordsSound, ReservedIsExact
  <2>3. status[id] \in {"resting", "partial"}
    BY <2>1 DEF OrdersInv, RecordsSound, RestingSound
  <2>4. QED
    BY <2>1, <2>2, <2>3 DEF DroppedStatus
<1>5. NoQueue \in Queue /\ {"partial", "cancelled"} \subseteq Status
  BY DEF NoQueue, Queue, Status
<1>6. status' \in [1 .. placed -> Status]
  BY <1>1, <1>2, <1>4, <1>5
<1>7. queue' \in [1 .. placed -> Queue] /\ reserved' \in [1 .. placed -> Nat]
  BY <1>1, <1>2, <1>5
<1>8. Submitted' = Submitted
  <2>1. ASSUME NEW id \in 1 .. placed PROVE status'[id] = "submitted" <=> status[id] = "submitted"
    BY <1>2, <1>4
  <2>2. QED
    BY <2>1 DEF Submitted
<1>9. ReservedIsExact'
  BY <1>1, <1>2 DEF OrdersInv, RecordsSound, ReservedIsExact
<1>10. ASSUME NEW id \in 1 .. placed PROVE StatusSound(id)'
  <2>1. CASE id \in ids
    <3>1. status'[id] = DroppedStatus(id) /\ filled'[id] = filled[id] /\ order'[id] = order[id]
      BY <1>2, <2>1
    <3>2. QED
      BY <1>4, <2>1, <3>1 DEF StatusSound
  <2>2. CASE id \notin ids
    <3>1. StatusSound(id) /\ status'[id] = status[id] /\ filled'[id] = filled[id] /\ order'[id] = order[id]
      BY <1>2, <1>3, <2>2 DEF OrdersInv, RecordsSound
    <3>2. QED
      BY <1>2, <2>2, <3>1 DEF StatusSound
  <2>3. QED
    BY <2>1, <2>2
<1>11. ASSUME NEW id \in resting' PROVE RestingSound(id)'
  <2>1. id \in resting /\ id \notin ids /\ id \in 1 .. placed
    BY <1>1, <1>2, <1>11
  <2>2. RestingSound(id) /\ status'[id] = status[id] /\ order'[id] = order[id] /\ ~closed'[order[id].market]
    BY <1>2, <2>1 DEF OrdersInv, RecordsSound
  <2>3. QED
    BY <2>2 DEF RestingSound
<1>12. RecordsSound'
  BY <1>3, <1>9, <1>10, <1>11 DEF RecordsSound
<1>13. QED
  BY <1>2, <1>6, <1>7, <1>8, <1>12

\* What a market that closes drops, and what that leaves.
LEMMA CloseSound ==
    ASSUME OrdersInv, NEW m \in Market, FeedEvent, stage' = stage, Drop(RestingIn(m)),
           closed' = [closed EXCEPT ![m] = TRUE],
           UNCHANGED <<book, bookTs, orders, work, depth, revoked>>,
           LedgerInv', payouts' \in [Market -> Int],
           \A k \in Market : k # m => settled'[k] = settled[k]
    PROVE  OrdersInv'
<1>1. /\ stage = "batch" /\ stage' = "batch" /\ todo = {} /\ now' = now /\ now \in Nat /\ fed' \in 0 .. MaxFeed
      /\ placed' = placed /\ order' = order /\ due' = due /\ cancels' = cancels
      /\ todo' = todo /\ tick' = tick /\ budget' = budget /\ taking' = taking
      /\ shown' = shown /\ used' = used /\ mids' = mids
  BY FeedEventFacts DEF orders, work, depth
<1>2. /\ closed \in [Market -> BOOLEAN] /\ closed' \in [Market -> BOOLEAN] /\ closed'[m]
      /\ \A k \in Market : k # m => closed'[k] = closed[k]
      /\ order \in [1 .. placed -> AnOrder] /\ resting \subseteq 1 .. placed
  BY DEF OrdersInv, EngineTypeOK
<1>3. \A id \in resting \ RestingIn(m) : ~closed'[order[id].market]
  BY <1>2 DEF OrdersInv, RecordsSound, RestingSound, RestingIn, AnOrder
<1>4. /\ RecordsSound'
      /\ status' \in [1 .. placed -> Status] /\ filled' = filled /\ log' = log
      /\ queue' \in [1 .. placed -> Queue] /\ reserved' \in [1 .. placed -> Nat]
      /\ resting' = resting \ RestingIn(m) /\ Submitted' = Submitted
  <2>1. RestingIn(m) \subseteq resting
    BY DEF RestingIn
  <2>2. QED
    BY <1>1, <1>3, <2>1, DropSound
<1>5. EngineTypeOK'
  <2>1. LedgerTypeOK'
    BY DEF LedgerInv, PositionInv
  <2>2. QED
    BY <1>1, <1>2, <1>4, <2>1 DEF OrdersInv, EngineTypeOK
<1>6. WorkSound' /\ TakingSound'
  BY <1>1 DEF WorkSound, TakingSound
<1>7. MarketsSound'
  BY <1>2 DEF OrdersInv, MarketsSound
<1>8. TimeSound'
  BY <1>1, <1>4 DEF OrdersInv, TimeSound
<1>9. QED
  BY <1>4, <1>5, <1>6, <1>7, <1>8 DEF OrdersInv

LEMMA CloseMarketStep ==
    ASSUME OrdersInv, NEW m \in Market, CloseMarket(m) PROVE OrdersInv'
<1>1. LedgerInv' /\ settled' = settled
  BY LedgerKept DEF CloseMarket, OrdersInv, ledger
<1>2. payouts' \in [Market -> Int]
  BY DEF CloseMarket, history, OrdersInv, EngineTypeOK
<1>3. QED
  BY <1>1, <1>2, CloseSound DEF CloseMarket, history

LEMMA SettleMarketStep ==
    ASSUME OrdersInv, NEW m \in Market, NEW value \in Value, SettleMarket(m, value) PROVE OrdersInv'
<1>1. LedgerInv'
  <2>1. LedgerNext
    BY DEF SettleMarket, LedgerNext
  <2>2. QED
    BY <2>1, LedgerSteps DEF OrdersInv
<1>2. payouts' \in [Market -> Int]
  <2>1. /\ held[m].qty["YES"] \in Nat /\ held[m].qty["NO"] \in Nat
        /\ held[m].cost["YES"] \in Nat /\ held[m].cost["NO"] \in Nat
    BY DEF OrdersInv, EngineTypeOK, LedgerTypeOK, Holding, Side
  <2>2. value \in Int /\ PriceScale - value \in Int
    BY OrderBookAssumption DEF Value
  <2>3. Payoff(held[m], value) \in Int /\ CostOf(held[m]) \in Int
    BY <2>1, <2>2 DEF Payoff, CostOf
  <2>4. payouts \in [Market -> Int]
    BY DEF OrdersInv, EngineTypeOK
  <2>5. QED
    BY <2>3, <2>4 DEF SettleMarket
<1>3. \A k \in Market : k # m => settled'[k] = settled[k]
  BY DEF SettleMarket, Settle, Announce, OrdersInv, EngineTypeOK, LedgerTypeOK
<1>4. stage' = stage /\ UNCHANGED <<book, bookTs, orders, work, depth, revoked>>
  BY DEF SettleMarket
<1>5. QED
  BY <1>1, <1>2, <1>3, <1>4, CloseSound DEF SettleMarket

LEMMA CancelArrivesStep ==
    ASSUME OrdersInv, NEW c \in cancels, CancelArrives(c) PROVE OrdersInv'
<1> DEFINE ids == {c[2]} \cap resting
<1>1. /\ stage \in {"strategy", "between"} /\ stage' = "between" /\ todo = {}
      /\ now' = c[1] /\ cancels' = cancels \ {c} /\ revoked' = revoked \cup {c[2]}
      /\ NoArrivalUntil(c[1]) /\ NoCancelBefore(c[1]) /\ Drop(ids)
      /\ UNCHANGED <<ledger, fed, markets, placed, order, due, work, depth, payouts>>
  BY DEF CancelArrives, LoopGoesOn, OrdersInv, WorkSound
<1>2. /\ c[1] \in Nat /\ c[2] \in 1 .. placed /\ now \in Nat /\ now <= c[1]
      /\ cancels \subseteq Nat \X (1 .. placed) /\ due \in [1 .. placed -> Nat]
      /\ SubmitLatency \in Nat /\ resting \subseteq 1 .. placed
  BY EngineAssumption DEF OrdersInv, EngineTypeOK, TimeSound
<1>3. /\ RecordsSound'
      /\ status' \in [1 .. placed -> Status] /\ filled' = filled /\ log' = log
      /\ queue' \in [1 .. placed -> Queue] /\ reserved' \in [1 .. placed -> Nat]
      /\ resting' = resting \ ids /\ Submitted' = Submitted
  <2>1. \A id \in resting \ ids : ~closed'[order[id].market]
    BY <1>1 DEF markets, OrdersInv, RecordsSound, RestingSound
  <2>2. ids \subseteq resting
    OBVIOUS
  <2> HIDE DEF ids
  <2>3. QED
    BY <1>1, <2>1, <2>2, DropSound
<1>4. EngineTypeOK'
  <2>1. LedgerTypeOK'
    BY <1>1, LedgerTypeKept DEF OrdersInv, EngineTypeOK
  <2>2. cancels' \subseteq Nat \X (1 .. placed') /\ revoked' \subseteq 1 .. placed' /\ resting' \subseteq 1 .. placed'
    BY <1>1, <1>2, <1>3 DEF OrdersInv, EngineTypeOK
  <2>3. todo' \subseteq resting' /\ todo' = todo /\ tick' = tick /\ budget' = budget /\ taking' = taking
    BY <1>1 DEF work
  <2>4. QED
    BY <1>1, <1>2, <1>3, <2>1, <2>2, <2>3 DEF OrdersInv, EngineTypeOK, markets, depth
<1>5. LedgerInv'
  BY <1>1, LedgerKept DEF OrdersInv
<1>6. WorkSound' /\ TakingSound' /\ MarketsSound'
  BY <1>1 DEF OrdersInv, WorkSound, TakingSound, MarketsSound, ledger, markets, work
<1>7. TimeSound'
  <2>1. \A id \in 1 .. placed : due'[id] <= now' + SubmitLatency
    <3>1. TAKE id \in 1 .. placed
    <3>2. due[id] \in Nat /\ due[id] <= now + SubmitLatency
      BY <1>2 DEF OrdersInv, TimeSound
    <3>3. QED
      BY <1>1, <1>2, <3>2
  <2>2. \A id \in Submitted : due[id] \in Nat /\ c[1] < due[id]
    BY <1>1, <1>2 DEF NoArrivalUntil, Submitted
  <2>3. \A id \in Submitted' : now' <= due'[id]
    BY <1>1, <1>2, <1>3, <2>2
  <2>4. \A x \in cancels' : now' <= x[1]
    BY <1>1, <1>2 DEF NoCancelBefore
  <2>5. ASSUME CancelLatency >= SubmitLatency
        PROVE  /\ \A x \in cancels' : due'[x[2]] <= x[1]
               /\ \A id \in revoked' : id \notin Submitted' /\ id \notin resting'
    <3>1. \A x \in cancels : due[x[2]] <= x[1]
      BY <2>5 DEF OrdersInv, TimeSound
    <3>2. \A id \in revoked : id \notin Submitted /\ id \notin resting
      BY <2>5 DEF OrdersInv, TimeSound
    <3>3. c[2] \notin Submitted
      <4>1. due[c[2]] <= c[1] /\ due[c[2]] \in Nat
        BY <1>2, <3>1
      <4>2. QED
        BY <1>2, <2>2, <4>1
    <3>4. QED
      BY <1>1, <1>3, <3>1, <3>2, <3>3
  <2>6. QED
    BY <1>1, <2>1, <2>3, <2>4, <2>5 DEF TimeSound
<1>8. QED
  BY <1>3, <1>4, <1>5, <1>6, <1>7 DEF OrdersInv

----------------------------------------------------------------------------
(* Maker fills. *)

\* What a purchase does to the account, and that it is one of a ledger.
LEMMA Purchase ==
    ASSUME LedgerInv, NEW m \in Market, NEW side \in Side, NEW price \in Price,
           NEW qty \in Nat \ {0}, NEW fee \in Nat, Buy(m, side, price, qty, fee)
    PROVE  /\ LedgerInv' /\ LedgerNext /\ settled' = settled
           /\ cash' + fees' >= cash + fees - price * qty
           /\ cash' \in Int /\ fees' \in Int /\ cash \in Int /\ fees \in Int /\ price * qty \in Nat
           /\ bought' = [bought EXCEPT ![m][side] = @ + qty]
<1>1. LedgerNext
  BY DEF LedgerNext
<1>2. LedgerInv'
  BY <1>1, LedgerSteps
<1>3. cash' \in Int /\ fees' \in Int /\ cash \in Int /\ fees \in Int
  BY <1>2 DEF LedgerInv, PositionInv, LedgerTypeOK
<1>4. price * qty \in Nat
  BY OrderBookAssumption DEF Price, CheckPrice
<1>5. PriceScale * Pairs(Added(held[m], side, price, qty)) \in Nat
  <2>1. held[m] \in Holding /\ Sound(held[m])
    BY DEF LedgerInv, PositionInv, LedgerTypeOK, MarketSound
  <2>2. Added(held[m], side, price, qty) \in Holding /\ Sound(Added(held[m], side, price, qty))
    BY <2>1, AddingIsSound
  <2>3. Pairs(Added(held[m], side, price, qty)) \in Nat
    BY <2>2, NettingIsSound
  <2>4. QED
    BY <2>3, OrderBookAssumption
<1>6. /\ cash' = cash - (price * qty + fee) + PriceScale * Pairs(Added(held[m], side, price, qty))
      /\ fees' = fees + fee
      /\ bought' = [bought EXCEPT ![m][side] = @ + qty] /\ settled' = settled
  BY DEF Buy
<1>7. cash' + fees' >= cash + fees - price * qty
  BY <1>3, <1>4, <1>5, <1>6
<1>8. QED
  BY <1>1, <1>2, <1>3, <1>4, <1>6, <1>7

\* A fill that is recorded is a row of the log.
LEMMA FillType ==
    ASSUME OrdersInv, NEW id \in 1 .. placed, NEW price \in Nat, NEW qty \in Nat, NEW fee \in Nat,
           NEW liquidity \in {"taker", "maker"}
    PROVE  Append(log, Fill(id, price, qty, fee, liquidity)) \in Seq(FillRecord)
<1>1. /\ now \in Nat /\ id \in 1 .. MaxOrders /\ order[id].market \in Market /\ order[id].side \in Side
      /\ log \in Seq(FillRecord)
  BY EngineAssumption DEF OrdersInv, EngineTypeOK, AnOrder
<1>2. Fill(id, price, qty, fee, liquidity) \in FillRecord
  BY <1>1 DEF Fill, FillRecord
<1>3. QED
  BY <1>1, <1>2

\* What rests can be bought.
LEMMA RestingFacts ==
    ASSUME OrdersInv, NEW id \in resting
    PROVE  /\ id \in 1 .. placed /\ queue[id] \in Queue /\ filled[id] \in Nat /\ order[id] \in AnOrder
           /\ order[id].price \in Price /\ order[id].price \in Nat /\ order[id].price <= PriceScale
           /\ order[id].market \in Market /\ order[id].side \in Side /\ order[id].qty \in Int
           /\ queue[id].left \in Nat /\ queue[id].left > 0
           /\ queue[id].left + filled[id] = order[id].qty
           /\ reserved[id] = order[id].price * queue[id].left
           /\ ~closed[order[id].market] /\ status[id] \in {"resting", "partial"}
           /\ settled[order[id].market] = None
<1>1. /\ id \in 1 .. placed /\ queue[id] \in Queue /\ filled[id] \in Nat /\ order[id] \in AnOrder
  BY DEF OrdersInv, EngineTypeOK
<1>2. /\ order[id].market \in Market /\ order[id].side \in Side /\ order[id].qty \in Int
      /\ order[id].price \in Quote /\ queue[id].left \in Nat
  BY <1>1 DEF AnOrder, Queue
<1>3. RestingSound(id) /\ ReservedIsExact
  BY DEF OrdersInv, RecordsSound
<1>4. order[id].price \in Price /\ order[id].price \in Nat /\ order[id].price <= PriceScale
  <2>1. order[id].price \in Int /\ PriceScale \in Int /\ CheckPrice(order[id].price)
    BY <1>2, <1>3, OrderBookAssumption DEF RestingSound
  <2>2. QED
    BY <1>2, <2>1 DEF Price, CheckPrice
<1>5. QED
  BY <1>1, <1>2, <1>3, <1>4 DEF RestingSound, ReservedIsExact, OrdersInv, MarketsSound

LEMMA MakerFillSound ==
    ASSUME OrdersInv, NEW id \in resting, NEW q \in Queue, q.left <= queue[id].left,
           MakerFill(id, q), stage # "filling", stage' # "filling",
           UNCHANGED <<placed, order, due, closed>>
    PROVE  /\ RecordsSound' /\ LedgerInv' /\ [LedgerNext]_ledger /\ settled' = settled
           /\ status' \in [1 .. placed -> Status] /\ filled' \in [1 .. placed -> Nat]
           /\ queue' \in [1 .. placed -> Queue] /\ reserved' \in [1 .. placed -> Nat]
           /\ log' \in Seq(FillRecord)
           /\ resting \ {id} \subseteq resting' /\ resting' \subseteq resting
           /\ Submitted' = Submitted
<1> DEFINE o == order[id]
           got == queue[id].left - q.left
<1>1. /\ status \in [1 .. placed -> Status] /\ filled \in [1 .. placed -> Nat]
      /\ queue \in [1 .. placed -> Queue] /\ reserved \in [1 .. placed -> Nat]
      /\ resting \subseteq 1 .. placed /\ order \in [1 .. placed -> AnOrder]
      /\ log \in Seq(FillRecord) /\ LedgerInv
  BY DEF OrdersInv, EngineTypeOK
<1>2. /\ queue' = [queue EXCEPT ![id] = IF q.left = 0 THEN NoQueue ELSE q]
      /\ resting' = IF q.left = 0 THEN resting \ {id} ELSE resting
      /\ reserved' = [reserved EXCEPT ![id] = o.price * q.left]
      /\ filled' = [filled EXCEPT ![id] = @ + got]
      /\ \/ got = 0 /\ UNCHANGED <<ledger, status, log>>
         \/ /\ got > 0
            /\ Buy(o.market, o.side, o.price, got, MakerFee(o.price, got))
            /\ log' = Append(log, Fill(id, o.price, got, MakerFee(o.price, got), "maker"))
            /\ status' = [status EXCEPT ![id] = IF q.left = 0 THEN "filled" ELSE "partial"]
  BY DEF MakerFill
<1>3. /\ id \in 1 .. placed /\ filled[id] \in Nat
      /\ o.price \in Price /\ o.price \in Nat /\ o.price <= PriceScale
      /\ o.market \in Market /\ o.side \in Side /\ o.qty \in Int
      /\ queue[id].left \in Nat /\ queue[id].left > 0
      /\ queue[id].left + filled[id] = o.qty /\ ~closed[o.market]
      /\ status[id] \in {"resting", "partial"}
  BY RestingFacts
<1>4. q.left \in Nat /\ got \in Nat /\ o.price * q.left \in Nat /\ NoQueue \in Queue
      /\ NoQueue.left = 0
  BY <1>3 DEF Queue, NoQueue
<1>5. /\ queue' \in [1 .. placed -> Queue] /\ reserved' \in [1 .. placed -> Nat]
      /\ filled' \in [1 .. placed -> Nat]
      /\ filled'[id] = filled[id] + got /\ queue'[id].left = q.left /\ reserved'[id] = o.price * q.left
      /\ \A k \in 1 .. placed : k # id =>
             queue'[k] = queue[k] /\ reserved'[k] = reserved[k] /\ filled'[k] = filled[k]
  <2> HIDE DEF o, got
  <2>1. filled[id] + got \in Nat
    BY <1>3, <1>4
  <2>2. QED
    BY <1>1, <1>2, <1>3, <1>4, <2>1
<1>6. /\ LedgerInv' /\ [LedgerNext]_ledger /\ settled' = settled /\ log' \in Seq(FillRecord)
      /\ status' \in [1 .. placed -> Status]
      /\ \A k \in 1 .. placed : k # id => status'[k] = status[k]
      /\ status'[id] = IF got = 0 THEN status[id] ELSE IF q.left = 0 THEN "filled" ELSE "partial"
  <2>1. CASE got = 0
    <3>1. UNCHANGED <<ledger, status, log>>
      BY <1>2, <2>1
    <3>2. LedgerInv' /\ settled' = settled
      BY <1>1, <3>1, LedgerKept DEF ledger
    <3>3. QED
      BY <1>1, <2>1, <3>1, <3>2
  <2>2. CASE got > 0
    <3>1. /\ Buy(o.market, o.side, o.price, got, MakerFee(o.price, got))
          /\ log' = Append(log, Fill(id, o.price, got, MakerFee(o.price, got), "maker"))
          /\ status' = [status EXCEPT ![id] = IF q.left = 0 THEN "filled" ELSE "partial"]
      BY <1>2, <2>2
    <3>2. MakerFee(o.price, got) \in Nat /\ got \in Nat \ {0}
      BY <1>3, <1>4, <2>2, MakerFeeType
    <3> HIDE DEF o, got
    <3>3. LedgerInv' /\ LedgerNext /\ settled' = settled
      BY <1>1, <1>3, <3>1, <3>2, Purchase
    <3>4. log' \in Seq(FillRecord)
      BY <1>3, <1>4, <3>1, <3>2, FillType
    <3>5. {"filled", "partial"} \subseteq Status
      BY DEF Status
    <3>6. QED
      BY <1>1, <1>3, <2>2, <3>1, <3>3, <3>4, <3>5
  <2>3. QED
    BY <1>4, <2>1, <2>2
<1>7. Submitted' = Submitted
  <2>1. ASSUME NEW k \in 1 .. placed PROVE status'[k] = "submitted" <=> status[k] = "submitted"
    BY <1>3, <1>6
  <2>2. QED
    BY <2>1 DEF Submitted
<1>8. Busy = {} /\ Busy' = {}
  BY DEF Busy
<1>9. ReservedIsExact'
  <2>1. ASSUME NEW k \in 1 .. placed
        PROVE  /\ reserved'[k] = (IF k \in resting' THEN order[k].price * queue'[k].left ELSE 0)
               /\ k \in resting' => queue'[k].left > 0 /\ queue'[k].left + filled'[k] = order[k].qty
    <3>1. CASE k = id
      <4>1. o.price * 0 = 0 /\ q.left + (filled[id] + got) = o.qty
        BY <1>3, <1>4
      <4>2. id \in resting' <=> q.left > 0
        BY <1>2, <1>4
      <4>3. QED
        BY <1>4, <1>5, <3>1, <4>1, <4>2
    <3>2. CASE k # id
      <4>1. k \in resting' <=> k \in resting
        BY <1>2, <3>2
      <4>2. /\ reserved[k] = (IF k \in resting THEN order[k].price * queue[k].left ELSE 0)
            /\ k \in resting => queue[k].left > 0 /\ queue[k].left + filled[k] = order[k].qty
        BY DEF OrdersInv, RecordsSound, ReservedIsExact
      <4>3. QED
        BY <1>5, <3>2, <4>1, <4>2
    <3>3. QED
      BY <3>1, <3>2
  <2>2. QED
    BY <2>1 DEF ReservedIsExact
<1>10. ASSUME NEW k \in 1 .. placed PROVE StatusSound(k)'
  <2>1. StatusSound(k)
    BY <1>8 DEF OrdersInv, RecordsSound
  <2>2. CASE k # id
    <3>1. /\ status'[k] = status[k] /\ filled'[k] = filled[k] /\ order'[k] = order[k]
          /\ k \in resting => k \in resting'
      BY <1>2, <1>5, <1>6, <2>2
    <3>2. QED
      BY <2>1, <3>1 DEF StatusSound
  <2>3. CASE k = id /\ got = 0
    <3>1. /\ status'[k] = status[k] /\ filled'[k] = filled[k] /\ order'[k] = order[k] /\ k \in resting'
      BY <1>2, <1>3, <1>4, <1>5, <1>6, <2>3
    <3>2. QED
      BY <2>1, <3>1 DEF StatusSound
  <2>4. CASE k = id /\ got # 0
    <3>1. /\ filled'[k] = filled[k] + got /\ order'[k] = o /\ filled[k] + got + q.left = o.qty
          /\ filled[k] + got > 0
          /\ status'[k] = IF q.left = 0 THEN "filled" ELSE "partial"
      BY <1>3, <1>4, <1>5, <1>6, <2>4
    <3> HIDE DEF o, got
    <3>2. CASE q.left = 0
      BY <1>3, <1>4, <2>4, <3>1, <3>2 DEF StatusSound
    <3>3. CASE q.left # 0
      BY <1>3, <1>4, <2>4, <3>1, <3>3 DEF StatusSound
    <3>4. QED
      BY <3>2, <3>3
  <2>5. QED
    BY <2>2, <2>3, <2>4
<1>11. ASSUME NEW k \in resting' PROVE RestingSound(k)'
  <2>1. k \in resting /\ k \in 1 .. placed /\ RestingSound(k)
    BY <1>1, <1>2, <1>11 DEF OrdersInv, RecordsSound
  <2>2. status'[k] \in {"resting", "partial"}
    <3>1. CASE k # id
      BY <1>6, <2>1, <3>1 DEF RestingSound
    <3>2. CASE k = id
      BY <1>2, <1>3, <1>6, <1>11, <3>2
    <3>3. QED
      BY <3>1, <3>2
  <2>3. QED
    BY <2>1, <2>2 DEF RestingSound
<1>12. RecordsSound'
  BY <1>8, <1>9, <1>10, <1>11 DEF RecordsSound
<1>13. resting \ {id} \subseteq resting' /\ resting' \subseteq resting
  BY <1>2
<1>14. QED
  BY <1>5, <1>6, <1>7, <1>12, <1>13

\* What a snapshot makes of the queue of a resting order.
LEMMA SnapshotQueue ==
    ASSUME OrdersInv, NEW id \in todo, MatchBook(id)
    PROVE  /\ id \in resting /\ MakerFill(id, QueueAfterSnapshot(id))
           /\ QueueAfterSnapshot(id) \in Queue /\ QueueAfterSnapshot(id).left <= queue[id].left
<1> DEFINE q == QueueAfterSnapshot(id)
<1>1. stage = "book" /\ MakerFill(id, q) /\ id \in resting
  BY DEF MatchBook, OrdersInv, EngineTypeOK
<1>2. q \in Queue /\ q.left <= queue[id].left
  <2> DEFINE o == order[id]
  <2>1. /\ book[o.market] \in Book /\ queue[id] \in Queue /\ queue[id].left \in Nat
        /\ <<o.side, o.price>> \in Cell
    <3>1. book[o.market] # None
      BY <1>1 DEF OrdersInv, WorkSound
    <3>2. QED
      BY <1>1, <3>1, RestingFacts DEF OrdersInv, EngineTypeOK, Cell
  <2>2. book[o.market][<<o.side, o.price>>] \in Nat
    BY <2>1 DEF Book
  <2>3. [queue[id] EXCEPT !.left = 0] \in Queue /\ [queue[id] EXCEPT !.left = 0].left = 0
    BY <2>1 DEF Queue
  <2>4. LET r == QueueAfterBook(MakerModel, queue[id], book[o.market][<<o.side, o.price>>])
        IN  r \in Queue /\ r.left = queue[id].left
    BY <2>1, <2>2, BookMovesQueue, EngineAssumption
  <2>5. QED
    BY <2>1, <2>3, <2>4 DEF QueueAfterSnapshot
<1>3. QED
  BY <1>1, <1>2

LEMMA MatchBookStep == ASSUME OrdersInv, NEW id \in todo, MatchBook(id) PROVE OrdersInv'
<1> DEFINE q == QueueAfterSnapshot(id)
<1>1. /\ stage = "book" /\ MakerFill(id, q) /\ todo' = todo \ {id} /\ id \in resting
      /\ UNCHANGED <<loop, markets, orders, tick, budget, taking, depth, history>>
  BY DEF MatchBook, OrdersInv, EngineTypeOK
<1>2. q \in Queue /\ q.left <= queue[id].left
  BY SnapshotQueue
<1> HIDE DEF q
<1>3. /\ RecordsSound' /\ LedgerInv' /\ settled' = settled
      /\ status' \in [1 .. placed -> Status] /\ filled' \in [1 .. placed -> Nat]
      /\ queue' \in [1 .. placed -> Queue] /\ reserved' \in [1 .. placed -> Nat]
      /\ log' \in Seq(FillRecord)
      /\ resting \ {id} \subseteq resting' /\ resting' \subseteq resting
      /\ Submitted' = Submitted
  BY <1>1, <1>2, MakerFillSound DEF loop, orders, markets
<1>4. EngineTypeOK'
  <2>1. LedgerTypeOK'
    BY <1>3 DEF LedgerInv, PositionInv
  <2>2. todo' \subseteq resting' /\ resting' \subseteq 1 .. placed
    BY <1>1, <1>3 DEF OrdersInv, EngineTypeOK
  <2>3. QED
    BY <1>1, <1>3, <2>1, <2>2 DEF OrdersInv, EngineTypeOK, loop, markets, orders, depth, history
<1>5. WorkSound' /\ TakingSound' /\ MarketsSound'
  BY <1>1, <1>3 DEF OrdersInv, WorkSound, TakingSound, MarketsSound, loop, markets, orders
<1>6. TimeSound'
  BY <1>1, <1>3, TimeStands DEF loop, orders, history
<1>7. QED
  BY <1>3, <1>4, <1>5, <1>6 DEF OrdersInv

\* What a print makes of it.
LEMMA PrintQueue ==
    ASSUME OrdersInv, NEW id \in todo, MatchPrint(id)
    PROVE  LET o == order[id]
               q == QueueAfterPrint(MakerModel, queue[id], o.side, o.price, tick, CountFor(id))
           IN  /\ id \in resting /\ MakerFill(id, q)
               /\ queue[id].left \in Nat /\ queue[id].ahead \in Nat /\ budget \in Nat
               /\ q \in Queue /\ q.left <= queue[id].left /\ q.left \in Nat /\ q.ahead \in Nat
<1> DEFINE o == order[id]
           q == QueueAfterPrint(MakerModel, queue[id], o.side, o.price, tick, CountFor(id))
<1>1. stage = "print" /\ MakerFill(id, q) /\ id \in resting
  BY DEF MatchPrint, OrdersInv, EngineTypeOK
<1>2. /\ queue[id] \in Queue /\ queue[id].left \in Nat /\ queue[id].ahead \in Nat
      /\ tick \in TradePrint /\ budget \in Nat /\ CountFor(id) \in Nat
      /\ o.side \in Side /\ o.price \in Price
  <2>1. tick \in TradePrint /\ budget \in Nat
    BY <1>1 DEF OrdersInv, EngineTypeOK, WorkSound
  <2>2. CountFor(id) \in Nat
    BY <2>1 DEF CountFor, TradePrint
  <2>3. QED
    BY <1>1, <2>1, <2>2, RestingFacts DEF Queue
<1>3. q \in Queue /\ q.left <= queue[id].left /\ q.left \in Nat /\ q.ahead \in Nat
  <2>1. LET f == FilledByPrint(MakerModel, queue[id], o.side, o.price, tick, CountFor(id))
        IN  q \in Queue /\ f \in Nat /\ q.left = queue[id].left - f
    BY <1>2, PrintMovesQueue, EngineAssumption
  <2> HIDE DEF q, o
  <2>2. q.left \in Nat /\ q.ahead \in Nat
    BY <2>1 DEF Queue
  <2>3. QED
    BY <1>2, <2>1, <2>2
<1>4. QED
  BY <1>1, <1>2, <1>3

LEMMA MatchPrintStep == ASSUME OrdersInv, NEW id \in todo, MatchPrint(id) PROVE OrdersInv'
<1> DEFINE o == order[id]
           q == QueueAfterPrint(MakerModel, queue[id], o.side, o.price, tick, CountFor(id))
<1>1. /\ stage = "print" /\ MakerFill(id, q) /\ todo' = todo \ {id} /\ id \in resting
      /\ budget' = IF AtLevel(o.side, o.price, tick)
                   THEN MaxOf(0, budget - (queue[id].left - q.left) - (queue[id].ahead - q.ahead))
                   ELSE budget
      /\ UNCHANGED <<loop, markets, orders, tick, taking, depth, history>>
  BY DEF MatchPrint, OrdersInv, EngineTypeOK
<1>3. /\ queue[id].left \in Nat /\ queue[id].ahead \in Nat /\ budget \in Nat
      /\ q \in Queue /\ q.left <= queue[id].left /\ q.left \in Nat /\ q.ahead \in Nat
  BY PrintQueue
<1> HIDE DEF q
<1>4. budget' \in Nat
  BY <1>1, <1>3 DEF MaxOf
<1>5. /\ RecordsSound' /\ LedgerInv' /\ settled' = settled
      /\ status' \in [1 .. placed -> Status] /\ filled' \in [1 .. placed -> Nat]
      /\ queue' \in [1 .. placed -> Queue] /\ reserved' \in [1 .. placed -> Nat]
      /\ log' \in Seq(FillRecord)
      /\ resting \ {id} \subseteq resting' /\ resting' \subseteq resting
      /\ Submitted' = Submitted
  BY <1>1, <1>3, MakerFillSound DEF loop, orders, markets
<1>6. EngineTypeOK'
  <2>1. LedgerTypeOK'
    BY <1>5 DEF LedgerInv, PositionInv
  <2>2. todo' \subseteq resting' /\ resting' \subseteq 1 .. placed
    BY <1>1, <1>5 DEF OrdersInv, EngineTypeOK
  <2>3. QED
    BY <1>1, <1>4, <1>5, <2>1, <2>2 DEF OrdersInv, EngineTypeOK, loop, markets, orders, depth, history
<1>7. WorkSound' /\ TakingSound' /\ MarketsSound'
  BY <1>1, <1>5 DEF OrdersInv, WorkSound, TakingSound, MarketsSound, loop, markets, orders
<1>8. TimeSound'
  BY <1>1, <1>5, TimeStands DEF loop, orders, history
<1>9. QED
  BY <1>5, <1>6, <1>7, <1>8 DEF OrdersInv

----------------------------------------------------------------------------
(* An order arrives. *)

\* What is known of an order when its turn comes.
LEMMA ArrivingFacts ==
    ASSUME OrdersInv, NEW id \in 1 .. placed, Arriving(id)
    PROVE  /\ stage \in {"strategy", "between"} /\ todo = {} /\ Busy = {}
           /\ id \in Submitted /\ id \notin resting /\ filled[id] = 0 /\ reserved[id] = 0
           /\ order[id] \in AnOrder /\ order[id].market \in Market /\ order[id].side \in Side
           /\ order[id].price \in Quote /\ order[id].qty \in Int
           /\ now' = due[id] /\ now' \in Nat /\ now <= now'
           /\ NoArrivalBefore(now') /\ NoCancelBefore(now')
<1>1. /\ stage \in {"strategy", "between"} /\ id \in Submitted /\ now' = due[id]
      /\ NoArrivalBefore(due[id]) /\ NoCancelBefore(due[id]) /\ status[id] = "submitted"
  BY DEF Arriving, LoopGoesOn, Submitted
<1>2. todo = {} /\ Busy = {} /\ now' \in Nat /\ now <= now'
  BY <1>1 DEF OrdersInv, EngineTypeOK, WorkSound, TimeSound, Busy
<1>3. id \notin resting
  BY <1>1 DEF OrdersInv, RecordsSound, RestingSound
<1>4. filled[id] = 0 /\ reserved[id] = 0
  BY <1>1, <1>2, <1>3 DEF OrdersInv, RecordsSound, StatusSound, ReservedIsExact
<1>5. /\ order[id] \in AnOrder /\ order[id].market \in Market /\ order[id].side \in Side
      /\ order[id].price \in Quote /\ order[id].qty \in Int
  BY DEF OrdersInv, EngineTypeOK, AnOrder
<1>6. QED
  BY <1>1, <1>2, <1>3, <1>4, <1>5 DEF NoArrivalBefore, NoCancelBefore

LEMMA RejectStep == ASSUME OrdersInv, NEW id \in 1 .. placed, Reject(id) PROVE OrdersInv'
<1>1. /\ Arriving(id) /\ stage' = "between" /\ status' = [status EXCEPT ![id] = "rejected"]
      /\ UNCHANGED <<ledger, fed, markets, orders, filled, log, resting, queue, reserved,
                     work, depth, history>>
  BY DEF Reject
<1>2. /\ todo = {} /\ Busy = {} /\ id \notin resting /\ filled[id] = 0
      /\ now' \in Nat /\ now <= now' /\ NoArrivalBefore(now') /\ NoCancelBefore(now')
  BY <1>1, ArrivingFacts
<1>3. /\ status' \in [1 .. placed -> Status] /\ status'[id] = "rejected"
      /\ \A k \in 1 .. placed : k # id => status'[k] = status[k]
  BY <1>1 DEF OrdersInv, EngineTypeOK, Status
<1>4. EngineTypeOK'
  <2>1. LedgerTypeOK'
    BY <1>1, LedgerTypeKept DEF OrdersInv, EngineTypeOK
  <2>2. QED
    BY <1>1, <1>2, <1>3, <2>1 DEF OrdersInv, EngineTypeOK, markets, orders, work, depth, history
<1>5. LedgerInv'
  BY <1>1, LedgerKept DEF OrdersInv
<1>6. RecordsSound'
  <2>1. Busy' = {}
    BY <1>1 DEF Busy
  <2>2. ReservedIsExact'
    BY <1>1 DEF OrdersInv, RecordsSound, ReservedIsExact, orders
  <2>3. ASSUME NEW k \in 1 .. placed PROVE StatusSound(k)'
    BY <1>1, <1>2, <1>3 DEF OrdersInv, RecordsSound, StatusSound, orders
  <2>4. ASSUME NEW k \in resting PROVE RestingSound(k)'
    BY <1>1, <1>2, <1>3 DEF OrdersInv, EngineTypeOK, RecordsSound, RestingSound, orders, markets
  <2>5. QED
    BY <1>1, <2>1, <2>2, <2>3, <2>4 DEF RecordsSound, orders
<1>7. WorkSound' /\ TakingSound' /\ MarketsSound'
  BY <1>1, <1>2 DEF OrdersInv, WorkSound, TakingSound, MarketsSound, ledger, markets, work
<1>8. TimeSound'
  <2>1. Submitted' \subseteq Submitted
    BY <1>1, <1>3 DEF Submitted, orders
  <2>2. QED
    BY <1>1, <1>2, <2>1, TimeMoves DEF orders, history
<1>9. QED
  BY <1>4, <1>5, <1>6, <1>7, <1>8 DEF OrdersInv

\* What is known of an order that is accepted.
LEMMA AcceptedFacts ==
    ASSUME OrdersInv, NEW id \in 1 .. placed, Arriving(id), Accepted(id)
    PROVE  /\ ~closed[order[id].market] /\ settled[order[id].market] = None
           /\ order[id].qty \in Nat /\ order[id].qty > 0
           /\ CheckPrice(order[id].price) /\ order[id].price \in Price
           /\ order[id].price \in Nat /\ order[id].price <= PriceScale
           /\ cash - AllReserved >= order[id].price * order[id].qty
<1>a. order[id].qty \in Int /\ order[id].price \in Quote /\ order[id].market \in Market
  BY ArrivingFacts
<1>1. order[id].price \in Int /\ PriceScale \in Int
  <2>1. PriceScale \in Int
    BY OrderBookAssumption
  <2>2. order[id].price \in Quote
    BY <1>a
  <2>3. Quote \subseteq Int
    BY OrderBookAssumption
  <2>4. QED
    BY <2>1, <2>2, <2>3
<1>2. /\ ~closed[order[id].market] /\ order[id].qty > 0 /\ CheckPrice(order[id].price)
      /\ cash - AllReserved >= order[id].price * order[id].qty
  BY DEF Accepted, CanPay
<1>3. settled[order[id].market] = None
  BY <1>a, <1>2 DEF OrdersInv, MarketsSound
<1>4. QED
  BY <1>a, <1>1, <1>2, <1>3 DEF Price, CheckPrice

\* What becomes of an order that has taken what it can.
LEMMA RemainderSound ==
    ASSUME OrdersInv, NEW id \in Submitted, NEW b \in Book \cup {None}, Remainder(id, b),
           filled[id] \in Nat, filled[id] <= order[id].qty, order[id].qty > 0,
           CheckPrice(order[id].price), ~closed[order[id].market],
           Busy \subseteq {id}, stage' # "filling", UNCHANGED <<placed, order, closed>>
    PROVE  /\ RecordsSound'
           /\ status' \in [1 .. placed -> Status] /\ filled' = filled /\ log' = log
           /\ queue' \in [1 .. placed -> Queue] /\ reserved' \in [1 .. placed -> Nat]
           /\ resting \subseteq resting' /\ resting' \subseteq resting \cup {id}
           /\ Submitted' \subseteq Submitted /\ id \notin Submitted'
<1> DEFINE o == order[id]
           left == o.qty - filled[id]
           rests == left > 0 /\ o.tif # "ioc"
           entry == OnPlace(MakerModel, left, IF b = None THEN 0 ELSE b[<<o.side, o.price>>])
           verdict == IF left = 0 THEN "filled"
                      ELSE IF filled[id] > 0 THEN "partial"
                      ELSE IF rests THEN "resting" ELSE "expired"
<1>1. /\ status \in [1 .. placed -> Status] /\ filled \in [1 .. placed -> Nat]
      /\ queue \in [1 .. placed -> Queue] /\ reserved \in [1 .. placed -> Nat]
      /\ resting \subseteq 1 .. placed /\ order \in [1 .. placed -> AnOrder]
      /\ id \in 1 .. placed /\ status[id] = "submitted"
  BY DEF OrdersInv, EngineTypeOK, Submitted
<1>2. /\ status' = [status EXCEPT ![id] = verdict]
      /\ resting' = IF rests THEN resting \cup {id} ELSE resting
      /\ reserved' = [reserved EXCEPT ![id] = IF rests THEN o.price * left ELSE 0]
      /\ queue' = [queue EXCEPT ![id] = IF rests THEN entry ELSE NoQueue]
      /\ filled' = filled /\ log' = log
  BY DEF Remainder
<1>3. /\ o.qty \in Int /\ o.price \in Quote /\ o.side \in Side /\ o.market \in Market
      /\ o.price \in Price /\ o.price \in Nat
  <2>1. /\ o.qty \in Int /\ o.price \in Quote /\ o.side \in Side /\ o.market \in Market
    BY <1>1 DEF AnOrder
  <2>2. o.price \in Int /\ PriceScale \in Int
    BY <2>1, OrderBookAssumption
  <2>3. QED
    BY <2>1, <2>2 DEF Price, CheckPrice
<1>4. left \in Nat /\ o.price * left \in Nat /\ id \notin resting
  <2>1. left \in Nat
    BY <1>3
  <2> HIDE DEF left
  <2>2. o.price * left \in Nat
    BY <1>3, <2>1
  <2>3. QED
    BY <1>1, <2>1, <2>2 DEF OrdersInv, RecordsSound, RestingSound
<1>5. entry \in Queue /\ entry.left = left
  <2> DEFINE size == IF b = None THEN 0 ELSE b[<<o.side, o.price>>]
  <2>1. size \in Nat
    <3>1. <<o.side, o.price>> \in Cell
      BY <1>3 DEF Cell
    <3>2. QED
      BY <3>1 DEF Book
  <2>2. MakerModel.alpha \in Nat \X (Nat \ {0})
    BY EngineAssumption DEF QueueModel
  <2> HIDE DEF size, left
  <2>3. Share(MakerModel.alpha, size) \in Nat
    BY <2>1, <2>2, ShareType
  <2>4. entry = [left |-> left, ahead |-> Share(MakerModel.alpha, size), level |-> size, traded |-> 0]
    BY DEF OnPlace, size
  <2>5. QED
    BY <1>4, <2>1, <2>3, <2>4 DEF Queue
<1>6. verdict \in {"filled", "partial", "resting", "expired"}
  OBVIOUS
<1> HIDE DEF entry, verdict
<1>7. /\ status' \in [1 .. placed -> Status] /\ queue' \in [1 .. placed -> Queue]
      /\ reserved' \in [1 .. placed -> Nat]
      /\ status'[id] = verdict /\ queue'[id] = (IF rests THEN entry ELSE NoQueue)
      /\ reserved'[id] = (IF rests THEN o.price * left ELSE 0)
      /\ \A k \in 1 .. placed : k # id =>
             status'[k] = status[k] /\ queue'[k] = queue[k] /\ reserved'[k] = reserved[k]
  <2>1. verdict \in Status /\ NoQueue \in Queue
    BY <1>6 DEF Status, NoQueue, Queue
  <2> HIDE DEF rests, left, o
  <2>2. QED
    BY <1>1, <1>2, <1>4, <1>5, <2>1
<1>8. /\ resting \subseteq resting' /\ resting' \subseteq resting \cup {id}
      /\ id \in resting' <=> rests
  BY <1>2, <1>4
<1>9. Submitted' \subseteq Submitted /\ id \notin Submitted'
  BY <1>1, <1>6, <1>7 DEF Submitted
<1>10. Busy' = {}
  BY DEF Busy
<1>11. ReservedIsExact'
  <2>1. ASSUME NEW k \in 1 .. placed
        PROVE  /\ reserved'[k] = (IF k \in resting' THEN order[k].price * queue'[k].left ELSE 0)
               /\ k \in resting' => queue'[k].left > 0 /\ queue'[k].left + filled'[k] = order[k].qty
    <3>1. CASE k = id
      <4>1. left + filled[id] = o.qty
        BY <1>3
      <4>2. rests => left > 0
        OBVIOUS
      <4>3. rests => queue'[id].left = left
        BY <1>5, <1>7
      <4> HIDE DEF rests, left
      <4>4. QED
        BY <1>2, <1>7, <1>8, <3>1, <4>1, <4>2, <4>3
    <3>2. CASE k # id
      <4>1. k \in resting' <=> k \in resting
        BY <1>8, <3>2
      <4>2. /\ reserved[k] = (IF k \in resting THEN order[k].price * queue[k].left ELSE 0)
            /\ k \in resting => queue[k].left > 0 /\ queue[k].left + filled[k] = order[k].qty
        BY DEF OrdersInv, RecordsSound, ReservedIsExact
      <4>3. QED
        BY <1>2, <1>7, <3>2, <4>1, <4>2
    <3>3. QED
      BY <3>1, <3>2
  <2>2. QED
    BY <2>1 DEF ReservedIsExact
<1>12. ASSUME NEW k \in 1 .. placed PROVE StatusSound(k)'
  <2>1. CASE k # id
    <3>1. StatusSound(k) /\ status'[k] = status[k] /\ k \in resting => k \in resting'
      BY <1>7, <1>8, <2>1 DEF OrdersInv, RecordsSound
    <3>2. StatusSound(k)
      BY <2>1 DEF OrdersInv, RecordsSound
    <3>3. QED
      BY <1>2, <1>7, <1>8, <2>1, <3>2 DEF StatusSound
  <2>2. CASE k = id
    <3>1. status'[k] = verdict /\ filled'[k] = filled[id] /\ order'[k] = o /\ k \in resting' <=> rests
      BY <1>2, <1>7, <1>8, <2>2
    <3>2. QED
      BY <1>2, <1>3, <1>7, <1>8, <2>2 DEF StatusSound, verdict
  <2>3. QED
    BY <2>1, <2>2
<1>13. ASSUME NEW k \in resting' PROVE RestingSound(k)'
  <2>1. CASE k # id
    <3>1. k \in resting /\ k \in 1 .. placed /\ RestingSound(k)
      BY <1>1, <1>8, <1>13, <2>1 DEF OrdersInv, RecordsSound
    <3>2. QED
      BY <1>7, <2>1, <3>1 DEF RestingSound
  <2>2. CASE k = id
    <3>1. rests
      BY <1>8, <1>13, <2>2
    <3>2. verdict \in {"resting", "partial"}
      BY <3>1 DEF verdict
    <3>3. QED
      BY <1>7, <2>2, <3>2 DEF RestingSound
  <2>3. QED
    BY <2>1, <2>2
<1>14. RecordsSound'
  BY <1>10, <1>11, <1>12, <1>13 DEF RecordsSound
<1>15. QED
  BY <1>2, <1>7, <1>8, <1>9, <1>14

LEMMA RestStep == ASSUME OrdersInv, NEW id \in 1 .. placed, Rest(id) PROVE OrdersInv'
<1> DEFINE b == book[order[id].market]
<1>1. /\ Arriving(id) /\ Accepted(id) /\ stage' = "between" /\ Remainder(id, b)
      /\ UNCHANGED <<ledger, fed, markets, orders, work, depth, history>>
  BY DEF Rest
<1>2. /\ todo = {} /\ Busy = {} /\ id \in Submitted /\ filled[id] = 0 /\ order[id].market \in Market
      /\ now' \in Nat /\ now <= now' /\ NoArrivalBefore(now') /\ NoCancelBefore(now')
  BY <1>1, ArrivingFacts
<1>3. order[id].qty \in Nat /\ order[id].qty > 0 /\ CheckPrice(order[id].price) /\ ~closed[order[id].market]
  BY <1>1, AcceptedFacts
<1>4. b \in Book \cup {None}
  BY <1>2 DEF OrdersInv, EngineTypeOK
<1> HIDE DEF b
<1>5. filled[id] \in Nat /\ filled[id] <= order[id].qty /\ Busy \subseteq {id} /\ stage' # "filling"
  BY <1>1, <1>2, <1>3
<1>6. UNCHANGED <<placed, order, closed>>
  BY <1>1 DEF orders, markets
<1>7. /\ RecordsSound'
      /\ status' \in [1 .. placed -> Status] /\ filled' = filled /\ log' = log
      /\ queue' \in [1 .. placed -> Queue] /\ reserved' \in [1 .. placed -> Nat]
      /\ resting \subseteq resting' /\ resting' \subseteq resting \cup {id}
      /\ Submitted' \subseteq Submitted /\ id \notin Submitted'
  BY <1>1, <1>2, <1>3, <1>4, <1>5, <1>6, RemainderSound
<1>8. EngineTypeOK'
  <2>1. LedgerTypeOK'
    BY <1>1, LedgerTypeKept DEF OrdersInv, EngineTypeOK
  <2>2. resting' \subseteq 1 .. placed /\ todo' \subseteq resting'
    BY <1>1, <1>2, <1>7 DEF OrdersInv, EngineTypeOK, work
  <2>3. QED
    BY <1>1, <1>2, <1>7, <2>1, <2>2 DEF OrdersInv, EngineTypeOK, markets, orders, work, depth, history
<1>9. LedgerInv'
  BY <1>1, LedgerKept DEF OrdersInv
<1>10. WorkSound' /\ TakingSound' /\ MarketsSound'
  BY <1>1, <1>2 DEF OrdersInv, WorkSound, TakingSound, MarketsSound, ledger, markets, work
<1>11. TimeSound'
  <2>1. resting' \subseteq resting \cup Submitted
    BY <1>2, <1>7
  <2>2. QED
    BY <1>1, <1>2, <1>7, <2>1, TimeMoves DEF orders, history
<1>12. QED
  BY <1>7, <1>8, <1>9, <1>10, <1>11 DEF OrdersInv

\* What an accepted order takes.
LEMMA ExecutedSound ==
    ASSUME OrdersInv, NEW id \in 1 .. placed, Arriving(id), Accepted(id), AllTaken(Executed(id)) > 0
    PROVE  LET o == order[id]
               taken == Executed(id)
           IN  /\ taken \in [Tick -> Nat] /\ book[o.market] # None
               /\ \A ask \in Tick :
                      /\ taken[ask] <= book[o.market][<<Opposite(o.side), Complement(ask)>>]
                      /\ taken[ask] > 0 => ask + Slippage <= o.price
               /\ AllTaken(taken) \in Nat \ {0} /\ AllTaken(taken) <= o.qty
               /\ TakerFee(taken) \in Nat
<1> DEFINE o == order[id]
<1>1. /\ o.market \in Market /\ o.side \in Side /\ o.qty \in Nat /\ o.price \in Nat /\ o.price <= PriceScale
      /\ o.price \in Int
  <2>1. o.market \in Market /\ o.side \in Side
    BY ArrivingFacts
  <2>2. o.qty \in Nat /\ o.price \in Nat /\ o.price <= PriceScale
    BY AcceptedFacts
  <2>3. QED
    BY <2>1, <2>2
<1>2. PriceScale - 1 \in Nat /\ Tick = 1 .. PriceScale - 1
  BY OrderBookAssumption DEF Tick
<1>3. Marketable(id) /\ Fresh(id)
  <2>1. SUFFICES ASSUME ~(Marketable(id) /\ Fresh(id)) PROVE FALSE
    OBVIOUS
  <2> DEFINE nothing == [ask \in Tick |-> 0]
  <2>2. Executed(id) = nothing
    BY <2>1 DEF Executed
  <2>3. nothing \in [1 .. PriceScale - 1 -> Int] /\ \A i \in 1 .. PriceScale - 1 : nothing[i] = 0
    BY <1>2
  <2> HIDE DEF nothing
  <2>4. Total(nothing, PriceScale - 1) = 0
    BY <1>2, <2>3, TotalOfZeros
  <2>5. QED
    BY <2>2, <2>4 DEF AllTaken
<1>4. book[o.market] \in Book /\ book[o.market] # None
  BY <1>1, <1>3 DEF Marketable, OrdersInv, EngineTypeOK
<1>5. Executed(id) = Taken(book[o.market], o.side, o.price, o.qty)
  BY <1>3 DEF Executed
<1> DEFINE taken == Executed(id)
           b == book[o.market]
<1>6. /\ taken \in [Tick -> Nat]
      /\ \A ask \in Tick :
             /\ taken[ask] <= b[<<Opposite(o.side), Complement(ask)>>]
             /\ taken[ask] > 0 => ask + Slippage <= o.price
      /\ AllTaken(taken) <= o.qty
  <2> HIDE DEF b, o
  <2>1. LET t == Taken(b, o.side, o.price, o.qty)
        IN  /\ t \in [Tick -> Nat]
            /\ \A ask \in Tick :
                   /\ t[ask] <= b[<<Opposite(o.side), Complement(ask)>>]
                   /\ t[ask] > 0 => ask + Slippage <= o.price
            /\ AllTaken(t) <= o.qty
    BY <1>1, <1>4, TakenSound DEF b
  <2>2. QED
    BY <1>5, <2>1 DEF b
<1> HIDE DEF taken, b, o
<1>7. TakerFee(taken) \in Nat
  BY <1>1, <1>6, TakerFeeType
<1>8. AllTaken(taken) \in Nat \ {0}
  <2>1. AllTaken(taken) \in Nat
    BY <1>2, <1>6, TotalOfNaturals DEF AllTaken
  <2>2. QED
    BY <2>1 DEF taken
<1>9. QED
  BY <1>4, <1>6, <1>7, <1>8 DEF taken, b, o

LEMMA TakeStep == ASSUME OrdersInv, NEW id \in 1 .. placed, Take(id) PROVE OrdersInv'
<1> DEFINE o == order[id]
           taken == Executed(id)
<1>1. /\ Arriving(id) /\ Accepted(id) /\ AllTaken(taken) > 0 /\ stage' = "filling"
      /\ taking' = [id |-> id, taken |-> taken, level |-> 1, fee |-> TakerFee(taken)]
      /\ UNCHANGED <<ledger, fed, markets, orders, records, todo, tick, budget, depth, history>>
  BY DEF Take
<1>2. /\ todo = {} /\ Busy = {} /\ id \in Submitted /\ filled[id] = 0 /\ now' = due[id]
      /\ now' \in Nat /\ now <= now' /\ NoArrivalBefore(now') /\ NoCancelBefore(now')
  BY <1>1, ArrivingFacts
<1>3. o.qty \in Nat /\ o.qty > 0 /\ CheckPrice(o.price) /\ ~closed[o.market]
  BY <1>1, AcceptedFacts
<1>4. /\ taken \in [Tick -> Nat] /\ book[o.market] # None
      /\ \A ask \in Tick :
             /\ taken[ask] <= book[o.market][<<Opposite(o.side), Complement(ask)>>]
             /\ taken[ask] > 0 => ask + Slippage <= o.price
      /\ AllTaken(taken) \in Nat \ {0} /\ AllTaken(taken) <= o.qty
      /\ TakerFee(taken) \in Nat
  BY <1>1, ExecutedSound
<1> HIDE DEF taken
<1>5. /\ taking'.id = id /\ taking'.taken = taken /\ taking'.level = 1 /\ taking'.fee = TakerFee(taken)
      /\ taking' \in Taking
  <2>1. id \in 1 .. MaxOrders /\ 1 \in 1 .. PriceScale
    BY EngineAssumption, OrderBookAssumption DEF OrdersInv, EngineTypeOK
  <2>2. QED
    BY <1>1, <1>4, <2>1 DEF Taking
<1>6. EngineTypeOK'
  <2>1. LedgerTypeOK'
    BY <1>1, LedgerTypeKept DEF OrdersInv, EngineTypeOK
  <2>2. QED
    BY <1>1, <1>2, <1>5, <2>1 DEF OrdersInv, EngineTypeOK, markets, orders, records, depth, history
<1>7. LedgerInv'
  BY <1>1, LedgerKept DEF OrdersInv
<1>8. RecordsSound'
  BY <1>1, <1>2, RecordsKept DEF OrdersInv, EngineTypeOK, markets, orders, records
<1>9. WorkSound' /\ MarketsSound'
  BY <1>1, <1>2 DEF OrdersInv, WorkSound, MarketsSound, ledger, markets
<1>10. TakingSound'
  <2>1. LeftToRecord' = AllTaken(taken)
    <3>1. [ask \in Tick |-> IF ask >= 1 THEN taken[ask] ELSE 0] = taken
      BY <1>4, OrderBookAssumption DEF Tick
    <3>2. QED
      BY <1>5, <3>1 DEF LeftToRecord, AllTaken
  <2>3. /\ id \in Submitted' /\ now' = due'[id] /\ filled'[id] = 0 /\ order'[id] = o
        /\ book' = book /\ closed' = closed
    BY <1>1, <1>2 DEF orders, records, markets, Submitted
  <2>5. TakerFee(taken) * AllTaken(taken) <= TakerFee(taken) * AllTaken(taken) /\ 0 + AllTaken(taken) <= o.qty
    <3>1. TakerFee(taken) * AllTaken(taken) \in Nat
      BY <1>4
    <3>2. QED
      BY <1>4, <3>1
  <2>6. /\ taking'.id \in Submitted' /\ now' = due'[taking'.id] /\ order'[taking'.id] = o
        /\ filled'[taking'.id] = 0 /\ taking'.taken = taken /\ taking'.fee = TakerFee(taken)
        /\ o.qty > 0
        /\ ~closed'[o.market] /\ book'[o.market] # None
    BY <1>3, <1>4, <1>5, <2>3
  <2> HIDE DEF o
  <2>7. /\ filled'[taking'.id] + LeftToRecord' <= o.qty
        /\ TakerFee(taking'.taken) * LeftToRecord' <= taking'.fee * AllTaken(taking'.taken)
    BY <2>1, <2>5, <2>6
  <2>8. \A ask \in Tick :
               /\ taking'.taken[ask] <= book'[o.market][<<Opposite(o.side), Complement(ask)>>]
               /\ taking'.taken[ask] > 0 => ask + Slippage <= o.price
    BY <1>4, <2>3, <2>6
  <2>9. QED
    BY <1>3, <1>4, <1>5, <2>6, <2>7, <2>8 DEF TakingSound
<1>11. TimeSound'
  BY <1>1, <1>2, TimeMoves DEF orders, records, history, Submitted
<1>12. QED
  BY <1>6, <1>7, <1>8, <1>9, <1>10, <1>11 DEF OrdersInv

\* The share of a fill is covered by what is left of the fee, and leaves enough for the others.
LEMMA FeeSplit ==
    ASSUME NEW F \in Nat, NEW t \in Nat, NEW L \in Nat, NEW fee \in Nat, NEW all \in Nat \ {0},
           t <= L, F * L <= fee * all
    PROVE  LET share == (F * t) \div all
           IN  share \in Nat /\ share <= fee /\ F * (L - t) <= (fee - share) * all
<1> DEFINE share == (F * t) \div all
<1>1. F * t \in Nat /\ F * L \in Nat /\ fee * all \in Nat
  OBVIOUS
<1>2. share \in Int /\ share >= 0 /\ all * share <= F * t
  <2> DEFINE x == F * t
  <2>1. x \in Nat /\ share = x \div all
    BY <1>1
  <2> HIDE DEF x, share
  <2>2. x \div all \in Int /\ x \div all >= 0 /\ all * (x \div all) <= x
    BY <2>1
  <2>3. QED
    BY <2>1, <2>2 DEF x
<1> HIDE DEF share
<1>3. F * t + F * (L - t) = F * L /\ F * (L - t) >= 0
  OBVIOUS
<1>4. all * share <= fee * all
  <2>1. all * share \in Int /\ F * (L - t) \in Int
    BY <1>2
  <2>2. QED
    BY <1>1, <1>2, <1>3, <2>1
<1>5. share <= fee
  <2>1. SUFFICES ASSUME share >= fee + 1 PROVE FALSE
    BY <1>2
  <2>2. all * share >= all * (fee + 1)
    BY <1>2, <2>1
  <2>3. QED
    BY <1>4, <2>2, <1>2
<1>6. (fee - share) * all = fee * all - all * share
  BY <1>2
<1>7. F * (L - t) <= fee * all - all * share
  <2>1. all * share \in Int /\ F * (L - t) \in Int
    BY <1>2
  <2>2. QED
    BY <1>1, <1>2, <1>3, <2>1
<1>8. QED
  BY <1>2, <1>5, <1>6, <1>7 DEF share

\* What is known of the next fill to record.
LEMMA FillFacts ==
    ASSUME OrdersInv, NEW ask \in Tick, RecordFill(ask)
    PROVE  LET id == taking.id
               o == order[id]
               t == taking.taken[ask]
           IN  /\ stage = "filling" /\ stage' = stage /\ todo = {} /\ id \in 1 .. placed /\ id \in Submitted
               /\ taking.taken \in [Tick -> Nat] /\ o.market \in Market /\ o.side \in Side
               /\ o.price \in Nat /\ o.qty \in Int /\ settled[o.market] = None
               /\ filled[id] \in Nat /\ id \notin resting
               /\ ask + Slippage \in Price /\ ask + Slippage \in Nat /\ ask + Slippage <= o.price
               /\ t \in Nat \ {0} /\ FeeShare(ask) \in Nat /\ FeeShare(ask) <= taking.fee
               /\ LeftToRecord \in Nat /\ t <= LeftToRecord
               /\ LeftToRecord' = LeftToRecord - t
               /\ TakerFee(taking.taken) * LeftToRecord'
                      <= (taking.fee - FeeShare(ask)) * AllTaken(taking.taken)
               /\ taking' = [taking EXCEPT !.level = ask + 1, !.fee = @ - FeeShare(ask)]
               /\ Buy(o.market, o.side, ask + Slippage, t, FeeShare(ask))
<1> DEFINE id == taking.id
           o == order[id]
           taken == taking.taken
           n == PriceScale - 1
           f == [x \in Tick |-> IF x >= taking.level THEN taken[x] ELSE 0]
           g == [x \in Tick |-> IF x >= ask + 1 THEN taken[x] ELSE 0]
<1>1. /\ stage = "filling" /\ Unrecorded # {} /\ ask = First(Unrecorded)
      /\ Buy(o.market, o.side, ask + Slippage, taken[ask], FeeShare(ask))
      /\ taking' = [taking EXCEPT !.level = ask + 1, !.fee = @ - FeeShare(ask)]
      /\ stage' = stage
  BY DEF RecordFill, loop
<1>2. /\ taking \in Taking /\ id \in Submitted /\ ~closed[o.market] /\ CheckPrice(o.price)
      /\ \A x \in Tick : taken[x] > 0 => x + Slippage <= o.price
      /\ AllTaken(taken) > 0 /\ TakerFee(taken) * LeftToRecord <= taking.fee * AllTaken(taken)
  BY <1>1 DEF OrdersInv, TakingSound
<1>3. /\ taken \in [Tick -> Nat] /\ taking.level \in Nat /\ taking.fee \in Nat
      /\ taking = [id |-> id, taken |-> taken, level |-> taking.level, fee |-> taking.fee]
  BY <1>2 DEF Taking
<1>4. /\ id \in 1 .. placed /\ o \in AnOrder /\ o.market \in Market /\ o.side \in Side
      /\ o.price \in Quote /\ o.qty \in Int /\ filled[id] \in Nat
  BY <1>2 DEF Submitted, OrdersInv, EngineTypeOK, AnOrder
<1>5. /\ n \in Nat /\ PriceScale \in Nat /\ Tick = 1 .. n /\ Slippage \in Nat /\ o.price \in Int
      /\ Tick \subseteq Quote
  <2>1. n \in Nat /\ PriceScale \in Nat
    BY OrderBookAssumption
  <2>2. Tick = 1 .. n /\ Slippage \in Nat /\ Tick \subseteq Quote
    BY FillsAssumption DEF Tick
  <2>3. o.price \in Quote
    BY <1>4
  <2>4. Quote \subseteq Int
    BY OrderBookAssumption
  <2> HIDE DEF o, n
  <2>5. QED
    BY <2>1, <2>2, <2>3, <2>4
<1>6. o.price \in Nat /\ o.price <= PriceScale
  BY <1>2, <1>5 DEF CheckPrice
<1>7. id \notin resting /\ todo = {} /\ settled[o.market] = None
  BY <1>1, <1>2, <1>4 DEF OrdersInv, RecordsSound, RestingSound, Submitted, WorkSound, MarketsSound
<1>8. /\ ask \in Unrecorded /\ \A x \in Unrecorded : ask <= x
  <2>1. Unrecorded \subseteq Nat
    BY <1>5 DEF Unrecorded
  <2>2. QED
    BY <1>1, <2>1, FirstIsLeast
<1>9. ask >= taking.level /\ taken[ask] \in Nat \ {0} /\ ask + Slippage <= o.price
  BY <1>2, <1>3, <1>8 DEF Unrecorded
<1>10. ask + Slippage \in Price /\ ask + Slippage \in Nat
  <2>1. ask + Slippage \in Tick
    BY <1>2, <1>5, <1>9 DEF CheckPrice
  <2>2. QED
    BY <1>5, <2>1 DEF Price, CheckPrice
<1> HIDE DEF id, o, taken, n
<1>11. f \in [1 .. n -> Nat] /\ f[ask] = taken[ask] /\ f \in [1 .. n -> Int] /\ ask \in 1 .. n
  BY <1>3, <1>5, <1>9
<1>12. g = [f EXCEPT ![ask] = 0]
  <2>1. ASSUME NEW x \in Tick, x # ask PROVE g[x] = f[x]
    <3>1. x \in Int /\ ask \in Int /\ taking.level \in Int /\ taken[x] \in Nat
      BY <1>3, <1>5
    <3>2. ASSUME x >= taking.level, x < ask PROVE taken[x] = 0
      <4>1. x \notin Unrecorded
        BY <1>8, <3>1, <3>2
      <4>2. QED
        BY <3>1, <3>2, <4>1 DEF Unrecorded, taken
    <3>3. QED
      BY <1>9, <2>1, <3>1, <3>2
  <2>2. g[ask] = 0 /\ ask \in Int
    BY <1>5
  <2>3. QED
    BY <2>1, <2>2
<1>13. LeftToRecord = Total(f, n)
  BY DEF LeftToRecord, taken, n
<1>14. LeftToRecord' = Total(g, n)
  <2>1. taking'.level = ask + 1 /\ taking'.taken = taken
    BY <1>1, <1>3
  <2>2. QED
    BY <2>1 DEF LeftToRecord, n
<1> HIDE DEF f, g
<1>15. LeftToRecord \in Nat /\ taken[ask] <= LeftToRecord
  BY <1>5, <1>11, <1>13, TotalOfNaturals
<1>16. LeftToRecord' = LeftToRecord - taken[ask]
  <2>1. 0 \in Int /\ n \in Nat /\ ask \in 1 .. n /\ f \in [1 .. n -> Int]
    BY <1>5, <1>11
  <2>2. Total([f EXCEPT ![ask] = 0], n) = Total(f, n) - f[ask] + 0
    BY <2>1, TotalUpdate
  <2>3. QED
    BY <1>9, <1>11, <1>12, <1>13, <1>14, <1>15, <2>2
<1>17. AllTaken(taken) \in Nat /\ TakerFee(taken) \in Nat
  <2>1. AllTaken(taken) \in Nat
    BY <1>3, <1>5, TotalOfNaturals DEF AllTaken, n
  <2>2. TakerFee(taken) \in Nat
    BY <1>2, <1>3, <1>6, TakerFeeType DEF taken, o, id
  <2>3. QED
    BY <2>1, <2>2
<1>18. /\ FeeShare(ask) \in Nat /\ FeeShare(ask) <= taking.fee
       /\ TakerFee(taken) * LeftToRecord' <= (taking.fee - FeeShare(ask)) * AllTaken(taken)
  <2>1. CASE Unrecorded = {ask}
    <3>1. FeeShare(ask) = taking.fee
      BY <2>1 DEF FeeShare
    <3>2. \A x \in 1 .. n : g[x] = 0
      <4>1. TAKE x \in 1 .. n
      <4>2. taken[x] \in Nat /\ x \in Tick /\ x \in Int /\ ask \in Int /\ taking.level \in Int
        BY <1>3, <1>5
      <4>3. CASE x >= ask + 1
        <5>1. x \notin Unrecorded /\ x >= taking.level
          BY <1>9, <2>1, <4>2, <4>3
        <5>2. taken[x] = 0
          BY <4>2, <5>1 DEF Unrecorded, taken
        <5>3. QED
          BY <4>2, <5>2 DEF g
      <4>4. CASE ~(x >= ask + 1)
        BY <4>2, <4>4 DEF g
      <4>5. QED
        BY <4>3, <4>4
    <3>3. g \in [1 .. n -> Int]
      BY <1>11, <1>12
    <3>4. LeftToRecord' = 0
      BY <1>5, <1>14, <3>2, <3>3, TotalOfZeros
    <3>5. TakerFee(taken) * 0 = 0 /\ 0 * AllTaken(taken) = 0 /\ taking.fee - taking.fee = 0
      BY <1>3, <1>17
    <3>6. QED
      BY <1>3, <3>1, <3>4, <3>5
  <2>2. CASE Unrecorded # {ask}
    <3>1. FeeShare(ask) = (TakerFee(taken) * taken[ask]) \div AllTaken(taken)
      BY <2>2 DEF FeeShare, taken
    <3>2. AllTaken(taken) \in Nat \ {0} /\ TakerFee(taken) * LeftToRecord <= taking.fee * AllTaken(taken)
      BY <1>2, <1>17 DEF taken
    <3> DEFINE all == AllTaken(taken)  F == TakerFee(taken)  t == taken[ask]  L == LeftToRecord  fee == taking.fee
    <3>3. /\ F \in Nat /\ t \in Nat /\ L \in Nat /\ fee \in Nat /\ all \in Nat \ {0}
          /\ t <= L /\ F * L <= fee * all /\ FeeShare(ask) = (F * t) \div all /\ LeftToRecord' = L - t
      BY <1>3, <1>9, <1>15, <1>16, <1>17, <3>1, <3>2
    <3> HIDE DEF all, F, t, L, fee
    <3>4. (F * t) \div all \in Nat /\ (F * t) \div all <= fee /\ F * (L - t) <= (fee - ((F * t) \div all)) * all
      BY <3>3, FeeSplit
    <3>5. QED
      BY <3>3, <3>4 DEF all, F, t, L, fee
  <2>3. QED
    BY <2>1, <2>2
<1>19. QED
  BY <1>1, <1>2, <1>3, <1>4, <1>6, <1>7, <1>9, <1>10, <1>15, <1>16, <1>18 DEF id, o, taken

LEMMA RecordFillStep == ASSUME OrdersInv, NEW ask \in Tick, RecordFill(ask) PROVE OrdersInv'
<1> DEFINE id == taking.id
           o == order[id]
           t == taking.taken[ask]
           share == FeeShare(ask)
<1>1. /\ stage = "filling" /\ stage' = stage /\ todo = {} /\ id \in 1 .. placed /\ id \in Submitted
      /\ taking.taken \in [Tick -> Nat] /\ o.market \in Market /\ o.side \in Side
      /\ o.price \in Nat /\ o.qty \in Int /\ settled[o.market] = None
      /\ filled[id] \in Nat /\ id \notin resting
      /\ ask + Slippage \in Price /\ ask + Slippage \in Nat
      /\ t \in Nat \ {0} /\ share \in Nat /\ share <= taking.fee
      /\ LeftToRecord \in Nat /\ t <= LeftToRecord
      /\ LeftToRecord' = LeftToRecord - t
      /\ TakerFee(taking.taken) * LeftToRecord' <= (taking.fee - share) * AllTaken(taking.taken)
      /\ taking' = [taking EXCEPT !.level = ask + 1, !.fee = @ - share]
      /\ Buy(o.market, o.side, ask + Slippage, t, share)
  BY FillFacts
<1>2. /\ filled' = [filled EXCEPT ![id] = @ + t]
      /\ log' = Append(log, Fill(id, ask + Slippage, t, share, "taker"))
      /\ UNCHANGED <<loop, markets, orders, status, resting, queue, reserved, todo, tick, budget, depth, history>>
  BY DEF RecordFill
<1>3. /\ taking \in Taking /\ now = due[id] /\ ~closed[o.market] /\ CheckPrice(o.price)
      /\ book[o.market] # None /\ filled[id] + LeftToRecord <= o.qty /\ AllTaken(taking.taken) > 0
      /\ o.qty > 0
      /\ \A x \in Tick :
             /\ taking.taken[x] <= book[o.market][<<Opposite(o.side), Complement(x)>>]
             /\ taking.taken[x] > 0 => x + Slippage <= o.price
  BY <1>1 DEF OrdersInv, TakingSound
<1> HIDE DEF share, t, o
<1>4. /\ taking' \in Taking /\ taking'.id = id /\ taking'.taken = taking.taken
      /\ taking'.fee = taking.fee - share
  <2>1. ask + 1 \in 1 .. PriceScale
    BY OrderBookAssumption DEF Tick
  <2>2. taking.fee - share \in Nat
    BY <1>1, <1>3 DEF Taking
  <2>3. QED
    BY <1>1, <1>3, <2>1, <2>2 DEF Taking
<1>5. LedgerInv' /\ settled' = settled
  BY <1>1, Purchase DEF OrdersInv
<1>6. /\ filled \in [1 .. placed -> Nat] /\ filled' \in [1 .. placed -> Nat] /\ filled'[id] = filled[id] + t
      /\ \A k \in 1 .. placed : k # id => filled'[k] = filled[k]
  <2>1. filled \in [1 .. placed -> Nat]
    BY DEF OrdersInv, EngineTypeOK
  <2> HIDE DEF id
  <2>a. filled[id] + t \in Nat
    BY <1>1
  <2>2. QED
    BY <1>1, <1>2, <2>1, <2>a
<1>7. log' \in Seq(FillRecord)
  BY <1>1, <1>2, FillType
<1>8. /\ now' = now /\ fed' = fed /\ book' = book /\ bookTs' = bookTs /\ closed' = closed
      /\ placed' = placed /\ order' = order /\ due' = due /\ cancels' = cancels
      /\ status' = status /\ resting' = resting /\ queue' = queue /\ reserved' = reserved
      /\ todo' = todo /\ tick' = tick /\ budget' = budget /\ shown' = shown /\ used' = used
      /\ mids' = mids /\ payouts' = payouts /\ revoked' = revoked
  BY <1>2 DEF loop, markets, orders, depth, history
<1>9. EngineTypeOK'
  <2>1. LedgerTypeOK'
    BY <1>5 DEF LedgerInv, PositionInv
  <2>2. QED
    BY <1>1, <1>4, <1>6, <1>7, <1>8, <2>1 DEF OrdersInv, EngineTypeOK
<1>10. RecordsSound'
  <2>1. Busy = {id} /\ Busy' = {id}
    BY <1>1, <1>4 DEF Busy
  <2>2. ReservedIsExact'
    <3>1. \A k \in 1 .. placed : k \in resting => filled'[k] = filled[k]
      BY <1>1, <1>6
    <3>2. QED
      BY <1>8, <3>1 DEF OrdersInv, RecordsSound, ReservedIsExact
  <2>3. ASSUME NEW k \in (1 .. placed) \ {id} PROVE StatusSound(k)'
    <3>1. StatusSound(k) /\ filled'[k] = filled[k]
      BY <1>6, <2>1 DEF OrdersInv, RecordsSound
    <3>2. QED
      BY <1>8, <3>1 DEF StatusSound
  <2>4. ASSUME NEW k \in resting PROVE RestingSound(k)'
    BY <1>8 DEF OrdersInv, RecordsSound, RestingSound
  <2>5. QED
    BY <1>8, <2>1, <2>2, <2>3, <2>4 DEF RecordsSound
<1>11. WorkSound' /\ MarketsSound'
  BY <1>1, <1>5, <1>8 DEF OrdersInv, WorkSound, MarketsSound
<1>12. TakingSound'
  <2>1. Submitted' = Submitted
    BY <1>8 DEF Submitted
  <2>2. filled'[id] + LeftToRecord' <= o.qty
    <3>1. (filled[id] + t) + (LeftToRecord - t) = filled[id] + LeftToRecord
      BY <1>1
    <3>2. QED
      BY <1>1, <1>3, <1>6, <3>1
  <2>3. TakerFee(taking'.taken) * LeftToRecord' <= taking'.fee * AllTaken(taking'.taken)
    BY <1>1, <1>4
  <2>4. order'[taking'.id] = o /\ o.market = o.market
    BY <1>4, <1>8 DEF o
  <2>5. QED
    BY <1>1, <1>3, <1>4, <1>8, <2>1, <2>2, <2>3, <2>4 DEF TakingSound
<1>13. TimeSound'
  <2>1. Submitted' = Submitted
    BY <1>8 DEF Submitted
  <2>2. QED
    BY <1>8, <2>1, TimeStands
<1>14. QED
  BY <1>5, <1>9, <1>10, <1>11, <1>12, <1>13 DEF OrdersInv

LEMMA LeftType == ASSUME taking \in Taking PROVE LeftToRecord \in Nat
<1> DEFINE f == [x \in Tick |-> IF x >= taking.level THEN taking.taken[x] ELSE 0]
<1>1. taking.taken \in [Tick -> Nat]
  BY DEF Taking
<1>2. f \in [1 .. PriceScale - 1 -> Nat] /\ PriceScale - 1 \in Nat
  BY <1>1, OrderBookAssumption DEF Tick
<1> HIDE DEF f
<1>3. Total(f, PriceScale - 1) \in Nat
  BY <1>2, TotalOfNaturals
<1>4. QED
  BY <1>3 DEF f, LeftToRecord

LEMMA FillsRecordedStep == ASSUME OrdersInv, FillsRecorded PROVE OrdersInv'
<1> DEFINE id == taking.id
           o == order[id]
           m == o.market
           side == o.side
           taken == taking.taken
           b == AfterTaker(book[m], side, taken)
<1>1. /\ stage = "filling" /\ Unrecorded = {} /\ stage' = "between" /\ taking' = None
      /\ book' = [book EXCEPT ![m] = b]
      /\ used' = [used EXCEPT ![m] = [c \in Cell |->
             IF c[1] = Opposite(side) THEN @[c] + taken[Complement(c[2])] ELSE @[c]]]
      /\ Remainder(id, b)
      /\ UNCHANGED <<ledger, now, fed, bookTs, closed, orders, todo, tick, budget, shown, mids, history>>
  BY DEF FillsRecorded
<1>2. /\ taking \in Taking /\ id \in Submitted /\ ~closed[m] /\ CheckPrice(o.price)
      /\ book[m] # None /\ o.qty > 0 /\ filled[id] + LeftToRecord <= o.qty
      /\ todo = {}
  BY <1>1 DEF OrdersInv, TakingSound, WorkSound
<1>3. /\ id \in 1 .. placed /\ m \in Market /\ side \in Side /\ taken \in [Tick -> Nat]
      /\ o.qty \in Int /\ filled[id] \in Nat /\ book[m] \in Book
  BY <1>2 DEF Submitted, OrdersInv, EngineTypeOK, AnOrder, Taking
<1>4. filled[id] <= o.qty /\ o.qty > 0
  <2>1. LeftToRecord \in Nat
    BY <1>2, LeftType
  <2>2. QED
    BY <1>2, <1>3, <2>1
<1>5. b \in Book
  BY <1>3, AfterTakerType
<1> HIDE DEF b
<1>6. /\ RecordsSound'
      /\ status' \in [1 .. placed -> Status] /\ filled' = filled /\ log' = log
      /\ queue' \in [1 .. placed -> Queue] /\ reserved' \in [1 .. placed -> Nat]
      /\ resting \subseteq resting' /\ resting' \subseteq resting \cup {id}
      /\ Submitted' \subseteq Submitted /\ id \notin Submitted'
  <2>1. Busy \subseteq {id} /\ stage' # "filling" /\ UNCHANGED <<placed, order, closed>>
    BY <1>1 DEF Busy, orders
  <2>2. QED
    BY <1>1, <1>2, <1>3, <1>4, <1>5, <2>1, RemainderSound
<1>7. used' \in [Market -> [Cell -> Nat]]
  <2> DEFINE more == [c \in Cell |->
             IF c[1] = Opposite(side) THEN used[m][c] + taken[Complement(c[2])] ELSE used[m][c]]
  <2>1. used \in [Market -> [Cell -> Nat]]
    BY DEF OrdersInv, EngineTypeOK
  <2>2. ASSUME NEW c \in Cell PROVE more[c] \in Nat
    <3>1. c[2] \in Price
      BY DEF Cell
    <3>2. c[2] \in Quote /\ CheckPrice(c[2])
      BY <3>1 DEF Price
    <3>b. PriceScale \in Int /\ Quote \subseteq Int
      BY OrderBookAssumption
    <3>a. c[2] \in Int /\ PriceScale \in Int
      BY <3>2, <3>b
    <3>3. Complement(c[2]) \in Tick
      BY <3>2, <3>a DEF CheckPrice, Complement, Tick
    <3>4. taken[Complement(c[2])] \in Nat /\ used[m][c] \in Nat
      BY <1>3, <2>1, <3>3
    <3>5. QED
      BY <3>4
  <2>3. more \in [Cell -> Nat]
    BY <2>2
  <2>4. used' = [used EXCEPT ![m] = more]
    BY <1>1
  <2> HIDE DEF more, m
  <2>5. QED
    BY <2>1, <2>3, <2>4
<1>8. EngineTypeOK'
  <2>1. LedgerTypeOK'
    BY <1>1, LedgerTypeKept DEF OrdersInv, EngineTypeOK
  <2>2. resting' \subseteq 1 .. placed /\ todo' \subseteq resting'
    BY <1>1, <1>2, <1>3, <1>6 DEF OrdersInv, EngineTypeOK
  <2>3. book' \in [Market -> Book \cup {None}]
    BY <1>1, <1>5 DEF OrdersInv, EngineTypeOK
  <2>4. QED
    BY <1>1, <1>6, <1>7, <2>1, <2>2, <2>3 DEF OrdersInv, EngineTypeOK, orders, history
<1>9. LedgerInv'
  BY <1>1, LedgerKept DEF OrdersInv
<1>10. WorkSound' /\ TakingSound' /\ MarketsSound'
  BY <1>1, <1>2 DEF OrdersInv, WorkSound, TakingSound, MarketsSound, ledger
<1>11. TimeSound'
  <2>1. resting' \subseteq resting \cup Submitted
    BY <1>2, <1>6
  <2>2. QED
    BY <1>1, <1>6, <2>1, TimeStands DEF orders, history
<1>12. QED
  BY <1>6, <1>8, <1>9, <1>10, <1>11 DEF OrdersInv

----------------------------------------------------------------------------
(* The invariant. *)

LEMMA StutterStep == ASSUME OrdersInv, UNCHANGED engine PROVE OrdersInv'
<1>1. /\ UNCHANGED <<ledger, now, stage, fed, markets, orders, records, work, depth, history>>
  BY DEF engine, loop
<1>2. EngineTypeOK'
  <2>1. LedgerTypeOK'
    BY <1>1, LedgerTypeKept DEF OrdersInv, EngineTypeOK
  <2>2. QED
    BY <1>1, <2>1 DEF OrdersInv, EngineTypeOK, markets, orders, records, work, depth, history
<1>3. LedgerInv'
  BY <1>1, LedgerKept DEF OrdersInv
<1>4. RecordsSound'
  BY <1>1, RecordsKept DEF OrdersInv, EngineTypeOK, Busy, markets, orders, records, work
<1>5. WorkSound' /\ MarketsSound'
  BY <1>1 DEF OrdersInv, WorkSound, MarketsSound, ledger, markets, orders, work
<1>6. TakingSound'
  BY <1>1 DEF OrdersInv, TakingSound, LeftToRecord, Submitted, markets, orders, records, work
<1>7. TimeSound'
  BY <1>1, ScheduleKept DEF history
<1>8. QED
  BY <1>2, <1>3, <1>4, <1>5, <1>6, <1>7 DEF OrdersInv

LEMMA EngineStarts == EngineInit => OrdersInv
<1> SUFFICES ASSUME EngineInit PROVE OrdersInv
  OBVIOUS
<1>1. LedgerInv
  BY LedgerStarts DEF EngineInit
<1>2. EngineTypeOK
  <2>1. LedgerTypeOK
    BY <1>1 DEF LedgerInv, PositionInv
  <2>2. NoDepth \in Book /\ NoDepth \in [Cell -> Nat]
    BY DEF NoDepth, Book
  <2>3. <<>> \in Seq(FillRecord) /\ <<>> \in Seq(Mid)
    OBVIOUS
  <2>4. \A S : <<>> \in [1 .. 0 -> S]
    OBVIOUS
  <2>5. /\ now \in Nat /\ fed \in 0 .. MaxFeed /\ stage = "strategy" /\ placed \in 0 .. MaxOrders
        /\ placed = 0
    BY EngineAssumption DEF EngineInit
  <2>6. /\ order \in [1 .. placed -> AnOrder] /\ due \in [1 .. placed -> Nat]
        /\ status \in [1 .. placed -> Status] /\ filled \in [1 .. placed -> Nat]
        /\ queue \in [1 .. placed -> Queue] /\ reserved \in [1 .. placed -> Nat]
    BY <2>4, <2>5 DEF EngineInit
  <2>7. /\ shown \in [Market -> Book] /\ used \in [Market -> [Cell -> Nat]]
        /\ mids \in [Market -> Seq(Mid)] /\ log \in Seq(FillRecord)
    BY <2>2, <2>3 DEF EngineInit
  <2>8. QED
    BY <2>1, <2>5, <2>6, <2>7 DEF EngineInit, EngineTypeOK
<1>3. /\ placed = 0 /\ resting = {} /\ stage = "strategy" /\ todo = {} /\ cancels = {} /\ revoked = {}
      /\ settled = [m \in Market |-> None]
  BY DEF EngineInit, LedgerInit
<1>4. RecordsSound
  BY <1>3 DEF RecordsSound, ReservedIsExact
<1>5. WorkSound /\ TakingSound /\ MarketsSound
  BY <1>3 DEF WorkSound, TakingSound, MarketsSound
<1>6. TimeSound
  BY <1>3 DEF TimeSound, Submitted
<1>7. QED
  BY <1>1, <1>2, <1>4, <1>5, <1>6 DEF OrdersInv

\* What the feed and the tape may hold.
LEMMA FeedTypes ==
    /\ \A u \in Updates : u[1] \in Market /\ u[2] \in Book
    /\ \A p \in Trades : p[1] \in Market /\ p[2] \in TradePrint
    /\ \A s \in Outcomes : s[1] \in Market /\ s[2] \in Value
    /\ \A ms \in {{m} : m \in Market} \cup {Market} : ms \in SUBSET Market
  BY EngineAssumption

LEMMA EngineSteps == OrdersInv /\ [EngineNext]_engine => OrdersInv'
<1> SUFFICES ASSUME OrdersInv, [EngineNext]_engine PROVE OrdersInv'
  OBVIOUS
<1>1. CASE UNCHANGED engine
  BY <1>1, StutterStep
<1>2. CASE StrategyActs
  BY <1>2, SubmitStep, RequestCancelStep DEF StrategyActs
<1>3. CASE FeedActs
  <2>1. CASE (\E t \in 1 .. MaxTime : BatchStarts(t)) \/ Matched \/ BatchEnds
    BY <2>1, LoopStep
  <2>2. ASSUME NEW ms \in {{m} : m \in Market} \cup {Market}, ConfirmBooks(ms) PROVE OrdersInv'
    BY <2>2, FeedTypes, ConfirmBooksStep
  <2>3. ASSUME NEW u \in Updates, UpdateBook(u[1], u[2]) PROVE OrdersInv'
    BY <2>3, FeedTypes, UpdateBookStep
  <2>4. ASSUME NEW p \in Trades, TradeTick(p[1], p[2]) PROVE OrdersInv'
    BY <2>4, FeedTypes, TradeTickStep
  <2>5. ASSUME NEW m \in Market, CloseMarket(m) PROVE OrdersInv'
    BY <2>5, CloseMarketStep
  <2>6. ASSUME NEW s \in Outcomes, SettleMarket(s[1], s[2]) PROVE OrdersInv'
    BY <2>6, FeedTypes, SettleMarketStep
  <2>7. ASSUME NEW id \in todo, MatchBook(id) PROVE OrdersInv'
    BY <2>7, MatchBookStep
  <2>8. ASSUME NEW id \in todo, MatchPrint(id) PROVE OrdersInv'
    BY <2>8, MatchPrintStep
  <2>9. QED
    BY <1>3, <2>1, <2>2, <2>3, <2>4, <2>5, <2>6, <2>7, <2>8 DEF FeedActs
<1>4. CASE ScheduledActs
  <2>1. ASSUME NEW id \in 1 .. placed, Reject(id) \/ Rest(id) \/ Take(id) PROVE OrdersInv'
    BY <2>1, RejectStep, RestStep, TakeStep
  <2>2. ASSUME NEW ask \in Tick, RecordFill(ask) PROVE OrdersInv'
    BY <2>2, RecordFillStep
  <2>3. CASE FillsRecorded
    BY <2>3, FillsRecordedStep
  <2>4. ASSUME NEW c \in cancels, CancelArrives(c) PROVE OrdersInv'
    BY <2>4, CancelArrivesStep
  <2>5. CASE \E t \in WakeTimes : WakeUp(t)
    BY <2>5, LoopStep
  <2>6. QED
    BY <1>4, <2>1, <2>2, <2>3, <2>4, <2>5 DEF ScheduledActs
<1>5. CASE Finish
  BY <1>5, StutterStep DEF Finish
<1>6. QED
  BY <1>1, <1>2, <1>3, <1>4, <1>5 DEF EngineNext

LEMMA OrdersInvariance == EngineSpec => []OrdersInv
<1>1. EngineInit => OrdersInv
  BY EngineStarts
<1>2. OrdersInv /\ [EngineNext]_engine => OrdersInv'
  BY EngineSteps
<1>3. QED
  BY <1>1, <1>2, PTL DEF EngineSpec

(***************************************************************************)
(* Everything the engine keeps has its type: what rests is an order that   *)
(* was placed, no quantity, reservation or fee falls below zero, and what  *)
(* is left of a book after our takers is a book.                           *)
(***************************************************************************)
THEOREM EngineTypes == EngineSpec => []EngineTypeOK
<1>1. OrdersInv => EngineTypeOK
  BY DEF OrdersInv
<1>2. QED
  BY <1>1, OrdersInvariance, PTL

----------------------------------------------------------------------------
(* What a step does to the account and to what is recorded as filled. *)

\* An order that rests or takes, in an open market, is filled: it buys, within its limit,
\* exactly what is recorded of it.
Purchases(id, price, qty, fee) ==
    /\ ~closed[order[id].market] /\ id \in resting \cup Submitted
    /\ Buy(order[id].market, order[id].side, price, qty, fee)
    /\ price <= order[id].price
    /\ filled' = [filled EXCEPT ![id] = @ + qty]
    /\ UNCHANGED <<placed, order>>

SomePurchase ==
    \E id \in 1 .. placed, price \in Price, qty \in Nat \ {0}, fee \in Nat : Purchases(id, price, qty, fee)

\* Nothing is placed or filled; a market may be settled.
Idles ==
    /\ UNCHANGED <<placed, order, filled>>
    /\ \/ UNCHANGED ledger
       \/ \E m \in Market, value \in Value : Settle(m, value)

LEMMA MakerFillKind ==
    ASSUME OrdersInv, NEW id \in resting, NEW q \in Queue, q.left <= queue[id].left,
           MakerFill(id, q), UNCHANGED <<placed, order>>
    PROVE  SomePurchase \/ Idles
<1> DEFINE o == order[id]
           got == queue[id].left - q.left
<1>1. /\ id \in 1 .. placed /\ o.price \in Price /\ o.price \in Nat /\ o.price <= PriceScale
      /\ queue[id].left \in Nat /\ ~closed[o.market]
  BY RestingFacts
<1>2. got \in Nat
  BY <1>1 DEF Queue
<1>3. /\ filled' = [filled EXCEPT ![id] = @ + got]
      /\ \/ got = 0 /\ UNCHANGED ledger
         \/ /\ got > 0
            /\ Buy(o.market, o.side, o.price, got, MakerFee(o.price, got))
  BY DEF MakerFill
<1>4. CASE got = 0
  <2>1. filled \in [1 .. placed -> Nat]
    BY DEF OrdersInv, EngineTypeOK
  <2>2. filled' = [filled EXCEPT ![id] = @ + 0]
    BY <1>3, <1>4
  <2>3. filled[id] + 0 = filled[id]
    BY <1>1, <2>1
  <2>4. filled' = filled
    BY <2>1, <2>2, <2>3
  <2>5. UNCHANGED ledger
    BY <1>3, <1>4
  <2>6. QED
    BY <2>4, <2>5 DEF Idles
<1>5. CASE got > 0
  <2>1. Buy(o.market, o.side, o.price, got, MakerFee(o.price, got)) /\ o.price <= o.price
    BY <1>1, <1>3, <1>5
  <2>2. MakerFee(o.price, got) \in Nat /\ got \in Nat \ {0}
    BY <1>1, <1>2, <1>5, MakerFeeType
  <2>3. Purchases(id, o.price, got, MakerFee(o.price, got))
    BY <1>1, <1>3, <2>1 DEF Purchases
  <2> HIDE DEF got, o
  <2>4. QED
    BY <1>1, <2>2, <2>3 DEF SomePurchase
<1>6. QED
  BY <1>2, <1>4, <1>5

LEMMA StepKinds ==
    ASSUME OrdersInv, [EngineNext]_engine
    PROVE  (\E o \in Orders : Submit(o)) \/ SomePurchase \/ Idles
<1>1. CASE UNCHANGED engine
  BY <1>1 DEF Idles, engine, orders, records
<1>2. CASE StrategyActs
  <2>1. ASSUME NEW id \in 1 .. placed, RequestCancel(id) PROVE Idles
    BY <2>1 DEF RequestCancel, Idles, records
  <2>2. QED
    BY <1>2, <2>1 DEF StrategyActs
<1>3. CASE FeedActs
  <2>1. ASSUME NEW t \in 1 .. MaxTime, BatchStarts(t) PROVE Idles
    BY <2>1 DEF BatchStarts, Idles, orders, records
  <2>2. ASSUME NEW ms \in {{m} : m \in Market} \cup {Market}, ConfirmBooks(ms) PROVE Idles
    BY <2>2 DEF ConfirmBooks, Idles, orders, records
  <2>3. ASSUME NEW u \in Updates, UpdateBook(u[1], u[2]) PROVE Idles
    BY <2>3 DEF UpdateBook, Idles, orders, records
  <2>4. ASSUME NEW p \in Trades, TradeTick(p[1], p[2]) PROVE Idles
    BY <2>4 DEF TradeTick, Idles, orders, records
  <2>5. ASSUME NEW m \in Market, CloseMarket(m) PROVE Idles
    BY <2>5 DEF CloseMarket, Drop, Idles, orders
  <2>6. ASSUME NEW s \in Outcomes, SettleMarket(s[1], s[2]) PROVE Idles
    BY <2>6, FeedTypes DEF SettleMarket, Drop, Idles, orders
  <2>7. ASSUME NEW id \in todo, MatchBook(id) PROVE SomePurchase \/ Idles
    <3>1. UNCHANGED <<placed, order>>
      BY <2>7 DEF MatchBook, orders
    <3>2. QED
      BY <2>7, <3>1, SnapshotQueue, MakerFillKind
  <2>8. ASSUME NEW id \in todo, MatchPrint(id) PROVE SomePurchase \/ Idles
    <3>1. UNCHANGED <<placed, order>>
      BY <2>8 DEF MatchPrint, orders
    <3>2. QED
      BY <2>8, <3>1, PrintQueue, MakerFillKind
  <2>9. CASE Matched
    BY <2>9 DEF Matched, Idles, orders, records
  <2>10. CASE BatchEnds
    BY <2>10 DEF BatchEnds, Idles, orders, records
  <2>11. QED
    BY <1>3, <2>1, <2>2, <2>3, <2>4, <2>5, <2>6, <2>7, <2>8, <2>9, <2>10 DEF FeedActs
<1>4. CASE ScheduledActs
  <2>1. ASSUME NEW id \in 1 .. placed, Reject(id) PROVE Idles
    BY <2>1 DEF Reject, Idles, orders
  <2>2. ASSUME NEW id \in 1 .. placed, Rest(id) PROVE Idles
    BY <2>2 DEF Rest, Remainder, Idles, orders
  <2>3. ASSUME NEW id \in 1 .. placed, Take(id) PROVE Idles
    BY <2>3 DEF Take, Idles, orders, records
  <2>4. ASSUME NEW ask \in Tick, RecordFill(ask) PROVE SomePurchase
    <3> DEFINE id == taking.id
               t == taking.taken[ask]
    <3>1. /\ id \in 1 .. placed /\ ask + Slippage \in Price /\ ask + Slippage <= order[id].price
          /\ t \in Nat \ {0} /\ FeeShare(ask) \in Nat
          /\ Buy(order[id].market, order[id].side, ask + Slippage, t, FeeShare(ask))
      BY <2>4, FillFacts
    <3>2. filled' = [filled EXCEPT ![id] = @ + t] /\ UNCHANGED <<placed, order>>
      BY <2>4 DEF RecordFill, orders
    <3>a. ~closed[order[id].market] /\ id \in Submitted
      BY <2>4 DEF RecordFill, OrdersInv, TakingSound
    <3>3. Purchases(id, ask + Slippage, t, FeeShare(ask))
      BY <3>a, <3>1, <3>2 DEF Purchases
    <3> HIDE DEF id, t
    <3>4. QED
      BY <3>1, <3>3 DEF SomePurchase
  <2>5. CASE FillsRecorded
    BY <2>5 DEF FillsRecorded, Remainder, Idles, orders
  <2>6. ASSUME NEW c \in cancels, CancelArrives(c) PROVE Idles
    BY <2>6 DEF CancelArrives, Drop, Idles
  <2>7. ASSUME NEW t \in WakeTimes, WakeUp(t) PROVE Idles
    BY <2>7 DEF WakeUp, Idles, orders, records
  <2>8. QED
    BY <1>4, <2>1, <2>2, <2>3, <2>4, <2>5, <2>6, <2>7 DEF ScheduledActs
<1>5. CASE Finish
  BY <1>5 DEF Finish, Idles, engine, orders, records
<1>6. QED
  BY <1>1, <1>2, <1>3, <1>4, <1>5 DEF EngineNext

\* What an order that is filled buys is a purchase of the ledger.
LEMMA PurchasesAreTheLedgers ==
    ASSUME OrdersInv, NEW id \in 1 .. placed, NEW price \in Price, NEW qty \in Nat \ {0}, NEW fee \in Nat,
           Purchases(id, price, qty, fee)
    PROVE  LET m == order[id].market
               side == order[id].side
           IN  /\ m \in Market /\ side \in Side /\ order[id].price \in Int
               /\ Buy(m, side, price, qty, fee) /\ LedgerStep /\ LedgerNext
               /\ cash' + fees' >= cash + fees - price * qty
               /\ cash' \in Int /\ fees' \in Int /\ cash \in Int /\ fees \in Int
               /\ bought' = [bought EXCEPT ![m][side] = @ + qty]
<1> DEFINE m == order[id].market
           side == order[id].side
<1>1. m \in Market /\ side \in Side /\ order[id].price \in Quote
  BY DEF OrdersInv, EngineTypeOK, AnOrder
<1>2. order[id].price \in Int
  BY <1>1, OrderBookAssumption
<1>3. Buy(m, side, price, qty, fee)
  BY DEF Purchases
<1> HIDE DEF m, side
<1>4. /\ LedgerNext
      /\ cash' + fees' >= cash + fees - price * qty
      /\ cash' \in Int /\ fees' \in Int /\ cash \in Int /\ fees \in Int
      /\ bought' = [bought EXCEPT ![m][side] = @ + qty]
  <2>1. LedgerInv
    BY DEF OrdersInv
  <2>2. QED
    BY <1>1, <1>3, <2>1, Purchase
<1>5. bought'[m][side] - bought[m][side] = qty
  <2>1. bought \in [Market -> [Side -> Nat]]
    BY DEF OrdersInv, EngineTypeOK, LedgerTypeOK
  <2>2. bought'[m][side] = bought[m][side] + qty /\ bought[m][side] \in Nat
    BY <1>1, <1>4, <2>1
  <2>3. QED
    BY <2>2
<1>6. fees' - fees = fee
  BY <1>3, <1>4 DEF Buy
<1>7. LedgerStep
  BY <1>1, <1>3, <1>5, <1>6 DEF LedgerStep
<1>8. QED
  BY <1>1, <1>2, <1>3, <1>4, <1>7 DEF m, side

LEMMA StepsAreTheLedgers ==
    ASSUME OrdersInv, [EngineNext]_engine
    PROVE  [LedgerStep]_ledger /\ [LedgerNext]_ledger
<1>1. CASE \E o \in Orders : Submit(o)
  BY <1>1 DEF Submit
<1>2. CASE SomePurchase
  BY <1>2, PurchasesAreTheLedgers DEF SomePurchase
<1>3. CASE Idles
  BY <1>3 DEF Idles, LedgerStep, LedgerNext
<1>4. QED
  BY <1>1, <1>2, <1>3, StepKinds

(***************************************************************************)
(* Seen from the account, the engine is a ledger: it is only ever touched  *)
(* by Portfolio.buy and Portfolio.settle, with quantities, prices and fees *)
(* a ledger takes and in markets that are not settled.                     *)
(***************************************************************************)
THEOREM EngineImplementsLedger == EngineSpec => ImplementsLedger
<1>1. EngineInit => LedgerInit
  BY DEF EngineInit
<1>2. OrdersInv /\ [EngineNext]_engine => [LedgerStep]_ledger
  BY StepsAreTheLedgers
<1>3. QED
  BY <1>1, <1>2, OrdersInvariance, PTL DEF EngineSpec, ImplementsLedger

(***************************************************************************)
(* So everything that was proved of a ledger holds of an account that is   *)
(* traded: positions, costs, cash and realised profit balance, and the     *)
(* cash can be recomputed from the fills, whatever was ordered and matched.*)
(***************************************************************************)
THEOREM EngineAccountIsSound == EngineSpec => LedgerSpec /\ [](LedgerBalances /\ LedgerRecomputed)
<1>1. EngineInit => LedgerInit
  BY DEF EngineInit
<1>2. OrdersInv /\ [EngineNext]_engine => [LedgerNext]_ledger
  BY StepsAreTheLedgers
<1>3. EngineSpec => LedgerSpec
  BY <1>1, <1>2, OrdersInvariance, PTL DEF EngineSpec, LedgerSpec
<1>4. QED
  BY <1>3, LedgerStaysBalanced, LedgerIsRecomputable, PTL

\* The records of what was filled of a side, and their sum.
Fills(m, side) ==
    [id \in 1 .. placed |-> IF order[id].market = m /\ order[id].side = side THEN filled[id] ELSE 0]

LEMMA BoughtStarts == EngineInit => BoughtSound
<1> SUFFICES ASSUME EngineInit, NEW m \in Market, NEW side \in Side
             PROVE  bought[m][side] = FilledOf(m, side)
  BY DEF BoughtSound
<1>1. bought[m][side] = 0
  BY DEF EngineInit, LedgerInit
<1>2. placed = 0
  BY DEF EngineInit
<1>3. FilledOf(m, side) = 0
  BY <1>2, TotalOfNone DEF FilledOf
<1>4. QED
  BY <1>1, <1>3

LEMMA FillsType ==
    ASSUME OrdersInv, NEW m, NEW side
    PROVE  /\ placed \in Nat /\ Fills(m, side) \in [1 .. placed -> Int]
           /\ FilledOf(m, side) = Total(Fills(m, side), placed)
<1>1. placed \in Nat /\ filled \in [1 .. placed -> Nat]
  BY EngineAssumption DEF OrdersInv, EngineTypeOK
<1>2. QED
  BY <1>1 DEF Fills, FilledOf

LEMMA BoughtSteps == OrdersInv /\ BoughtSound /\ [EngineNext]_engine => BoughtSound'
<1> SUFFICES ASSUME OrdersInv, BoughtSound, [EngineNext]_engine,
                    NEW m \in Market, NEW side \in Side
             PROVE  bought'[m][side] = FilledOf(m, side)'
  BY DEF BoughtSound
<1>1. /\ placed \in Nat /\ Fills(m, side) \in [1 .. placed -> Int]
      /\ bought[m][side] = Total(Fills(m, side), placed)
      /\ FilledOf(m, side)' = Total(Fills(m, side)', placed')
  <2>1. FilledOf(m, side)' = Total(Fills(m, side)', placed')
    BY DEF FilledOf, Fills
  <2>2. QED
    BY <2>1, FillsType DEF BoughtSound
<1>2. ASSUME NEW o \in Orders, Submit(o) PROVE bought'[m][side] = Total(Fills(m, side)', placed')
  <2>1. /\ bought' = bought /\ placed' = placed + 1
        /\ filled' = With(filled, 0) /\ order' = With(order, o)
    BY <1>2 DEF Submit, ledger
  <2>2. OrdersInv'
    BY <1>2, SubmitStep
  <2>3. Fills(m, side)' \in [1 .. placed + 1 -> Int]
    BY <2>1, <2>2 DEF Fills, OrdersInv, EngineTypeOK
  <2>4. Fills(m, side)'[placed + 1] = 0 /\ \A i \in 1 .. placed : Fills(m, side)'[i] = Fills(m, side)[i]
    BY <1>1, <2>1 DEF Fills, With
  <2> DEFINE f == Fills(m, side)  g == Fills(m, side)'
  <2> HIDE DEF f, g
  <2>5. f \in [1 .. placed -> Int] /\ g \in [1 .. placed + 1 -> Int]
        /\ g[placed + 1] = 0 /\ \A i \in 1 .. placed : g[i] = f[i]
    BY <1>1, <2>3, <2>4 DEF f, g
  <2>6. Total(g, placed + 1) = Total(f, placed)
    BY <1>1, <2>5, TotalWith
  <2>7. QED
    BY <1>1, <2>1, <2>6 DEF f, g
<1>3. CASE SomePurchase
  <2>1. PICK id \in 1 .. placed, price \in Price, qty \in Nat \ {0}, fee \in Nat : Purchases(id, price, qty, fee)
    BY <1>3 DEF SomePurchase
  <2> DEFINE mine == order[id].market = m /\ order[id].side = side
             f == Fills(m, side)
             v == f[id] + (IF mine THEN qty ELSE 0)
  <2>2. /\ filled' = [filled EXCEPT ![id] = @ + qty] /\ placed' = placed /\ order' = order
        /\ bought' = [bought EXCEPT ![order[id].market][order[id].side] = @ + qty]
    BY <2>1, PurchasesAreTheLedgers DEF Purchases
  <2>3. bought'[m][side] = bought[m][side] + (IF mine THEN qty ELSE 0)
    <3>1. bought \in [Market -> [Side -> Nat]]
      BY DEF OrdersInv, EngineTypeOK, LedgerTypeOK
    <3>2. order[id].market \in Market /\ order[id].side \in Side
      BY DEF OrdersInv, EngineTypeOK, AnOrder
    <3>3. QED
      BY <2>2, <3>1, <3>2
  <2>4. filled \in [1 .. placed -> Nat]
    BY DEF OrdersInv, EngineTypeOK
  <2>5. Fills(m, side)' = [f EXCEPT ![id] = v]
    <3>1. ASSUME NEW k \in 1 .. placed PROVE Fills(m, side)'[k] = [f EXCEPT ![id] = v][k]
      <4>1. CASE k = id
        BY <2>2, <2>4, <4>1 DEF Fills
      <4>2. CASE k # id
        BY <2>2, <2>4, <4>2 DEF Fills
      <4>3. QED
        BY <4>1, <4>2
    <3>2. QED
      BY <2>2, <3>1 DEF Fills
  <2>6. v \in Int /\ f[id] \in Int /\ f \in [1 .. placed -> Int]
    BY <1>1
  <2> HIDE DEF f, v
  <2>7. Total([f EXCEPT ![id] = v], placed) = Total(f, placed) - f[id] + v
    BY <1>1, <2>6, TotalUpdate
  <2>8. Total(f, placed) \in Int
    BY <1>1, <2>6, TotalType
  <2>9. bought[m][side] = Total(f, placed)
    BY <1>1 DEF f
  <2>10. QED
    BY <1>1, <2>2, <2>3, <2>5, <2>6, <2>7, <2>8, <2>9 DEF v
<1>4. CASE Idles
  <2>1. bought' = bought
    BY <1>4 DEF Idles, ledger, Settle
  <2>2. QED
    BY <1>1, <1>4, <2>1 DEF Idles, Fills
<1>5. QED
  BY <1>1, <1>2, <1>3, <1>4, StepKinds

(***************************************************************************)
(* The records, the list of resting orders, what is reserved for them and  *)
(* the ledger tell one story, however orders were taken, matched, crossed, *)
(* cancelled, closed or settled.                                           *)
(***************************************************************************)
THEOREM RecordsAlwaysAgree == EngineSpec => []RecordsAgree
<1>1. OrdersInv /\ BoughtSound => RecordsAgree
  <2> SUFFICES ASSUME OrdersInv, BoughtSound PROVE RecordsAgree
    OBVIOUS
  <2>1. ASSUME NEW id \in 1 .. placed, stage # "filling"
        PROVE  StatusSound(id) /\ (id \in resting => RestingSound(id))
    BY <2>1 DEF OrdersInv, RecordsSound, Busy
  <2>2. QED
    BY <2>1 DEF RecordsAgree, StatusSound, RestingSound, BoughtSound, OrdersInv, RecordsSound
<1>2. QED
  BY <1>1, BoughtStarts, BoughtSteps, OrdersInvariance, PTL DEF EngineSpec

----------------------------------------------------------------------------
(* Cash covers what rests and what is being taken. *)

LEMMA ReservedType ==
    ASSUME OrdersInv
    PROVE  /\ placed \in Nat /\ reserved \in [1 .. placed -> Nat]
           /\ AllReserved \in Nat /\ Committed \in Int
           /\ cash \in Int /\ fees \in Nat
<1>1. placed \in Nat /\ reserved \in [1 .. placed -> Nat] /\ filled \in [1 .. placed -> Nat]
      /\ order \in [1 .. placed -> AnOrder] /\ cash \in Int /\ fees \in Nat
  BY EngineAssumption DEF OrdersInv, EngineTypeOK, LedgerTypeOK
<1>2. AllReserved \in Nat
  BY <1>1, TotalOfNaturals DEF AllReserved
<1>3. Committed \in Int
  <2>1. CASE stage = "filling"
    <3>1. taking.id \in 1 .. placed
      BY <2>1 DEF OrdersInv, TakingSound, Submitted
    <3>2. order[taking.id].price \in Quote /\ order[taking.id].qty \in Int /\ filled[taking.id] \in Nat
      BY <1>1, <3>1 DEF AnOrder
    <3>3. order[taking.id].price \in Int
      BY <3>2, OrderBookAssumption
    <3>4. QED
      BY <2>1, <3>2, <3>3 DEF Committed
  <2>2. QED
    BY <2>1 DEF Committed
<1>4. QED
  BY <1>1, <1>2, <1>3

LEMMA ReservedTypeNext ==
    ASSUME OrdersInv'
    PROVE  AllReserved' \in Nat /\ cash' \in Int /\ fees' \in Nat
<1>1. placed' \in Nat /\ reserved' \in [1 .. placed' -> Nat] /\ cash' \in Int /\ fees' \in Nat
  BY EngineAssumption DEF OrdersInv, EngineTypeOK, LedgerTypeOK
<1>2. Total(reserved', placed') \in Nat
  BY <1>1, TotalOfNaturals
<1>3. QED
  BY <1>1, <1>2 DEF AllReserved

\* What one order reserves is all that changes.
LEMMA ReservedUpdate ==
    ASSUME OrdersInv, NEW id \in 1 .. placed, NEW v \in Int,
           reserved' = [reserved EXCEPT ![id] = v], placed' = placed
    PROVE  AllReserved' = AllReserved - reserved[id] + v
<1>1. placed \in Nat /\ reserved \in [1 .. placed -> Int]
  BY ReservedType
<1>2. Total([reserved EXCEPT ![id] = v], placed) = Total(reserved, placed) - reserved[id] + v
  BY <1>1, TotalUpdate
<1>3. QED
  BY <1>2 DEF AllReserved

\* Nothing about money changes.
LEMMA CoveredKept ==
    ASSUME Covered, UNCHANGED <<cash, fees, placed, reserved>>, stage # "filling", stage' # "filling"
    PROVE  Covered'
  BY DEF Covered, AllReserved, Committed

\* Orders are dropped and the account is paid.
LEMMA CoveredAfterDrop ==
    ASSUME OrdersInv, OrdersInv', Covered, NEW ids, Drop(ids), placed' = placed,
           NEW gain \in Nat, cash' = cash + gain, fees' = fees,
           stage # "filling", stage' # "filling"
    PROVE  Covered'
<1>1. /\ placed \in Nat /\ reserved \in [1 .. placed -> Nat] /\ cash \in Int /\ fees \in Nat
      /\ AllReserved \in Nat /\ AllReserved' \in Nat /\ cash' \in Int
  BY ReservedType, ReservedTypeNext
<1>2. reserved' = [id \in 1 .. placed |-> IF id \in ids THEN 0 ELSE reserved[id]]
  BY DEF Drop
<1>3. \A i \in 1 .. placed : reserved[i] \in Int /\ reserved'[i] \in Int /\ reserved'[i] <= reserved[i]
  BY <1>1, <1>2
<1>4. Total(reserved', placed) <= Total(reserved, placed)
  BY <1>1, <1>3, TotalOfSmallerTerms
<1>5. AllReserved' <= AllReserved
  BY <1>4 DEF AllReserved
<1>6. cash + fees >= AllReserved /\ Committed' = 0
  <2>1. Committed = 0 /\ Committed' = 0
    BY DEF Committed
  <2>2. QED
    BY <1>1, <2>1 DEF Covered
<1>a. /\ cash \in Int /\ cash' \in Int /\ fees \in Int
      /\ AllReserved \in Int /\ AllReserved' \in Int
  BY <1>1
<1>7. cash' + fees' >= AllReserved' + 0
  <2>1. (cash + gain) + fees >= AllReserved
    BY <1>a, <1>6
  <2> DEFINE later == AllReserved'
  <2>2. later \in Int /\ later <= AllReserved
    BY <1>a, <1>5
  <2> HIDE DEF later
  <2>3. (cash + gain) + fees >= later + 0
    BY <1>a, <2>1, <2>2
  <2>4. QED
    BY <2>3 DEF later
<1>8. QED
  BY <1>6, <1>7 DEF Covered

\* A resting order is filled: what it reserved pays for it.
LEMMA CoveredAfterMaker ==
    ASSUME OrdersInv, OrdersInv', Covered, NEW id \in resting, NEW q \in Queue, q.left <= queue[id].left,
           MakerFill(id, q), UNCHANGED <<placed, order>>, stage # "filling", stage' # "filling"
    PROVE  Covered'
<1> DEFINE o == order[id]
           got == queue[id].left - q.left
<1>1. /\ id \in 1 .. placed /\ o.price \in Price /\ o.price \in Nat /\ o.price <= PriceScale
      /\ queue[id].left \in Nat /\ reserved[id] = o.price * queue[id].left
      /\ o.market \in Market /\ o.side \in Side
  BY RestingFacts
<1>2. got \in Nat /\ q.left \in Nat /\ o.price * q.left \in Nat /\ o.price * got \in Nat
      /\ o.price * queue[id].left = o.price * q.left + o.price * got
  <2>1. q.left \in Nat /\ got \in Nat
    BY <1>1 DEF Queue
  <2>2. QED
    BY <1>1, <2>1
<1>3. /\ reserved' = [reserved EXCEPT ![id] = o.price * q.left]
      /\ \/ got = 0 /\ UNCHANGED ledger
         \/ /\ got > 0
            /\ Buy(o.market, o.side, o.price, got, MakerFee(o.price, got))
  BY DEF MakerFill
<1>4. /\ cash + fees \in Int /\ cash' + fees' \in Int /\ AllReserved \in Nat /\ AllReserved' \in Nat
      /\ cash \in Int /\ fees \in Int
  BY ReservedType, ReservedTypeNext
<1>5. AllReserved' = AllReserved - reserved[id] + o.price * q.left
  <2>1. o.price * q.left \in Int
    BY <1>2
  <2> DEFINE v == o.price * q.left
  <2> HIDE DEF v
  <2>2. v \in Int /\ reserved' = [reserved EXCEPT ![id] = v] /\ placed' = placed
    BY <1>3, <2>1 DEF v
  <2>3. AllReserved' = AllReserved - reserved[id] + v
    BY <1>1, <2>2, ReservedUpdate
  <2>4. QED
    BY <2>3 DEF v
<1>6. AllReserved' = AllReserved - o.price * got
  BY <1>1, <1>2, <1>4, <1>5
<1>7. cash' + fees' >= cash + fees - o.price * got
  <2>1. CASE got = 0
    <3>1. cash' = cash /\ fees' = fees
      BY <1>3, <2>1 DEF ledger
    <3>2. o.price * got = 0
      BY <1>1, <2>1
    <3>3. QED
      BY <1>4, <3>1, <3>2
  <2>2. CASE got > 0
    <3>1. Buy(o.market, o.side, o.price, got, MakerFee(o.price, got))
      BY <1>3, <2>2
    <3>2. MakerFee(o.price, got) \in Nat /\ got \in Nat \ {0}
      BY <1>1, <1>2, <2>2, MakerFeeType
    <3> HIDE DEF o, got
    <3>3. LedgerInv
      BY DEF OrdersInv
    <3>4. QED
      BY <1>1, <3>1, <3>2, <3>3, Purchase
  <2>3. QED
    BY <1>2, <2>1, <2>2
<1>8. cash + fees >= AllReserved /\ Committed' = 0
  <2>1. Committed = 0 /\ Committed' = 0
    BY DEF Committed
  <2>2. QED
    BY <1>4, <2>1 DEF Covered
<1> HIDE DEF o, got
<1>9. QED
  BY <1>2, <1>4, <1>6, <1>7, <1>8 DEF Covered

\* What is left of an order is reserved, or nothing is.
LEMMA RemainderReserves ==
    ASSUME OrdersInv, NEW id \in 1 .. placed, NEW b, Remainder(id, b), placed' = placed,
           reserved[id] = 0, order[id].price \in Nat, order[id].qty - filled[id] \in Nat
    PROVE  AllReserved' <= AllReserved + order[id].price * (order[id].qty - filled[id])
<1> DEFINE left == order[id].qty - filled[id]
           v == IF left > 0 /\ order[id].tif # "ioc" THEN order[id].price * left ELSE 0
<1>1. order[id].price * left \in Nat
  OBVIOUS
<1>2. reserved' = [reserved EXCEPT ![id] = v]
  BY DEF Remainder
<1>3. v \in Int /\ v <= order[id].price * left
  <2> DEFINE x == order[id].price * left
  <2> HIDE DEF x, left
  <2>1. x \in Nat
    BY <1>1 DEF x
  <2>2. QED
    BY <2>1 DEF x
<1> HIDE DEF v
<1>4. AllReserved' = AllReserved - reserved[id] + v
  BY <1>2, <1>3, ReservedUpdate
<1>5. AllReserved \in Nat
  BY ReservedType
<1>6. QED
  BY <1>1, <1>3, <1>4, <1>5

LEMMA CoveredAfterSettle ==
    ASSUME OrdersInv, OrdersInv', Covered, NEW m \in Market, NEW value \in Value, SettleMarket(m, value)
    PROVE  Covered'
<1> DEFINE gain == Payoff(held[m], value)
<1>1. /\ held[m].qty["YES"] \in Nat /\ held[m].qty["NO"] \in Nat
      /\ value \in Nat /\ PriceScale - value \in Nat
  <2>1. held[m] \in Holding
    BY DEF OrdersInv, EngineTypeOK, LedgerTypeOK
  <2>2. PriceScale \in Nat
    BY OrderBookAssumption
  <2>3. QED
    BY <2>1, <2>2 DEF Holding, Side, Value
<1>2. gain \in Nat
  BY <1>1 DEF Payoff
<1> HIDE DEF gain
<1>3. /\ Drop(RestingIn(m)) /\ cash' = cash + gain /\ fees' = fees /\ placed' = placed
      /\ stage # "filling" /\ stage' # "filling"
  BY DEF SettleMarket, Settle, FeedEvent, orders, gain
<1>4. QED
  BY <1>2, <1>3, CoveredAfterDrop

\* The reservation takes over what the order could still cost.
LEMMA CoveredAfterRest ==
    ASSUME OrdersInv, OrdersInv', Covered, NEW id \in 1 .. placed, Rest(id)
    PROVE  Covered'
<1> DEFINE o == order[id]
           rest == o.price * (o.qty - filled[id])
<1>1. /\ Arriving(id) /\ Accepted(id) /\ stage' = "between" /\ Remainder(id, book[o.market])
      /\ UNCHANGED <<ledger, orders>>
  BY DEF Rest
<1>2. filled[id] = 0 /\ reserved[id] = 0
  BY <1>1, ArrivingFacts
<1>3. o.qty \in Nat /\ o.price \in Nat /\ cash - AllReserved >= o.price * o.qty
  BY <1>1, AcceptedFacts
<1>4. rest = o.price * o.qty /\ rest \in Nat /\ o.qty - filled[id] \in Nat
  <2>1. o.qty - filled[id] = o.qty
    BY <1>2, <1>3
  <2>2. QED
    BY <1>3, <2>1
<1>5. AllReserved' <= AllReserved + rest
  BY <1>1, <1>2, <1>3, <1>4, RemainderReserves DEF orders
<1>6. /\ AllReserved \in Nat /\ cash \in Int /\ fees \in Nat /\ Committed' = 0
      /\ cash' = cash /\ fees' = fees /\ AllReserved' \in Nat
  BY <1>1, ReservedType, ReservedTypeNext DEF Committed, ledger
<1> DEFINE later == AllReserved'
<1>7. later \in Nat /\ later <= AllReserved + rest
  BY <1>5, <1>6
<1> HIDE DEF later, rest
<1>8. cash + fees >= later + 0
  BY <1>3, <1>4, <1>6, <1>7
<1>9. QED
  BY <1>6, <1>8 DEF Covered, later

\* The check of the buying power is what covers an order that takes.
LEMMA CoveredAfterTake ==
    ASSUME OrdersInv, Covered, NEW id \in 1 .. placed, Take(id)
    PROVE  Covered'
<1> DEFINE o == order[id]
<1>1. /\ Arriving(id) /\ Accepted(id) /\ stage' = "filling" /\ taking'.id = id
      /\ UNCHANGED <<ledger, orders, records>>
  BY DEF Take
<1>2. filled[id] = 0
  BY <1>1, ArrivingFacts
<1>3. o.qty \in Nat /\ o.price \in Nat /\ cash - AllReserved >= o.price * o.qty
  BY <1>1, AcceptedFacts
<1>4. Committed' = o.price * o.qty
  <2>1. o.qty - filled[id] = o.qty
    BY <1>2, <1>3
  <2>2. QED
    BY <1>1, <2>1 DEF Committed, orders, records
<1>5. AllReserved \in Nat /\ cash \in Int /\ fees \in Nat /\ o.price * o.qty \in Nat
  BY <1>3, ReservedType
<1>6. cash + fees >= AllReserved + o.price * o.qty
  BY <1>3, <1>5
<1>7. QED
  BY <1>1, <1>4, <1>6 DEF Covered, AllReserved, ledger, orders, records

\* A fill costs no more than it takes off what the order may still cost.
LEMMA CoveredAfterRecord ==
    ASSUME OrdersInv, OrdersInv', Covered, NEW ask \in Tick, RecordFill(ask)
    PROVE  Covered'
<1> DEFINE id == taking.id
           o == order[id]
           t == taking.taken[ask]
           paid == ask + Slippage
<1>1. /\ stage = "filling" /\ stage' = stage /\ id \in 1 .. placed
      /\ o.market \in Market /\ o.side \in Side
      /\ o.price \in Nat /\ o.qty \in Int /\ filled[id] \in Nat
      /\ paid \in Price /\ paid \in Nat /\ paid <= o.price
      /\ t \in Nat \ {0} /\ FeeShare(ask) \in Nat
      /\ taking' = [taking EXCEPT !.level = ask + 1, !.fee = @ - FeeShare(ask)]
      /\ Buy(o.market, o.side, paid, t, FeeShare(ask))
  BY FillFacts
<1>2. taking'.id = id
  BY <1>1 DEF OrdersInv, TakingSound, Taking
<1>3. /\ filled' = [filled EXCEPT ![id] = @ + t]
      /\ placed' = placed /\ order' = order /\ reserved' = reserved
  BY DEF RecordFill, orders
<1>4. filled'[id] = filled[id] + t
  BY <1>1, <1>3 DEF OrdersInv, EngineTypeOK
<1>5. Committed = o.price * (o.qty - filled[id]) /\ Committed' = o.price * (o.qty - filled'[id])
  BY <1>1, <1>2, <1>3 DEF Committed
<1>6. AllReserved' = AllReserved
  BY <1>3 DEF AllReserved
<1>7. AllReserved \in Nat /\ cash \in Int /\ fees \in Int /\ cash' \in Int /\ fees' \in Int
  BY ReservedType, ReservedTypeNext
<1> HIDE DEF id, o, t, paid
<1>8. cash' + fees' >= cash + fees - paid * t
  <2>1. LedgerInv
    BY DEF OrdersInv
  <2>2. QED
    BY <1>1, <2>1, Purchase
<1> DEFINE money == cash' + fees'
           may == o.price * (o.qty - filled[id])
           cost == o.price * t
<1>9. /\ money \in Int /\ may \in Int /\ cost \in Nat /\ paid * t <= cost /\ paid * t \in Nat
  <2>1. t \in Nat /\ (o.price - paid) \in Nat /\ o.qty - filled[id] \in Int
    BY <1>1
  <2>2. (o.price - paid) * t \in Nat /\ (o.price - paid) * t = o.price * t - paid * t
    BY <1>1, <2>1
  <2>3. QED
    BY <1>1, <1>7, <2>1, <2>2
<1>10. Committed' = may - cost
  <2>1. o.qty - filled'[id] = (o.qty - filled[id]) - t
    BY <1>1, <1>4
  <2>2. o.price * ((o.qty - filled[id]) - t) = o.price * (o.qty - filled[id]) - o.price * t
    BY <1>1
  <2>3. QED
    BY <1>5, <2>1, <2>2
<1>11. cash + fees >= AllReserved + may
  BY <1>5 DEF Covered
<1>12. money >= cash + fees - paid * t
  BY <1>8
<1> HIDE DEF money, may, cost
<1>13. money >= AllReserved + (may - cost)
  <2> DEFINE p == paid * t
  <2>1. p \in Nat /\ p <= cost /\ money >= cash + fees - p
    BY <1>9, <1>12
  <2> HIDE DEF p
  <2>2. QED
    BY <1>7, <1>9, <1>11, <2>1
<1>14. QED
  BY <1>6, <1>10, <1>13 DEF Covered, money

LEMMA CoveredAfterFills ==
    ASSUME OrdersInv, OrdersInv', Covered, FillsRecorded
    PROVE  Covered'
<1> DEFINE id == taking.id
           o == order[id]
           b == AfterTaker(book[o.market], o.side, taking.taken)
           rest == o.price * (o.qty - filled[id])
<1>1. /\ stage = "filling" /\ Unrecorded = {} /\ stage' = "between"
      /\ Remainder(id, b)
      /\ UNCHANGED <<ledger, orders>>
  BY DEF FillsRecorded
<1>2. /\ id \in Submitted /\ taking \in Taking /\ CheckPrice(o.price) /\ o.qty > 0
      /\ filled[id] + LeftToRecord <= o.qty
  BY <1>1 DEF OrdersInv, TakingSound
<1>3. id \in 1 .. placed /\ o.qty \in Int /\ o.price \in Quote /\ filled[id] \in Nat
  BY <1>2 DEF Submitted, OrdersInv, EngineTypeOK, AnOrder
<1>4. o.price \in Nat /\ o.qty - filled[id] \in Nat
  <2>1. o.price \in Int /\ PriceScale \in Int
    BY <1>3, OrderBookAssumption
  <2>2. LeftToRecord \in Nat
    BY <1>2, LeftType
  <2>3. QED
    BY <1>2, <1>3, <2>1, <2>2 DEF CheckPrice
<1>5. reserved[id] = 0
  BY <1>2, <1>3 DEF OrdersInv, RecordsSound, ReservedIsExact, RestingSound, Submitted
<1>6. AllReserved' <= AllReserved + rest
  BY <1>1, <1>3, <1>4, <1>5, RemainderReserves DEF orders
<1>7. /\ AllReserved \in Nat /\ cash \in Int /\ fees \in Nat /\ Committed' = 0 /\ Committed = rest
      /\ cash' = cash /\ fees' = fees /\ AllReserved' \in Nat /\ rest \in Int
  BY <1>1, <1>4, ReservedType, ReservedTypeNext DEF Committed, ledger
<1> DEFINE later == AllReserved'
<1>8. later \in Nat /\ later <= AllReserved + rest
  BY <1>6, <1>7
<1>9. cash + fees >= AllReserved + rest
  BY <1>7 DEF Covered
<1> HIDE DEF later, rest
<1>10. cash + fees >= later + 0
  BY <1>7, <1>8, <1>9
<1>11. QED
  BY <1>7, <1>10 DEF Covered, later

LEMMA CoveredSteps == OrdersInv /\ OrdersInv' /\ Covered /\ [EngineNext]_engine => Covered'
<1> SUFFICES ASSUME OrdersInv, OrdersInv', Covered, [EngineNext]_engine PROVE Covered'
  OBVIOUS
<1>1. CASE UNCHANGED engine
  BY <1>1 DEF engine, loop, ledger, orders, records, work, Covered, AllReserved, Committed
<1>2. CASE StrategyActs
  <2>1. ASSUME NEW o \in Orders, Submit(o) PROVE Covered'
    <3>1. /\ placed' = placed + 1 /\ reserved' = With(reserved, 0) /\ UNCHANGED <<cash, fees>>
          /\ stage = "strategy" /\ stage' = "strategy"
      BY <2>1 DEF Submit, loop, ledger
    <3>2. placed \in Nat /\ reserved \in [1 .. placed -> Nat] /\ 0 \in Nat
      BY ReservedType
    <3>3. /\ reserved' \in [1 .. placed + 1 -> Int] /\ reserved \in [1 .. placed -> Int]
          /\ reserved'[placed + 1] = 0 /\ \A i \in 1 .. placed : reserved'[i] = reserved[i]
      BY <3>1, <3>2 DEF With
    <3> DEFINE g == reserved'
    <3>4. g \in [1 .. placed + 1 -> Int] /\ g[placed + 1] = 0 /\ \A i \in 1 .. placed : g[i] = reserved[i]
      BY <3>3
    <3> HIDE DEF g
    <3>5. Total(g, placed + 1) = Total(reserved, placed)
      BY <3>2, <3>3, <3>4, TotalWith
    <3>6. AllReserved' = AllReserved
      BY <3>1, <3>5 DEF AllReserved, g
    <3>7. QED
      BY <3>1, <3>6 DEF Covered, Committed
  <2>2. ASSUME NEW id \in 1 .. placed, RequestCancel(id) PROVE Covered'
    BY <2>2, CoveredKept DEF RequestCancel, loop, ledger, records
  <2>3. QED
    BY <1>2, <2>1, <2>2 DEF StrategyActs
<1>3. CASE FeedActs
  <2>1. ASSUME NEW t \in 1 .. MaxTime, BatchStarts(t) PROVE Covered'
    BY <2>1, CoveredKept DEF BatchStarts, LoopGoesOn, ledger, orders, records
  <2>2. ASSUME NEW ms \in {{m} : m \in Market} \cup {Market}, ConfirmBooks(ms) PROVE Covered'
    BY <2>2, CoveredKept DEF ConfirmBooks, FeedEvent, ledger, orders, records
  <2>3. ASSUME NEW u \in Updates, UpdateBook(u[1], u[2]) PROVE Covered'
    BY <2>3, CoveredKept DEF UpdateBook, FeedEvent, ledger, orders, records
  <2>4. ASSUME NEW p \in Trades, TradeTick(p[1], p[2]) PROVE Covered'
    BY <2>4, CoveredKept DEF TradeTick, FeedEvent, ledger, orders, records
  <2>5. ASSUME NEW m \in Market, CloseMarket(m) PROVE Covered'
    <3>1. cash' = cash + 0
      BY <2>5, ReservedType DEF CloseMarket, ledger
    <3>2. /\ Drop(RestingIn(m)) /\ fees' = fees /\ placed' = placed
          /\ stage # "filling" /\ stage' # "filling" /\ 0 \in Nat
      BY <2>5 DEF CloseMarket, FeedEvent, orders, ledger
    <3>3. QED
      BY <3>1, <3>2, CoveredAfterDrop
  <2>6. ASSUME NEW s \in Outcomes, SettleMarket(s[1], s[2]) PROVE Covered'
    BY <2>6, FeedTypes, CoveredAfterSettle
  <2>7. ASSUME NEW id \in todo, MatchBook(id) PROVE Covered'
    <3>1. UNCHANGED <<placed, order>> /\ stage # "filling" /\ stage' # "filling"
      BY <2>7 DEF MatchBook, loop, orders
    <3>2. QED
      BY <2>7, <3>1, SnapshotQueue, CoveredAfterMaker
  <2>8. ASSUME NEW id \in todo, MatchPrint(id) PROVE Covered'
    <3>1. UNCHANGED <<placed, order>> /\ stage # "filling" /\ stage' # "filling"
      BY <2>8 DEF MatchPrint, loop, orders
    <3>2. QED
      BY <2>8, <3>1, PrintQueue, CoveredAfterMaker
  <2>9. CASE Matched
    BY <2>9, CoveredKept DEF Matched, ledger, orders, records
  <2>10. CASE BatchEnds
    BY <2>10, CoveredKept DEF BatchEnds, ledger, orders, records
  <2>11. QED
    BY <1>3, <2>1, <2>2, <2>3, <2>4, <2>5, <2>6, <2>7, <2>8, <2>9, <2>10 DEF FeedActs
<1>4. CASE ScheduledActs
  <2>1. ASSUME NEW id \in 1 .. placed, Reject(id) PROVE Covered'
    BY <2>1, CoveredKept DEF Reject, Arriving, LoopGoesOn, ledger, orders
  <2>2. ASSUME NEW id \in 1 .. placed, Rest(id) \/ Take(id) PROVE Covered'
    BY <2>2, CoveredAfterRest, CoveredAfterTake
  <2>3. ASSUME NEW ask \in Tick, RecordFill(ask) PROVE Covered'
    BY <2>3, CoveredAfterRecord
  <2>4. CASE FillsRecorded
    BY <2>4, CoveredAfterFills
  <2>5. ASSUME NEW c \in cancels, CancelArrives(c) PROVE Covered'
    <3>1. cash' = cash + 0
      BY <2>5, ReservedType DEF CancelArrives, ledger
    <3>2. /\ Drop({c[2]} \cap resting) /\ fees' = fees /\ placed' = placed
          /\ stage # "filling" /\ stage' # "filling" /\ 0 \in Nat
      BY <2>5 DEF CancelArrives, LoopGoesOn, ledger
    <3>3. QED
      BY <3>1, <3>2, CoveredAfterDrop
  <2>6. ASSUME NEW t \in WakeTimes, WakeUp(t) PROVE Covered'
    BY <2>6, CoveredKept DEF WakeUp, LoopGoesOn, ledger, orders, records
  <2>7. QED
    BY <1>4, <2>1, <2>2, <2>3, <2>4, <2>5, <2>6 DEF ScheduledActs
<1>5. CASE Finish
  BY <1>5 DEF Finish, engine, loop, ledger, orders, records, work, Covered, AllReserved, Committed
<1>6. QED
  BY <1>1, <1>2, <1>3, <1>4, <1>5 DEF EngineNext

LEMMA CoveredStarts == EngineInit => Covered
<1> SUFFICES ASSUME EngineInit PROVE Covered
  OBVIOUS
<1>1. placed = 0 /\ stage = "strategy" /\ cash = InitialCash /\ fees = 0
  BY DEF EngineInit, LedgerInit
<1>2. AllReserved = 0
  BY <1>1, TotalOfNone DEF AllReserved
<1>3. QED
  BY <1>1, <1>2, PortfolioAssumption DEF Covered, Committed

(***************************************************************************)
(* engine.py: cash is reserved for resting buy orders, so no order can     *)
(* create leverage the account lacks.  The check of the buying power, the  *)
(* reservations and the fills of takers and makers keep in cash, fees      *)
(* aside, what every resting order may still cost.                         *)
(***************************************************************************)
THEOREM NoLeverageEver == EngineSpec => []NoLeverage
<1>1. OrdersInv /\ Covered => NoLeverage
  <2> SUFFICES ASSUME OrdersInv, Covered PROVE NoLeverage
    OBVIOUS
  <2>1. AllReserved \in Nat /\ cash \in Int /\ fees \in Nat /\ Committed \in Int
    BY ReservedType
  <2>2. Committed >= 0
    <3>1. CASE stage = "filling"
      <4> DEFINE o == order[taking.id]
      <4>1. /\ taking.id \in 1 .. placed /\ taking \in Taking /\ CheckPrice(o.price)
            /\ filled[taking.id] + LeftToRecord <= o.qty
        BY <3>1 DEF OrdersInv, TakingSound, Submitted
      <4>2. LeftToRecord \in Nat
        BY <4>1, LeftType
      <4>3. o.qty \in Int /\ o.price \in Quote /\ filled[taking.id] \in Nat
        BY <4>1 DEF OrdersInv, EngineTypeOK, AnOrder
      <4>a. Quote \subseteq Int /\ PriceScale \in Int
        BY OrderBookAssumption
      <4>4. o.price \in Int /\ PriceScale \in Int
        BY <4>3, <4>a
      <4>5. o.price \in Nat /\ o.qty - filled[taking.id] \in Nat
        BY <4>1, <4>2, <4>3, <4>4 DEF CheckPrice
      <4>6. o.price * (o.qty - filled[taking.id]) >= 0
        BY <4>5
      <4>7. QED
        BY <3>1, <4>6 DEF Committed
    <3>2. QED
      BY <3>1 DEF Committed
  <2>3. QED
    BY <2>1, <2>2 DEF Covered, NoLeverage
<1>2. OrdersInv /\ [EngineNext]_engine => OrdersInv'
  BY EngineSteps
<1>3. EngineInit => OrdersInv /\ Covered
  BY EngineStarts, CoveredStarts
<1>4. QED
  BY <1>1, <1>2, <1>3, CoveredSteps, PTL DEF EngineSpec

----------------------------------------------------------------------------
(* What a step may never do. *)

\* A market that is closed stays closed.
LEMMA ClosedStays ==
    ASSUME OrdersInv, [EngineNext]_engine, NEW m \in Market, closed[m] PROVE closed'[m]
<1>1. CASE UNCHANGED engine
  BY <1>1 DEF engine, markets
<1>2. CASE StrategyActs
  BY <1>2 DEF StrategyActs, Submit, RequestCancel, markets
<1>3. CASE FeedActs
  <2>1. closed \in [Market -> BOOLEAN]
    BY DEF OrdersInv, EngineTypeOK
  <2>2. ASSUME NEW k \in Market, closed' = [closed EXCEPT ![k] = TRUE] PROVE closed'[m]
    BY <2>1, <2>2
  <2>3. ASSUME NEW k \in Market, CloseMarket(k) PROVE closed'[m]
    BY <2>2, <2>3 DEF CloseMarket
  <2>4. ASSUME NEW s \in Outcomes, SettleMarket(s[1], s[2]) PROVE closed'[m]
    BY <2>2, <2>4, FeedTypes DEF SettleMarket
  <2>5. CASE \/ \E t \in 1 .. MaxTime : BatchStarts(t)
             \/ \E ms \in {{k} : k \in Market} \cup {Market} : ConfirmBooks(ms)
             \/ \E u \in Updates : UpdateBook(u[1], u[2])
             \/ \E p \in Trades : TradeTick(p[1], p[2])
             \/ \E id \in todo : MatchBook(id)
             \/ \E id \in todo : MatchPrint(id)
             \/ Matched
             \/ BatchEnds
    BY <2>5 DEF BatchStarts, ConfirmBooks, UpdateBook, TradeTick, MatchBook, MatchPrint, Matched,
                BatchEnds, markets
  <2>6. QED
    BY <1>3, <2>3, <2>4, <2>5 DEF FeedActs
<1>4. CASE ScheduledActs
  BY <1>4 DEF ScheduledActs, Reject, Rest, Take, RecordFill, FillsRecorded, CancelArrives, WakeUp, markets
<1>5. CASE Finish
  BY <1>5 DEF Finish, engine, markets
<1>6. QED
  BY <1>1, <1>2, <1>3, <1>4, <1>5 DEF EngineNext

\* What NoLateFill says of a step.
NothingLate ==
    /\ \A m \in Market : closed[m] =>
           closed'[m] /\ bought'[m] = bought[m] /\ RestingIn(m) = {}
    /\ CancelLatency >= SubmitLatency =>
           \A id \in revoked : id \notin resting /\ filled'[id] = filled[id]

LEMMA NothingIsFilledLate == OrdersInv /\ [EngineNext]_engine => NothingLate
<1> SUFFICES ASSUME OrdersInv, [EngineNext]_engine PROVE NothingLate
  OBVIOUS
<1>1. \A m \in Market : closed[m] => RestingIn(m) = {}
  BY DEF OrdersInv, RecordsSound, RestingSound, RestingIn
<1>2. /\ revoked \subseteq 1 .. placed /\ placed \in Nat /\ filled \in [1 .. placed -> Nat]
      /\ bought \in [Market -> [Side -> Nat]] /\ order \in [1 .. placed -> AnOrder]
  BY EngineAssumption DEF OrdersInv, EngineTypeOK, LedgerTypeOK
<1>3. ASSUME CancelLatency >= SubmitLatency, NEW id \in revoked
      PROVE  id \notin resting /\ id \notin Submitted
  BY <1>3 DEF OrdersInv, TimeSound
<1>4. (\A m \in Market : closed[m] => bought'[m] = bought[m])
      /\ (CancelLatency >= SubmitLatency => \A id \in revoked : filled'[id] = filled[id])
  <2>1. CASE \E o \in Orders : Submit(o)
    <3>1. bought' = bought /\ filled' = With(filled, 0)
      BY <2>1 DEF Submit, ledger
    <3>2. \A id \in 1 .. placed : filled'[id] = filled[id]
      BY <1>2, <3>1 DEF With
    <3>3. QED
      BY <1>2, <3>1, <3>2
  <2>2. CASE SomePurchase
    <3>1. PICK id \in 1 .. placed, price \in Price, qty \in Nat \ {0}, fee \in Nat :
              Purchases(id, price, qty, fee)
      BY <2>2 DEF SomePurchase
    <3>2. /\ bought' = [bought EXCEPT ![order[id].market][order[id].side] = @ + qty]
          /\ ~closed[order[id].market]
          /\ filled' = [filled EXCEPT ![id] = @ + qty] /\ id \in resting \cup Submitted
      BY <3>1, PurchasesAreTheLedgers DEF Purchases
    <3>3. ASSUME NEW m \in Market, closed[m] PROVE bought'[m] = bought[m]
      BY <1>2, <3>2, <3>3
    <3>4. ASSUME CancelLatency >= SubmitLatency, NEW k \in revoked PROVE filled'[k] = filled[k]
      BY <1>2, <1>3, <3>2, <3>4
    <3>5. QED
      BY <3>3, <3>4
  <2>3. CASE Idles
    BY <2>3 DEF Idles, ledger, Settle
  <2>4. QED
    BY <2>1, <2>2, <2>3, StepKinds
<1>5. QED
  BY <1>1, <1>3, <1>4, ClosedStays DEF NothingLate

(***************************************************************************)
(* Nothing is filled when it is over: in a closed or settled market        *)
(* nothing rests and nothing is bought any more, and a cancel that arrived *)
(* is final when cancels take at least as long as orders do.               *)
(***************************************************************************)
THEOREM NothingIsEverFilledLate == EngineSpec => NoLateFill
<1>1. NothingLate =>
          /\ \A m \in Market : closed[m] =>
                 closed'[m] /\ bought'[m] = bought[m] /\ RestingIn(m) = {}
          /\ CancelLatency >= SubmitLatency =>
                 \A id \in revoked : id \notin resting /\ filled'[id] = filled[id]
  BY DEF NothingLate
<1>2. QED
  BY <1>1, NothingIsFilledLate, OrdersInvariance, PTL DEF EngineSpec, NoLateFill

\* What InTimeOrder says of a step.
OrderlyTime ==
    /\ now' >= now
    /\ \A id \in Submitted : status'[id] # "submitted" \/ filled'[id] > filled[id] => now' = due[id]

\* No record moves.
LEMMA RecordsStand ==
    ASSUME OrdersInv, now' >= now, \A id \in Submitted : status'[id] = status[id] /\ filled'[id] = filled[id]
    PROVE  OrderlyTime
<1>1. ASSUME NEW id \in Submitted
      PROVE  status'[id] = "submitted" /\ ~(filled'[id] > filled[id])
  <2>1. status[id] = "submitted" /\ filled[id] \in Nat
    BY DEF Submitted, OrdersInv, EngineTypeOK
  <2>2. filled'[id] = filled[id] /\ status'[id] = "submitted"
    BY <2>1
  <2>3. QED
    BY <2>1, <2>2
<1>2. QED
  BY <1>1 DEF OrderlyTime

\* Only the order whose instant it is moves.
LEMMA OneRecordMoves ==
    ASSUME OrdersInv, NEW k \in 1 .. placed, now' >= now, now' = due[k],
           \A id \in Submitted : id # k => status'[id] = status[id] /\ filled'[id] = filled[id]
    PROVE  OrderlyTime
<1>1. ASSUME NEW id \in Submitted, id # k
      PROVE  status'[id] = "submitted" /\ ~(filled'[id] > filled[id])
  <2>1. status[id] = "submitted" /\ filled[id] \in Nat
    BY DEF Submitted, OrdersInv, EngineTypeOK
  <2>2. filled'[id] = filled[id] /\ status'[id] = "submitted"
    BY <1>1, <2>1
  <2>3. QED
    BY <2>1, <2>2
<1>2. QED
  BY <1>1 DEF OrderlyTime

\* What rests has been decided.
LEMMA RestingIsDecided == ASSUME OrdersInv PROVE resting \cap Submitted = {}
  BY DEF OrdersInv, RecordsSound, RestingSound, Submitted

LEMMA TimeIsOrderly == OrdersInv /\ [EngineNext]_engine => OrderlyTime
<1> SUFFICES ASSUME OrdersInv, [EngineNext]_engine PROVE OrderlyTime
  OBVIOUS
<1>0. /\ now \in Nat /\ now >= now
      /\ placed \in Nat /\ status \in [1 .. placed -> Status] /\ filled \in [1 .. placed -> Nat]
      /\ Submitted \subseteq 1 .. placed
  BY EngineAssumption DEF OrdersInv, EngineTypeOK, Submitted
<1>1. ASSUME UNCHANGED <<now, records>> PROVE OrderlyTime
  BY <1>0, <1>1, RecordsStand DEF records
<1>2. ASSUME now' = now, NEW ids \in SUBSET resting, Drop(ids) PROVE OrderlyTime
  <2>1. \A id \in Submitted : status'[id] = status[id] /\ filled'[id] = filled[id]
    BY <1>0, <1>2, RestingIsDecided DEF Drop
  <2>2. QED
    BY <1>0, <1>2, <2>1, RecordsStand
<1>3. ASSUME now' = now, NEW id \in resting, NEW q, MakerFill(id, q) PROVE OrderlyTime
  <2>1. \A k \in Submitted : status'[k] = status[k] /\ filled'[k] = filled[k]
    BY <1>0, <1>3, RestingIsDecided DEF MakerFill
  <2>2. QED
    BY <1>0, <1>3, <2>1, RecordsStand
<1>4. CASE UNCHANGED engine \/ Finish
  BY <1>1, <1>4 DEF Finish, engine, loop
<1>5. CASE StrategyActs
  <2>1. ASSUME NEW o \in Orders, Submit(o) PROVE OrderlyTime
    <3>1. now' = now /\ \A id \in Submitted : status'[id] = status[id] /\ filled'[id] = filled[id]
      BY <1>0, <2>1 DEF Submit, With, loop
    <3>2. QED
      BY <1>0, <3>1, RecordsStand
  <2>2. ASSUME NEW id \in 1 .. placed, RequestCancel(id) PROVE OrderlyTime
    BY <1>1, <2>2 DEF RequestCancel, loop
  <2>3. QED
    BY <1>5, <2>1, <2>2 DEF StrategyActs
<1>6. CASE FeedActs
  <2>1. ASSUME NEW t \in 1 .. MaxTime, BatchStarts(t) PROVE OrderlyTime
    <3>1. now' >= now /\ UNCHANGED records
      BY <1>0, <2>1 DEF BatchStarts
    <3>2. QED
      BY <3>1, RecordsStand DEF records
  <2>2. CASE \/ \E ms \in {{m} : m \in Market} \cup {Market} : ConfirmBooks(ms)
             \/ \E u \in Updates : UpdateBook(u[1], u[2])
             \/ \E p \in Trades : TradeTick(p[1], p[2])
             \/ Matched
             \/ BatchEnds
    BY <1>1, <2>2 DEF ConfirmBooks, UpdateBook, TradeTick, Matched, BatchEnds, FeedEvent
  <2>3. ASSUME NEW m \in Market, CloseMarket(m) PROVE OrderlyTime
    BY <1>2, <2>3 DEF CloseMarket, FeedEvent, RestingIn
  <2>4. ASSUME NEW s \in Outcomes, SettleMarket(s[1], s[2]) PROVE OrderlyTime
    BY <1>2, <2>4 DEF SettleMarket, FeedEvent, RestingIn
  <2>5. ASSUME NEW id \in todo, MatchBook(id) PROVE OrderlyTime
    <3>1. now' = now
      BY <2>5 DEF MatchBook, loop
    <3>2. QED
      BY <1>3, <2>5, <3>1, SnapshotQueue
  <2>6. ASSUME NEW id \in todo, MatchPrint(id) PROVE OrderlyTime
    <3>1. now' = now
      BY <2>6 DEF MatchPrint, loop
    <3>2. QED
      BY <1>3, <2>6, <3>1, PrintQueue
  <2>7. QED
    BY <1>6, <2>1, <2>2, <2>3, <2>4, <2>5, <2>6 DEF FeedActs
<1>7. CASE ScheduledActs
  <2>1. ASSUME NEW id \in 1 .. placed, Reject(id) \/ Rest(id) \/ Take(id) PROVE OrderlyTime
    <3>1. Arriving(id)
      BY <2>1 DEF Reject, Rest, Take
    <3>2. now' = due[id] /\ now' >= now
      BY <1>0, <3>1, ArrivingFacts
    <3>3. \A k \in Submitted : k # id => status'[k] = status[k] /\ filled'[k] = filled[k]
      BY <1>0, <2>1 DEF Reject, Rest, Take, Remainder, records
    <3>4. QED
      BY <3>2, <3>3, OneRecordMoves
  <2>2. ASSUME \/ \E ask \in Tick : RecordFill(ask)
               \/ FillsRecorded
        PROVE  OrderlyTime
    <3>1. now' = now /\ stage = "filling"
      BY <2>2 DEF RecordFill, FillsRecorded, loop
    <3>2. taking.id \in 1 .. placed /\ now = due[taking.id]
      BY <1>0, <3>1 DEF OrdersInv, TakingSound
    <3>3. \A k \in Submitted : k # taking.id => status'[k] = status[k] /\ filled'[k] = filled[k]
      BY <1>0, <2>2 DEF RecordFill, FillsRecorded, Remainder
    <3>4. QED
      BY <1>0, <3>1, <3>2, <3>3, OneRecordMoves
  <2>3. ASSUME NEW c \in cancels, CancelArrives(c) PROVE OrderlyTime
    <3>1. now' = c[1] /\ now <= c[1] /\ c[1] \in Nat /\ Drop({c[2]} \cap resting)
      BY <2>3 DEF CancelArrives, OrdersInv, TimeSound, EngineTypeOK
    <3>2. now' >= now
      BY <1>0, <3>1
    <3>3. \A id \in Submitted : status'[id] = status[id] /\ filled'[id] = filled[id]
      BY <1>0, <3>1, RestingIsDecided DEF Drop
    <3>4. QED
      BY <3>2, <3>3, RecordsStand
  <2>4. ASSUME NEW t \in WakeTimes, WakeUp(t) PROVE OrderlyTime
    BY <2>4, RecordsStand DEF WakeUp, records
  <2>5. QED
    BY <1>7, <2>1, <2>2, <2>3, <2>4 DEF ScheduledActs
<1>8. QED
  BY <1>4, <1>5, <1>6, <1>7 DEF EngineNext

(***************************************************************************)
(* Events take effect in time order: time never runs backwards, whatever   *)
(* the feed and the schedule hold, and an order is decided and filled as a *)
(* taker at the instant it arrives.                                        *)
(***************************************************************************)
THEOREM EventsAreInTimeOrder == EngineSpec => InTimeOrder
<1>1. OrderlyTime =>
          /\ now' >= now
          /\ \A id \in Submitted : status'[id] # "submitted" \/ filled'[id] > filled[id]
                 => now' = due[id]
  BY DEF OrderlyTime
<1>2. QED
  BY <1>1, TimeIsOrderly, OrdersInvariance, PTL DEF EngineSpec, InTimeOrder

----------------------------------------------------------------------------
(* Our takers and the displayed depth, when fills are recorded at the asks they take. *)

LEMMA DepthAfterTaker ==
    ASSUME Slippage = 0, OrdersInv, DepthSound, FillsRecorded PROVE DepthSound'
<1> DEFINE id == taking.id
           m == order[id].market
           side == order[id].side
           taken == taking.taken
           b == AfterTaker(book[m], side, taken)
<1>1. /\ stage = "filling"
      /\ book' = [book EXCEPT ![m] = b]
      /\ used' = [used EXCEPT ![m] = [c \in Cell |->
             IF c[1] = Opposite(side) THEN @[c] + taken[Complement(c[2])] ELSE @[c]]]
      /\ shown' = shown
  BY DEF FillsRecorded
<1>2. /\ taking \in Taking /\ id \in Submitted /\ book[m] # None
      /\ \A ask \in Tick : taken[ask] <= book[m][<<Opposite(side), Complement(ask)>>]
  BY <1>1 DEF OrdersInv, TakingSound
<1>3. /\ id \in 1 .. placed /\ m \in Market /\ taken \in [Tick -> Nat] /\ book[m] \in Book
      /\ book \in [Market -> Book \cup {None}] /\ used \in [Market -> [Cell -> Nat]]
      /\ side \in Side
  BY <1>2 DEF Submitted, OrdersInv, EngineTypeOK, AnOrder, Taking
<1>4. b \in Book /\ b # None
  <2>1. b \in Book
    BY <1>3, AfterTakerType
  <2>2. QED
    BY <2>1, EngineAssumption
<1>5. ASSUME NEW c \in Cell, c[1] = Opposite(side)
      PROVE  /\ Complement(c[2]) \in Tick /\ taken[Complement(c[2])] \in Nat
             /\ taken[Complement(c[2])] <= book[m][c]
             /\ b[c] = book[m][c] - taken[Complement(c[2])]
  <2>1. c[2] \in Quote /\ CheckPrice(c[2]) /\ c = <<c[1], c[2]>>
    BY DEF Cell, Price
  <2>2. Quote \subseteq Int /\ PriceScale \in Int
    BY OrderBookAssumption
  <2>3. c[2] \in Int /\ PriceScale \in Int
    BY <2>1, <2>2
  <2>4. /\ Complement(c[2]) \in Tick /\ Complement(Complement(c[2])) = c[2]
        /\ Complement(c[2]) - Slippage = Complement(c[2])
    BY <2>1, <2>3 DEF Complement, Tick, CheckPrice
  <2>5. taken[Complement(c[2])] <= book[m][c]
    BY <1>2, <1>5, <2>1, <2>4
  <2>6. b[c] = book[m][c] - taken[Complement(c[2])]
    BY <1>5, <2>4, <2>5 DEF AfterTaker
  <2>7. QED
    BY <1>3, <2>4, <2>5, <2>6
<1>6. ASSUME NEW c \in Cell, c[1] # Opposite(side) PROVE b[c] = book[m][c]
  <2>1. book[m][c] \in Nat
    BY <1>3 DEF Book
  <2>2. QED
    BY <1>6, <2>1 DEF AfterTaker
<1> HIDE DEF b
<1>7. ASSUME NEW k \in Market, NEW c \in Cell
      PROVE  shown'[k][c] = used'[k][c] + (IF book'[k] = None THEN 0 ELSE book'[k][c])
  <2>1. shown[k][c] = used[k][c] + (IF book[k] = None THEN 0 ELSE book[k][c])
    BY DEF DepthSound
  <2>2. CASE k # m
    <3>1. book'[k] = book[k] /\ used'[k] = used[k]
      BY <1>1, <1>3, <2>2
    <3>2. QED
      BY <1>1, <2>1, <3>1
  <2>3. CASE k = m
    <3>1. book'[k] = b /\ shown[k][c] = used[m][c] + book[m][c]
      BY <1>1, <1>2, <1>3, <2>1, <2>3
    <3>2. used'[k][c] = IF c[1] = Opposite(side) THEN used[m][c] + taken[Complement(c[2])] ELSE used[m][c]
      BY <1>1, <1>3, <2>3
    <3>3. used[m][c] \in Nat /\ book[m][c] \in Nat
      BY <1>3 DEF Book
    <3> HIDE DEF m, taken, side
    <3>4. CASE c[1] = Opposite(side)
      <4>1. b[c] = book[m][c] - taken[Complement(c[2])] /\ taken[Complement(c[2])] \in Nat
        BY <1>5, <3>4
      <4>2. QED
        BY <1>1, <1>4, <3>1, <3>2, <3>3, <3>4, <4>1
    <3>5. CASE c[1] # Opposite(side)
      BY <1>1, <1>4, <1>6, <3>1, <3>2, <3>3, <3>5
    <3>6. QED
      BY <3>4, <3>5
  <2>4. QED
    BY <2>2, <2>3
<1>8. QED
  BY <1>7 DEF DepthSound

LEMMA DepthSteps == Slippage = 0 /\ OrdersInv /\ DepthSound /\ [EngineNext]_engine => DepthSound'
<1> SUFFICES ASSUME Slippage = 0, OrdersInv, DepthSound, [EngineNext]_engine PROVE DepthSound'
  OBVIOUS
<1>1. ASSUME UNCHANGED <<book, depth>> PROVE DepthSound'
  BY <1>1 DEF DepthSound, depth
<1>2. CASE UNCHANGED engine \/ Finish
  BY <1>1, <1>2 DEF Finish, engine, markets
<1>3. CASE StrategyActs
  BY <1>1, <1>3 DEF StrategyActs, Submit, RequestCancel, markets
<1>4. CASE FeedActs
  <2>1. ASSUME NEW m \in Market, NEW b \in Book, UpdateBook(m, b) PROVE DepthSound'
    <3>1. /\ book' = [book EXCEPT ![m] = b] /\ shown' = [shown EXCEPT ![m] = b]
          /\ used' = [used EXCEPT ![m] = NoDepth]
      BY <2>1 DEF UpdateBook
    <3>2. /\ book \in [Market -> Book \cup {None}] /\ shown \in [Market -> Book]
          /\ used \in [Market -> [Cell -> Nat]] /\ b # None
      BY EngineAssumption DEF OrdersInv, EngineTypeOK
    <3>3. ASSUME NEW k \in Market, NEW c \in Cell
          PROVE  shown'[k][c] = used'[k][c] + (IF book'[k] = None THEN 0 ELSE book'[k][c])
      <4>1. CASE k = m
        <5>1. shown'[k] = b /\ book'[k] = b /\ used'[k][c] = 0 /\ b[c] \in Nat
          BY <3>1, <3>2, <4>1 DEF NoDepth, Book
        <5>2. QED
          BY <3>2, <5>1
      <4>2. CASE k # m
        BY <3>1, <3>2, <4>2 DEF DepthSound
      <4>3. QED
        BY <4>1, <4>2
    <3>4. QED
      BY <3>3 DEF DepthSound
  <2>2. CASE \/ \E t \in 1 .. MaxTime : BatchStarts(t)
             \/ \E ms \in {{k} : k \in Market} \cup {Market} : ConfirmBooks(ms)
             \/ \E p \in Trades : TradeTick(p[1], p[2])
             \/ \E m \in Market : CloseMarket(m)
             \/ \E s \in Outcomes : SettleMarket(s[1], s[2])
             \/ \E id \in todo : MatchBook(id)
             \/ \E id \in todo : MatchPrint(id)
             \/ Matched
             \/ BatchEnds
    BY <1>1, <2>2 DEF BatchStarts, ConfirmBooks, TradeTick, CloseMarket, SettleMarket, MatchBook,
                      MatchPrint, Matched, BatchEnds, markets
  <2>3. QED
    BY <1>4, <2>1, <2>2, FeedTypes DEF FeedActs
<1>5. CASE ScheduledActs
  <2>1. CASE FillsRecorded
    BY <2>1, DepthAfterTaker
  <2>2. CASE \/ \E id \in 1 .. placed : Reject(id) \/ Rest(id) \/ Take(id)
             \/ \E ask \in Tick : RecordFill(ask)
             \/ \E c \in cancels : CancelArrives(c)
             \/ \E t \in WakeTimes : WakeUp(t)
    BY <1>1, <2>2 DEF Reject, Rest, Take, RecordFill, CancelArrives, WakeUp, markets
  <2>3. QED
    BY <1>5, <2>1, <2>2 DEF ScheduledActs
<1>6. QED
  BY <1>2, <1>3, <1>4, <1>5 DEF EngineNext

(***************************************************************************)
(* fills.py: a second order in the same snapshot cannot re-use what our    *)
(* takers consumed, so together they take no more than was displayed.      *)
(* This is of the default model, which charges no extra slippage: with it  *)
(* the fills are looked up at a level they did not take.                   *)
(***************************************************************************)
THEOREM DepthIsAlwaysConsumed == Slippage = 0 => (EngineSpec => []DepthIsConsumed)
<1> SUFFICES ASSUME Slippage = 0 PROVE EngineSpec => []DepthIsConsumed
  OBVIOUS
<1>1. EngineInit => DepthSound
  <2> SUFFICES ASSUME EngineInit, NEW m \in Market, NEW c \in Cell
               PROVE  shown[m][c] = used[m][c] + (IF book[m] = None THEN 0 ELSE book[m][c])
    BY DEF DepthSound
  <2>1. shown[m][c] = 0 /\ used[m][c] = 0 /\ book[m] = None
    BY DEF EngineInit, NoDepth
  <2>2. QED
    BY <2>1
<1>2. OrdersInv /\ DepthSound /\ [EngineNext]_engine => DepthSound'
  BY DepthSteps
<1>3. OrdersInv /\ DepthSound => DepthIsConsumed
  <2> SUFFICES ASSUME OrdersInv, DepthSound, NEW m \in Market, NEW c \in Cell
               PROVE  used[m][c] <= shown[m][c]
    BY DEF DepthIsConsumed
  <2>1. /\ used \in [Market -> [Cell -> Nat]] /\ book[m] \in Book \cup {None}
    BY DEF OrdersInv, EngineTypeOK
  <2> DEFINE left == IF book[m] = None THEN 0 ELSE book[m][c]
  <2>2. used[m][c] \in Nat /\ left \in Nat
    BY <2>1 DEF Book
  <2>3. shown[m][c] = used[m][c] + left
    BY DEF DepthSound
  <2> HIDE DEF left
  <2>4. QED
    BY <2>2, <2>3
<1>4. QED
  BY <1>1, <1>2, <1>3, OrdersInvariance, PTL DEF EngineSpec

=============================================================================
