--------------------------- MODULE MarketMakerProofs ---------------------------
(***************************************************************************)
(* Theorems of the market maker, for any feed, any fills, any signals and  *)
(* any latencies: what its account may become and how it keeps to its      *)
(* limit although it does not see what it has just sent.                   *)
(***************************************************************************)
EXTENDS MarketMaker, PortfolioProofs

----------------------------------------------------------------------------
(* Lists of what is quoted. *)

\* The sides to quote are listed once each.
LEMMA InOrderLists ==
    ASSUME NEW sides \in SUBSET Side
    PROVE  \E k \in 0 .. 2 :
               /\ DOMAIN InOrder(sides) = 1 .. k /\ Len(InOrder(sides)) = k
               /\ \A i \in 1 .. k : InOrder(sides)[i] \in sides
               /\ \A i, j \in 1 .. k : InOrder(sides)[i] = InOrder(sides)[j] => i = j
               /\ \A s \in sides : \E i \in 1 .. k : InOrder(sides)[i] = s
<1>1. CASE "YES" \in sides /\ "NO" \in sides
  <2>1. InOrder(sides) = <<"YES", "NO">>
    BY <1>1 DEF InOrder
  <2>2. DOMAIN InOrder(sides) = 1 .. 2 /\ Len(InOrder(sides)) = 2
    BY <2>1
  <2>3. InOrder(sides)[1] = "YES" /\ InOrder(sides)[2] = "NO"
    BY <2>1
  <2>4. \A i \in 1 .. 2 : i = 1 \/ i = 2
    OBVIOUS
  <2>5. \A s \in sides : s = "YES" \/ s = "NO"
    BY DEF Side
  <2>6. 1 \in 1 .. 2 /\ 2 \in 1 .. 2 /\ 2 \in 0 .. 2
    OBVIOUS
  <2> HIDE DEF InOrder
  <2>7. QED
    BY <1>1, <2>2, <2>3, <2>4, <2>5, <2>6
<1>2. CASE "YES" \in sides /\ "NO" \notin sides
  <2>1. InOrder(sides) = <<"YES">>
    BY <1>2 DEF InOrder
  <2>2. QED
    BY <1>2, <2>1 DEF Side
<1>3. CASE "YES" \notin sides /\ "NO" \in sides
  <2>1. InOrder(sides) = <<"NO">>
    BY <1>3 DEF InOrder
  <2>2. QED
    BY <1>3, <2>1 DEF Side
<1>4. CASE "YES" \notin sides /\ "NO" \notin sides
  <2>1. InOrder(sides) = <<>>
    BY <1>4 DEF InOrder
  <2>2. QED
    BY <1>4, <2>1 DEF Side
<1>5. QED
  BY <1>1, <1>2, <1>3, <1>4

\* long is the list s of n of T followed by the list r of k of T.
Joined(long, p, s, n, r, k, T) ==
    /\ n \in Nat /\ k \in Nat /\ p = n + k
    /\ s \in [1 .. n -> T] /\ r \in [1 .. k -> T] /\ long = s \o r

\* What is appended comes after what was there.
LEMMA Appending ==
    ASSUME NEW long, NEW p, NEW s, NEW n, NEW r, NEW k, NEW T, Joined(long, p, s, n, r, k, T)
    PROVE  /\ long \in [1 .. p -> T]
           /\ \A i \in 1 .. n : long[i] = s[i]
           /\ \A i \in 1 .. k : long[n + i] = r[i]
<1>1. /\ n \in Nat /\ k \in Nat /\ p = n + k
      /\ s \in [1 .. n -> T] /\ r \in [1 .. k -> T] /\ long = s \o r
  BY DEF Joined
<1>2. s \in Seq(T) /\ r \in Seq(T) /\ Len(s) = n /\ Len(r) = k
  BY <1>1
<1>3. long \in Seq(T) /\ Len(long) = p
  <2>1. s \o r \in Seq(T) /\ Len(s \o r) = Len(s) + Len(r)
    BY <1>2
  <2>2. QED
    BY <1>1, <1>2, <2>1
<1>4. \A i \in 1 .. n : long[i] = s[i]
  BY <1>1, <1>2
<1>5. \A i \in 1 .. k : long[n + i] = r[i]
  BY <1>1, <1>2
<1>6. long \in [1 .. Len(long) -> T]
  BY <1>3
<1>7. QED
  BY <1>3, <1>4, <1>5, <1>6

----------------------------------------------------------------------------
(* Sizes. *)

\* Halving never makes a size larger.
LEMMA HalvedIsLess ==
    ASSUME NEW qty \in Nat, NEW d \in Divisors
    PROVE  Halved(qty, d) \in Nat /\ Halved(qty, d) <= qty
<1>1. d \in Nat /\ d >= 1 /\ Contract \in Nat /\ Contract >= 1
  BY RiskAssumption DEF Divisors
<1> DEFINE e == Contract * d
           k == qty \div e
<1>2. e \in Nat /\ e >= 1 /\ Contract <= e
  BY <1>1
<1> HIDE DEF e
<1>3. k \in Nat /\ e * k <= qty
  BY <1>2
<1> HIDE DEF k
<1>4. Contract * k <= e * k /\ Contract * k \in Nat /\ e * k \in Nat /\ k * Contract = Contract * k
  BY <1>1, <1>2, <1>3
<1>5. Halved(qty, d) = IF d = 1 THEN qty ELSE k * Contract
  BY DEF Halved, e, k
<1>6. QED
  BY <1>3, <1>4, <1>5
\* The first of a set of numbers is one of them.
LEMMA MinIsIn ==
    ASSUME NEW ids, ids \subseteq Nat, ids # {}
    PROVE  Min(ids) \in ids /\ \A i \in ids : Min(ids) <= i
<1>1. \E x \in ids : \A y \in ids : x <= y
  BY LeastExists
<1>2. QED
  BY <1>1 DEF Min

\* What may be held more of a market's side, given in its own direction.
SideNet(h, side) == IF side = "YES" THEN NetYes(h) ELSE -NetYes(h)

LEMMA RoomIsTheRest ==
    ASSUME NEW h \in Holding, NEW side \in Side
    PROVE  /\ SideNet(h, side) \in Int
           /\ Room(h, side) = MaxPosition - SideNet(h, side)
           /\ SideNet(h, Opposite(side)) = -SideNet(h, side)
<1>1. h.qty["YES"] \in Nat /\ h.qty["NO"] \in Nat /\ MaxPosition \in Nat
  BY RiskAssumption DEF Holding, Side
<1>2. side = "YES" \/ side = "NO"
  BY DEF Side
<1>3. QED
  BY <1>1, <1>2 DEF SideNet, NetYes, Room, Opposite

\* What is left of a size never exceeds what the position limit leaves.
LEMMA HeadroomFits ==
    ASSUME NEW positions, NEW m, NEW side \in Side, NEW price, NEW want \in Nat,
           PositionIn(positions, m) \in Holding
    PROVE  /\ Headroom(positions, m, side, price, want) \in Nat
           /\ Headroom(positions, m, side, price, want) > 0 =>
                  Headroom(positions, m, side, price, want) <= Room(PositionIn(positions, m), side)
<1> DEFINE room == Room(PositionIn(positions, m), side)
           most == MaxOf(0, MinOf(want, room))
           fits(d) == (d > 1 => Halved(most, d) >= Contract)
                          /\ FitsAfter(positions, m, side, price, Halved(most, d))
           fitting == {d \in Divisors : fits(d)}
           size == Headroom(positions, m, side, price, want)
<1>1. room \in Int
  <2>1. MaxPosition \in Nat
    BY RiskAssumption
  <2>2. QED
    BY <2>1, RoomIsTheRest
<1> HIDE DEF room
<1>2. most \in Nat /\ (most > 0 => most <= room)
  BY <1>1 DEF MaxOf, MinOf
<1>3. size = IF most = 0 \/ EventOf[m] = None THEN most
             ELSE IF fitting = {} THEN 0 ELSE Halved(most, Min(fitting))
  BY DEF Headroom, room
<1> HIDE DEF most, fits, size
<1>4. fitting # {} => Min(fitting) \in Divisors
  <2>1. fitting \subseteq Nat /\ fitting \subseteq Divisors
    BY DEF Divisors
  <2> HIDE DEF fitting
  <2>2. QED
    BY <2>1, MinIsIn
<1> HIDE DEF fitting
<1>5. fitting # {} => Halved(most, Min(fitting)) \in Nat /\ Halved(most, Min(fitting)) <= most
  BY <1>2, <1>4, HalvedIsLess
<1>6. size \in Nat /\ size <= most
  BY <1>2, <1>3, <1>5
<1>7. size \in Nat /\ (size > 0 => size <= room)
  BY <1>1, <1>2, <1>6
<1>8. QED
  BY <1>7 DEF size, room

\* A quote is of whole contracts and fits the position limit by itself.
LEMMA SizedFits ==
    ASSUME NEW ms, NEW m \in Market, NEW side \in Side, NEW price, NEW size \in Nat,
           held \in [Market -> Holding], Sized(ms, m, side, price, size) # None
    PROVE  /\ Sized(ms, m, side, price, size).price = price
           /\ Sized(ms, m, side, price, size).qty \in Nat \ {0}
           /\ SideNet(held[m], side) + Sized(ms, m, side, price, size).qty <= MaxPosition
<1> DEFINE room == Headroom(Positions(ms \cup {m}), m, side, price, size)
           qty == (room \div Contract) * Contract
<1>1. PositionIn(Positions(ms \cup {m}), m) = held[m]
  BY DEF PositionIn, Positions
<1>2. held[m] \in Holding
  OBVIOUS
<1>3. room \in Nat /\ (room > 0 => room <= Room(held[m], side))
  BY <1>1, <1>2, HeadroomFits
<1>4. Contract \in Nat /\ Contract > 0 /\ MaxPosition \in Nat
  BY RiskAssumption
<1> DEFINE whole == room \div Contract
<1>5. Sized(ms, m, side, price, size) = IF qty = 0 THEN None ELSE [price |-> price, qty |-> qty]
  BY DEF Sized
<1> HIDE DEF room
<1>6. whole \in Nat /\ Contract * whole <= room
  BY <1>3, <1>4
<1> HIDE DEF whole
<1>7. Contract * whole \in Nat /\ whole * Contract = Contract * whole
  BY <1>4, <1>6
<1>8. qty \in Nat /\ qty <= room
  BY <1>3, <1>6, <1>7 DEF whole
<1>9. Sized(ms, m, side, price, size) = [price |-> price, qty |-> qty] /\ qty # 0
  BY <1>5
<1>10. SideNet(held[m], side) \in Int /\ Room(held[m], side) = MaxPosition - SideNet(held[m], side)
  BY <1>2, RoomIsTheRest
<1> HIDE DEF qty
<1>11. SideNet(held[m], side) + qty <= MaxPosition
  BY <1>3, <1>4, <1>8, <1>9, <1>10
<1>12. QED
  BY <1>8, <1>9, <1>11

\* A target can be quoted, fits the limit on each side by itself, and does not cross itself.
TargetSound(target, m) ==
    /\ \A s \in Side : target[s] # None =>
           /\ target[s].price \in 1 .. PriceScale - 1
           /\ target[s].qty \in Nat \ {0}
           /\ SideNet(held[m], s) + target[s].qty <= MaxPosition
    /\ target["YES"] # None /\ target["NO"] # None =>
           target["YES"].price + target["NO"].price < PriceScale

LEMMA TargetIsSound ==
    ASSUME NEW m \in Market, NEW t, NEW ms, NEW signal \in Signals, held \in [Market -> Holding]
    PROVE  TargetSound(Target(m, t, ms, signal), m)
<1> DEFINE q == QuoteAround(signal.gamma, NetYes(held[m]), Fair(m, signal), signal.half,
                            top[m]["YES"], BestAskOf(m))
           Bid == IF q.bid = None THEN None ELSE Sized(ms, m, "YES", q.bid, signal.size)
           Ask == IF q.ask = None THEN None ELSE Sized(ms, m, "NO", PriceScale - q.ask, signal.size)
           target == Target(m, t, ms, signal)
<1>1. signal.size \in Nat
  BY MarketMakerAssumption DEF Signal
<1>2. /\ q.bid # None => q.bid \in 1 .. PriceScale - 1
      /\ q.ask # None => q.ask \in 1 .. PriceScale - 1
      /\ q.bid # None /\ q.ask # None => q.bid < q.ask
  <2> DEFINE b == BidTick(RawBid(signal.gamma, NetYes(held[m]), Fair(m, signal), signal.half), BestAskOf(m))
             a == AskTick(RawAsk(signal.gamma, NetYes(held[m]), Fair(m, signal), signal.half), top[m]["YES"])
             meet == Quotable(b) /\ Quotable(a) /\ b >= a
  <2>1. q = [bid |-> IF Quotable(b) /\ ~meet THEN b ELSE None,
             ask |-> IF Quotable(a) /\ ~meet THEN a ELSE None]
    BY DEF QuoteAround
  <2> HIDE DEF a, b, q
  <2>2. Quotable(a) => a \in 1 .. PriceScale - 1
    BY DEF Quotable
  <2>3. Quotable(b) => b \in 1 .. PriceScale - 1
    BY DEF Quotable
  <2>4. PriceScale \in Nat
    BY OrderBookAssumption
  <2>5. CASE Quotable(a) /\ Quotable(b)
    <3>1. q.bid # None => q.bid = b /\ ~(b >= a)
      BY <2>1, <2>5
    <3>2. q.ask # None => q.ask = a /\ ~(b >= a)
      BY <2>1, <2>5
    <3>3. a \in Int /\ b \in Int
      BY <2>2, <2>3, <2>4, <2>5
    <3>4. QED
      BY <2>2, <2>3, <2>5, <3>1, <3>2, <3>3
  <2>6. CASE ~(Quotable(a) /\ Quotable(b))
    <3>1. q.bid # None => q.bid = b /\ Quotable(b)
      BY <2>1
    <3>2. q.ask # None => q.ask = a /\ Quotable(a)
      BY <2>1
    <3>3. QED
      BY <2>2, <2>3, <2>6, <3>1, <3>2
  <2>7. QED
    BY <2>5, <2>6
<1>3. PriceScale \in Nat /\ "YES" \in Side /\ "NO" \in Side
  BY OrderBookAssumption DEF Side
<1>4. target = IF MayQuote(m, t, signal) THEN [s \in Side |-> IF s = "YES" THEN Bid ELSE Ask] ELSE NoTarget
  BY DEF Target
<1> HIDE DEF q, target
<1>5. Bid # None => /\ q.bid # None /\ Bid.price = q.bid /\ Bid.qty \in Nat \ {0}
                    /\ SideNet(held[m], "YES") + Bid.qty <= MaxPosition
  BY <1>1, <1>3, SizedFits
<1>6. Ask # None => /\ q.ask # None /\ Ask.price = PriceScale - q.ask /\ Ask.qty \in Nat \ {0}
                    /\ SideNet(held[m], "NO") + Ask.qty <= MaxPosition
  BY <1>1, <1>3, SizedFits
<1> HIDE DEF Bid, Ask
<1>7. CASE MayQuote(m, t, signal)
  <2>1. target["YES"] = Bid /\ target["NO"] = Ask /\ \A s \in Side : s = "YES" \/ s = "NO"
    BY <1>3, <1>4, <1>7 DEF Side
  <2>2. q.ask # None => PriceScale - q.ask \in 1 .. PriceScale - 1
    BY <1>2, <1>3
  <2>3. q.bid # None /\ q.ask # None => q.bid + (PriceScale - q.ask) < PriceScale
    BY <1>2, <1>3
  <2>4. \A s \in Side : target[s] # None =>
            /\ target[s].price \in 1 .. PriceScale - 1
            /\ target[s].qty \in Nat \ {0}
            /\ SideNet(held[m], s) + target[s].qty <= MaxPosition
    BY <1>2, <1>5, <1>6, <2>1, <2>2
  <2>5. target["YES"] # None /\ target["NO"] # None =>
            target["YES"].price + target["NO"].price < PriceScale
    BY <1>5, <1>6, <2>1, <2>3
  <2>6. QED
    BY <2>4, <2>5 DEF TargetSound, target
<1>8. CASE ~ MayQuote(m, t, signal)
  <2>1. \A s \in Side : target[s] = None
    BY <1>4, <1>8 DEF NoTarget
  <2>2. QED
    BY <1>3, <2>1 DEF TargetSound, target
<1>9. QED
  BY <1>7, <1>8

LEMMA NoTargetIsSound == ASSUME NEW m PROVE TargetSound(NoTarget, m)
  BY DEF NoTarget, TargetSound, Side

----------------------------------------------------------------------------
(* The state. *)

Quoted == [market : Market, side : Side, price : 1 .. PriceScale - 1]

\* The types; the peak and the books shown are only compared.
MMTypeOK ==
    /\ now \in Nat /\ stage \in {"idle", "batch"} /\ fed \in Nat
    /\ topAt \in [Market -> Nat] /\ shut \in [Market -> BOOLEAN]
    /\ placed \in Nat /\ quote \in [Ids -> Quoted]
    /\ due \in [Ids -> Nat] /\ left \in [Ids -> Nat]
    /\ at \in [Ids -> {"submitted", "resting", "gone"}]
    /\ cancels \subseteq Nat \X Ids
    /\ notices \subseteq Nat \X Market /\ wakes \subseteq Nat \X Market
    /\ crossed \subseteq Ids /\ news \subseteq {"book", "trade"} \X Market
    /\ known \subseteq Market
    /\ busy \in [Market -> [Side -> Nat]]
    /\ lastPlace \in [Market -> [Side -> Nat \cup {None}]]
    /\ lastReact \in [Market -> Nat \cup {None}]
    /\ cancelling \subseteq Ids /\ nextRisk \in Nat /\ killed \in BOOLEAN

\* Nothing scheduled lies in the past.
NothingOverdue ==
    /\ \A id \in Submitted : now <= due[id]
    /\ \A c \in cancels : now <= c[1]
    /\ \A n \in notices : now <= n[1]
    /\ \A w \in wakes : now <= w[1]

\* What is not gone has something left, only resting quotes are crossed and only while a batch
\* is applied, and a settled market is shut.
QuotesSound ==
    /\ \A id \in Ids : at[id] # "gone" => left[id] > 0
    /\ crossed \subseteq Resting
    /\ stage = "idle" => crossed = {}
    /\ \A m \in Market : settled[m] # None => shut[m]

\* Since a side was last quoted it has been busy, and what is still on its way was sent then
\* or before.
SideSound(m, side) ==
    /\ lastPlace[m][side] # None =>
           /\ lastPlace[m][side] <= now
           /\ lastPlace[m][side] + BusyFor <= busy[m][side]
    /\ \A id \in Submitted \cap QuotesOf(m, side) :
           lastPlace[m][side] # None /\ due[id] <= lastPlace[m][side] + SubmitLatency

MakerInv ==
    /\ LedgerInv /\ MMTypeOK /\ NothingOverdue /\ QuotesSound
    /\ \A m \in Market, side \in Side : SideSound(m, side)

\* A side has one quote at most on its way or resting.
OneLive == \A m \in Market, side \in Side : \A a, b \in LiveOf(m, side) : a = b

\* The limit is kept, by what is held and by what each quote may add to it.
WithinLimit ==
    \A m \in Market, side \in Side : ~shut[m] =>
        /\ SideNet(held[m], side) <= MaxPosition
        /\ \A id \in LiveOf(m, side) : SideNet(held[m], side) + left[id] <= MaxPosition

\* The next risk check is never further away than one interval.
RiskIsNear == nextRisk <= now + RiskEvery

\* What is on its way counts too: it may come to rest before anything else happens.
CrossesHandled == \A a, b \in Submitted \cup Resting : Crossing(a, b) => Handled(a, b)

----------------------------------------------------------------------------
(* What on_event does, with the list of sides resolved into the quotes that are new. *)

NewIds == (1 .. placed') \ (1 .. placed)

Reaction(m, t, pulled, target, sides, gone) ==
    /\ TargetSound(target, m)
    /\ sides = {s \in Side : Places(m, s, t, pulled, target[s])}
    /\ gone = pulled \cup {Live(m, s) : s \in {k \in Side : Withdraws(m, k, t, pulled, target[k])}}
    /\ gone \subseteq Resting
    /\ placed' \in Nat /\ placed <= placed'
    /\ quote' \in [1 .. placed' -> Quoted] /\ due' \in [1 .. placed' -> Nat]
    /\ left' \in [1 .. placed' -> Nat] /\ at' \in [1 .. placed' -> {"submitted", "resting", "gone"}]
    /\ \A id \in 1 .. placed : /\ quote'[id] = quote[id] /\ due'[id] = due[id]
                               /\ left'[id] = left[id] /\ at'[id] = at[id]
    /\ \A id \in NewIds :
           /\ quote'[id].market = m /\ quote'[id].side \in sides
           /\ quote'[id].price = target[quote'[id].side].price
           /\ left'[id] = target[quote'[id].side].qty
           /\ due'[id] = t + SubmitLatency /\ at'[id] = "submitted"
    /\ \A i, j \in NewIds : quote'[i].side = quote'[j].side => i = j
    /\ cancels' = cancels \cup {<<t + CancelLatency, id>> : id \in gone}
    /\ cancelling' = cancelling \cup gone
    /\ busy' = [k \in Market |-> [s \in Side |->
           IF TouchedBy(gone, k, s) \/ (k = m /\ s \in sides) THEN t + BusyFor ELSE busy[k][s]]]
    /\ lastPlace' = [lastPlace EXCEPT ![m] = [s \in Side |-> IF s \in sides THEN t ELSE @[s]]]

\* The last of a set of ids is one of them.
LEMMA MaxIsIn ==
    ASSUME NEW n \in Nat, NEW ids \in SUBSET (1 .. n), ids # {}
    PROVE  Max(ids) \in ids
<1> DEFINE rest == {n - i : i \in ids}
<1>1. rest \subseteq Nat /\ rest # {}
  <2>1. \A i \in ids : i \in 1 .. n
    OBVIOUS
  <2>2. \A i \in ids : n - i \in Nat
    <3> SUFFICES ASSUME NEW i \in ids PROVE n - i \in Nat
      OBVIOUS
    <3>1. i \in 1 .. n
      BY <2>1
    <3>2. QED
      BY <3>1
  <2>3. PICK i \in ids : TRUE
    OBVIOUS
  <2>4. QED
    BY <2>2, <2>3
<1>2. \E x \in rest : \A y \in rest : x <= y
  <2> HIDE DEF rest
  <2>1. QED
    BY <1>1, LeastExists
<1>3. PICK i \in ids : \A y \in rest : n - i <= y
  BY <1>2
<1>4. \A j \in ids : n - i <= n - j
  BY <1>3
<1>5. \A j \in ids : i >= j
  <2> SUFFICES ASSUME NEW j \in ids PROVE i >= j
    OBVIOUS
  <2>1. i \in Nat /\ j \in Nat /\ n - i <= n - j
    BY <1>4
  <2>2. QED
    BY <2>1
<1>6. QED
  BY <1>5 DEF Max

LEMMA LiveRests ==
    ASSUME MMTypeOK, NEW m, NEW side, HasLive(m, side)
    PROVE  Live(m, side) \in Resting \cap QuotesOf(m, side)
<1> DEFINE ids == Resting \cap QuotesOf(m, side)
<1>1. ids \in SUBSET (1 .. placed) /\ ids # {} /\ placed \in Nat
  BY DEF ids, Resting, Ids, HasLive, MMTypeOK
<1>2. Live(m, side) = Max(ids)
  BY DEF Live
<1> HIDE DEF ids
<1>3. Live(m, side) \in ids
  BY <1>1, <1>2, MaxIsIn
<1>4. QED
  BY <1>3 DEF ids

LEMMA OnEventReacts ==
    ASSUME MMTypeOK, LedgerTypeOK, NEW m \in Market, NEW t \in Nat, NEW ms, NEW asked,
           OnEvent(m, t, ms, asked)
    PROVE  /\ \E target : \E sides \in SUBSET Side, gone \in SUBSET Resting :
                  /\ Reaction(m, t, Pulled(m, t, ms), target, sides, gone)
                  /\ wakes' = asked \cup NewWakes(m, t, Pulled(m, t, ms), target)
           /\ known' = ms /\ killed' = StoppedAt(t, ms)
           /\ nextRisk' = IF CheckDue(t) THEN t + RiskEvery ELSE nextRisk
<1> DEFINE pulled == Pulled(m, t, ms)
<1>1. PICK signal \in Signals :
          LET target == IF StoppedAt(t, ms) THEN NoTarget ELSE Target(m, t, ms, signal)
          IN  Acts(m, t, ms, asked, pulled, target,
                   InOrder({s \in Side : Places(m, s, t, pulled, target[s])}),
                   pulled \cup {Live(m, s) : s \in
                       {k \in Side : Withdraws(m, k, t, pulled, target[k])}})
  BY DEF OnEvent
<1> DEFINE target == IF StoppedAt(t, ms) THEN NoTarget ELSE Target(m, t, ms, signal)
           sides == {s \in Side : Places(m, s, t, pulled, target[s])}
           new == InOrder(sides)
           gone == pulled \cup {Live(m, s) : s \in {k \in Side : Withdraws(m, k, t, pulled, target[k])}}
<1>0. Acts(m, t, ms, asked, pulled, target, new, gone)
  BY <1>1
<1>2. /\ placed' = placed + Len(new)
      /\ known' = ms
      /\ nextRisk' = IF CheckDue(t) THEN t + RiskEvery ELSE nextRisk
      /\ killed' = StoppedAt(t, ms)
  BY <1>0 DEF Acts
<1>3. /\ quote' = quote \o [i \in DOMAIN new |->
             [market |-> m, side |-> new[i], price |-> target[new[i]].price]]
      /\ left' = left \o [i \in DOMAIN new |-> target[new[i]].qty]
      /\ due' = due \o [i \in DOMAIN new |-> t + SubmitLatency]
      /\ at' = at \o [i \in DOMAIN new |-> "submitted"]
  BY <1>0 DEF Acts
<1>4. /\ cancels' = cancels \cup {<<t + CancelLatency, id>> : id \in gone}
      /\ cancelling' = cancelling \cup gone
      /\ wakes' = asked \cup NewWakes(m, t, pulled, target)
  BY <1>0 DEF Acts
<1>5. /\ busy' = [k \in Market |-> [s \in Side |->
             IF TouchedBy(gone, k, s) \/ (k = m /\ Contains(new, s)) THEN t + BusyFor ELSE busy[k][s]]]
      /\ lastPlace' = [lastPlace EXCEPT ![m] = [s \in Side |-> IF Contains(new, s) THEN t ELSE @[s]]]
  BY <1>0 DEF Acts
<1>6. TargetSound(target, m)
  <2>1. held \in [Market -> Holding]
    BY DEF LedgerTypeOK
  <2>2. QED
    BY <2>1, TargetIsSound, NoTargetIsSound
<1>7. gone \in SUBSET Resting
  <2>1. pulled \subseteq Resting
    BY DEF Pulled
  <2>2. \A s \in Side : Withdraws(m, s, t, pulled, target[s]) => Live(m, s) \in Resting
    BY LiveRests DEF Withdraws
  <2>3. QED
    BY <2>1, <2>2
<1>8. sides \in SUBSET Side
  OBVIOUS
<1>9. \A s \in sides : target[s] # None
  BY DEF Places
<1>a. sides = {s \in Side : Places(m, s, t, pulled, target[s])}
  OBVIOUS
<1>b. gone = pulled \cup {Live(m, s) : s \in {k \in Side : Withdraws(m, k, t, pulled, target[k])}}
  OBVIOUS
<1> HIDE DEF target, sides, gone
<1>10. PICK k \in 0 .. 2 :
               /\ DOMAIN new = 1 .. k /\ Len(new) = k
               /\ \A i \in 1 .. k : new[i] \in sides
               /\ \A i, j \in 1 .. k : new[i] = new[j] => i = j
               /\ \A s \in sides : \E i \in 1 .. k : new[i] = s
  BY <1>8, InOrderLists
<1> HIDE DEF new
<1>11. \A s \in Side : Contains(new, s) <=> s \in sides
  BY <1>10 DEF Contains
<1>12. k \in Nat /\ placed \in Nat /\ placed' = placed + k
  BY <1>2, <1>10 DEF MMTypeOK
<1>13. \A i \in 1 .. k : new[i] \in Side /\ target[new[i]].price \in 1 .. PriceScale - 1
                         /\ target[new[i]].qty \in Nat
  BY <1>6, <1>8, <1>9, <1>10 DEF TargetSound
<1>14. /\ quote' \in [1 .. placed' -> Quoted]
       /\ \A id \in 1 .. placed : quote'[id] = quote[id]
       /\ \A i \in 1 .. k : quote'[placed + i] =
              [market |-> m, side |-> new[i], price |-> target[new[i]].price]
       /\ \A i \in 1 .. k : quote'[placed + i].side = new[i]
  <2> DEFINE more == [i \in 1 .. k |-> [market |-> m, side |-> new[i], price |-> target[new[i]].price]]
  <2>1. /\ more \in [1 .. k -> Quoted]
        /\ \A i \in 1 .. k : /\ more[i] = [market |-> m, side |-> new[i], price |-> target[new[i]].price]
                               /\ more[i].side = new[i]
    BY <1>13 DEF Quoted
  <2>2. quote' = quote \o more
    BY <1>3, <1>10
  <2>3. quote \in [1 .. placed -> Quoted]
    BY DEF MMTypeOK, Ids
  <2> HIDE DEF more
  <2>4. Joined(quote', placed', quote, placed, more, k, Quoted)
    BY <1>12, <2>1, <2>2, <2>3 DEF Joined
  <2>5. QED
    BY <2>1, <2>4, Appending
<1>15. /\ left' \in [1 .. placed' -> Nat]
       /\ \A id \in 1 .. placed : left'[id] = left[id]
       /\ \A i \in 1 .. k : left'[placed + i] = target[new[i]].qty
  <2> DEFINE more == [i \in 1 .. k |-> target[new[i]].qty]
  <2>1. more \in [1 .. k -> Nat] /\ \A i \in 1 .. k : more[i] = target[new[i]].qty
    BY <1>13
  <2>2. left' = left \o more
    BY <1>3, <1>10
  <2>3. left \in [1 .. placed -> Nat]
    BY DEF MMTypeOK, Ids
  <2> HIDE DEF more
  <2>4. Joined(left', placed', left, placed, more, k, Nat)
    BY <1>12, <2>1, <2>2, <2>3 DEF Joined
  <2>5. QED
    BY <2>1, <2>4, Appending
<1>16. /\ due' \in [1 .. placed' -> Nat]
       /\ \A id \in 1 .. placed : due'[id] = due[id]
       /\ \A i \in 1 .. k : due'[placed + i] = t + SubmitLatency
  <2> DEFINE more == [i \in 1 .. k |-> t + SubmitLatency]
  <2>0. t + SubmitLatency \in Nat
    BY MarketMakerAssumption
  <2>1. more \in [1 .. k -> Nat] /\ \A i \in 1 .. k : more[i] = t + SubmitLatency
    BY <2>0
  <2>2. due' = due \o more
    BY <1>3, <1>10
  <2>3. due \in [1 .. placed -> Nat]
    BY DEF MMTypeOK, Ids
  <2> HIDE DEF more
  <2>4. Joined(due', placed', due, placed, more, k, Nat)
    BY <1>12, <2>1, <2>2, <2>3 DEF Joined
  <2>5. QED
    BY <2>1, <2>4, Appending
<1>17. /\ at' \in [1 .. placed' -> {"submitted", "resting", "gone"}]
       /\ \A id \in 1 .. placed : at'[id] = at[id]
       /\ \A i \in 1 .. k : at'[placed + i] = "submitted"
  <2> DEFINE more == [i \in 1 .. k |-> "submitted"]
             phases == {"submitted", "resting", "gone"}
  <2>1. more \in [1 .. k -> phases] /\ \A i \in 1 .. k : more[i] = "submitted"
    OBVIOUS
  <2>2. at' = at \o more
    BY <1>3, <1>10
  <2>3. at \in [1 .. placed -> phases]
    BY DEF MMTypeOK, Ids
  <2>4. at' \in [1 .. placed' -> phases] /\ (\A id \in 1 .. placed : at'[id] = at[id])
        /\ (\A i \in 1 .. k : at'[placed + i] = more[i])
    <3> HIDE DEF more, phases
    <3>1. Joined(at', placed', at, placed, more, k, phases)
      BY <1>12, <2>1, <2>2, <2>3 DEF Joined
    <3>2. QED
      BY <3>1, Appending
  <2>5. QED
    BY <2>1, <2>4
<1>18. \A id \in NewIds : \E i \in 1 .. k : id = placed + i
  <2> SUFFICES ASSUME NEW id \in NewIds PROVE \E i \in 1 .. k : id = placed + i
    OBVIOUS
  <2>1. id \in Int /\ placed < id /\ id <= placed + k
    BY <1>12 DEF NewIds
  <2>2. id - placed \in 1 .. k /\ id = placed + (id - placed)
    BY <1>12, <2>1
  <2>3. QED
    BY <2>2
<1>19. \A id \in NewIds :
           /\ quote'[id].market = m /\ quote'[id].side \in sides
           /\ quote'[id].price = target[quote'[id].side].price
           /\ left'[id] = target[quote'[id].side].qty
           /\ due'[id] = t + SubmitLatency /\ at'[id] = "submitted"
  <2> SUFFICES ASSUME NEW id \in NewIds
      PROVE  /\ quote'[id].market = m /\ quote'[id].side \in sides
             /\ quote'[id].price = target[quote'[id].side].price
             /\ left'[id] = target[quote'[id].side].qty
             /\ due'[id] = t + SubmitLatency /\ at'[id] = "submitted"
    OBVIOUS
  <2>1. PICK i \in 1 .. k : id = placed + i
    BY <1>18
  <2>2. quote'[id] = [market |-> m, side |-> new[i], price |-> target[new[i]].price]
    BY <1>14, <2>1
  <2>3. left'[id] = target[new[i]].qty /\ due'[id] = t + SubmitLatency /\ at'[id] = "submitted"
    BY <1>15, <1>16, <1>17, <2>1
  <2>4. QED
    BY <1>10, <2>2, <2>3
<1>20. ASSUME NEW i \in NewIds, NEW j \in NewIds, quote'[i].side = quote'[j].side
       PROVE  i = j
  <2>1. PICK a \in 1 .. k : i = placed + a
    BY <1>18
  <2>2. PICK b \in 1 .. k : j = placed + b
    BY <1>18
  <2>3. quote'[i].side = new[a] /\ quote'[j].side = new[b]
    BY <1>14, <2>1, <2>2
  <2>4. new[a] = new[b]
    BY <1>20, <2>3
  <2>6. a = b
    BY <1>10, <2>4
  <2>5. QED
    BY <2>1, <2>2, <2>6
<1>21. /\ busy' = [q \in Market |-> [s \in Side |->
             IF TouchedBy(gone, q, s) \/ (q = m /\ s \in sides) THEN t + BusyFor ELSE busy[q][s]]]
       /\ lastPlace' = [lastPlace EXCEPT ![m] = [s \in Side |-> IF s \in sides THEN t ELSE @[s]]]
  BY <1>5, <1>11
<1>22. placed' \in Nat /\ placed <= placed'
  BY <1>12
<1>23. Reaction(m, t, pulled, target, sides, gone)
  BY <1>4, <1>6, <1>7, <1>14, <1>15, <1>16, <1>17, <1>19, <1>20, <1>21, <1>22, <1>a, <1>b DEF Reaction
<1>24. Reaction(m, t, pulled, target, sides, gone) /\ wakes' = asked \cup NewWakes(m, t, pulled, target)
  BY <1>4, <1>23
<1> HIDE DEF pulled
<1>25. \E want : \E part \in SUBSET Side, off \in SUBSET Resting :
           /\ Reaction(m, t, pulled, want, part, off)
           /\ wakes' = asked \cup NewWakes(m, t, pulled, want)
  BY <1>7, <1>8, <1>24
<1>26. QED
  BY <1>2, <1>25 DEF pulled


----------------------------------------------------------------------------
(* Steps: either the market maker is called, or it is not. *)

\* on_event runs at time t, before anything that is scheduled for later.
EventStep(m, t, ms, asked) ==
    /\ OnEvent(m, t, ms, asked)
    /\ now' = t /\ now <= t
    /\ \A id \in Submitted : t <= due[id]
    /\ \A c \in cancels : t <= c[1]
    /\ \A n \in notices' : t <= n[1]
    /\ \A w \in asked : t <= w[1]
    /\ asked \subseteq wakes /\ \A w \in wakes \ asked : w[2] = m
    /\ notices' \subseteq notices /\ news' \subseteq news
    /\ lastReact' \in [Market -> Nat \cup {None}]
    /\ UNCHANGED <<ledger, stage, fed, view, crossed>>

\* Nothing is passed over when it is something's turn.
LEMMA TurnFacts ==
    ASSUME MMTypeOK, NEW t \in Nat, NEW p, Turn(t, p)
    PROVE  /\ now' = t
           /\ \A id \in Submitted : t <= due[id]
           /\ \A c \in cancels : t <= c[1]
           /\ \A n \in notices : t <= n[1]
           /\ \A w \in wakes : t <= w[1]
<1>1. now' = t /\ \A a \in Agenda : t < a[1] \/ (t = a[1] /\ p <= a[2])
  BY DEF Turn
<1>2. \A a \in Agenda : a[1] \in Nat => t <= a[1]
  BY <1>1
<1>3. ASSUME NEW id \in Submitted PROVE t <= due[id]
  <2>1. <<due[id], 4>> \in Agenda
    BY DEF Agenda
  <2>2. due[id] \in Nat
    BY DEF MMTypeOK, Submitted
  <2>3. QED
    BY <1>2, <2>1, <2>2
<1>4. ASSUME NEW c \in cancels PROVE t <= c[1]
  <2>1. <<c[1], 5>> \in Agenda
    BY DEF Agenda
  <2>2. c[1] \in Nat
    BY DEF MMTypeOK
  <2>3. QED
    BY <1>2, <2>1, <2>2
<1>5. ASSUME NEW n \in notices PROVE t <= n[1]
  <2>1. <<n[1], 6>> \in Agenda
    BY DEF Agenda
  <2>2. n[1] \in Nat
    BY DEF MMTypeOK
  <2>3. QED
    BY <1>2, <2>1, <2>2
<1>6. ASSUME NEW w \in wakes PROVE t <= w[1]
  <2>1. <<w[1], 7>> \in Agenda
    BY DEF Agenda
  <2>2. w[1] \in Nat
    BY DEF MMTypeOK
  <2>3. QED
    BY <1>2, <2>1, <2>2
<1>7. QED
  BY <1>1, <1>3, <1>4, <1>5, <1>6

LEMMA WakeUpIsEvent ==
    ASSUME MMTypeOK, NothingOverdue, NEW w \in wakes, WakeUp(w)
    PROVE  /\ w[1] \in Nat /\ w[2] \in Market
           /\ EventStep(w[2], w[1], known, wakes \ {w})
<1>1. w[1] \in Nat /\ w[2] \in Market
  BY DEF MMTypeOK
<1>2. /\ Turn(w[1], 7) /\ OnEvent(w[2], w[1], known, wakes \ {w})
      /\ UNCHANGED <<ledger, stage, fed, view, notices, crossed, news, lastReact>>
  BY DEF WakeUp
<1>3. /\ now' = w[1]
      /\ \A id \in Submitted : w[1] <= due[id]
      /\ \A c \in cancels : w[1] <= c[1]
      /\ \A n \in notices : w[1] <= n[1]
      /\ \A v \in wakes : w[1] <= v[1]
  BY <1>1, <1>2, TurnFacts
<1>4. now <= w[1]
  BY DEF NothingOverdue
<1>5. lastReact' \in [Market -> Nat \cup {None}]
  BY <1>2 DEF MMTypeOK
<1>6. QED
  BY <1>1, <1>2, <1>3, <1>4, <1>5 DEF EventStep

LEMMA FillNoticedIsEvent ==
    ASSUME MMTypeOK, NothingOverdue, NEW n \in notices, FillNoticed(n)
    PROVE  /\ n[1] \in Nat /\ n[2] \in Market /\ known \cup {n[2]} \subseteq Market
           /\ EventStep(n[2], n[1], known \cup {n[2]}, wakes)
<1>1. n[1] \in Nat /\ n[2] \in Market /\ known \subseteq Market
  BY DEF MMTypeOK
<1>2. /\ Turn(n[1], 6) /\ OnEvent(n[2], n[1], known \cup {n[2]}, wakes)
      /\ notices' = notices \ {n}
      /\ UNCHANGED <<ledger, stage, fed, view, crossed, news, lastReact>>
  BY DEF FillNoticed
<1>3. /\ now' = n[1]
      /\ \A id \in Submitted : n[1] <= due[id]
      /\ \A c \in cancels : n[1] <= c[1]
      /\ \A v \in notices : n[1] <= v[1]
      /\ \A w \in wakes : n[1] <= w[1]
  BY <1>1, <1>2, TurnFacts
<1>4. now <= n[1]
  BY DEF NothingOverdue
<1>5. lastReact' \in [Market -> Nat \cup {None}]
  BY <1>2 DEF MMTypeOK
<1>6. QED
  BY <1>1, <1>2, <1>3, <1>4, <1>5 DEF EventStep

LEMMA DeliverBookIsEvent ==
    ASSUME MMTypeOK, NothingOverdue, NEW m \in Market, DeliverBook(m)
    PROVE  EventStep(m, now, known, wakes)
<1>1. /\ OnEvent(m, now, known, wakes) /\ news' = news \ {<<"book", m>>}
      /\ UNCHANGED <<ledger, clock, view, notices, crossed, lastReact>>
  BY DEF DeliverBook
<1>2. lastReact' \in [Market -> Nat \cup {None}]
  BY <1>1 DEF MMTypeOK
<1>3. now' = now /\ now <= now
  BY <1>1 DEF clock, MMTypeOK
<1>4. QED
  BY <1>1, <1>2, <1>3 DEF EventStep, NothingOverdue, clock

\* A print that the market maker reacts to.
LEMMA DeliverTradeIsEvent ==
    ASSUME MMTypeOK, NothingOverdue, NEW m \in Market, DeliverTrade(m), Reacts(m)
    PROVE  EventStep(m, now, known, wakes)
<1>1. /\ OnEvent(m, now, known, wakes) /\ news' = news \ {<<"trade", m>>}
      /\ UNCHANGED <<ledger, clock, view, notices, crossed>>
      /\ lastReact' = [lastReact EXCEPT ![m] = now]
  BY DEF DeliverTrade
<1>2. lastReact' \in [Market -> Nat \cup {None}]
  BY <1>1 DEF MMTypeOK
<1>3. now' = now /\ now <= now
  BY <1>1 DEF clock, MMTypeOK
<1>4. QED
  BY <1>1, <1>2, <1>3 DEF EventStep, NothingOverdue, clock


----------------------------------------------------------------------------
(* A reaction keeps the invariant. *)

\* What a reaction starts from, and that it is one.
Reacting(m, t, ms, asked, pulled, target, sides, gone) ==
    /\ m \in Market /\ t \in Nat /\ ms \subseteq Market
    /\ EventStep(m, t, ms, asked)
    /\ pulled = Pulled(m, t, ms)
    /\ sides \subseteq Side /\ gone \subseteq Resting
    /\ Reaction(m, t, pulled, target, sides, gone)
    /\ wakes' = asked \cup NewWakes(m, t, pulled, target)
    /\ known' = ms /\ killed' = StoppedAt(t, ms)
    /\ nextRisk' = IF CheckDue(t) THEN t + RiskEvery ELSE nextRisk

LEMMA EventReacts ==
    ASSUME MMTypeOK, LedgerTypeOK, NEW m \in Market, NEW t \in Nat, NEW ms \in SUBSET Market,
           NEW asked, EventStep(m, t, ms, asked)
    PROVE  \E target, sides, gone :
               Reacting(m, t, ms, asked, Pulled(m, t, ms), target, sides, gone)
<1>1. OnEvent(m, t, ms, asked)
  BY DEF EventStep
<1>2. /\ \E target : \E sides \in SUBSET Side, gone \in SUBSET Resting :
             /\ Reaction(m, t, Pulled(m, t, ms), target, sides, gone)
             /\ wakes' = asked \cup NewWakes(m, t, Pulled(m, t, ms), target)
      /\ known' = ms /\ killed' = StoppedAt(t, ms)
      /\ nextRisk' = IF CheckDue(t) THEN t + RiskEvery ELSE nextRisk
  BY <1>1, OnEventReacts
<1>3. PICK target : \E sides \in SUBSET Side, gone \in SUBSET Resting :
             /\ Reaction(m, t, Pulled(m, t, ms), target, sides, gone)
             /\ wakes' = asked \cup NewWakes(m, t, Pulled(m, t, ms), target)
  BY <1>2
<1>4. PICK sides \in SUBSET Side, gone \in SUBSET Resting :
             /\ Reaction(m, t, Pulled(m, t, ms), target, sides, gone)
             /\ wakes' = asked \cup NewWakes(m, t, Pulled(m, t, ms), target)
  BY <1>3
<1>5. Reacting(m, t, ms, asked, Pulled(m, t, ms), target, sides, gone)
  BY <1>2, <1>4 DEF Reacting
<1>6. QED
  BY <1>5

\* What is new has something to buy, and is wanted.
LEMMA NewQuotes ==
    ASSUME NEW m, NEW t, NEW ms, NEW asked, NEW pulled, NEW target, NEW sides, NEW gone,
           Reacting(m, t, ms, asked, pulled, target, sides, gone), NEW id \in NewIds
    PROVE  /\ quote'[id].market = m /\ quote'[id].side \in sides /\ quote'[id].side \in Side
           /\ target[quote'[id].side] # None
           /\ quote'[id].price = target[quote'[id].side].price
           /\ left'[id] = target[quote'[id].side].qty /\ left'[id] \in Nat \ {0}
           /\ SideNet(held[m], quote'[id].side) + left'[id] <= MaxPosition
           /\ due'[id] = t + SubmitLatency /\ at'[id] = "submitted"
           /\ Places(m, quote'[id].side, t, pulled, target[quote'[id].side])
<1>1. /\ quote'[id].market = m /\ quote'[id].side \in sides
      /\ quote'[id].price = target[quote'[id].side].price
      /\ left'[id] = target[quote'[id].side].qty
      /\ due'[id] = t + SubmitLatency /\ at'[id] = "submitted"
      /\ sides = {s \in Side : Places(m, s, t, pulled, target[s])}
      /\ TargetSound(target, m)
  BY DEF Reacting, Reaction
<1> DEFINE s == quote'[id].side
<1>2. s \in Side /\ Places(m, s, t, pulled, target[s])
  BY <1>1
<1>3. target[s] # None
  BY <1>2 DEF Places
<1>4. target[s].qty \in Nat \ {0} /\ SideNet(held[m], s) + target[s].qty <= MaxPosition
  BY <1>1, <1>2, <1>3 DEF TargetSound
<1>5. QED
  BY <1>1, <1>2, <1>3, <1>4

\* Every id is an old one, of which nothing changes, or a new one.
LEMMA OldOrNew ==
    ASSUME MMTypeOK, NEW m, NEW t, NEW ms, NEW asked, NEW pulled, NEW target, NEW sides, NEW gone,
           Reacting(m, t, ms, asked, pulled, target, sides, gone), NEW id \in 1 .. placed'
    PROVE  \/ /\ id \in 1 .. placed
              /\ quote'[id] = quote[id] /\ due'[id] = due[id]
              /\ left'[id] = left[id] /\ at'[id] = at[id]
           \/ id \in NewIds
<1>1. CASE id \in 1 .. placed
  BY <1>1 DEF Reacting, Reaction
<1>2. CASE id \notin 1 .. placed
  BY <1>2 DEF NewIds
<1>3. QED
  BY <1>1, <1>2

LEMMA ReactingTypes ==
    ASSUME MMTypeOK, NEW m, NEW t, NEW ms, NEW asked, NEW pulled, NEW target, NEW sides, NEW gone,
           Reacting(m, t, ms, asked, pulled, target, sides, gone)
    PROVE  MMTypeOK'
<1>1. /\ m \in Market /\ t \in Nat /\ ms \subseteq Market /\ sides \subseteq Side
      /\ EventStep(m, t, ms, asked) /\ gone \subseteq Resting
      /\ wakes' = asked \cup NewWakes(m, t, pulled, target)
      /\ known' = ms /\ killed' = StoppedAt(t, ms)
      /\ nextRisk' = IF CheckDue(t) THEN t + RiskEvery ELSE nextRisk
  BY DEF Reacting
<1>2. /\ placed' \in Nat /\ placed <= placed'
      /\ quote' \in [1 .. placed' -> Quoted] /\ due' \in [1 .. placed' -> Nat]
      /\ left' \in [1 .. placed' -> Nat] /\ at' \in [1 .. placed' -> {"submitted", "resting", "gone"}]
      /\ cancels' = cancels \cup {<<t + CancelLatency, id>> : id \in gone}
      /\ cancelling' = cancelling \cup gone
      /\ busy' = [k \in Market |-> [s \in Side |->
             IF TouchedBy(gone, k, s) \/ (k = m /\ s \in sides) THEN t + BusyFor ELSE busy[k][s]]]
      /\ lastPlace' = [lastPlace EXCEPT ![m] = [s \in Side |-> IF s \in sides THEN t ELSE @[s]]]
  BY DEF Reacting, Reaction
<1>3. /\ now' = t /\ asked \subseteq wakes /\ notices' \subseteq notices /\ news' \subseteq news
      /\ lastReact' \in [Market -> Nat \cup {None}]
      /\ UNCHANGED <<stage, fed, topAt, shut, crossed>>
  BY <1>1 DEF EventStep, view
<1>4. t + BusyFor \in Nat /\ t + CancelLatency \in Nat /\ t + WakeAfter \in Nat /\ t + RiskEvery \in Nat
  BY <1>1, MarketMakerAssumption
<1>5. Ids' = 1 .. placed' /\ Ids \subseteq Ids'
  BY <1>2 DEF Ids, MMTypeOK
<1>6. gone \subseteq Ids'
  BY <1>1, <1>5 DEF Resting
<1>7. cancels' \subseteq Nat \X Ids'
  <2>1. cancels \subseteq Nat \X Ids'
    BY <1>5 DEF MMTypeOK
  <2>2. \A id \in gone : <<t + CancelLatency, id>> \in Nat \X Ids'
    BY <1>4, <1>6
  <2>3. QED
    BY <1>2, <2>1, <2>2
<1>8. wakes' \subseteq Nat \X Market
  <2>1. NewWakes(m, t, pulled, target) \subseteq Nat \X Market
    BY <1>1, <1>4 DEF NewWakes
  <2>2. QED
    BY <1>1, <1>3, <2>1 DEF MMTypeOK
<1>9. busy' \in [Market -> [Side -> Nat]]
  BY <1>2, <1>4 DEF MMTypeOK
<1>10. lastPlace' \in [Market -> [Side -> Nat \cup {None}]]
  BY <1>1, <1>2 DEF MMTypeOK
<1>11. killed' \in BOOLEAN
  BY <1>1 DEF StoppedAt, MMTypeOK
<1>12. nextRisk' \in Nat
  BY <1>1, <1>4 DEF MMTypeOK
<1>13. cancelling' \subseteq Ids' /\ crossed' \subseteq Ids'
  BY <1>2, <1>3, <1>5, <1>6 DEF MMTypeOK
<1>14. /\ now' \in Nat /\ stage' \in {"idle", "batch"} /\ fed' \in Nat
       /\ topAt' \in [Market -> Nat] /\ shut' \in [Market -> BOOLEAN]
       /\ notices' \subseteq Nat \X Market /\ news' \subseteq {"book", "trade"} \X Market
       /\ known' \subseteq Market
  BY <1>1, <1>3 DEF MMTypeOK
<1>15. QED
  BY <1>2, <1>3, <1>5, <1>7, <1>8, <1>9, <1>10, <1>11, <1>12, <1>13, <1>14 DEF MMTypeOK


\* Nothing in the ledger moves.
LEMMA LedgerStutters == LedgerInv /\ UNCHANGED ledger => LedgerInv'
  BY LedgerSteps

LEMMA ReactingKeepsTime ==
    ASSUME MMTypeOK, NEW m, NEW t, NEW ms, NEW asked, NEW pulled, NEW target, NEW sides, NEW gone,
           Reacting(m, t, ms, asked, pulled, target, sides, gone)
    PROVE  NothingOverdue'
<1>1. /\ m \in Market /\ t \in Nat /\ wakes' = asked \cup NewWakes(m, t, pulled, target)
      /\ cancels' = cancels \cup {<<t + CancelLatency, id>> : id \in gone}
  BY DEF Reacting, Reaction
<1>2. /\ now' = t
      /\ \A id \in Submitted : t <= due[id]
      /\ \A c \in cancels : t <= c[1]
      /\ \A n \in notices' : t <= n[1]
      /\ \A w \in asked : t <= w[1]
  BY DEF Reacting, EventStep
<1>3. t <= t + CancelLatency /\ t <= t + WakeAfter /\ t <= t + SubmitLatency
  BY <1>1, MarketMakerAssumption
<1>4. ASSUME NEW id \in Submitted' PROVE t <= due'[id]
  <2>1. id \in 1 .. placed' /\ at'[id] = "submitted"
    BY DEF Submitted, Ids
  <2>2. CASE id \in 1 .. placed /\ due'[id] = due[id] /\ at'[id] = at[id]
    BY <1>2, <2>1, <2>2 DEF Submitted, Ids
  <2>3. CASE id \in NewIds
    BY <1>3, <2>3, NewQuotes
  <2>4. QED
    BY <2>1, <2>2, <2>3, OldOrNew
<1>5. \A c \in cancels' : t <= c[1]
  BY <1>1, <1>2, <1>3
<1>6. \A w \in wakes' : t <= w[1]
  BY <1>1, <1>2, <1>3 DEF NewWakes
<1>7. QED
  BY <1>2, <1>4, <1>5, <1>6 DEF NothingOverdue

LEMMA ReactingKeepsQuotes ==
    ASSUME MMTypeOK, QuotesSound,
           NEW m, NEW t, NEW ms, NEW asked, NEW pulled, NEW target, NEW sides, NEW gone,
           Reacting(m, t, ms, asked, pulled, target, sides, gone)
    PROVE  QuotesSound'
<1>1. UNCHANGED <<settled, shut, crossed, stage>> /\ placed \in Nat /\ placed' \in Nat /\ placed <= placed'
      /\ (\A id \in 1 .. placed : at'[id] = at[id])
  BY DEF Reacting, Reaction, EventStep, ledger, view, MMTypeOK
<1>2. ASSUME NEW id \in Ids', at'[id] # "gone" PROVE left'[id] > 0
  <2>1. id \in 1 .. placed'
    BY DEF Ids
  <2>2. CASE id \in 1 .. placed /\ left'[id] = left[id] /\ at'[id] = at[id]
    BY <1>2, <2>2 DEF QuotesSound, Ids
  <2>3. CASE id \in NewIds
    BY <2>3, NewQuotes
  <2>4. QED
    BY <2>1, <2>2, <2>3, OldOrNew
<1>3. crossed' \subseteq Resting'
  <2>1. \A id \in 1 .. placed : id \in 1 .. placed'
    BY <1>1
  <2>2. QED
    BY <1>1, <2>1 DEF QuotesSound, Resting, Ids
<1>4. stage' = "idle" => crossed' = {}
  BY <1>1 DEF QuotesSound
<1>5. QED
  BY <1>1, <1>2, <1>3, <1>4 DEF QuotesSound

LEMMA ReactingKeepsSides ==
    ASSUME MMTypeOK, \A k \in Market, s \in Side : SideSound(k, s),
           NEW m, NEW t, NEW ms, NEW asked, NEW pulled, NEW target, NEW sides, NEW gone,
           Reacting(m, t, ms, asked, pulled, target, sides, gone),
           NEW k \in Market, NEW s \in Side
    PROVE  SideSound(k, s)'
<1>1. /\ m \in Market /\ t \in Nat /\ now' = t /\ now <= t /\ now \in Nat
      /\ busy' = [q \in Market |-> [x \in Side |->
             IF TouchedBy(gone, q, x) \/ (q = m /\ x \in sides) THEN t + BusyFor ELSE busy[q][x]]]
      /\ lastPlace' = [lastPlace EXCEPT ![m] = [x \in Side |-> IF x \in sides THEN t ELSE @[x]]]
  BY DEF Reacting, Reaction, EventStep, MMTypeOK
<1>2. BusyFor \in Nat /\ SubmitLatency \in Nat
  BY MarketMakerAssumption
<1>3. lastPlace[k][s] \in Nat \cup {None} /\ busy[k][s] \in Nat /\ None \notin Nat
  BY MarketMakerAssumption DEF MMTypeOK
<1>4. SideSound(k, s)
  OBVIOUS
<1>5. busy'[k][s] = busy[k][s] \/ busy'[k][s] = t + BusyFor
  BY <1>1
<1>6. lastPlace'[k][s] = IF k = m /\ s \in sides THEN t ELSE lastPlace[k][s]
  BY <1>1 DEF MMTypeOK
<1>7. lastPlace[k][s] # None =>
          /\ lastPlace[k][s] \in Nat /\ lastPlace[k][s] <= now
          /\ lastPlace[k][s] + BusyFor <= busy[k][s]
  BY <1>3, <1>4 DEF SideSound
<1> DEFINE last == lastPlace[k][s]
           until == busy[k][s]
           newLast == lastPlace'[k][s]
           newUntil == busy'[k][s]
<1>8. newLast # None => newLast <= now' /\ newLast + BusyFor <= newUntil
  <2>1. CASE k = m /\ s \in sides
    <3>1. newLast = t /\ newUntil = t + BusyFor
      BY <1>1, <1>6, <2>1
    <3> HIDE DEF newLast, newUntil
    <3>2. QED
      BY <1>1, <1>2, <3>1
  <2>2. CASE ~(k = m /\ s \in sides)
    <3>1. newLast = last /\ (newUntil = until \/ newUntil = t + BusyFor)
      BY <1>5, <1>6, <2>2
    <3>2. last # None => last \in Nat /\ last <= now /\ last + BusyFor <= until /\ until \in Nat
      BY <1>3, <1>7
    <3> HIDE DEF newLast, newUntil, last, until
    <3>3. QED
      BY <1>1, <1>2, <3>1, <3>2
  <2>3. QED
    BY <2>1, <2>2
<1>9. ASSUME NEW id \in (Submitted \cap QuotesOf(k, s))'
      PROVE  newLast # None /\ due'[id] <= newLast + SubmitLatency
  <2>1. id \in 1 .. placed' /\ at'[id] = "submitted" /\ quote'[id].market = k /\ quote'[id].side = s
    BY DEF Submitted, QuotesOf, Ids
  <2>2. CASE id \in 1 .. placed /\ quote'[id] = quote[id] /\ due'[id] = due[id] /\ at'[id] = at[id]
    <3>1. id \in Submitted \cap QuotesOf(k, s)
      BY <2>1, <2>2 DEF Submitted, QuotesOf, Ids
    <3>2. last # None /\ due[id] <= last + SubmitLatency /\ due[id] \in Nat
      BY <1>4, <2>2, <3>1 DEF SideSound, MMTypeOK, Ids
    <3>3. last \in Nat /\ last <= now
      BY <1>7, <3>2
    <3>4. newLast = t \/ newLast = last
      BY <1>6
    <3>5. t # None
      BY <1>1, <1>3
    <3> HIDE DEF last, newLast
    <3>6. QED
      BY <1>1, <1>2, <2>2, <3>2, <3>3, <3>4, <3>5
  <2>3. CASE id \in NewIds
    <3>1. quote'[id].market = m /\ quote'[id].side \in sides /\ due'[id] = t + SubmitLatency
      BY <2>3, NewQuotes
    <3>2. newLast = t
      BY <1>6, <2>1, <3>1
    <3>3. t # None
      BY <1>1, <1>3
    <3> HIDE DEF newLast
    <3>4. QED
      BY <1>1, <1>2, <3>1, <3>2, <3>3
  <2>4. QED
    BY <2>1, <2>2, <2>3, OldOrNew
<1>10. QED
  BY <1>8, <1>9 DEF SideSound

LEMMA ReactingKeepsInv ==
    ASSUME MakerInv,
           NEW m, NEW t, NEW ms, NEW asked, NEW pulled, NEW target, NEW sides, NEW gone,
           Reacting(m, t, ms, asked, pulled, target, sides, gone)
    PROVE  MakerInv'
<1>1. /\ LedgerInv /\ MMTypeOK /\ NothingOverdue /\ QuotesSound
      /\ \A k \in Market, s \in Side : SideSound(k, s)
  BY DEF MakerInv
<1>2. UNCHANGED ledger
  BY DEF Reacting, EventStep
<1>3. LedgerInv'
  BY <1>1, <1>2, LedgerStutters
<1>4. MMTypeOK'
  BY <1>1, ReactingTypes
<1>5. NothingOverdue'
  BY <1>1, ReactingKeepsTime
<1>6. QuotesSound'
  BY <1>1, ReactingKeepsQuotes
<1>7. \A k \in Market, s \in Side : SideSound(k, s)'
  BY <1>1, ReactingKeepsSides
<1>8. QED
  BY <1>3, <1>4, <1>5, <1>6, <1>7 DEF MakerInv


----------------------------------------------------------------------------
(* The other steps. *)

\* Nothing but time and the venue moves the quotes: they come to rest when due, are filled or go.
QuietStep ==
    /\ now' \in Nat /\ now <= now'
    /\ UNCHANGED <<quotes, wakes, busy, lastPlace, cancelling, nextRisk, killed>>
    /\ \A id \in Ids : \/ at'[id] = at[id] \/ at'[id] = "gone"
                       \/ at[id] = "submitted" /\ at'[id] = "resting" /\ due[id] = now'
    /\ \A m \in Market : shut[m] => shut'[m]
    /\ \/ left' = left /\ \A m \in Market : ~shut'[m] => held'[m] = held[m]
       \/ \E id \in Resting : \E qty \in 1 .. left[id] :
              /\ left' = [left EXCEPT ![id] = @ - qty]
              /\ held' = [held EXCEPT ![quote[id].market] =
                     Netted(Added(@, quote[id].side, quote[id].price, qty))]

LEMMA QuietKeepsSides ==
    ASSUME MMTypeOK, QuietStep, NEW k \in Market, NEW s \in Side, SideSound(k, s)
    PROVE  SideSound(k, s)'
<1>1. /\ now \in Nat /\ now' \in Nat /\ now <= now' /\ placed' = placed /\ quote' = quote /\ due' = due
      /\ busy' = busy /\ lastPlace' = lastPlace
  BY DEF QuietStep, quotes, MMTypeOK
<1>2. lastPlace[k][s] # None => lastPlace[k][s] \in Nat /\ lastPlace[k][s] <= now
  BY DEF SideSound, MMTypeOK
<1>3. lastPlace[k][s] # None => lastPlace'[k][s] <= now'
  BY <1>1, <1>2
<1>4. (Submitted \cap QuotesOf(k, s))' \subseteq Submitted \cap QuotesOf(k, s)
  BY <1>1 DEF QuietStep, Submitted, QuotesOf, Ids
<1>5. lastPlace'[k][s] # None =>
           /\ lastPlace'[k][s] <= now'
           /\ lastPlace'[k][s] + BusyFor <= busy'[k][s]
  BY <1>1, <1>3 DEF SideSound
<1>6. \A id \in (Submitted \cap QuotesOf(k, s))' :
           lastPlace'[k][s] # None /\ due'[id] <= lastPlace'[k][s] + SubmitLatency
  BY <1>1, <1>4 DEF SideSound
<1>7. QED
  BY <1>5, <1>6 DEF SideSound

\* Nothing is left behind when no time passes or nothing scheduled is passed over.
LEMMA TimeKeeps ==
    ASSUME MMTypeOK, NothingOverdue, now' \in Nat,
           now' = now \/ \A a \in Agenda : now' <= a[1]
    PROVE  /\ \A id \in Submitted : now' <= due[id]
           /\ \A c \in cancels : now' <= c[1]
           /\ \A n \in notices : now' <= n[1]
           /\ \A w \in wakes : now' <= w[1]
<1>1. CASE now' = now
  BY <1>1 DEF NothingOverdue
<1>2. CASE \A a \in Agenda : now' <= a[1]
  <2>1. ASSUME NEW id \in Submitted PROVE now' <= due[id]
    <3>1. <<due[id], 4>> \in Agenda
      BY DEF Agenda
    <3>2. QED
      BY <1>2, <3>1
  <2>2. ASSUME NEW c \in cancels PROVE now' <= c[1]
    <3>1. <<c[1], 5>> \in Agenda
      BY DEF Agenda
    <3>2. QED
      BY <1>2, <3>1
  <2>3. ASSUME NEW n \in notices PROVE now' <= n[1]
    <3>1. <<n[1], 6>> \in Agenda
      BY DEF Agenda
    <3>2. QED
      BY <1>2, <3>1
  <2>4. ASSUME NEW w \in wakes PROVE now' <= w[1]
    <3>1. <<w[1], 7>> \in Agenda
      BY DEF Agenda
    <3>2. QED
      BY <1>2, <3>1
  <2>5. QED
    BY <2>1, <2>2, <2>3, <2>4
<1>3. QED
  BY <1>1, <1>2

\* Steps that touch neither the account nor the quotes.
Still ==
    /\ now' \in Nat /\ now <= now'
    /\ now' = now \/ \A a \in Agenda : now' <= a[1]
    /\ UNCHANGED <<ledger, shut, quotes, left, at, pending, maker>>
    /\ stage' \in {"idle", "batch"} /\ fed' \in Nat
    /\ topAt' \in [Market -> Nat] /\ news' \subseteq {"book", "trade"} \X Market
    /\ crossed' \subseteq Resting /\ (stage' = "idle" => crossed' = {})

LEMMA StillKeepsInv == ASSUME MakerInv, Still PROVE MakerInv' /\ QuietStep
<1>1. /\ LedgerInv /\ MMTypeOK /\ NothingOverdue /\ QuotesSound
      /\ \A k \in Market, s \in Side : SideSound(k, s)
  BY DEF MakerInv
<1>2. LedgerInv'
  BY <1>1, LedgerStutters DEF Still
<1>3. /\ UNCHANGED <<placed, quote, due, left, at, cancels, notices, wakes, shut, held, settled>>
      /\ UNCHANGED <<known, busy, lastPlace, cancelling, nextRisk, lastReact, killed>>
      /\ Ids' = Ids /\ Resting' = Resting /\ Submitted' = Submitted
  BY DEF Still, ledger, quotes, pending, maker, Ids, Resting, Submitted
<1>4. QuietStep
  BY <1>3 DEF Still, QuietStep, quotes
<1>5. MMTypeOK'
  <2>1. crossed' \subseteq Ids'
    BY <1>3 DEF Still, Resting
  <2>2. QED
    BY <1>1, <1>3, <2>1 DEF MMTypeOK, Still
<1>6. NothingOverdue'
  BY <1>1, <1>3, TimeKeeps DEF Still, NothingOverdue
<1>7. QuotesSound'
  BY <1>1, <1>3 DEF QuotesSound, Still
<1>8. \A k \in Market, s \in Side : SideSound(k, s)'
  BY <1>1, <1>4, QuietKeepsSides
<1>9. QED
  BY <1>2, <1>4, <1>5, <1>6, <1>7, <1>8 DEF MakerInv

LEMMA BatchStartsIsStill ==
    ASSUME MakerInv, NEW t \in 1 .. MaxTime, BatchStarts(t) PROVE Still
<1>1. t \in Nat /\ now \in Nat /\ t > now /\ now' = t /\ stage' = "batch"
      /\ (\A a \in Agenda : t <= a[1])
      /\ UNCHANGED <<ledger, fed, view, quotes, left, at, pending, crossed, news, maker>>
  BY DEF BatchStarts, MakerInv, MMTypeOK
<1>2. crossed' \subseteq Resting
  BY <1>1 DEF MakerInv, QuotesSound
<1>3. QED
  BY <1>1, <1>2 DEF Still, view, MakerInv, MMTypeOK

LEMMA NewBookIsStill ==
    ASSUME MakerInv, NEW m \in Market, NEW b, NewBook(m, b) PROVE Still
<1>1. /\ stage = "batch" /\ fed' = fed + 1 /\ now' = now /\ now \in Nat /\ fed \in Nat
      /\ topAt' = [topAt EXCEPT ![m] = now] /\ crossed' = CrossedQuotes(m, b)
      /\ news' = news \cup {<<"book", m>>}
      /\ UNCHANGED <<ledger, stage, shut, quotes, left, at, pending, maker>>
  BY DEF NewBook, FeedEvent, MakerInv, MMTypeOK
<1>2. crossed' \subseteq Resting
  BY <1>1 DEF CrossedQuotes
<1>3. topAt' \in [Market -> Nat] /\ news' \subseteq {"book", "trade"} \X Market
  BY <1>1 DEF MakerInv, MMTypeOK
<1>4. QED
  BY <1>1, <1>2, <1>3 DEF Still

LEMMA ConfirmBooksIsStill == ASSUME MakerInv, ConfirmBooks PROVE Still
<1>1. /\ stage = "batch" /\ crossed = {} /\ fed' = fed + 1 /\ now' = now /\ now \in Nat /\ fed \in Nat
      /\ topAt' = [m \in Market |-> IF top[m] # None THEN now ELSE topAt[m]]
      /\ UNCHANGED <<ledger, stage, top, shut, quotes, left, at, pending, crossed, news, maker>>
  BY DEF ConfirmBooks, FeedEvent, MakerInv, MMTypeOK
<1>2. topAt' \in [Market -> Nat] /\ news' \subseteq {"book", "trade"} \X Market
  BY <1>1 DEF MakerInv, MMTypeOK
<1>3. QED
  BY <1>1, <1>2 DEF Still

LEMMA PrintMissesIsStill == ASSUME MakerInv, NEW m \in Market, PrintMisses(m) PROVE Still
<1>1. /\ stage = "batch" /\ crossed = {} /\ fed' = fed + 1 /\ now' = now /\ now \in Nat /\ fed \in Nat
      /\ news' = news \cup {<<"trade", m>>}
      /\ UNCHANGED <<ledger, stage, view, quotes, left, at, pending, crossed, maker>>
  BY DEF PrintMisses, FeedEvent, MakerInv, MMTypeOK
<1>2. topAt' \in [Market -> Nat] /\ news' \subseteq {"book", "trade"} \X Market
  BY <1>1 DEF MakerInv, MMTypeOK, view
<1>3. QED
  BY <1>1, <1>2 DEF Still, view

LEMMA BatchEndsIsStill == ASSUME MakerInv, BatchEnds PROVE Still
<1>1. /\ crossed = {} /\ stage' = "idle"
      /\ UNCHANGED <<ledger, now, fed, view, quotes, left, at, pending, crossed, news, maker>>
  BY DEF BatchEnds
<1>2. now' \in Nat /\ now <= now' /\ fed' \in Nat /\ topAt' \in [Market -> Nat]
      /\ news' \subseteq {"book", "trade"} \X Market
  BY <1>1 DEF MakerInv, MMTypeOK, view
<1>3. QED
  BY <1>1, <1>2 DEF Still, view

\* A print that the market maker does not react to.
LEMMA DeliverTradeIsStill ==
    ASSUME MakerInv, NEW m \in Market, DeliverTrade(m), ~Reacts(m) PROVE Still
<1>1. /\ stage = "idle" /\ news' = news \ {<<"trade", m>>}
      /\ UNCHANGED <<placed, quote, due, left, at, cancels, wakes, known, busy, lastPlace,
                     cancelling, nextRisk, lastReact, killed, peak>>
      /\ UNCHANGED <<ledger, clock, view, notices, crossed>>
  BY DEF DeliverTrade
<1>2. now' \in Nat /\ now <= now' /\ now' = now /\ fed' \in Nat /\ topAt' \in [Market -> Nat]
      /\ news' \subseteq {"book", "trade"} \X Market /\ stage' = stage
  BY <1>1 DEF MakerInv, MMTypeOK, view, clock
<1>3. crossed' = {}
  BY <1>1 DEF MakerInv, QuotesSound
<1>4. QED
  BY <1>1, <1>2, <1>3 DEF Still, view, quotes, pending, maker


\* Steps by which quotes come to rest or go, and markets close.
Moving ==
    /\ now' \in Nat /\ now <= now'
    /\ now' = now \/ \A a \in Agenda : now' <= a[1]
    /\ UNCHANGED <<stage, topAt, quotes, left, notices, wakes, crossed, news, maker>>
    /\ crossed = {} /\ fed' \in Nat
    /\ shut' \in [Market -> BOOLEAN] /\ \A m \in Market : shut[m] => shut'[m]
    /\ cancels' \subseteq cancels
    /\ at' \in [Ids -> {"submitted", "resting", "gone"}]
    /\ \A id \in Ids : \/ at'[id] = at[id] \/ at'[id] = "gone"
                       \/ at[id] = "submitted" /\ at'[id] = "resting" /\ due[id] = now'
    /\ LedgerInv'
    /\ \A m \in Market : ~shut'[m] => held'[m] = held[m]
    /\ \A m \in Market : settled'[m] # None => shut'[m]

LEMMA MovingKeepsInv == ASSUME MakerInv, Moving PROVE MakerInv' /\ QuietStep
<1>1. /\ MMTypeOK /\ NothingOverdue /\ QuotesSound
      /\ \A k \in Market, s \in Side : SideSound(k, s)
  BY DEF MakerInv
<1>2. /\ UNCHANGED <<placed, quote, due, left, notices, wakes, crossed, stage, topAt, news>>
      /\ UNCHANGED <<known, busy, lastPlace, cancelling, nextRisk, lastReact, killed>>
      /\ Ids' = Ids
  BY DEF Moving, quotes, maker, Ids
<1>3. QuietStep
  BY <1>2 DEF Moving, QuietStep, quotes
<1>4. MMTypeOK'
  <2>1. /\ now' \in Nat /\ fed' \in Nat /\ shut' \in [Market -> BOOLEAN]
        /\ at' \in [Ids -> {"submitted", "resting", "gone"}] /\ cancels' \subseteq Nat \X Ids
    BY <1>1 DEF Moving, MMTypeOK
  <2>2. QED
    BY <1>1, <1>2, <2>1 DEF MMTypeOK
<1>5. NothingOverdue'
  <2>1. /\ \A id \in Submitted : now' <= due[id]
        /\ \A c \in cancels : now' <= c[1]
        /\ \A n \in notices : now' <= n[1]
        /\ \A w \in wakes : now' <= w[1]
    BY <1>1, TimeKeeps DEF Moving
  <2>2. Submitted' \subseteq Submitted
    BY <1>2 DEF Moving, Submitted
  <2>3. cancels' \subseteq cancels
    BY DEF Moving
  <2>4. QED
    BY <1>2, <2>1, <2>2, <2>3 DEF NothingOverdue
<1>6. QuotesSound'
  <2>1. ASSUME NEW id \in Ids', at'[id] # "gone" PROVE left'[id] > 0
    <3>1. id \in Ids /\ at[id] # "gone" /\ left'[id] = left[id]
      BY <1>2, <2>1 DEF Moving
    <3>2. QED
      BY <1>1, <3>1 DEF QuotesSound
  <2>2. crossed' = {}
    BY <1>2 DEF Moving
  <2>3. QED
    BY <2>1, <2>2 DEF QuotesSound, Moving
<1>7. \A k \in Market, s \in Side : SideSound(k, s)'
  BY <1>1, <1>3, QuietKeepsSides
<1>8. QED
  BY <1>3, <1>4, <1>5, <1>6, <1>7 DEF MakerInv, Moving

\* A market that closes takes its resting quotes with it.
LEMMA DroppedQuotes ==
    ASSUME MMTypeOK, NEW m, DropQuotesOf(m)
    PROVE  /\ at' \in [Ids -> {"submitted", "resting", "gone"}]
           /\ \A id \in Ids : at'[id] = at[id] \/ at'[id] = "gone"
<1>1. at' = [id \in Ids |-> IF id \in Resting /\ quote[id].market = m THEN "gone" ELSE at[id]]
  BY DEF DropQuotesOf
<1>2. at \in [Ids -> {"submitted", "resting", "gone"}]
  BY DEF MMTypeOK
<1>3. QED
  BY <1>1, <1>2

LEMMA CloseMarketMoves == ASSUME MakerInv, NEW m \in Market, CloseMarket(m) PROVE Moving
<1>1. /\ stage = "batch" /\ crossed = {} /\ fed' = fed + 1 /\ now' = now /\ now \in Nat /\ fed \in Nat
      /\ shut' = [shut EXCEPT ![m] = TRUE] /\ DropQuotesOf(m)
      /\ UNCHANGED <<ledger, stage, top, topAt, quotes, left, pending, crossed, news, maker>>
  BY DEF CloseMarket, FeedEvent, MakerInv, MMTypeOK
<1>2. /\ at' \in [Ids -> {"submitted", "resting", "gone"}]
      /\ \A id \in Ids : at'[id] = at[id] \/ at'[id] = "gone"
  BY <1>1, DroppedQuotes DEF MakerInv
<1>3. shut \in [Market -> BOOLEAN]
  BY DEF MakerInv, MMTypeOK
<1>4. shut' \in [Market -> BOOLEAN] /\ \A k \in Market : shut[k] => shut'[k]
  BY <1>1, <1>3
<1>5. LedgerInv'
  BY <1>1, LedgerStutters DEF MakerInv
<1>6. UNCHANGED <<held, settled, cancels, notices, wakes>>
  BY <1>1 DEF ledger, pending
<1>7. \A k \in Market : settled'[k] # None => shut'[k]
  BY <1>4, <1>6 DEF MakerInv, QuotesSound
<1>8. QED
  BY <1>1, <1>2, <1>4, <1>5, <1>6, <1>7 DEF Moving

LEMMA SettleMarketMoves ==
    ASSUME MakerInv, NEW m \in Market, NEW value \in Value, SettleMarket(m, value) PROVE Moving
<1>1. /\ stage = "batch" /\ crossed = {} /\ fed' = fed + 1 /\ now' = now /\ now \in Nat /\ fed \in Nat
      /\ shut' = [shut EXCEPT ![m] = TRUE] /\ DropQuotesOf(m) /\ Settle(m, value)
      /\ UNCHANGED <<stage, top, topAt, quotes, left, pending, crossed, news, maker>>
  BY DEF SettleMarket, FeedEvent, MakerInv, MMTypeOK
<1>2. /\ at' \in [Ids -> {"submitted", "resting", "gone"}]
      /\ \A id \in Ids : at'[id] = at[id] \/ at'[id] = "gone"
  BY <1>1, DroppedQuotes DEF MakerInv
<1>3. /\ shut \in [Market -> BOOLEAN] /\ held \in [Market -> Holding]
      /\ settled \in [Market -> Value \cup {None}]
  BY DEF MakerInv, MMTypeOK, LedgerInv, PositionInv, LedgerTypeOK
<1>4. shut' \in [Market -> BOOLEAN] /\ \A k \in Market : shut[k] => shut'[k]
  BY <1>1, <1>3
<1>5. LedgerInv'
  BY <1>1, LedgerSteps DEF MakerInv, LedgerNext
<1>6. held' = [held EXCEPT ![m] = Flat] /\ settled' = [settled EXCEPT ![m] = value]
      /\ UNCHANGED <<cancels, notices, wakes>>
  BY <1>1 DEF Settle, Announce, pending
<1>7. \A k \in Market : ~shut'[k] => held'[k] = held[k]
  BY <1>1, <1>3, <1>6
<1>8. \A k \in Market : settled'[k] # None => shut'[k]
  BY <1>1, <1>3, <1>6 DEF MakerInv, QuotesSound
<1>9. QED
  BY <1>1, <1>2, <1>4, <1>5, <1>6, <1>7, <1>8 DEF Moving

LEMMA QuoteArrivesMoves == ASSUME MakerInv, NEW id \in Submitted, QuoteArrives(id) PROVE Moving
<1>1. /\ MMTypeOK /\ NothingOverdue /\ id \in Ids /\ at[id] = "submitted" /\ due[id] \in Nat
      /\ now <= due[id]
  BY DEF MakerInv, NothingOverdue, Submitted, MMTypeOK
<1>2. /\ Turn(due[id], 4)
      /\ at' = [at EXCEPT ![id] = IF Accepted(id) THEN "resting" ELSE "gone"]
      /\ UNCHANGED <<ledger, stage, fed, view, quotes, left, pending, crossed, news, maker>>
  BY DEF QuoteArrives
<1>3. now' = due[id] /\ stage = "idle" /\ \A a \in Agenda : due[id] < a[1] \/ due[id] = a[1]
  BY <1>2 DEF Turn, Idle
<1>4. \A a \in Agenda : now' <= a[1]
  <2>1. \A a \in Agenda : a[1] \in Nat
    BY <1>1 DEF Agenda, MMTypeOK, Submitted
  <2>2. QED
    BY <1>1, <1>3, <2>1
<1>5. LedgerInv'
  BY <1>2, LedgerStutters DEF MakerInv
<1>6. UNCHANGED <<held, settled, cancels, notices, wakes, shut, topAt>>
  BY <1>2 DEF ledger, pending, view
<1>7. crossed = {} /\ \A k \in Market : settled'[k] # None => shut'[k]
  BY <1>3, <1>6 DEF MakerInv, QuotesSound
<1>8. /\ at' \in [Ids -> {"submitted", "resting", "gone"}]
      /\ \A i \in Ids : \/ at'[i] = at[i] \/ at'[i] = "gone"
                        \/ at[i] = "submitted" /\ at'[i] = "resting" /\ due[i] = now'
  BY <1>1, <1>2, <1>3 DEF MMTypeOK
<1>9. shut \in [Market -> BOOLEAN] /\ fed' \in Nat /\ now' \in Nat /\ now <= now'
  BY <1>1, <1>2, <1>3 DEF MMTypeOK
<1>10. QED
  BY <1>2, <1>4, <1>5, <1>6, <1>7, <1>8, <1>9 DEF Moving

LEMMA CancelArrivesMoves == ASSUME MakerInv, NEW c \in cancels, CancelArrives(c) PROVE Moving
<1>1. /\ MMTypeOK /\ NothingOverdue /\ c[1] \in Nat /\ now <= c[1] /\ c[2] \in Ids
  BY DEF MakerInv, NothingOverdue, MMTypeOK
<1>2. /\ Turn(c[1], 5) /\ cancels' = cancels \ {c}
      /\ at' = IF at[c[2]] = "resting" THEN [at EXCEPT ![c[2]] = "gone"] ELSE at
      /\ UNCHANGED <<ledger, stage, fed, view, quotes, left, notices, wakes, crossed, news, maker>>
  BY DEF CancelArrives
<1>3. now' = c[1] /\ stage = "idle" /\ \A a \in Agenda : c[1] < a[1] \/ c[1] = a[1]
  BY <1>2 DEF Turn, Idle
<1>4. \A a \in Agenda : now' <= a[1]
  <2>1. \A a \in Agenda : a[1] \in Nat
    BY <1>1 DEF Agenda, MMTypeOK, Submitted
  <2>2. QED
    BY <1>1, <1>3, <2>1
<1>5. LedgerInv'
  BY <1>2, LedgerStutters DEF MakerInv
<1>6. UNCHANGED <<held, settled, shut, topAt>>
  BY <1>2 DEF ledger, view
<1>7. crossed = {} /\ \A k \in Market : settled'[k] # None => shut'[k]
  BY <1>3, <1>6 DEF MakerInv, QuotesSound
<1>8. /\ at' \in [Ids -> {"submitted", "resting", "gone"}]
      /\ \A i \in Ids : at'[i] = at[i] \/ at'[i] = "gone"
  BY <1>1, <1>2 DEF MMTypeOK
<1>9. shut \in [Market -> BOOLEAN] /\ fed' \in Nat /\ now' \in Nat /\ now <= now'
  BY <1>1, <1>2, <1>3 DEF MMTypeOK
<1>10. QED
  BY <1>2, <1>4, <1>5, <1>6, <1>7, <1>8, <1>9 DEF Moving

----------------------------------------------------------------------------
(* Fills. *)

\* What is common to both kinds of fill.
Filling(id, qty) ==
    /\ stage = "batch" /\ id \in Resting /\ qty \in 1 .. left[id] /\ FillQuote(id, qty)
    /\ now' = now /\ stage' = stage /\ fed' \in Nat
    /\ UNCHANGED <<view, quotes, cancels, wakes, maker>>
    /\ crossed' \subseteq crossed \ {id}
    /\ news' \subseteq {"book", "trade"} \X Market

LEMMA PrintHitsFills ==
    ASSUME MakerInv, NEW id \in Ids, NEW qty, PrintHits(id, qty) PROVE Filling(id, qty)
<1>1. /\ stage = "batch" /\ crossed = {} /\ fed' = fed + 1 /\ now' = now /\ fed \in Nat
      /\ id \in Resting /\ qty \in 1 .. left[id] /\ FillQuote(id, qty)
      /\ news' = news \cup {<<"trade", quote[id].market>>}
      /\ UNCHANGED <<stage, view, quotes, cancels, wakes, crossed, maker>>
  BY DEF PrintHits, FeedEvent, MakerInv, MMTypeOK
<1>2. news' \subseteq {"book", "trade"} \X Market
  BY <1>1 DEF MakerInv, MMTypeOK, Quoted
<1>3. QED
  BY <1>1, <1>2 DEF Filling

LEMMA FillCrossedFills ==
    ASSUME MakerInv, FillCrossed
    PROVE  \E id \in Ids : \E qty \in 1 .. left[id] : Filling(id, qty)
<1> DEFINE id == Min(crossed)
<1>1. /\ crossed # {} /\ FillQuote(id, left[id]) /\ crossed' = crossed \ {id}
      /\ UNCHANGED <<clock, view, quotes, cancels, wakes, news, maker>>
  BY DEF FillCrossed
<1>2. crossed \subseteq Resting /\ Resting \subseteq Ids /\ Ids \subseteq Nat
  BY DEF MakerInv, QuotesSound, Resting, Ids
<1>3. id \in crossed
  BY <1>1, <1>2, MinIsIn
<1>4. stage = "batch"
  BY <1>1 DEF MakerInv, QuotesSound, MMTypeOK
<1>5. left[id] > 0 /\ left[id] \in Nat
  BY <1>2, <1>3 DEF MakerInv, QuotesSound, MMTypeOK, Resting
<1> HIDE DEF id
<1>6. left[id] \in 1 .. left[id]
  BY <1>5
<1>7. now' = now /\ stage' = stage /\ fed' \in Nat /\ news' \subseteq {"book", "trade"} \X Market
  BY <1>1 DEF clock, MakerInv, MMTypeOK
<1>8. Filling(id, left[id])
  BY <1>1, <1>2, <1>3, <1>4, <1>6, <1>7 DEF Filling
<1>9. QED
  BY <1>2, <1>3, <1>6, <1>8


\* What a fill does to the account and to the quote.
LEMMA FillFacts ==
    ASSUME MakerInv, NEW id, NEW qty, Filling(id, qty)
    PROVE  /\ id \in Ids /\ at[id] = "resting" /\ left[id] \in Nat /\ qty \in Nat \ {0} /\ qty <= left[id]
           /\ quote[id].market \in Market /\ quote[id].side \in Side
           /\ quote[id].price \in Price
           /\ Buy(quote[id].market, quote[id].side, quote[id].price, qty, 0)
           /\ left' = [left EXCEPT ![id] = @ - qty] /\ left' \in [Ids -> Nat]
           /\ at' \in [Ids -> {"submitted", "resting", "gone"}]
           /\ at' = IF qty = left[id] THEN [at EXCEPT ![id] = "gone"] ELSE at
           /\ notices' = notices \cup {<<now + AckLatency, quote[id].market>>}
<1>1. /\ id \in Ids /\ at[id] = "resting" /\ qty \in 1 .. left[id]
      /\ Buy(quote[id].market, quote[id].side, quote[id].price, qty, 0)
      /\ left' = [left EXCEPT ![id] = @ - qty]
      /\ at' = IF qty = left[id] THEN [at EXCEPT ![id] = "gone"] ELSE at
      /\ notices' = notices \cup {<<now + AckLatency, quote[id].market>>}
  BY DEF Filling, FillQuote, Resting
<1>2. /\ left \in [Ids -> Nat] /\ at \in [Ids -> {"submitted", "resting", "gone"}]
      /\ quote \in [Ids -> Quoted]
  BY DEF MakerInv, MMTypeOK
<1>3. left[id] \in Nat /\ qty \in Nat \ {0} /\ qty <= left[id]
  BY <1>1, <1>2
<1>4. left' \in [Ids -> Nat]
  <2> DEFINE rest == left[id] - qty
  <2>1. rest \in Nat
    BY <1>3
  <2>2. left' = [left EXCEPT ![id] = rest]
    BY <1>1
  <2> HIDE DEF rest
  <2>3. QED
    BY <1>2, <2>1, <2>2
<1>5. at' \in [Ids -> {"submitted", "resting", "gone"}]
  BY <1>1, <1>2
<1>6. /\ quote[id].market \in Market /\ quote[id].side \in Side
      /\ quote[id].price \in 1 .. PriceScale - 1
  BY <1>1, <1>2 DEF Quoted
<1>7. quote[id].price \in Price
  <2> DEFINE price == quote[id].price
  <2>1. price \in Quote
    BY <1>6, MarketMakerAssumption
  <2>2. CheckPrice(price)
    <3>1. price \in 1 .. PriceScale - 1 /\ PriceScale \in Nat
      BY <1>6, OrderBookAssumption
    <3> HIDE DEF price
    <3>2. QED
      BY <3>1 DEF CheckPrice
  <2>3. QED
    BY <2>1, <2>2 DEF Price
<1>8. QED
  BY <1>1, <1>3, <1>4, <1>5, <1>6, <1>7

LEMMA FillingKeepsInv ==
    ASSUME MakerInv, NEW id, NEW qty, Filling(id, qty)
    PROVE  MakerInv' /\ QuietStep
<1> DEFINE m == quote[id].market
           s == quote[id].side
<1>1. /\ LedgerInv /\ MMTypeOK /\ NothingOverdue /\ QuotesSound
      /\ \A k \in Market, x \in Side : SideSound(k, x)
  BY DEF MakerInv
<1>2. /\ id \in Ids /\ at[id] = "resting" /\ left[id] \in Nat /\ qty \in Nat \ {0} /\ qty <= left[id]
      /\ m \in Market /\ s \in Side /\ quote[id].price \in Price
      /\ Buy(m, s, quote[id].price, qty, 0)
      /\ left' = [left EXCEPT ![id] = @ - qty] /\ left' \in [Ids -> Nat]
      /\ at' \in [Ids -> {"submitted", "resting", "gone"}]
      /\ at' = IF qty = left[id] THEN [at EXCEPT ![id] = "gone"] ELSE at
      /\ notices' = notices \cup {<<now + AckLatency, m>>}
  BY FillFacts
<1>3. /\ stage = "batch" /\ stage' = stage /\ now' = now /\ fed' \in Nat
      /\ UNCHANGED <<topAt, shut, placed, quote, due, cancels, wakes>>
      /\ UNCHANGED <<known, busy, lastPlace, cancelling, nextRisk, lastReact, killed>>
      /\ Ids' = Ids /\ id \in Resting /\ qty \in 1 .. left[id]
      /\ crossed' \subseteq crossed \ {id} /\ news' \subseteq {"book", "trade"} \X Market
  BY DEF Filling, view, quotes, maker, Ids
<1>4. /\ held' = [held EXCEPT ![m] = Netted(Added(held[m], s, quote[id].price, qty))]
      /\ settled' = settled
  BY <1>2 DEF Buy
<1>5. LedgerInv'
  <2>1. 0 \in Nat
    OBVIOUS
  <2> HIDE DEF m, s
  <2>2. LedgerNext
    BY <1>2, <2>1 DEF LedgerNext
  <2>3. QED
    BY <1>1, <2>2, LedgerSteps
<1>6. \A i \in Ids : at'[i] = at[i] \/ at'[i] = "gone"
  BY <1>1, <1>2 DEF MMTypeOK
<1>7. QuietStep
  <2>1. now' \in Nat /\ now <= now' /\ \A k \in Market : shut[k] => shut'[k]
    BY <1>1, <1>3 DEF MMTypeOK
  <2>2. /\ left' = [left EXCEPT ![id] = @ - qty]
        /\ held' = [held EXCEPT ![quote[id].market] =
               Netted(Added(@, quote[id].side, quote[id].price, qty))]
    BY <1>2, <1>4
  <2>3. \E i \in Resting : \E q \in 1 .. left[i] :
              /\ left' = [left EXCEPT ![i] = @ - q]
              /\ held' = [held EXCEPT ![quote[i].market] =
                     Netted(Added(@, quote[i].side, quote[i].price, q))]
    BY <1>3, <2>2
  <2>4. UNCHANGED <<quotes, wakes, busy, lastPlace, cancelling, nextRisk, killed>>
    BY <1>3 DEF quotes
  <2>5. QED
    BY <1>6, <2>1, <2>3, <2>4 DEF QuietStep
<1>8. MMTypeOK'
  <2>1. notices' \subseteq Nat \X Market
    <3>1. now + AckLatency \in Nat
      BY <1>1, MarketMakerAssumption DEF MMTypeOK
    <3>2. QED
      BY <1>1, <1>2, <3>1 DEF MMTypeOK
  <2>2. crossed' \subseteq Ids
    BY <1>1, <1>3 DEF MMTypeOK
  <2> HIDE DEF m
  <2>3. QED
    BY <1>1, <1>2, <1>3, <2>1, <2>2 DEF MMTypeOK
<1>9. NothingOverdue'
  <2>1. now \in Nat /\ now <= now + AckLatency
    BY <1>1, MarketMakerAssumption DEF MMTypeOK
  <2>2. \A n \in notices' : now <= n[1]
    BY <1>1, <1>2, <2>1 DEF NothingOverdue
  <2>3. Submitted' \subseteq Submitted
    BY <1>3, <1>6 DEF Submitted
  <2>4. QED
    BY <1>1, <1>3, <2>2, <2>3 DEF NothingOverdue
<1>10. QuotesSound'
  <2>1. ASSUME NEW i \in Ids, at'[i] # "gone" PROVE left'[i] > 0
    <3>1. CASE i = id
      <4>1. qty # left[id]
        BY <1>1, <1>2, <2>1, <3>1 DEF MMTypeOK
      <4>2. left'[i] = left[id] - qty
        BY <1>1, <1>2, <3>1 DEF MMTypeOK
      <4>3. QED
        BY <1>2, <4>1, <4>2
    <3>2. CASE i # id
      <4>1. left'[i] = left[i] /\ at[i] # "gone"
        BY <1>1, <1>2, <1>6, <2>1, <3>2 DEF MMTypeOK
      <4>2. QED
        BY <1>1, <4>1 DEF QuotesSound
    <3>3. QED
      BY <3>1, <3>2
  <2>2. crossed' \subseteq Resting'
    <3> SUFFICES ASSUME NEW i \in crossed' PROVE i \in Resting'
      OBVIOUS
    <3>1. i \in Resting /\ i # id
      BY <1>1, <1>3 DEF QuotesSound
    <3>2. i \in Ids /\ at'[i] = "resting"
      BY <1>1, <1>2, <3>1 DEF Resting, MMTypeOK
    <3>3. QED
      BY <1>3, <3>2 DEF Resting
  <2>3. stage' # "idle" /\ \A k \in Market : settled'[k] # None => shut'[k]
    BY <1>1, <1>3, <1>4 DEF QuotesSound
  <2>4. QED
    BY <1>3, <2>1, <2>2, <2>3 DEF QuotesSound
<1>11. \A k \in Market, x \in Side : SideSound(k, x)'
  BY <1>1, <1>7, QuietKeepsSides
<1>12. QED
  BY <1>5, <1>7, <1>8, <1>9, <1>10, <1>11 DEF MakerInv

----------------------------------------------------------------------------
(* Every step. *)

\* Some event is reacted to.
SomeReaction ==
    \E m, t, ms, asked, target, sides, gone :
        Reacting(m, t, ms, asked, Pulled(m, t, ms), target, sides, gone)

LEMMA EventKeepsInv ==
    ASSUME MakerInv, NEW m \in Market, NEW t \in Nat, NEW ms \in SUBSET Market,
           NEW asked, EventStep(m, t, ms, asked)
    PROVE  MakerInv' /\ SomeReaction
<1>1. MMTypeOK /\ LedgerTypeOK
  BY DEF MakerInv, LedgerInv, PositionInv
<1>2. PICK target, sides, gone : Reacting(m, t, ms, asked, Pulled(m, t, ms), target, sides, gone)
  BY <1>1, EventReacts
<1>3. MakerInv'
  BY <1>2, ReactingKeepsInv
<1>4. SomeReaction
  BY <1>2 DEF SomeReaction
<1>5. QED
  BY <1>3, <1>4

LEMMA MMSteps ==
    ASSUME MakerInv, [MMNext]_mmVars
    PROVE  MakerInv' /\ (SomeReaction \/ QuietStep)
<1>0. MMTypeOK /\ NothingOverdue /\ now \in Nat /\ known \in SUBSET Market
  BY DEF MakerInv, MMTypeOK
<1>1. ASSUME NEW t \in 1 .. MaxTime, BatchStarts(t) PROVE MakerInv' /\ QuietStep
  BY <1>1, BatchStartsIsStill, StillKeepsInv
<1>2. ASSUME NEW m \in Market, NEW b \in Tops, NewBook(m, b) PROVE MakerInv' /\ QuietStep
  BY <1>2, NewBookIsStill, StillKeepsInv
<1>3. ASSUME ConfirmBooks PROVE MakerInv' /\ QuietStep
  BY <1>3, ConfirmBooksIsStill, StillKeepsInv
<1>4. ASSUME NEW id \in Ids, NEW qty \in PrintSizes, PrintHits(id, qty) PROVE MakerInv' /\ QuietStep
  BY <1>4, PrintHitsFills, FillingKeepsInv
<1>5. ASSUME NEW m \in Market, PrintMisses(m) PROVE MakerInv' /\ QuietStep
  BY <1>5, PrintMissesIsStill, StillKeepsInv
<1>6. ASSUME NEW m \in Market, CloseMarket(m) PROVE MakerInv' /\ QuietStep
  BY <1>6, CloseMarketMoves, MovingKeepsInv
<1>7. ASSUME NEW o \in Outcomes, SettleMarket(o[1], o[2]) PROVE MakerInv' /\ QuietStep
  <2>1. o[1] \in Market /\ o[2] \in Value
    BY MarketMakerAssumption
  <2>2. QED
    BY <1>7, <2>1, SettleMarketMoves, MovingKeepsInv
<1>8. ASSUME FillCrossed PROVE MakerInv' /\ QuietStep
  BY <1>8, FillCrossedFills, FillingKeepsInv
<1>9. ASSUME BatchEnds PROVE MakerInv' /\ QuietStep
  BY <1>9, BatchEndsIsStill, StillKeepsInv
<1>10. ASSUME NEW m \in Market, DeliverBook(m) PROVE MakerInv' /\ SomeReaction
  BY <1>0, <1>10, DeliverBookIsEvent, EventKeepsInv
<1>11. ASSUME NEW m \in Market, DeliverTrade(m) PROVE MakerInv' /\ (SomeReaction \/ QuietStep)
  <2>1. CASE Reacts(m)
    BY <1>0, <1>11, <2>1, DeliverTradeIsEvent, EventKeepsInv
  <2>2. CASE ~Reacts(m)
    BY <1>11, <2>2, DeliverTradeIsStill, StillKeepsInv
  <2>3. QED
    BY <2>1, <2>2
<1>12. ASSUME NEW id \in Submitted, QuoteArrives(id) PROVE MakerInv' /\ QuietStep
  BY <1>12, QuoteArrivesMoves, MovingKeepsInv
<1>13. ASSUME NEW c \in cancels, CancelArrives(c) PROVE MakerInv' /\ QuietStep
  BY <1>13, CancelArrivesMoves, MovingKeepsInv
<1>14. ASSUME NEW n \in notices, FillNoticed(n) PROVE MakerInv' /\ SomeReaction
  <2>1. /\ n[1] \in Nat /\ n[2] \in Market /\ known \cup {n[2]} \in SUBSET Market
        /\ EventStep(n[2], n[1], known \cup {n[2]}, wakes)
    BY <1>0, <1>14, FillNoticedIsEvent
  <2>2. QED
    BY <2>1, EventKeepsInv
<1>15. ASSUME NEW w \in wakes, WakeUp(w) PROVE MakerInv' /\ SomeReaction
  <2>1. w[1] \in Nat /\ w[2] \in Market /\ EventStep(w[2], w[1], known, wakes \ {w})
    BY <1>0, <1>15, WakeUpIsEvent
  <2>2. QED
    BY <1>0, <2>1, EventKeepsInv
<1>16. ASSUME UNCHANGED mmVars PROVE MakerInv' /\ QuietStep
  <2>1. Still
    BY <1>16 DEF mmVars, clock, view, Still, MakerInv, MMTypeOK, QuotesSound
  <2>2. QED
    BY <2>1, StillKeepsInv
<1>17. QED
  BY <1>1, <1>2, <1>3, <1>4, <1>5, <1>6, <1>7, <1>8, <1>9, <1>10, <1>11, <1>12, <1>13, <1>14,
     <1>15, <1>16 DEF MMNext


LEMMA MMStarts == MMInit => MakerInv
<1> SUFFICES ASSUME MMInit PROVE MakerInv
  OBVIOUS
<1>1. /\ LedgerInit /\ now = 0 /\ stage = "idle" /\ fed = 0
      /\ topAt = [m \in Market |-> 0] /\ shut = [m \in Market |-> FALSE]
      /\ placed = 0 /\ quote = <<>> /\ due = <<>> /\ left = <<>> /\ at = <<>>
      /\ cancels = {} /\ notices = {} /\ wakes = {} /\ crossed = {} /\ news = {} /\ known = {}
      /\ busy = [m \in Market |-> [s \in Side |-> 0]]
      /\ lastPlace = [m \in Market |-> [s \in Side |-> None]]
      /\ cancelling = {} /\ nextRisk = 0
      /\ lastReact = [m \in Market |-> None] /\ killed = FALSE
  BY DEF MMInit
<1>2. LedgerInv
  BY <1>1, LedgerStarts
<1>3. Ids = {} /\ Submitted = {} /\ Resting = {}
  BY <1>1 DEF Ids, Submitted, Resting
<1>4. MMTypeOK
  <2>1. quote \in [Ids -> Quoted] /\ due \in [Ids -> Nat] /\ left \in [Ids -> Nat]
        /\ at \in [Ids -> {"submitted", "resting", "gone"}]
    BY <1>1, <1>3
  <2>2. /\ now \in Nat /\ stage \in {"idle", "batch"} /\ fed \in Nat
        /\ topAt \in [Market -> Nat] /\ shut \in [Market -> BOOLEAN] /\ placed \in Nat
        /\ cancels \subseteq Nat \X Ids
        /\ notices \subseteq Nat \X Market /\ wakes \subseteq Nat \X Market
        /\ crossed \subseteq Ids /\ news \subseteq {"book", "trade"} \X Market
        /\ known \subseteq Market /\ cancelling \subseteq Ids /\ nextRisk \in Nat /\ killed \in BOOLEAN
    BY <1>1
  <2>3. /\ busy \in [Market -> [Side -> Nat]]
        /\ lastPlace \in [Market -> [Side -> Nat \cup {None}]]
        /\ lastReact \in [Market -> Nat \cup {None}]
    BY <1>1
  <2>4. QED
    BY <2>1, <2>2, <2>3 DEF MMTypeOK
<1>5. NothingOverdue /\ QuotesSound
  <2>1. settled = [m \in Market |-> None]
    BY <1>1 DEF LedgerInit
  <2>2. QED
    BY <1>1, <1>3, <2>1 DEF NothingOverdue, QuotesSound
<1>6. \A m \in Market, s \in Side : SideSound(m, s)
  BY <1>1, <1>3 DEF SideSound
<1>7. QED
  BY <1>2, <1>4, <1>5, <1>6 DEF MakerInv

LEMMA MakerInvariance == MMSpec => []MakerInv
<1>1. MakerInv /\ [MMNext]_mmVars => MakerInv'
  BY MMSteps
<1>2. QED
  BY <1>1, MMStarts, PTL DEF MMSpec

----------------------------------------------------------------------------
(* The position limit. *)

\* A quote arrives before its side may be quoted again.
ArrivesInTime == SubmitLatency < MaxOf(BusyFor, MinRequote)

\* A side that is quoted has nothing on its way and nothing resting.
LEMMA PlacesAlone ==
    ASSUME MakerInv, ArrivesInTime,
           NEW m, NEW t, NEW ms, NEW asked, NEW pulled, NEW target, NEW sides, NEW gone,
           Reacting(m, t, ms, asked, pulled, target, sides, gone),
           NEW s \in Side, NEW want, Places(m, s, t, pulled, want)
    PROVE  LiveOf(m, s) = {}
<1>1. /\ m \in Market /\ t \in Nat /\ (\A id \in Submitted : t <= due[id])
      /\ MMTypeOK /\ SideSound(m, s)
  BY DEF Reacting, EventStep, MakerInv
<1>2. Resting \cap QuotesOf(m, s) = {} /\ ~(busy[m][s] > t) /\ ~TooSoon(m, s, t)
  BY DEF Places, HasLive, IsBusy
<1>3. ASSUME NEW id \in Submitted \cap QuotesOf(m, s) PROVE FALSE
  <2> DEFINE last == lastPlace[m][s]
             until == busy[m][s]
             arrival == due[id]
  <2>1. last # None /\ last + BusyFor <= until /\ arrival <= last + SubmitLatency /\ t <= arrival
    BY <1>1, <1>3 DEF SideSound
  <2>2. last \in Nat /\ until \in Nat /\ arrival \in Nat
    BY <1>1, <1>3, <2>1 DEF MMTypeOK, Submitted
  <2>3. until <= t
    BY <1>1, <1>2, <2>2
  <2>4. ~(t - last < MinRequote)
    BY <1>2, <2>1 DEF TooSoon
  <2>5. BusyFor \in Nat /\ MinRequote \in Nat /\ SubmitLatency \in Nat
        /\ (SubmitLatency < BusyFor \/ SubmitLatency < MinRequote)
    BY MarketMakerAssumption DEF ArrivesInTime, MaxOf
  <2> HIDE DEF last, until, arrival
  <2>6. QED
    BY <1>1, <2>1, <2>2, <2>3, <2>4, <2>5
<1>4. QED
  BY <1>2, <1>3 DEF LiveOf

LEMMA ReactingKeepsOneLive ==
    ASSUME MakerInv, ArrivesInTime, OneLive,
           NEW m, NEW t, NEW ms, NEW asked, NEW pulled, NEW target, NEW sides, NEW gone,
           Reacting(m, t, ms, asked, pulled, target, sides, gone)
    PROVE  OneLive'
<1> SUFFICES ASSUME NEW k \in Market, NEW s \in Side, NEW a \in LiveOf(k, s)', NEW b \in LiveOf(k, s)'
             PROVE  a = b
  BY DEF OneLive
<1>1. MMTypeOK
  BY DEF MakerInv
<1>2. ASSUME NEW id \in LiveOf(k, s)'
      PROVE  \/ id \in LiveOf(k, s)
             \/ id \in NewIds /\ quote'[id].market = k /\ quote'[id].side = s /\ k = m /\ LiveOf(k, s) = {}
  <2>1. /\ id \in 1 .. placed' /\ quote'[id].market = k /\ quote'[id].side = s
        /\ at'[id] \in {"submitted", "resting"}
    BY DEF LiveOf, Submitted, Resting, QuotesOf, Ids
  <2>2. CASE id \in 1 .. placed /\ quote'[id] = quote[id] /\ at'[id] = at[id]
    BY <2>1, <2>2 DEF LiveOf, Submitted, Resting, QuotesOf, Ids
  <2>3. CASE id \in NewIds
    <3>1. k = m /\ Places(m, s, t, pulled, target[s])
      BY <2>1, <2>3, NewQuotes
    <3>2. LiveOf(m, s) = {}
      BY <3>1, PlacesAlone
    <3>3. QED
      BY <2>1, <2>3, <3>1, <3>2
  <2>4. QED
    BY <1>1, <2>1, <2>2, <2>3, OldOrNew
<1>3. \A i, j \in NewIds : quote'[i].side = quote'[j].side => i = j
  BY DEF Reacting, Reaction
<1>4. CASE LiveOf(k, s) = {}
  <2>1. a \in NewIds /\ quote'[a].side = s /\ b \in NewIds /\ quote'[b].side = s
    BY <1>2, <1>4
  <2>2. QED
    BY <1>3, <2>1
<1>5. CASE LiveOf(k, s) # {}
  <2>1. a \in LiveOf(k, s) /\ b \in LiveOf(k, s)
    BY <1>2, <1>5
  <2>2. QED
    BY <2>1 DEF OneLive
<1>6. QED
  BY <1>4, <1>5

\* Quiet steps add nothing to what is live.
LEMMA QuietLive ==
    ASSUME QuietStep, NEW k, NEW s
    PROVE  LiveOf(k, s)' \subseteq LiveOf(k, s)
<1>1. placed' = placed /\ quote' = quote
  BY DEF QuietStep, quotes
<1>2. \A id \in Ids : at'[id] \in {"submitted", "resting"} => at[id] \in {"submitted", "resting"}
  BY DEF QuietStep
<1>3. QED
  BY <1>1, <1>2 DEF LiveOf, Submitted, Resting, QuotesOf, Ids

LEMMA OneLiveSteps ==
    ASSUME MakerInv, ArrivesInTime, OneLive, SomeReaction \/ QuietStep
    PROVE  OneLive'
<1>1. CASE SomeReaction
  <2>1. PICK m, t, ms, asked, target, sides, gone :
            Reacting(m, t, ms, asked, Pulled(m, t, ms), target, sides, gone)
    BY <1>1 DEF SomeReaction
  <2>2. QED
    BY <2>1, ReactingKeepsOneLive
<1>2. CASE QuietStep
  BY <1>2, QuietLive DEF OneLive
<1>3. QED
  BY <1>1, <1>2


\* What a fill does to a position, seen from either side.
LEMMA FillMovesNet ==
    ASSUME MakerInv, NEW m \in Market, NEW side \in Side, NEW price \in Price, NEW qty \in Nat,
           NEW s \in Side
    PROVE  SideNet(Netted(Added(held[m], side, price, qty)), s)
               = IF s = side THEN SideNet(held[m], s) + qty ELSE SideNet(held[m], s) - qty
<1> DEFINE h == held[m]
           added == Added(h, side, price, qty)
           after == Netted(added)
<1>1. h \in Holding /\ Sound(h)
  BY DEF MakerInv, LedgerInv, PositionInv, LedgerTypeOK, MarketSound
<1>2. added \in Holding /\ Sound(added)
  BY <1>1, AddingIsSound
<1>3. added.qty = [h.qty EXCEPT ![side] = @ + qty]
  BY DEF Added
<1> HIDE DEF h, added
<1>4. after.qty = [x \in Side |-> added.qty[x] - Pairs(added)] /\ Pairs(added) \in Nat
  BY <1>2, NettingIsSound
<1> HIDE DEF after
<1>5. /\ h.qty \in [Side -> Nat] /\ h.qty["YES"] \in Nat /\ h.qty["NO"] \in Nat
  BY <1>1 DEF Holding, Side
<1>6. /\ added.qty["YES"] = IF side = "YES" THEN h.qty["YES"] + qty ELSE h.qty["YES"]
      /\ added.qty["NO"] = IF side = "NO" THEN h.qty["NO"] + qty ELSE h.qty["NO"]
  BY <1>3, <1>5 DEF Side
<1>7. /\ after.qty["YES"] = added.qty["YES"] - Pairs(added)
      /\ after.qty["NO"] = added.qty["NO"] - Pairs(added)
  BY <1>4 DEF Side
<1> DEFINE yes == h.qty["YES"]
           no == h.qty["NO"]
           pairs == Pairs(added)
<1>8. /\ NetYes(h) = yes - no
      /\ NetYes(after) = (IF side = "YES" THEN yes + qty ELSE yes) - pairs
                         - ((IF side = "NO" THEN no + qty ELSE no) - pairs)
  BY <1>6, <1>7 DEF NetYes
<1>9. yes \in Nat /\ no \in Nat /\ pairs \in Nat
  BY <1>4, <1>5
<1> HIDE DEF yes, no, pairs
<1>10. NetYes(after) = IF side = "YES" THEN NetYes(h) + qty ELSE NetYes(h) - qty
  <2>1. side = "YES" \/ side = "NO"
    BY DEF Side
  <2>2. QED
    BY <1>8, <1>9, <2>1
<1>11. NetYes(h) \in Int
  BY <1>8, <1>9
<1>12. (s = "YES" \/ s = "NO") /\ (side = "YES" \/ side = "NO")
  BY DEF Side
<1>13. SideNet(after, s) = IF s = side THEN SideNet(h, s) + qty ELSE SideNet(h, s) - qty
  BY <1>10, <1>11, <1>12 DEF SideNet
<1>14. QED
  BY <1>13 DEF after, added, h

LEMMA ReactingKeepsLimit ==
    ASSUME MakerInv, WithinLimit,
           NEW m, NEW t, NEW ms, NEW asked, NEW pulled, NEW target, NEW sides, NEW gone,
           Reacting(m, t, ms, asked, pulled, target, sides, gone)
    PROVE  WithinLimit'
<1>1. MMTypeOK /\ shut' = shut /\ held' = held
  BY DEF MakerInv, Reacting, EventStep, view, ledger
<1> SUFFICES ASSUME NEW k \in Market, NEW s \in Side, ~shut'[k]
             PROVE  /\ SideNet(held'[k], s) <= MaxPosition
                    /\ \A id \in LiveOf(k, s)' : SideNet(held'[k], s) + left'[id] <= MaxPosition
  BY DEF WithinLimit
<1>2. /\ SideNet(held[k], s) <= MaxPosition
      /\ \A id \in LiveOf(k, s) : SideNet(held[k], s) + left[id] <= MaxPosition
  BY <1>1 DEF WithinLimit
<1>3. ASSUME NEW id \in LiveOf(k, s)'
      PROVE  SideNet(held[k], s) + left'[id] <= MaxPosition
  <2>1. /\ id \in 1 .. placed' /\ quote'[id].market = k /\ quote'[id].side = s
        /\ at'[id] \in {"submitted", "resting"}
    BY DEF LiveOf, Submitted, Resting, QuotesOf, Ids
  <2>2. CASE id \in 1 .. placed /\ quote'[id] = quote[id] /\ at'[id] = at[id] /\ left'[id] = left[id]
    <3>1. id \in LiveOf(k, s)
      BY <2>1, <2>2 DEF LiveOf, Submitted, Resting, QuotesOf, Ids
    <3>2. QED
      BY <1>2, <2>2, <3>1
  <2>3. CASE id \in NewIds
    BY <2>1, <2>3, NewQuotes
  <2>4. QED
    BY <1>1, <2>1, <2>2, <2>3, OldOrNew
<1>4. QED
  BY <1>1, <1>2, <1>3

LEMMA QuietKeepsLimit ==
    ASSUME MakerInv, WithinLimit, OneLive, QuietStep
    PROVE  WithinLimit'
<1> SUFFICES ASSUME NEW k \in Market, NEW s \in Side, ~shut'[k]
             PROVE  /\ SideNet(held'[k], s) <= MaxPosition
                    /\ \A id \in LiveOf(k, s)' : SideNet(held'[k], s) + left'[id] <= MaxPosition
  BY DEF WithinLimit
<1>1. ~shut[k] /\ LiveOf(k, s)' \subseteq LiveOf(k, s)
  BY QuietLive DEF QuietStep
<1>2. /\ SideNet(held[k], s) <= MaxPosition
      /\ \A id \in LiveOf(k, s) : SideNet(held[k], s) + left[id] <= MaxPosition
  BY <1>1 DEF WithinLimit
<1>3. CASE left' = left /\ \A m \in Market : ~shut'[m] => held'[m] = held[m]
  BY <1>1, <1>2, <1>3
<1>4. CASE \E id \in Resting : \E qty \in 1 .. left[id] :
              /\ left' = [left EXCEPT ![id] = @ - qty]
              /\ held' = [held EXCEPT ![quote[id].market] =
                     Netted(Added(@, quote[id].side, quote[id].price, qty))]
  <2>1. PICK id \in Resting : \E qty \in 1 .. left[id] :
              /\ left' = [left EXCEPT ![id] = @ - qty]
              /\ held' = [held EXCEPT ![quote[id].market] =
                     Netted(Added(@, quote[id].side, quote[id].price, qty))]
    BY <1>4
  <2>2. PICK qty \in 1 .. left[id] :
              /\ left' = [left EXCEPT ![id] = @ - qty]
              /\ held' = [held EXCEPT ![quote[id].market] =
                     Netted(Added(@, quote[id].side, quote[id].price, qty))]
    BY <2>1
  <2> DEFINE m == quote[id].market
             side == quote[id].side
             price == quote[id].price
             net == SideNet(held[k], s)
  <2>3. /\ id \in Ids /\ m \in Market /\ side \in Side /\ price \in 1 .. PriceScale - 1
        /\ left[id] \in Nat /\ left \in [Ids -> Nat] /\ held \in [Market -> Holding]
    BY DEF MakerInv, MMTypeOK, Resting, Quoted, LedgerInv, PositionInv, LedgerTypeOK
  <2>4. qty \in Nat \ {0} /\ qty <= left[id]
    BY <2>2, <2>3
  <2>5. price \in Price
    <3>1. price \in Quote
      BY <2>3, MarketMakerAssumption
    <3>2. PriceScale \in Nat
      BY OrderBookAssumption
    <3> HIDE DEF price
    <3>3. CheckPrice(price)
      BY <2>3, <3>2 DEF CheckPrice
    <3>4. QED
      BY <3>1, <3>3 DEF Price
  <2>6. held'[m] = Netted(Added(held[m], side, price, qty)) /\ \A q \in Market : q # m => held'[q] = held[q]
    BY <2>2, <2>3
  <2>7. left'[id] = left[id] - qty /\ \A i \in Ids : i # id => left'[i] = left[i]
    BY <2>2, <2>3
  <2>8. net \in Int /\ MaxPosition \in Nat
    BY <2>3, RoomIsTheRest, RiskAssumption
  <2>9. \A i \in LiveOf(k, s) : i \in Ids /\ left[i] \in Nat
    BY <2>3 DEF LiveOf, QuotesOf
  <2>10. CASE k # m
    <3>1. held'[k] = held[k]
      BY <2>6, <2>10
    <3>2. id \notin LiveOf(k, s)
      BY <2>10 DEF LiveOf, QuotesOf
    <3>3. \A i \in LiveOf(k, s) : left'[i] = left[i]
      BY <2>7, <2>9, <3>2
    <3>4. QED
      BY <1>1, <1>2, <3>1, <3>3
  <2>11. CASE k = m /\ s = side
    <3>1. id \in LiveOf(k, s)
      BY <2>3, <2>11 DEF LiveOf, QuotesOf
    <3>2. SideNet(held'[k], s) = net + qty
      BY <2>4, <2>5, <2>6, <2>11, FillMovesNet
    <3>3. net + left[id] <= MaxPosition
      BY <1>2, <3>1
    <3>4. \A i \in LiveOf(k, s) : i = id
      BY <3>1 DEF OneLive
    <3> HIDE DEF net
    <3>5. net + qty <= MaxPosition /\ net + qty + (left[id] - qty) <= MaxPosition
      BY <2>3, <2>4, <2>8, <3>3
    <3>6. QED
      BY <1>1, <2>7, <3>2, <3>4, <3>5
  <2>12. CASE k = m /\ s # side
    <3>1. SideNet(held'[k], s) = net - qty
      <4> HIDE DEF m, side, price
      <4>1. SideNet(Netted(Added(held[m], side, price, qty)), s) = SideNet(held[m], s) - qty
        BY <2>3, <2>4, <2>5, <2>12, FillMovesNet
      <4>2. QED
        BY <2>6, <2>12, <4>1
    <3>2. id \notin LiveOf(k, s)
      BY <2>12 DEF LiveOf, QuotesOf
    <3>3. \A i \in LiveOf(k, s) : left'[i] = left[i]
      BY <2>7, <2>9, <3>2
    <3>4. net <= MaxPosition /\ \A i \in LiveOf(k, s) : net + left[i] <= MaxPosition
      BY <1>2
    <3> HIDE DEF net
    <3>5. net - qty <= MaxPosition
      BY <2>4, <2>8, <3>4
    <3>6. \A i \in LiveOf(k, s) : net - qty + left[i] <= MaxPosition
      BY <2>4, <2>8, <2>9, <3>4
    <3>7. QED
      BY <1>1, <3>1, <3>3, <3>5, <3>6
  <2>13. QED
    BY <2>10, <2>11, <2>12
<1>5. QED
  BY <1>3, <1>4 DEF QuietStep


LEMMA WithinLimitSteps ==
    ASSUME MakerInv, WithinLimit, OneLive, SomeReaction \/ QuietStep
    PROVE  WithinLimit'
<1>1. CASE SomeReaction
  <2>1. PICK m, t, ms, asked, target, sides, gone :
            Reacting(m, t, ms, asked, Pulled(m, t, ms), target, sides, gone)
    BY <1>1 DEF SomeReaction
  <2>2. QED
    BY <2>1, ReactingKeepsLimit
<1>2. CASE QuietStep
  BY <1>2, QuietKeepsLimit
<1>3. QED
  BY <1>1, <1>2

\* With one quote at most on a side, what is exposed is that quote.
LEMMA ExposedIsOneQuote ==
    ASSUME MakerInv, OneLive, WithinLimit, NEW m \in Market, NEW s \in Side, ~shut[m]
    PROVE  /\ Exposed(m, s) \in Int
           /\ SideNet(held[m], s) + Exposed(m, s) <= MaxPosition
<1> DEFINE f == [id \in Ids |-> IF id \in LiveOf(m, s) THEN left[id] ELSE 0]
           zero == [id \in Ids |-> 0]
           net == SideNet(held[m], s)
<1>1. /\ placed \in Nat /\ Ids = 1 .. placed /\ left \in [Ids -> Nat] /\ LiveOf(m, s) \subseteq Ids
      /\ held[m] \in Holding
  BY DEF MakerInv, MMTypeOK, Ids, LiveOf, QuotesOf, LedgerInv, PositionInv, LedgerTypeOK
<1>2. net \in Int /\ MaxPosition \in Nat
  BY <1>1, RoomIsTheRest, RiskAssumption
<1>3. zero \in [1 .. placed -> Int] /\ \A i \in 1 .. placed : zero[i] = 0
  BY <1>1
<1>4. Total(zero, placed) = 0
  <2> HIDE DEF zero
  <2>1. QED
    BY <1>1, <1>3, TotalOfZeros
<1>5. net <= MaxPosition /\ \A id \in LiveOf(m, s) : net + left[id] <= MaxPosition
  BY DEF WithinLimit
<1>6. Exposed(m, s) = Total(f, placed)
  BY DEF Exposed
<1>7. CASE LiveOf(m, s) = {}
  <2>1. f = zero
    BY <1>7
  <2> HIDE DEF f, zero, net
  <2>2. QED
    BY <1>2, <1>4, <1>5, <1>6, <2>1 DEF net
<1>8. CASE LiveOf(m, s) # {}
  <2>1. PICK id \in LiveOf(m, s) : TRUE
    BY <1>8
  <2>2. \A i \in LiveOf(m, s) : i = id
    BY <2>1 DEF OneLive
  <2>3. f = [zero EXCEPT ![id] = left[id]]
    BY <1>1, <2>1, <2>2
  <2>4. id \in 1 .. placed /\ left[id] \in Nat /\ left[id] \in Int
    BY <1>1, <2>1
  <2>5. Total(f, placed) = Total(zero, placed) - zero[id] + left[id]
    <3> HIDE DEF f, zero
    <3>1. QED
      BY <1>1, <1>3, <2>3, <2>4, TotalUpdate
  <2> HIDE DEF f, zero, net
  <2>6. Exposed(m, s) = left[id]
    BY <1>3, <1>4, <1>6, <2>4, <2>5
  <2>7. QED
    BY <1>2, <1>5, <2>1, <2>4, <2>6 DEF net
<1>9. QED
  BY <1>7, <1>8

\* The position limit holds whatever is filled: with every quote that is on its way, resting or
\* being cancelled filled, it is still kept, in any market that still trades, whenever a quote
\* arrives before its side may be acted on again.
THEOREM PositionStaysBounded == MMSpec => []PositionIsBounded
<1>1. CASE ArrivesInTime
  <2>1. MMInit => OneLive /\ WithinLimit
    <3> SUFFICES ASSUME MMInit PROVE OneLive /\ WithinLimit
      OBVIOUS
    <3>1. Ids = {} /\ held = [m \in Market |-> Flat]
      BY DEF MMInit, Ids, LedgerInit
    <3>2. \A m, s : LiveOf(m, s) = {}
      BY <3>1 DEF LiveOf, QuotesOf
    <3>3. \A m \in Market, s \in Side : SideNet(held[m], s) = 0
      BY <3>1 DEF SideNet, NetYes, Flat, Side
    <3>4. QED
      BY <3>2, <3>3, RiskAssumption DEF OneLive, WithinLimit
  <2>2. MakerInv /\ OneLive /\ WithinLimit /\ [MMNext]_mmVars => (OneLive /\ WithinLimit)'
    BY <1>1, MMSteps, OneLiveSteps, WithinLimitSteps
  <2>3. MakerInv /\ OneLive /\ WithinLimit => PositionIsBounded
    <3> SUFFICES ASSUME MakerInv, OneLive, WithinLimit, NEW m \in Market, ~shut[m]
                 PROVE  /\ NetYes(held[m]) + Exposed(m, "YES") <= MaxPosition
                        /\ Exposed(m, "NO") - NetYes(held[m]) <= MaxPosition
      BY DEF PositionIsBounded
    <3>1. "YES" \in Side /\ "NO" \in Side /\ held[m] \in Holding
      BY DEF Side, MakerInv, LedgerInv, PositionInv, LedgerTypeOK
    <3>2. /\ SideNet(held[m], "YES") = NetYes(held[m]) /\ SideNet(held[m], "NO") = -NetYes(held[m])
          /\ SideNet(held[m], "YES") \in Int
      BY <3>1, RoomIsTheRest DEF SideNet
    <3>3. /\ Exposed(m, "YES") \in Int /\ Exposed(m, "NO") \in Int
          /\ SideNet(held[m], "YES") + Exposed(m, "YES") <= MaxPosition
          /\ SideNet(held[m], "NO") + Exposed(m, "NO") <= MaxPosition
      BY <3>1, ExposedIsOneQuote
    <3>4. QED
      BY <3>2, <3>3, RiskAssumption
  <2>4. QED
    BY <2>1, <2>2, <2>3, MakerInvariance, PTL DEF MMSpec
<1>2. CASE ~ArrivesInTime
  <2>1. PositionIsBounded
    BY <1>2 DEF ArrivesInTime, PositionIsBounded
  <2>2. QED
    BY <2>1, PTL
<1>3. QED
  BY <1>1, <1>2


----------------------------------------------------------------------------
(* The kill switch. *)

LEMMA KillStarts == ASSUME MMInit PROVE RiskIsNear /\ KillPullsEverything
<1>1. nextRisk = 0 /\ now = 0 /\ killed = FALSE
  BY DEF MMInit
<1>2. QED
  BY <1>1, MarketMakerAssumption DEF RiskIsNear, KillPullsEverything

LEMMA ReactingKeepsKill ==
    ASSUME MakerInv, RiskIsNear, KillPullsEverything,
           NEW m, NEW t, NEW ms, NEW asked, NEW pulled, NEW target, NEW sides, NEW gone,
           Reacting(m, t, ms, asked, pulled, target, sides, gone)
    PROVE  RiskIsNear' /\ KillPullsEverything'
<1>1. /\ MMTypeOK /\ t \in Nat /\ now' = t /\ now <= t /\ now \in Nat /\ nextRisk \in Nat
      /\ RiskEvery \in Nat /\ nextRisk <= now + RiskEvery
  BY MarketMakerAssumption DEF MakerInv, MMTypeOK, Reacting, EventStep, RiskIsNear
<1>2. /\ killed' = StoppedAt(t, ms) /\ pulled = Pulled(m, t, ms)
      /\ nextRisk' = IF CheckDue(t) THEN t + RiskEvery ELSE nextRisk
      /\ cancelling' = cancelling \cup gone /\ pulled \subseteq gone
  BY DEF Reacting, Reaction
<1>3. RiskIsNear'
  <2>1. nextRisk' = t + RiskEvery \/ nextRisk' = nextRisk
    BY <1>2
  <2>2. nextRisk' <= t + RiskEvery
    BY <1>1, <2>1
  <2>3. QED
    BY <1>1, <2>2 DEF RiskIsNear
<1>4. Resting' \subseteq Resting /\ \A id \in Resting' : due'[id] = due[id]
  <2> SUFFICES ASSUME NEW id \in Resting' PROVE id \in Resting /\ due'[id] = due[id]
    OBVIOUS
  <2>1. id \in 1 .. placed' /\ at'[id] = "resting"
    BY DEF Resting, Ids
  <2>2. CASE id \in 1 .. placed /\ at'[id] = at[id] /\ due'[id] = due[id]
    BY <2>1, <2>2 DEF Resting, Ids
  <2>3. CASE id \in NewIds
    BY <2>1, <2>3, NewQuotes
  <2>4. QED
    BY <1>1, <2>1, <2>2, <2>3, OldOrNew
<1>5. CASE CheckDue(t)
  <2>1. StoppedAt(t, ms) => pulled = Resting \ cancelling
    BY <1>2, <1>5 DEF Pulled
  <2>2. killed' => Resting' \ cancelling' = {}
    BY <1>2, <1>4, <2>1
  <2>3. QED
    BY <1>3, <2>2 DEF KillPullsEverything
<1>6. CASE ~CheckDue(t)
  <2>1. killed' = killed /\ nextRisk' = nextRisk
    BY <1>1, <1>2, <1>6 DEF StoppedAt, MMTypeOK
  <2>2. (Resting \ cancelling)' \subseteq Resting \ cancelling
    BY <1>2, <1>4
  <2>3. QED
    BY <1>3, <1>4, <2>1, <2>2 DEF KillPullsEverything
<1>7. QED
  BY <1>5, <1>6

LEMMA QuietKeepsKill ==
    ASSUME MakerInv, RiskIsNear, KillPullsEverything, QuietStep
    PROVE  RiskIsNear' /\ KillPullsEverything'
<1>1. /\ now \in Nat /\ now' \in Nat /\ now <= now' /\ nextRisk \in Nat /\ RiskEvery \in Nat
      /\ nextRisk <= now + RiskEvery
      /\ UNCHANGED <<placed, due, cancelling, nextRisk, killed>>
  BY MarketMakerAssumption DEF MakerInv, MMTypeOK, RiskIsNear, QuietStep, quotes
<1> DEFINE then == now'
<1>2. nextRisk <= then + RiskEvery
  <2>1. then \in Nat /\ now <= then
    BY <1>1
  <2> HIDE DEF then
  <2>2. QED
    BY <1>1, <2>1
<1>3. RiskIsNear'
  BY <1>1, <1>2 DEF RiskIsNear
<1>4. ASSUME killed', NEW id \in Resting' \ cancelling' PROVE due'[id] + RiskEvery >= nextRisk'
  <2>1. id \in Ids /\ at'[id] = "resting" /\ id \notin cancelling
    BY <1>1, <1>4 DEF Resting, Ids
  <2>2. CASE id \in Resting
    BY <1>1, <1>4, <2>1, <2>2 DEF KillPullsEverything
  <2>3. CASE id \notin Resting
    <3>1. due[id] = then
      BY <2>1, <2>3 DEF QuietStep, Resting
    <3>2. due'[id] = then /\ then \in Nat
      BY <1>1, <3>1
    <3> HIDE DEF then
    <3>3. then + RiskEvery >= nextRisk
      BY <1>1, <1>2, <3>2
    <3>4. QED
      BY <1>1, <3>2, <3>3
  <2>4. QED
    BY <2>2, <2>3
<1>5. QED
  BY <1>3, <1>4 DEF KillPullsEverything

LEMMA KillSteps ==
    ASSUME MakerInv, RiskIsNear, KillPullsEverything, SomeReaction \/ QuietStep
    PROVE  RiskIsNear' /\ KillPullsEverything'
<1>1. CASE SomeReaction
  <2>1. PICK m, t, ms, asked, target, sides, gone :
            Reacting(m, t, ms, asked, Pulled(m, t, ms), target, sides, gone)
    BY <1>1 DEF SomeReaction
  <2>2. QED
    BY <2>1, ReactingKeepsKill
<1>2. CASE QuietStep
  BY <1>2, QuietKeepsKill
<1>3. QED
  BY <1>1, <1>2

\* After a kill no quote is left alone for longer than one interval of the risk check, in any
\* market: what is not being cancelled came to rest since the last check.
THEOREM KillPullsAll == MMSpec => []KillPullsEverything
<1>1. MMInit => RiskIsNear /\ KillPullsEverything
  BY KillStarts
<1>2. MakerInv /\ RiskIsNear /\ KillPullsEverything /\ [MMNext]_mmVars
          => (RiskIsNear /\ KillPullsEverything)'
  BY MMSteps, KillSteps
<1>3. QED
  BY <1>1, <1>2, MakerInvariance, PTL DEF MMSpec


----------------------------------------------------------------------------
(* Quotes that cross each other. *)

\* A quote arrives before its side may be looked at again.
ArrivesFirst == SubmitLatency < BusyFor

\* A market that will not be looked at again has no side that is busy or was just corrected.
LEMMA NoRetries ==
    ASSUME MakerInv,
           NEW m, NEW t, NEW ms, NEW asked, NEW pulled, NEW target, NEW sides, NEW gone,
           Reacting(m, t, ms, asked, pulled, target, sides, gone),
           \A w \in wakes' : w[2] # m, NEW s \in Side
    PROVE  /\ ~IsBusy(m, s, t, pulled) /\ ~(busy[m][s] > t)
           /\ HasLive(m, s) => ~Outdated(Live(m, s), target[s])
<1>1. wakes' = asked \cup NewWakes(m, t, pulled, target)
  BY DEF Reacting
<1>2. ~Retries(m, s, t, pulled, target[s])
  <2>1. SUFFICES ASSUME Retries(m, s, t, pulled, target[s]) PROVE FALSE
    OBVIOUS
  <2>2. NewWakes(m, t, pulled, target) = {<<t + WakeAfter, m>>}
    BY <2>1 DEF NewWakes
  <2>3. <<t + WakeAfter, m>> \in wakes'
    BY <1>1, <2>2
  <2>4. QED
    BY <2>3
<1>3. ~IsBusy(m, s, t, pulled) /\ ~Withdraws(m, s, t, pulled, target[s])
  BY <1>2 DEF Retries
<1>4. QED
  BY <1>3 DEF IsBusy, Withdraws

\* There, what is live on a side is near the target of that side.
LEMMA LiveIsNearTarget ==
    ASSUME MakerInv, ArrivesFirst, OneLive,
           NEW m, NEW t, NEW ms, NEW asked, NEW pulled, NEW target, NEW sides, NEW gone,
           Reacting(m, t, ms, asked, pulled, target, sides, gone),
           \A w \in wakes' : w[2] # m, NEW s \in Side, NEW id \in LiveOf(m, s)'
    PROVE  /\ target[s] # None
           /\ quote'[id].price \in Int /\ target[s].price \in Int
           /\ quote'[id].price - target[s].price <= Requote - 1
<1>1. /\ MMTypeOK /\ m \in Market /\ t \in Nat /\ SideSound(m, s) /\ TargetSound(target, m)
      /\ \A i \in Submitted : t <= due[i]
  BY DEF Reacting, Reaction, EventStep, MakerInv
<1>2. /\ id \in 1 .. placed' /\ quote'[id].market = m /\ quote'[id].side = s
      /\ at'[id] \in {"submitted", "resting"}
  BY DEF LiveOf, Submitted, Resting, QuotesOf, Ids
<1>3. Requote \in Nat \ {0} /\ BusyFor \in Nat /\ SubmitLatency \in Nat /\ SubmitLatency < BusyFor
  BY MarketMakerAssumption DEF ArrivesFirst
<1>4. target[s] # None => target[s].price \in 1 .. PriceScale - 1 /\ target[s].price \in Int
  BY <1>1, OrderBookAssumption DEF TargetSound
<1>5. CASE id \in NewIds
  <2>1. target[s] # None /\ quote'[id].price = target[s].price
    BY <1>2, <1>5, NewQuotes
  <2>2. QED
    BY <1>3, <1>4, <2>1
<1>6. CASE id \in 1 .. placed /\ quote'[id] = quote[id] /\ at'[id] = at[id]
  <2>1. id \in LiveOf(m, s)
    BY <1>2, <1>6 DEF LiveOf, Submitted, Resting, QuotesOf, Ids
  <2>2. ~(busy[m][s] > t) /\ (HasLive(m, s) => ~Outdated(Live(m, s), target[s]))
    BY NoRetries
  <2>3. id \notin Submitted
    <3> SUFFICES ASSUME id \in Submitted PROVE FALSE
      OBVIOUS
    <3> DEFINE last == lastPlace[m][s]
               until == busy[m][s]
               arrival == due[id]
    <3>1. id \in Submitted \cap QuotesOf(m, s)
      BY <2>1 DEF LiveOf
    <3>2. last # None /\ last + BusyFor <= until /\ arrival <= last + SubmitLatency /\ t <= arrival
      BY <1>1, <3>1 DEF SideSound
    <3>3. last \in Nat /\ until \in Nat /\ arrival \in Nat
      BY <1>1, <3>2, <3>1 DEF MMTypeOK, Submitted
    <3>4. until <= t
      BY <1>1, <2>2, <3>3
    <3> HIDE DEF last, until, arrival
    <3>5. QED
      BY <1>1, <1>3, <3>2, <3>3, <3>4
  <2>4. HasLive(m, s)
    BY <2>1, <2>3 DEF HasLive, LiveOf
  <2>5. Live(m, s) = id
    <3>1. Live(m, s) \in Resting \cap QuotesOf(m, s)
      BY <1>1, <2>4, LiveRests
    <3>2. Live(m, s) \in LiveOf(m, s)
      BY <3>1 DEF LiveOf
    <3>3. QED
      BY <1>1, <2>1, <3>2 DEF OneLive
  <2>6. ~Outdated(id, target[s])
    BY <2>2, <2>4, <2>5
  <2>7. target[s] # None /\ ~(quote[id].price - target[s].price >= Requote)
    BY <2>6 DEF Outdated
  <2>8. quote[id].price \in Int
    BY <1>1, <1>6, OrderBookAssumption DEF MMTypeOK, Ids, Quoted
  <2>9. QED
    BY <1>3, <1>4, <1>6, <2>7, <2>8
<1>7. QED
  BY <1>1, <1>2, <1>5, <1>6, OldOrNew

LEMMA ReactingKeepsCrosses ==
    ASSUME MakerInv, ArrivesFirst, OneLive, CrossesHandled,
           NEW m, NEW t, NEW ms, NEW asked, NEW pulled, NEW target, NEW sides, NEW gone,
           Reacting(m, t, ms, asked, pulled, target, sides, gone)
    PROVE  CrossesHandled'
<1> SUFFICES ASSUME NEW a \in (Submitted \cup Resting)', NEW b \in (Submitted \cup Resting)',
                    Crossing(a, b)'
             PROVE  Handled(a, b)'
  BY DEF CrossesHandled
<1>1. /\ MMTypeOK /\ cancelling \subseteq cancelling' /\ TargetSound(target, m)
      /\ asked \subseteq wakes' /\ \A w \in wakes \ asked : w[2] = m
  BY DEF MakerInv, Reacting, Reaction, EventStep
<1>2. /\ quote'[a].market = quote'[b].market
      /\ quote'[a].side = "YES" /\ quote'[b].side = "NO"
      /\ quote'[a].price + quote'[b].price >= PriceScale + 2 * (Requote - 1)
  BY DEF Crossing
<1>3. CASE quote'[a].market = m /\ \A w \in wakes' : w[2] # m
  <2>1. a \in LiveOf(m, "YES")' /\ b \in LiveOf(m, "NO")' /\ "YES" \in Side /\ "NO" \in Side
    BY <1>2, <1>3 DEF LiveOf, QuotesOf, Submitted, Resting, Side
  <2>2. /\ target["YES"] # None
        /\ quote'[a].price \in Int /\ target["YES"].price \in Int
        /\ quote'[a].price - target["YES"].price <= Requote - 1
    BY <1>3, <2>1, LiveIsNearTarget
  <2>3. /\ target["NO"] # None
        /\ quote'[b].price \in Int /\ target["NO"].price \in Int
        /\ quote'[b].price - target["NO"].price <= Requote - 1
    BY <1>3, <2>1, LiveIsNearTarget
  <2>4. target["YES"].price + target["NO"].price < PriceScale
    BY <1>1, <2>2, <2>3 DEF TargetSound
  <2> DEFINE p == quote'[a].price
             q == quote'[b].price
             x == target["YES"].price
             y == target["NO"].price
  <2>5. /\ p \in Int /\ q \in Int /\ x \in Int /\ y \in Int /\ PriceScale \in Int /\ Requote \in Int
        /\ p - x <= Requote - 1 /\ q - y <= Requote - 1 /\ x + y < PriceScale
        /\ p + q >= PriceScale + 2 * (Requote - 1)
    BY <1>2, <2>2, <2>3, <2>4, OrderBookAssumption, MarketMakerAssumption
  <2> HIDE DEF p, q, x, y
  <2>6. FALSE
    BY <2>5
  <2>7. QED
    BY <2>6
<1>4. CASE quote'[a].market = m /\ \E w \in wakes' : w[2] = m
  BY <1>4 DEF Handled
<1>5. CASE quote'[a].market # m
  <2>1. ASSUME NEW id \in (Submitted \cup Resting)', quote'[id].market # m
        PROVE  id \in Submitted \cup Resting /\ quote'[id] = quote[id]
    <3>1. id \in 1 .. placed' /\ at'[id] \in {"submitted", "resting"}
      BY DEF Submitted, Resting, Ids
    <3>2. id \notin NewIds
      BY <2>1, NewQuotes
    <3>3. id \in 1 .. placed /\ quote'[id] = quote[id] /\ at'[id] = at[id]
      BY <1>1, <3>1, <3>2, OldOrNew
    <3>4. QED
      BY <3>1, <3>3 DEF Submitted, Resting, Ids
  <2>2. /\ a \in Submitted \cup Resting /\ b \in Submitted \cup Resting
        /\ quote'[a] = quote[a] /\ quote'[b] = quote[b]
    BY <1>2, <1>5, <2>1
  <2>3. Crossing(a, b)
    BY <1>2, <2>2 DEF Crossing
  <2>4. Handled(a, b)
    BY <2>2, <2>3 DEF CrossesHandled
  <2>5. CASE \E w \in wakes : w[2] = quote[a].market
    <3>1. PICK w \in wakes : w[2] = quote[a].market
      BY <2>5
    <3>2. w \in wakes'
      BY <1>1, <1>5, <2>2, <3>1
    <3>3. QED
      BY <2>2, <3>1, <3>2 DEF Handled
  <2>6. QED
    BY <1>1, <2>4, <2>5 DEF Handled
<1>6. QED
  BY <1>3, <1>4, <1>5

LEMMA CrossesSteps ==
    ASSUME MakerInv, ArrivesFirst, OneLive, CrossesHandled, SomeReaction \/ QuietStep
    PROVE  CrossesHandled'
<1>1. CASE SomeReaction
  <2>1. PICK m, t, ms, asked, target, sides, gone :
            Reacting(m, t, ms, asked, Pulled(m, t, ms), target, sides, gone)
    BY <1>1 DEF SomeReaction
  <2>2. QED
    BY <2>1, ReactingKeepsCrosses
<1>2. CASE QuietStep
  <2>1. UNCHANGED <<placed, quote, wakes, cancelling>>
    BY <1>2 DEF QuietStep, quotes
  <2>2. (Submitted \cup Resting)' \subseteq Submitted \cup Resting
    BY <1>2, <2>1 DEF QuietStep, Submitted, Resting, Ids
  <2>3. QED
    BY <2>1, <2>2 DEF CrossesHandled, Crossing, Handled
<1>3. QED
  BY <1>1, <1>2

\* A bid and an ask of one market that cross each other by more than both may be off their
\* targets are never left alone, whenever a quote arrives before its side may be looked at again.
THEOREM SelfCrossStaysHandled == ASSUME ArrivesFirst PROVE MMSpec => []SelfCrossIsHandled
<1>1. ArrivesInTime
  BY MarketMakerAssumption DEF ArrivesFirst, ArrivesInTime, MaxOf
<1>2. MMInit => OneLive /\ CrossesHandled
  <2> SUFFICES ASSUME MMInit PROVE OneLive /\ CrossesHandled
    OBVIOUS
  <2>1. Ids = {}
    BY DEF MMInit, Ids
  <2>2. QED
    BY <2>1 DEF OneLive, CrossesHandled, LiveOf, QuotesOf, Submitted, Resting
<1>3. MakerInv /\ OneLive /\ CrossesHandled /\ [MMNext]_mmVars => (OneLive /\ CrossesHandled)'
  BY <1>1, MMSteps, OneLiveSteps, CrossesSteps
<1>4. CrossesHandled => SelfCrossIsHandled
  BY DEF CrossesHandled, SelfCrossIsHandled
<1>5. QED
  BY <1>2, <1>3, <1>4, MakerInvariance, PTL DEF MMSpec


----------------------------------------------------------------------------
(* The account. *)

\* Whatever the market maker does, and whatever is done to its quotes, its state is of these
\* types, nothing scheduled is passed over and no quote is filled that is not resting.
THEOREM MakerStaysTyped == MMSpec => [](MMTypeOK /\ NothingOverdue /\ QuotesSound)
<1>1. MakerInv => MMTypeOK /\ NothingOverdue /\ QuotesSound
  BY DEF MakerInv
<1>2. QED
  BY <1>1, MakerInvariance, PTL

\* Its account is moved by the purchases and settlements of the ledger and by nothing else: the
\* market maker implements LedgerSpec, and all that is proved of that holds of its account.
THEOREM AccountIsALedger == MMSpec => LedgerSpec
<1>1. MMInit => LedgerInit
  BY DEF MMInit
<1>2. ASSUME MakerInv, [MMNext]_mmVars PROVE [LedgerNext]_ledger
  <2>1. ASSUME NEW id, NEW qty, Filling(id, qty) PROVE LedgerNext
    <3>1. /\ quote[id].market \in Market /\ quote[id].side \in Side
          /\ quote[id].price \in Price /\ qty \in Nat \ {0} /\ 0 \in Nat
          /\ Buy(quote[id].market, quote[id].side, quote[id].price, qty, 0)
      BY <1>2, <2>1, FillFacts
    <3>2. QED
      BY <3>1 DEF LedgerNext
  <2>2. ASSUME NEW o \in Outcomes, SettleMarket(o[1], o[2]) PROVE LedgerNext
    <3>1. o[1] \in Market /\ o[2] \in Value /\ Settle(o[1], o[2])
      BY <2>2, MarketMakerAssumption DEF SettleMarket
    <3>2. QED
      BY <3>1 DEF LedgerNext
  <2>3. ASSUME NEW id \in Ids, NEW qty \in PrintSizes, PrintHits(id, qty) PROVE LedgerNext
    BY <1>2, <2>1, <2>3, PrintHitsFills
  <2>4. ASSUME FillCrossed PROVE LedgerNext
    BY <1>2, <2>1, <2>4, FillCrossedFills
  <2>5. ASSUME NEW t \in 1 .. MaxTime, BatchStarts(t) PROVE UNCHANGED ledger
    BY <2>5 DEF BatchStarts
  <2>6. ASSUME NEW m \in Market, NEW b \in Tops, NewBook(m, b) PROVE UNCHANGED ledger
    BY <2>6 DEF NewBook
  <2>7. ASSUME ConfirmBooks \/ BatchEnds PROVE UNCHANGED ledger
    BY <2>7 DEF ConfirmBooks, BatchEnds
  <2>8. ASSUME NEW m \in Market,
               PrintMisses(m) \/ CloseMarket(m) \/ DeliverBook(m) \/ DeliverTrade(m)
        PROVE  UNCHANGED ledger
    BY <2>8 DEF PrintMisses, CloseMarket, DeliverBook, DeliverTrade
  <2>9. ASSUME NEW id \in Submitted, QuoteArrives(id) PROVE UNCHANGED ledger
    BY <2>9 DEF QuoteArrives
  <2>10. ASSUME NEW c \in cancels, CancelArrives(c) PROVE UNCHANGED ledger
    BY <2>10 DEF CancelArrives
  <2>11. ASSUME NEW n \in notices, FillNoticed(n) PROVE UNCHANGED ledger
    BY <2>11 DEF FillNoticed
  <2>12. ASSUME NEW w \in wakes, WakeUp(w) PROVE UNCHANGED ledger
    BY <2>12 DEF WakeUp
  <2>13. ASSUME UNCHANGED mmVars PROVE UNCHANGED ledger
    BY <2>13 DEF mmVars
  <2>14. QED
    BY <1>2, <2>2, <2>3, <2>4, <2>5, <2>6, <2>7, <2>8, <2>9, <2>10, <2>11, <2>12, <2>13 DEF MMNext
<1>3. QED
  BY <1>1, <1>2, MakerInvariance, PTL DEF MMSpec, LedgerSpec

=============================================================================
