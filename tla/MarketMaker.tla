----------------------------- MODULE MarketMaker -----------------------------
(***************************************************************************)
(* The market makers (market_making/baseline.py and adaptive.py) on the    *)
(* engine, as far as they see it: a quote is invisible until it arrives, a *)
(* cancel takes effect after its own latency, and in between books move,   *)
(* quotes are filled, markets close and the account may be stopped.        *)
(*                                                                         *)
(* The engine is the one of module Engine seen from outside: which resting *)
(* order a print fills, and how much of it, is left open, so that the      *)
(* market maker is checked under every fill model; fees are left out.      *)
(***************************************************************************)
EXTENDS Quoting, SequencesExt

CONSTANTS
    Tops,               \* best YES and NO bids a feed can show, 0 for none
    Outcomes,           \* <<market, settlement value>>
    Signals,            \* what the adaptive models can say (the baseline: one signal)
    ReactToTrades,      \* AdaptiveParams.react_to_trades; FALSE for the baseline
    TradeReact,         \* trade_react_s
    MaxSpread, MinFair, MaxFair,    \* max_spread; min_price, max_price in half ticks
    Requote,            \* requote_ticks
    MinRequote, BusyFor, WakeAfter, RiskEvery,  \* min_requote_s, busy_s, busy_s + 0.05, risk_check_s
    MaxBookAge,         \* max_book_age_s
    StopAt,             \* per market the last instant before the stop horizon, or None
    SubmitLatency, CancelLatency, AckLatency,
    MaxTime,            \* bound: the last instant looked at
    MaxFeed,            \* bound: events of the feed
    PrintSizes,         \* bound: what a print may fill of a quote
    MaxQuotes           \* bound: quotes ever placed

Signal == [shift : Int, half : Nat, size : Nat, gamma : Gamma]
\* Best bids per side, 0 for an empty one.
Top == [Side -> 0 .. PriceScale - 1]

ASSUME MarketMakerAssumption ==
    /\ Tops \subseteq Top /\ Outcomes \subseteq Market \X Value /\ Signals \subseteq Signal
    /\ ReactToTrades \in BOOLEAN
    /\ BusyFor \in Nat \ {0} /\ BusyFor < WakeAfter
    /\ WakeAfter \in Nat /\ MinRequote \in Nat /\ RiskEvery \in Nat /\ Requote \in Nat \ {0}
    /\ SubmitLatency \in Nat /\ CancelLatency \in Nat /\ AckLatency \in Nat
    /\ 1 .. PriceScale - 1 \subseteq Quote
    /\ StopAt \in [Market -> Nat \cup {None}]
    /\ None \notin Nat /\ None \notin Top

VARIABLES
    \* the engine
    now, stage,     \* "batch" while the events of one instant are applied
    top, topAt,     \* the best bids of the last book, and when it was current
    shut,
    placed,         \* quotes placed; their ids are 1 .. placed
    quote,          \* id -> market, side and price
    due, left,      \* id -> arrival, and quantity not filled
    at,             \* id -> "submitted", "resting" or "gone"
    cancels, notices, wakes,    \* scheduled <<time, id or market>>
    crossed,        \* resting quotes that the book being applied fills
    news,           \* <<kind, market>>: events of the batch to be delivered
    fed,            \* bound: events of the feed so far
    \* the market maker
    known,          \* _held: markets with a fill it has been told of
    busy, lastPlace,    \* _busy, _last_place: market -> side -> time
    cancelling,     \* _cancelling
    nextRisk,       \* _next_risk
    lastReact,      \* _last_react
    killed, peak    \* RiskState

clock == <<now, stage, fed>>
view == <<top, topAt, shut>>
quotes == <<placed, quote, due>>
pending == <<cancels, notices, wakes>>
maker == <<known, busy, lastPlace, cancelling, nextRisk, lastReact, killed, peak>>
mmVars == <<ledger, clock, view, quotes, left, at, pending, crossed, news, maker>>

Ids == 1 .. placed
Resting == {id \in Ids : at[id] = "resting"}
Submitted == {id \in Ids : at[id] = "submitted"}
QuotesOf(m, side) == {id \in Ids : quote[id].market = m /\ quote[id].side = side}

MMInit ==
    /\ LedgerInit
    /\ now = 0 /\ stage = "idle" /\ fed = 0
    /\ top = [m \in Market |-> None] /\ topAt = [m \in Market |-> 0]
    /\ shut = [m \in Market |-> FALSE]
    /\ placed = 0 /\ quote = <<>> /\ due = <<>> /\ left = <<>> /\ at = <<>>
    /\ cancels = {} /\ notices = {} /\ wakes = {} /\ crossed = {} /\ news = {}
    /\ known = {}
    /\ busy = [m \in Market |-> [s \in Side |-> 0]]
    /\ lastPlace = [m \in Market |-> [s \in Side |-> None]]
    /\ cancelling = {} /\ nextRisk = 0
    /\ lastReact = [m \in Market |-> None]
    /\ killed = FALSE /\ peak = None

----------------------------------------------------------------------------
(* What the market maker wants. *)

\* Portfolio.equity at the best bids, at cost where there is none.
Mark(m, side) ==
    IF top[m] = None \/ top[m][side] = 0 THEN held[m].cost[side]
    ELSE top[m][side] * held[m].qty[side]

Equity == cash + MapThenSumSet(LAMBDA m : Mark(m, "YES") + Mark(m, "NO"), Market)

\* _positions
Positions(ms) == [m \in ms |-> held[m]]

BestAskOf(m) == PriceScale - top[m]["NO"]
Fair(m, signal) == top[m]["YES"] + BestAskOf(m) + signal.shift      \* in half ticks

\* The reasons of _target not to quote at all.
MayQuote(m, t, signal) ==
    /\ ~shut[m] /\ top[m] # None
    /\ t - topAt[m] <= MaxBookAge
    /\ top[m]["YES"] > 0 /\ top[m]["NO"] > 0
    /\ BestAskOf(m) - top[m]["YES"] \in 1 .. MaxSpread
    /\ StopAt[m] # None => t <= StopAt[m]
    /\ Fair(m, signal) \in MinFair .. MaxFair

\* A quote of whole contracts, if there is headroom for one.
Sized(ms, m, side, price, size) ==
    LET qty == (Headroom(Positions(ms \cup {m}), m, side, price, size) \div Contract) * Contract
    IN  IF qty = 0 THEN None ELSE [price |-> price, qty |-> qty]

NoTarget == [s \in Side |-> None]

\* _target: per side the wanted price and quantity, or None.
Target(m, t, ms, signal) ==
    LET q == QuoteAround(signal.gamma, NetYes(held[m]), Fair(m, signal), signal.half,
                         top[m]["YES"], BestAskOf(m))
        Bid == IF q.bid = None THEN None ELSE Sized(ms, m, "YES", q.bid, signal.size)
        Ask == IF q.ask = None THEN None ELSE Sized(ms, m, "NO", PriceScale - q.ask, signal.size)
    IN  IF MayQuote(m, t, signal) THEN [s \in Side |-> IF s = "YES" THEN Bid ELSE Ask]
        ELSE NoTarget


----------------------------------------------------------------------------
(* on_event: the risk check and then the quotes of one market. *)

CheckDue(t) == t >= nextRisk
PeakAt(t) ==
    IF killed \/ ~CheckDue(t) THEN peak
    ELSE IF peak = None THEN Equity ELSE MaxOf(peak, Equity)

\* _risk_check finds trading stopped, now or before.
StoppedAt(t, ms) == killed \/ (CheckDue(t) /\ Trips(PeakAt(t), Equity, Positions(ms)))

\* Fault: on a kill only the quotes of the market at hand are pulled.
PulledHere(m, t, ms) ==
    IF CheckDue(t) /\ StoppedAt(t, ms)
    THEN {id \in Resting \ cancelling : quote[id].market = m} ELSE {}

\* _cancel_everything
Pulled(m, t, ms) == IF CheckDue(t) /\ StoppedAt(t, ms) THEN Resting \ cancelling ELSE {}

\* The resting quote of one side; open_orders lists them by id and the last one counts.
HasLive(m, side) == Resting \cap QuotesOf(m, side) # {}
Live(m, side) == Max(Resting \cap QuotesOf(m, side))

\* A cancel of one of the side's quotes was just sent.
TouchedBy(gone, m, side) == gone \cap QuotesOf(m, side) # {}

\* _manage, one side, when pulled were just cancelled and want is the target.
IsBusy(m, side, t, pulled) ==
    \/ busy[m][side] > t
    \/ TouchedBy(pulled, m, side)
    \/ HasLive(m, side) /\ Live(m, side) \in cancelling

TooSoon(m, side, t) == lastPlace[m][side] # None /\ t - lastPlace[m][side] < MinRequote

\* Fault: only a quote that is below its target is replaced.
OutdatedBelow(id, want) ==
    \/ want = None
    \/ want.price - quote[id].price >= Requote
    \/ want.qty < left[id]
    \/ 2 * left[id] < want.qty

\* The quote is off its target price, too large, or mostly filled.
Outdated(id, want) ==
    \/ want = None
    \/ want.price - quote[id].price >= Requote \/ quote[id].price - want.price >= Requote
    \/ want.qty < left[id]
    \/ 2 * left[id] < want.qty

Places(m, side, t, pulled, want) ==
    /\ ~IsBusy(m, side, t, pulled) /\ ~HasLive(m, side)
    /\ want # None /\ ~TooSoon(m, side, t)

Withdraws(m, side, t, pulled, want) ==
    /\ ~IsBusy(m, side, t, pulled) /\ HasLive(m, side)
    /\ Outdated(Live(m, side), want)

\* Whether to look at the market again.
Retries(m, side, t, pulled, want) ==
    \/ IsBusy(m, side, t, pulled)
    \/ Withdraws(m, side, t, pulled, want)
    \/ ~HasLive(m, side) /\ want # None /\ TooSoon(m, side, t)

NewWakes(m, t, pulled, target) ==
    IF \E s \in Side : Retries(m, s, t, pulled, target[s]) THEN {<<t + WakeAfter, m>>} ELSE {}

\* YES is managed before NO.
InOrder(sides) ==
    IF "YES" \in sides THEN IF "NO" \in sides THEN <<"YES", "NO">> ELSE <<"YES">>
    ELSE IF "NO" \in sides THEN <<"NO">> ELSE <<>>

\* What on_event has done when pulled is what the risk check cancels, target what it wants,
\* new the sides to quote and gone everything to cancel.
Acts(m, t, ms, asked, pulled, target, new, gone) ==
    /\ placed + Len(new) <= MaxQuotes
    /\ known' = ms
    /\ nextRisk' = IF CheckDue(t) THEN t + RiskEvery ELSE nextRisk
    /\ peak' = PeakAt(t)
    /\ killed' = StoppedAt(t, ms)
    /\ placed' = placed + Len(new)
    /\ quote' = quote \o [i \in DOMAIN new |->
           [market |-> m, side |-> new[i], price |-> target[new[i]].price]]
    /\ left' = left \o [i \in DOMAIN new |-> target[new[i]].qty]
    /\ due' = due \o [i \in DOMAIN new |-> t + SubmitLatency]
    /\ at' = at \o [i \in DOMAIN new |-> "submitted"]
    /\ cancels' = cancels \cup {<<t + CancelLatency, id>> : id \in gone}
    /\ cancelling' = cancelling \cup gone
    /\ busy' = [k \in Market |-> [s \in Side |->
           IF TouchedBy(gone, k, s) \/ (k = m /\ Contains(new, s)) THEN t + BusyFor ELSE busy[k][s]]]
    /\ lastPlace' = [lastPlace EXCEPT ![m] = [s \in Side |->
           IF Contains(new, s) THEN t ELSE @[s]]]
    /\ wakes' = asked \cup NewWakes(m, t, pulled, target)

\* What on_event does at time t about market m, knowing of fills in ms and
\* having asked to be woken.
OnEvent(m, t, ms, asked) ==
    \E signal \in Signals, pulled \in {Pulled(m, t, ms)} :
    \E target \in {IF StoppedAt(t, ms) THEN NoTarget ELSE Target(m, t, ms, signal)} :
    \E new \in {InOrder({s \in Side : Places(m, s, t, pulled, target[s])})},
       gone \in {pulled \cup {Live(m, s) : s \in
                    {k \in Side : Withdraws(m, k, t, pulled, target[k])}}} :
        Acts(m, t, ms, asked, pulled, target, new, gone)

----------------------------------------------------------------------------
(* The loop: a batch of the feed, or the first of what is scheduled. *)

Idle == stage = "idle" /\ news = {}

\* What is scheduled: its instant and its priority there.
Agenda ==
    {<<due[id], 4>> : id \in Submitted} \cup {<<c[1], 5>> : c \in cancels}
    \cup {<<n[1], 6>> : n \in notices} \cup {<<w[1], 7>> : w \in wakes}

\* It is the turn of something scheduled; the feed goes first in a tie.
Turn(t, priority) ==
    /\ Idle /\ t <= MaxTime
    /\ \A a \in Agenda : t < a[1] \/ (t = a[1] /\ priority <= a[2])
    /\ now' = t

BatchStarts(t) ==
    /\ Idle /\ fed < MaxFeed /\ t > now
    /\ \A a \in Agenda : t <= a[1]
    /\ now' = t /\ stage' = "batch"
    /\ UNCHANGED <<ledger, fed, view, quotes, left, at, pending, crossed, news, maker>>

FeedEvent == stage = "batch" /\ crossed = {} /\ fed < MaxFeed /\ fed' = fed + 1 /\ now' = now

\* A book that would have traded with a resting quote fills it.
CrossedQuotes(m, b) ==
    {id \in Resting : quote[id].market = m /\
        LET other == b[Opposite(quote[id].side)]
        IN  other > 0 /\ PriceScale - other <= quote[id].price}

NewBook(m, b) ==
    /\ FeedEvent
    /\ top' = [top EXCEPT ![m] = b] /\ topAt' = [topAt EXCEPT ![m] = now]
    /\ crossed' = CrossedQuotes(m, b)
    /\ news' = news \cup {<<"book", m>>}
    /\ UNCHANGED <<ledger, stage, shut, quotes, left, at, pending, maker>>

ConfirmBooks ==
    /\ FeedEvent
    /\ topAt' = [m \in Market |-> IF top[m] # None THEN now ELSE topAt[m]]
    /\ UNCHANGED <<ledger, stage, top, shut, quotes, left, at, pending, crossed, news, maker>>

\* A fill of a quote and the notice of it.
FillQuote(id, qty) ==
    /\ Buy(quote[id].market, quote[id].side, quote[id].price, qty, 0)
    /\ left' = [left EXCEPT ![id] = @ - qty]
    /\ at' = IF qty = left[id] THEN [at EXCEPT ![id] = "gone"] ELSE at
    /\ notices' = notices \cup {<<now + AckLatency, quote[id].market>>}

FillCrossed ==
    /\ crossed # {}
    /\ FillQuote(Min(crossed), left[Min(crossed)])
    /\ crossed' = crossed \ {Min(crossed)}
    /\ UNCHANGED <<clock, view, quotes, cancels, wakes, news, maker>>

\* A print that fills one of our quotes, or none of them.
PrintHits(id, qty) ==
    /\ FeedEvent /\ id \in Resting /\ qty \in 1 .. left[id]
    /\ FillQuote(id, qty)
    /\ news' = news \cup {<<"trade", quote[id].market>>}
    /\ UNCHANGED <<stage, view, quotes, cancels, wakes, crossed, maker>>

PrintMisses(m) ==
    /\ FeedEvent /\ ReactToTrades
    /\ news' = news \cup {<<"trade", m>>}
    /\ UNCHANGED <<ledger, stage, view, quotes, left, at, pending, crossed, maker>>

DropQuotesOf(m) ==
    at' = [id \in Ids |-> IF id \in Resting /\ quote[id].market = m THEN "gone" ELSE at[id]]

CloseMarket(m) ==
    /\ FeedEvent /\ ~shut[m]
    /\ shut' = [shut EXCEPT ![m] = TRUE]
    /\ DropQuotesOf(m)
    /\ UNCHANGED <<ledger, stage, top, topAt, quotes, left, pending, crossed, news, maker>>

SettleMarket(m, value) ==
    /\ FeedEvent /\ settled[m] = None
    /\ shut' = [shut EXCEPT ![m] = TRUE]
    /\ DropQuotesOf(m)
    /\ Settle(m, value)
    /\ UNCHANGED <<stage, top, topAt, quotes, left, pending, crossed, news, maker>>

BatchEnds ==
    /\ stage = "batch" /\ crossed = {}
    /\ stage' = "idle"
    /\ UNCHANGED <<ledger, now, fed, view, quotes, left, at, pending, crossed, news, maker>>

\* A print is worth reacting to: the adaptive market maker does so now and then.
Reacts(m) ==
    /\ ReactToTrades
    /\ \A last \in {lastReact[m]} \ {None} : now - last >= TradeReact

\* An event of the batch reaches on_event.
DeliverBook(m) ==
    /\ stage = "idle" /\ <<"book", m>> \in news
    /\ news' = news \ {<<"book", m>>}
    /\ OnEvent(m, now, known, wakes)
    /\ UNCHANGED <<ledger, clock, view, notices, crossed, lastReact>>

DeliverTrade(m) ==
    /\ stage = "idle" /\ <<"trade", m>> \in news
    /\ news' = news \ {<<"trade", m>>}
    /\ \/ /\ Reacts(m)
          /\ lastReact' = [lastReact EXCEPT ![m] = now]
          /\ OnEvent(m, now, known, wakes)
       \/ /\ ~Reacts(m)
          /\ UNCHANGED <<placed, quote, due, left, at, cancels, wakes, known, busy, lastPlace,
                         cancelling, nextRisk, lastReact, killed, peak>>
    /\ UNCHANGED <<ledger, clock, view, notices, crossed>>


Reserved == MapThenSumSet(LAMBDA id : quote[id].price * left[id], Resting)

\* A post-only quote rests, if it does not cross and the cash is there.
Accepted(id) ==
    LET m == quote[id].market
        side == quote[id].side
    IN  /\ ~shut[m]
        /\ cash - Reserved >= quote[id].price * left[id]
        /\ top[m] # None /\ top[m][Opposite(side)] > 0 =>
               PriceScale - top[m][Opposite(side)] > quote[id].price

QuoteArrives(id) ==
    /\ Turn(due[id], 4)
    /\ id = Min({i \in Submitted : due[i] = due[id]})
    /\ at' = [at EXCEPT ![id] = IF Accepted(id) THEN "resting" ELSE "gone"]
    /\ UNCHANGED <<ledger, stage, fed, view, quotes, left, pending, crossed, news, maker>>

CancelArrives(c) ==
    /\ Turn(c[1], 5)
    /\ cancels' = cancels \ {c}
    /\ at' = IF at[c[2]] = "resting" THEN [at EXCEPT ![c[2]] = "gone"] ELSE at
    /\ UNCHANGED <<ledger, stage, fed, view, quotes, left, notices, wakes, crossed, news, maker>>

\* The notice of a fill: on_event learns of the position.
FillNoticed(n) ==
    /\ Turn(n[1], 6)
    /\ notices' = notices \ {n}
    /\ OnEvent(n[2], n[1], known \cup {n[2]}, wakes)
    /\ UNCHANGED <<ledger, stage, fed, view, crossed, news, lastReact>>

WakeUp(w) ==
    /\ Turn(w[1], 7)
    /\ OnEvent(w[2], w[1], known, wakes \ {w})
    /\ UNCHANGED <<ledger, stage, fed, view, notices, crossed, news, lastReact>>

MMNext ==
    \/ \E t \in 1 .. MaxTime : BatchStarts(t)
    \/ \E m \in Market, b \in Tops : NewBook(m, b)
    \/ ConfirmBooks
    \/ \E id \in Ids, qty \in PrintSizes : PrintHits(id, qty)
    \/ \E m \in Market : PrintMisses(m)
    \/ \E m \in Market : CloseMarket(m)
    \/ \E o \in Outcomes : SettleMarket(o[1], o[2])
    \/ FillCrossed
    \/ BatchEnds
    \/ \E m \in Market : DeliverBook(m)
    \/ \E m \in Market : DeliverTrade(m)
    \/ \E id \in Submitted : QuoteArrives(id)
    \/ \E c \in cancels : CancelArrives(c)
    \/ \E n \in notices : FillNoticed(n)
    \/ \E w \in wakes : WakeUp(w)

MMSpec == MMInit /\ [][MMNext]_mmVars

----------------------------------------------------------------------------
(* Properties. *)

\* What the quotes of one side may still buy.
LiveOf(m, side) == (Submitted \cup Resting) \cap QuotesOf(m, side)
Exposed(m, side) == Total([id \in Ids |-> IF id \in LiveOf(m, side) THEN left[id] ELSE 0], placed)

(***************************************************************************)
(* market_making.md: a (market, side) is acted on at most once per busy_s, *)
(* so that quotes are never stacked although a submitted one is invisible. *)
(* Hence the position limit holds whatever is filled: with every quote in  *)
(* flight, resting or being cancelled filled, it is still kept.  Provided  *)
(* a quote arrives before its side may be acted on again.                  *)
(***************************************************************************)
PositionIsBounded ==
    SubmitLatency < MaxOf(BusyFor, MinRequote) =>
        \A m \in Market : ~shut[m] =>
            /\ NetYes(held[m]) + Exposed(m, "YES") <= MaxPosition
            /\ Exposed(m, "NO") - NetYes(held[m]) <= MaxPosition

(***************************************************************************)
(* risk.py: the kill switch cancels every resting order and stops quoting  *)
(* for good, in markets that do not move too: after the last risk check a  *)
(* quote that is not being cancelled can only be one that arrived since.   *)
(***************************************************************************)
KillPullsEverything ==
    killed => \A id \in Resting \ cancelling : due[id] + RiskEvery >= nextRisk

(***************************************************************************)
(* A bid and an ask of different ages may cross each other when the market *)
(* moved in between.  Nothing prevents that, but it is never left alone:   *)
(* one of them is being cancelled, or the market will be looked at again.  *)
(* Each may be Requote - 1 ticks from its target and count as up to date.  *)
(***************************************************************************)
Crossing(a, b) ==
    /\ quote[a].market = quote[b].market
    /\ quote[a].side = "YES" /\ quote[b].side = "NO"
    /\ quote[a].price + quote[b].price >= PriceScale + 2 * (Requote - 1)

Handled(a, b) ==
    a \in cancelling \/ b \in cancelling \/ \E w \in wakes : w[2] = quote[a].market

SelfCrossIsHandled == \A a, b \in Resting : Crossing(a, b) => Handled(a, b)

=============================================================================
