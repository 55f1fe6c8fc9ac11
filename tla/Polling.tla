------------------------------- MODULE Polling -------------------------------
(***************************************************************************)
(* Which markets the book recorder polls and the paper trader trades       *)
(* (select_book_tickers in data/collectors/books.py, select_markets in     *)
(* paper/universe.py): the most active open events, each with all its      *)
(* markets or not at all; and their books as a poll sees them: what a      *)
(* batch request for some markets answers at an instant (get_orderbooks in *)
(* kalshi_client/rest.py, orderbook_from_rest in                           *)
(* data/normalization/normalizer.py).                                      *)
(***************************************************************************)
EXTENDS Rest, Integers, SequencesExt, FiniteSetsExt

CONSTANTS
    OpenMarkets,        \* market -> what the listing says of it
    OnlySeries, NotSeries,
    MaxDue,             \* max_hours_to_expiry, or NoLimit
    NoLimit,
    TopEvents, MinEventMarkets, MaxTickers,
    Siblings            \* include_siblings

\* Events are numbers: their order is the order of their names.  due is None for a market
\* without a scheduled end.
ASSUME TickerAssumption ==
    \A m \in DOMAIN OpenMarkets : OpenMarkets[m].event \in Nat /\ OpenMarkets[m].volume \in Nat

Admitted(m) ==
    /\ OpenMarkets[m].series \notin NotSeries
    /\ OnlySeries = {} \/ OpenMarkets[m].series \in OnlySeries
    /\ MaxDue # NoLimit => OpenMarkets[m].due # NoLimit /\ OpenMarkets[m].due <= MaxDue
MarketsOf(event) == {m \in DOMAIN OpenMarkets : Admitted(m) /\ OpenMarkets[m].event = event}
Activity(event) == MapThenSumSet(LAMBDA m : OpenMarkets[m].volume, MarketsOf(event))
AdmittedEvents ==
    {e \in {OpenMarkets[m].event : m \in DOMAIN OpenMarkets} :
        MarketsOf(e) # {} /\ Cardinality(MarketsOf(e)) >= MinEventMarkets}

Outranks(e, f) == Activity(e) > Activity(f) \/ (Activity(e) = Activity(f) /\ e < f)
Rank(event) == Cardinality({e \in AdmittedEvents : Outranks(e, event)})
RankedEvents == [i \in 1 .. Cardinality(AdmittedEvents) |->
                    CHOOSE e \in AdmittedEvents : Rank(e) = i - 1]
TakenOf(event) ==
    IF Siblings THEN MarketsOf(event) ELSE {m \in MarketsOf(event) : OpenMarkets[m].volume > 0}

\* An event that does not fit is passed over, and still counts as one of the top.
SelectTickers ==
    FoldLeft(LAMBDA taken, e :
                IF Activity(e) = 0 \/ Rank(e) >= TopEvents
                    \/ Cardinality(taken \cup TakenOf(e)) > MaxTickers
                THEN taken ELSE taken \cup TakenOf(e),
             {}, RankedEvents)

----------------------------------------------------------------------------
CONSTANTS
    Polled,         \* the selected markets
    Books,          \* book contents: [bid, ask] of whole prices or None
    Empty,          \* the one of them without quotes
    Opening,        \* contents a recording may begin with
    Unusable,       \* a row may also be missing from the answer, or inconsistent
    MaxInstant,     \* bound on the clock
    MaxChanges      \* bound on what the exchange changes, by market

ASSUME PollingAssumption ==
    Polled = SelectTickers /\ Empty \in Books /\ Unusable \notin Books

VARIABLES
    time,       \* the clock; at most one poll begins at an instant
    board,      \* market -> what a request for its book answers
    shut,       \* market -> when it closed, or None
    changes

boardVars == <<time, board, shut, changes>>

BoardInit ==
    /\ time = 0 /\ changes = [m \in Polled |-> 0]
    /\ board \in [Polled -> Opening]
    /\ shut = [m \in Polled |-> None]

TimePasses == time < MaxInstant /\ time' = time + 1 /\ UNCHANGED <<board, shut, changes>>
BookChanges(m) ==
    /\ shut[m] = None /\ changes[m] < MaxChanges[m]
    /\ changes' = [changes EXCEPT ![m] = @ + 1]
    /\ board' \in {[board EXCEPT ![m] = b] : b \in (Books \cup {Unusable}) \ {board[m]}}
    /\ UNCHANGED <<time, shut>>
MarketShuts(m) ==
    /\ shut[m] = None /\ changes[m] < MaxChanges[m]
    /\ changes' = [changes EXCEPT ![m] = @ + 1]
    /\ board' = [board EXCEPT ![m] = Empty] /\ shut' = [shut EXCEPT ![m] = time]
    /\ UNCHANGED time
BoardMoves == TimePasses \/ \E m \in Polled : BookChanges(m) \/ MarketShuts(m)

\* The books of an answer that can be used.
Usable(answer) == {m \in DOMAIN answer : answer[m] \in Books}
Answers(markets) == [m \in markets |-> board[m]]
=============================================================================
