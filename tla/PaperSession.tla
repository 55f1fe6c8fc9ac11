----------------------------- MODULE PaperSession -----------------------------
(***************************************************************************)
(* A paper-trading session on polled data: RestPollSource                  *)
(* (paper/sources.py) polls books and public trades and yields what is new *)
(* with a confirmation, PaperTrader pushes it to a queue, and LiveFeed     *)
(* hands it to the engine's thread (paper/trader.py).  Of the engine only  *)
(* the books it holds are kept, and the trades it was shown; when an event *)
(* happened, and the clock ticks while nothing does, are left out.         *)
(***************************************************************************)
EXTENDS Polling

CONSTANTS
    Batches,        \* the markets in batches, polled one after another
    Traded,         \* markets that are traded, of the session or not
    Slack,          \* the 3 s of trades asked for again
    Lookback,       \* the 5 s before the session
    MaxListed,      \* trades read in a poll: trade_pages * 500
    MaxPrints,      \* bounds: the trades made, the session's length, the changes of a book in it
    SessionEnd, SessionChanges

ASSUME PaperAssumption ==
    /\ Batches \in Seq(SUBSET Polled) /\ IsFiniteSet(Polled)
    /\ \A m \in Polled : \E i \in DOMAIN Batches : m \in Batches[i]
    /\ Slack \in Nat /\ Lookback \in Nat /\ Slack <= Lookback /\ MaxListed \in Nat \ {0}

VARIABLES
    printed,    \* the exchange's trades in order: [market, at]; a trade's position is its name
    source,     \* "books", "trades", "yielding", "sleeping", "failed" or "over"
    polledAt,   \* when the cycle began
    batch,      \* batches polled in it
    gathered,   \* what it is to yield
    lastBooks,  \* _last
    seenTrades, \* _seen
    since,      \* _min_ts
    feed,       \* the queue between the threads
    trading,    \* the engine: "running", "dead" or "done"
    view,       \* market -> its book, or None
    tape,       \* the trades on the tape
    \* ghosts
    told,       \* market -> the last usable answer
    mislaid,    \* markets whose last answer a failed cycle threw away
    missed,     \* trades a session may lose: thrown away, beyond MaxListed, or asked for too late
    read        \* trades made before the last poll of trades that succeeded

sourceVars == <<source, polledAt, batch, gathered, lastBooks, seenTrades, since>>
engineVars == <<trading, view, tape>>
paperGhosts == <<told, mislaid, missed, read>>
paperVars == <<boardVars, printed, sourceVars, feed, engineVars, paperGhosts>>

NoBooks == [m \in Polled |-> None]
PaperInit ==
    /\ BoardInit /\ printed = <<>>
    /\ source = "books" /\ polledAt = 0 /\ batch = 0 /\ gathered = <<>>
    /\ lastBooks = NoBooks /\ seenTrades = {} /\ since = time - Lookback
    /\ feed = <<>> /\ trading = "running" /\ view = NoBooks /\ tape = <<>>
    /\ told = NoBooks /\ mislaid = {} /\ missed = {} /\ read = 0

TradePrinted(m) ==
    /\ Len(printed) < MaxPrints
    /\ printed' = Append(printed, [market |-> m, at |-> time])
    /\ UNCHANGED <<boardVars, sourceVars, feed, engineVars, paperGhosts>>

-----------------------------------------------------------------------------
(* The source                                                              *)

BookEvent(m, book) == [kind |-> "book", market |-> m, book |-> book]
TradeEvent(i) == [kind |-> "trade", id |-> i]
ConfirmEvent == [kind |-> "confirm"]
EndEvent == [kind |-> "end"]

ChangedIn(answer) == {m \in Usable(answer) : lastBooks[m] # answer[m]}
PollBatch ==
    /\ source = "books" /\ batch < Len(Batches)
    /\ \E answer \in {Answers(Batches[batch + 1])} :
        /\ gathered' = gathered \o
                SetToSeq({BookEvent(m, answer[m]) : m \in ChangedIn(answer)})
        /\ lastBooks' = [m \in Polled |-> IF m \in Usable(answer) THEN answer[m] ELSE lastBooks[m]]
        /\ told' = lastBooks'
        /\ mislaid' = mislaid \ ChangedIn(answer)
    /\ batch' = batch + 1
    /\ UNCHANGED <<boardVars, printed, source, polledAt, seenTrades, since, feed, engineVars,
                   missed, read>>

\* The newest trades first, MaxListed at most, of all markets; those of the session not seen yet.
Recent == {i \in DOMAIN printed : printed[i].at >= since}
ReadFirst(n) == {i \in Recent : Cardinality({j \in Recent : j > i}) < n}
\* fault: trades seen before are not left out
AllOfSession(trades) == {i \in trades : printed[i].market \in Polled}
Unseen(trades) == {i \in trades : printed[i].market \in Polled} \ seenTrades
\* Served newest first, yielded in the order they were made.
Trades(ids) == [k \in DOMAIN ids |-> TradeEvent(ids[k])]
ReadTrades ==
    /\ source = "books" /\ batch = Len(Batches)
    /\ source' = "trades"
    /\ gathered' = gathered \o Trades(InOrder(Unseen(ReadFirst(MaxListed))))
    /\ seenTrades' = seenTrades \cup Unseen(ReadFirst(MaxListed))
    /\ missed' = missed \cup (Recent \ ReadFirst(MaxListed))
    /\ read' = Len(printed)
    /\ UNCHANGED <<boardVars, printed, polledAt, batch, lastBooks, since, feed, engineVars,
                   told, mislaid>>
\* The clock is read again when the last page is in.
PollEnds ==
    /\ source = "trades"
    /\ source' = "yielding" /\ since' = time - Slack
    /\ missed' = missed \cup {i \in read + 1 .. Len(printed) : printed[i].at < time - Slack}
    /\ UNCHANGED <<boardVars, printed, polledAt, batch, gathered, lastBooks, seenTrades, feed,
                   engineVars, told, mislaid, read>>

\* Any exception, in any request of the cycle; some pages of the trades may have been read.
CycleFails ==
    /\ source = "books"
    /\ source' = "failed" /\ gathered' = <<>>
    /\ \E n \in IF batch = Len(Batches) THEN 0 .. MaxListed - 1 ELSE {0} :
        /\ seenTrades' = seenTrades \cup Unseen(ReadFirst(n))
        /\ missed' = missed \cup Unseen(ReadFirst(n))
    /\ mislaid' = mislaid \cup {gathered[k].market : k \in DOMAIN gathered}
    /\ UNCHANGED <<boardVars, printed, polledAt, batch, lastBooks, since, feed, engineVars,
                   told, read>>

\* One event at a time; PaperTrader.run pushes it, and only then looks whether the engine died.
\* The session is over when it has, or when its time is up.
Pushed(event) ==
    IF trading = "dead"
    THEN source' = "over" /\ feed' = Append(Append(feed, event), EndEvent)
    ELSE feed' = Append(feed, event)
YieldEvent ==
    /\ source = "yielding" /\ gathered # <<>>
    /\ Pushed(Head(gathered)) /\ gathered' = Tail(gathered)
    /\ (trading # "dead" => UNCHANGED source)
    /\ UNCHANGED <<boardVars, printed, polledAt, batch, lastBooks, seenTrades, since, engineVars,
                   paperGhosts>>
Confirm ==
    /\ source = "yielding" /\ gathered = <<>>
    /\ Pushed(ConfirmEvent)
    /\ (trading # "dead" => source' = "sleeping")
    /\ UNCHANGED <<boardVars, printed, polledAt, batch, gathered, lastBooks, seenTrades, since,
                   engineVars, paperGhosts>>
NextCycle ==
    /\ source \in {"sleeping", "failed"} /\ polledAt < time
    /\ source' = "books" /\ polledAt' = time /\ batch' = 0
    /\ UNCHANGED <<boardVars, printed, gathered, lastBooks, seenTrades, since, feed, engineVars,
                   paperGhosts>>
TimeIsUp ==
    /\ source # "over"
    /\ source' = "over" /\ feed' = Append(feed, EndEvent)
    /\ UNCHANGED <<boardVars, printed, polledAt, batch, gathered, lastBooks, seenTrades, since,
                   engineVars, paperGhosts>>

-----------------------------------------------------------------------------
(* The engine's thread                                                     *)

\* A book replaces the market's.
TakeEvent ==
    /\ trading = "running" /\ feed # <<>> /\ feed' = Tail(feed)
    /\ \E event \in {Head(feed)} :
        /\ trading' = IF event.kind = "end" THEN "done" ELSE trading
        /\ view' = IF event.kind = "book" THEN [view EXCEPT ![event.market] = event.book] ELSE view
        /\ tape' = IF event.kind = "trade" THEN Append(tape, event) ELSE tape
    /\ UNCHANGED <<boardVars, printed, sourceVars, paperGhosts>>
EngineDies ==
    /\ trading = "running" /\ trading' = "dead"
    /\ UNCHANGED <<boardVars, printed, sourceVars, feed, view, tape, paperGhosts>>

PaperNext ==
    \/ /\ \/ TimePasses /\ time < SessionEnd
          \/ \E m \in Polled : changes[m] < SessionChanges /\ BookChanges(m)
       /\ UNCHANGED <<printed, sourceVars, feed, engineVars, paperGhosts>>
    \/ \E m \in Traded : TradePrinted(m)
    \/ PollBatch \/ ReadTrades \/ PollEnds \/ CycleFails
    \/ YieldEvent \/ Confirm \/ NextCycle \/ TimeIsUp
    \/ TakeEvent \/ EngineDies
PaperSpec == PaperInit /\ [][PaperNext]_paperVars

-----------------------------------------------------------------------------
(* Properties                                                              *)

\* What the engine has, once it is shown all that is on its way to it.
BookAfter(events, m, book) ==
    LET of == {k \in DOMAIN events : events[k].kind = "book" /\ events[k].market = m}
    IN  IF of = {} THEN book ELSE events[Max(of)].book
Held(m) == BookAfter(feed \o gathered, m, view[m])
TradesIn(events) == {k \in DOMAIN events : events[k].kind = "trade"}
Ids(events) == {events[k].id : k \in TradesIn(events)}
Ordered(events) == \A j, k \in TradesIn(events) : j < k => events[j].id < events[k].id
Delivered == tape \o feed \o gathered

\* Between two threads, through failed cycles and an engine that dies: as long as the session
\* lasts, a market's book as the engine comes to hold it is the last the exchange answered, unless
\* a failed cycle threw that one away; and of the trades made before the last poll of them all
\* come but those lost in one of three known ways.  They come once, in the order they were made.
SessionIsFaithful ==
    /\ Ordered(Delivered)
    /\ source # "over" =>
        /\ \A m \in Polled \ mislaid : Held(m) = told[m]
        /\ \A i \in 1 .. read :
            printed[i].market \in Polled => i \in Ids(Delivered) \/ i \in missed

\* "every market's book is current as of this poll" (paper/sources.py:151): when a confirmation
\* has been yielded, the books handed over are the last usable answers.
ConfirmIsCurrent == source = "sleeping" => \A m \in Polled : Held(m) = told[m]
=============================================================================
