------------------------------ MODULE EventStudy ------------------------------
(***************************************************************************)
(* EventCollector (data/collectors/events.py): the newest settled events   *)
(* of every series, each with all of its sibling markets, for the study of *)
(* relations.  Series are fetched concurrently; one that has enough events *)
(* is skipped by later runs, one that failed is retried by them.  What was *)
(* fetched is written in three statements of one step of the event loop,   *)
(* which only an interrupt or a kill may part.                             *)
(***************************************************************************)
EXTENDS Rest, JobRun, Functions, SequencesExt, FiniteSetsExt

CONSTANTS
    SiblingsOf,     \* event -> its markets
    Unparsed,       \* events the client refuses: they are quarantined
    Unreadable,     \* markets that cannot be normalised
    SettledAtFirst,   \* series -> the events settled at first, newest first
    SettledLater,   \* bound: <<series, event>> settled later
    Finalised,      \* bound: markets that change from "determined" to "finalized"
    EventsWanted,   \* per_series
    Concurrency     \* concurrency

EventSeries == DOMAIN SettledAtFirst
KnownEvents == DOMAIN SiblingsOf
KnownMarkets == UNION Range(SiblingsOf)

ASSUME EventStudyAssumption ==
    /\ EventsWanted \in Nat \ {0} /\ Concurrency \in Nat \ {0}
    /\ SettledAtFirst \in [EventSeries -> Seq(KnownEvents)]
    /\ \A s \in EventSeries : \A i, j \in DOMAIN SettledAtFirst[s] :
           SettledAtFirst[s][i] = SettledAtFirst[s][j] => i = j
    /\ SettledLater \subseteq EventSeries \X KnownEvents
    \* An event's name is no market's.
    /\ None \notin KnownEvents /\ KnownEvents \cap KnownMarkets = {}

VARIABLES
    settledEvents,  \* the exchange: series -> settled events, newest first
    stateOf,        \* and what it says of each market
    \* the database
    eventTable,     \* event -> the runs that saw it first and last
    marketTable,    \* market -> its state
    statusLog,      \* market -> the states logged of it
    \* the run
    wanted,         \* series still to fetch
    fetching,       \* series that is fetched -> its pagination and what it has got
    failing,        \* EventsSummary.failures
    \* ghosts
    torn,           \* events and markets an ended run left half written
    owed, honoured  \* events a run owes each series, and what the last that got through owed

exchangeVars == <<settledEvents, stateOf>>
studyTables == <<eventTable, marketTable, statusLog>>
runState == <<wanted, fetching, failing>>
eventGhosts == <<torn, owed, honoured>>
eventVars == <<exchangeVars, studyTables, runState, eventGhosts>>

EventsInit ==
    /\ RunInit
    /\ settledEvents = SettledAtFirst
    /\ stateOf = [m \in KnownMarkets |-> "determined"]
    /\ eventTable = <<>> /\ marketTable = <<>> /\ statusLog = [m \in KnownMarkets |-> <<>>]
    /\ wanted = {} /\ fetching = <<>> /\ failing = {}
    /\ torn = {} /\ owed = [s \in EventSeries |-> 0] /\ honoured = owed

-----------------------------------------------------------------------------
(* The exchange                                                            *)

EventSettles ==
    /\ \E later \in SettledLater :
        /\ ~ Contains(settledEvents[later[1]], later[2])
        /\ settledEvents' = [settledEvents EXCEPT ![later[1]] = <<later[2]>> \o @]
    /\ UNCHANGED <<run, stateOf, studyTables, runState, eventGhosts>>
MarketFinalised ==
    /\ \E m \in Finalised :
        /\ stateOf[m] # "finalized"
        /\ stateOf' = [stateOf EXCEPT ![m] = "finalized"]
    /\ UNCHANGED <<run, settledEvents, studyTables, runState, eventGhosts>>

-----------------------------------------------------------------------------
(* The run                                                                 *)

StoredOf(s) == {e \in DOMAIN eventTable : Contains(settledEvents[s], e)}
Parsed(events) ==
    LET kept == InOrder({i \in DOMAIN events : events[i] \notin Unparsed})
    IN  [k \in DOMAIN kept |-> events[kept[k]]]
Newest(events) == SubSeq(events, 1, Min({EventsWanted, Len(events)}))

StartEvents ==
    /\ StartRun
    /\ wanted' = {s \in EventSeries : Cardinality(StoredOf(s)) < EventsWanted}
    /\ fetching' = <<>> /\ failing' = {}
    /\ owed' = [s \in EventSeries |-> Len(Newest(Parsed(settledEvents[s])))]
    /\ UNCHANGED <<exchangeVars, studyTables, torn, honoured>>

\* New rows laid over a table.
Over(rows, table) ==
    [k \in DOMAIN rows \cup DOMAIN table |-> IF k \in DOMAIN rows THEN rows[k] ELSE table[k]]

InFlight == DOMAIN fetching
At(s, stage) == s \in InFlight /\ fetching[s].at = stage
\* Nothing awaits between the writes of a series.
NobodyWrites == \A s \in InFlight : At(s, "pages")

BeginSeries(s) ==
    /\ alive /\ s \in wanted /\ NobodyWrites /\ Cardinality(InFlight) < Concurrency
    /\ wanted' = wanted \ {s}
    /\ fetching' = Over([t \in {s} |-> [at |-> "pages", cursor |-> None, got |-> <<>>]], fetching)
    /\ UNCHANGED <<run, exchangeVars, studyTables, failing, eventGhosts>>

\* normalize_event and its markets: none of them if one cannot be read.
Normalised(e) ==
    [event |-> e,
     markets |-> IF SiblingsOf[e] \cap Unreadable = {} THEN Restrict(stateOf, SiblingsOf[e]) ELSE <<>>]

\* Fault: what was quarantined counts towards the limit.
EnoughSeen(got, page) == Len(got) + Len(page.items) >= EventsWanted \/ page.next = None
Enough(got, page) == Len(got) + Len(Parsed(page.items)) >= EventsWanted \/ page.next = None
FetchEvents(s) ==
    /\ alive /\ NobodyWrites /\ At(s, "pages")
    /\ LET page == PageOf(settledEvents[s], fetching[s].cursor, EventsWanted)
           new  == [i \in DOMAIN Parsed(page.items) |-> Normalised(Parsed(page.items)[i])]
       IN  fetching' = [fetching EXCEPT ![s] =
               [at |-> IF Enough(@.got, page) THEN "events" ELSE "pages",
                cursor |-> page.next, got |-> Newest(@.got \o new)]]
    /\ UNCHANGED <<run, exchangeVars, studyTables, wanted, failing, eventGhosts>>

EventsIn(got) == {got[i].event : i \in DOMAIN got}
\* Of two copies of an event the later one is written.
RowsWith(got, m) == {i \in DOMAIN got : m \in DOMAIN got[i].markets}
MarketRows(got) ==
    [m \in UNION {DOMAIN got[i].markets : i \in DOMAIN got} |-> got[Max(RowsWith(got, m))].markets[m]]

\* upsert_events: first_seen_at is preserved.
Upserted(rows) ==
    Over([e \in rows |-> [first |-> IF e \in DOMAIN eventTable THEN eventTable[e].first ELSE started,
                          last |-> started]], eventTable)
StoreEvents(s) ==
    /\ alive /\ At(s, "events")
    /\ eventTable' = Upserted(EventsIn(fetching[s].got))
    /\ fetching' = [fetching EXCEPT ![s].at = "markets"]
    /\ UNCHANGED <<run, exchangeVars, marketTable, statusLog, wanted, failing, eventGhosts>>

\* upsert_markets; the log follows.
StoreMarkets(s) ==
    /\ alive /\ At(s, "markets")
    /\ marketTable' = Over(MarketRows(fetching[s].got), marketTable)
    /\ torn' = torn \ EventsIn(fetching[s].got)
    /\ fetching' = [fetching EXCEPT ![s].at = "log"]
    /\ UNCHANGED <<run, exchangeVars, eventTable, statusLog, wanted, failing, owed, honoured>>

\* _log_status: a row only where the state differs from the last one logged.
\* Fault: what earlier runs logged is not loaded.
LastLoggedAnew(m) == None
LastLogged(m) == IF statusLog[m] = <<>> THEN None ELSE Last(statusLog[m])
Logged(rows, m) ==
    IF m \in DOMAIN rows /\ rows[m] # LastLogged(m) THEN Append(statusLog[m], rows[m]) ELSE statusLog[m]
LogStatus(s) ==
    /\ alive /\ At(s, "log")
    /\ LET rows == MarketRows(fetching[s].got)
       IN  /\ statusLog' = [m \in DOMAIN statusLog |-> Logged(rows, m)]
           /\ torn' = torn \ DOMAIN rows
    /\ fetching' = Restrict(fetching, InFlight \ {s})
    /\ UNCHANGED <<run, exchangeVars, eventTable, marketTable, wanted, failing, owed, honoured>>

SeriesFails(s) ==
    /\ alive /\ NobodyWrites /\ At(s, "pages") /\ Failures \ Fatal # {}
    /\ failing' = failing \cup {s} /\ fetching' = Restrict(fetching, InFlight \ {s})
    /\ UNCHANGED <<run, exchangeVars, studyTables, wanted, eventGhosts>>
EventsEnd ==
    /\ alive /\ wanted = {} /\ InFlight = {}
    /\ FinishRun
    /\ honoured' = IF failing = {} THEN owed ELSE honoured
    /\ UNCHANGED <<exchangeVars, studyTables, runState, torn, owed>>
\* An exception nothing handles, an interrupt, a hard kill.
HalfWritten(s) ==
    CASE At(s, "markets") -> EventsIn(fetching[s].got)
      [] At(s, "log")     -> DOMAIN MarketRows(fetching[s].got)
      [] OTHER            -> {}
BeingWritten == UNION {HalfWritten(s) : s \in EventSeries}
EventsStop ==
    /\ FinishRun \/ Kill
    /\ wanted' = {} /\ fetching' = <<>> /\ failing' = {}
    /\ torn' = torn \cup BeingWritten
    /\ UNCHANGED <<exchangeVars, studyTables, owed, honoured>>

SeriesStep(s) ==
    \/ BeginSeries(s) \/ FetchEvents(s) \/ StoreEvents(s) \/ StoreMarkets(s) \/ LogStatus(s)
    \/ SeriesFails(s)
EventsNext ==
    \/ EventSettles \/ MarketFinalised \/ StartEvents \/ EventsEnd \/ EventsStop
    \/ \E s \in EventSeries : SeriesStep(s)

-----------------------------------------------------------------------------
(* Properties                                                              *)

\* A stored event is there with every sibling market: what read_events_with_markets promises.
SiblingsAreStored ==
    \A e \in DOMAIN eventTable :
        e \notin torn \cup BeingWritten /\ SiblingsOf[e] \cap Unreadable = {} =>
            SiblingsOf[e] \subseteq DOMAIN marketTable

\* The log of a market's states is what was stored of it, in order and each change once.
LogIsHistory ==
    \A m \in DOMAIN marketTable :
        /\ \A i \in 2 .. Len(statusLog[m]) : statusLog[m][i] # statusLog[m][i - 1]
        /\ m \notin torn \cup BeingWritten => marketTable[m] = LastLogged(m)

\* A run that got through leaves every series with as many events as it owed then.
NoSeriesFallsShort == \A s \in EventSeries : honoured[s] > 0 => Cardinality(StoredOf(s)) >= honoured[s]

(***************************************************************************)
(* events.py: "Collect complete settled events (the event plus every       *)
(* sibling market)", "idempotent": across runs that fail, stop or overlap  *)
(* with settlements, but for events whose writing a stop parted and events *)
(* with a market that cannot be read.                                      *)
(***************************************************************************)
EventsAreComplete == SiblingsAreStored /\ LogIsHistory /\ NoSeriesFallsShort
=============================================================================
