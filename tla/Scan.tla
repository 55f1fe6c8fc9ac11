-------------------------------- MODULE Scan --------------------------------
(***************************************************************************)
(* The market selection of data/collectors/universe.py.  A Selector keeps  *)
(* some of the markets offered to it, page after page; its heaps and its   *)
(* _meta hold the same markets, so both are one function kept from the     *)
(* markets it holds to the partition each came from.                       *)
(*                                                                         *)
(* scan_universe reads the listing of each partition page by page into a   *)
(* Selector; the cursor and what is kept are saved every few pages in      *)
(* scan_state; a later run resumes from there, or reuses a finished scan.  *)
(* Runs fail and are killed, markets are listed while none runs, and the   *)
(* exchange may ignore a saved cursor.                                     *)
(***************************************************************************)
EXTENDS Rest, JobRun, SequencesExt

CONSTANTS
    Markets,
    Facts,          \* market -> what the listing says of it
    Status,         \* UniverseSpec.status
    CloseAfter, CloseBefore, MinVolume, Series, ExcludedSeries,
    SampleLimit,    \* keys from here on are outside the sample
    Cap,            \* max_per_series, or None
    MaxMarkets,     \* max_markets
    Cutoff, PartitionMargin

\* key stands for stable_key: a hash of the seed and the ticker, no two alike.
Fact == [series : STRING, combo : BOOLEAN, final : BOOLEAN, close : Nat, volume : Nat,
         created : Nat, key : Nat]

ASSUME SelectionAssumption ==
    /\ Facts \in [Markets -> Fact]
    /\ \A m, n \in Markets : Facts[m].key = Facts[n].key => m = n
    /\ Cap \in Nat \cup {None} /\ MaxMarkets \in Nat /\ CloseAfter < CloseBefore

Eligible(m) ==
    /\ ~ Facts[m].combo
    /\ Status = "settled" => Facts[m].final
    /\ CloseAfter <= Facts[m].close /\ Facts[m].close < CloseBefore
    /\ Facts[m].volume >= MinVolume
    /\ Series = {} \/ Facts[m].series \in Series
    /\ Facts[m].series \notin ExcludedSeries
Sampled(m) == Facts[m].key < SampleLimit

Nothing == [m \in {} |-> None]
SiblingsIn(kept, m) == {n \in DOMAIN kept : Facts[n].series = Facts[m].series}
Worst(markets) == CHOOSE m \in markets : \A n \in markets : Facts[n].key <= Facts[m].key
Without(kept, markets) == [m \in DOMAIN kept \ markets |-> kept[m]]

\* _push: the lowest keys of a series stay.
Push(kept, m, part) ==
    LET siblings == SiblingsIn(kept, m)
    IN  IF Cap = None \/ Cardinality(siblings) < Cap THEN kept @@ (m :> part)
        ELSE IF Facts[m].key < Facts[Worst(siblings)].key
             THEN Without(kept, {Worst(siblings)}) @@ (m :> part)
             ELSE kept
Offer(kept, m, part) ==
    IF m \in DOMAIN kept \/ ~ Eligible(m) \/ ~ Sampled(m) THEN kept ELSE Push(kept, m, part)

From(kept, part) == {m \in DOMAIN kept : kept[m] = part}
Restored(kept, markets, part) ==
    FoldSet(LAMBDA m, held : IF m \in DOMAIN held THEN held ELSE Push(held, m, part), kept, markets)
\* drop_partition forgets everything and pushes the other partitions' markets again.
DroppedAll(kept, part) == Nothing
Dropped(kept, part) == Without(kept, From(kept, part))

LowestKeys(markets, n) ==
    {m \in markets : Cardinality({k \in markets : Facts[k].key < Facts[m].key}) < n}
Result(kept) == LowestKeys(DOMAIN kept, MaxMarkets)

\* Which partitions can hold a market of the close-time window.
Needs(part) ==
    \/ Status # "settled"
    \/ IF part = "historical" THEN CloseAfter < Cutoff + PartitionMargin
       ELSE CloseBefore > Cutoff - PartitionMargin
Partitions == IF Status # "settled" THEN <<"live">>
              ELSE SelectSeq(<<"live", "historical">>, Needs)

-----------------------------------------------------------------------------
(* The selection a set of listed markets should lead to.                   *)

Candidates(listed) == {m \in listed : Eligible(m) /\ Sampled(m)}
PerSeries(candidates) ==
    IF Cap = None THEN candidates
    ELSE {m \in candidates :
            m \in LowestKeys({n \in candidates : Facts[n].series = Facts[m].series}, Cap)}
SelectionOf(listed) == LowestKeys(PerSeries(Candidates(listed)), MaxMarkets)

----------------------------------------------------------------------------
CONSTANTS
    Listings,           \* what the exchange may list at first: partition -> sequence of markets
    NewMarkets,         \* bound: markets listed later, <<partition, market>>
    PageSize, CheckpointPages,
    ReuseFor,           \* reuse_hours
    Floor,              \* close_after - created_lookback_days, or None
    MaxScan,            \* historical_max_scan
    MaxHour,            \* bound: the last hour looked at
    MaxIgnored          \* bound: cursors the exchange ignores

\* A row of scan_state.  The counts it also keeps are reports only, but for n.
Saved == [cursor : Markets \cup {None}, n : Nat, first : Markets \cup {None},
          items : SUBSET Markets, done : BOOLEAN, at : Nat]

ASSUME ScanAssumption ==
    /\ PageSize \in Nat \ {0} /\ CheckpointPages \in Nat \ {0}
    /\ None \notin Markets

VARIABLES
    listing,        \* partition -> what the exchange lists, newest first
    hour, ignored,
    saved,          \* scan_state: partition -> Saved or None
    todo,           \* partitions still to be scanned by this run
    kept,           \* the Selector
    open,           \* the partition being scanned is open: its state has been read
    cursor, seen,   \* the pagination's cursor, and the cursors it was given
    progress,       \* _Progress with prev_created and awaiting_first_page
    selected,       \* what the last finished scan returned, or None
    base,           \* ghosts: the first listing;
    cut,            \* a scan stopped at MaxScan;
    misled          \* a page that was not page 1 was taken for it, and what led to it dropped

exchange == <<listing, hour, ignored>>
scanning == <<todo, kept, open, cursor, seen, progress>>
scanVars == <<run, exchange, saved, scanning, selected, base, cut, misled>>

Fresh == [n |-> 0, pages |-> 0, first |-> None, awaiting |-> FALSE, prev |-> None, stop |-> "no"]
Part == Head(todo)

NotScanning ==
    /\ todo = <<>> /\ kept = Nothing /\ open = FALSE /\ cursor = None /\ seen = {}
    /\ progress = Fresh
ScanInit ==
    /\ RunInit /\ listing \in Listings /\ base = listing
    /\ hour = 0 /\ ignored = 0 /\ NotScanning
    /\ saved = [part \in {"live", "historical"} |-> None]
    /\ selected = None /\ cut = FALSE /\ misled = FALSE

-----------------------------------------------------------------------------
(* The scan                                                                *)

Closed == open' = FALSE /\ cursor' = None /\ seen' = {} /\ progress' = Fresh
StartScan ==
    /\ StartRun /\ todo' = Partitions /\ kept' = Nothing /\ Closed
    /\ UNCHANGED <<exchange, saved, selected, base, cut, misled>>
Forget == todo' = <<>> /\ kept' = Nothing /\ Closed
\* An exception ends the run; what was saved stays.
Raise == FinishRun /\ Forget /\ UNCHANGED <<saved, selected, cut, misled>>

IsReusable(state) == state.done /\ hour - state.at <= ReuseFor
IsResumable(state) == ~ state.done /\ state.cursor # None

PartDone == todo' = Tail(todo) /\ Closed

Reuse ==
    /\ saved[Part] # None /\ IsReusable(saved[Part])
    /\ kept' = Restored(kept, saved[Part].items, Part)
    /\ PartDone
Resume ==
    /\ saved[Part] # None /\ IsResumable(saved[Part])
    /\ kept' = Restored(kept, saved[Part].items, Part)
    /\ open' = TRUE /\ cursor' = saved[Part].cursor
    /\ progress' = [Fresh EXCEPT !.n = saved[Part].n, !.first = saved[Part].first, !.awaiting = TRUE]
    /\ UNCHANGED <<todo, seen>>
ScanAfresh ==
    /\ saved[Part] # None => ~ IsReusable(saved[Part]) /\ ~ IsResumable(saved[Part])
    /\ open' = TRUE
    /\ UNCHANGED <<todo, kept, cursor, seen, progress>>

\* A saved selection is fetched again ticker by ticker before it is used.
OpenPartition ==
    /\ alive /\ todo # <<>> /\ ~ open
    /\ \/ /\ Reuse \/ Resume \/ ScanAfresh
          /\ UNCHANGED <<run, saved, selected, cut, misled>>
       \/ saved[Part] # None /\ Raise
    /\ UNCHANGED <<exchange, base>>

\* One market of a page, in the order of the code: is this page 1 again?  count it;
\* for the historical partition the order and the two early stops; offer it.
Restarts(state, m) == state.awaiting /\ m = state.first
Unordered(state, m) == Part = "historical" /\ state.prev # None /\ Facts[m].created > state.prev
BelowFloor(m) == Part = "historical" /\ Floor # None /\ Facts[m].created < Floor
Counted(state, m) ==
    [state EXCEPT !.n = IF Restarts(state, m) THEN 1 ELSE @ + 1,
                  !.awaiting = FALSE,
                  !.first = IF @ = None THEN m ELSE @,
                  !.prev = IF Part = "historical" THEN Facts[m].created ELSE None]
StopOf(state, m) ==
    CASE Unordered(state, m) -> "error"
      [] BelowFloor(m) -> "floor"
      [] Part = "historical" /\ Counted(state, m).n >= MaxScan -> "full"
      [] OTHER -> "no"
Read(m, scan) ==
    IF scan.state.stop # "no" THEN scan
    ELSE LET base0 == IF Restarts(scan.state, m) THEN Dropped(scan.kept, Part) ELSE scan.kept
             stop == StopOf(scan.state, m)
         IN  [state |-> [Counted(scan.state, m) EXCEPT !.stop = stop],
              kept |-> IF stop = "no" THEN Offer(base0, m, Part) ELSE base0]
ReadPage(items) == FoldLeft(LAMBDA scan, m : Read(m, scan), [state |-> progress, kept |-> kept], items)

Persist(scan, next, done) ==
    saved' = [saved EXCEPT ![Part] =
        [cursor |-> next, n |-> scan.state.n, first |-> scan.state.first,
         items |-> From(scan.kept, Part), done |-> done, at |-> hour]]

\* Every item of the page is consumed: the moment to save.
PageEnds(scan, next) ==
    /\ IF next = None THEN Persist(scan, None, TRUE)
       ELSE IF (scan.state.pages + 1) % CheckpointPages = 0 THEN Persist(scan, next, FALSE)
       ELSE UNCHANGED saved
    /\ IF next \in seen
       THEN FinishRun /\ Forget     \* the cursor repeats
       ELSE /\ UNCHANGED run
            /\ IF next = None THEN kept' = scan.kept /\ PartDone
               ELSE /\ kept' = scan.kept /\ cursor' = next /\ seen' = seen \cup {next}
                    /\ progress' = [scan.state EXCEPT !.pages = @ + 1]
                    /\ UNCHANGED <<todo, open>>

StopsEarly(scan) ==
    /\ scan.state.stop \in {"floor", "full"}
    /\ Persist(scan, None, TRUE)
    /\ kept' = scan.kept /\ PartDone
    /\ UNCHANGED run

FetchPage ==
    /\ alive /\ open
    /\ \E honoured \in (IF cursor = None \/ ignored = MaxIgnored THEN {TRUE} ELSE BOOLEAN) :
       \E page \in {PageOf(listing[Part], IF honoured THEN cursor ELSE None, PageSize)} :
       \E scan \in {ReadPage(page.items)} :
        /\ ignored' = ignored + (IF honoured THEN 0 ELSE 1)
        /\ cut' = (cut \/ scan.state.stop = "full")
        /\ misled' = (misled \/ (cursor # None /\ honoured /\ page.items # <<>> /\ Restarts(progress, page.items[1])))
        /\ \/ scan.state.stop = "no" /\ PageEnds(scan, page.next)
           \/ StopsEarly(scan)
           \/ scan.state.stop = "error" /\ FinishRun /\ Forget /\ UNCHANGED saved
    /\ UNCHANGED <<listing, hour, selected, base>>
PageFails ==
    /\ alive /\ open /\ Failures # {}
    /\ Raise /\ UNCHANGED <<exchange, base>>

ScanEnds ==
    /\ alive /\ todo = <<>>
    /\ selected' = Result(kept)
    /\ FinishRun /\ Forget
    /\ UNCHANGED <<exchange, saved, base, cut, misled>>
\* An interrupt, or a hard kill.
ScanStops ==
    /\ FinishRun \/ Kill
    /\ Forget
    /\ UNCHANGED <<exchange, saved, selected, base, cut, misled>>

\* The exchange lists a new market, at the head.
MarketListed ==
    /\ \E new \in NewMarkets :
        /\ \A part \in DOMAIN listing : \A i \in 1 .. Len(listing[part]) : listing[part][i] # new[2]
        /\ listing' = [listing EXCEPT ![new[1]] = <<new[2]>> \o @]
    /\ UNCHANGED <<run, hour, ignored, saved, scanning, selected, base, cut, misled>>
HourPasses ==
    /\ ~ alive /\ hour < MaxHour /\ hour' = hour + 1
    /\ UNCHANGED <<run, listing, ignored, saved, scanning, selected, base, cut, misled>>

ScanNext ==
    \/ StartScan \/ OpenPartition \/ FetchPage \/ PageFails \/ ScanEnds
    \/ ScanStops \/ MarketListed \/ HourPasses
-----------------------------------------------------------------------------
(* Properties                                                              *)

\* The markets a listing holds that a scan may look at: the historical partition is read
\* down to the floor only (a documented bias).
InReach(lists, part) ==
    {m \in Markets : \E i \in 1 .. Len(lists[part]) :
        /\ lists[part][i] = m
        /\ part = "historical" /\ Floor # None => Facts[m].created >= Floor}
Reach(lists) == UNION {InReach(lists, Partitions[i]) : i \in 1 .. Len(Partitions)}

\* Whatever was fetched in which order, however often a run failed, was killed, resumed,
\* restarted on an ignored cursor or reused an earlier scan: a finished scan selects what the
\* seed says of the markets listed (those listed meanwhile it may have seen or not), unless a
\* scan was cut at MaxScan or misled by a listing that grew at its head.
SelectionIsReproducible ==
    selected # None /\ ~ cut /\ ~ misled =>
        \E late \in SUBSET (Reach(listing) \ Reach(base)) :
            selected = SelectionOf(Reach(base) \cup late)
=============================================================================
