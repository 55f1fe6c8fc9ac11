------------------------------ MODULE TradeSync ------------------------------
(***************************************************************************)
(* The trade backfill of data/collectors/history.py, as the history and    *)
(* the refresh job run it for one market: the exchange splits its trades   *)
(* at a cutoff that moves, each partition is paginated newest first, what  *)
(* is fetched is inserted once, and a checkpoint in trade_sync lets later  *)
(* runs start near the end or skip the market.  Markets do not share       *)
(* anything but the cutoff a run has read, so one stands for all.          *)
(*                                                                         *)
(* A trade is named by the instant it was made, at most one an instant.    *)
(***************************************************************************)
EXTENDS Rest, JobRun, Integers, SequencesExt, FiniteSetsExt

CONSTANTS
    OpenTime, CloseTime,    \* the market's times; it may close early
    Late,                   \* the exchange may show a trade this much later
    Margin, Overlap,        \* SYNC_MARGIN, overlap_s
    TradePage,              \* trade_page_size
    FlushTrades,            \* FLUSH_TRADES
    MaxTime, MaxTrades      \* bounds

ASSUME SyncAssumption ==
    /\ OpenTime \in Nat /\ CloseTime \in Nat /\ Late \in Nat
    /\ Margin \in Nat /\ Overlap \in Nat
    /\ TradePage \in Nat \ {0} /\ FlushTrades \in Nat \ {0} /\ None \notin Nat

TradePart == {"historical", "live"}

VARIABLES
    \* the exchange
    now, cutoff,
    made, hidden,       \* trades, and those it does not show yet
    closed, settled,    \* when the market closed and settled, or None
    \* the database
    stored,             \* the trades table
    sync,               \* trade_sync: partition -> [through, completed] or None
    \* the run
    job,                \* None, or what the run knows: the cutoff it read, the market, what is left
    fetch,              \* None, or the partition's pagination
    failed,             \* the market is among the run's failures
    \* ghosts
    covered,            \* the cutoff when historical was last fetched; 0 if it never was
    began,              \* when the last fetch of live that reached its end began, or None
    finished            \* the market as the last run that got through knew it

market == <<now, cutoff, made, hidden, closed, settled>>
tables == <<stored, sync>>
ghosts == <<covered, began, finished>>
syncVars == <<run, market, tables, job, fetch, failed, ghosts>>

SyncInit ==
    /\ RunInit
    /\ now = 0 /\ cutoff = 0 /\ made = {} /\ hidden = {} /\ closed = None /\ settled = None
    /\ stored = {} /\ sync = [part \in TradePart |-> None]
    /\ job = None /\ fetch = None /\ failed = FALSE
    /\ covered = 0 /\ began = None /\ finished = None

-----------------------------------------------------------------------------
(* The exchange                                                            *)

Clock ==
    /\ now < MaxTime /\ now' = now + 1
    /\ \A t \in hidden : now + 1 <= t + Late
    /\ closed = None => now + 1 <= CloseTime
    /\ UNCHANGED <<run, cutoff, made, hidden, closed, settled, tables, job, fetch, failed, ghosts>>
TradeMade ==
    /\ OpenTime <= now /\ closed = None /\ now \notin made /\ Cardinality(made) < MaxTrades
    /\ made' = made \cup {now}
    /\ hidden' \in {hidden, hidden \cup {now}}
    /\ UNCHANGED <<run, now, cutoff, closed, settled, tables, job, fetch, failed, ghosts>>
TradeShown ==
    /\ \E t \in hidden : hidden' = hidden \ {t}
    /\ UNCHANGED <<run, now, cutoff, made, closed, settled, tables, job, fetch, failed, ghosts>>
MarketCloses ==
    /\ closed = None /\ now > OpenTime /\ closed' = now
    /\ UNCHANGED <<run, now, cutoff, made, hidden, settled, tables, job, fetch, failed, ghosts>>
MarketSettles ==
    /\ closed # None /\ closed < now /\ settled = None /\ settled' = now
    /\ UNCHANGED <<run, now, cutoff, made, hidden, closed, tables, job, fetch, failed, ghosts>>
CutoffMoves ==
    /\ cutoff' \in cutoff + 1 .. now
    /\ \A t \in hidden : t >= cutoff'
    /\ UNCHANGED <<run, now, made, hidden, closed, settled, tables, job, fetch, failed, ghosts>>

HeldIn(part) == {t \in made \ hidden : IF part = "historical" THEN t < cutoff ELSE t >= cutoff}
\* Newest first, from min_ts on.
Served(part, minTs, below) ==
    {t \in HeldIn(part) : t >= minTs /\ (below # None => t < below)}
NewestOf(trades, n) == {t \in trades : Cardinality({u \in trades : u > t}) < n}

-----------------------------------------------------------------------------
(* The run                                                                 *)

StartSync ==
    /\ StartRun
    /\ job' = [at |-> "cutoff", cutoff |-> 0, settled |-> None, todo |-> <<>>]
    /\ failed' = FALSE
    /\ UNCHANGED <<market, tables, fetch, ghosts>>

\* get_historical_cutoff; the markets are looked up later.
ReadCutoff ==
    /\ alive /\ job.at = "cutoff"
    /\ job' = [job EXCEPT !.at = "market", !.cutoff = cutoff]
    /\ UNCHANGED <<run, market, tables, fetch, failed, ghosts>>
EndOf(close, settle) == IF settle = None THEN close ELSE Max({close, settle})
\* Live also when neither applies.
TradePartitions(limit, end) ==
    IF OpenTime >= limit THEN <<"live">>
    ELSE IF end >= limit THEN <<"historical", "live">> ELSE <<"historical">>

\* The market is looked up once (the history job takes settled markets only, the refresh job
\* all it has); both answers may be old when its turn comes.
ReadMarket ==
    /\ alive /\ job.at = "market"
    /\ job' = [job EXCEPT !.at = "sync", !.settled = settled,
            !.todo = TradePartitions(job.cutoff, EndOf(IF closed = None THEN CloseTime ELSE closed, settled))]
    /\ UNCHANGED <<run, market, tables, fetch, failed, ghosts>>

AlreadyFinal(row) == row # None /\ job.settled # None /\ row.completed > job.settled
Skipped(part) == (part = "historical" /\ sync[part] # None) \/ AlreadyFinal(sync[part])
This == Head(job.todo)
NextPart == job' = [job EXCEPT !.todo = Tail(@)]

SkipPart ==
    /\ alive /\ job.at = "sync" /\ job.todo # <<>> /\ fetch = None
    /\ Skipped(This) /\ NextPart
    /\ UNCHANGED <<run, market, tables, fetch, failed, ghosts>>
StartPart ==
    /\ alive /\ job.at = "sync" /\ job.todo # <<>> /\ fetch = None
    /\ ~ Skipped(This)
    /\ fetch' = [started |-> now, below |-> None, buf |-> {}, done |-> FALSE, cutoff |-> 0,
                 minTs |-> IF sync[This] = None THEN 0 ELSE sync[This].through - Overlap]
    /\ UNCHANGED <<run, market, tables, job, failed, ghosts>>

\* A page is taken in; whenever FlushTrades are buffered they are inserted, and all that is
\* left after the last page.
FetchTrades ==
    /\ alive /\ fetch # None /\ ~ fetch.done
    /\ \E served \in {Served(This, fetch.minTs, fetch.below)} :
       \E page \in {NewestOf(served, TradePage)} :
       \E buffered \in {fetch.buf \cup page} :
       \E left \in {IF served = page THEN {}
                    ELSE buffered \ NewestOf(buffered, Cardinality(buffered) - (Cardinality(buffered) % FlushTrades))} :
        /\ stored' = stored \cup (buffered \ left)
        /\ fetch' = [fetch EXCEPT
                !.buf = left, !.done = (served = page),
                !.below = IF page = {} THEN @ ELSE Min(page),
                !.cutoff = IF fetch.below = None THEN cutoff ELSE @]
    /\ UNCHANGED <<run, market, sync, job, failed, ghosts>>

ThroughNow == now - Margin
Through == fetch.started - Margin
\* Only after the pagination reached its end may the checkpoint advance.
Checkpoint ==
    /\ alive /\ fetch # None /\ fetch.done
    /\ sync' = [sync EXCEPT ![This] = [through |-> Through, completed |-> now]]
    /\ covered' = IF This = "historical" THEN fetch.cutoff ELSE covered
    /\ began' = IF This = "live" THEN fetch.started ELSE began
    /\ NextPart /\ fetch' = None
    /\ UNCHANGED <<run, market, stored, failed, finished>>

\* The market is left for the next run, the job goes on.
PartFails ==
    /\ alive /\ fetch # None /\ Failures \ Fatal # {}
    /\ failed' = TRUE /\ fetch' = None /\ job' = [job EXCEPT !.todo = <<>>]
    /\ UNCHANGED <<run, market, tables, ghosts>>
SyncEnds ==
    /\ alive /\ job.at = "sync" /\ job.todo = <<>> /\ fetch = None
    /\ FinishRun /\ job' = None
    /\ finished' = IF failed THEN finished ELSE job.settled
    /\ UNCHANGED <<market, tables, fetch, failed, covered, began>>
\* An exception nothing handles, a hard kill.
SyncStops ==
    /\ FinishRun \/ Kill
    /\ job' = None /\ fetch' = None
    /\ UNCHANGED <<market, tables, failed, ghosts>>

SyncNext ==
    \/ Clock \/ TradeMade \/ TradeShown \/ MarketCloses \/ MarketSettles \/ CutoffMoves
    \/ StartSync \/ ReadCutoff \/ ReadMarket \/ SkipPart \/ StartPart \/ FetchTrades
    \/ Checkpoint \/ PartFails \/ SyncEnds \/ SyncStops

-----------------------------------------------------------------------------
(* Properties                                                              *)

\* A trade that passed the moving cutoff into a partition that is not fetched again.
Slipped(t) == covered <= t /\ t < cutoff
\* The exchange may not have shown it yet when the last live sync began.
ShownTooLate(t) == began # None /\ t + Late >= began

\* Once a run got through a market it knew to be settled, all its trades are stored, across
\* failures, kills, late trades, repeated pages and a cutoff that moves at any time: but for
\* those two ways to lose one.
NothingElseIsMissing ==
    finished # None => \A t \in made \ stored : Slipped(t) \/ ShownTooLate(t)
=============================================================================
