------------------------------ MODULE Collection ------------------------------
(***************************************************************************)
(* The programs that gather data, one at a time: the scan that selects     *)
(* markets and the trade sync of one of them, each across many runs; the   *)
(* book recorder, across many runs, with the studies that read its record; *)
(* the collector of settled events; a paper-trading session; and the       *)
(* scripts that forecast from what was gathered.  They share the run's     *)
(* row, the REST client and the exchange's books, and nothing else: a      *)
(* behaviour is of one of them, while the others have not begun.           *)
(***************************************************************************)
EXTENDS Scan, TradeSync, EventStudy, Study, PaperSession, Forecasts

VARIABLE collecting     \* "scan", "trades", "events", "books", "paper" or "forecasts"

noScan == <<exchange, saved, scanning, selected, base, cut, misled>>
noTrades == <<market, tables, job, fetch, failed, ghosts>>
noRecord == <<recordTables, poller, answered>>
noPaper == <<printed, sourceVars, feed, engineVars, paperGhosts>>
collectionVars == <<run, boardVars, noScan, noTrades, eventVars, noRecord, noPaper, studyVars, collecting>>

NoForecasts ==
    /\ history = <<>> /\ role = "none" /\ shuffled = <<>> /\ reshuffled = <<>>
    /\ step = "none" /\ research = {} /\ scored = {} /\ frame = <<>> /\ accessLog = 0
CollectionInit ==
    /\ ScanInit /\ SyncInit /\ EventsInit /\ RecordInit /\ PaperInit
    /\ collecting \in {"scan", "trades", "events", "books", "paper", "forecasts"}
    /\ collecting # "scan" => listing = CHOOSE l \in Listings : TRUE
    /\ IF collecting = "forecasts" THEN ForecastsInit ELSE NoForecasts
CollectionNext ==
    /\ UNCHANGED collecting
    /\ \/ /\ collecting = "scan" /\ ScanNext
          /\ UNCHANGED <<boardVars, noTrades, eventVars, noRecord, noPaper, studyVars>>
       \/ /\ collecting = "trades" /\ SyncNext
          /\ UNCHANGED <<boardVars, noScan, eventVars, noRecord, noPaper, studyVars>>
       \/ /\ collecting = "events" /\ EventsNext
          /\ UNCHANGED <<boardVars, noScan, noTrades, noRecord, noPaper, studyVars>>
       \/ /\ collecting = "books" /\ RecordNext
          /\ UNCHANGED <<noScan, noTrades, eventVars, noPaper, studyVars>>
       \/ /\ collecting = "paper" /\ PaperNext
          /\ UNCHANGED <<run, noScan, noTrades, eventVars, noRecord, studyVars>>
       \/ /\ collecting = "forecasts" /\ ForecastsNext
          /\ UNCHANGED <<run, boardVars, noScan, noTrades, eventVars, noRecord, noPaper>>
CollectionSpec == CollectionInit /\ [][CollectionNext]_collectionVars
=============================================================================
