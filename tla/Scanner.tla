------------------------------- MODULE Scanner -------------------------------
(***************************************************************************)
(* Episodes: every violated constraint from first sighting to              *)
(* disappearance (research/scanner.py).  The events of one instant are one *)
(* batch: books seen, a poll cycle confirmed, trades printed, markets      *)
(* closed or settled.  Only relations with a changed book are priced.      *)
(***************************************************************************)
EXTENDS Execution

CONSTANTS
    Variants,       \* the cost models: name -> Params
    Deltas,         \* ScanConfig.probe_deltas_ns
    GapAfter,       \* ScanConfig.gap_s
    TradeMemory     \* ScanConfig.trade_memory_ns

ASSUME ScannerAssumption ==
    /\ Deltas \subseteq Nat \ {0}
    /\ GapAfter \in Nat /\ TradeMemory \in Nat

VARIABLES
    specs,          \* the relations scanned: build_specs of the dataset
    now,            \* the time of the last batch, 0 before the first
    books,          \* ticker -> the last book seen
    closed,         \* tickers that no longer trade
    trades,         \* prints remembered: ticker, taker side, its price, time
    open,           \* trade key -> the episode under way
    done,           \* episodes ended
    probes,         \* latency probes to come
    pendingAfter,   \* probes done "before" that wait for the next book
    results,        \* probe results
    activeSince,    \* observable relation -> since when
    exposure,       \* relation -> time it was observable before that
    cycles,         \* relation -> poll cycles it was observable at the end of
    lastLive,       \* last time a book-side event was seen, None at first
    lastConfirm,    \* last time a poll cycle ended, None at first
    confirms,       \* poll cycles since the start or the last gap
    finished        \* the feed has ended

scanVars == <<specs, now, books, closed, trades, open, done, probes, pendingAfter, results,
              activeSince, exposure, cycles, lastLive, lastConfirm, confirms, finished>>

LegTickers(con) == {con.legs[i].ticker : i \in DOMAIN con.legs}

ScanInit(relations) ==
    /\ specs = relations
    /\ now = 0
    /\ books = <<>> /\ closed = {} /\ trades = {}
    /\ open = <<>> /\ done = {}
    /\ probes = {} /\ pendingAfter = {} /\ results = {}
    /\ activeSince = <<>> /\ exposure = [s \in relations |-> 0]
    /\ cycles = [s \in relations |-> 0]
    /\ lastLive = None /\ lastConfirm = None /\ confirms = 0
    /\ finished = FALSE

----------------------------------------------------------------------------
(* Relations that can be observed. *)

\* _spec_active: every market has a book and none is closed.
SpecActive(spec, seen, shut) == Members(spec.relation) \subseteq DOMAIN seen \ shut

Touching(tickers) == {s \in specs : Members(s.relation) \cap tickers # {}}

----------------------------------------------------------------------------
(* Episodes. *)

LegTops(con, seen) ==
    [i \in DOMAIN con.legs |->
        IF HasOffer(con.legs[i], seen) THEN Ask(con.legs[i], seen) ELSE None]

\* _observe: the verdict of each cost model, and the deepest stage of the funnel it reached.
Views(con, seen) == [v \in DOMAIN Variants |-> Evaluate(con, seen, Variants[v])]
Stage(view) ==
    CASE view.class = "executable" -> 4
      [] view.class # "executable" /\ view.depthOk -> 3
      [] ~ view.depthOk /\ view.feeOk -> 2
      [] ~ view.depthOk /\ ~ view.feeOk -> IF view.liquid THEN 1 ELSE 0

\* _open.  The orders are what each cost model would have sent.
Opened(found, seen, ts, left) ==
    LET views == Views(found.constraint, seen)
    IN  [constraint |-> found.constraint, level |-> found.level, first |-> ts,
         leftCensored |-> left, lastAlive |-> ts, confirms |-> 0,
         lastLegs |-> LegTops(found.constraint, seen), orders |-> views,
         best |-> [v \in DOMAIN views |-> Stage(views[v])],
         peak |-> [v \in DOMAIN views |-> views[v].net]]

\* Fault: the peak stays what it was at first.
HigherFirst(peak, net) == peak

\* The net profit at the peak.
Higher(peak, net) == IF net # None /\ (peak = None \/ net > peak) THEN net ELSE peak

\* _record of an episode seen again; the history of its edge is left out.
SeenAgain(ep, seen, ts) ==
    LET views == Views(ep.constraint, seen)
    IN  [ep EXCEPT !.lastAlive = ts, !.lastLegs = LegTops(ep.constraint, seen),
                   !.best = [v \in DOMAIN views |-> MaxOf(@[v], Stage(views[v]))],
                   !.peak = [v \in DOMAIN views |-> Higher(@[v], views[v].net)]]

\* _end
Ended(ep, reason, at) == [episode |-> ep, reason |-> reason, end |-> at]

\* _why_gone: a print since it was last alive at a leg's price or worse took it.
WhyGone(ep, prints, ts) ==
    IF \E i \in DOMAIN ep.lastLegs, p \in prints :
          /\ ep.lastLegs[i] # None
          /\ p.ticker = ep.constraint.legs[i].ticker /\ p.side = ep.constraint.legs[i].side
          /\ ep.lastAlive < p.ts /\ p.ts <= ts
          /\ p.price >= ep.lastLegs[i]
    THEN "consumed" ELSE "quote_change"

----------------------------------------------------------------------------
(* Probes: the order that would have arrived some time after detection. *)

NewProbes(ep) ==
    {[constraint |-> ep.constraint, first |-> ep.first, orders |-> ep.orders, delta |-> d] :
        d \in Deltas}
DueAt(probe) == probe.first + probe.delta

\* What the taker gets of a leg within its limit.
WithinLimit(leg, limit, want, seen) ==
    MinOf(want, DepthBelow(seen[leg.ticker], leg.side, limit + 1))

\* _try_order: the net profit when the whole bundle fits within the limits.
TryOrder(con, order, params, seen) ==
    LET want  == order.bundles
        whole == /\ Fillable(con, seen, want)
                 /\ \A i \in DOMAIN con.legs : Limits(con, seen, want)[i] <= order.limits[i]
    IN  [whole |-> whole,
         least |-> LET got == {WithinLimit(con.legs[i], order.limits[i], want, seen) :
                                   i \in DOMAIN con.legs}
                   IN  CHOOSE g \in got : \A h \in got : g <= h,
         net   |-> IF whole THEN Net(con, seen, want, params) ELSE None]

\* _probe of the books seen, the markets closed and the last poll cycle confirmed.
ProbeOutcome(probe, kind, seen, shut, cycle, beyond) ==
    LET isClosed == ~(LegTickers(probe.constraint) \subseteq DOMAIN seen \ shut)
        tradable == {v \in DOMAIN Variants : probe.orders[v].limits # <<>>}
    IN  [constraint |-> probe.constraint, first |-> probe.first, delta |-> probe.delta,
         kind |-> kind, closed |-> isClosed, beyond |-> beyond,
         since |-> IF cycle = None THEN None ELSE DueAt(probe) - cycle,
         alive |-> ~isClosed /\ Violated(probe.constraint, seen),
         fills |-> [v \in tradable |->
                       IF isClosed THEN [whole |-> FALSE, least |-> 0, net |-> None]
                       ELSE TryOrder(probe.constraint, probe.orders[v], Variants[v], seen)]]

----------------------------------------------------------------------------
(***************************************************************************)
(* _process of the batch of one instant ts.                                *)
(***************************************************************************)
IsBatch(batch) ==
    /\ DOMAIN batch.updates \subseteq Ticker
    /\ \A t \in DOMAIN batch.updates : batch.updates[t] \in Book
    /\ batch.confirm \in BOOLEAN /\ batch.closes \subseteq Ticker
    /\ batch.prints \subseteq [ticker : Ticker, side : Side, price : Price]

ObservesBooks(batch) == DOMAIN batch.updates # {} \/ batch.confirm

\* _check_gap finds that the recorder was blind.
Blind(batch, ts) == ObservesBooks(batch) /\ lastLive # None /\ ts - lastLive > GapAfter

Seen(batch) == [t \in DOMAIN books \cup DOMAIN batch.updates |->
                   IF t \in DOMAIN batch.updates THEN batch.updates[t] ELSE books[t]]

Remembered(batch, ts) ==
    LET new == {[ticker |-> p.ticker, side |-> p.side, price |-> p.price, ts |-> ts] :
                    p \in batch.prints}
        printed == {p.ticker : p \in batch.prints}
    IN  {p \in trades : p.ticker \in printed => p.ts >= ts - TradeMemory} \cup new

\* The violations among the observable relations a changed book touches.
FoundIn(batch) ==
    LET affected == {s \in Touching(DOMAIN batch.updates) :
                       SpecActive(s, Seen(batch), closed \cup batch.closes)}
    IN  Detected(affected, Seen(batch), UNVERIFIED)

\* What becomes of the episodes: ended by a gap, by a close, by being gone.
KeptAfterGap(batch, ts) == IF Blind(batch, ts) THEN {} ELSE DOMAIN open
KeptAfterClose(batch, ts) ==
    {k \in KeptAfterGap(batch, ts) :
        LegTickers(open[k].constraint) \cap (batch.closes \ closed) = {}}
Gone(batch, ts) ==
    {k \in KeptAfterClose(batch, ts) :
        /\ LegTickers(open[k].constraint) \cap DOMAIN batch.updates # {}
        /\ k \notin {f.key : f \in FoundIn(batch)}}

Evaluated(batch, ts) ==
    LET found == FoundIn(batch)
        kept  == KeptAfterClose(batch, ts) \ Gone(batch, ts)
        cycle == IF Blind(batch, ts) THEN 0 ELSE confirms
    IN  [k \in kept \cup {f.key : f \in found} |->
            IF k \notin kept
            THEN Opened(CHOOSE f \in found : f.key = k, Seen(batch), ts, cycle = 0)
            ELSE IF k \in {f.key : f \in found} THEN SeenAgain(open[k], Seen(batch), ts)
            ELSE open[k]]

\* _on_confirm: every open episode is alive at the end of the cycle.
Confirmed(eps, batch, ts) ==
    [k \in DOMAIN eps |->
        IF batch.confirm THEN [eps[k] EXCEPT !.confirms = @ + 1, !.lastAlive = ts] ELSE eps[k]]

UpdateEpisodes(batch, ts) ==
    /\ open' = Confirmed(Evaluated(batch, ts), batch, ts)
    /\ done' = done
         \cup {Ended(open[k], "gap", None) : k \in DOMAIN open \ KeptAfterGap(batch, ts)}
         \cup {Ended(open[k], "closed", None) :
                  k \in KeptAfterGap(batch, ts) \ KeptAfterClose(batch, ts)}
         \cup {Ended(open[k], WhyGone(open[k], Remembered(batch, ts), ts), ts) :
                  k \in Gone(batch, ts)}

\* Fault: probes due now are answered with the books of before this batch.
DueBeforeNow(ts) == {p \in probes : DueAt(p) <= ts}

\* _flush_probes_before
DueBefore(ts) == {p \in probes : DueAt(p) < ts}

UpdateProbes(batch, ts) ==
    LET waiting == pendingAfter \cup DueBefore(ts)
        opened  == {k \in DOMAIN open' : open'[k].first = ts}
    IN  /\ probes' = (probes \ DueBefore(ts)) \cup UNION {NewProbes(open'[k]) : k \in opened}
        /\ pendingAfter' = IF ObservesBooks(batch) THEN {} ELSE waiting
        /\ results' = results
             \cup {ProbeOutcome(p, "before", books, closed, lastConfirm, FALSE) : p \in DueBefore(ts)}
             \cup IF ObservesBooks(batch)
                  THEN {ProbeOutcome(p, "after", books', closed', lastConfirm', FALSE) : p \in waiting}
                  ELSE {}

\* Fault: the time in the gap is not taken out.
SinceAfterGapKept(batch, ts) == activeSince

\* _check_gap restarts every observable relation at ts.
SinceAfterGap(batch, ts) ==
    [s \in DOMAIN activeSince |-> IF Blind(batch, ts) THEN ts ELSE activeSince[s]]

\* _check_gap and _update_activity: since when, and for how long before.
UpdateActivity(batch, ts) ==
    LET touched == Touching(DOMAIN batch.updates \cup (batch.closes \ closed))
        active  == {s \in specs : IF s \in touched THEN SpecActive(s, books', closed')
                                  ELSE s \in DOMAIN activeSince}
        since   == SinceAfterGap(batch, ts)
        untilGap(s) == IF Blind(batch, ts) /\ s \in DOMAIN activeSince
                       THEN MaxOf(0, lastLive - activeSince[s]) ELSE 0
        untilNow(s) == IF s \in DOMAIN since \ active THEN MaxOf(0, ts - since[s]) ELSE 0
    IN  /\ activeSince' = [s \in active |-> IF s \in DOMAIN since THEN since[s] ELSE ts]
        /\ exposure' = [s \in specs |-> exposure[s] + untilGap(s) + untilNow(s)]

\* _on_confirm, of the relations observable after the batch.
CountCycles(batch) ==
    cycles' = [s \in specs |->
                  cycles[s] + (IF batch.confirm /\ s \in DOMAIN activeSince' THEN 1 ELSE 0)]

Process(batch, ts) ==
    /\ ~finished /\ ts > now
    /\ now' = ts
    /\ books' = Seen(batch)
    /\ closed' = closed \cup batch.closes
    /\ trades' = Remembered(batch, ts)
    /\ lastConfirm' = IF batch.confirm THEN ts ELSE lastConfirm
    /\ UpdateEpisodes(batch, ts)
    /\ UpdateProbes(batch, ts)
    /\ UpdateActivity(batch, ts)
    /\ CountCycles(batch)
    /\ lastLive' = IF ObservesBooks(batch) THEN ts ELSE lastLive
    /\ confirms' = (IF Blind(batch, ts) THEN 0 ELSE confirms) + (IF batch.confirm THEN 1 ELSE 0)
    /\ UNCHANGED <<specs, finished>>

\* _finish: what is open is censored, probes past the data see nothing later.
Finish ==
    /\ ~finished
    /\ finished' = TRUE
    /\ open' = <<>>
    /\ done' = done \cup {Ended(open[k], "end_of_data", None) : k \in DOMAIN open}
    /\ probes' = {}
    /\ results' = results \cup {ProbeOutcome(p, "before", books, closed, lastConfirm, TRUE) : p \in probes}
    /\ activeSince' = <<>>
    /\ exposure' = [s \in specs |->
                       exposure[s] + IF s \in DOMAIN activeSince THEN now - activeSince[s] ELSE 0]
    /\ UNCHANGED <<specs, now, books, closed, trades, pendingAfter, cycles, lastLive, lastConfirm,
                   confirms>>

=============================================================================
