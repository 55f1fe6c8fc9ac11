------------------------------- MODULE Episodes -------------------------------
(***************************************************************************)
(* What a scan says of its episodes (research/arbitrage_analysis.py,       *)
(* research/latency_analysis.py, the survival part of research/stats.py):  *)
(* lifetimes between a lower and an upper bound, two Kaplan-Meier readings *)
(* of them, and what of an edge and of an order is left some time later.   *)
(* Shares are pairs of a numerator and a denominator; intervals, bootstrap *)
(* and categories are left out.                                            *)
(***************************************************************************)
EXTENDS Scanner

CONSTANTS
    MinLevel        \* Params.min_level

ASSUME EpisodesAssumption == MinLevel \in UNVERIFIED .. PROVEN

----------------------------------------------------------------------------
(* Episodes that have ended. *)

Persisted(ended) == ended.episode.confirms >= 2
Censored(ended) == ended.reason \in {"closed", "gap", "end_of_data"}
SeenAlive(ended) == ended.episode.lastAlive - ended.episode.first
\* lo_s and hi_s beyond t; what is censored was never seen dead.
AliveAfter(ended, t) == SeenAlive(ended) > t
NotDeadBy(ended, t) == Censored(ended) \/ ended.end - ended.episode.first > t

\* select
Select(confirmed) ==
    {e \in done : e.episode.level >= MinLevel /\ (confirmed => Persisted(e))}

\* frequency, of the episodes whose start was seen, over the relations that could be observed.
Frequency(relations, eps) ==
    LET counted == {e \in eps : ~e.episode.leftCensored}
    IN  [episodes |-> Cardinality(counted),
         alive    |-> MapThenSumSet(LAMBDA e : e.episode.confirms, counted),
         cycles   |-> MapThenSumSet(LAMBDA s : cycles[s], relations),
         hours    |-> MapThenSumSet(LAMBDA s : exposure[s], relations)]

----------------------------------------------------------------------------
(* Survival. *)

\* survival_bounds, of Cardinality(eps).
SurvivalBounds(eps, t) ==
    <<Cardinality({e \in eps : AliveAfter(e, t)}), Cardinality({e \in eps : NotDeadBy(e, t)})>>

\* The two readings of the lifetimes of eps: how long each lasted.
Pessimistic(eps) == [e \in eps |-> SeenAlive(e)]
Optimistic(eps) == [e \in eps |-> IF Censored(e) THEN SeenAlive(e) ELSE e.end - e.episode.first]
SeenDead(eps) == {e \in eps : ~Censored(e)}

Times(f) == <<f[1][1] * f[2][1], f[1][2] * f[2][2]>>

\* Fault: what is censored at t has left before the deaths at t.
AtRiskAfterTies(duration, dead, t) ==
    Cardinality({e \in DOMAIN duration : duration[e] > t \/ (e \in dead /\ duration[e] = t)})
AtRisk(duration, dead, t) == Cardinality({e \in DOMAIN duration : duration[e] >= t})

\* kaplan_meier: the estimate at each time of a death.
KaplanMeier(duration, dead) ==
    LET dying(t) == Cardinality({e \in dead : duration[e] = t})
        staying(t) == <<AtRisk(duration, dead, t) - dying(t), AtRisk(duration, dead, t)>>
        step(curve, t) ==
            LET before == IF curve = <<>> THEN <<1, 1>> ELSE Last(curve).s
            IN  Append(curve, [t |-> t, s |-> Times(<<before, staying(t)>>)])
    IN  FoldLeft(step, <<>>, SetToSortSeq({duration[e] : e \in dead}, <))

\* km_at
KmAt(curve, t) ==
    LET passed == SelectSeq(curve, LAMBDA point : point.t <= t)
    IN  IF passed = <<>> THEN <<1, 1>> ELSE Last(passed).s

\* km_quantile at 0.5
KmMedian(curve) ==
    LET low == SelectSeq(curve, LAMBDA point : 2 * point.s[1] <= point.s[2])
    IN  IF low = <<>> THEN None ELSE low[1].t

\* lifetime_analysis
LifetimeAnalysis(eps, t) ==
    LET pessimistic == KaplanMeier(Pessimistic(eps), SeenDead(eps))
        optimistic  == KaplanMeier(Optimistic(eps), SeenDead(eps))
    IN  [bounds |-> SurvivalBounds(eps, t),
         pessimistic |-> KmAt(pessimistic, t), optimistic |-> KmAt(optimistic, t),
         medians |-> <<KmMedian(pessimistic), KmMedian(optimistic)>>]

----------------------------------------------------------------------------
\* funnel: those that ever reached a stage.
StageReached(eps, v, stage) == Cardinality({e \in eps : e.best[v] >= stage})

----------------------------------------------------------------------------
(* Latency: the probes of an episode, before and after. *)

ProbesOf(ended, d, kind) ==
    {r \in results : /\ r.constraint = ended.episode.constraint /\ r.first = ended.episode.first
                     /\ r.delta = d /\ r.kind = kind}

\* pairs_at: a probe nothing was seen after, or long after the last poll cycle, is not used.
PairsAt(eps, d) ==
    UNION {{[before |-> b, after |-> a, ended |-> e] :
               b \in {r \in ProbesOf(e, d, "before") : r.since = None \/ r.since <= GapAfter},
               a \in ProbesOf(e, d, "after")} : e \in eps}

\* _bracket of a yes or no: how many pairs say so by both readings, and by either.
Outcomes(pairs, both, either) == [n |-> Cardinality(pairs), lo |-> Cardinality(both),
                                  hi |-> Cardinality(either)]

\* survival_table
SurvivalTable(eps, d) ==
    LET pairs == PairsAt(eps, d)
    IN  Outcomes(pairs, {q \in pairs : q.before.alive /\ q.after.alive},
                        {q \in pairs : q.before.alive \/ q.after.alive})

\* execution_table: those an order would have been sent for under a cost model.
Tradable(eps, v) == {e \in eps : e.episode.orders[v].limits # <<>>}
ExecutionTable(eps, v, d) ==
    LET pairs == PairsAt(Tradable(eps, v), d)
    IN  Outcomes(pairs, {q \in pairs : q.before.fills[v].whole /\ q.after.fills[v].whole},
                        {q \in pairs : q.before.fills[v].whole \/ q.after.fills[v].whole})

\* latency_funnel: of those executable at first sight.
AtSight(eps, v) == {e \in eps : e.episode.orders[v].class = "executable"}
LatencyFunnel(eps, v, d) == ExecutionTable(AtSight(eps, v), v, d)

-----------------------------------------------------------------------------
(***************************************************************************)
(* The detector driven through the backtest engine over a recording, one   *)
(* run per latency (research/latency_analysis.py: engine_latency_sweep,    *)
(* leg_outcomes; backtest/strategies.py: ArbitrageTaker).  A recording is  *)
(* a sequence of instants: the books known, which of them were updated or  *)
(* confirmed then, the markets closed.  Every order is immediate-or-cancel *)
(* and cash does not bind.                                                 *)
(***************************************************************************)

CONSTANTS
    StaleAfter      \* max_book_age_ns of the strategy, max_staleness_ns of the taker model

ASSUME SweepAssumption == StaleAfter \in Nat

Taker == INSTANCE Fills WITH DepthFraction <- <<1, 1>>, Slippage <- 0

(***************************************************************************)
(* A run: the books after what we took, when each was current, the bundles *)
(* sent in order, [constraint, order, sent, due, filled, paid]; filled is  *)
(* empty until the bundle arrives.                                         *)
(***************************************************************************)
NothingYet == [books |-> <<>>, at |-> <<>>, shut |-> {}, bundles |-> <<>>]

----------------------------------------------------------------------------
(* The engine. *)

\* _apply_feed: an update replaces the book, a confirmation makes every book current.
ApplyFeed(run, instant) ==
    LET tickers == DOMAIN instant.books
    IN  [run EXCEPT
            !.books = [t \in tickers |-> IF t \in instant.updated THEN instant.books[t] ELSE run.books[t]],
            !.at = [t \in tickers |-> IF t \in instant.updated \/ instant.confirm
                                      THEN instant.ts ELSE run.at[t]],
            !.shut = instant.closed]

\* _on_order_arrival of one leg: what it takes of each ask.
Takes(run, bundle, i) ==
    LET leg == bundle.constraint.legs[i]
    IN  IF leg.ticker \in run.shut \/ bundle.due - run.at[leg.ticker] > StaleAfter
        THEN [ask \in Taker!Tick |-> 0]
        ELSE Taker!Taken(run.books[leg.ticker], leg.side, bundle.order.limits[i],
                         leg.qty * bundle.order.bundles)
Filled(taken) == Total(taken, PriceScale - 1)
AsFills(taken) == [p \in DOMAIN taken |-> [price |-> p, qty |-> taken[p]]]

\* The legs of a bundle arrive one after the other; a fill leaves the rest of the book.
LegArrives(run, k, leg, taken, v) ==
    LET fee == OrderFee(Variants[v].rounding, Variants[v].rates[leg.ticker], AsFills(taken))
    IN  [run EXCEPT !.books[leg.ticker] = Taker!AfterTaker(@, leg.side, taken),
                    !.bundles[k].filled = Append(@, Filled(taken)),
                    !.bundles[k].paid = @ + FillsCost(AsFills(taken)) + fee]
Arrive(run, k, v) ==
    FoldLeft(LAMBDA acc, i : LegArrives(acc, k, acc.bundles[k].constraint.legs[i],
                                        Takes(acc, acc.bundles[k], i), v),
             run, [i \in DOMAIN run.bundles[k].constraint.legs |-> i])

\* The orders that arrive by t, in the order they were sent.
ArriveBy(run, t, v) ==
    LET arriving == {k \in DOMAIN run.bundles : run.bundles[k].filled = <<>> /\ run.bundles[k].due <= t}
    IN  FoldLeft(LAMBDA acc, k : Arrive(acc, k, v), run, SetToSortSeq(arriving, <))

----------------------------------------------------------------------------
(* The strategy. *)

SidesOf(con) == {<<con.legs[i].ticker, con.legs[i].side>> : i \in DOMAIN con.legs}

\* Fault: bundles of one instant may take the same book side.
UsedNothing(run, ts) == {}

\* _used: what the bundles sent at this instant take.
Used(run, ts) ==
    UNION {SidesOf(run.bundles[k].constraint) :
              k \in {j \in DOMAIN run.bundles : run.bundles[j].sent = ts}}

\* on_event: every market of the relation trades and its book is recent.
Ready(run, spec, ts) ==
    /\ SpecActive(spec, run.books, run.shut)
    /\ \A t \in Members(spec.relation) : ts - run.at[t] <= StaleAfter

\* _try: what pays and takes no side in use.
Worthwhile(run, spec, ts, v) ==
    {b \in {[constraint |-> c, order |-> Evaluate(c, run.books, Variants[v])] :
               c \in {d \in ToPrice(spec.relation, run.books) :
                        Violated(d, run.books) /\ SidesOf(d) \cap Used(run, ts) = {}}} :
        b.order.class \in {"executable", "partial"}}

\* One bundle for a relation and instant; of several constraints, which one is left to CHOOSE.
Send(run, found, ts, latency) ==
    IF found = {} THEN run
    ELSE LET b == CHOOSE c \in found : TRUE
         IN  [run EXCEPT !.bundles =
                 Append(@, [constraint |-> b.constraint, order |-> b.order, sent |-> ts,
                            due |-> ts + latency, filled |-> <<>>, paid |-> 0])]
Try(run, spec, ts, latency, v) ==
    IF spec.level >= MinLevel /\ Ready(run, spec, ts)
    THEN Send(run, Worthwhile(run, spec, ts, v), ts, latency)
    ELSE run

\* on_event of the books updated, the relations in the order given.
React(run, instant, order, latency, v) ==
    FoldLeft(LAMBDA acc, s : IF Members(s.relation) \cap instant.updated = {} THEN acc
                             ELSE Try(acc, s, instant.ts, latency, v),
             run, order)

----------------------------------------------------------------------------
(***************************************************************************)
(* engine_latency_sweep: orders due before an instant arrive before it;    *)
(* those due at it arrive once the strategy has seen it, which is before   *)
(* anything else happens; the rest at the end.                             *)
(***************************************************************************)
LatencySweep(recording, order, latency, v) ==
    LET step(run, instant) ==
            React(ApplyFeed(ArriveBy(run, instant.ts - 1, v), instant), instant, order, latency, v)
    IN  ArriveBy(FoldLeft(step, NothingYet, recording), Last(recording).ts + latency, v).bundles

\* leg_outcomes
Wanted(bundle, i) == bundle.constraint.legs[i].qty * bundle.order.bundles
Outcome(bundle) ==
    IF \A i \in DOMAIN bundle.filled : bundle.filled[i] >= Wanted(bundle, i) THEN "full"
    ELSE IF \E i \in DOMAIN bundle.filled : bundle.filled[i] > 0 THEN "partial"
    ELSE "none"

=============================================================================
