------------------------------ MODULE Arbitrage ------------------------------
(***************************************************************************)
(* From what the exchange lists to the opportunities seen in a recording:  *)
(* the relations claimed for the events, their pricing, and the episodes   *)
(* of the scanner, composed.                                               *)
(***************************************************************************)
EXTENDS Episodes

CONSTANTS
    Listings,   \* what can be listed: sets of events
    Recorded,   \* the listings whose books were recorded
    Batches,    \* what can happen at one instant
    MaxTime,    \* bound: the length of a recording
    MaxBatches  \* bound: how many instants it has

\* The constructors accept every relation that the analysis of a listing finds.
ASSUME ArbitrageAssumption ==
    /\ \A batch \in Batches : IsBatch(batch)
    /\ \A l \in Listings : \A s \in BuildSpecs(l) :
           s.level \in UNVERIFIED .. PROVEN /\ WellFormed(s.relation)

VARIABLES
    events,     \* the events listed
    fresh,      \* history: tickers whose book was seen since the last gap
    log         \* history: what was known after each batch

arbVars == <<scanVars, events, fresh, log>>

ArbInit ==
    /\ events \in Listings
    /\ ScanInit(BuildSpecs(events))
    /\ fresh = {} /\ log = <<>>

Observe(batch, ts) ==
    /\ Process(batch, ts)
    /\ fresh' = (IF Blind(batch, ts) THEN {} ELSE fresh) \cup DOMAIN batch.updates
    /\ log' = Append(log, [ts |-> ts, books |-> books', closed |-> closed',
                           updated |-> DOMAIN batch.updates, confirm |-> batch.confirm,
                           observed |-> ObservesBooks(batch)])

ArbNext ==
    /\ events \in Recorded
    /\ UNCHANGED events
    /\ \/ /\ Len(log) < MaxBatches
          /\ \E batch \in Batches, ts \in now + 1 .. MaxTime : Observe(batch, ts)
       \/ log # <<>> /\ Finish /\ UNCHANGED <<fresh, log>>

ArbSpec == ArbInit /\ [][ArbNext]_arbVars

----------------------------------------------------------------------------
(* What a settlement is: a value of the subject; a market is what its rules say of it. *)

Markets == UNION {e.markets : e \in events}
OfSubject(s) == {m \in Markets : m.subject = s /\ IsNumeric(m)}

YesAt(s, x) ==
    {m.ticker : m \in {n \in OfSubject(s) : \A i \in DOMAIN n.clauses :
                                               Inside(ClauseInterval(n.clauses[i]), x)}}

Subjects(claim) == {m.subject : m \in {n \in Markets :
                        IsNumeric(n) /\ n.ticker \in Members(claim.relation)}}

\* The grids a claim and its markets rest on.
GridsUnder(claim) ==
    claim.grids \cup InexactSteps({n \in NumericMarkets(Markets) :
                                      n.ticker \in Members(claim.relation)})

\* The real line for what is proven, else the coarsest grid.
Values(claim, s) ==
    LET bounds == UNION {UNION {Bounds(ClauseInterval(m.clauses[i])) : i \in DOMAIN m.clauses}
                            \cup Bounds(StrikeInterval(m.strike)) : m \in OfSubject(s)}
        grids  == IF claim.level = PROVEN THEN {} ELSE GridsUnder(claim)
        step   == Max(grids)
    IN  IF grids = {} THEN UNION {{2 * b - 1, 2 * b, 2 * b + 1} : b \in bounds}
        ELSE {2 * step * k : k \in Min(bounds) \div step - 1 .. Max(bounds) \div step + 2}

(***************************************************************************)
(* A relation called proven holds whatever value the subject settles at,   *)
(* one called lattice at every value on the grid it names, and a declared  *)
(* one never contradicts what the rules of its own markets say             *)
(* (semantics.py's evidence levels).                                       *)
(***************************************************************************)
RelationsHold ==
    now = 0 => \A claim \in specs : claim.level >= DECLARED =>
        \A s \in Subjects(claim) : \A x \in Values(claim, s) :
            Admissible(claim.relation, YesAt(s, x))

\* The claims an episode's trade belongs to at the level it is credited with.
ClaimsOf(ep) ==
    {s \in specs : s.level = ep.level /\ TradeKey(ep.constraint) \in
                       {TradeKey(c) : c \in Constraints(s.relation)}}

(***************************************************************************)
(* The order a cost model would send for an opportunity that rests on the  *)
(* settlement rules realises at least the net profit it promised, however  *)
(* the markets settle (Opportunity.settle_micro).                          *)
(***************************************************************************)
NetIsGuaranteed ==
    \A k \in DOMAIN open : LET ep == open[k] IN
        (ep.first = now /\ ep.level >= LATTICE) =>
            \A v \in DOMAIN Variants :
                LET order == ep.orders[v]
                    paid  == BundleCost(ep.constraint, books, order.bundles)
                             + BundleFee(ep.constraint, books, order.bundles, Variants[v])
                IN  order.limits # <<>> =>
                    \A claim \in ClaimsOf(ep) : \A s \in Subjects(claim) :
                        \A x \in Values(claim, s) :
                            SettleMicro(ep.constraint, order.bundles, paid, YesAt(s, x))
                                >= order.net

\* The detector's funnel counts what passes each filter; the study's counts the episodes by the
\* deepest stage they reached, "every stage is a subset of the previous one" (opportunity.py).
FunnelsAgree ==
    LET sighted == {k \in DOMAIN open : open[k].first = now}
    IN  \A v \in DOMAIN Variants :
            Funnel([k \in sighted |-> open[k].orders[v]])
                = [n \in 1 .. 5 |-> StageReached({open[k] : k \in sighted}, v, n - 1)]

\* No order that would have been filled while an edge lasted earns more than the most that was
\* seen to be in it (Scanner._record's peak).
PeakIsHighest ==
    \A r \in results, k \in DOMAIN open : \A v \in DOMAIN r.fills :
        (open[k].constraint = r.constraint /\ open[k].first = r.first /\ r.fills[v].whole) =>
            r.fills[v].net <= open[k].peak[v]

(***************************************************************************)
(* Of all whole lots the books can fill, the size reported is the one that *)
(* earns the most, the smaller of two, and the break-even size the largest *)
(* that still earns: the few sizes tried and the bisection lose nothing    *)
(* while fees are not rounded (optimize); none pays if the smallest does   *)
(* not at the best prices, so that the two funnels agree; and no probe of  *)
(* an episode still open earns more than its peak.                         *)
(***************************************************************************)
OptimalSize ==
    /\ FunnelsAgree /\ PeakIsHighest
    /\ \A k \in DOMAIN open, v \in DOMAIN Variants :
           LET ep    == open[k]
               par   == Variants[v]
               net   == [n \in Lots(par.lot, Deepest(ep.constraint, books, par)) |->
                            Net(ep.constraint, books, n, par)]
               sized == Optimize(ep.constraint, books, par)
           IN  (ep.first = now /\ DOMAIN net # {}) =>
                   /\ \A n \in DOMAIN net : net[n] < net[sized.best]
                                            \/ (net[n] = net[sized.best] /\ sized.best <= n)
                   /\ \A n \in DOMAIN net : net[n] > 0 => n <= sized.breakeven

(***************************************************************************)
(* The open episodes are what a detection from scratch would find, though  *)
(* only relations with a changed book are priced: each open one is         *)
(* violated now and trades, and each violated constraint of an observable  *)
(* relation, one of whose books was seen since the last gap, is open.      *)
(***************************************************************************)
OpenIsExact ==
    ~finished =>
        /\ \A k \in DOMAIN open :
              /\ Violated(open[k].constraint, books)
              /\ LegTickers(open[k].constraint) \cap closed = {}
        /\ \A s \in specs :
              (SpecActive(s, books, closed) /\ Members(s.relation) \cap fresh # {}) =>
                  \A c \in Constraints(s.relation) :
                      Violated(c, books) => TradeKey(c) \in DOMAIN open

\* What was known at an instant, and at the first one after it that saw books.
KnownAt(t) == log[CHOOSE i \in DOMAIN log : log[i].ts <= t /\ \A j \in DOMAIN log :
                                                              log[j].ts <= t => j <= i]
SeenAfter(t) == {i \in DOMAIN log : log[i].ts > t /\ log[i].observed}
NextSeen(t) == log[CHOOSE i \in SeenAfter(t) : \A j \in SeenAfter(t) : i <= j]

AliveIn(con, known) ==
    LegTickers(con) \subseteq DOMAIN known.books \ known.closed /\ Violated(con, known.books)

(***************************************************************************)
(* A probe is bracketed: "before" is what was known when the order would   *)
(* have arrived, "after" is the first book seen later, and every episode   *)
(* gets both as soon as they are known, whatever became of it (scanner.py, *)
(* "latency probes are as-of, and bracketed").                             *)
(***************************************************************************)
ProbesAreBracketed ==
    /\ \A r \in results :
          LET t == r.first + r.delta
          IN  r.alive = AliveIn(r.constraint, IF r.kind = "before" THEN KnownAt(t) ELSE NextSeen(t))
    /\ \A ep \in {open[k] : k \in DOMAIN open} \cup {d.episode : d \in done}, d \in Deltas :
          LET t == ep.first + d
              answered(kind) == \E r \in results :
                  r.constraint = ep.constraint /\ r.first = ep.first /\ r.delta = d /\ r.kind = kind
          IN  /\ answered("before") <=> (t < now \/ finished)
              /\ answered("after") <=> SeenAfter(t) # {}

\* Everything the trade is known from can still be observed.
StillObservable(con, known) ==
    \A s \in specs : TradeKey(con) \in {TradeKey(c) : c \in Constraints(s.relation)} =>
        SpecActive(s, known.books, known.closed)

\* Alive at every sighting of books up to the lower bound, gone at the upper one.
BoundsWereSeen ==
    \A e \in done : LET ep == e.episode IN
        /\ \A i \in DOMAIN log :
              (log[i].observed /\ ep.first <= log[i].ts /\ log[i].ts <= ep.lastAlive) =>
                  AliveIn(ep.constraint, log[i])
        /\ (~Censored(e) /\ StillObservable(ep.constraint, KnownAt(e.end))) =>
              ~AliveIn(ep.constraint, KnownAt(e.end))

\* Efron's reading of a sample: what is censored leaves its share to those that last longer.
Plus(f, g) == <<f[1] * g[2] + g[1] * f[2], f[2] * g[2]>>
ShareLost(duration, dead, t) ==
    LET before(e, f) == \/ duration[e] < duration[f]
                        \/ duration[e] = duration[f] /\ e \in dead /\ f \notin dead
        inherit(share, left) == IF left = 1 THEN share ELSE Times(<<share, <<left, left - 1>>>>)
        pass(acc, e) ==
            [left  |-> acc.left - 1,
             share |-> IF e \in dead THEN acc.share ELSE inherit(acc.share, acc.left),
             lost  |-> IF e \in dead /\ duration[e] <= t THEN Plus(acc.lost, acc.share) ELSE acc.lost]
        n == Cardinality(DOMAIN duration)
    IN  FoldLeft(pass, [left |-> n, share |-> <<1, n>>, lost |-> <<0, 1>>],
                 SetToSortSeq(DOMAIN duration, before)).lost

IsRest(f, g) == f[1] * g[2] + g[1] * f[2] = f[2] * g[2]
NoMore(f, g) == f[1] * g[2] <= g[1] * f[2]

CurvesAreBracketed(eps, t) ==
    \E table \in {LifetimeAnalysis(eps, t)} : LET n == Cardinality(eps) IN
        /\ \A s \in {table.pessimistic, table.optimistic} :
              NoMore(<<table.bounds[1], n>>, s) /\ NoMore(s, <<table.bounds[2], n>>)
        /\ IsRest(table.pessimistic, ShareLost(Pessimistic(eps), SeenDead(eps), t))
        /\ IsRest(table.optimistic, ShareLost(Optimistic(eps), SeenDead(eps), t))

\* What was alive for longer than d was so for both probes, and no order is filled whole of an
\* edge that is gone.
TablesAgree(eps, d) ==
    /\ \A q \in PairsAt(eps, d) : AliveAfter(q.ended, d) => q.before.alive /\ q.after.alive
    /\ \A v \in DOMAIN Variants :
          \A pair \in {<<ExecutionTable(eps, v, d), SurvivalTable(Tradable(eps, v), d)>>,
                        <<LatencyFunnel(eps, v, d), SurvivalTable(AtSight(eps, v), d)>>} :
              /\ pair[1].n = pair[2].n
              /\ pair[1].lo <= pair[2].lo /\ pair[1].hi <= pair[2].hi

\* What a relation's own trade lasted, over all its episodes, and the poll cycles it was there,
\* are within those counted for the relation (frequency).
ExposureCoversEpisodes(s, con) ==
    \E eps \in {{e \in done : TradeKey(e.episode.constraint) = TradeKey(con)}} :
        /\ MapThenSumSet(SeenAlive, eps) <= Frequency({s}, eps).hours
        /\ Frequency({s}, eps).alive <= Frequency({s}, eps).cycles

(***************************************************************************)
(* The bounds of a lifetime are what was seen, as long as what it was      *)
(* found in still trades; both Kaplan-Meier readings lie between the       *)
(* shares surely and possibly alive and handle censoring and ties as the   *)
(* estimator should; the probes agree with the lifetimes; a trade in all   *)
(* markets of a relation never lasts longer than the relation was exposed  *)
(* (stats.py, arbitrage_analysis.py, latency_analysis.py).                 *)
(***************************************************************************)
LifetimesAreBracketed ==
    finished =>
        /\ BoundsWereSeen
        /\ \A s \in specs :
              \A c \in {d \in Constraints(s.relation) : LegTickers(d) = Members(s.relation)} :
                  ExposureCoversEpisodes(s, c)
        /\ \A confirmed \in BOOLEAN : \E eps \in {Select(confirmed)} :
              /\ eps # {} => \A t \in 0 .. MaxTime : CurvesAreBracketed(eps, t)
              /\ \A d \in Deltas : TablesAgree(eps, d)

(***************************************************************************)
(* The two measurements of latency agree: at no latency every bundle is    *)
(* filled whole at exactly the net priced, so that bundles of one instant  *)
(* never compete; at a latency that was probed, the bundles sent first are *)
(* filled as the "before" probe says (strategies.py, latency_analysis.py). *)
(***************************************************************************)
SweepMatchesProbes ==
    (finished /\ done # {}) => \A v \in DOMAIN Variants, latency \in {0} \cup Deltas :
        \E bundles \in {LatencySweep(log, SetToSeq(specs), latency, v)} :
            \A k \in DOMAIN bundles : LET b == bundles[k] IN
                /\ latency = 0 => /\ Outcome(b) = "full"
                                  /\ b.constraint.bound * b.order.bundles - b.paid = b.order.net
                /\ \A r \in results :
                      (/\ b.sent = bundles[1].sent /\ r.kind = "before"
                       /\ r.first = b.sent /\ r.delta = latency
                       /\ TradeKey(r.constraint) = TradeKey(b.constraint)
                       /\ r.since # None /\ r.since <= StaleAfter) =>
                          /\ r.fills[v].whole <=> Outcome(b) = "full"
                          /\ r.fills[v].least = Min(ToSet(b.filled))

\* When books were seen, and the units of time that lie between two such instants that are no
\* gap apart, or after the last one.
Sightings == {log[i].ts : i \in {j \in DOMAIN log : log[j].observed}}
IsWatched(x) ==
    \E t \in Sightings : /\ t <= x
                         /\ \/ \A u \in Sightings : u <= x
                            \/ \E u \in Sightings : x < u /\ u - t <= GapAfter
Watched == {x \in 0 .. now - 1 : IsWatched(x)}

(***************************************************************************)
(* A relation is never exposed for longer than the recorder was watching:  *)
(* "exposure is not counted" in a gap (scanner.py), for as long as the     *)
(* relation can be observed.                                               *)
(***************************************************************************)
ExposureIsWatched ==
    \A s \in DOMAIN activeSince : exposure[s] + (now - activeSince[s]) <= Cardinality(Watched)

=============================================================================
