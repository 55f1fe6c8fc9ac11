------------------------------ MODULE Execution ------------------------------
(***************************************************************************)
(* The relations claimed for a listing of events, with the level of        *)
(* evidence of each (market/semantics.py: analyze_event, find_unions;      *)
(* arbitrage/detector.py: build_specs).  An event is a set of markets, the *)
(* exchange's mutually_exclusive flag, whether every market of the event   *)
(* is in hand, and what its series settled to before.                      *)
(***************************************************************************)
EXTENDS Relations, Combinatorics, Fees

(***************************************************************************)
(* Settled history (SeriesStats): per event whether a market settled at a  *)
(* fraction, and how many markets resolved YES.                            *)
(***************************************************************************)
NoStats == [clean |-> 0, zero |-> 0, multi |-> 0]

\* SeriesStats.add of an event all of whose markets are settled.
AddEvent(stats, event) ==
    IF event.scalar THEN stats
    ELSE [clean |-> stats.clean + 1,
          zero  |-> stats.zero + (IF event.yes = 0 THEN 1 ELSE 0),
          multi |-> stats.multi + (IF event.yes >= 2 THEN 1 ELSE 0)]

(***************************************************************************)
(* clopper_pearson_upper(k, n) is at most the policy's rate: k or fewer    *)
(* violations in n trials have probability at most alpha at that rate.     *)
(***************************************************************************)
UpperBoundOK(k, n) ==
    \/ RateNum = RateDen
    \/ /\ k < n
       /\ AlphaDen * MapThenSumSet(
                LAMBDA i : choose(n, i) * RateNum^i * (RateDen - RateNum)^(n - i), 0 .. k)
            <= AlphaNum * RateDen^n

----------------------------------------------------------------------------
(* Tilings.  Views are sorted by their lower end, closed before open. *)

ByLowerEnd(a, b) ==
    LET x == a.interval
        y == b.interval
    IN  \/ x.lo = None /\ (y.lo # None \/ a.ticker < b.ticker)
        \/ /\ None \notin {x.lo, y.lo}
           /\ \/ x.lo < y.lo
              \/ x.lo = y.lo /\ x.loClosed /\ ~y.loClosed
              \/ x.lo = y.lo /\ x.loClosed = y.loClosed /\ a.ticker < b.ticker

PairwiseDisjoint(nms) ==
    \A a, b \in nms : a.ticker # b.ticker => Disjoint(a.interval, b.interval)

\* No point lies between the interval a and the next one, b.
Meets(a, b) == None \notin {a.hi, b.lo} /\ a.hi = b.lo /\ (a.hiClosed \/ b.loClosed)
MeetAll(ivs) == \A i \in 1 .. Len(ivs) - 1 : Meets(ivs[i], ivs[i + 1])

\* Ranges of grid points follow on each other.
Follow(ranges) ==
    \A i \in 1 .. Len(ranges) - 1 :
        /\ None \notin {ranges[i].last, ranges[i + 1].first}
        /\ ranges[i + 1].first = ranges[i].last + 1

\* analyse_tiling of a family: exhaustive_on_real_line and _on_lattice.
InOrder(nms) == SetToSortSeq(nms, ByLowerEnd)
Intervals(order) == [i \in DOMAIN order |-> order[i].interval]
Ranges(order, step) == [i \in DOMAIN order |-> LatticeRange(order[i].interval, step)]

TilesRealLine(nms) ==
    LET ivs == Intervals(InOrder(nms))
    IN  ivs[1].lo = None /\ ivs[Len(ivs)].hi = None /\ MeetAll(ivs)
TilesLattice(nms) ==
    LET ranges == Ranges(InOrder(nms), GridOf(nms))
    IN  /\ \A i \in DOMAIN ranges : ~NoPoint(ranges[i])
        /\ ranges[1].first = None /\ ranges[Len(ranges)].last = None
        /\ Follow(ranges)

(***************************************************************************)
(* exact_union: the tiles inside the target, in the order of their first   *)
(* grid points (an infinite one sorts as -1), when they are exactly it on  *)
(* the grid they share with it.                                            *)
(***************************************************************************)
InsideOf(target, tiles) == {t \in tiles : SubsetOf(t.interval, target.interval)}
UnionStep(target, tiles) == GridOf({target} \cup InsideOf(target, tiles))
UnionOrder(target, tiles) ==
    LET key(t) == LET first == LatticeRange(t.interval, UnionStep(target, tiles)).first
                  IN  IF first = None THEN -1 ELSE first
    IN  SetToSortSeq(InsideOf(target, tiles),
                     LAMBDA a, b : key(a) < key(b) \/ (key(a) = key(b) /\ a.ticker < b.ticker))

ExactUnion(target, tiles) ==
    LET step   == UnionStep(target, tiles)
        ranges == Ranges(UnionOrder(target, tiles), step)
        want   == LatticeRange(target.interval, step)
    IN  /\ Cardinality(InsideOf(target, tiles)) >= 2
        /\ ~NoPoint(want) /\ \A i \in DOMAIN ranges : ~NoPoint(ranges[i])
        /\ ranges[1].first = want.first /\ ranges[Len(ranges)].last = want.last
        /\ Follow(ranges)

\* _exact_on_real_line
ExactOnRealLine(target, ivs) ==
    /\ ivs[1].lo = target.lo /\ ivs[1].loClosed = target.loClosed
    /\ ivs[Len(ivs)].hi = target.hi /\ ivs[Len(ivs)].hiClosed = target.hiClosed
    /\ MeetAll(ivs)

----------------------------------------------------------------------------
(***************************************************************************)
(* Assessments.  grids holds the steps a claim rests on: those on which a  *)
(* strike and its text agree, and the one on which intervals tile.  The    *)
(* code writes them into the text of the claim's assumptions (of several   *)
(* inexact markets it names the first one's).                              *)
(***************************************************************************)
Assess(kind, markets, level, grids) ==
    [relation |-> RelationOf(kind, markets), level |-> level, grids |-> grids]

InexactSteps(nms) == {nm.step : nm \in {n \in nms : ~n.exact}}

\* Fault: an agreement on a grid only counts as exact.
CapAlwaysProven(nms) == PROVEN

Cap(nms) == IF InexactSteps(nms) = {} THEN PROVEN ELSE LATTICE

\* _narrowest_first: nested half-lines, each contained in the next.
NarrowestUp(nms) ==
    Tickers(SetToSortSeq(nms, LAMBDA a, b :
        \/ a.interval.lo > b.interval.lo
        \/ /\ a.interval.lo = b.interval.lo
           /\ \/ ~a.interval.loClosed /\ b.interval.loClosed
              \/ a.interval.loClosed = b.interval.loClosed /\ a.ticker < b.ticker))
NarrowestDown(nms) ==
    Tickers(SetToSortSeq(nms, LAMBDA a, b :
        \/ a.interval.hi < b.interval.hi
        \/ /\ a.interval.hi = b.interval.hi
           /\ \/ ~a.interval.hiClosed /\ b.interval.hiClosed
              \/ a.interval.hiClosed = b.interval.hiClosed /\ a.ticker < b.ticker))

Ups(fam)   == {n \in fam : n.interval.hi = None /\ n.interval.lo # None}
Downs(fam) == {n \in fam : n.interval.lo = None /\ n.interval.hi # None}
Several(nms) == Cardinality(nms) >= 2

\* _numeric_family: what the intervals of one family prove.
Chained(nms, order) ==
    IF Several(nms) THEN {order} ELSE {}
FamilyChains(fam) ==
    {Assess("chain", order, Cap(fam), InexactSteps(fam)) :
        order \in Chained(Ups(fam), NarrowestUp(Ups(fam)))
                  \cup Chained(Downs(fam), NarrowestDown(Downs(fam)))}
FamilyMutex(fam) ==
    IF Several(fam) /\ PairwiseDisjoint(fam)
    THEN {Assess("mutually_exclusive", Tickers(InTickerOrder(fam)), Cap(fam), InexactSteps(fam))}
    ELSE {}
FamilyPartition(fam, wholeEvent) ==
    LET claim(level, grids) == {Assess("partition", Tickers(InTickerOrder(fam)),
                                       MinOf(level, Cap(fam)), grids \cup InexactSteps(fam))}
    IN  IF ~wholeEvent \/ FamilyMutex(fam) = {} THEN {}
        ELSE IF TilesRealLine(fam) THEN claim(PROVEN, {})
        ELSE IF TilesLattice(fam) THEN claim(LATTICE, {GridOf(fam)})
        ELSE {}

AllOfEvent(event, fam) == event.complete /\ Cardinality(fam) = Cardinality(event.markets)
NumericFamily(event, fam) ==
    FamilyChains(fam) \cup FamilyMutex(fam) \cup FamilyPartition(fam, AllOfEvent(event, fam))

----------------------------------------------------------------------------
(* The exchange's mutually_exclusive flag (_flag_relations). *)

\* The event's own data contradicts itself.
Conflicts(event) ==
    \/ \E m \in event.markets : Contradicts(m)
    \/ event.mutex /\ \E fam \in Families(event.markets) : Several(fam) /\ ~PairwiseDisjoint(fam)

HistoryRefutes(event) == event.stats # None /\ event.stats.multi > 0

\* Fault: a conflict in the data does not discredit the flag.
MutexLevelTrusting(event) == IF HistoryRefutes(event) THEN UNVERIFIED ELSE DECLARED

MutexLevel(event) ==
    IF Conflicts(event) \/ HistoryRefutes(event) THEN UNVERIFIED ELSE DECLARED

CoverLevel(event) ==
    IF /\ event.stats # None /\ ~Conflicts(event) /\ ~HistoryRefutes(event)
       /\ event.stats.clean >= MinEvents
       /\ UpperBoundOK(event.stats.zero, event.stats.clean)
    THEN EMPIRICAL ELSE UNVERIFIED

EventTickers(event) == SetToSortSeq({m.ticker : m \in event.markets}, <)

AlreadyProven(event) ==
    \E fam \in Families(event.markets) : \E a \in FamilyMutex(fam) :
        /\ a.level = PROVEN
        /\ Members(a.relation) = {m.ticker : m \in event.markets}

FlagRelations(event) ==
    IF ~event.mutex \/ ~Several(event.markets) \/ AlreadyProven(event) THEN {}
    ELSE {Assess("mutually_exclusive", EventTickers(event), MutexLevel(event), {})}
         \cup IF ~event.complete THEN {}
              ELSE {Assess("exhaustive", EventTickers(event), CoverLevel(event), {}),
                    Assess("partition", EventTickers(event),
                           MinOf(MutexLevel(event), CoverLevel(event)), {})}

\* analyze_event
AnalyzeEvent(event) ==
    {Assess("complement", <<m.ticker>>, PROVEN, {}) : m \in event.markets}
    \cup UNION {NumericFamily(event, fam) : fam \in Families(event.markets)}
    \cup FlagRelations(event)

----------------------------------------------------------------------------
(* find_unions: half-lines of any event that disjoint tiles of one event make up. *)

TileGroups(events) ==
    {fam \in UNION {Families(e.markets) : e \in events} : Several(fam) /\ PairwiseDisjoint(fam)}
HalfLines(events, group) ==
    {n \in NumericMarkets(UNION {e.markets : e \in events}) :
        /\ \A g \in group : n.subject = g.subject /\ n.ticker # g.ticker
        /\ None \in {n.interval.lo, n.interval.hi}}

\* Fault: a union on the grid counts as proven.
UnionLevelOnGrid(target, tiles) == IF InexactSteps({target} \cup tiles) = {} THEN PROVEN ELSE LATTICE

UnionLevel(target, tiles) ==
    IF /\ InexactSteps({target} \cup InsideOf(target, tiles)) = {}
       /\ ExactOnRealLine(target.interval, Intervals(UnionOrder(target, tiles)))
    THEN PROVEN ELSE LATTICE

UnionClaim(target, tiles) ==
    Assess("union", Tickers(UnionOrder(target, tiles)) \o <<target.ticker>>,
           UnionLevel(target, tiles),
           {UnionStep(target, tiles)} \cup InexactSteps({target} \cup InsideOf(target, tiles)))

FindUnions(events) ==
    UNION {{UnionClaim(t, g) : t \in {h \in HalfLines(events, g) : ExactUnion(h, g)}} :
              g \in TileGroups(events)}

----------------------------------------------------------------------------
(* build_specs: the kinds of arbitrage share out what the analysis claims. *)

ComplementSpecs(event) == {Assess("complement", <<m.ticker>>, PROVEN, {}) : m \in event.markets}

TwoOutcomes(relation) == relation.kind = "partition" /\ Cardinality(Members(relation)) = 2
TwoOutcomeSpecs(claims) == {a \in claims : TwoOutcomes(a.relation)}
ExhaustiveSpecs(claims) ==
    {a \in claims : /\ a.relation.kind \in {"mutually_exclusive", "exhaustive", "partition"}
                    /\ ~TwoOutcomes(a.relation)}
LogicalSpecs(claims) == {a \in claims : a.relation.kind \in {"implies", "chain", "union"}}

BuildSpecs(events) ==
    UNION {ComplementSpecs(e) \cup TwoOutcomeSpecs(AnalyzeEvent(e))
               \cup ExhaustiveSpecs(AnalyzeEvent(e)) \cup LogicalSpecs(AnalyzeEvent(e)) : e \in events}
    \cup LogicalSpecs(FindUnions(events))

-----------------------------------------------------------------------------
(***************************************************************************)
(* From a violated constraint to a sized, fee-adjusted opportunity         *)
(* (arbitrage/execution.py, arbitrage/detector.py).  Bundles are bought at *)
(* once from the books as displayed; amounts are exact micro-dollars.      *)
(***************************************************************************)
(***************************************************************************)
(* DetectorParams: the taker rate of each ticker's series, the rounding,   *)
(* the lot, the smallest and the target size, the largest size (None: as   *)
(* deep as the books), the least evidence.                                 *)
(***************************************************************************)
Params == [rates : [Ticker -> Nat], rounding : Rounding, lot : Nat \ {0}, minQty : Nat,
           target : Nat, maxSize : Nat \cup {None}, minLevel : UNVERIFIED .. PROVEN]

----------------------------------------------------------------------------
(* One leg: the asks of a book are the complements of the opposite bids. *)

AskDepth(book, side, price) ==
    LET bid == <<Opposite(side), Complement(price)>> IN IF bid \in Cell THEN book[bid] ELSE 0

\* What the asks below a price hold.
DepthBelow(book, side, price) == Total([p \in 1 .. price - 1 |-> AskDepth(book, side, p)], price - 1)
Depth(book, side) == DepthBelow(book, side, PriceScale)

\* walk_asks: what is bought at each price, best price first.
WalkAsks(book, side, qty) ==
    [p \in 1 .. PriceScale - 1 |->
        [price |-> p,
         qty   |-> MaxOf(0, MinOf(AskDepth(book, side, p), qty - DepthBelow(book, side, p)))]]

FillsCost(fills) == Total([i \in DOMAIN fills |-> fills[i].price * fills[i].qty], Len(fills))

\* The worst price paid: a leg's limit.
WorstPrice(fills) ==
    CHOOSE p \in DOMAIN fills :
        fills[p].qty > 0 /\ \A q \in DOMAIN fills : fills[q].qty > 0 => q <= p

----------------------------------------------------------------------------
(* A bundle of n centi-contracts per unit of a leg. *)

LegFills(leg, books, n) == WalkAsks(books[leg.ticker], leg.side, leg.qty * n)

\* max_bundles
MaxBundles(con, books) ==
    IF \E i \in DOMAIN con.legs : con.legs[i].ticker \notin DOMAIN books THEN 0
    ELSE LET deep == {Depth(books[con.legs[i].ticker], con.legs[i].side) \div con.legs[i].qty :
                          i \in DOMAIN con.legs}
         IN  CHOOSE d \in deep : \A e \in deep : d <= e

\* price_bundle is not None.
Fillable(con, books, n) == 0 < n /\ n <= MaxBundles(con, books)

BundleCost(con, books, n) ==
    Total([i \in DOMAIN con.legs |-> FillsCost(LegFills(con.legs[i], books, n))], Len(con.legs))
BundleFee(con, books, n, params) ==
    Total([i \in DOMAIN con.legs |->
              OrderFee(params.rounding, params.rates[con.legs[i].ticker],
                       LegFills(con.legs[i], books, n))], Len(con.legs))

\* PricedBundle.net_micro: the payoff the constraint guarantees less cost and fees.
Net(con, books, n, params) ==
    con.bound * n - BundleCost(con, books, n) - BundleFee(con, books, n, params)

Limits(con, books, n) ==
    [i \in DOMAIN con.legs |-> WorstPrice(LegFills(con.legs[i], books, n))]

----------------------------------------------------------------------------
(* The size. *)

Lots(lot, upTo) == {n \in lot .. upTo : n % lot = 0}

\* Where a leg moves to its next price.
Boundaries(con, books) ==
    UNION {{DepthBelow(books[con.legs[i].ticker], con.legs[i].side, p + 1) \div con.legs[i].qty :
               p \in {q \in 1 .. PriceScale - 1 :
                        AskDepth(books[con.legs[i].ticker], con.legs[i].side, q) > 0}} :
               i \in DOMAIN con.legs}

\* Fault: only the first level and the whole depth are tried.
CandidateSizesEnds(con, books, lot, cap) == {lot, cap}

\* _candidate_sizes: the lots at and just after each boundary.
CandidateSizes(con, books, lot, cap) ==
    {s \in UNION {{(MinOf(b, cap) \div lot) * lot, (MinOf(b, cap) \div lot) * lot + lot} :
                      b \in {lot, cap} \cup Boundaries(con, books)} : lot <= s /\ s <= cap}

\* The last size that pays between one that does and one that does not, by bisection.
Crossing(Pays(_), last, next, lot) ==
    LET search[lo \in last .. next, hi \in last .. next] ==
            LET mid == lo + MaxOf((hi - lo) \div (2 * lot), 1) * lot
            IN  IF hi - lo <= lot THEN lo
                ELSE IF Pays(mid) THEN search[mid, hi] ELSE search[lo, mid]
    IN  search[last, next]

Deepest(con, books, params) ==
    LET whole(n) == (n \div params.lot) * params.lot
    IN  IF params.maxSize = None THEN whole(MaxBundles(con, books))
        ELSE MinOf(whole(MaxBundles(con, books)), whole(params.maxSize))

Priced(con, books, params, sizes) ==
    {[size |-> n, net |-> Net(con, books, n, params)] : n \in sizes}

\* The most profitable of the sizes priced, the smaller of two, and the break-even size.
BestOf(con, books, params, priced) ==
    LET pays(n) == Net(con, books, n, params) > 0
        best    == CHOOSE s \in priced : \A r \in priced :
                       r.net < s.net \/ (r.net = s.net /\ s.size <= r.size)
        paying  == {s.size : s \in {r \in priced : r.net > 0}}
        later   == {s \in {r.size : r \in priced} : s > Max(paying)}
    IN  [best |-> best.size, net |-> best.net,
         breakeven |-> IF paying = {} THEN best.size
                       ELSE IF later = {} THEN Max(paying)
                       ELSE Crossing(pays, Max(paying), Min(later), params.lot)]

\* optimize
Optimize(con, books, params) ==
    LET cap == Deepest(con, books, params)
    IN  IF cap < params.lot THEN None
        ELSE BestOf(con, books, params,
                    Priced(con, books, params, CandidateSizes(con, books, params.lot, cap)))

----------------------------------------------------------------------------
(***************************************************************************)
(* detect.  The same trade appears in several relations: it is one         *)
(* opportunity, credited to the strongest evidence.                        *)
(***************************************************************************)
TradeKey(con) == [legs |-> {con.legs[i] : i \in DOMAIN con.legs}, bound |-> con.bound]

Violated(con, books) == Priceable(con, books) /\ Margin(con, books) > 0

\* The violated trades among the relations with enough evidence, and their level.
Displayed(specs, books, minLevel) ==
    UNION {{[key |-> TradeKey(c), constraint |-> c, level |-> s.level] :
                c \in {d \in ToPrice(s.relation, books) : Violated(d, books)}} :
              s \in {t \in specs : t.level >= minLevel}}
Detected(specs, books, minLevel) ==
    LET found == Displayed(specs, books, minLevel)
    IN  {CHOOSE f \in found : f.key = k /\ \A g \in found : g.key = k => g.level <= f.level :
            k \in {f.key : f \in found}}

(***************************************************************************)
(* _evaluate: the class of a violation and how far it survives, the size   *)
(* and the net profit, and the limit price of each leg where an order      *)
(* would be sent.                                                          *)
(***************************************************************************)
Opportunity(class, passed, bundles, net, limits) ==
    [class |-> class, liquid |-> "liquid" \in passed, feeOk |-> "fees" \in passed,
     depthOk |-> "depth" \in passed, bundles |-> bundles, net |-> net, limits |-> limits]

\* Fault: the whole depth is priced.
AfterFeesAtDepth(con, books, params) == Net(con, books, MaxBundles(con, books), params) > 0

\* Profitable after fees at the best prices.
AfterFees(con, books, params) == Net(con, books, params.minQty, params) > 0
Passed(con, books, params) ==
    {"liquid"} \cup IF AfterFees(con, books, params) THEN {"fees"} ELSE {}

Judged(con, books, params, sized) ==
    LET passed == Passed(con, books, params)
    IN  IF sized = None \/ sized.net <= 0
        THEN Opportunity("unprofitable", passed, params.minQty,
                         Net(con, books, params.minQty, params), <<>>)
        ELSE Opportunity(IF sized.best >= params.target THEN "executable" ELSE "partial",
                         passed \cup {"depth"}, sized.best, sized.net, Limits(con, books, sized.best))

Evaluate(con, books, params) ==
    IF TopQty(con, books) < params.minQty THEN Opportunity("theoretical", {}, 0, None, <<>>)
    ELSE Judged(con, books, params, Optimize(con, books, params))

\* settle_micro of a bundle paid for, if the markets settle as world.
SettleMicro(con, bundles, paid, world) == WorldPayoff(con, world) * bundles - paid

\* Funnel: the opportunities counted at each stage of the detection.
Funnel(ops) ==
    <<Cardinality(DOMAIN ops),
      Cardinality({k \in DOMAIN ops : ops[k].liquid}),
      Cardinality({k \in DOMAIN ops : ops[k].feeOk}),
      Cardinality({k \in DOMAIN ops : ops[k].depthOk}),
      Cardinality({k \in DOMAIN ops : ops[k].class = "executable"})>>
=============================================================================
