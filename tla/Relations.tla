------------------------------ MODULE Relations ------------------------------
(***************************************************************************)
(* What a logical relation between binary markets says, and what it makes  *)
(* of prices (market/relationships.py).  A relation constrains the world   *)
(* the markets settle in; each of its constraints is a bundle of contracts *)
(* whose payoff is at least a bound in every admissible world.             *)
(*                                                                         *)
(* And what single markets say, from which the relations between them are  *)
(* concluded (market/semantics.py): their values and the rules they state. *)
(***************************************************************************)
EXTENDS OrderBook, FiniteSets, SequencesExt

CONSTANTS
    Ticker,             \* the markets, numbered in the order of their tickers
    None,               \* no value (Python's None): an infinite end of an interval
    MinEvents,          \* EmpiricalPolicy.min_events
    RateNum, RateDen,   \* EmpiricalPolicy.max_violation_upper
    AlphaNum, AlphaDen  \* 1 - confidence of the Clopper-Pearson bound

ASSUME RelationsAssumption ==
    /\ Ticker \subseteq Nat /\ None \notin Int
    /\ MinEvents \in Nat /\ {RateNum, AlphaNum} \subseteq Nat
    /\ {RateDen, AlphaDen} \subseteq Nat \ {0} /\ RateNum <= RateDen

\* A leg buys qty contracts of one side per bundle; every relation uses 1.
Leg == [ticker : Ticker, side : Side, qty : {1}]
Yes(t) == [ticker |-> t, side |-> "YES", qty |-> 1]
No(t)  == [ticker |-> t, side |-> "NO", qty |-> 1]

Each(leg(_), markets) == [i \in DOMAIN markets |-> leg(markets[i])]

Constraint == [kind : STRING, legs : Seq(Leg), bound : Nat]

(***************************************************************************)
(* Relations.  A union lists its parts and then the whole; the parts of    *)
(* every union the analysis finds are disjoint.                            *)
(***************************************************************************)
RelationOf(kind, markets) == [kind |-> kind, markets |-> markets]

Distinct(markets) == \A i, j \in DOMAIN markets : markets[i] = markets[j] => i = j

\* RelationKind
Kinds == {"complement", "mutually_exclusive", "exhaustive", "partition", "implies", "chain", "union"}

\* What the constructors accept.
WellFormed(rel) ==
    /\ rel.kind \in Kinds /\ rel.markets \in Seq(Ticker) /\ Distinct(rel.markets)
    /\ Len(rel.markets) >= CASE rel.kind = "complement" -> 1
                             [] rel.kind = "union"      -> 3
                             [] OTHER                   -> 2

Members(rel) == {rel.markets[i] : i \in DOMAIN rel.markets}
Parts(rel) == SubSeq(rel.markets, 1, Len(rel.markets) - 1)
Whole(rel) == rel.markets[Len(rel.markets)]

----------------------------------------------------------------------------
(* The constraints of each kind of relation. *)

ConstraintOf(kind, legs, bound) == [kind |-> kind, legs |-> legs, bound |-> bound * PriceScale]

ComplementBundle(rel) == ConstraintOf("complement", <<Yes(rel.markets[1]), No(rel.markets[1])>>, 1)

\* Fault: the bound of a bundle of NOs counts every market.
MutexBundleUnbounded(markets) ==
    ConstraintOf("mutually_exclusive", Each(No, markets), Len(markets))

\* At most one is YES: all but one of the NOs pay.
MutexBundle(markets) ==
    ConstraintOf("mutually_exclusive", Each(No, markets), Len(markets) - 1)

\* At least one is YES.
CoverBundle(markets) == ConstraintOf("exhaustive", Each(Yes, markets), 1)

\* a is YES only if b is.
ImpliesBundle(a, b) == ConstraintOf("implies", <<Yes(b), No(a)>>, 1)

\* Every pair of a chain, not only neighbours.
ChainPairs(markets) == {p \in (DOMAIN markets) \X (DOMAIN markets) : p[1] < p[2]}

UnionCover(rel) == ConstraintOf("union", <<No(Whole(rel))>> \o Each(Yes, Parts(rel)), 1)
UnionSum(rel) ==
    ConstraintOf("union", <<Yes(Whole(rel))>> \o Each(No, Parts(rel)), Len(Parts(rel)))

\* Relation.constraints
Constraints(rel) ==
    CASE rel.kind = "complement"         -> {ComplementBundle(rel)}
      [] rel.kind = "mutually_exclusive" -> {MutexBundle(rel.markets)}
      [] rel.kind = "exhaustive"         -> {CoverBundle(rel.markets)}
      [] rel.kind = "partition"          -> {MutexBundle(rel.markets), CoverBundle(rel.markets)}
      [] rel.kind = "implies"            -> {ImpliesBundle(rel.markets[1], rel.markets[2])}
      [] rel.kind = "chain"              -> {ImpliesBundle(rel.markets[p[1]], rel.markets[p[2]]) :
                                                 p \in ChainPairs(rel.markets)}
      [] rel.kind = "union"              -> {UnionCover(rel), UnionSum(rel),
                                             MutexBundle(Parts(rel))}

----------------------------------------------------------------------------
(* Worlds: the markets that resolve YES. *)

CountYes(world, markets) == Cardinality({i \in DOMAIN markets : markets[i] \in world})

\* Relation.admissible
Admissible(rel, world) ==
    CASE rel.kind = "complement"         -> TRUE
      [] rel.kind = "mutually_exclusive" -> CountYes(world, rel.markets) <= 1
      [] rel.kind = "exhaustive"         -> CountYes(world, rel.markets) >= 1
      [] rel.kind = "partition"          -> CountYes(world, rel.markets) = 1
      [] rel.kind \in {"implies", "chain"} ->
            \A i \in 1 .. Len(rel.markets) - 1 :
                rel.markets[i] \in world => rel.markets[i + 1] \in world
      [] rel.kind = "union"              ->
            /\ Whole(rel) \in world <=> CountYes(world, Parts(rel)) >= 1
            /\ CountYes(world, Parts(rel)) <= 1

\* Constraint.world_payoff: what one bundle pays, in ticks.
WorldPayoff(con, world) ==
    PriceScale * Total([i \in DOMAIN con.legs |->
                            IF (con.legs[i].ticker \in world) = (con.legs[i].side = "YES")
                            THEN con.legs[i].qty ELSE 0], Len(con.legs))

----------------------------------------------------------------------------
(* Pricing at the best asks.  books maps the tickers that have a book.     *)

\* asks_from_books has an offer of the leg; best_ask and what is there.
HasOffer(leg, books) ==
    leg.ticker \in DOMAIN books /\ HasBid(books[leg.ticker], Opposite(leg.side))
Ask(leg, books) == BestAsk(books[leg.ticker], leg.side)
AskQty(leg, books) ==
    books[leg.ticker][<<Opposite(leg.side), Complement(Ask(leg, books))>>]

\* Constraint.check is not None; the cost, margin and top quantity it finds.
Priceable(con, books) == \A i \in DOMAIN con.legs : HasOffer(con.legs[i], books)
Cost(con, books) ==
    Total([i \in DOMAIN con.legs |-> con.legs[i].qty * Ask(con.legs[i], books)], Len(con.legs))
Margin(con, books) == con.bound - Cost(con, books)
TopQty(con, books) ==
    LET on == {AskQty(con.legs[i], books) \div con.legs[i].qty : i \in DOMAIN con.legs}
    IN  CHOOSE q \in on : \A r \in on : q <= r

\* The NO asks of the rungs before j.
NoAsksBefore(m, j, books) ==
    {Ask(No(m[i]), books) : i \in {k \in 1 .. j - 1 : HasOffer(No(m[k]), books)}}

\* Fault: the running minimum is overwritten by every NO ask.
CheapestNoLast(m, j, books) ==
    Ask(No(m[CHOOSE i \in 1 .. j - 1 :
        /\ HasOffer(No(m[i]), books)
        /\ \A k \in i + 1 .. j - 1 : ~HasOffer(No(m[k]), books)]), books)

\* The cheapest of them: the running minimum.
CheapestNo(m, j, books) ==
    CHOOSE n \in NoAsksBefore(m, j, books) : \A k \in NoAsksBefore(m, j, books) : n <= k

(***************************************************************************)
(* Chain.candidate_constraints walks the rungs with the cheapest NO ask    *)
(* seen so far and lists the pairs with rung j only when it and the YES    *)
(* ask of j cost less than a dollar together.                              *)
(***************************************************************************)
Candidates(rel, books) ==
    LET m == rel.markets
        bundle(i, j) == Ask(No(m[i]), books) + Ask(Yes(m[j]), books)
        cheap(j)  == /\ HasOffer(Yes(m[j]), books)
                     /\ NoAsksBefore(m, j, books) # {}
                     /\ CheapestNo(m, j, books) + Ask(Yes(m[j]), books) < PriceScale
    IN  {ImpliesBundle(m[p[1]], m[p[2]]) :
            p \in {q \in ChainPairs(m) : /\ cheap(q[2])
                                         /\ HasOffer(No(m[q[1]]), books)
                                         /\ bundle(q[1], q[2]) < PriceScale}}

\* detect: what of a relation is priced against these books.
ToPrice(rel, books) == IF rel.kind = "chain" THEN Candidates(rel, books) ELSE Constraints(rel)

-----------------------------------------------------------------------------
(* The semantics of a market.  Numbers are decimals with two places, in    *)
(* hundredths.  The rules text of a market is its numeric clauses and the  *)
(* subject they are about: the text around the clause with the closing     *)
(* time and the custom strike.                                             *)

(* EvidenceLevel *)
UNVERIFIED == 0
EMPIRICAL  == 1
DECLARED   == 2
LATTICE    == 3
PROVEN     == 4

----------------------------------------------------------------------------
(* Intervals of the real line.  An infinite end is never closed. *)

Interval(lo, loClosed, hi, hiClosed) ==
    [lo |-> lo, loClosed |-> lo # None /\ loClosed, hi |-> hi, hiClosed |-> hi # None /\ hiClosed]

Above(a)      == Interval(a, FALSE, None, FALSE)
AtLeast(a)    == Interval(a, TRUE, None, FALSE)
Below(a)      == Interval(None, FALSE, a, FALSE)
AtMost(a)     == Interval(None, FALSE, a, TRUE)
Between(a, b) == Interval(a, TRUE, b, TRUE)

Bounds(iv) == {iv.lo, iv.hi} \ {None}

\* x is in the interval.  Values between the decimals matter: x is in halves
\* of a hundredth, so that 2 * b + 1 stands for those just above b.
Inside(iv, x) ==
    /\ iv.lo = None \/ x > 2 * iv.lo \/ (x = 2 * iv.lo /\ iv.loClosed)
    /\ iv.hi = None \/ x < 2 * iv.hi \/ (x = 2 * iv.hi /\ iv.hiClosed)

\* Interval.is_empty, subset_of and disjoint
IsEmpty(iv) ==
    /\ None \notin {iv.lo, iv.hi}
    /\ iv.lo > iv.hi \/ (iv.lo = iv.hi /\ ~(iv.loClosed /\ iv.hiClosed))

LowerWithin(a, b) ==
    \/ b.lo = None
    \/ a.lo # None /\ (a.lo > b.lo \/ (a.lo = b.lo /\ (b.loClosed \/ ~a.loClosed)))
UpperWithin(a, b) ==
    \/ b.hi = None
    \/ a.hi # None /\ (a.hi < b.hi \/ (a.hi = b.hi /\ (b.hiClosed \/ ~a.hiClosed)))
SubsetOf(a, b) == IsEmpty(a) \/ (LowerWithin(a, b) /\ UpperWithin(a, b))

EndsBefore(a, b) ==
    /\ None \notin {a.hi, b.lo}
    /\ a.hi < b.lo \/ (a.hi = b.lo /\ ~(a.hiClosed /\ b.loClosed))
Disjoint(a, b) == EndsBefore(a, b) \/ EndsBefore(b, a)

----------------------------------------------------------------------------
(* Grids.  A step is in hundredths. *)

\* The grid points k * step inside the interval: from the first to the last k.
LatticeRange(iv, step) ==
    [first |-> IF iv.lo = None THEN None
               ELSE IF iv.loClosed THEN -((-iv.lo) \div step) ELSE iv.lo \div step + 1,
     last  |-> IF iv.hi = None THEN None
               ELSE IF iv.hiClosed THEN iv.hi \div step ELSE -((-iv.hi) \div step) - 1]
NoPoint(r) == None \notin {r.first, r.last} /\ r.first > r.last

\* grid_step: the coarsest of 1, 0.1 and 0.01 with every value on its grid,
\* except that whole numbers and halves are thresholds of whole numbers (A3).
GridStep(values) ==
    IF \A v \in values : v % 100 = 0 THEN 100
    ELSE IF \A v \in values : v % 10 = 0
         THEN IF \A v \in values : v % 50 = 0 THEN 100 ELSE 10
    ELSE 1

GridOf(nms) == GridStep(UNION {Bounds(nm.interval) : nm \in nms})

----------------------------------------------------------------------------
(***************************************************************************)
(* Markets.  A strike has a type and up to two numbers; a clause of the    *)
(* rules text has a comparator and one number, "between" two.              *)
(***************************************************************************)
StrikeInterval(s) ==
    CASE s.type = "greater"          /\ s.floor # None -> Above(s.floor)
      [] s.type = "greater_or_equal" /\ s.floor # None -> AtLeast(s.floor)
      [] s.type = "less"             /\ s.cap # None   -> Below(s.cap)
      [] s.type = "less_or_equal"    /\ s.cap # None   -> AtMost(s.cap)
      [] s.type = "between" /\ None \notin {s.floor, s.cap} -> Between(s.floor, s.cap)
      [] OTHER -> None

ClauseInterval(c) ==
    CASE c.comparator = "gt"      -> Above(c.a)
      [] c.comparator = "ge"      -> AtLeast(c.a)
      [] c.comparator = "lt"      -> Below(c.a)
      [] c.comparator = "le"      -> AtMost(c.a)
      [] c.comparator = "eq"      -> Between(c.a, c.a)
      [] c.comparator = "between" -> Between(c.a, c.b)

\* Fault: the first of several clauses is taken.
ParseRulesFirst(m) == IF m.clauses = <<>> THEN None ELSE ClauseInterval(m.clauses[1])

\* parse_rules: ambiguity is never resolved by guessing.
ParseRules(m) == IF Len(m.clauses) = 1 THEN ClauseInterval(m.clauses[1]) ELSE None

\* The grid on which the strike and the text may agree when they differ.
SharedStep(m) == GridStep(Bounds(StrikeInterval(m.strike)) \cup Bounds(ParseRules(m)))

Exact(m) == ParseRules(m) = StrikeInterval(m.strike)

\* They differ as sets but have the same grid points.
AgreeOnGrid(m) ==
    LET a == LatticeRange(StrikeInterval(m.strike), SharedStep(m))
        b == LatticeRange(ParseRules(m), SharedStep(m))
    IN  ~NoPoint(a) /\ a = b

HasNumbers(m) == StrikeInterval(m.strike) # None /\ ParseRules(m) # None

\* numeric_view gives a view of the market; and the view.
IsNumeric(m) == HasNumbers(m) /\ (Exact(m) \/ AgreeOnGrid(m))
NumericView(m) ==
    [ticker |-> m.ticker, interval |-> StrikeInterval(m.strike), subject |-> m.subject,
     exact |-> Exact(m), step |-> IF Exact(m) THEN None ELSE SharedStep(m)]

\* "strike says ... but rules text says ..."
Contradicts(m) == HasNumbers(m) /\ ~IsNumeric(m)

NumericMarkets(markets) == {NumericView(m) : m \in {n \in markets : IsNumeric(n)}}

\* The families: the views of one subject.
Families(markets) ==
    {{nm \in NumericMarkets(markets) : nm.subject = s} : s \in {m.subject : m \in markets}} \ {{}}

Tickers(nms) == [i \in DOMAIN nms |-> nms[i].ticker]
InTickerOrder(nms) == SetToSortSeq(nms, LAMBDA a, b : a.ticker < b.ticker)
=============================================================================
