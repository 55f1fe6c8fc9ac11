----------------------------- MODULE MCArbitrage -----------------------------
(***************************************************************************)
(* Every listing of up to three markets from a menu of strikes and rules   *)
(* texts is analysed; two of them are recorded and scanned.                *)
(***************************************************************************)
EXTENDS Arbitrage

Market(t, type, floor, cap, clauses) ==
    [ticker |-> t, subject |-> "temp", clauses |-> clauses,
     strike |-> [type |-> type, floor |-> floor, cap |-> cap]]
Clause(comparator, a) == <<[comparator |-> comparator, a |-> a, b |-> None]>>
ClauseTo(a, b) == <<[comparator |-> "between", a |-> a, b |-> b]>>

\* Strikes that the text matches, matches on a grid only, and contradicts.
Menu(t) ==
    {Market(t, "greater", b, None, Clause("gt", b)) : b \in {100, 200}}
    \cup {Market(t, "less", None, b, Clause("lt", b)) : b \in {100, 200}}
    \cup {Market(t, "greater_or_equal", b, None, Clause("ge", b)) : b \in {100, 200}}
    \cup {Market(t, "greater", 99, None, Clause("gt", 99)),
          Market(t, "greater_or_equal", 200, None, Clause("gt", 199)),
          Market(t, "less", None, 250, Clause("le", 200)),
          Market(t, "between", 100, 199, ClauseTo(100, 199)),
          Market(t, "between", 100, 200, ClauseTo(100, 200)),
          Market(t, "greater", 100, None, Clause("gt", 200)),
          Market(t, "less", None, 150, Clause("lt", 150) \o Clause("gt", 50)),
          [Market(t, "structured", None, None, <<>>) EXCEPT !.subject = "team"]}

Event(markets, mutex, complete, stats) ==
    [markets |-> markets, mutex |-> mutex, complete |-> complete, stats |-> stats]

History == {None, AddEvent(NoStats, [scalar |-> FALSE, yes |-> 2]),
            FoldLeft(AddEvent, NoStats, <<[scalar |-> FALSE, yes |-> 1], [scalar |-> TRUE, yes |-> 0],
                                          [scalar |-> FALSE, yes |-> 1]>>)}

Together == {Event({a, b, c}, TRUE, TRUE, h) : a \in Menu(1), b \in Menu(2), c \in Menu(3), h \in {None}}
Pairs == {Event({a, b}, mutex, complete, h) :
             a \in Menu(1), b \in Menu(2), mutex \in BOOLEAN, complete \in BOOLEAN, h \in History}
Apart == {{Event({a, b}, FALSE, FALSE, None), Event({c}, FALSE, TRUE, None)} :
             a \in Menu(1), b \in Menu(2), c \in Menu(3)}

Above3(t, b) == Market(t, "greater", b, None, Clause("gt", b))
Ladder == {Event({Above3(1, 300), Above3(2, 200), Above3(3, 100)}, FALSE, TRUE, None)}
Tiles  == {Event({Market(1, "between", 100, 200, ClauseTo(100, 200)), Above3(2, 200)},
                 TRUE, FALSE, None),
           Event({Market(3, "greater_or_equal", 100, None, Clause("ge", 100))}, FALSE, TRUE, None)}

MCListings == {{e} : e \in Together} \cup {{e} : e \in Pairs} \cup Apart \cup {Ladder, Tiles}
MCRecorded == {Ladder, Tiles}

----------------------------------------------------------------------------
(* Books: the YES bids and the NO bids, quantity by price. *)

MCTicker == {1, 2, 3}
MCQuote == 1 .. 3
Shape(yes, no) == [c \in Cell |-> IF c[1] = "YES" THEN yes[c[2]] ELSE no[c[2]]]
Dear  == Shape(<<24, 0, 0>>, <<12, 6, 0>>)     \* YES asked at 2 and 3, NO at 3
Rich  == Shape(<<0, 18, 24>>, <<0, 0, 0>>)     \* NO asked at 1 and 2, no YES
Cheap == Shape(<<0, 0, 0>>, <<0, 12, 24>>)     \* YES asked at 1 and 2, no NO
Thin  == Shape(<<0, 6, 0>>, <<6, 0, 0>>)       \* NO asked at 2, YES at 3, little of each

NoUpdate == <<>>
Quiet == [updates |-> NoUpdate, confirm |-> FALSE, prints |-> {}, closes |-> {}]
See(t, b) == [Quiet EXCEPT !.updates = [u \in {t} |-> b]]
Start(f) == [Quiet EXCEPT !.updates = f, !.confirm = TRUE]
PrintOf(t, side) == [ticker |-> t, side |-> side, price |-> 2]

MCBatches ==
    {Start(<<a, b, c>>) : a \in {Rich, Thin}, b \in {Dear, Cheap}, c \in {Cheap}}
    \cup {See(1, b) : b \in {Dear, Rich}} \cup {See(2, b) : b \in {Dear, Rich, Cheap}}
    \cup {See(3, b) : b \in {Dear, Cheap, Thin}}
    \cup {[See(t, Dear) EXCEPT !.prints = {PrintOf(t, "YES")}] : t \in {2}}
    \cup {[Quiet EXCEPT !.confirm = TRUE], [Quiet EXCEPT !.closes = {3}],
          [Quiet EXCEPT !.prints = {PrintOf(1, "NO")}]}

MCVariants ==
    LET model(rate) == [rates |-> [t \in Ticker |-> rate], rounding |-> "exact_6dp", lot |-> 12,
                        minQty |-> 12, target |-> 24, maxSize |-> 24, minLevel |-> UNVERIFIED]
    IN  [baseline |-> model(TakerRate), fee_free |-> [model(0) EXCEPT !.maxSize = None]]

=============================================================================
