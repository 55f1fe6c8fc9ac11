----------------------------- MODULE MCCollection -----------------------------
(***************************************************************************)
(* Eight markets of two series, one of them capped out of its series, one  *)
(* outside the window, one below the floor, one listed while runs go on,   *)
(* in either of two listings; one market's trades over four instants; the  *)
(* settled events of two series, one refused by the client and one with a  *)
(* market that cannot be read; of two pairs of siblings the more active    *)
(* one recorded, and traded on paper, one of its books changing; settled   *)
(* markets of six events, two of them siblings of which one is in the      *)
(* holdout.                                                                *)
(***************************************************************************)
EXTENDS Collection

Listed(series, close, created, key) ==
    [series |-> series, combo |-> FALSE, final |-> TRUE, close |-> close, volume |-> 9,
     created |-> created, key |-> key]
MCMarkets == {"a", "b", "c", "d", "e", "f", "g", "h"}
MCFacts == [a |-> Listed("S", 5, 4, 6), b |-> Listed("S", 5, 3, 2), c |-> Listed("T", 5, 3, 3),
            d |-> Listed("T", 9, 3, 1), e |-> Listed("S", 5, 5, 4), f |-> Listed("T", 5, 4, 5),
            g |-> Listed("S", 5, 1, 8), h |-> Listed("S", 4, 5, 0)]
MCListings == {[live |-> <<"a", "b", "c">>, historical |-> <<"e", "f", "d", "g">>],
               [live |-> <<"a">>, historical |-> <<"f", "e">>]}
MCNewMarkets == {<<"live", "h">>, <<"historical", "h">>}

MCSiblings == [v |-> {"v1"}, w |-> {"w1", "w2"}, x |-> {"x1"}, y |-> {"y1", "y2"}, z |-> {"z1"}]
MCFirstSettled == [A |-> <<"x", "w", "v">>, B |-> <<"y">>]
MCLaterSettled == {<<"B", "z">>}

Offered(event, volume) == [event |-> event, series |-> "S", volume |-> volume, due |-> 1]
MCOpenMarkets == [a |-> Offered(1, 3), b |-> Offered(1, 2), c |-> Offered(2, 4), d |-> Offered(2, 4)]
Quotes(bid, ask) == [bid |-> bid, ask |-> ask]
MCEmpty == Quotes(None, None)
MCBooks == {Quotes(1, 2), Quotes(2, 3), MCEmpty}
MCOpening == {Quotes(1, 2)}
MCMaxChanges == [c |-> 2, d |-> 0]
MCChunks == {{"c"}, {"d"}}
MCBatches == <<{"c"}, {"d"}>>
PrintOf(m, t) == [market |-> m, at |-> t, price |-> 1 + (t % 3), taker |-> IF t < 2 THEN 1 ELSE -1]
MCPrints == {PrintOf("c", t) : t \in 0 .. 4} \cup {PrintOf("d", t) : t \in {0, 3}}

Printed(at, price, taker) == [at |-> at, price |-> price, taker |-> taker]
TwoSided == <<Printed(1, 4, "yes"), Printed(2, 6, "no"), Printed(4, 5, "yes")>>
Settled(event, corpus, from, to, due, final, value, prints) ==
    [event |-> event, kind |-> <<"category", "S", "strike">>, corpus |-> corpus, volume |-> 1,
     open |-> from, close |-> to, due |-> due, settled |-> final, value |-> value, tape |-> prints]
History(first, corpus, value) ==
    [a |-> Settled(1, TRUE, 0, 5, 5, first, 2, TwoSided), b |-> Settled(1, TRUE, 0, 5, 6, 6, 0, TwoSided),
     c |-> Settled(2, corpus, 2, 6, 6, 6, 2, TwoSided),
     d |-> Settled(3, TRUE, 0, 4, 5, 4, 0, <<Printed(3, 3, "no")>>),
     e |-> Settled(4, corpus, 0, 6, 6, 9, 2, TwoSided), f |-> Settled(4, corpus, 0, 9, 9, 9, 0, TwoSided),
     g |-> Settled(5, TRUE, 0, 10, 10, 11, value, TwoSided), h |-> Settled(6, TRUE, 0, 9, 9, 10, 2, TwoSided)]
MCHistories == {History(5, TRUE, 0), History(10, FALSE, 1), History(10, TRUE, 0), History(5, FALSE, 0)}
MCOrders == {<<1, 2, 3, 4, 5, 6>>, <<4, 3, 2, 1, 6, 5>>, <<2, 4, 1, 3, 6, 5>>, <<3, 1, 5, 4, 2, 6>>}
MCFrames == UNION {[1 .. n -> [p : {1, 4, 8}, y : {0, 1}]] : n \in 1 .. 4}
=============================================================================
