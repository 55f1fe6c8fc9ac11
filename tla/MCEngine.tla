---- MODULE MCEngine ----
(* Two markets whose dollar has four prices between, with orders on both sides. *)
EXTENDS Evaluation

MCWhole == <<1, 1>>
MCQueue == [alpha |-> <<1, 1>>, cancel |-> <<1, 1>>, throughOnly |-> FALSE]

MCOrders ==
    LET buy(m, side, price, qty, tif) ==
            [market |-> m, side |-> side, price |-> price, qty |-> qty, tif |-> tif]
    IN  {buy(1, "YES", 3, 2, "gtc"), buy(1, "YES", 3, 1, "ioc"),
         buy(1, "NO", 3, 1, "post_only"), buy(2, "YES", 3, 1, "gtc")}

\* One contract at each cell.
MCUpdates ==
    {<<1, [c \in Cell |-> IF c \in cells THEN 1 ELSE 0]>> :
        cells \in {{<<"YES", 1>>, <<"NO", 2>>, <<"NO", 3>>}, {<<"YES", 2>>, <<"NO", 2>>}, {<<"YES", 2>>}}}

MCTrades == {<<1, [taker |-> "NO", price |-> 3, count |-> 2]>>,
             <<1, [taker |-> "NO", price |-> 2, count |-> 1]>>}

MCOutcomes == {<<1, PriceScale>>, <<2, 1>>}
=============================
