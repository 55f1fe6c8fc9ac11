---- MODULE MCMarketMaker ----
(* Two markets of one event, of which one settles YES; books of a few shapes; *)
(* an adaptive signal that shifts, widens and resizes the quotes.             *)
EXTENDS MarketMaker

MCQuote == 1 .. PriceScale - 1
MCEventOf == [m \in Market |-> "e"]
MCWorlds == [e \in {"e"} |-> PartitionWorlds(Market)]
MCTop(yes, no) == [s \in Side |-> IF s = "YES" THEN yes ELSE no]
MCTops == {MCTop(4, 4), MCTop(1, 5), MCTop(5, 1)}
MCOutcomes == {<<1, 0>>}
MCSignals == {[shift |-> 0, half |-> 4, size |-> 4, gamma |-> "g"],
               [shift |-> 1, half |-> 8, size |-> 2, gamma |-> "g"]}
MCStopAt == [m \in Market |-> IF m = 1 THEN None ELSE 5]
MCGamma == {"g"}
MCInventory == -12 .. 12
MCFairs == 0 .. 2 * PriceScale
\* A reservation price that falls by half a tick a contract, within the price range.
MCReservation ==
    [g \in Gamma |-> [q \in Inventory |-> [f \in Fairs |->
        MaxOf(0, MinOf(Fine * PriceScale, (Fine * f - q) \div 2))]]]
====
