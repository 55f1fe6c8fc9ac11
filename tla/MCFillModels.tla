---- MODULE MCFillModels ----
(* One market whose dollar has three prices between; half queue shares. *)
EXTENDS FillModels, FiniteSets

CONSTANTS
    MaxQty,     \* bound: quantity of an order, of a print and of a level
    MaxSize

MCWhole == <<1, 1>>

MCModels ==
    LET model(a, c, through) == [alpha |-> a, cancel |-> c, throughOnly |-> through]
    IN  {model(<<1,1>>, <<0,1>>, TRUE), model(<<1,1>>, <<0,1>>, FALSE),
         model(<<1,2>>, <<1,2>>, FALSE), model(<<0,1>>, <<0,1>>, FALSE)}

\* Up to MaxSize bids for YES at 1 and none or all at 2, and an ask at 1 or none.
MCBooks == {b \in [Cell -> 0 .. MaxSize] :
    b[<<"NO", 1>>] = 0 /\ b[<<"NO", 2>>] <= 1 /\ b[<<"YES", 2>>] \in {0, MaxSize}}

MCOrders == {[side |-> "YES", price |-> 1, qty |-> MaxQty], [side |-> "YES", price |-> 2, qty |-> 1],
             [side |-> "YES", price |-> 1, qty |-> 1], [side |-> "NO", price |-> 1, qty |-> 1]}

MCPrints == [taker : {"NO"}, price : Tick, count : 1 .. MaxQty]
                \cup [taker : {"YES"}, price : Tick, count : {1}]

MCNext ==
    \/ \E o \in MCOrders : Place(o)
    \/ \E id \in 1 .. placed : Drop(id)
    \/ \E b \in Books : Snapshot(b)
    \/ \E p \in MCPrints : PrintArrives(p)
    \/ MatchNext
    \/ Matched

MCSpec == ModelsInit /\ [][MCNext]_models
=============================
