------------------------------ MODULE FillModels ------------------------------
(***************************************************************************)
(* The maker models of backtest/fills.py in lock step: the same resting    *)
(* orders, prints and books under every model, with the engine's sharing   *)
(* of a print among our own orders (engine.py, _match_resting).  Passive   *)
(* results are reported as the range between the models, so what matters   *)
(* is that they are nested.                                                *)
(***************************************************************************)
EXTENDS Fills

CONSTANTS
    Models,     \* queue models to compare
    NumOrders,  \* bound: orders ever placed
    Books,      \* the snapshots that can arrive
    None

Id == 1 .. NumOrders

ASSUME FillModelsAssumption ==
    /\ Models \subseteq QueueModel
    /\ NumOrders \in Nat
    /\ Books \subseteq Book
    /\ None \notin TradePrint

VARIABLES
    book,       \* MarketState.book
    placed,     \* number of orders placed
    order,      \* what was ordered, per order placed
    dropped,    \* orders cancelled by the strategy or by the close
    queue,      \* per model and order, its queue state (RestingOrder)
    print,      \* the print being matched, or None
    turn,       \* the order whose turn it is
    budget,     \* per model, what is left of the print at the level
    given       \* per model, what the print has filled at the level

models == <<book, placed, order, dropped, queue, print, turn, budget, given>>

AnOrder == [side : Side, price : Price, qty : Nat \ {0}]

\* An order that leaves the engine's list, with what it did not get.
Gone(left) == [left |-> left, ahead |-> 0, level |-> 0, traded |-> 0]

\* _maker_fill removes an order that is filled.
Kept(q) == IF q.left = 0 THEN Gone(0) ELSE q

ModelsTypeOK ==
    /\ book \in Book
    /\ placed \in 0 .. NumOrders
    /\ order \in [1 .. placed -> AnOrder]
    /\ dropped \subseteq 1 .. placed
    /\ queue \in [Models -> [1 .. placed -> Queue]]
    /\ print \in TradePrint \cup {None}
    /\ turn \in 1 .. placed + 1
    /\ budget \in [Models -> Nat]
    /\ given \in [Models -> Nat]

ModelsInit ==
    /\ book \in Books
    /\ placed = 0 /\ order = <<>> /\ dropped = {}
    /\ queue = [m \in Models |-> <<>>]
    /\ print = None /\ turn = 1
    /\ budget = [m \in Models |-> 0] /\ given = [m \in Models |-> 0]

Resting(m, id) == id \notin dropped /\ queue[m][id].left > 0

Idle == print = None

\* f with one more order.
With(f, v) == [id \in 1 .. placed + 1 |-> IF id = placed + 1 THEN v ELSE f[id]]

\* An order arrives and rests.
Place(o) ==
    /\ Idle /\ placed < NumOrders
    /\ placed' = placed + 1
    /\ order' = With(order, o)
    /\ queue' = [m \in Models |->
           With(queue[m], OnPlace(m, o.qty, book[<<o.side, o.price>>]))]
    /\ UNCHANGED <<book, dropped, print, turn, budget, given>>

\* _drop_resting, in every model where the order still rests.
Drop(id) ==
    /\ Idle /\ id \notin dropped
    /\ dropped' = dropped \cup {id}
    /\ queue' = [m \in Models |-> [queue[m] EXCEPT ![id] = Gone(@.left)]]
    /\ UNCHANGED <<book, placed, order, print, turn, budget, given>>

\* on_book of one order.
QueueAfterSnapshot(m, id, b) ==
    LET q == queue[m][id]
        o == order[id]
    IN  IF ~Resting(m, id) THEN q
        ELSE IF CrossedBy(b, o.side, o.price) THEN Gone(0)
        ELSE QueueAfterBook(m, q, b[<<o.side, o.price>>])

\* A snapshot arrives: on_book for every resting order.
Snapshot(b) ==
    /\ Idle
    /\ book' = b
    /\ queue' = [m \in Models |-> [id \in 1 .. placed |-> QueueAfterSnapshot(m, id, b)]]
    /\ UNCHANGED <<placed, order, dropped, print, turn, budget, given>>

\* A print arrives; our orders are matched with it in their order.
PrintArrives(p) ==
    /\ Idle
    /\ print' = p /\ turn' = 1
    /\ budget' = [m \in Models |-> p.count]
    /\ given' = [m \in Models |-> 0]
    /\ UNCHANGED <<book, placed, order, dropped, queue>>

\* Fault: each of our orders has the whole print.
CountForTotal(m, id) == print.count

\* What of the print is left to an order: at its level the orders before it
\* have had theirs.
CountFor(m, id) ==
    IF TradePrice(order[id].side, print) = order[id].price THEN budget[m] ELSE print.count

Match(m, id) == FilledByPrint(m, queue[m][id], order[id].side, order[id].price, print, CountFor(m, id))

\* Fault: what the queue ahead consumes is still there for our next order.
AdvanceNothing(m, id) == 0

\* How far the print moves an order forward: ahead0 - o.ahead.
Advance(m, id) ==
    LET o == order[id]
    IN  queue[m][id].ahead
            - QueueAfterPrint(m, queue[m][id], o.side, o.price, print, CountFor(m, id)).ahead

AtLevelOf(m, id) == Resting(m, id) /\ AtLevel(order[id].side, order[id].price, print)

\* The order, and what of the print is left at the level, after it has been matched.
QueueAfterMatch(m, id) ==
    LET o == order[id]
    IN  IF Resting(m, id)
        THEN Kept(QueueAfterPrint(m, queue[m][id], o.side, o.price, print, CountFor(m, id)))
        ELSE queue[m][id]

BudgetAfterMatch(m, id) ==
    IF AtLevelOf(m, id) THEN MaxOf(0, budget[m] - Match(m, id) - Advance(m, id)) ELSE budget[m]

\* _match_resting, one order at a time.
MatchNext ==
    /\ print # None /\ turn <= placed
    /\ queue' = [m \in Models |-> [queue[m] EXCEPT ![turn] = QueueAfterMatch(m, turn)]]
    /\ budget' = [m \in Models |-> BudgetAfterMatch(m, turn)]
    /\ given' = [m \in Models |->
           IF AtLevelOf(m, turn) THEN given[m] + Match(m, turn) ELSE given[m]]
    /\ turn' = turn + 1
    /\ UNCHANGED <<book, placed, order, dropped, print>>

\* The print has been matched with every order.
Matched ==
    /\ print # None /\ turn > placed
    /\ print' = None /\ turn' = 1
    /\ budget' = [m \in Models |-> 0] /\ given' = [m \in Models |-> 0]
    /\ UNCHANGED <<book, placed, order, dropped, queue>>

ModelsNext ==
    \/ \E o \in AnOrder : Place(o)
    \/ \E id \in 1 .. placed : Drop(id)
    \/ \E b \in Books : Snapshot(b)
    \/ \E p \in TradePrint : PrintArrives(p)
    \/ MatchNext
    \/ Matched

ModelsSpec == ModelsInit /\ [][ModelsNext]_models

----------------------------------------------------------------------------
(* Properties. *)

\* a <= b as fractions.
AtMost(a, b) == a[1] * b[2] <= b[1] * a[2]

\* By their parameters, hi gives at least as much as lo: pessimistic, then
\* queue(1,0), then any queue model, then optimistic.
Nested(lo, hi) ==
    \/ lo.throughOnly
    \/ /\ ~hi.throughOnly
       /\ AtMost(hi.alpha, lo.alpha)
       /\ lo.cancel[1] = 0 \/ hi.alpha[1] = 0

(***************************************************************************)
(* fills.py: cumulative fills satisfy                                      *)
(*   pessimistic <= queue(a=1, c=0) <= queue(a, c) <= optimistic           *)
(* at every instant, here also between two orders of one print, with       *)
(* several of our orders sharing prints.                                   *)
(***************************************************************************)
ModelsAreNested ==
    \A lo, hi \in Models : Nested(lo, hi) =>
        \A id \in 1 .. placed : queue[hi][id].left <= queue[lo][id].left

(***************************************************************************)
(* At-level prints are shared by our orders: together they are filled no   *)
(* more at the level than was traded there.                                *)
(***************************************************************************)
PrintIsShared ==
    print # None => \A m \in Models : given[m] <= print.count

(***************************************************************************)
(* ... in priority order: a print at our level fills an order only when    *)
(* our earlier orders at that level have all been filled.                  *)
(***************************************************************************)
PriorityAtLevel ==
    [][ \A m \in Models : given'[m] > given[m] =>
            \A id \in 1 .. turn - 1 :
                order[id].side = order[turn].side /\ order[id].price = order[turn].price
                    => ~Resting(m, id) ]_models

=============================================================================
