-------------------------- MODULE FillModelsProofs --------------------------
(***************************************************************************)
(* Theorems about FillModels: for any set of queue models, any orders, any *)
(* tape and any books, the models are nested and prints are shared.        *)
(***************************************************************************)
EXTENDS FillModels, FillsProofs

\* A larger share of a quantity is no smaller after int().
LEMMA ShareIsMonotone ==
    ASSUME NEW a \in Nat \X (Nat \ {0}), NEW b \in Nat \X (Nat \ {0}), AtMost(a, b), NEW n \in Nat
    PROVE  Share(a, n) <= Share(b, n)
<1> DEFINE x == a[1]  u == a[2]  y == b[1]  v == b[2]
<1>1. x \in Nat /\ u \in Nat /\ u > 0 /\ y \in Nat /\ v \in Nat /\ v > 0
  OBVIOUS
<1>2. x * v <= y * u
  BY DEF AtMost
<1>3. Share(a, n) = (x * n) \div u /\ Share(b, n) = (y * n) \div v
  BY DEF Share
<1> HIDE DEF x, u, y, v
<1> DEFINE k == (x * n) \div u
           l == (y * n) \div v
<1>4. /\ k \in Nat /\ u * k <= x * n
      /\ l \in Nat /\ y * n < v * l + v
  <2>1. x * n \in Nat /\ y * n \in Nat
    BY <1>1
  <2>2. QED
    BY <1>1, <2>1
<1> HIDE DEF k, l
<1>5. SUFFICES ASSUME k >= l + 1 PROVE FALSE
  BY <1>3, <1>4 DEF k, l
<1>6. v * (u * k) <= v * (x * n)
  BY <1>1, <1>4
<1>7. n * (x * v) <= n * (y * u)
  BY <1>1, <1>2
<1>8. u * (y * n) < u * (v * l + v)
  BY <1>1, <1>4
<1>9. /\ v * (u * k) = u * (v * k) /\ v * (x * n) = n * (x * v) /\ n * (y * u) = u * (y * n)
      /\ u * (v * l + v) = u * (v * (l + 1))
  BY <1>1, <1>4
<1>10. u * (v * k) < u * (v * (l + 1))
  <2>1. /\ v * (u * k) \in Nat /\ v * (x * n) \in Nat /\ n * (y * u) \in Nat
        /\ u * (v * (l + 1)) \in Nat
    BY <1>1, <1>4
  <2>2. QED
    BY <1>6, <1>7, <1>8, <1>9, <2>1
<1>11. v * k >= v * (l + 1)
  BY <1>1, <1>4, <1>5
<1>12. u * (v * k) >= u * (v * (l + 1))
  <2>1. v * k \in Nat /\ v * (l + 1) \in Nat
    BY <1>1, <1>4
  <2>2. QED
    BY <1>1, <1>11, <2>1
<1>13. QED
  BY <1>1, <1>4, <1>10, <1>12

----------------------------------------------------------------------------
(* One order. *)

\* An order that leaves the list keeps its state a queue state.
LEMMA GoneIsQueue ==
    ASSUME NEW q \in Queue
    PROVE  /\ Gone(q.left) \in Queue /\ Gone(q.left).left = q.left /\ Gone(q.left).ahead = 0
           /\ Kept(q) \in Queue /\ Kept(q).left = q.left /\ Kept(q).ahead <= q.ahead
           /\ Kept(q).left > 0 => Kept(q) = q
           /\ Gone(0) \in Queue /\ Gone(0).left = 0 /\ Gone(0).ahead = 0
<1>1. q.left \in Nat /\ q.ahead \in Nat
  BY DEF Queue
<1>2. QED
  BY <1>1 DEF Gone, Kept, Queue

----------------------------------------------------------------------------
(* The invariant. *)

\* How much two nested models can differ on one order.
PairOK(lo, ql, qh) ==
    /\ qh.left <= ql.left
    /\ ~lo.throughOnly /\ qh.left > 0 => qh.ahead <= ql.ahead

\* What a print being matched has left of itself.
Matching ==
    /\ \A lo, hi \in Models : Nested(lo, hi) /\ ~lo.throughOnly => budget[lo] <= budget[hi]
    /\ \A m \in Models : given[m] + budget[m] <= print.count
    /\ \A m \in Models : budget[m] > 0 /\ ~m.throughOnly =>
           \A id \in 1 .. turn - 1 : ~AtLevelOf(m, id)

AllNested ==
    /\ \A m \in Models : m.alpha[1] = 0 => \A id \in 1 .. placed : queue[m][id].ahead = 0
    /\ \A lo, hi \in Models : Nested(lo, hi) =>
           \A id \in 1 .. placed : PairOK(lo, queue[lo][id], queue[hi][id])

ModelsInv ==
    /\ ModelsTypeOK
    /\ AllNested
    /\ print # None => Matching

\* The order whose turn it is, matched under one model.
LEMMA MatchOne ==
    ASSUME ModelsTypeOK, print # None, turn <= placed, NEW m \in Models
    PROVE  LET o == order[turn]
               q == queue[m][turn]
               r == QueueAfterMatch(m, turn)
               b == BudgetAfterMatch(m, turn)
               used == MinOf(q.ahead, budget[m])
               f == MinOf(q.left, budget[m] - used)
           IN  /\ q \in Queue /\ r \in Queue /\ b \in Nat /\ budget[m] \in Nat
               /\ Match(m, turn) \in Nat
               /\ r.ahead <= q.ahead
               /\ ~Resting(m, turn) => r = q /\ b = budget[m]
               /\ Resting(m, turn) =>
                      IF AtLevel(o.side, o.price, print)
                      THEN IF m.throughOnly
                           THEN r.left = q.left /\ b = budget[m] /\ Match(m, turn) = 0
                           ELSE /\ r.left = q.left - f /\ b = budget[m] - used - f
                                /\ r.left > 0 => r.ahead = q.ahead - used
                                /\ Match(m, turn) = f
                      ELSE /\ b = budget[m]
                           /\ IF Through(o.side, o.price, print)
                              THEN r.left = 0
                              ELSE r.left = q.left /\ (r.left > 0 => r.ahead = q.ahead)
<1> DEFINE o == order[turn]
           q == queue[m][turn]
           count == CountFor(m, turn)
           s == QueueAfterPrint(m, q, o.side, o.price, print, count)
           r == QueueAfterMatch(m, turn)
           b == BudgetAfterMatch(m, turn)
           used == MinOf(q.ahead, budget[m])
           f == MinOf(q.left, budget[m] - used)
           got == Match(m, turn)
<1>1. /\ m \in QueueModel /\ q \in Queue /\ o.side \in Side /\ o.price \in Price
      /\ print \in TradePrint /\ budget[m] \in Nat /\ print.count \in Nat
  <2>1. turn \in 1 .. placed
    BY DEF ModelsTypeOK
  <2>2. o \in AnOrder
    BY <2>1 DEF ModelsTypeOK
  <2>3. q \in Queue
    BY <2>1 DEF ModelsTypeOK
  <2>4. print \in TradePrint /\ budget[m] \in Nat
    BY DEF ModelsTypeOK
  <2>5. QED
    BY <2>2, <2>3, <2>4, FillModelsAssumption DEF AnOrder, TradePrint
<1>2. q.left \in Nat /\ q.ahead \in Nat
  BY <1>1 DEF Queue
<1>3. count \in Nat /\ (AtLevel(o.side, o.price, print) => count = budget[m])
  BY <1>1 DEF CountFor, AtLevel
<1>4. /\ got \in Nat /\ got <= q.left /\ s \in Queue /\ s.left = q.left - got
      /\ IF AtLevel(o.side, o.price, print) /\ ~m.throughOnly
         THEN /\ got = MinOf(q.left, count - MinOf(q.ahead, count))
              /\ s.ahead = q.ahead - MinOf(q.ahead, count)
         ELSE /\ s.ahead = q.ahead
              /\ got = IF Through(o.side, o.price, print) THEN q.left ELSE 0
  <2>1. got = FilledByPrint(m, q, o.side, o.price, print, count)
    BY DEF Match
  <2> HIDE DEF count, got, q, o
  <2>2. QED
    BY <1>1, <1>3, <2>1, PrintMovesQueue
<1>5. Advance(m, turn) = q.ahead - s.ahead
  BY DEF Advance
<1>6. b = IF AtLevelOf(m, turn) THEN MaxOf(0, budget[m] - got - Advance(m, turn)) ELSE budget[m]
  BY DEF BudgetAfterMatch
<1>7. r = IF Resting(m, turn) THEN Kept(s) ELSE q
  BY DEF QueueAfterMatch
<1>8. AtLevelOf(m, turn) <=> Resting(m, turn) /\ AtLevel(o.side, o.price, print)
  BY DEF AtLevelOf
<1> HIDE DEF o, q, count, s, r, b, got
<1>9. ~(AtLevel(o.side, o.price, print) /\ Through(o.side, o.price, print))
  <2>a. PriceScale \in Int /\ \A p \in Price : p \in Int
    BY OrderBookAssumption DEF Price
  <2>1. PriceScale \in Int /\ o.price \in Int
    BY <1>1, <2>a
  <2>2. print.price \in Int
    BY <1>1 DEF TradePrint, Tick
  <2>3. TradePrice(o.side, print) \in Int
    BY <2>1, <2>2 DEF TradePrice, Complement
  <2>4. QED
    BY <2>1, <2>3 DEF AtLevel, Through
<1>10. /\ Kept(s) \in Queue /\ Kept(s).left = s.left /\ Kept(s).ahead <= s.ahead
       /\ Kept(s).left > 0 => Kept(s) = s
       /\ s.ahead \in Nat /\ s.left \in Nat /\ Kept(s).ahead \in Nat
  BY <1>4, GoneIsQueue DEF Queue
<1>11. CASE ~Resting(m, turn)
  <2>1. r = q /\ b = budget[m]
    BY <1>6, <1>7, <1>8, <1>11
  <2>2. QED
    BY <1>1, <1>2, <1>4, <1>11, <2>1 DEF o, q, r, b, got
<1>12. CASE Resting(m, turn) /\ AtLevel(o.side, o.price, print) /\ m.throughOnly
  <2>1. got = 0 /\ s.ahead = q.ahead /\ s.left = q.left
    BY <1>2, <1>4, <1>9, <1>12
  <2>2. b = budget[m] /\ r = Kept(s)
    BY <1>1, <1>2, <1>5, <1>6, <1>7, <1>8, <1>12, <2>1 DEF MaxOf
  <2>3. QED
    BY <1>1, <1>2, <1>10, <1>12, <2>1, <2>2 DEF o, q, r, b, got
<1>13. CASE Resting(m, turn) /\ AtLevel(o.side, o.price, print) /\ ~m.throughOnly
  <2>1. got = f /\ s.ahead = q.ahead - used /\ s.left = q.left - f
    BY <1>2, <1>3, <1>4, <1>13
  <2>2. used \in Nat /\ f \in Nat /\ used + f <= budget[m]
    BY <1>1, <1>2 DEF MinOf
  <2>3. b = budget[m] - used - f
    <3>1. b = MaxOf(0, budget[m] - f - used)
      BY <1>2, <1>5, <1>6, <1>8, <1>13, <2>1, <2>2
    <3>2. QED
      BY <1>1, <2>2, <3>1 DEF MaxOf
  <2>4. r = Kept(s)
    BY <1>7, <1>13
  <2>5. /\ r \in Queue /\ b \in Nat /\ r.ahead <= q.ahead
        /\ r.left = q.left - f /\ (r.left > 0 => r.ahead = q.ahead - used)
    BY <1>1, <1>2, <1>10, <2>1, <2>2, <2>3, <2>4
  <2>6. QED
    BY <1>1, <1>4, <1>13, <2>1, <2>3, <2>5 DEF o, q, r, b, got
<1>14. CASE Resting(m, turn) /\ ~AtLevel(o.side, o.price, print)
  <2>1. /\ s.ahead = q.ahead
        /\ got = IF Through(o.side, o.price, print) THEN q.left ELSE 0
    BY <1>4, <1>14
  <2>2. b = budget[m] /\ r = Kept(s)
    BY <1>6, <1>7, <1>8, <1>14
  <2>3. s.left = q.left - got
    BY <1>4
  <2>4. /\ r \in Queue /\ r.ahead <= q.ahead
        /\ IF Through(o.side, o.price, print) THEN r.left = 0
           ELSE r.left = q.left /\ (r.left > 0 => r.ahead = q.ahead)
    BY <1>2, <1>10, <2>1, <2>2, <2>3
  <2>5. QED
    BY <1>1, <1>4, <1>14, <2>2, <2>4 DEF o, q, r, b, got
<1>15. QED
  BY <1>11, <1>12, <1>13, <1>14

\* The order whose turn it is, matched under two nested models.
LEMMA MatchPair ==
    ASSUME ModelsInv, print # None, turn <= placed, NEW lo \in Models, NEW hi \in Models,
           Nested(lo, hi)
    PROVE  /\ PairOK(lo, QueueAfterMatch(lo, turn), QueueAfterMatch(hi, turn))
           /\ ~lo.throughOnly => BudgetAfterMatch(lo, turn) <= BudgetAfterMatch(hi, turn)
<1> DEFINE o == order[turn]
           ql == queue[lo][turn]
           qh == queue[hi][turn]
           rl == QueueAfterMatch(lo, turn)
           rh == QueueAfterMatch(hi, turn)
           bl == budget[lo]
           bh == budget[hi]
           cl == BudgetAfterMatch(lo, turn)
           ch == BudgetAfterMatch(hi, turn)
           At == AtLevel(o.side, o.price, print)
           Thr == Through(o.side, o.price, print)
           ul == MinOf(ql.ahead, bl)
           uh == MinOf(qh.ahead, bh)
           fl == MinOf(ql.left, bl - ul)
           fh == MinOf(qh.left, bh - uh)
<1>1. /\ turn \in 1 .. placed /\ ModelsTypeOK /\ AllNested /\ Matching
  BY DEF ModelsInv, ModelsTypeOK
<1>2. /\ PairOK(lo, ql, qh)
      /\ ~lo.throughOnly => bl <= bh
  BY <1>1 DEF AllNested, Matching
<1>3. ~lo.throughOnly => ~hi.throughOnly
  BY DEF Nested
<1>4. /\ ql \in Queue /\ rl \in Queue /\ cl \in Nat /\ bl \in Nat /\ rl.ahead <= ql.ahead
      /\ ~Resting(lo, turn) => rl = ql /\ cl = bl
      /\ Resting(lo, turn) =>
             IF At
             THEN IF lo.throughOnly
                  THEN rl.left = ql.left /\ cl = bl
                  ELSE /\ rl.left = ql.left - fl /\ cl = bl - ul - fl
                       /\ rl.left > 0 => rl.ahead = ql.ahead - ul
             ELSE /\ cl = bl
                  /\ IF Thr THEN rl.left = 0
                     ELSE rl.left = ql.left /\ (rl.left > 0 => rl.ahead = ql.ahead)
  BY <1>1, MatchOne
<1>5. /\ qh \in Queue /\ rh \in Queue /\ ch \in Nat /\ bh \in Nat /\ rh.ahead <= qh.ahead
      /\ ~Resting(hi, turn) => rh = qh /\ ch = bh
      /\ Resting(hi, turn) =>
             IF At
             THEN IF hi.throughOnly
                  THEN rh.left = qh.left /\ ch = bh
                  ELSE /\ rh.left = qh.left - fh /\ ch = bh - uh - fh
                       /\ rh.left > 0 => rh.ahead = qh.ahead - uh
             ELSE /\ ch = bh
                  /\ IF Thr THEN rh.left = 0
                     ELSE rh.left = qh.left /\ (rh.left > 0 => rh.ahead = qh.ahead)
  BY <1>1, MatchOne
<1>6. /\ Resting(lo, turn) <=> turn \notin dropped /\ ql.left > 0
      /\ Resting(hi, turn) <=> turn \notin dropped /\ qh.left > 0
  BY DEF Resting
<1>7. /\ ql.left \in Nat /\ ql.ahead \in Nat /\ qh.left \in Nat /\ qh.ahead \in Nat
      /\ rl.left \in Nat /\ rl.ahead \in Nat /\ rh.left \in Nat /\ rh.ahead \in Nat
  BY <1>4, <1>5 DEF Queue
<1>8. /\ ul \in Nat /\ ul <= bl /\ ul <= ql.ahead /\ fl \in Nat /\ ul + fl <= bl
      /\ uh \in Nat /\ uh <= bh /\ uh <= qh.ahead /\ fh \in Nat /\ uh + fh <= bh
      /\ fh <= qh.left /\ fl <= ql.left
  BY <1>4, <1>5, <1>7 DEF MinOf
<1> HIDE DEF o, ql, qh, rl, rh, bl, bh, cl, ch, At, Thr
<1>9. qh.left <= ql.left /\ (~lo.throughOnly /\ qh.left > 0 => qh.ahead <= ql.ahead)
  BY <1>2 DEF PairOK
<1>10. SUFFICES /\ rh.left <= rl.left
                /\ ~lo.throughOnly /\ rh.left > 0 => rh.ahead <= rl.ahead
                /\ ~lo.throughOnly => cl <= ch
  BY DEF PairOK, rl, rh, cl, ch
<1>11. CASE ~Resting(lo, turn)
  <2>1. ~Resting(hi, turn)
    BY <1>6, <1>7, <1>9, <1>11
  <2>2. QED
    BY <1>2, <1>4, <1>5, <1>9, <1>11, <2>1
<1>12. CASE Resting(lo, turn) /\ ~Resting(hi, turn)
  <2>1. qh.left = 0
    BY <1>6, <1>7, <1>12
  <2>2. rh.left = 0 /\ ch = bh
    BY <1>5, <1>12, <2>1
  <2>3. ~lo.throughOnly => cl <= bl
    BY <1>4, <1>8, <1>12
  <2>4. QED
    BY <1>2, <1>4, <1>5, <1>7, <2>2, <2>3
<1>13. CASE Resting(lo, turn) /\ Resting(hi, turn) /\ ~At
  BY <1>2, <1>4, <1>5, <1>7, <1>9, <1>13
<1>14. CASE Resting(lo, turn) /\ Resting(hi, turn) /\ At /\ lo.throughOnly
  <2>1. rl.left = ql.left /\ rh.left <= qh.left
    BY <1>4, <1>5, <1>7, <1>8, <1>14
  <2>2. QED
    BY <1>7, <1>9, <1>14, <2>1
<1>15. CASE Resting(lo, turn) /\ Resting(hi, turn) /\ At /\ ~lo.throughOnly
  <2>1. /\ rl.left = ql.left - fl /\ cl = bl - ul - fl /\ (rl.left > 0 => rl.ahead = ql.ahead - ul)
        /\ rh.left = qh.left - fh /\ ch = bh - uh - fh /\ (rh.left > 0 => rh.ahead = qh.ahead - uh)
    BY <1>3, <1>4, <1>5, <1>15
  <2>2. bl <= bh /\ qh.left > 0 /\ qh.ahead <= ql.ahead
    BY <1>2, <1>6, <1>9, <1>15
  <2>3. ql.left - fl >= qh.left - fh
    BY <1>4, <1>5, <1>7, <1>9, <2>2 DEF MinOf
  <2>4. bl - ul - fl <= bh - uh - fh
    BY <1>4, <1>5, <1>7, <1>9, <2>2 DEF MinOf
  <2>5. qh.left - fh > 0 => qh.ahead - uh <= ql.ahead - ul
    BY <1>4, <1>5, <1>7, <1>9, <2>2 DEF MinOf
  <2>6. QED
    BY <1>7, <1>8, <1>15, <2>1, <2>3, <2>4, <2>5
<1>16. QED
  BY <1>11, <1>12, <1>13, <1>14, <1>15

----------------------------------------------------------------------------
(* The steps. *)

\* Matching the next order keeps the invariant.
LEMMA MatchStep == ModelsInv /\ MatchNext => ModelsInv'
<1> SUFFICES ASSUME ModelsInv, MatchNext PROVE ModelsInv'
  OBVIOUS
<1>1. /\ ModelsTypeOK /\ AllNested /\ Matching /\ print # None /\ turn \in 1 .. placed
      /\ placed \in Nat /\ turn' = turn + 1
      /\ book' = book /\ placed' = placed /\ order' = order /\ dropped' = dropped /\ print' = print
  BY FillModelsAssumption DEF ModelsInv, ModelsTypeOK, MatchNext
<1>2. ASSUME NEW m \in Models
      PROVE  /\ queue'[m] \in [1 .. placed -> Queue]
             /\ queue'[m][turn] = QueueAfterMatch(m, turn)
             /\ \A id \in 1 .. placed : id # turn => queue'[m][id] = queue[m][id]
             /\ budget'[m] = BudgetAfterMatch(m, turn)
             /\ given'[m] = IF AtLevelOf(m, turn) THEN given[m] + Match(m, turn) ELSE given[m]
             /\ queue'[m][turn].ahead <= queue[m][turn].ahead
             /\ queue[m][turn] \in Queue /\ queue'[m][turn] \in Queue
             /\ budget'[m] \in Nat /\ Match(m, turn) \in Nat
             /\ given[m] \in Nat /\ budget[m] \in Nat
  <2>1. /\ queue[m] \in [1 .. placed -> Queue] /\ QueueAfterMatch(m, turn) \in Queue
        /\ QueueAfterMatch(m, turn).ahead <= queue[m][turn].ahead
        /\ queue[m][turn] \in Queue
        /\ BudgetAfterMatch(m, turn) \in Nat /\ Match(m, turn) \in Nat
        /\ given[m] \in Nat /\ budget[m] \in Nat
    BY <1>1, MatchOne DEF ModelsTypeOK
  <2>2. /\ queue'[m] = [queue[m] EXCEPT ![turn] = QueueAfterMatch(m, turn)]
        /\ budget'[m] = BudgetAfterMatch(m, turn)
        /\ given'[m] = IF AtLevelOf(m, turn) THEN given[m] + Match(m, turn) ELSE given[m]
    BY DEF MatchNext
  <2>3. QED
    BY <1>1, <2>1, <2>2
<1>3. ModelsTypeOK'
  <2>1. /\ queue' \in [Models -> [1 .. placed -> Queue]]
        /\ budget' \in [Models -> Nat] /\ given' \in [Models -> Nat]
    BY <1>1, <1>2 DEF MatchNext
  <2>2. turn' \in 1 .. placed' + 1
    BY <1>1
  <2>3. QED
    BY <1>1, <2>1, <2>2 DEF ModelsTypeOK
<1>4. AllNested'
  <2>1. ASSUME NEW m \in Models, m.alpha[1] = 0, NEW id \in 1 .. placed
        PROVE  queue'[m][id].ahead = 0
    <3>1. queue[m][id].ahead = 0
      BY <1>1, <2>1 DEF AllNested
    <3>2. CASE id = turn
      BY <1>2, <3>1, <3>2 DEF Queue
    <3>3. QED
      BY <1>2, <3>1, <3>2
  <2>2. ASSUME NEW lo \in Models, NEW hi \in Models, Nested(lo, hi), NEW id \in 1 .. placed
        PROVE  PairOK(lo, queue'[lo][id], queue'[hi][id])
    <3>1. PairOK(lo, queue[lo][id], queue[hi][id])
      BY <1>1, <2>2 DEF AllNested
    <3>2. PairOK(lo, QueueAfterMatch(lo, turn), QueueAfterMatch(hi, turn))
      BY <1>1, <2>2, MatchPair
    <3>3. QED
      BY <1>2, <3>1, <3>2
  <2>3. QED
    BY <1>1, <2>1, <2>2 DEF AllNested
<1>5. Matching'
  <2>1. ASSUME NEW lo \in Models, NEW hi \in Models, Nested(lo, hi), ~lo.throughOnly
        PROVE  budget'[lo] <= budget'[hi]
    BY <1>1, <1>2, <2>1, MatchPair
  <2>2. ASSUME NEW m \in Models
        PROVE  /\ given'[m] + budget'[m] <= print.count
               /\ budget'[m] > 0 /\ ~m.throughOnly =>
                      \A id \in 1 .. turn : ~AtLevelOf(m, id)'
    <3> DEFINE q == queue[m][turn]
               used == MinOf(q.ahead, budget[m])
               f == MinOf(q.left, budget[m] - used)
               r == queue'[m][turn]
               At == AtLevel(order[turn].side, order[turn].price, print)
    <3>1. /\ q.left \in Nat /\ q.ahead \in Nat /\ r.left \in Nat /\ r.ahead \in Nat
      BY <1>2 DEF Queue
    <3>2. /\ ~Resting(m, turn) => r = q /\ budget'[m] = budget[m]
          /\ Resting(m, turn) =>
                 IF At
                 THEN IF m.throughOnly
                      THEN budget'[m] = budget[m] /\ Match(m, turn) = 0
                      ELSE /\ r.left = q.left - f /\ budget'[m] = budget[m] - used - f
                           /\ Match(m, turn) = f
                 ELSE budget'[m] = budget[m]
      BY <1>1, <1>2, MatchOne
    <3>3. AtLevelOf(m, turn) <=> Resting(m, turn) /\ At
      BY DEF AtLevelOf
    <3>4. /\ used \in Nat /\ f \in Nat
      BY <1>2, <3>1 DEF MinOf
    <3>5. given'[m] + budget'[m] <= given[m] + budget[m] /\ budget'[m] <= budget[m]
      <4> HIDE DEF q, r, At, used, f
      <4>1. CASE AtLevelOf(m, turn) /\ ~m.throughOnly
        BY <1>2, <3>2, <3>3, <3>4, <4>1
      <4>2. CASE AtLevelOf(m, turn) /\ m.throughOnly
        BY <1>2, <3>2, <3>3, <4>2
      <4>3. CASE ~AtLevelOf(m, turn)
        BY <1>2, <3>2, <3>3, <4>3
      <4>4. QED
        BY <4>1, <4>2, <4>3
    <3>6. given[m] + budget[m] <= print.count /\ print.count \in Nat
      BY <1>1 DEF Matching, ModelsTypeOK, TradePrint
    <3>7. given'[m] + budget'[m] <= print.count
      BY <1>2, <3>5, <3>6
    <3>8. ASSUME budget'[m] > 0, ~m.throughOnly, NEW id \in 1 .. turn
          PROVE  ~AtLevelOf(m, id)'
      <4>1. CASE id = turn
        <5>1. SUFFICES ASSUME Resting(m, id)', At PROVE FALSE
          BY <1>1, <4>1 DEF AtLevelOf
        <5>2. turn \notin dropped /\ r.left > 0
          BY <1>1, <4>1, <5>1 DEF Resting
        <5>3. Resting(m, turn)
          BY <3>1, <3>2, <5>2 DEF Resting
        <5>4. r.left = q.left - f /\ budget'[m] = budget[m] - used - f
          BY <3>2, <3>8, <5>1, <5>3
        <5>5. QED
          BY <1>2, <3>1, <3>8, <5>2, <5>4 DEF MinOf
      <4>2. CASE id # turn
        <5>1. id \in 1 .. turn - 1 /\ id \in 1 .. placed /\ budget[m] > 0
          BY <1>1, <1>2, <3>5, <3>8, <4>2
        <5>2. ~AtLevelOf(m, id)
          BY <1>1, <3>8, <5>1 DEF Matching
        <5>3. queue'[m][id] = queue[m][id]
          BY <1>2, <4>2, <5>1
        <5>4. QED
          BY <1>1, <5>2, <5>3 DEF AtLevelOf, Resting
      <4>3. QED
        BY <4>1, <4>2
    <3>9. QED
      BY <3>7, <3>8
  <2>3. turn' - 1 = turn /\ print' = print
    BY <1>1
  <2>4. QED
    BY <2>1, <2>2, <2>3 DEF Matching
<1>6. QED
  BY <1>3, <1>4, <1>5 DEF ModelsInv

\* So does placing an order.
LEMMA PlaceStep == ASSUME ModelsInv, NEW o \in AnOrder, Place(o) PROVE ModelsInv'
<1> DEFINE size == book[<<o.side, o.price>>]
<1>1. /\ ModelsTypeOK /\ AllNested /\ print = None /\ placed \in Nat /\ placed + 1 \in 0 .. NumOrders
      /\ placed' = placed + 1 /\ print' = None /\ turn' = turn
  BY FillModelsAssumption DEF ModelsInv, ModelsTypeOK, Place, Idle
<1>2. size \in Nat
  <2>1. <<o.side, o.price>> \in Cell
    BY DEF AnOrder, Cell
  <2>2. QED
    BY <1>1, <2>1 DEF ModelsTypeOK, Book
<1> HIDE DEF size
<1>3. ASSUME NEW m \in Models
      PROVE  /\ OnPlace(m, o.qty, size) \in Queue
             /\ OnPlace(m, o.qty, size).left = o.qty
             /\ OnPlace(m, o.qty, size).ahead = Share(m.alpha, size)
             /\ m.alpha[1] = 0 => Share(m.alpha, size) = 0
  <2>1. m.alpha \in Nat \X (Nat \ {0}) /\ o.qty \in Nat
    BY FillModelsAssumption DEF QueueModel, AnOrder
  <2>2. Share(m.alpha, size) \in Nat /\ (m.alpha[1] = 0 => Share(m.alpha, size) = 0)
    BY <1>2, <2>1, ShareType
  <2>3. QED
    BY <1>2, <2>1, <2>2 DEF OnPlace, Queue
<1>4. \A m \in Models : queue'[m] = With(queue[m], OnPlace(m, o.qty, size))
  BY DEF Place, size
<1>5. ASSUME NEW m \in Models
      PROVE  /\ queue'[m] \in [1 .. placed + 1 -> Queue]
             /\ \A id \in 1 .. placed : queue'[m][id] = queue[m][id]
             /\ queue'[m][placed + 1] = OnPlace(m, o.qty, size)
  <2>1. queue[m] \in [1 .. placed -> Queue]
    BY <1>1 DEF ModelsTypeOK
  <2>2. queue'[m] = [id \in 1 .. placed + 1 |->
            IF id = placed + 1 THEN OnPlace(m, o.qty, size) ELSE queue[m][id]]
    BY <1>4 DEF With
  <2>3. \A id \in 1 .. placed + 1 : id # placed + 1 => id \in 1 .. placed
    BY <1>1
  <2>4. \A id \in 1 .. placed : id \in 1 .. placed + 1 /\ id # placed + 1
    BY <1>1
  <2>5. placed + 1 \in 1 .. placed + 1
    BY <1>1
  <2>6. QED
    BY <1>3, <2>1, <2>2, <2>3, <2>4, <2>5
<1>6. ModelsTypeOK'
  <2>1. order' \in [1 .. placed + 1 -> AnOrder]
    <3>1. order' = [id \in 1 .. placed + 1 |-> IF id = placed + 1 THEN o ELSE order[id]]
      BY DEF Place, With
    <3>2. \A id \in 1 .. placed + 1 : id # placed + 1 => id \in 1 .. placed
      BY <1>1
    <3>3. QED
      BY <1>1, <3>1, <3>2 DEF ModelsTypeOK
  <2>2. queue' \in [Models -> [1 .. placed + 1 -> Queue]]
    BY <1>5 DEF Place
  <2>3. dropped' \subseteq 1 .. placed + 1 /\ turn' \in 1 .. placed + 1 + 1
    BY <1>1 DEF ModelsTypeOK, Place
  <2>4. book' = book /\ budget' = budget /\ given' = given
    BY DEF Place
  <2>5. QED
    BY <1>1, <2>1, <2>2, <2>3, <2>4 DEF ModelsTypeOK
<1>7. AllNested'
  <2>1. \A id \in 1 .. placed' : id \in 1 .. placed \/ id = placed + 1
    BY <1>1
  <2>2. ASSUME NEW m \in Models, m.alpha[1] = 0, NEW id \in 1 .. placed'
        PROVE  queue'[m][id].ahead = 0
    BY <1>1, <1>3, <1>5, <2>1, <2>2 DEF AllNested
  <2>3. ASSUME NEW lo \in Models, NEW hi \in Models, Nested(lo, hi), NEW id \in 1 .. placed'
        PROVE  PairOK(lo, queue'[lo][id], queue'[hi][id])
    <3>1. CASE id \in 1 .. placed
      BY <1>1, <1>5, <2>3, <3>1 DEF AllNested
    <3>2. CASE id = placed + 1
      <4>1. ~lo.throughOnly => Share(hi.alpha, size) <= Share(lo.alpha, size)
        <5>1. lo.alpha \in Nat \X (Nat \ {0}) /\ hi.alpha \in Nat \X (Nat \ {0})
          BY FillModelsAssumption DEF QueueModel
        <5>2. ~lo.throughOnly => AtMost(hi.alpha, lo.alpha)
          BY <2>3 DEF Nested
        <5>3. QED
          BY <1>2, <5>1, <5>2, ShareIsMonotone
      <4>2. o.qty \in Nat
        BY DEF AnOrder
      <4>3. QED
        BY <1>3, <1>5, <3>2, <4>1, <4>2 DEF PairOK
    <3>3. QED
      BY <2>1, <3>1, <3>2
  <2>4. QED
    BY <2>2, <2>3 DEF AllNested
<1>8. QED
  BY <1>1, <1>6, <1>7 DEF ModelsInv

\* So does dropping one.
LEMMA DropStep == ASSUME ModelsInv, NEW k \in 1 .. placed, Drop(k) PROVE ModelsInv'
<1>1. /\ ModelsTypeOK /\ AllNested /\ print = None /\ print' = None /\ placed' = placed
  BY DEF ModelsInv, Drop, Idle
<1>2. ASSUME NEW m \in Models
      PROVE  /\ queue'[m] \in [1 .. placed -> Queue]
             /\ \A id \in 1 .. placed : id # k => queue'[m][id] = queue[m][id]
             /\ queue'[m][k].left = queue[m][k].left /\ queue'[m][k].ahead = 0
  <2>1. queue[m] \in [1 .. placed -> Queue] /\ queue[m][k] \in Queue
    BY <1>1 DEF ModelsTypeOK
  <2>2. queue'[m] = [queue[m] EXCEPT ![k] = Gone(queue[m][k].left)]
    BY DEF Drop
  <2>3. QED
    BY <2>1, <2>2, GoneIsQueue
<1>3. ModelsTypeOK'
  <2>1. queue' \in [Models -> [1 .. placed -> Queue]]
    BY <1>2 DEF Drop
  <2>2. QED
    BY <1>1, <2>1 DEF Drop, ModelsTypeOK
<1>4. AllNested'
  <2>1. ASSUME NEW m \in Models, m.alpha[1] = 0, NEW id \in 1 .. placed
        PROVE  queue'[m][id].ahead = 0
    BY <1>1, <1>2, <2>1 DEF AllNested
  <2>2. ASSUME NEW lo \in Models, NEW hi \in Models, Nested(lo, hi), NEW id \in 1 .. placed
        PROVE  PairOK(lo, queue'[lo][id], queue'[hi][id])
    <3>1. PairOK(lo, queue[lo][id], queue[hi][id])
      BY <1>1, <2>2 DEF AllNested
    <3>2. CASE id = k
      BY <1>2, <3>1, <3>2 DEF PairOK
    <3>3. CASE id # k
      BY <1>2, <3>1, <3>3
    <3>4. QED
      BY <3>2, <3>3
  <2>3. QED
    BY <1>1, <2>1, <2>2 DEF AllNested
<1>5. QED
  BY <1>1, <1>3, <1>4 DEF ModelsInv

\* So does a new book.
LEMMA SnapshotStep == ASSUME ModelsInv, NEW b \in Books, Snapshot(b) PROVE ModelsInv'
<1>1. /\ ModelsTypeOK /\ AllNested /\ print = None /\ print' = None /\ placed' = placed
      /\ b \in Book
  BY FillModelsAssumption DEF ModelsInv, Snapshot, Idle
<1>2. ASSUME NEW m \in Models, NEW id \in 1 .. placed
      PROVE  LET q == queue[m][id]
                 o == order[id]
                 r == queue'[m][id]
                 size == b[<<o.side, o.price>>]
             IN  /\ q \in Queue /\ r \in Queue /\ r.ahead <= q.ahead /\ size \in Nat
                 /\ ~Resting(m, id) => r = q
                 /\ Resting(m, id) =>
                        IF CrossedBy(b, o.side, o.price) THEN r.left = 0
                        ELSE /\ r.left = q.left /\ r.ahead <= size
                             /\ m.cancel[1] = 0 => r.ahead = MinOf(q.ahead, size)
  <2> DEFINE q == queue[m][id]
             o == order[id]
             size == b[<<o.side, o.price>>]
             s == QueueAfterBook(m, q, size)
  <2>1. q \in Queue /\ m \in QueueModel /\ size \in Nat
    <3>1. <<o.side, o.price>> \in Cell
      BY <1>1 DEF ModelsTypeOK, AnOrder, Cell
    <3>2. QED
      BY <1>1, <3>1, FillModelsAssumption DEF ModelsTypeOK, Book
  <2>2. queue'[m][id] = QueueAfterSnapshot(m, id, b)
    BY DEF Snapshot
  <2>3. QueueAfterSnapshot(m, id, b) =
            IF ~Resting(m, id) THEN q
            ELSE IF CrossedBy(b, o.side, o.price) THEN Gone(0) ELSE s
    BY DEF QueueAfterSnapshot
  <2> HIDE DEF q, o, size, s
  <2>4. /\ s \in Queue /\ s.left = q.left /\ s.ahead <= q.ahead /\ s.ahead <= size
        /\ m.cancel[1] = 0 => s.ahead = MinOf(q.ahead, size)
    BY <2>1, BookMovesQueue DEF s
  <2>5. Gone(0) \in Queue /\ Gone(0).left = 0 /\ Gone(0).ahead = 0 /\ q.ahead \in Nat
    BY <2>1, GoneIsQueue DEF Queue
  <2>6. QED
    BY <2>1, <2>2, <2>3, <2>4, <2>5 DEF q, o, size
<1>3. ModelsTypeOK'
  <2>1. queue' \in [Models -> [1 .. placed -> Queue]]
    <3>1. queue' = [m \in Models |-> [id \in 1 .. placed |-> queue'[m][id]]]
      BY DEF Snapshot
    <3>2. \A m \in Models, id \in 1 .. placed : queue'[m][id] \in Queue
      BY <1>2
    <3> HIDE DEF Snapshot
    <3>3. QED
      BY <3>1, <3>2
  <2>2. QED
    BY <1>1, <2>1 DEF Snapshot, ModelsTypeOK
<1>4. AllNested'
  <2>1. ASSUME NEW m \in Models, m.alpha[1] = 0, NEW id \in 1 .. placed
        PROVE  queue'[m][id].ahead = 0
    <3>1. queue[m][id].ahead = 0
      BY <1>1, <2>1 DEF AllNested
    <3>2. queue'[m][id].ahead \in Nat /\ queue'[m][id].ahead <= queue[m][id].ahead
      BY <1>2 DEF Queue
    <3>3. QED
      BY <3>1, <3>2
  <2>2. ASSUME NEW lo \in Models, NEW hi \in Models, Nested(lo, hi), NEW id \in 1 .. placed
        PROVE  PairOK(lo, queue'[lo][id], queue'[hi][id])
    <3> DEFINE ql == queue[lo][id]
               qh == queue[hi][id]
               rl == queue'[lo][id]
               rh == queue'[hi][id]
               size == b[<<order[id].side, order[id].price>>]
               crossed == CrossedBy(b, order[id].side, order[id].price)
    <3>1. PairOK(lo, ql, qh)
      BY <1>1, <2>2 DEF AllNested
    <3>2. /\ ql \in Queue /\ rl \in Queue /\ rl.ahead <= ql.ahead /\ size \in Nat
          /\ ~Resting(lo, id) => rl = ql
          /\ Resting(lo, id) =>
                 IF crossed THEN rl.left = 0
                 ELSE /\ rl.left = ql.left /\ rl.ahead <= size
                      /\ lo.cancel[1] = 0 => rl.ahead = MinOf(ql.ahead, size)
      BY <1>2
    <3>3. /\ qh \in Queue /\ rh \in Queue /\ rh.ahead <= qh.ahead
          /\ ~Resting(hi, id) => rh = qh
          /\ Resting(hi, id) =>
                 IF crossed THEN rh.left = 0
                 ELSE rh.left = qh.left /\ rh.ahead <= size
      BY <1>2
    <3>4. /\ Resting(lo, id) <=> id \notin dropped /\ ql.left > 0
          /\ Resting(hi, id) <=> id \notin dropped /\ qh.left > 0
      BY DEF Resting
    <3>5. hi.alpha[1] = 0 => rh.ahead = 0
      BY <2>1
    <3>6. ~lo.throughOnly => lo.cancel[1] = 0 \/ hi.alpha[1] = 0
      BY <2>2 DEF Nested
    <3> HIDE DEF ql, qh, rl, rh, size, crossed
    <3>7. /\ ql.left \in Nat /\ ql.ahead \in Nat /\ qh.left \in Nat /\ qh.ahead \in Nat
          /\ rl.left \in Nat /\ rl.ahead \in Nat /\ rh.left \in Nat /\ rh.ahead \in Nat
      BY <3>2, <3>3 DEF Queue
    <3>8. qh.left <= ql.left /\ (~lo.throughOnly /\ qh.left > 0 => qh.ahead <= ql.ahead)
      BY <3>1 DEF PairOK
    <3>9. rh.left <= rl.left
      BY <3>2, <3>3, <3>4, <3>7, <3>8
    <3>10. ASSUME ~lo.throughOnly, rh.left > 0 PROVE rh.ahead <= rl.ahead
      <4>1. CASE hi.alpha[1] = 0
        BY <3>5, <3>7, <4>1
      <4>2. CASE hi.alpha[1] # 0
        <5>1. lo.cancel[1] = 0
          BY <3>6, <3>10, <4>2
        <5>2. qh.left > 0 /\ qh.ahead <= ql.ahead /\ ql.left > 0
          BY <3>3, <3>7, <3>8, <3>10
        <5>3. CASE id \in dropped
          BY <3>2, <3>3, <3>4, <5>2, <5>3
        <5>4. CASE id \notin dropped
          <6>1. Resting(lo, id) /\ Resting(hi, id) /\ ~crossed
            BY <3>3, <3>4, <3>10, <5>2, <5>4
          <6>2. rl.ahead = MinOf(ql.ahead, size) /\ rh.ahead <= size
            BY <3>2, <3>3, <5>1, <6>1
          <6>3. QED
            BY <3>2, <3>3, <3>7, <5>2, <6>2 DEF MinOf
        <5>5. QED
          BY <5>3, <5>4
      <4>3. QED
        BY <4>1, <4>2
    <3>11. QED
      BY <3>9, <3>10 DEF PairOK, rl, rh
  <2>3. QED
    BY <1>1, <2>1, <2>2 DEF AllNested
<1>5. QED
  BY <1>1, <1>3, <1>4 DEF ModelsInv

\* A print arrives or has been matched with every order.
LEMMA PrintStep ==
    ASSUME ModelsInv, Matched \/ \E p \in TradePrint : PrintArrives(p) PROVE ModelsInv'
<1>1. /\ ModelsTypeOK /\ AllNested
      /\ book' = book /\ placed' = placed /\ order' = order /\ dropped' = dropped /\ queue' = queue
      /\ turn' = 1 /\ placed \in Nat
  BY FillModelsAssumption DEF ModelsInv, ModelsTypeOK, Matched, PrintArrives
<1>2. AllNested'
  BY <1>1 DEF AllNested
<1>3. CASE Matched
  <2>1. /\ print' = None /\ budget' \in [Models -> Nat] /\ given' \in [Models -> Nat]
    BY <1>3 DEF Matched
  <2>2. ModelsTypeOK'
    BY <1>1, <2>1 DEF ModelsTypeOK
  <2>3. QED
    BY <1>2, <2>1, <2>2 DEF ModelsInv
<1>4. ASSUME NEW p \in TradePrint, PrintArrives(p) PROVE ModelsInv'
  <2>1. /\ print' = p /\ p.count \in Nat
        /\ budget' = [m \in Models |-> p.count] /\ given' = [m \in Models |-> 0]
    BY <1>4 DEF PrintArrives, TradePrint
  <2>2. ModelsTypeOK'
    BY <1>1, <2>1 DEF ModelsTypeOK
  <2>3. Matching'
    BY <1>1, <2>1 DEF Matching
  <2>4. QED
    BY <1>2, <2>2, <2>3 DEF ModelsInv
<1>5. QED
  BY <1>3, <1>4

\* The invariant holds before any order.
LEMMA ModelsStart == ModelsInit => ModelsInv
<1> SUFFICES ASSUME ModelsInit PROVE ModelsInv
  OBVIOUS
<1>1. /\ book \in Book /\ placed = 0 /\ dropped = {} /\ print = None /\ turn = 1
      /\ budget \in [Models -> Nat] /\ given \in [Models -> Nat]
  BY FillModelsAssumption DEF ModelsInit
<1>2. order \in [1 .. 0 -> AnOrder] /\ queue \in [Models -> [1 .. 0 -> Queue]]
  BY DEF ModelsInit
<1>3. 1 .. placed = {}
  BY <1>1
<1>4. ModelsTypeOK
  BY <1>1, <1>2, FillModelsAssumption DEF ModelsTypeOK
<1>5. AllNested
  BY <1>3 DEF AllNested
<1>6. QED
  BY <1>1, <1>4, <1>5 DEF ModelsInv

\* Every step keeps the invariant.
LEMMA ModelsSteps == ModelsInv /\ [ModelsNext]_models => ModelsInv'
<1> SUFFICES ASSUME ModelsInv, [ModelsNext]_models PROVE ModelsInv'
  OBVIOUS
<1>1. CASE UNCHANGED models
  BY <1>1 DEF models, ModelsInv, ModelsTypeOK, AllNested, Matching, AtLevelOf, Resting
<1>2. CASE ModelsNext
  BY <1>2, PlaceStep, DropStep, SnapshotStep, PrintStep, MatchStep DEF ModelsNext
<1>3. QED
  BY <1>1, <1>2

\* The inductive invariant holds throughout.
LEMMA ModelsInvariance == ModelsSpec => []ModelsInv
<1>1. QED
  BY ModelsStart, ModelsSteps, PTL DEF ModelsSpec

\* Type correctness of the models in lock step.
THEOREM ModelsTypes == ModelsSpec => []ModelsTypeOK
<1>1. ModelsInv => ModelsTypeOK
  BY DEF ModelsInv
<1>2. QED
  BY <1>1, ModelsInvariance, PTL

\* Nested parameters give nested fills, at every instant of every tape.
THEOREM FillModelsAreNested == ModelsSpec => []ModelsAreNested
<1>1. ModelsInv => ModelsAreNested
  BY DEF ModelsInv, AllNested, PairOK, ModelsAreNested
<1>2. QED
  BY <1>1, ModelsInvariance, PTL

\* Our orders together never get more of a print than was traded.
THEOREM PrintsAreShared == ModelsSpec => []PrintIsShared
<1>1. ModelsInv => PrintIsShared
  <2> SUFFICES ASSUME ModelsInv, print # None, NEW m \in Models PROVE given[m] <= print.count
    BY DEF PrintIsShared
  <2>1. /\ given[m] \in Nat /\ budget[m] \in Nat /\ print \in TradePrint
        /\ given[m] + budget[m] <= print.count
    BY DEF ModelsInv, ModelsTypeOK, Matching
  <2>2. print.count \in Nat
    BY <2>1 DEF TradePrint
  <2>3. QED
    BY <2>1, <2>2
<1>2. QED
  BY <1>1, ModelsInvariance, PTL

\* The same, step by step.
LEMMA PriorityStep ==
    ASSUME ModelsInv, [ModelsNext]_models, NEW m \in Models, given'[m] > given[m],
           NEW id \in 1 .. turn - 1,
           order[id].side = order[turn].side, order[id].price = order[turn].price
    PROVE  ~Resting(m, id)
<1>1. /\ ModelsTypeOK /\ given[m] \in Nat
  BY DEF ModelsInv, ModelsTypeOK
<1>2. MatchNext
  <2>1. given' # given /\ given'[m] # 0
    BY <1>1
  <2>2. given' # [k \in Models |-> 0]
    BY <2>1
  <2>3. QED
    BY <2>1, <2>2 DEF ModelsNext, models, Place, Drop, Snapshot, PrintArrives, Matched
<1>3. print # None /\ turn <= placed /\ Matching
  BY <1>2 DEF MatchNext, ModelsInv
<1>4. given'[m] = IF AtLevelOf(m, turn) THEN given[m] + Match(m, turn) ELSE given[m]
  BY <1>2 DEF MatchNext
<1>5. AtLevelOf(m, turn) /\ Match(m, turn) > 0
  BY <1>1, <1>4, MatchOne, <1>3
<1>6. Resting(m, turn) /\ AtLevel(order[turn].side, order[turn].price, print)
  BY <1>5 DEF AtLevelOf
<1> DEFINE q == queue[m][turn]
           used == MinOf(q.ahead, budget[m])
<1>7. /\ ~m.throughOnly /\ Match(m, turn) = MinOf(q.left, budget[m] - used)
      /\ q \in Queue /\ budget[m] \in Nat
  BY <1>1, <1>3, <1>5, <1>6, MatchOne
<1>8. budget[m] > 0
  <2>1. q.left \in Nat /\ q.ahead \in Nat
    BY <1>7 DEF Queue
  <2> HIDE DEF q
  <2>2. QED
    BY <1>5, <1>7, <2>1 DEF MinOf
<1>9. ~AtLevelOf(m, id)
  BY <1>3, <1>7, <1>8 DEF Matching
<1>10. QED
  BY <1>6, <1>9 DEF AtLevelOf

\* A print at our level fills our orders there in their order.
THEOREM PriorityIsKept == ModelsSpec => PriorityAtLevel
<1> DEFINE InOrder == \A m \in Models : given'[m] > given[m] =>
                \A id \in 1 .. turn - 1 :
                    order[id].side = order[turn].side /\ order[id].price = order[turn].price
                        => ~Resting(m, id)
<1>1. ModelsInv /\ [ModelsNext]_models => [InOrder]_models
  BY PriorityStep
<1>2. QED
  BY <1>1, ModelsInvariance, PTL DEF ModelsSpec, PriorityAtLevel

=============================================================================
