------------------------------ MODULE FillsProofs ------------------------------
(***************************************************************************)
(* Lemmas that the other proofs share: induction over the naturals and     *)
(* sums; and about Fills, for every queue model, book, print and queue:    *)
(* what one book and one print do to one resting order, and the share of a *)
(* quantity that int() leaves.                                             *)
(***************************************************************************)
EXTENDS Fills, TLAPS, WellFoundedInduction

(***************************************************************************)
(* Induction is done on sets of numbers: a set of naturals with 0 and      *)
(* every successor is all of Nat, because a well-founded relation has a    *)
(* minimal element outside it.                                             *)
(***************************************************************************)
Less == {pair \in Nat \X Nat : pair[1] < pair[2]}

LEMMA LessIsWellFounded == IsWellFoundedOn(Less, Nat)
<1>1. OpToRel(<, Nat) = Less
  BY DEF OpToRel, Less
<1>2. QED
  BY <1>1, NatLessThanWellFounded

\* Induction over the naturals, for a set instead of a predicate.
LEMMA SetInduction ==
    ASSUME NEW T, T \subseteq Nat, 0 \in T, \A n \in T : n + 1 \in T
    PROVE  T = Nat
<1>1. SUFFICES ASSUME Nat \ T # {} PROVE FALSE
  OBVIOUS
<1>2. PICK x \in Nat \ T : \A y \in Nat \ T : <<y, x>> \notin Less
  <2>1. Nat \ T \subseteq Nat
    OBVIOUS
  <2>2. QED
    BY <1>1, <2>1, LessIsWellFounded, WFMin, Zenon
<1>3. x # 0 /\ x - 1 \in Nat
  BY <1>2
<1>4. x - 1 \in T
  <2>1. <<x - 1, x>> \in Less
    BY <1>3 DEF Less
  <2>2. QED
    BY <1>2, <1>3, <2>1
<1>5. QED
  BY <1>2, <1>3, <1>4

\* A set of naturals has a least element.
LEMMA LeastExists ==
    ASSUME NEW ids, ids \subseteq Nat, ids # {}
    PROVE  \E x \in ids : \A y \in ids : x <= y
<1>1. PICK x \in ids : \A y \in ids : ~(<<y, x>> \in Less)
  <2>1. ids \subseteq Nat /\ ids # {}
    OBVIOUS
  <2>2. QED
    BY <2>1, LessIsWellFounded, WFMin, Zenon
<1>2. \A y \in ids : x <= y
  <2>1. TAKE y \in ids
  <2>2. x \in Nat /\ y \in Nat
    OBVIOUS
  <2>3. y < x => <<y, x>> \in Less
    BY <2>2 DEF Less
  <2>4. QED
    BY <1>1, <2>2, <2>3
<1>3. QED
  BY <1>2

----------------------------------------------------------------------------

\* s holds the partial sums of f.
Accumulates(s, f, n) ==
    s = [i \in 0 .. n |-> IF i = 0 THEN 0 ELSE s[i-1] + f[i]]

LEMMA PartialSumsExist ==
    ASSUME NEW n \in Nat, NEW f, \A i \in 1 .. n : f[i] \in Int
    PROVE  \E s \in [0 .. n -> Int] : Accumulates(s, f, n)
<1> DEFINE T == {m \in Nat : m <= n => \E s \in [0 .. m -> Int] : Accumulates(s, f, m)}
<1>1. 0 \in T
  <2>1. [i \in 0 .. 0 |-> 0] \in [0 .. 0 -> Int]
    OBVIOUS
  <2>2. Accumulates([i \in 0 .. 0 |-> 0], f, 0)
    BY DEF Accumulates
  <2>3. QED
    BY <2>1, <2>2
<1>2. ASSUME NEW m \in T PROVE m + 1 \in T
  <2>1. SUFFICES ASSUME m + 1 <= n
                 PROVE  \E s \in [0 .. m+1 -> Int] : Accumulates(s, f, m+1)
    BY <1>2
  <2>2. PICK s \in [0 .. m -> Int] : Accumulates(s, f, m)
    BY <1>2, <2>1
  <2> DEFINE t == [i \in 0 .. m+1 |-> IF i = m+1 THEN s[m] + f[m+1] ELSE s[i]]
  <2>3. \A i \in 0 .. m : s[i] = (IF i = 0 THEN 0 ELSE s[i-1] + f[i])
    BY <2>2 DEF Accumulates
  <2>a. m \in Nat
    BY <1>2
  <2>4. t \in [0 .. m+1 -> Int]
    <3>1. m \in 0 .. m /\ m + 1 \in 1 .. n
      BY <2>a, <2>1
    <3>2. s[m] + f[m+1] \in Int
      BY <2>2, <3>1
    <3>3. ASSUME NEW i \in 0 .. m+1, i # m+1 PROVE s[i] \in Int
      <4>1. i \in 0 .. m
        BY <2>a, <3>3
      <4>2. QED
        BY <2>2, <4>1
    <3>4. QED
      BY <3>2, <3>3
  <2>5. \A i \in 0 .. m+1 : t[i] = (IF i = 0 THEN 0 ELSE t[i-1] + f[i])
    <3>1. TAKE i \in 0 .. m+1
    <3>2. CASE i = m + 1
      <4>1. t[i] = s[m] + f[m+1] /\ t[i-1] = s[m] /\ i # 0
        BY <2>a, <3>2
      <4>2. QED
        BY <3>2, <4>1
    <3>3. CASE i # m + 1
      <4>1. i \in 0 .. m /\ (i # 0 => i - 1 \in 0 .. m)
        BY <2>a, <3>3
      <4>2. t[i] = s[i] /\ (i # 0 => t[i-1] = s[i-1])
        BY <2>a, <4>1
      <4>3. QED
        BY <2>3, <4>1, <4>2
    <3>4. QED
      BY <3>2, <3>3
  <2>6. Accumulates(t, f, m+1)
    BY <2>4, <2>5 DEF Accumulates
  <2>7. QED
    BY <2>4, <2>6
<1>3. T = Nat
  <2> HIDE DEF T
  <2>1. T \subseteq Nat
    BY DEF T
  <2>2. QED
    BY <1>1, <1>2, <2>1, SetInduction
<1>4. QED
  BY <1>3

\* Total is computed by some partial sums.
LEMMA TotalByPartialSums ==
    ASSUME NEW n \in Nat, NEW f, \A i \in 1 .. n : f[i] \in Int
    PROVE  \E s : /\ s[0] = 0
                  /\ \A i \in 0 .. n-1 : s[i+1] = s[i] + f[i+1]
                  /\ \A i \in 0 .. n : s[i] \in Int
                  /\ Total(f, n) = s[n]
<1> DEFINE P == CHOOSE s : Accumulates(s, f, n)
<1>1. Accumulates(P, f, n)
  BY PartialSumsExist
<1>2. Total(f, n) = P[n]
  BY DEF Total, Accumulates
<1>3. P[0] = 0 /\ \A i \in 1 .. n : P[i] = P[i-1] + f[i]
  <2> HIDE DEF P
  <2>1. \A i \in 0 .. n : P[i] = (IF i = 0 THEN 0 ELSE P[i-1] + f[i])
    BY <1>1 DEF Accumulates
  <2>2. QED
    BY <2>1
<1> HIDE DEF P
<1> DEFINE T == {i \in Nat : i <= n => P[i] \in Int}
<1>4. 0 \in T
  BY <1>3
<1>5. ASSUME NEW i \in T PROVE i + 1 \in T
  <2>1. SUFFICES ASSUME i + 1 <= n PROVE P[i+1] \in Int
    OBVIOUS
  <2>2. i + 1 \in 1 .. n /\ P[i] \in Int
    BY <1>5, <2>1
  <2>3. QED
    BY <1>3, <2>2
<1>6. T = Nat
  <2> HIDE DEF T
  <2>1. T \subseteq Nat
    BY DEF T
  <2>2. QED
    BY <1>4, <1>5, <2>1, SetInduction
<1>7. \A i \in 0 .. n : P[i] \in Int
  BY <1>6
<1>8. ASSUME NEW i \in 0 .. n-1 PROVE P[i+1] = P[i] + f[i+1]
  <2>1. i + 1 \in 1 .. n /\ (i + 1) - 1 = i
    OBVIOUS
  <2>2. QED
    BY <1>3, <2>1
<1>9. QED
  BY <1>2, <1>3, <1>7, <1>8

\* The recursion of a sum: nothing of nothing, and one more term adds that term.
LEMMA TotalOfNone == ASSUME NEW f PROVE Total(f, 0) = 0
<1>1. \A i \in 1 .. 0 : f[i] \in Int
  OBVIOUS
<1>2. QED
  BY <1>1, TotalByPartialSums

LEMMA TotalSteps ==
    ASSUME NEW n \in Nat, NEW f, \A i \in 1 .. n + 1 : f[i] \in Int
    PROVE  /\ Total(f, n) \in Int
           /\ Total(f, n + 1) = Total(f, n) + f[n+1]
<1>1. \A i \in 1 .. n : f[i] \in Int
  OBVIOUS
<1>2. PICK s : /\ s[0] = 0
               /\ \A i \in 0 .. n-1 : s[i+1] = s[i] + f[i+1]
               /\ \A i \in 0 .. n : s[i] \in Int
               /\ Total(f, n) = s[n]
  BY <1>1, TotalByPartialSums
<1>3. PICK t : /\ t[0] = 0
               /\ \A i \in 0 .. n : t[i+1] = t[i] + f[i+1]
               /\ \A i \in 0 .. n + 1 : t[i] \in Int
               /\ Total(f, n + 1) = t[n+1]
  <2>1. n + 1 \in Nat /\ (n + 1) - 1 = n
    OBVIOUS
  <2>2. QED
    BY <2>1, TotalByPartialSums
<1> DEFINE T == {i \in Nat : i <= n => t[i] = s[i]}
<1>4. 0 \in T
  BY <1>2, <1>3
<1>5. ASSUME NEW i \in T PROVE i + 1 \in T
  <2>1. SUFFICES ASSUME i + 1 <= n PROVE t[i+1] = s[i+1]
    OBVIOUS
  <2>2. i \in 0 .. n-1 /\ i \in 0 .. n /\ t[i] = s[i]
    BY <1>5, <2>1
  <2>3. QED
    BY <1>2, <1>3, <2>2
<1>6. T = Nat
  <2> HIDE DEF T
  <2>1. T \subseteq Nat
    BY DEF T
  <2>2. QED
    BY <1>4, <1>5, <2>1, SetInduction
<1>7. n \in 0 .. n /\ t[n] = s[n]
  BY <1>6
<1>8. QED
  BY <1>2, <1>3, <1>7

\* A sum depends on its terms only.
LEMMA TotalOfEqualTerms ==
    ASSUME NEW n \in Nat, NEW f, NEW g, \A i \in 1 .. n : f[i] \in Int /\ g[i] = f[i]
    PROVE  Total(g, n) = Total(f, n)
<1> DEFINE T == {k \in Nat : k <= n => Total(g, k) = Total(f, k)}
<1>1. 0 \in T
  BY TotalOfNone
<1>2. ASSUME NEW k \in T PROVE k + 1 \in T
  <2>1. SUFFICES ASSUME k + 1 <= n PROVE Total(g, k + 1) = Total(f, k + 1)
    OBVIOUS
  <2>2. k \in Nat /\ Total(g, k) = Total(f, k) /\ k + 1 \in 1 .. n
    BY <1>2, <2>1
  <2>3. \A i \in 1 .. k + 1 : f[i] \in Int /\ g[i] \in Int /\ g[i] = f[i]
    BY <2>1, <2>2
  <2>4. Total(g, k + 1) = Total(g, k) + g[k+1] /\ Total(f, k + 1) = Total(f, k) + f[k+1]
    BY <2>2, <2>3, TotalSteps
  <2>5. QED
    BY <2>2, <2>3, <2>4
<1>3. T = Nat
  <2> HIDE DEF T
  <2>1. T \subseteq Nat
    BY DEF T
  <2>2. QED
    BY <1>1, <1>2, <2>1, SetInduction
<1>4. QED
  BY <1>3

----------------------------------------------------------------------------

\* A sum of integers is an integer.
LEMMA TotalType ==
    ASSUME NEW n \in Nat, NEW f \in [1 .. n -> Int]
    PROVE  Total(f, n) \in Int
<1>1. n \in 0 .. n
  OBVIOUS
<1>2. QED
  BY <1>1, TotalByPartialSums

\* Changing one term changes the sum by as much.
LEMMA TotalUpdate ==
    ASSUME NEW n \in Nat, NEW f \in [1 .. n -> Int], NEW k \in 1 .. n, NEW v \in Int
    PROVE  Total([f EXCEPT ![k] = v], n) = Total(f, n) - f[k] + v
<1> DEFINE g == [f EXCEPT ![k] = v]
<1>1. g \in [1 .. n -> Int] /\ g[k] = v /\ \A i \in 1 .. n : i # k => g[i] = f[i]
  OBVIOUS
<1> HIDE DEF g
<1>2. PICK s : /\ s[0] = 0
               /\ \A i \in 0 .. n-1 : s[i+1] = s[i] + f[i+1]
               /\ \A i \in 0 .. n : s[i] \in Int
               /\ Total(f, n) = s[n]
  BY TotalByPartialSums
<1>3. PICK t : /\ t[0] = 0
               /\ \A i \in 0 .. n-1 : t[i+1] = t[i] + g[i+1]
               /\ \A i \in 0 .. n : t[i] \in Int
               /\ Total(g, n) = t[n]
  BY <1>1, TotalByPartialSums
<1> DEFINE Shifted(i) == t[i] = (IF i < k THEN s[i] ELSE s[i] - f[k] + v)
           T == {i \in Nat : i <= n => Shifted(i)}
<1>4. 0 \in T
  BY <1>2, <1>3
<1>5. ASSUME NEW i \in T PROVE i + 1 \in T
  <2>1. SUFFICES ASSUME i + 1 <= n PROVE Shifted(i + 1)
    OBVIOUS
  <2>2. i \in Nat /\ i + 1 \in 1 .. n /\ i \in 0 .. n /\ i \in 0 .. n-1 /\ Shifted(i)
    BY <1>5, <2>1
  <2>3. /\ s[i+1] = s[i] + f[i+1] /\ t[i+1] = t[i] + g[i+1]
        /\ s[i] \in Int /\ t[i] \in Int /\ f[i+1] \in Int /\ f[k] \in Int
    BY <1>2, <1>3, <2>2, Zenon
  <2>4. CASE i + 1 < k
    BY <1>1, <2>2, <2>3, <2>4
  <2>5. CASE i + 1 = k
    BY <1>1, <2>2, <2>3, <2>5
  <2>6. CASE i + 1 > k
    BY <1>1, <2>2, <2>3, <2>6
  <2>7. QED
    BY <2>2, <2>4, <2>5, <2>6
<1>6. T = Nat
  <2> HIDE DEF T
  <2>1. T \subseteq Nat
    BY DEF T
  <2>2. QED
    BY <1>4, <1>5, <2>1, SetInduction
<1>7. Shifted(n)
  BY <1>6
<1>8. QED
  BY <1>2, <1>3, <1>7 DEF g

\* A sum of naturals is a natural, and no term exceeds it.
LEMMA TotalOfNaturals ==
    ASSUME NEW n \in Nat, NEW f \in [1 .. n -> Nat]
    PROVE  Total(f, n) \in Nat /\ \A k \in 1 .. n : f[k] <= Total(f, n)
<1>a. f \in [1 .. n -> Int]
  OBVIOUS
<1>1. PICK s : /\ s[0] = 0
               /\ \A i \in 0 .. n-1 : s[i+1] = s[i] + f[i+1]
               /\ \A i \in 0 .. n : s[i] \in Int
               /\ Total(f, n) = s[n]
  BY <1>a, TotalByPartialSums
<1> DEFINE Covers(i) == s[i] >= 0 /\ \A k \in 1 .. i : f[k] <= s[i]
           T == {i \in Nat : i <= n => Covers(i)}
<1>2. 0 \in T
  BY <1>1
<1>3. ASSUME NEW i \in T PROVE i + 1 \in T
  <2>1. SUFFICES ASSUME i + 1 <= n PROVE Covers(i + 1)
    OBVIOUS
  <2>2. i \in Nat /\ i + 1 \in 1 .. n /\ i \in 0 .. n /\ i \in 0 .. n-1 /\ Covers(i)
    BY <1>3, <2>1
  <2>3. s[i+1] = s[i] + f[i+1] /\ s[i] \in Int /\ f[i+1] \in Nat
    BY <1>1, <2>2
  <2>4. ASSUME NEW k \in 1 .. i + 1 PROVE f[k] <= s[i+1]
    <3>1. CASE k = i + 1
      BY <2>2, <2>3, <3>1
    <3>2. CASE k # i + 1
      <4>1. k \in 1 .. i /\ k \in 1 .. n
        BY <2>2, <3>2
      <4>2. QED
        BY <2>2, <2>3, <4>1
    <3>3. QED
      BY <3>1, <3>2
  <2>5. QED
    BY <2>2, <2>3, <2>4
<1>4. T = Nat
  <2> HIDE DEF T
  <2>1. T \subseteq Nat
    BY DEF T
  <2>2. QED
    BY <1>2, <1>3, <2>1, SetInduction
<1>5. Covers(n)
  BY <1>4
<1>6. QED
  BY <1>1, <1>5

\* The sum of zeros.
LEMMA TotalOfZeros ==
    ASSUME NEW n \in Nat, NEW f \in [1 .. n -> Int], \A i \in 1 .. n : f[i] = 0
    PROVE  Total(f, n) = 0
<1>1. PICK s : /\ s[0] = 0
               /\ \A i \in 0 .. n-1 : s[i+1] = s[i] + f[i+1]
               /\ \A i \in 0 .. n : s[i] \in Int
               /\ Total(f, n) = s[n]
  BY TotalByPartialSums
<1> DEFINE T == {i \in Nat : i <= n => s[i] = 0}
<1>2. 0 \in T
  BY <1>1
<1>3. ASSUME NEW i \in T PROVE i + 1 \in T
  <2>1. SUFFICES ASSUME i + 1 <= n PROVE s[i+1] = 0
    OBVIOUS
  <2>2. i + 1 \in 1 .. n /\ i \in 0 .. n-1 /\ s[i] = 0
    BY <1>3, <2>1
  <2>3. QED
    BY <1>1, <2>2
<1>4. T = Nat
  <2> HIDE DEF T
  <2>1. T \subseteq Nat
    BY DEF T
  <2>2. QED
    BY <1>2, <1>3, <2>1, SetInduction
<1>5. s[n] = 0
  BY <1>4
<1>6. QED
  BY <1>1, <1>5

\* Smaller terms make a smaller sum.
LEMMA TotalOfSmallerTerms ==
    ASSUME NEW n \in Nat, NEW f, NEW g,
           \A i \in 1 .. n : f[i] \in Int /\ g[i] \in Int /\ g[i] <= f[i]
    PROVE  Total(g, n) <= Total(f, n)
<1> DEFINE Below(k) == Total(g, k) \in Int /\ Total(f, k) \in Int /\ Total(g, k) <= Total(f, k)
           T == {k \in Nat : k <= n => Below(k)}
<1>1. 0 \in T
  BY TotalOfNone
<1>2. ASSUME NEW k \in T PROVE k + 1 \in T
  <2>1. SUFFICES ASSUME k + 1 <= n PROVE Below(k + 1)
    OBVIOUS
  <2>2. k \in Nat /\ Below(k) /\ k + 1 \in 1 .. n
    BY <1>2, <2>1
  <2>3. \A i \in 1 .. k + 1 : f[i] \in Int /\ g[i] \in Int /\ g[i] <= f[i]
    BY <2>1, <2>2
  <2>4. Total(g, k + 1) = Total(g, k) + g[k+1] /\ Total(f, k + 1) = Total(f, k) + f[k+1]
    BY <2>2, <2>3, TotalSteps
  <2>5. f[k+1] \in Int /\ g[k+1] \in Int /\ g[k+1] <= f[k+1]
    BY <2>2, <2>3
  <2>6. QED
    BY <2>2, <2>4, <2>5
<1>3. T = Nat
  <2> HIDE DEF T
  <2>1. T \subseteq Nat
    BY DEF T
  <2>2. QED
    BY <1>1, <1>2, <2>1, SetInduction
<1>4. QED
  BY <1>3

----------------------------------------------------------------------------
(* Fills. *)

\* int() of a share is a natural number, and none of nothing.
LEMMA ShareType ==
    ASSUME NEW s \in Nat \X (Nat \ {0}), NEW n \in Nat
    PROVE  Share(s, n) \in Nat /\ (s[1] = 0 => Share(s, n) = 0)
<1>1. s[1] \in Nat /\ s[2] \in Nat /\ s[2] > 0 /\ s[1] * n \in Nat
  OBVIOUS
<1>2. QED
  BY <1>1 DEF Share

\* int() of a share of a quantity is no more than the quantity.
LEMMA ShareIsBounded ==
    ASSUME NEW s, IsShare(s), NEW n \in Nat
    PROVE  Share(s, n) \in Nat /\ Share(s, n) <= n
<1> DEFINE x == s[1]  u == s[2]
<1>1. x \in Nat /\ u \in Nat /\ u > 0 /\ x <= u
  BY DEF IsShare
<1>2. Share(s, n) = (x * n) \div u
  BY DEF Share
<1> HIDE DEF x, u
<1>3. x * n \in Nat /\ x * n <= u * n
  <2>1. (u - x) * n >= 0 /\ (u - x) * n = u * n - x * n
    BY <1>1
  <2>2. QED
    BY <1>1, <2>1
<1> DEFINE k == (x * n) \div u
<1>4. k \in Nat /\ u * k <= x * n
  BY <1>1, <1>3
<1> HIDE DEF k
<1>5. k <= n
  <2>1. SUFFICES ASSUME k >= n + 1 PROVE FALSE
    BY <1>4
  <2>2. u * k >= u * (n + 1) /\ u * (n + 1) = u * n + u
    BY <1>1, <1>4, <2>1
  <2>3. u * k <= u * n
    BY <1>1, <1>3, <1>4
  <2>4. QED
    BY <1>1, <1>4, <2>2, <2>3
<1>6. QED
  BY <1>2, <1>4, <1>5 DEF k

\* What a print does to one order of one model.
LEMMA PrintMovesQueue ==
    ASSUME NEW m \in QueueModel, NEW q \in Queue, NEW side \in Side, NEW price \in Price,
           NEW tick \in TradePrint, NEW count \in Nat
    PROVE  LET f == FilledByPrint(m, q, side, price, tick, count)
               r == QueueAfterPrint(m, q, side, price, tick, count)
           IN  /\ f \in Nat /\ f <= q.left
               /\ r \in Queue /\ r.left = q.left - f
               /\ IF AtLevel(side, price, tick) /\ ~m.throughOnly
                  THEN /\ f = MinOf(q.left, count - MinOf(q.ahead, count))
                       /\ r.ahead = q.ahead - MinOf(q.ahead, count)
                  ELSE /\ r.ahead = q.ahead
                       /\ f = IF Through(side, price, tick) THEN q.left ELSE 0
<1> DEFINE f == FilledByPrint(m, q, side, price, tick, count)
           r == QueueAfterPrint(m, q, side, price, tick, count)
<1>1. q.left \in Nat /\ q.ahead \in Nat /\ q.level \in Nat /\ q.traded \in Nat
  BY DEF Queue
<1>2. tick.price \in Int /\ price \in Int /\ PriceScale \in Int
  BY OrderBookAssumption DEF TradePrint, Tick, Price
<1>3. ~(AtLevel(side, price, tick) /\ Through(side, price, tick))
  <2>1. TradePrice(side, tick) \in Int
    BY <1>2 DEF TradePrice, Complement
  <2>2. QED
    BY <1>2, <2>1 DEF AtLevel, Through
<1>4. CASE AtLevel(side, price, tick) /\ ~m.throughOnly
  <2>1. f = MinOf(q.left, count - MinOf(q.ahead, count))
    BY <1>3, <1>4 DEF FilledByPrint, Consumed
  <2>2. f \in Nat /\ f <= q.left
    BY <1>1, <2>1 DEF MinOf
  <2> HIDE DEF f
  <2> DEFINE used == MinOf(q.ahead, count)
             after == [left |-> q.left - f, ahead |-> q.ahead - used, level |-> q.level,
                       traded |-> q.traded + count]
  <2>3. r = [q EXCEPT !.left = @ - f, !.ahead = @ - used, !.traded = @ + count]
    BY <1>4 DEF QueueAfterPrint, Consumed, f
  <2>4. used \in Nat /\ q.ahead - used \in Nat
    BY <1>1 DEF MinOf
  <2> HIDE DEF r, used
  <2>5. r.left = q.left - f /\ r.ahead = q.ahead - used /\ r \in Queue
    <3>1. q.left - f \in Nat /\ q.traded + count \in Nat
      BY <1>1, <2>2
    <3>2. q = [left |-> q.left, ahead |-> q.ahead, level |-> q.level, traded |-> q.traded]
      BY DEF Queue
    <3>3. r = after
      BY <2>3, <3>2
    <3>4. QED
      BY <1>1, <2>4, <3>1, <3>3 DEF Queue
  <2>6. QED
    BY <1>4, <2>1, <2>2, <2>5 DEF f, r, used
<1>5. CASE ~(AtLevel(side, price, tick) /\ ~m.throughOnly)
  <2>1. f = IF Through(side, price, tick) THEN q.left ELSE 0
    BY <1>5 DEF FilledByPrint
  <2>2. f \in Nat /\ f <= q.left
    BY <1>1, <2>1
  <2> HIDE DEF f
  <2>3. r = [q EXCEPT !.left = @ - f]
    BY <1>5 DEF QueueAfterPrint, f
  <2>4. r.left = q.left - f /\ r.ahead = q.ahead /\ r \in Queue
    BY <1>1, <2>2, <2>3 DEF Queue
  <2>5. QED
    BY <1>5, <2>1, <2>2, <2>4 DEF f
<1>6. QED
  BY <1>4, <1>5

\* What a book that does not cross does to one order of one model.
LEMMA BookMovesQueue ==
    ASSUME NEW m \in QueueModel, NEW q \in Queue, NEW size \in Nat
    PROVE  LET r == QueueAfterBook(m, q, size)
           IN  /\ r \in Queue /\ r.left = q.left
               /\ r.ahead <= q.ahead /\ r.ahead <= size
               /\ m.cancel[1] = 0 => r.ahead = MinOf(q.ahead, size)
<1> DEFINE expected == MaxOf(0, q.level - q.traded)
           gone == IF size < expected THEN Share(m.cancel, expected - size) ELSE 0
           r == QueueAfterBook(m, q, size)
<1>1. q.left \in Nat /\ q.ahead \in Nat /\ q.level \in Nat /\ q.traded \in Nat
  BY DEF Queue
<1>2. expected \in Nat
  BY <1>1 DEF MaxOf
<1>3. m.cancel \in Nat \X (Nat \ {0})
  BY DEF QueueModel
<1>4. gone \in Nat /\ (m.cancel[1] = 0 => gone = 0)
  <2> HIDE DEF expected
  <2>1. CASE size < expected
    <3>1. expected - size \in Nat
      BY <1>2, <2>1
    <3>2. QED
      BY <1>3, <2>1, <3>1, ShareType
  <2>2. QED
    BY <2>1
<1>5. r = [q EXCEPT !.ahead = MaxOf(0, MinOf(q.ahead - gone, size)), !.level = size, !.traded = 0]
  BY DEF QueueAfterBook
<1> HIDE DEF gone, expected, r
<1> DEFINE ahead == MaxOf(0, MinOf(q.ahead - gone, size))
<1>6. /\ ahead \in Nat /\ ahead <= q.ahead /\ ahead <= size
      /\ m.cancel[1] = 0 => ahead = MinOf(q.ahead, size)
  BY <1>1, <1>4 DEF MaxOf, MinOf
<1> HIDE DEF ahead
<1>7. /\ r.ahead = ahead /\ r.left = q.left /\ r \in Queue
  BY <1>1, <1>5, <1>6 DEF Queue, ahead
<1>8. QED
  BY <1>6, <1>7 DEF r

=============================================================================
