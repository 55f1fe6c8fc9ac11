---------------------------- MODULE ArbitrageProofs ----------------------------
(***************************************************************************)
(* Theorems of the episode scanner, for any listing, any books and any     *)
(* number of batches: pricing only the relations a changed book touches    *)
(* finds what a detection from scratch would find.                         *)
(***************************************************************************)
EXTENDS Arbitrage, FillsProofs, FiniteSetTheorems

USE OrderBookAssumption

----------------------------------------------------------------------------
(* The order of the terms does not matter to a sum. *)

Injective(a) == \A i, j \in DOMAIN a : a[i] = a[j] => i = j
ValuesOf(a) == {a[i] : i \in DOMAIN a}

\* Exchanging two terms leaves a sum as it was.
LEMMA TotalOfExchanged ==
    ASSUME NEW n \in Nat, NEW f \in [1 .. n -> Int], NEW p \in 1 .. n, NEW q \in 1 .. n
    PROVE  Total([[f EXCEPT ![p] = f[q]] EXCEPT ![q] = f[p]], n) = Total(f, n)
<1> DEFINE g == [f EXCEPT ![p] = f[q]]
<1>1. g \in [1 .. n -> Int] /\ f[p] \in Int /\ f[q] \in Int
  OBVIOUS
<1>2. Total(g, n) = Total(f, n) - f[p] + f[q]
  BY <1>1, TotalUpdate
<1>3. Total([g EXCEPT ![q] = f[p]], n) = Total(g, n) - g[q] + f[p]
  <2> HIDE DEF g
  <2>1. QED
    BY <1>1, TotalUpdate
<1>4. g[q] = f[q]
  OBVIOUS
<1>5. Total(f, n) \in Int /\ Total(g, n) \in Int
  BY <1>1, TotalType
<1>6. Total([g EXCEPT ![q] = f[p]], n) = Total(f, n)
  <2> HIDE DEF g
  <2>1. QED
    BY <1>1, <1>2, <1>3, <1>4, <1>5
<1>7. QED
  BY <1>6

\* Without its last term a function without repetitions takes every other value.
LEMMA FrontValues ==
    ASSUME NEW S, NEW n \in Nat, NEW a \in [1 .. n + 1 -> S], Injective(a)
    PROVE  /\ [i \in 1 .. n |-> a[i]] \in [1 .. n -> S]
           /\ Injective([i \in 1 .. n |-> a[i]])
           /\ ValuesOf([i \in 1 .. n |-> a[i]]) = ValuesOf(a) \ {a[n+1]}
<1> DEFINE b == [i \in 1 .. n |-> a[i]]
<1>1. 1 .. n \subseteq 1 .. n + 1 /\ n + 1 \in 1 .. n + 1 /\ n + 1 \notin 1 .. n
      /\ \A i \in 1 .. n + 1 : i = n + 1 \/ i \in 1 .. n
  OBVIOUS
<1>2. b \in [1 .. n -> S] /\ DOMAIN b = 1 .. n /\ DOMAIN a = 1 .. n + 1
      /\ \A i \in 1 .. n : b[i] = a[i]
  BY <1>1
<1> HIDE DEF b
<1>3. Injective(b)
  BY <1>1, <1>2 DEF Injective
<1>4. ValuesOf(b) = ValuesOf(a) \ {a[n+1]}
  BY <1>1, <1>2 DEF Injective, ValuesOf
<1>5. QED
  BY <1>2, <1>3, <1>4 DEF b

SumOf(w, a, n) == Total([i \in 1 .. n |-> w[a[i]]], n)

\* Two orders of the same terms.
LEMMA TotalOfPermuted ==
    ASSUME NEW S, NEW w \in [S -> Int], NEW n \in Nat, NEW m \in Nat,
           NEW a \in [1 .. n -> S], NEW b \in [1 .. m -> S],
           Injective(a), Injective(b), ValuesOf(a) = ValuesOf(b)
    PROVE  SumOf(w, a, n) = SumOf(w, b, m)
<1> DEFINE Same(k) == \A l \in Nat : \A c \in [1 .. k -> S], d \in [1 .. l -> S] :
                          (Injective(c) /\ Injective(d) /\ ValuesOf(c) = ValuesOf(d))
                              => SumOf(w, c, k) = SumOf(w, d, l)
           T == {k \in Nat : Same(k)}
<1>1. 0 \in T
  <2>1. SUFFICES ASSUME NEW l \in Nat, NEW c \in [1 .. 0 -> S], NEW d \in [1 .. l -> S],
                        ValuesOf(c) = ValuesOf(d)
                 PROVE  SumOf(w, c, 0) = SumOf(w, d, l)
    OBVIOUS
  <2>2. l = 0
    <3>1. ValuesOf(c) = {}
      BY DEF ValuesOf
    <3>2. DOMAIN d = {}
      BY <2>1, <3>1 DEF ValuesOf
    <3>3. DOMAIN d = 1 .. l /\ (l > 0 => 1 \in 1 .. l)
      OBVIOUS
    <3>4. 1 \notin 1 .. l
      BY <3>2, <3>3
    <3>5. QED
      BY <3>3, <3>4
  <2>3. SumOf(w, c, 0) = 0 /\ SumOf(w, d, 0) = 0
    <3>1. \A f : Total(f, 0) = 0
      BY TotalOfNone
    <3>2. QED
      BY <3>1, Zenon DEF SumOf
  <2>4. QED
    BY <2>2, <2>3
<1>2. ASSUME NEW k \in T PROVE k + 1 \in T
  <2>a. k \in Nat /\ Same(k) /\ k + 1 \in Nat
    <3> HIDE DEF Same
    <3>1. QED
      BY <1>2
  <2>1. SUFFICES ASSUME NEW l \in Nat, NEW c \in [1 .. k + 1 -> S], NEW d \in [1 .. l -> S],
                        Injective(c), Injective(d), ValuesOf(c) = ValuesOf(d)
                 PROVE  SumOf(w, c, k + 1) = SumOf(w, d, l)
    BY <2>a
  <2>2. k + 1 \in 1 .. k + 1 /\ c[k+1] \in S
    BY <2>a
  <2>3. PICK p \in 1 .. l : d[p] = c[k+1]
    BY <2>1, <2>2 DEF ValuesOf
  <2>4. l - 1 \in Nat /\ l \in 1 .. l /\ (l - 1) + 1 = l
    OBVIOUS
  <2> DEFINE e == [i \in 1 .. l |-> IF i = p THEN d[l] ELSE IF i = l THEN d[p] ELSE d[i]]
             cf == [i \in 1 .. k |-> c[i]]
             ef == [i \in 1 .. l - 1 |-> e[i]]
             fd == [i \in 1 .. l |-> w[d[i]]]
             fe == [i \in 1 .. l |-> w[e[i]]]
             fc == [i \in 1 .. k + 1 |-> w[c[i]]]
  <2>5. e \in [1 .. l -> S] /\ e[l] = c[k+1] /\ Injective(e) /\ ValuesOf(e) = ValuesOf(d)
    <3>1. e \in [1 .. l -> S] /\ DOMAIN e = 1 .. l /\ DOMAIN d = 1 .. l /\ e[l] = d[p]
      BY <2>3, <2>4
    <3>2. \A i \in 1 .. l : e[i] = IF i = p THEN d[l] ELSE IF i = l THEN d[p] ELSE d[i]
      OBVIOUS
    <3> HIDE DEF e
    <3>3. Injective(e)
      BY <2>1, <2>3, <2>4, <3>1, <3>2 DEF Injective
    <3>4. ValuesOf(e) = ValuesOf(d)
      <4>1. ASSUME NEW i \in 1 .. l PROVE \E j \in 1 .. l : e[j] = d[i]
        <5>1. CASE i = p
          BY <2>4, <3>1, <5>1
        <5>2. CASE i = l
          BY <2>3, <3>2, <5>2
        <5>3. CASE i # p /\ i # l
          BY <3>2, <5>3
        <5>4. QED
          BY <5>1, <5>2, <5>3
      <4>2. ASSUME NEW i \in 1 .. l PROVE \E j \in 1 .. l : d[j] = e[i]
        BY <2>3, <2>4, <3>2
      <4>3. QED
        BY <3>1, <4>1, <4>2 DEF ValuesOf
    <3>5. QED
      BY <2>3, <3>1, <3>3, <3>4
  <2>6. Total(fe, l) = Total(fd, l)
    <3>1. fd \in [1 .. l -> Int]
      OBVIOUS
    <3>2. fe = [[fd EXCEPT ![p] = fd[l]] EXCEPT ![l] = fd[p]]
      BY <2>4
    <3> HIDE DEF fd, fe
    <3>3. QED
      BY <2>4, <3>1, <3>2, TotalOfExchanged
  <2> HIDE DEF e
  <2>7. SumOf(w, cf, k) = SumOf(w, ef, l - 1)
    <3>1. cf \in [1 .. k -> S] /\ Injective(cf) /\ ValuesOf(cf) = ValuesOf(c) \ {c[k+1]}
      <4> HIDE DEF cf
      <4>1. \A u \in [1 .. k + 1 -> S] : Injective(u) =>
                /\ [i \in 1 .. k |-> u[i]] \in [1 .. k -> S]
                /\ Injective([i \in 1 .. k |-> u[i]])
                /\ ValuesOf([i \in 1 .. k |-> u[i]]) = ValuesOf(u) \ {u[k+1]}
        <5> HIDE DEF Same
        <5>1. QED
          BY <2>a, FrontValues
      <4>2. QED
        BY <2>1, <4>1 DEF cf
    <3>2. ef \in [1 .. l - 1 -> S] /\ Injective(ef) /\ ValuesOf(ef) = ValuesOf(e) \ {e[l]}
      <4> HIDE DEF ef
      <4>1. \A u \in [1 .. (l - 1) + 1 -> S] : Injective(u) =>
                /\ [i \in 1 .. l - 1 |-> u[i]] \in [1 .. l - 1 -> S]
                /\ Injective([i \in 1 .. l - 1 |-> u[i]])
                /\ ValuesOf([i \in 1 .. l - 1 |-> u[i]]) = ValuesOf(u) \ {u[(l - 1) + 1]}
        BY <2>4, FrontValues
      <4>2. QED
        BY <2>4, <2>5, <4>1 DEF ef
    <3> HIDE DEF cf, ef
    <3>3. ValuesOf(cf) = ValuesOf(ef)
      BY <2>1, <2>5, <3>1, <3>2
    <3>4. QED
      BY <2>a, <2>4, <3>1, <3>2, <3>3
  <2>8. SumOf(w, cf, k) = Total(fc, k)
    <3>1. \A i \in 1 .. k : fc[i] \in Int /\ [j \in 1 .. k |-> w[cf[j]]][i] = fc[i]
      BY <2>a
    <3> HIDE DEF fc, cf
    <3>2. QED
      BY <2>a, <3>1, TotalOfEqualTerms DEF SumOf
  <2>9. SumOf(w, ef, l - 1) = Total(fe, l - 1)
    <3>1. \A i \in 1 .. l - 1 : fe[i] \in Int /\ [j \in 1 .. l - 1 |-> w[ef[j]]][i] = fe[i]
      BY <2>4, <2>5
    <3> HIDE DEF fe, ef
    <3>2. QED
      BY <2>4, <3>1, TotalOfEqualTerms DEF SumOf
  <2>10. Total(fc, k + 1) = Total(fc, k) + w[c[k+1]]
    <3>1. \A i \in 1 .. k + 1 : fc[i] \in Int
      BY <2>a
    <3>2. fc[k+1] = w[c[k+1]]
      BY <2>2
    <3> HIDE DEF fc
    <3>3. QED
      BY <2>a, <3>1, <3>2, TotalSteps
  <2>11. Total(fe, l) = Total(fe, l - 1) + w[c[k+1]]
    <3>1. \A i \in 1 .. (l - 1) + 1 : fe[i] \in Int
      BY <2>4, <2>5
    <3>2. fe[l] = w[c[k+1]]
      BY <2>4, <2>5
    <3> HIDE DEF fe
    <3>3. Total(fe, (l - 1) + 1) = Total(fe, l - 1) + fe[(l - 1) + 1]
      BY <2>4, <3>1, TotalSteps
    <3>4. QED
      BY <2>4, <3>2, <3>3
  <2>12. SumOf(w, c, k + 1) = Total(fc, k + 1) /\ SumOf(w, d, l) = Total(fd, l)
    BY DEF SumOf
  <2> HIDE DEF fc, fe, fd, cf, ef
  <2>13. QED
    BY <2>6, <2>7, <2>8, <2>9, <2>10, <2>11, <2>12
<1>3. T = Nat
  <2> HIDE DEF T
  <2>1. T \subseteq Nat
    BY DEF T
  <2>2. QED
    BY <1>1, <1>2, <2>1, SetInduction
<1>4. QED
  BY <1>3

----------------------------------------------------------------------------
(* The legs of a relation's constraints: no leg twice, only its markets. *)

SoundLegs(legs, markets) ==
    /\ legs \in Seq(Leg) /\ Injective(legs)
    /\ \A i \in DOMAIN legs : \E j \in DOMAIN markets : legs[i].ticker = markets[j]

SoundBundle(con, markets) == SoundLegs(con.legs, markets) /\ con.bound \in Int

LEMMA LegsAre ==
    ASSUME NEW t \in Ticker
    PROVE  /\ Yes(t) \in Leg /\ No(t) \in Leg
           /\ Yes(t).ticker = t /\ No(t).ticker = t
           /\ Yes(t).side = "YES" /\ No(t).side = "NO"
BY DEF Yes, No, Leg, Side

\* A leg of one side in each market.
LEMMA EachIsSound ==
    ASSUME NEW m \in Seq(Ticker), Distinct(m)
    PROVE  /\ SoundLegs(Each(Yes, m), m) /\ Len(Each(Yes, m)) = Len(m)
           /\ SoundLegs(Each(No, m), m) /\ Len(Each(No, m)) = Len(m)
           /\ \A i \in 1 .. Len(m) : Each(Yes, m)[i].side = "YES" /\ Each(No, m)[i].side = "NO"
<1> DEFINE y == [i \in DOMAIN m |-> Yes(m[i])]
           n == [i \in DOMAIN m |-> No(m[i])]
<1>1. Each(Yes, m) = y /\ Each(No, m) = n
  BY DEF Each
<1>2. DOMAIN m = 1 .. Len(m) /\ Len(m) \in Nat /\ \A i \in 1 .. Len(m) : m[i] \in Ticker
  OBVIOUS
<1>3. \A i \in 1 .. Len(m) :
          /\ y[i] \in Leg /\ y[i].ticker = m[i] /\ y[i].side = "YES"
          /\ n[i] \in Leg /\ n[i].ticker = m[i] /\ n[i].side = "NO"
  BY <1>2, LegsAre
<1>4. y \in [1 .. Len(m) -> Leg] /\ n \in [1 .. Len(m) -> Leg]
  BY <1>2, <1>3
<1> HIDE DEF y, n
<1>5. y \in Seq(Leg) /\ n \in Seq(Leg) /\ Len(y) = Len(m) /\ Len(n) = Len(m)
  BY <1>2, <1>4
<1>6. Injective(y) /\ Injective(n)
  BY <1>2, <1>3, <1>4 DEF Injective, Distinct
<1>7. QED
  BY <1>1, <1>2, <1>3, <1>4, <1>5, <1>6 DEF SoundLegs

\* Two legs of different sides.
LEMMA PairIsSound ==
    ASSUME NEW m \in Seq(Ticker), NEW i \in DOMAIN m, NEW j \in DOMAIN m
    PROVE  SoundLegs(<<Yes(m[i]), No(m[j])>>, m)
<1> DEFINE legs == <<Yes(m[i]), No(m[j])>>
<1>1. m[i] \in Ticker /\ m[j] \in Ticker
  OBVIOUS
<1>2. /\ Yes(m[i]) \in Leg /\ Yes(m[i]).ticker = m[i] /\ Yes(m[i]).side = "YES"
      /\ No(m[j]) \in Leg /\ No(m[j]).ticker = m[j] /\ No(m[j]).side = "NO"
  BY <1>1, LegsAre
<1>3. legs \in Seq(Leg) /\ DOMAIN legs = {1, 2} /\ legs[1] = Yes(m[i]) /\ legs[2] = No(m[j])
  BY <1>2
<1> HIDE DEF legs
<1>4. Injective(legs)
  BY <1>2, <1>3 DEF Injective
<1>5. QED
  BY <1>2, <1>3, <1>4 DEF SoundLegs, legs

\* One leg, and one of the other side in each part.
LEMMA LedIsSound ==
    ASSUME NEW m \in Seq(Ticker), NEW w \in DOMAIN m, NEW parts \in Seq(Ticker),
           \A i \in DOMAIN parts : \E j \in DOMAIN m : parts[i] = m[j],
           NEW head \in Leg, head.ticker = m[w],
           NEW each \in Seq(Leg), SoundLegs(each, parts),
           \A i \in DOMAIN each : each[i].side # head.side
    PROVE  SoundLegs(<<head>> \o each, m)
<1> DEFINE legs == <<head>> \o each
<1>1. each \in Seq(Leg) /\ Len(each) \in Nat /\ DOMAIN each = 1 .. Len(each)
  OBVIOUS
<1>2. /\ legs \in Seq(Leg) /\ Len(legs) = Len(each) + 1 /\ DOMAIN legs = 1 .. Len(each) + 1
      /\ legs[1] = head /\ \A i \in 2 .. Len(each) + 1 : legs[i] = each[i-1]
  BY <1>1
<1> HIDE DEF legs
<1>3. \A i \in DOMAIN legs : i = 1 \/ (i \in 2 .. Len(each) + 1 /\ i - 1 \in DOMAIN each)
  BY <1>1, <1>2
<1>4. ASSUME NEW i \in DOMAIN legs, NEW j \in DOMAIN legs, legs[i] = legs[j] PROVE i = j
  <2>1. i \in Int /\ j \in Int
    BY <1>2
  <2>2. CASE i = 1
    BY <1>2, <1>3, <1>4, <2>2
  <2>3. CASE j = 1
    BY <1>2, <1>3, <1>4, <2>3
  <2>4. CASE i # 1 /\ j # 1
    <3>1. i - 1 \in DOMAIN each /\ j - 1 \in DOMAIN each /\ each[i-1] = each[j-1]
      BY <1>2, <1>3, <1>4, <2>4
    <3>2. i - 1 = j - 1
      BY <3>1 DEF SoundLegs, Injective
    <3>3. QED
      BY <2>1, <3>2
  <2>5. QED
    BY <2>2, <2>3, <2>4
<1>5. ASSUME NEW i \in DOMAIN legs PROVE \E j \in DOMAIN m : legs[i].ticker = m[j]
  <2>1. CASE i = 1
    BY <1>2, <2>1
  <2>2. CASE i # 1
    <3>1. i - 1 \in DOMAIN each /\ legs[i] = each[i-1]
      BY <1>2, <1>3, <2>2
    <3>2. PICK j \in DOMAIN parts : each[i-1].ticker = parts[j]
      BY <3>1 DEF SoundLegs
    <3>3. QED
      BY <3>1, <3>2
  <2>3. QED
    BY <2>1, <2>2
<1>6. QED
  BY <1>2, <1>4, <1>5 DEF SoundLegs, Injective, legs

LEMMA ConstraintsAreSound ==
    ASSUME NEW rel, WellFormed(rel), NEW c \in Constraints(rel)
    PROVE  SoundBundle(c, rel.markets)
<1> DEFINE m == rel.markets
           parts == Parts(rel)
<1>1. m \in Seq(Ticker) /\ Distinct(m) /\ rel.kind \in Kinds
  BY DEF WellFormed
<1>2. Len(m) \in Nat /\ DOMAIN m = 1 .. Len(m) /\ PriceScale \in Int
  BY <1>1
<1>3. rel.kind \in {"complement", "mutually_exclusive", "exhaustive", "partition", "implies", "chain",
                    "union"}
  BY <1>1 DEF Kinds
<1>4. ASSUME NEW kind, NEW legs, NEW bound \in Int, SoundLegs(legs, m)
      PROVE  SoundBundle(ConstraintOf(kind, legs, bound), m)
  BY <1>2, <1>4 DEF ConstraintOf, SoundBundle
<1>5. Len(m) - 1 \in Int /\ 1 \in Int
  BY <1>2
<1>6. SoundBundle(MutexBundle(m), m) /\ SoundBundle(CoverBundle(m), m)
  <2> HIDE DEF m
  <2>1. SoundLegs(Each(No, m), m) /\ SoundLegs(Each(Yes, m), m)
    BY <1>1, EachIsSound
  <2>2. QED
    BY <1>4, <1>5, <2>1 DEF MutexBundle, CoverBundle
<1>7. \A i, j \in DOMAIN m : SoundBundle(ImpliesBundle(m[i], m[j]), m)
  <2> HIDE DEF m
  <2>1. \A i, j \in DOMAIN m : SoundLegs(<<Yes(m[j]), No(m[i])>>, m)
    BY <1>1, PairIsSound
  <2>2. QED
    BY <1>4, <1>5, <2>1 DEF ImpliesBundle
<1>8. CASE rel.kind = "complement"
  <2>1. Len(m) >= 1
    BY <1>8 DEF WellFormed
  <2>2. 1 \in DOMAIN m
    BY <1>2, <2>1
  <2>3. SoundLegs(<<Yes(m[1]), No(m[1])>>, m)
    <3> HIDE DEF m
    <3>1. QED
      BY <1>1, <2>2, PairIsSound
  <2>4. c = ComplementBundle(rel)
    BY <1>8 DEF Constraints
  <2>5. QED
    BY <1>4, <1>5, <2>3, <2>4 DEF ComplementBundle
<1>9. CASE rel.kind \in {"mutually_exclusive", "exhaustive", "partition"}
  <2>1. c \in {MutexBundle(m), CoverBundle(m)}
    BY <1>9 DEF Constraints
  <2>2. QED
    BY <1>6, <2>1
<1>10. CASE rel.kind = "implies"
  <2>1. 1 \in DOMAIN m /\ 2 \in DOMAIN m
    <3>1. Len(m) >= 2
      BY <1>10 DEF WellFormed
    <3>2. QED
      BY <1>2, <3>1
  <2>2. c = ImpliesBundle(m[1], m[2])
    BY <1>10 DEF Constraints
  <2>3. QED
    BY <1>7, <2>1, <2>2
<1>11. CASE rel.kind = "chain"
  <2>1. PICK p \in ChainPairs(m) : c = ImpliesBundle(m[p[1]], m[p[2]])
    BY <1>11 DEF Constraints
  <2>2. p[1] \in DOMAIN m /\ p[2] \in DOMAIN m
    BY DEF ChainPairs
  <2>3. QED
    BY <1>7, <2>1, <2>2
<1>12. CASE rel.kind = "union"
  <2>1. Len(m) >= 3
    BY <1>12 DEF WellFormed
  <2>2. /\ parts \in Seq(Ticker) /\ Len(parts) = Len(m) - 1
        /\ \A i \in 1 .. Len(m) - 1 : parts[i] = m[i]
    <3>1. parts = SubSeq(m, 1, Len(m) - 1)
      BY DEF Parts
    <3> HIDE DEF parts, m
    <3>2. QED
      BY <1>1, <1>2, <2>1, <3>1
  <2>3. Len(m) \in DOMAIN m /\ Whole(rel) = m[Len(m)] /\ Whole(rel) \in Ticker
    BY <1>1, <1>2, <2>1 DEF Whole
  <2> DEFINE w == Whole(rel)
  <2>4. c \in {UnionCover(rel), UnionSum(rel), MutexBundle(parts)}
    BY <1>12 DEF Constraints
  <2> HIDE DEF parts, m, w
  <2>5. Distinct(parts) /\ \A i \in DOMAIN parts : \E j \in DOMAIN m : parts[i] = m[j]
    BY <1>1, <1>2, <2>1, <2>2 DEF Distinct
  <2>6. /\ SoundLegs(Each(Yes, parts), parts) /\ Each(Yes, parts) \in Seq(Leg)
        /\ SoundLegs(Each(No, parts), parts) /\ Each(No, parts) \in Seq(Leg)
        /\ \A i \in DOMAIN Each(Yes, parts) : Each(Yes, parts)[i].side = "YES"
        /\ \A i \in DOMAIN Each(No, parts) : Each(No, parts)[i].side = "NO"
    <3>1. /\ SoundLegs(Each(Yes, parts), parts) /\ Len(Each(Yes, parts)) = Len(parts)
          /\ SoundLegs(Each(No, parts), parts) /\ Len(Each(No, parts)) = Len(parts)
          /\ \A i \in 1 .. Len(parts) :
                 Each(Yes, parts)[i].side = "YES" /\ Each(No, parts)[i].side = "NO"
      BY <2>2, <2>5, EachIsSound
    <3>2. Each(Yes, parts) \in Seq(Leg) /\ Each(No, parts) \in Seq(Leg)
      BY <3>1 DEF SoundLegs
    <3>3. DOMAIN Each(Yes, parts) = 1 .. Len(parts) /\ DOMAIN Each(No, parts) = 1 .. Len(parts)
      BY <3>1, <3>2
    <3>4. QED
      BY <3>1, <3>2, <3>3
  <2>7. SoundLegs(<<No(w)>> \o Each(Yes, parts), m) /\ SoundLegs(<<Yes(w)>> \o Each(No, parts), m)
    <3>1. /\ No(w) \in Leg /\ No(w).ticker = m[Len(m)] /\ No(w).side = "NO"
          /\ Yes(w) \in Leg /\ Yes(w).ticker = m[Len(m)] /\ Yes(w).side = "YES"
      BY <2>3, LegsAre DEF w
    <3>2. SoundLegs(<<No(w)>> \o Each(Yes, parts), m)
      <4>1. \A i \in DOMAIN Each(Yes, parts) : Each(Yes, parts)[i].side # No(w).side
        BY <2>6, <3>1
      <4>2. QED
        BY <1>1, <2>2, <2>3, <2>5, <2>6, <3>1, <4>1, LedIsSound
    <3>3. SoundLegs(<<Yes(w)>> \o Each(No, parts), m)
      <4>1. \A i \in DOMAIN Each(No, parts) : Each(No, parts)[i].side # Yes(w).side
        BY <2>6, <3>1
      <4>2. QED
        BY <1>1, <2>2, <2>3, <2>5, <2>6, <3>1, <4>1, LedIsSound
    <3>4. QED
      BY <3>2, <3>3
  <2>8. SoundLegs(Each(No, parts), m)
    BY <2>5, <2>6 DEF SoundLegs
  <2>9. Len(parts) \in Int /\ Len(parts) - 1 \in Int
    BY <2>2
  <2>10. SoundBundle(UnionCover(rel), m)
    BY <1>4, <1>5, <2>7 DEF UnionCover, parts, w
  <2>11. SoundBundle(UnionSum(rel), m)
    BY <1>4, <2>7, <2>9 DEF UnionSum, parts, w
  <2>12. SoundBundle(MutexBundle(parts), m)
    BY <1>4, <2>8, <2>9 DEF MutexBundle
  <2>13. QED
    BY <2>4, <2>10, <2>11, <2>12 DEF m
<1>13. QED
  BY <1>3, <1>8, <1>9, <1>10, <1>11, <1>12

----------------------------------------------------------------------------
(* Prices. *)

\* Of numbers that do not lie beyond a bound there is a greatest.
LEMMA GreatestExists ==
    ASSUME NEW bound \in Nat, NEW ids, ids \subseteq 0 .. bound, ids # {}
    PROVE  \E x \in ids : \A y \in ids : y <= x
<1> DEFINE T == {bound - i : i \in ids}
<1>1. T \subseteq Nat /\ T # {}
  <2>1. \A i \in ids : bound - i \in Nat
    OBVIOUS
  <2>2. QED
    BY <2>1
<1>2. PICK t \in T : \A u \in T : t <= u
  <2> HIDE DEF T
  <2>1. QED
    BY <1>1, LeastExists
<1>3. PICK x \in ids : t = bound - x
  OBVIOUS
<1>4. ASSUME NEW y \in ids PROVE y <= x
  <2>1. bound - x <= bound - y
    BY <1>2, <1>3
  <2>2. x \in Int /\ y \in Int
    OBVIOUS
  <2>3. QED
    BY <2>1, <2>2
<1>5. QED
  BY <1>4

\* An offer has a price between nothing and a dollar.
LEMMA AskIsPrice ==
    ASSUME NEW leg, NEW seen, HasOffer(leg, seen)
    PROVE  Ask(leg, seen) \in Nat /\ Ask(leg, seen) < PriceScale
<1> DEFINE bids == BidPrices(seen[leg.ticker], Opposite(leg.side))
           best == BestBid(seen[leg.ticker], Opposite(leg.side))
<1>1. bids \subseteq 0 .. PriceScale /\ bids # {} /\ \A p \in bids : 0 < p /\ p < PriceScale
  <2>1. \A p \in bids : p \in Int /\ 0 < p /\ p < PriceScale
    BY DEF BidPrices, Price, CheckPrice
  <2>2. bids # {}
    BY DEF HasOffer, HasBid
  <2> HIDE DEF bids
  <2>3. QED
    BY <2>1, <2>2
<1>2. PriceScale \in Nat /\ Ask(leg, seen) = PriceScale - best
  BY DEF Ask, BestAsk, Complement
<1>3. best = CHOOSE p \in bids : \A q \in bids : q <= p
  BY DEF BestBid
<1> HIDE DEF bids, best
<1>4. \E p \in bids : \A q \in bids : q <= p
  BY <1>1, <1>2, GreatestExists
<1>5. best \in bids
  BY <1>3, <1>4
<1>6. QED
  BY <1>1, <1>2, <1>5

\* Whether a bundle is violated depends on the books of its legs alone.
LEMMA ViolatedByBooks ==
    ASSUME NEW con, NEW seen, NEW later,
           \A t \in LegTickers(con) :
               (t \in DOMAIN seen <=> t \in DOMAIN later) /\ seen[t] = later[t]
    PROVE  Violated(con, seen) <=> Violated(con, later)
<1>1. \A i \in DOMAIN con.legs :
          /\ HasOffer(con.legs[i], seen) <=> HasOffer(con.legs[i], later)
          /\ Ask(con.legs[i], seen) = Ask(con.legs[i], later)
  BY DEF LegTickers, HasOffer, Ask
<1>2. Priceable(con, seen) <=> Priceable(con, later)
  BY <1>1 DEF Priceable
<1>3. Cost(con, seen) = Cost(con, later)
  <2>1. [i \in DOMAIN con.legs |-> con.legs[i].qty * Ask(con.legs[i], seen)]
            = [i \in DOMAIN con.legs |-> con.legs[i].qty * Ask(con.legs[i], later)]
    BY <1>1
  <2>2. QED
    BY <2>1 DEF Cost
<1>4. QED
  BY <1>2, <1>3 DEF Violated, Margin

\* A bundle costs the sum of what its legs cost, in whatever order they are listed.
LEMMA CostIsSum ==
    ASSUME NEW con, NEW seen, con.legs \in Seq(Leg), Priceable(con, seen),
           NEW legs, legs = ValuesOf(con.legs)
    PROVE  /\ [l \in legs |-> Ask(l, seen)] \in [legs -> Int]
           /\ con.legs \in [1 .. Len(con.legs) -> legs]
           /\ Cost(con, seen) = SumOf([l \in legs |-> Ask(l, seen)], con.legs, Len(con.legs))
<1> DEFINE n == Len(con.legs)
           w == [l \in legs |-> Ask(l, seen)]
           f == [i \in DOMAIN con.legs |-> con.legs[i].qty * Ask(con.legs[i], seen)]
           g == [i \in 1 .. n |-> w[con.legs[i]]]
<1>1. n \in Nat /\ DOMAIN con.legs = 1 .. n /\ \A i \in 1 .. n : con.legs[i].qty = 1
  <2>1. n \in Nat /\ DOMAIN con.legs = 1 .. n
    OBVIOUS
  <2>2. \A i \in 1 .. n : con.legs[i] \in Leg
    BY <2>1
  <2>3. \A l \in Leg : l.qty = 1
    BY DEF Leg
  <2>4. QED
    BY <2>1, <2>2, <2>3
<1>2. con.legs \in [1 .. n -> legs]
  BY <1>1 DEF ValuesOf
<1>3. \A i \in 1 .. n : Ask(con.legs[i], seen) \in Int /\ con.legs[i] \in legs
  BY <1>1, <1>2, AskIsPrice DEF Priceable
<1>4. w \in [legs -> Int]
  BY <1>1, <1>3 DEF ValuesOf
<1>5. \A i \in 1 .. n : f[i] \in Int /\ g[i] = f[i]
  BY <1>1, <1>3
<1>6. Cost(con, seen) = Total(f, n) /\ SumOf(w, con.legs, n) = Total(g, n)
  BY DEF Cost, SumOf
<1> HIDE DEF f, g, w, n
<1>7. Total(g, n) = Total(f, n)
  BY <1>1, <1>5, TotalOfEqualTerms
<1>8. QED
  BY <1>2, <1>4, <1>6, <1>7 DEF w, n

\* Bundles of one trade are violated together.
LEMMA ViolatedByTrade ==
    ASSUME NEW con, NEW markets, SoundBundle(con, markets),
           NEW other, NEW elsewhere, SoundBundle(other, elsewhere),
           TradeKey(con) = TradeKey(other), NEW seen, Violated(con, seen)
    PROVE  Violated(other, seen)
<1> DEFINE legs == ValuesOf(con.legs)
<1>1. ValuesOf(other.legs) = legs /\ con.bound = other.bound
  BY DEF TradeKey, ValuesOf
<1>2. Priceable(con, seen) /\ Margin(con, seen) > 0
  BY DEF Violated
<1>3. Priceable(other, seen)
  <2>1. ASSUME NEW i \in DOMAIN other.legs PROVE HasOffer(other.legs[i], seen)
    <3>1. other.legs[i] \in ValuesOf(other.legs)
      BY DEF ValuesOf
    <3>2. PICK j \in DOMAIN con.legs : con.legs[j] = other.legs[i]
      BY <1>1, <3>1 DEF ValuesOf
    <3>3. QED
      BY <1>2, <3>2 DEF Priceable
  <2>2. QED
    BY <2>1 DEF Priceable
<1>4. /\ con.legs \in Seq(Leg) /\ Injective(con.legs)
      /\ other.legs \in Seq(Leg) /\ Injective(other.legs)
  BY DEF SoundBundle, SoundLegs
<1> DEFINE w == [l \in legs |-> Ask(l, seen)]
<1>5. /\ w \in [legs -> Int]
      /\ con.legs \in [1 .. Len(con.legs) -> legs]
      /\ Cost(con, seen) = SumOf(w, con.legs, Len(con.legs))
  BY <1>2, <1>4, CostIsSum
<1>6. /\ other.legs \in [1 .. Len(other.legs) -> legs]
      /\ Cost(other, seen) = SumOf(w, other.legs, Len(other.legs))
  BY <1>1, <1>3, <1>4, CostIsSum
<1>7. ValuesOf(con.legs) = ValuesOf(other.legs)
  BY <1>1
<1>8. Len(con.legs) \in Nat /\ Len(other.legs) \in Nat
  BY <1>4
<1> HIDE DEF w, legs
<1>9. SumOf(w, con.legs, Len(con.legs)) = SumOf(w, other.legs, Len(other.legs))
  <2> DEFINE n == Len(con.legs)
             k == Len(other.legs)
             a == con.legs
             b == other.legs
  <2>1. /\ w \in [legs -> Int] /\ n \in Nat /\ k \in Nat
        /\ a \in [1 .. n -> legs] /\ b \in [1 .. k -> legs]
        /\ Injective(a) /\ Injective(b) /\ ValuesOf(a) = ValuesOf(b)
    BY <1>4, <1>5, <1>6, <1>7, <1>8
  <2> HIDE DEF n, k, a, b
  <2>2. SumOf(w, a, n) = SumOf(w, b, k)
    BY <2>1, TotalOfPermuted
  <2>3. QED
    BY <2>2 DEF n, k, a, b
<1>10. QED
  BY <1>1, <1>2, <1>3, <1>5, <1>6, <1>9 DEF Violated, Margin

----------------------------------------------------------------------------
(* Detection. *)

\* What a NO of one rung and a YES of a later one cost together.
LEMMA ImpliesCost ==
    ASSUME NEW a \in Ticker, NEW b \in Ticker, NEW seen, Violated(ImpliesBundle(a, b), seen)
    PROVE  /\ HasOffer(Yes(b), seen) /\ HasOffer(No(a), seen)
           /\ Ask(No(a), seen) + Ask(Yes(b), seen) < PriceScale
<1> DEFINE con == ImpliesBundle(a, b)
           f == [i \in DOMAIN con.legs |-> con.legs[i].qty * Ask(con.legs[i], seen)]
<1>1. con.legs = <<Yes(b), No(a)>> /\ con.bound = PriceScale /\ PriceScale \in Nat
  BY DEF ImpliesBundle, ConstraintOf
<1>2. /\ DOMAIN con.legs = {1, 2} /\ Len(con.legs) = 2
      /\ con.legs[1] = Yes(b) /\ con.legs[2] = No(a)
  BY <1>1
<1>3. Yes(b).qty = 1 /\ No(a).qty = 1
  BY DEF Yes, No
<1>4. HasOffer(Yes(b), seen) /\ HasOffer(No(a), seen)
  BY <1>2 DEF Violated, Priceable
<1>5. Ask(Yes(b), seen) \in Nat /\ Ask(No(a), seen) \in Nat
  BY <1>4, AskIsPrice
<1>6. Cost(con, seen) = Total(f, 2) /\ PriceScale - Cost(con, seen) > 0
  BY <1>1, <1>2 DEF Violated, Margin, Cost
<1>7. f[1] = Ask(Yes(b), seen) /\ f[2] = Ask(No(a), seen)
  BY <1>2, <1>3, <1>5
<1> HIDE DEF f, con
<1>8. Total(f, 0) = 0
  BY TotalOfNone
<1>9. Total(f, 0 + 1) = Total(f, 0) + f[0 + 1]
  <2>1. \A i \in 1 .. 0 + 1 : f[i] \in Int
    BY <1>5, <1>7
  <2>2. QED
    BY <2>1, TotalSteps
<1>10. Total(f, 1 + 1) = Total(f, 1) + f[1 + 1]
  <2>1. \A i \in 1 .. 1 + 1 : i = 1 \/ i = 2
    OBVIOUS
  <2>2. \A i \in 1 .. 1 + 1 : f[i] \in Int
    BY <1>5, <1>7, <2>1
  <2>3. QED
    BY <2>2, TotalSteps
<1>11. QED
  BY <1>1, <1>4, <1>5, <1>6, <1>7, <1>8, <1>9, <1>10

\* The pairs of a chain that the running minimum lets through are all that are violated.
LEMMA CandidatesComplete ==
    ASSUME NEW rel, WellFormed(rel), rel.kind = "chain", NEW seen
    PROVE  /\ Candidates(rel, seen) \subseteq Constraints(rel)
           /\ \A c \in Constraints(rel) : Violated(c, seen) => c \in Candidates(rel, seen)
<1> DEFINE m == rel.markets
           bundle(i, j) == Ask(No(m[i]), seen) + Ask(Yes(m[j]), seen)
           cheap(j)  == /\ HasOffer(Yes(m[j]), seen)
                        /\ NoAsksBefore(m, j, seen) # {}
                        /\ CheapestNo(m, j, seen) + Ask(Yes(m[j]), seen) < PriceScale
           passes(q) == /\ cheap(q[2])
                        /\ HasOffer(No(m[q[1]]), seen)
                        /\ bundle(q[1], q[2]) < PriceScale
<1>1. Candidates(rel, seen)
        = {ImpliesBundle(m[p[1]], m[p[2]]) : p \in {q \in ChainPairs(m) : passes(q)}}
  BY DEF Candidates
<1>2. Constraints(rel) = {ImpliesBundle(m[p[1]], m[p[2]]) : p \in ChainPairs(m)}
  BY DEF Constraints
<1> HIDE DEF passes
<1>3. Candidates(rel, seen) \subseteq Constraints(rel)
  BY <1>1, <1>2
<1>4. ASSUME NEW p \in ChainPairs(m), Violated(ImpliesBundle(m[p[1]], m[p[2]]), seen)
      PROVE  passes(p)
  <2> DEFINE i == p[1]
             j == p[2]
             asks == NoAsksBefore(m, j, seen)
             mine == Ask(No(m[i]), seen)
  <2>1. /\ i \in DOMAIN m /\ j \in DOMAIN m /\ i < j
    BY DEF ChainPairs
  <2>2. m \in Seq(Ticker) /\ DOMAIN m = 1 .. Len(m) /\ Len(m) \in Nat
    BY DEF WellFormed
  <2> HIDE DEF m
  <2>3. m[i] \in Ticker /\ m[j] \in Ticker /\ i \in 1 .. j - 1
    BY <2>1, <2>2
  <2> HIDE DEF i, j
  <2>4. /\ HasOffer(Yes(m[j]), seen) /\ HasOffer(No(m[i]), seen)
        /\ Ask(No(m[i]), seen) + Ask(Yes(m[j]), seen) < PriceScale
    <3>1. Violated(ImpliesBundle(m[i], m[j]), seen)
      BY <1>4 DEF i, j
    <3>2. QED
      BY <2>3, <3>1, ImpliesCost
  <2>5. mine \in asks
    BY <2>3, <2>4 DEF NoAsksBefore
  <2>6. asks \subseteq Nat
    BY AskIsPrice DEF NoAsksBefore
  <2>7. CheapestNo(m, j, seen) = CHOOSE n \in asks : \A k \in asks : n <= k
    BY DEF CheapestNo
  <2> HIDE DEF asks, mine
  <2>8. \E n \in asks : \A k \in asks : n <= k
    BY <2>5, <2>6, LeastExists
  <2>9. CheapestNo(m, j, seen) \in asks /\ CheapestNo(m, j, seen) <= mine
    BY <2>5, <2>7, <2>8
  <2>10. Ask(Yes(m[j]), seen) \in Nat /\ PriceScale \in Nat
    BY <2>4, AskIsPrice
  <2>11. CheapestNo(m, j, seen) + Ask(Yes(m[j]), seen) < PriceScale
    <3>1. CheapestNo(m, j, seen) \in Nat /\ mine \in Nat
      BY <2>5, <2>6, <2>9
    <3>2. mine + Ask(Yes(m[j]), seen) < PriceScale
      BY <2>4 DEF mine
    <3>3. \A x, y, z, t \in Nat : (x <= y /\ y + z < t) => x + z < t
      OBVIOUS
    <3>4. QED
      BY <2>9, <2>10, <3>1, <3>2, <3>3
  <2>12. QED
    BY <2>4, <2>5, <2>11 DEF passes, cheap, bundle, asks, i, j
<1>5. \A c \in Constraints(rel) : Violated(c, seen) => c \in Candidates(rel, seen)
  BY <1>1, <1>2, <1>4
<1>6. QED
  BY <1>3, <1>5

\* What is priced of a relation is among its constraints, and all that is violated.
LEMMA PricedIsComplete ==
    ASSUME NEW rel, WellFormed(rel), NEW seen
    PROVE  /\ ToPrice(rel, seen) \subseteq Constraints(rel)
           /\ \A c \in Constraints(rel) : Violated(c, seen) => c \in ToPrice(rel, seen)
<1>1. CASE rel.kind = "chain"
  BY <1>1, CandidatesComplete DEF ToPrice
<1>2. CASE rel.kind # "chain"
  BY <1>2 DEF ToPrice
<1>3. QED
  BY <1>1, <1>2

GoodSpec(s) == s.level \in UNVERIFIED .. PROVEN /\ WellFormed(s.relation)

(***************************************************************************)
(* detect finds each violated trade of the relations it is given, once,    *)
(* and nothing else.                                                       *)
(***************************************************************************)
LEMMA DetectedExactly ==
    ASSUME NEW affected, \A s \in affected : GoodSpec(s), NEW seen
    PROVE  /\ \A s \in affected : \A c \in Constraints(s.relation) :
                  Violated(c, seen) =>
                      \E f \in Detected(affected, seen, UNVERIFIED) : f.key = TradeKey(c)
           /\ \A f \in Detected(affected, seen, UNVERIFIED) : \E s \in affected :
                  /\ f.constraint \in Constraints(s.relation)
                  /\ Violated(f.constraint, seen)
                  /\ f.key = TradeKey(f.constraint)
<1> DEFINE found == Displayed(affected, seen, UNVERIFIED)
           at(s) == {d \in ToPrice(s.relation, seen) : Violated(d, seen)}
           sight(s, c) == [key |-> TradeKey(c), constraint |-> c, level |-> s.level]
           best(k) == CHOOSE f \in found : f.key = k /\ \A g \in found : g.key = k => g.level <= f.level
<1>1. \A s \in affected : s.level \in 0 .. 4 /\ s.level >= UNVERIFIED
  BY DEF GoodSpec, UNVERIFIED, PROVEN
<1>2. found = UNION {{sight(s, c) : c \in at(s)} : s \in {t \in affected : t.level >= UNVERIFIED}}
  BY DEF Displayed
<1>3. Detected(affected, seen, UNVERIFIED) = {best(k) : k \in {f.key : f \in found}}
  BY DEF Detected
<1> HIDE DEF found
<1>4. \A s \in affected : \A c \in at(s) : sight(s, c) \in found
  BY <1>1, <1>2
<1>5. \A f \in found : \E s \in affected : \E c \in at(s) : f = sight(s, c)
  BY <1>2
<1>6. \A f \in found : f.level \in 0 .. 4
  BY <1>1, <1>5
<1>7. \A k \in {f.key : f \in found} : best(k) \in found /\ best(k).key = k
  <2>1. SUFFICES ASSUME NEW k \in {f.key : f \in found}
                 PROVE  \E f \in found : f.key = k /\ \A g \in found : g.key = k => g.level <= f.level
    OBVIOUS
  <2> DEFINE levels == {f.level : f \in {g \in found : g.key = k}}
  <2>2. levels \subseteq 0 .. 4 /\ levels # {}
    BY <1>6
  <2>3. PICK x \in levels : \A y \in levels : y <= x
    <3> HIDE DEF levels
    <3>1. QED
      BY <2>2, GreatestExists
  <2>4. PICK f \in found : f.key = k /\ f.level = x
    OBVIOUS
  <2>5. \A g \in found : g.key = k => g.level <= f.level
    BY <2>3, <2>4
  <2>6. QED
    BY <2>4, <2>5
<1> HIDE DEF best
<1>8. ASSUME NEW s \in affected, NEW c \in Constraints(s.relation), Violated(c, seen)
      PROVE  \E f \in Detected(affected, seen, UNVERIFIED) : f.key = TradeKey(c)
  <2>1. c \in at(s)
    BY <1>8, PricedIsComplete DEF GoodSpec
  <2>2. sight(s, c) \in found /\ sight(s, c).key = TradeKey(c)
    BY <1>4, <2>1
  <2>3. best(TradeKey(c)) \in Detected(affected, seen, UNVERIFIED)
        /\ best(TradeKey(c)).key = TradeKey(c)
    BY <1>3, <1>7, <2>2
  <2>4. QED
    BY <2>3
<1>9. ASSUME NEW f \in Detected(affected, seen, UNVERIFIED)
      PROVE  \E s \in affected : /\ f.constraint \in Constraints(s.relation)
                                 /\ Violated(f.constraint, seen)
                                 /\ f.key = TradeKey(f.constraint)
  <2>1. f \in found
    BY <1>3, <1>7
  <2>2. PICK s \in affected : \E c \in at(s) : f = sight(s, c)
    BY <1>5, <2>1
  <2>3. PICK c \in at(s) : f = sight(s, c)
    BY <2>2
  <2>4. f.constraint = c /\ f.key = TradeKey(c)
    BY <2>3
  <2>5. c \in Constraints(s.relation) /\ Violated(c, seen)
    BY <2>3, PricedIsComplete DEF GoodSpec
  <2>6. QED
    BY <2>4, <2>5
<1>10. QED
  BY <1>8, <1>9

----------------------------------------------------------------------------
(* The episodes. *)

\* What an episode keeps from its first sighting to its end.
Kept == {"constraint", "first", "orders"}

\* An episode is kept under its trade, which some relation has.
EpisodesAreKeyed ==
    \A k \in DOMAIN open :
        /\ Kept \subseteq DOMAIN open[k] /\ TradeKey(open[k].constraint) = k
        /\ \E s \in specs : open[k].constraint \in Constraints(s.relation)

OpenInv ==
    /\ \A s \in specs : GoodSpec(s)
    /\ EpisodesAreKeyed
    /\ OpenIsExact

\* Bundles of one trade have their legs in the same markets.
LEMMA LegTickersOfTrade ==
    ASSUME NEW con, NEW other, TradeKey(con) = TradeKey(other)
    PROVE  LegTickers(con) = LegTickers(other)
<1>1. \A c : LegTickers(c) = {l.ticker : l \in TradeKey(c).legs}
  BY DEF LegTickers, TradeKey
<1>2. QED
  BY <1>1

\* A relation's constraints have their legs in its markets.
LEMMA LegTickersAreMembers ==
    ASSUME NEW s, GoodSpec(s), NEW c \in Constraints(s.relation)
    PROVE  LegTickers(c) \subseteq Members(s.relation)
<1>1. SoundBundle(c, s.relation.markets)
  BY ConstraintsAreSound DEF GoodSpec
<1>2. QED
  BY <1>1 DEF SoundBundle, SoundLegs, LegTickers, Members

\* It is the same episode.
SameAs(ep, other) ==
    /\ Kept \subseteq DOMAIN ep
    /\ ep.constraint = other.constraint /\ ep.first = other.first /\ ep.orders = other.orders

\* Seen again or confirmed, an episode is still about the same bundle.
LEMMA SeenAgainKeeps ==
    ASSUME NEW ep, Kept \subseteq DOMAIN ep, NEW seen, NEW ts
    PROVE  SameAs(SeenAgain(ep, seen, ts), ep)
BY DEF SeenAgain, SameAs, Kept

LEMMA ConfirmedKeeps ==
    ASSUME NEW eps, NEW batch, NEW ts, NEW k \in DOMAIN eps, Kept \subseteq DOMAIN eps[k]
    PROVE  SameAs(Confirmed(eps, batch, ts)[k], eps[k])
BY DEF Confirmed, SameAs, Kept

\* What a batch leaves open: what it kept, and what it found for the first time.
LEMMA OpenAfter ==
    ASSUME NEW batch, NEW ts, UpdateEpisodes(batch, ts),
           \A k \in DOMAIN open : Kept \subseteq DOMAIN open[k]
    PROVE  /\ DOMAIN open' = (KeptAfterClose(batch, ts) \ Gone(batch, ts))
                                \cup {f.key : f \in FoundIn(batch)}
           /\ \A k \in DOMAIN open' :
                 \/ /\ k \in KeptAfterClose(batch, ts) \ Gone(batch, ts)
                    /\ SameAs(open'[k], open[k])
                 \/ /\ Kept \subseteq DOMAIN open'[k] /\ open'[k].first = ts
                    /\ \E f \in FoundIn(batch) : f.key = k /\ open'[k].constraint = f.constraint
<1> DEFINE found == FoundIn(batch)
           keys == {f.key : f \in found}
           kept == KeptAfterClose(batch, ts) \ Gone(batch, ts)
           cycle == IF Blind(batch, ts) THEN 0 ELSE confirms
           first(k) == CHOOSE f \in found : f.key = k
           next == Evaluated(batch, ts)
<1>1. next = [k \in kept \cup keys |->
                 IF k \notin kept THEN Opened(first(k), Seen(batch), ts, cycle = 0)
                 ELSE IF k \in keys THEN SeenAgain(open[k], Seen(batch), ts)
                 ELSE open[k]]
  BY DEF Evaluated
<1>2. open' = Confirmed(next, batch, ts)
  BY DEF UpdateEpisodes
<1>3. kept \subseteq DOMAIN open
  BY DEF KeptAfterClose, KeptAfterGap
<1> HIDE DEF kept, next, cycle
<1>4. \A k \in keys : first(k) \in found /\ first(k).key = k
  OBVIOUS
<1> HIDE DEF first
<1>5. DOMAIN open' = kept \cup keys
  BY <1>1, <1>2 DEF Confirmed
<1>6. ASSUME NEW k \in kept \cup keys
      PROVE  \/ k \in kept /\ SameAs(next[k], open[k])
             \/ /\ Kept \subseteq DOMAIN next[k] /\ next[k].first = ts
                /\ \E f \in found : f.key = k /\ next[k].constraint = f.constraint
  <2>1. CASE k \notin kept
    <3>1. next[k] = Opened(first(k), Seen(batch), ts, cycle = 0)
      BY <1>1, <2>1
    <3>2. Kept \subseteq DOMAIN next[k] /\ next[k].first = ts /\ next[k].constraint = first(k).constraint
      BY <3>1 DEF Opened, Kept
    <3>3. QED
      BY <1>4, <2>1, <3>2
  <2>2. CASE k \in kept
    <3>1. Kept \subseteq DOMAIN open[k]
      BY <1>3, <2>2
    <3>2. next[k] = open[k] \/ next[k] = SeenAgain(open[k], Seen(batch), ts)
      BY <1>1, <2>2
    <3>3. SameAs(open[k], open[k])
      BY <3>1 DEF SameAs
    <3>4. QED
      BY <2>2, <3>1, <3>2, <3>3, SeenAgainKeeps
  <2>3. QED
    BY <2>1, <2>2
<1>7. DOMAIN next = kept \cup keys
  BY <1>1
<1>8. ASSUME NEW k \in kept \cup keys
      PROVE  SameAs(open'[k], next[k])
  <2>1. Kept \subseteq DOMAIN next[k]
    BY <1>6 DEF SameAs
  <2>2. QED
    BY <1>2, <1>7, <2>1, ConfirmedKeeps
<1>9. ASSUME NEW k \in DOMAIN open'
      PROVE  \/ k \in kept /\ SameAs(open'[k], open[k])
             \/ /\ Kept \subseteq DOMAIN open'[k] /\ open'[k].first = ts
                /\ \E f \in found : f.key = k /\ open'[k].constraint = f.constraint
  <2>1. SameAs(open'[k], next[k])
    BY <1>5, <1>8
  <2>2. CASE k \in kept /\ SameAs(next[k], open[k])
    BY <2>1, <2>2 DEF SameAs
  <2>3. CASE /\ Kept \subseteq DOMAIN next[k] /\ next[k].first = ts
             /\ \E f \in found : f.key = k /\ next[k].constraint = f.constraint
    BY <2>1, <2>3 DEF SameAs
  <2>4. QED
    BY <1>5, <1>6, <2>2, <2>3
<1>10. QED
  BY <1>5, <1>9 DEF kept

(***************************************************************************)
(* A batch leaves open exactly what is violated: what it found, and of     *)
(* what was open before, what no changed book touches.                     *)
(***************************************************************************)
LEMMA BatchKeepsOpen ==
    ASSUME OpenInv, NEW batch, IsBatch(batch), NEW ts, Observe(batch, ts)
    PROVE  OpenInv'
<1> DEFINE up == DOMAIN batch.updates
           after == Seen(batch)
           shut == closed \cup batch.closes
           affected == {s \in Touching(up) : SpecActive(s, after, shut)}
           found == FoundIn(batch)
           kept == KeptAfterClose(batch, ts) \ Gone(batch, ts)
<1>1. /\ ~finished /\ specs' = specs /\ books' = after /\ closed' = shut
      /\ UpdateEpisodes(batch, ts)
      /\ fresh' = (IF Blind(batch, ts) THEN {} ELSE fresh) \cup up
  BY DEF Observe, Process
<1>2. found = Detected(affected, after, UNVERIFIED)
  BY DEF FoundIn
<1>3. /\ DOMAIN after = DOMAIN books \cup up
      /\ \A t \in DOMAIN books \ up : after[t] = books[t]
  BY DEF Seen
<1>4. /\ \A s \in specs : GoodSpec(s)
      /\ \A s \in specs : \A c \in Constraints(s.relation) : LegTickers(c) \subseteq Members(s.relation)
      /\ EpisodesAreKeyed
  BY LegTickersAreMembers DEF OpenInv
<1>5. /\ \A k \in DOMAIN open : Violated(open[k].constraint, books)
                                /\ LegTickers(open[k].constraint) \cap closed = {}
      /\ \A s \in specs : (SpecActive(s, books, closed) /\ Members(s.relation) \cap fresh # {}) =>
             \A c \in Constraints(s.relation) : Violated(c, books) => TradeKey(c) \in DOMAIN open
  BY <1>1 DEF OpenInv, OpenIsExact
<1>6. affected \subseteq specs /\ \A s \in affected : GoodSpec(s)
  BY <1>4 DEF Touching
<1> HIDE DEF affected, after
<1>7. /\ \A s \in affected : \A c \in Constraints(s.relation) :
             Violated(c, after) => \E f \in found : f.key = TradeKey(c)
      /\ \A f \in found : \E s \in affected :
             /\ f.constraint \in Constraints(s.relation)
             /\ Violated(f.constraint, after)
             /\ f.key = TradeKey(f.constraint)
  BY <1>2, <1>6, DetectedExactly
<1>8. /\ DOMAIN open' = kept \cup {f.key : f \in found}
      /\ \A k \in DOMAIN open' :
             /\ Kept \subseteq DOMAIN open'[k]
             /\ \/ k \in kept /\ open'[k].constraint = open[k].constraint
                \/ \E f \in found : f.key = k /\ open'[k].constraint = f.constraint
  <2>1. \A k \in DOMAIN open : Kept \subseteq DOMAIN open[k]
    BY <1>4 DEF EpisodesAreKeyed
  <2>2. /\ DOMAIN open' = kept \cup {f.key : f \in found}
        /\ \A k \in DOMAIN open' :
              \/ k \in kept /\ SameAs(open'[k], open[k])
              \/ /\ Kept \subseteq DOMAIN open'[k] /\ open'[k].first = ts
                 /\ \E f \in found : f.key = k /\ open'[k].constraint = f.constraint
    BY <1>1, <2>1, OpenAfter
  <2> HIDE DEF kept, found
  <2>3. QED
    BY <2>2 DEF SameAs
<1>9. /\ kept \subseteq DOMAIN open
      /\ \A k \in kept : /\ LegTickers(open[k].constraint) \cap (batch.closes \ closed) = {}
                         /\ \/ LegTickers(open[k].constraint) \cap up = {}
                            \/ k \in {f.key : f \in found}
  BY DEF KeptAfterClose, KeptAfterGap, Gone
<1>10. \A s \in affected : Members(s.relation) \subseteq DOMAIN after \ shut
  BY DEF affected, SpecActive
<1> HIDE DEF found, kept
<1>11. ASSUME NEW k \in DOMAIN open'
       PROVE  /\ TradeKey(open'[k].constraint) = k
              /\ \E s \in specs : open'[k].constraint \in Constraints(s.relation)
              /\ Violated(open'[k].constraint, after)
              /\ LegTickers(open'[k].constraint) \cap shut = {}
  <2>1. CASE \E f \in found : f.key = k /\ open'[k].constraint = f.constraint
    <3>1. PICK f \in found : f.key = k /\ open'[k].constraint = f.constraint
      BY <2>1
    <3>2. PICK s \in affected : /\ f.constraint \in Constraints(s.relation)
                                /\ Violated(f.constraint, after)
                                /\ f.key = TradeKey(f.constraint)
      BY <1>7
    <3>3. LegTickers(f.constraint) \cap shut = {}
      BY <1>4, <1>6, <1>10, <3>2
    <3>4. QED
      BY <1>6, <3>1, <3>2, <3>3
  <2>2. CASE k \in kept /\ open'[k].constraint = open[k].constraint
    <3> DEFINE con == open[k].constraint
    <3>1. k \in DOMAIN open /\ TradeKey(con) = k /\ Violated(con, books)
          /\ LegTickers(con) \cap closed = {}
      BY <1>4, <1>5, <1>9, <2>2 DEF EpisodesAreKeyed
    <3>2. PICK s \in specs : con \in Constraints(s.relation)
      BY <1>4, <3>1 DEF EpisodesAreKeyed
    <3> HIDE DEF con
    <3>3. LegTickers(con) \cap shut = {}
      BY <1>9, <2>2, <3>1 DEF con
    <3>4. Violated(con, after)
      <4>1. CASE LegTickers(con) \cap up = {}
        <5>1. \A t \in LegTickers(con) : t \in DOMAIN books
          <6>1. \A i \in DOMAIN con.legs : con.legs[i].ticker \in DOMAIN books
            BY <3>1 DEF Violated, Priceable, HasOffer
          <6>2. QED
            BY <6>1 DEF LegTickers
        <5>2. \A t \in LegTickers(con) : (t \in DOMAIN books <=> t \in DOMAIN after)
                                         /\ books[t] = after[t]
          BY <1>3, <4>1, <5>1
        <5>3. QED
          BY <3>1, <5>2, ViolatedByBooks
      <4>2. CASE LegTickers(con) \cap up # {}
        <5>1. PICK f \in found : f.key = k
          BY <1>9, <2>2, <4>2 DEF con
        <5>2. PICK a \in affected : /\ f.constraint \in Constraints(a.relation)
                                    /\ Violated(f.constraint, after)
                                    /\ f.key = TradeKey(f.constraint)
          BY <1>7
        <5>3. SoundBundle(f.constraint, a.relation.markets) /\ SoundBundle(con, s.relation.markets)
          BY <1>4, <1>6, <3>2, <5>2, ConstraintsAreSound DEF GoodSpec
        <5>4. QED
          BY <3>1, <5>1, <5>2, <5>3, ViolatedByTrade
      <4>3. QED
        BY <4>1, <4>2
    <3>5. QED
      BY <2>2, <3>1, <3>2, <3>3, <3>4 DEF con
  <2>3. QED
    BY <1>8, <2>1, <2>2
<1>12. ASSUME NEW s \in specs, SpecActive(s, after, shut), Members(s.relation) \cap fresh' # {},
              NEW c \in Constraints(s.relation), Violated(c, after)
       PROVE  TradeKey(c) \in DOMAIN open'
  <2>1. CASE Members(s.relation) \cap up # {}
    <3>1. s \in affected
      BY <1>12, <2>1 DEF affected, Touching
    <3>2. QED
      BY <1>7, <1>8, <1>12, <3>1
  <2>2. CASE Members(s.relation) \cap up = {}
    <3> DEFINE k == TradeKey(c)
    <3>1. ~Blind(batch, ts) /\ Members(s.relation) \cap fresh # {}
      BY <1>1, <1>12, <2>2
    <3>2. Members(s.relation) \subseteq DOMAIN books \ shut
      BY <1>3, <1>12, <2>2 DEF SpecActive
    <3>3. LegTickers(c) \subseteq Members(s.relation)
      BY <1>4
    <3>4. Violated(c, books)
      <4>1. \A t \in LegTickers(c) : (t \in DOMAIN after <=> t \in DOMAIN books)
                                     /\ after[t] = books[t]
        BY <1>3, <2>2, <3>2, <3>3
      <4>2. QED
        BY <1>12, <4>1, ViolatedByBooks
    <3>5. k \in DOMAIN open
      BY <1>5, <3>1, <3>2, <3>4 DEF SpecActive
    <3>6. LegTickers(open[k].constraint) = LegTickers(c)
      <4>1. TradeKey(open[k].constraint) = k
        BY <1>4, <3>5 DEF EpisodesAreKeyed
      <4>2. QED
        BY <4>1, LegTickersOfTrade
    <3>7. k \in KeptAfterClose(batch, ts)
      BY <3>1, <3>2, <3>3, <3>5, <3>6 DEF KeptAfterClose, KeptAfterGap
    <3>8. k \notin Gone(batch, ts)
      BY <2>2, <3>3, <3>6 DEF Gone
    <3>9. QED
      BY <1>8, <3>7, <3>8 DEF kept
  <2>3. QED
    BY <2>1, <2>2
<1>13. EpisodesAreKeyed'
  BY <1>1, <1>8, <1>11 DEF EpisodesAreKeyed
<1>14. OpenIsExact'
  BY <1>1, <1>11, <1>12 DEF OpenIsExact
<1>15. QED
  BY <1>1, <1>4, <1>13, <1>14 DEF OpenInv

(***************************************************************************)
(* Pricing only the relations a changed book touches loses nothing and     *)
(* keeps nothing stale: the open episodes are what a detection from        *)
(* scratch would find (Scanner._process).                                  *)
(***************************************************************************)
THEOREM OpenEpisodesAreExact == ArbSpec => []OpenIsExact
<1>1. ArbInit => OpenInv
  <2>1. SUFFICES ASSUME ArbInit PROVE OpenInv
    OBVIOUS
  <2>2. events \in Listings /\ specs = BuildSpecs(events) /\ open = <<>> /\ fresh = {}
    <3>1. \A relations : ScanInit(relations) => specs = relations /\ open = <<>>
      BY DEF ScanInit
    <3>2. events \in Listings /\ ScanInit(BuildSpecs(events)) /\ fresh = {}
      BY <2>1 DEF ArbInit
    <3>3. QED
      BY <3>1, <3>2
  <2>3. DOMAIN open = {}
    BY <2>2
  <2>4. \A s \in specs : GoodSpec(s)
    BY <2>2, ArbitrageAssumption DEF GoodSpec
  <2>5. QED
    BY <2>2, <2>3, <2>4 DEF OpenInv, EpisodesAreKeyed, OpenIsExact
<1>2. OpenInv /\ [ArbNext]_arbVars => OpenInv'
  <2>1. SUFFICES ASSUME OpenInv, [ArbNext]_arbVars PROVE OpenInv'
    OBVIOUS
  <2>2. CASE \E batch \in Batches, ts \in now + 1 .. MaxTime : Observe(batch, ts)
    <3>1. PICK batch \in Batches, ts \in now + 1 .. MaxTime : Observe(batch, ts)
      BY <2>2
    <3>2. IsBatch(batch)
      BY ArbitrageAssumption
    <3>3. QED
      BY <2>1, <3>1, <3>2, BatchKeepsOpen
  <2>3. CASE Finish /\ UNCHANGED <<fresh, log>>
    <3>1. finished' /\ specs' = specs /\ open' = <<>>
      BY <2>3 DEF Finish
    <3>2. DOMAIN open' = {}
      BY <3>1
    <3>3. QED
      BY <2>1, <3>1, <3>2 DEF OpenInv, EpisodesAreKeyed, OpenIsExact
  <2>4. CASE UNCHANGED arbVars
    <3>1. UNCHANGED <<specs, books, closed, open, finished, fresh>>
      BY <2>4 DEF arbVars, scanVars
    <3>2. QED
      BY <2>1, <3>1 DEF OpenInv, EpisodesAreKeyed, OpenIsExact, SpecActive
  <2>5. QED
    BY <2>1, <2>2, <2>3, <2>4 DEF ArbNext
<1>3. OpenInv => OpenIsExact
  BY DEF OpenInv
<1>4. QED
  BY <1>1, <1>2, <1>3, PTL DEF ArbSpec

----------------------------------------------------------------------------
(* The probes. *)

\* Where a log shows books later than t.
SeenIn(l, t) == {i \in DOMAIN l : l[i].ts > t /\ l[i].observed}

\* A result agrees with the last entry not later than its instant, or the first sighting after it.
AnsweredBefore(r, l) ==
    \E i \in DOMAIN l :
        /\ l[i].ts <= r.first + r.delta
        /\ \A j \in DOMAIN l : l[j].ts <= r.first + r.delta => j <= i
        /\ r.alive = AliveIn(r.constraint, l[i])
AnsweredAfter(r, l) ==
    \E i \in SeenIn(l, r.first + r.delta) :
        /\ \A j \in SeenIn(l, r.first + r.delta) : i <= j
        /\ r.alive = AliveIn(r.constraint, l[i])

\* The log ends with what is known now.
LogSound ==
    /\ log \in Seq({log[i] : i \in DOMAIN log})
    /\ now \in Nat /\ \A i \in DOMAIN log : log[i].ts \in 1 .. now
    /\ log # <<>> => LET last == log[Len(log)]
                     IN  last.ts = now /\ last.books = books /\ last.closed = closed

ResultsSound ==
    \A r \in results :
        /\ r.first \in Nat /\ r.delta \in Nat /\ r.kind \in {"before", "after"}
        /\ r.kind = "before" => /\ AnsweredBefore(r, log)
                                /\ r.first + r.delta < now \/ finished
        /\ r.kind = "after" => AnsweredAfter(r, log)

\* Probes lie ahead; those that wait for a book have seen none.
ProbesSound ==
    /\ \A p \in probes : /\ ~finished /\ log # <<>>
                         /\ p.first \in Nat /\ p.delta \in Nat /\ now <= DueAt(p)
    /\ \A p \in pendingAfter : /\ p.first \in Nat /\ p.delta \in Nat /\ DueAt(p) < now
                               /\ SeenIn(log, DueAt(p)) = {}

\* Each probe of an episode is ahead, waits for a book, or has its results.
ProbeOf(ep, d) ==
    [constraint |-> ep.constraint, first |-> ep.first, orders |-> ep.orders, delta |-> d]
Answered(ep, d, kind, given) ==
    \E r \in given : /\ r.constraint = ep.constraint /\ r.first = ep.first
                     /\ r.delta = d /\ r.kind = kind
Asked(ep, ended, l, ahead, waiting, given) ==
    /\ Kept \subseteq DOMAIN ep /\ ep.first \in Nat
    /\ \A d \in Deltas :
          /\ ProbeOf(ep, d) \in ahead \/ Answered(ep, d, "before", given)
          /\ \/ ProbeOf(ep, d) \in ahead \cup waiting
             \/ ended /\ SeenIn(l, ep.first + d) = {}
             \/ Answered(ep, d, "after", given)
EpisodesAsked ==
    /\ \A k \in DOMAIN open : Asked(open[k], finished, log, probes, pendingAfter, results)
    /\ \A e \in done : Asked(e.episode, finished, log, probes, pendingAfter, results)

ProbesInv == LogSound /\ ResultsSound /\ ProbesSound /\ EpisodesAsked

\* One more entry.
LEMMA LogGrows ==
    ASSUME NEW E, NEW l \in Seq(E), NEW e
    PROVE  /\ Append(l, e) \in Seq({Append(l, e)[i] : i \in DOMAIN Append(l, e)})
           /\ Len(l) \in Nat /\ DOMAIN l = 1 .. Len(l)
           /\ Len(Append(l, e)) = Len(l) + 1
           /\ DOMAIN Append(l, e) = 1 .. Len(l) + 1
           /\ \A i \in 1 .. Len(l) : Append(l, e)[i] = l[i]
           /\ Append(l, e)[Len(l) + 1] = e
<1>1. l \in Seq(E \cup {e})
  OBVIOUS
<1>2. /\ Append(l, e) \in Seq(E \cup {e})
      /\ Len(l) \in Nat /\ DOMAIN l = 1 .. Len(l)
      /\ Len(Append(l, e)) = Len(l) + 1
      /\ \A i \in 1 .. Len(l) : Append(l, e)[i] = l[i]
      /\ Append(l, e)[Len(l) + 1] = e
  BY <1>1
<1> DEFINE m == Append(l, e)
<1> HIDE DEF m
<1>3. DOMAIN m = 1 .. Len(l) + 1 /\ m \in [1 .. Len(l) + 1 -> {m[i] : i \in DOMAIN m}]
  <2>1. m \in Seq(E \cup {e}) /\ Len(m) = Len(l) + 1 /\ Len(m) \in Nat
    BY <1>2 DEF m
  <2>2. m \in [1 .. Len(m) -> E \cup {e}] /\ DOMAIN m = 1 .. Len(m)
    BY <2>1
  <2>3. QED
    BY <2>1, <2>2
<1>4. m \in Seq({m[i] : i \in DOMAIN m})
  BY <1>2, <1>3
<1>5. QED
  BY <1>2, <1>3, <1>4 DEF m

\* A sighting is added to those after every earlier instant.
LEMMA SeenGrows ==
    ASSUME NEW E, NEW l \in Seq(E), NEW e, NEW t
    PROVE  SeenIn(Append(l, e), t)
              = SeenIn(l, t) \cup (IF e.ts > t /\ e.observed THEN {Len(l) + 1} ELSE {})
<1> DEFINE m == Append(l, e)
<1>1. /\ Len(l) \in Nat /\ DOMAIN l = 1 .. Len(l) /\ DOMAIN m = 1 .. Len(l) + 1
      /\ \A i \in 1 .. Len(l) : m[i] = l[i]
      /\ m[Len(l) + 1] = e
  BY LogGrows
<1>2. 1 .. Len(l) + 1 = 1 .. Len(l) \cup {Len(l) + 1}
  BY <1>1
<1> HIDE DEF m
<1>3. SeenIn(m, t) = {i \in 1 .. Len(l) : l[i].ts > t /\ l[i].observed}
                        \cup (IF e.ts > t /\ e.observed THEN {Len(l) + 1} ELSE {})
  BY <1>1, <1>2 DEF SeenIn
<1>4. QED
  BY <1>1, <1>3 DEF SeenIn, m

\* What was answered stays right.
LEMMA BeforeStays ==
    ASSUME NEW E, NEW l \in Seq(E), NEW e, NEW r, AnsweredBefore(r, l),
           NEW t \in Int, t = r.first + r.delta, e.ts \in Int, t < e.ts
    PROVE  AnsweredBefore(r, Append(l, e))
<1> DEFINE m == Append(l, e)
<1>1. /\ Len(l) \in Nat /\ DOMAIN l = 1 .. Len(l) /\ DOMAIN m = 1 .. Len(l) + 1
      /\ \A i \in 1 .. Len(l) : m[i] = l[i]
      /\ m[Len(l) + 1] = e
  BY LogGrows
<1>2. PICK i \in DOMAIN l : /\ l[i].ts <= t
                            /\ \A j \in DOMAIN l : l[j].ts <= t => j <= i
                            /\ r.alive = AliveIn(r.constraint, l[i])
  BY DEF AnsweredBefore
<1> HIDE DEF m
<1>3. i \in DOMAIN m /\ m[i] = l[i]
  BY <1>1
<1>4. ASSUME NEW j \in DOMAIN m, m[j].ts <= t PROVE j <= i
  <2>1. CASE j = Len(l) + 1
    BY <1>1, <1>4, <2>1
  <2>2. CASE j # Len(l) + 1
    <3>1. j \in DOMAIN l
      BY <1>1, <2>2
    <3>2. QED
      BY <1>1, <1>2, <1>4, <3>1
  <2>3. QED
    BY <2>1, <2>2
<1>5. QED
  BY <1>2, <1>3, <1>4 DEF AnsweredBefore, m

LEMMA AfterStays ==
    ASSUME NEW E, NEW l \in Seq(E), NEW e, NEW r, AnsweredAfter(r, l)
    PROVE  AnsweredAfter(r, Append(l, e))
<1> DEFINE m == Append(l, e)
           t == r.first + r.delta
<1>1. /\ Len(l) \in Nat /\ DOMAIN l = 1 .. Len(l)
      /\ \A i \in 1 .. Len(l) : m[i] = l[i]
  BY LogGrows
<1>2. SeenIn(m, t) = SeenIn(l, t) \cup (IF e.ts > t /\ e.observed THEN {Len(l) + 1} ELSE {})
  BY SeenGrows
<1> HIDE DEF m, t
<1>3. PICK i \in SeenIn(l, t) : /\ \A j \in SeenIn(l, t) : i <= j
                                /\ r.alive = AliveIn(r.constraint, l[i])
  BY DEF AnsweredAfter, t
<1>4. i \in 1 .. Len(l)
  BY <1>1 DEF SeenIn
<1>5. i \in SeenIn(m, t) /\ m[i] = l[i] /\ i <= Len(l) + 1
  BY <1>1, <1>2, <1>4
<1>6. \A j \in SeenIn(m, t) : i <= j
  BY <1>2, <1>3, <1>5
<1>7. QED
  BY <1>3, <1>5, <1>6 DEF AnsweredAfter, m, t

\* What is known now answers for every instant not earlier.
LEMMA BeforeFromLast ==
    ASSUME NEW E, NEW l \in Seq(E), l # <<>>, NEW r,
           NEW t, t = r.first + r.delta, l[Len(l)].ts <= t,
           r.alive = AliveIn(r.constraint, l[Len(l)])
    PROVE  AnsweredBefore(r, l)
<1>1. Len(l) \in Nat /\ DOMAIN l = 1 .. Len(l) /\ Len(l) # 0
  OBVIOUS
<1>2. Len(l) \in DOMAIN l
  BY <1>1
<1>3. QED
  BY <1>1, <1>2 DEF AnsweredBefore

\* The first sighting answers what has waited for one.
LEMMA AfterFromNext ==
    ASSUME NEW E, NEW l \in Seq(E), NEW e, e.observed, NEW r,
           NEW t, t = r.first + r.delta, e.ts > t, SeenIn(l, t) = {},
           r.alive = AliveIn(r.constraint, e)
    PROVE  AnsweredAfter(r, Append(l, e))
<1>1. SeenIn(Append(l, e), t) = {Len(l) + 1}
  BY SeenGrows
<1>2. Append(l, e)[Len(l) + 1] = e /\ Len(l) \in Nat
  BY LogGrows
<1>3. QED
  BY <1>1, <1>2 DEF AnsweredAfter

(***************************************************************************)
(* A batch answers the probes that were due before it with what was known, *)
(* and, if it shows books, all that wait for some with these.              *)
(***************************************************************************)
LEMMA BatchKeepsProbes ==
    ASSUME ProbesInv, NEW batch, NEW ts \in now + 1 .. MaxTime, Observe(batch, ts)
    PROVE  ProbesInv'
<1> DEFINE e == [ts |-> ts, books |-> books', closed |-> closed',
                 updated |-> DOMAIN batch.updates, confirm |-> batch.confirm,
                 observed |-> ObservesBooks(batch)]
           E == {log[i] : i \in DOMAIN log}
           due == DueBefore(ts)
           waiting == pendingAfter \cup due
           sees == ObservesBooks(batch)
           before(p) == ProbeOutcome(p, "before", books, closed, lastConfirm, FALSE)
           after(p) == ProbeOutcome(p, "after", books', closed', lastConfirm', FALSE)
<1>1. /\ ~finished /\ finished' = finished /\ now' = ts /\ log' = Append(log, e)
      /\ UpdateEpisodes(batch, ts) /\ UpdateProbes(batch, ts)
  BY DEF Observe, Process
<1>2. now \in Nat /\ ts \in Nat /\ now < ts /\ log \in Seq(E)
  BY DEF ProbesInv, LogSound
<1>3. e.ts = ts /\ e.books = books' /\ e.closed = closed' /\ e.observed = sees
  OBVIOUS
<1>4. /\ results' = results \cup {before(p) : p \in due}
                       \cup (IF sees THEN {after(p) : p \in waiting} ELSE {})
      /\ pendingAfter' = IF sees THEN {} ELSE waiting
      /\ probes' = (probes \ due) \cup UNION {NewProbes(open'[k]) : k \in {n \in DOMAIN open' : open'[n].first = ts}}
  BY <1>1 DEF UpdateProbes
<1> HIDE DEF e, E, sees
<1>5. /\ log' \in Seq({log'[i] : i \in DOMAIN log'})
      /\ Len(log) \in Nat /\ DOMAIN log = 1 .. Len(log)
      /\ Len(log') = Len(log) + 1 /\ DOMAIN log' = 1 .. Len(log) + 1
      /\ \A i \in 1 .. Len(log) : log'[i] = log[i]
      /\ log'[Len(log) + 1] = e
  BY <1>1, <1>2, LogGrows
<1>6. LogSound'
  <2>1. \A i \in DOMAIN log' : i = Len(log) + 1 \/ (i \in 1 .. Len(log) /\ log'[i].ts \in 1 .. now)
    BY <1>5 DEF ProbesInv, LogSound
  <2>2. \A i \in DOMAIN log' : log'[i].ts \in 1 .. ts
    BY <1>2, <1>3, <1>5, <2>1
  <2>3. log'[Len(log')].ts = now' /\ log'[Len(log')].books = books' /\ log'[Len(log')].closed = closed'
    BY <1>1, <1>3, <1>5
  <2>4. QED
    BY <1>1, <1>2, <1>5, <2>2, <2>3 DEF LogSound
<1>7. \A t : SeenIn(log', t) = SeenIn(log, t) \cup (IF e.ts > t /\ e.observed THEN {Len(log) + 1} ELSE {})
  BY <1>1, <1>2, SeenGrows
<1>8. \A p \in probes : p.first \in Nat /\ p.delta \in Nat /\ DueAt(p) \in Nat /\ now <= DueAt(p)
                        /\ DueAt(p) = p.first + p.delta /\ log # <<>>
  BY DEF ProbesInv, ProbesSound, DueAt
<1>9. \A p \in due : p \in probes /\ DueAt(p) < ts
  BY DEF DueBefore
<1>10. ASSUME NEW t \in Nat, now <= t PROVE SeenIn(log, t) = {}
  <2>1. \A i \in DOMAIN log : log[i].ts \in Int /\ ~(log[i].ts > t)
    BY <1>2, <1>10 DEF ProbesInv, LogSound
  <2>2. QED
    BY <2>1 DEF SeenIn
<1>11. \A p \in waiting : /\ p.first \in Nat /\ p.delta \in Nat /\ DueAt(p) \in Nat
                          /\ DueAt(p) < ts /\ DueAt(p) = p.first + p.delta
                          /\ SeenIn(log, DueAt(p)) = {}
  <2>1. \A p \in pendingAfter : /\ p.first \in Nat /\ p.delta \in Nat /\ DueAt(p) < now
                                /\ DueAt(p) = p.first + p.delta
                                /\ SeenIn(log, DueAt(p)) = {}
    BY DEF ProbesInv, ProbesSound, DueAt
  <2>2. \A p \in pendingAfter : DueAt(p) \in Nat /\ DueAt(p) < ts
    BY <1>2, <2>1
  <2>3. QED
    BY <1>8, <1>9, <1>10, <2>1, <2>2
<1>12. \A p : /\ before(p).constraint = p.constraint /\ before(p).first = p.first
              /\ before(p).delta = p.delta /\ before(p).kind = "before"
              /\ (log # <<>> => before(p).alive = AliveIn(p.constraint, log[Len(log)]))
  <2>1. SUFFICES ASSUME NEW p
                 PROVE  /\ before(p).constraint = p.constraint /\ before(p).first = p.first
                        /\ before(p).delta = p.delta /\ before(p).kind = "before"
                        /\ (log # <<>> => before(p).alive = AliveIn(p.constraint, log[Len(log)]))
    OBVIOUS
  <2> DEFINE known == [books |-> books, closed |-> closed]
  <2>2. known.books = books /\ known.closed = closed
    OBVIOUS
  <2>3. /\ before(p).constraint = p.constraint /\ before(p).first = p.first
        /\ before(p).delta = p.delta /\ before(p).kind = "before"
        /\ before(p).alive = AliveIn(p.constraint, known)
    <3> DEFINE r == before(p)
    <3>1. r = ProbeOutcome(p, "before", books, closed, lastConfirm, FALSE)
      OBVIOUS
    <3> HIDE DEF known, r
    <3>2. /\ r.constraint = p.constraint /\ r.first = p.first /\ r.delta = p.delta
          /\ r.kind = "before" /\ r.alive = AliveIn(p.constraint, known)
      BY <2>2, <3>1 DEF ProbeOutcome, AliveIn
    <3>3. QED
      BY <3>2 DEF r
  <2>4. log # <<>> => AliveIn(p.constraint, log[Len(log)]) = AliveIn(p.constraint, known)
    BY <2>2 DEF ProbesInv, LogSound, AliveIn
  <2>5. QED
    BY <2>3, <2>4
<1>13. \A p : /\ after(p).constraint = p.constraint /\ after(p).first = p.first
              /\ after(p).delta = p.delta /\ after(p).kind = "after"
              /\ after(p).alive = AliveIn(p.constraint, e)
  <2>1. SUFFICES ASSUME NEW p
                 PROVE  /\ after(p).constraint = p.constraint /\ after(p).first = p.first
                        /\ after(p).delta = p.delta /\ after(p).kind = "after"
                        /\ after(p).alive = AliveIn(p.constraint, e)
    OBVIOUS
  <2> DEFINE r == after(p)
  <2>2. r = ProbeOutcome(p, "after", books', closed', lastConfirm', FALSE)
    OBVIOUS
  <2> HIDE DEF r
  <2>3. /\ r.constraint = p.constraint /\ r.first = p.first /\ r.delta = p.delta
        /\ r.kind = "after" /\ r.alive = AliveIn(p.constraint, e)
    BY <1>3, <2>2 DEF ProbeOutcome, AliveIn
  <2>4. QED
    BY <2>3 DEF r
<1> HIDE DEF before, after, due, waiting
<1>14. ResultsSound'
  <2>1. ASSUME NEW r \in results
        PROVE  /\ r.first \in Nat /\ r.delta \in Nat /\ r.kind \in {"before", "after"}
               /\ r.kind = "before" => /\ AnsweredBefore(r, log')
                                       /\ r.first + r.delta < ts
               /\ r.kind = "after" => AnsweredAfter(r, log')
    <3>1. /\ r.first \in Nat /\ r.delta \in Nat /\ r.kind \in {"before", "after"}
          /\ r.kind = "before" => AnsweredBefore(r, log) /\ r.first + r.delta < now
          /\ r.kind = "after" => AnsweredAfter(r, log)
      BY <1>1 DEF ProbesInv, ResultsSound
    <3>2. r.first + r.delta \in Int
      BY <3>1
    <3>3. r.kind = "before" => AnsweredBefore(r, log') /\ r.first + r.delta < ts
      <4>1. SUFFICES ASSUME r.kind = "before" PROVE AnsweredBefore(r, log') /\ r.first + r.delta < ts
        OBVIOUS
      <4>2. AnsweredBefore(r, log) /\ r.first + r.delta < ts
        BY <1>2, <3>1, <3>2, <4>1
      <4>3. AnsweredBefore(r, Append(log, e))
        BY <1>2, <1>3, <3>2, <4>2, BeforeStays
      <4>4. QED
        BY <1>1, <4>2, <4>3
    <3>4. r.kind = "after" => AnsweredAfter(r, log')
      BY <1>1, <1>2, <3>1, AfterStays
    <3>5. QED
      BY <3>1, <3>3, <3>4
  <2>2. ASSUME NEW p \in due
        PROVE  /\ before(p).first \in Nat /\ before(p).delta \in Nat /\ before(p).kind = "before"
               /\ AnsweredBefore(before(p), log') /\ before(p).first + before(p).delta < ts
    <3> DEFINE r == before(p)
               t == DueAt(p)
    <3>1. /\ r.first \in Nat /\ r.delta \in Nat /\ r.kind = "before" /\ r.constraint = p.constraint
          /\ t = r.first + r.delta /\ t < ts /\ now <= t /\ t \in Nat
          /\ log # <<>> /\ r.alive = AliveIn(r.constraint, log[Len(log)])
      BY <1>8, <1>9, <1>12
    <3> HIDE DEF r, t
    <3>2. log[Len(log)].ts <= t
      BY <3>1 DEF ProbesInv, LogSound
    <3>3. AnsweredBefore(r, log)
      BY <1>2, <3>1, <3>2, BeforeFromLast
    <3>4. AnsweredBefore(r, Append(log, e))
      BY <1>2, <1>3, <3>1, <3>3, BeforeStays
    <3>5. QED
      BY <1>1, <3>1, <3>4 DEF r
  <2>3. ASSUME sees, NEW p \in waiting
        PROVE  /\ after(p).first \in Nat /\ after(p).delta \in Nat /\ after(p).kind = "after"
               /\ AnsweredAfter(after(p), log')
    <3> DEFINE r == after(p)
               t == DueAt(p)
    <3>1. /\ r.first \in Nat /\ r.delta \in Nat /\ r.kind = "after" /\ r.constraint = p.constraint
          /\ t = r.first + r.delta /\ t < ts /\ t \in Nat /\ SeenIn(log, t) = {}
          /\ r.alive = AliveIn(r.constraint, e)
      BY <1>11, <1>13
    <3> HIDE DEF r, t
    <3>2. e.observed /\ e.ts > t
      BY <1>2, <1>3, <2>3, <3>1
    <3>3. AnsweredAfter(r, Append(log, e))
      BY <1>2, <3>1, <3>2, AfterFromNext
    <3>4. QED
      BY <1>1, <3>1, <3>3 DEF r
  <2>4. ASSUME NEW r \in results'
        PROVE  /\ r.first \in Nat /\ r.delta \in Nat /\ r.kind \in {"before", "after"}
               /\ r.kind = "before" => /\ AnsweredBefore(r, log')
                                       /\ r.first + r.delta < ts
               /\ r.kind = "after" => AnsweredAfter(r, log')
    <3>1. CASE r \in results
      BY <2>1, <3>1
    <3>2. CASE \E p \in due : r = before(p)
      BY <2>2, <3>2
    <3>3. CASE sees /\ \E p \in waiting : r = after(p)
      BY <2>3, <3>3
    <3>4. QED
      BY <1>4, <3>1, <3>2, <3>3
  <2>5. QED
    BY <1>1, <2>4 DEF ResultsSound
<1>15. ProbesSound'
  <2>1. ASSUME NEW p \in probes'
        PROVE  p.first \in Nat /\ p.delta \in Nat /\ ts <= DueAt(p)
    <3>1. CASE p \in probes \ due
      <4>1. ~(DueAt(p) < ts)
        BY <3>1 DEF due, DueBefore
      <4>2. QED
        BY <1>2, <1>8, <3>1, <4>1
    <3>2. CASE \E k \in DOMAIN open' : open'[k].first = ts /\ p \in NewProbes(open'[k])
      <4>1. PICK k \in DOMAIN open' : open'[k].first = ts /\ p \in NewProbes(open'[k])
        BY <3>2
      <4>2. p.first = ts /\ p.delta \in Deltas
        BY <4>1 DEF NewProbes
      <4>3. p.delta \in Nat
        BY <4>2, ScannerAssumption
      <4>4. QED
        BY <1>2, <4>2, <4>3 DEF DueAt
    <3>3. QED
      BY <1>4, <3>1, <3>2
  <2>2. log' # <<>>
    BY <1>2, <1>5
  <2>3. ASSUME NEW p \in pendingAfter'
        PROVE  p.first \in Nat /\ p.delta \in Nat /\ DueAt(p) < ts /\ SeenIn(log', DueAt(p)) = {}
    <3>1. ~sees /\ p \in waiting
      BY <1>4, <2>3
    <3>2. SeenIn(log', DueAt(p)) = SeenIn(log, DueAt(p))
      BY <1>3, <1>7, <3>1
    <3>3. QED
      BY <1>11, <3>1, <3>2
  <2>4. QED
    BY <1>1, <2>1, <2>2, <2>3 DEF ProbesSound, DueAt
<1>16. ASSUME NEW ep, NEW other, SameAs(ep, other),
              Asked(other, finished, log, probes, pendingAfter, results)
       PROVE  Asked(ep, finished', log', probes', pendingAfter', results')
  <2>1. Kept \subseteq DOMAIN ep /\ ep.first \in Nat
    BY <1>16 DEF SameAs, Asked
  <2>2. ASSUME NEW d \in Deltas
        PROVE  /\ ProbeOf(ep, d) \in probes' \/ Answered(ep, d, "before", results')
               /\ \/ ProbeOf(ep, d) \in probes' \cup pendingAfter'
                  \/ Answered(ep, d, "after", results')
    <3> DEFINE p == ProbeOf(ep, d)
    <3>1. p = ProbeOf(other, d)
      BY <1>16 DEF SameAs, ProbeOf
    <3>2. p.constraint = ep.constraint /\ p.first = ep.first /\ p.delta = d
      BY DEF ProbeOf
    <3>3. \A kind : Answered(other, d, kind, results) => Answered(ep, d, kind, results')
      BY <1>4, <1>16 DEF SameAs, Answered
    <3> HIDE DEF p
    <3>4. /\ p \in probes \/ Answered(ep, d, "before", results')
          /\ p \in probes \cup pendingAfter \/ Answered(ep, d, "after", results')
      BY <1>1, <1>16, <3>1, <3>3 DEF Asked
    <3>5. p \in probes => p \in probes' \/ Answered(ep, d, "before", results')
      <4>1. CASE p \in due
        <5>1. before(p) \in results'
          BY <1>4, <4>1
        <5>2. QED
          BY <1>12, <3>2, <5>1 DEF Answered
      <4>2. CASE p \notin due
        BY <1>4, <4>2
      <4>3. QED
        BY <4>1, <4>2
    <3>6. p \in waiting => p \in pendingAfter' \/ Answered(ep, d, "after", results')
      <4>1. SUFFICES ASSUME p \in waiting, sees PROVE Answered(ep, d, "after", results')
        BY <1>4
      <4>2. after(p) \in results'
        BY <1>4, <4>1
      <4>3. QED
        BY <1>13, <3>2, <4>2 DEF Answered
    <3>7. p \in probes => p \in probes' \/ p \in waiting
      BY <1>4 DEF waiting
    <3>8. p \in pendingAfter => p \in waiting
      BY DEF waiting
    <3>9. QED
      BY <3>4, <3>5, <3>6, <3>7, <3>8 DEF p
  <2>3. QED
    BY <2>1, <2>2 DEF Asked
<1>17. /\ \A k \in DOMAIN open : Asked(open[k], finished, log, probes, pendingAfter, results)
       /\ \A n \in done : Asked(n.episode, finished, log, probes, pendingAfter, results)
  BY DEF ProbesInv, EpisodesAsked
<1>18. ASSUME NEW k \in DOMAIN open'
       PROVE  Asked(open'[k], finished', log', probes', pendingAfter', results')
  <2>1. \A n \in DOMAIN open : Kept \subseteq DOMAIN open[n]
    BY <1>17 DEF Asked
  <2>2. \/ k \in DOMAIN open /\ SameAs(open'[k], open[k])
        \/ Kept \subseteq DOMAIN open'[k] /\ open'[k].first = ts
    <3>1. KeptAfterClose(batch, ts) \subseteq DOMAIN open
      BY DEF KeptAfterClose, KeptAfterGap
    <3>2. \A n \in DOMAIN open' :
             \/ n \in KeptAfterClose(batch, ts) \ Gone(batch, ts) /\ SameAs(open'[n], open[n])
             \/ /\ Kept \subseteq DOMAIN open'[n] /\ open'[n].first = ts
                /\ \E f \in FoundIn(batch) : f.key = n /\ open'[n].constraint = f.constraint
      BY <1>1, <2>1, OpenAfter
    <3>3. QED
      BY <3>1, <3>2
  <2>3. CASE k \in DOMAIN open /\ SameAs(open'[k], open[k])
    BY <1>16, <1>17, <2>3
  <2>4. CASE Kept \subseteq DOMAIN open'[k] /\ open'[k].first = ts
    <3>1. \A d \in Deltas : ProbeOf(open'[k], d) \in NewProbes(open'[k])
      BY DEF NewProbes, ProbeOf
    <3>2. \A d \in Deltas : ProbeOf(open'[k], d) \in probes'
      BY <1>4, <2>4, <3>1
    <3>3. QED
      BY <1>2, <2>4, <3>2 DEF Asked
  <2>5. QED
    BY <2>2, <2>3, <2>4
<1>19. ASSUME NEW n \in done'
       PROVE  Asked(n.episode, finished', log', probes', pendingAfter', results')
  <2>1. n \in done \/ \E k \in DOMAIN open : n.episode = open[k]
    <3>1. \A ep, why, at : Ended(ep, why, at).episode = ep
      BY DEF Ended
    <3>2. /\ KeptAfterGap(batch, ts) \subseteq DOMAIN open
          /\ KeptAfterClose(batch, ts) \subseteq DOMAIN open
          /\ Gone(batch, ts) \subseteq DOMAIN open
      BY DEF KeptAfterGap, KeptAfterClose, Gone
    <3>3. QED
      BY <1>1, <3>1, <3>2 DEF UpdateEpisodes
  <2>2. PICK other : /\ n.episode = other
                     /\ Asked(other, finished, log, probes, pendingAfter, results)
    BY <1>17, <2>1
  <2>3. SameAs(n.episode, other)
    BY <2>2 DEF SameAs, Asked
  <2>4. QED
    BY <1>16, <2>2, <2>3
<1>20. QED
  BY <1>6, <1>14, <1>15, <1>18, <1>19 DEF ProbesInv, EpisodesAsked

\* At the end of the data, probes that lie beyond it are answered with what is known then.
LEMMA FinishKeepsProbes ==
    ASSUME ProbesInv, Finish, log' = log
    PROVE  ProbesInv'
<1> DEFINE before(p) == ProbeOutcome(p, "before", books, closed, lastConfirm, TRUE)
           E == {log[i] : i \in DOMAIN log}
<1>1. /\ ~finished /\ finished' /\ now' = now /\ books' = books /\ closed' = closed
      /\ probes' = {} /\ pendingAfter' = pendingAfter /\ open' = <<>>
      /\ results' = results \cup {before(p) : p \in probes}
      /\ done' = done \cup {Ended(open[k], "end_of_data", None) : k \in DOMAIN open}
  BY DEF Finish
<1>2. now \in Nat /\ log \in Seq(E) /\ \A i \in DOMAIN log : log[i].ts \in 1 .. now
  BY DEF ProbesInv, LogSound
<1> HIDE DEF E
<1>3. LogSound'
  BY <1>1 DEF ProbesInv, LogSound
<1>4. ASSUME NEW p \in probes
      PROVE  /\ p.first \in Nat /\ p.delta \in Nat
             /\ before(p).constraint = p.constraint /\ before(p).first = p.first
             /\ before(p).delta = p.delta /\ before(p).kind = "before"
             /\ AnsweredBefore(before(p), log)
             /\ SeenIn(log, p.first + p.delta) = {}
  <2> DEFINE r == before(p)
             t == p.first + p.delta
  <2>1. p.first \in Nat /\ p.delta \in Nat /\ now <= t /\ log # <<>> /\ t \in Nat
    BY DEF ProbesInv, ProbesSound, DueAt
  <2>2. /\ r.constraint = p.constraint /\ r.first = p.first
        /\ r.delta = p.delta /\ r.kind = "before"
        /\ r.alive = AliveIn(p.constraint, log[Len(log)])
        /\ log[Len(log)].ts = now
    BY <2>1 DEF ProbesInv, LogSound, AliveIn, ProbeOutcome
  <2> HIDE DEF r
  <2>3. AnsweredBefore(r, log)
    BY <1>2, <2>1, <2>2, BeforeFromLast
  <2>4. \A i \in DOMAIN log : log[i].ts \in Int /\ ~(log[i].ts > t)
    BY <1>2, <2>1
  <2>5. SeenIn(log, t) = {}
    BY <2>4 DEF SeenIn
  <2>6. QED
    BY <2>1, <2>2, <2>3, <2>5 DEF r
<1> HIDE DEF before
<1>5. ResultsSound'
  <2>1. ASSUME NEW r \in results'
        PROVE  /\ r.first \in Nat /\ r.delta \in Nat /\ r.kind \in {"before", "after"}
               /\ r.kind = "before" => AnsweredBefore(r, log)
               /\ r.kind = "after" => AnsweredAfter(r, log)
    <3>1. CASE r \in results
      BY <3>1 DEF ProbesInv, ResultsSound
    <3>2. CASE \E p \in probes : r = before(p)
      BY <1>4, <3>2
    <3>3. QED
      BY <1>1, <3>1, <3>2
  <2>2. QED
    BY <1>1, <2>1 DEF ResultsSound
<1>6. ProbesSound'
  <2>1. \A p \in pendingAfter : /\ p.first \in Nat /\ p.delta \in Nat /\ DueAt(p) < now
                                /\ SeenIn(log, DueAt(p)) = {}
    BY DEF ProbesInv, ProbesSound
  <2>2. QED
    BY <1>1, <2>1 DEF ProbesSound, DueAt
<1>7. ASSUME NEW ep, Asked(ep, finished, log, probes, pendingAfter, results)
      PROVE  Asked(ep, finished', log', probes', pendingAfter', results')
  <2>1. ASSUME NEW d \in Deltas
        PROVE  /\ Answered(ep, d, "before", results')
               /\ \/ ProbeOf(ep, d) \in pendingAfter
                  \/ SeenIn(log, ep.first + d) = {}
                  \/ Answered(ep, d, "after", results')
    <3> DEFINE p == ProbeOf(ep, d)
    <3>1. p.constraint = ep.constraint /\ p.first = ep.first /\ p.delta = d
      BY DEF ProbeOf
    <3>2. \A kind : Answered(ep, d, kind, results) => Answered(ep, d, kind, results')
      BY <1>1 DEF Answered
    <3> HIDE DEF p
    <3>3. /\ p \in probes \/ Answered(ep, d, "before", results')
          /\ p \in probes \cup pendingAfter \/ Answered(ep, d, "after", results')
      BY <1>1, <1>7, <3>2 DEF Asked, p
    <3>4. p \in probes => Answered(ep, d, "before", results') /\ SeenIn(log, ep.first + d) = {}
      <4>1. SUFFICES ASSUME p \in probes
                     PROVE  Answered(ep, d, "before", results') /\ SeenIn(log, ep.first + d) = {}
        OBVIOUS
      <4>2. before(p) \in results'
        BY <1>1, <4>1
      <4>3. QED
        BY <1>4, <3>1, <4>1, <4>2 DEF Answered
    <3>5. QED
      BY <3>3, <3>4 DEF p
  <2>2. Kept \subseteq DOMAIN ep /\ ep.first \in Nat
    BY <1>7 DEF Asked
  <2>3. QED
    BY <1>1, <2>1, <2>2 DEF Asked
<1>8. EpisodesAsked'
  <2>1. /\ \A k \in DOMAIN open : Asked(open[k], finished, log, probes, pendingAfter, results)
        /\ \A n \in done : Asked(n.episode, finished, log, probes, pendingAfter, results)
    BY DEF ProbesInv, EpisodesAsked
  <2>2. \A n \in done' : n \in done \/ \E k \in DOMAIN open : n.episode = open[k]
    BY <1>1 DEF Ended
  <2>3. DOMAIN open' = {}
    BY <1>1
  <2>4. ASSUME NEW n \in done'
        PROVE  Asked(n.episode, finished', log', probes', pendingAfter', results')
    <3>1. Asked(n.episode, finished, log, probes, pendingAfter, results)
      BY <2>1, <2>2
    <3> DEFINE ep == n.episode
    <3>2. PICK other : other = n.episode /\ Asked(other, finished, log, probes, pendingAfter, results)
      BY <3>1
    <3>3. QED
      BY <1>7, <3>2
  <2>5. QED
    BY <2>3, <2>4 DEF EpisodesAsked
<1>9. QED
  BY <1>3, <1>5, <1>6, <1>8 DEF ProbesInv

\* What the log says of an instant is one entry.
LEMMA ProbesInvBrackets == ASSUME ProbesInv PROVE ProbesAreBracketed
<1>1. DOMAIN log = 1 .. Len(log) /\ Len(log) \in Nat
  <2>1. log \in Seq({log[i] : i \in DOMAIN log})
    BY DEF ProbesInv, LogSound
  <2> DEFINE E == {log[i] : i \in DOMAIN log}
  <2> HIDE DEF E
  <2>2. log \in Seq(E)
    BY <2>1 DEF E
  <2>3. QED
    BY <2>2
<1>2. \A t : SeenAfter(t) = SeenIn(log, t)
  BY DEF SeenAfter, SeenIn
<1>3. now \in Nat /\ \A i \in DOMAIN log : log[i].ts \in 1 .. now
  BY DEF ProbesInv, LogSound
<1>4. ASSUME NEW r \in results, NEW t, t = r.first + r.delta
      PROVE  r.alive = AliveIn(r.constraint, IF r.kind = "before" THEN KnownAt(t) ELSE NextSeen(t))
  <2>1. CASE r.kind = "before"
    <3> DEFINE IsLast(i) == log[i].ts <= t /\ \A j \in DOMAIN log : log[j].ts <= t => j <= i
    <3>1. PICK i \in DOMAIN log : IsLast(i) /\ r.alive = AliveIn(r.constraint, log[i])
      BY <1>4, <2>1 DEF ProbesInv, ResultsSound, AnsweredBefore
    <3>2. \A j \in DOMAIN log : IsLast(j) => j = i
      <4>1. SUFFICES ASSUME NEW j \in DOMAIN log, IsLast(j) PROVE j = i
        OBVIOUS
      <4>2. i <= j /\ j <= i
        BY <3>1, <4>1
      <4>3. QED
        BY <1>1, <4>2
    <3>3. KnownAt(t) = log[CHOOSE n \in DOMAIN log : IsLast(n)]
      BY DEF KnownAt
    <3> HIDE DEF IsLast
    <3>4. (CHOOSE n \in DOMAIN log : IsLast(n)) = i
      BY <3>1, <3>2
    <3>5. QED
      BY <2>1, <3>1, <3>3, <3>4
  <2>2. CASE r.kind # "before"
    <3> DEFINE IsFirst(i) == \A j \in SeenAfter(t) : i <= j
    <3>1. r.kind = "after"
      BY <2>2 DEF ProbesInv, ResultsSound
    <3>2. PICK i \in SeenAfter(t) : IsFirst(i) /\ r.alive = AliveIn(r.constraint, log[i])
      BY <1>2, <1>4, <3>1 DEF ProbesInv, ResultsSound, AnsweredAfter
    <3>3. \A j \in SeenAfter(t) : IsFirst(j) => j = i
      <4>1. SUFFICES ASSUME NEW j \in SeenAfter(t), IsFirst(j) PROVE j = i
        OBVIOUS
      <4>2. i <= j /\ j <= i
        BY <3>2, <4>1
      <4>3. i \in Nat /\ j \in Nat
        BY <1>1, <1>2 DEF SeenIn
      <4>4. QED
        BY <4>2, <4>3
    <3>4. NextSeen(t) = log[CHOOSE n \in SeenAfter(t) : IsFirst(n)]
      BY DEF NextSeen
    <3> HIDE DEF IsFirst
    <3>5. (CHOOSE n \in SeenAfter(t) : IsFirst(n)) = i
      BY <3>2, <3>3
    <3>6. QED
      BY <2>2, <3>2, <3>4, <3>5
  <2>3. QED
    BY <2>1, <2>2
<1>5. ASSUME NEW ep, Asked(ep, finished, log, probes, pendingAfter, results),
             NEW d \in Deltas, NEW t, t = ep.first + d
      PROVE  /\ Answered(ep, d, "before", results) <=> (t < now \/ finished)
             /\ Answered(ep, d, "after", results) <=> SeenAfter(t) # {}
  <2> DEFINE p == ProbeOf(ep, d)
  <2>1. /\ p \in probes \/ Answered(ep, d, "before", results)
        /\ \/ p \in probes \cup pendingAfter
           \/ SeenIn(log, t) = {}
           \/ Answered(ep, d, "after", results)
    BY <1>5 DEF Asked
  <2>2. p.first = ep.first /\ p.delta = d
    BY DEF ProbeOf
  <2> HIDE DEF p
  <2>3. t \in Int
    BY <1>5, ScannerAssumption DEF Asked
  <2>4. p \in probes => ~finished /\ ~(t < now) /\ SeenIn(log, t) = {}
    <3>1. SUFFICES ASSUME p \in probes PROVE ~finished /\ ~(t < now) /\ SeenIn(log, t) = {}
      OBVIOUS
    <3>2. ~finished /\ now <= t
      BY <1>5, <2>2, <3>1 DEF ProbesInv, ProbesSound, DueAt
    <3>3. \A i \in DOMAIN log : ~(log[i].ts > t)
      BY <1>3, <2>3, <3>2
    <3>4. QED
      BY <1>3, <2>3, <3>2, <3>3 DEF SeenIn
  <2>5. p \in pendingAfter => SeenIn(log, t) = {}
    BY <1>5, <2>2 DEF ProbesInv, ProbesSound, DueAt
  <2>6. Answered(ep, d, "before", results) => t < now \/ finished
    BY <1>5 DEF Answered, ProbesInv, ResultsSound
  <2>7. Answered(ep, d, "after", results) => SeenIn(log, t) # {}
    BY <1>5 DEF Answered, ProbesInv, ResultsSound, AnsweredAfter
  <2>8. QED
    BY <1>2, <2>1, <2>4, <2>5, <2>6, <2>7
<1>6. \A ep \in {open[k] : k \in DOMAIN open} \cup {d.episode : d \in done} :
          Asked(ep, finished, log, probes, pendingAfter, results)
  BY DEF ProbesInv, EpisodesAsked
<1>7. QED
  BY <1>4, <1>5, <1>6 DEF ProbesAreBracketed, Answered

(***************************************************************************)
(* Whatever the batches bring and whatever becomes of an episode, its      *)
(* probes are answered as of their instant and by the first sighting       *)
(* after it, as soon as these are known (Scanner._flush_probes_before,     *)
(* Scanner._flush_pending_after).                                          *)
(***************************************************************************)
THEOREM ProbesStayBracketed == ArbSpec => []ProbesAreBracketed
<1>1. ArbInit => ProbesInv
  <2>1. SUFFICES ASSUME ArbInit PROVE ProbesInv
    OBVIOUS
  <2>2. /\ log = <<>> /\ now = 0 /\ open = <<>> /\ done = {} /\ probes = {}
        /\ pendingAfter = {} /\ results = {}
    <3>1. \A relations : ScanInit(relations) =>
              /\ now = 0 /\ open = <<>> /\ done = {} /\ probes = {}
              /\ pendingAfter = {} /\ results = {}
      BY DEF ScanInit
    <3>2. ScanInit(BuildSpecs(events)) /\ log = <<>>
      BY <2>1 DEF ArbInit
    <3>3. QED
      BY <3>1, <3>2
  <2>3. DOMAIN open = {} /\ DOMAIN log = {} /\ log \in Seq({log[i] : i \in DOMAIN log})
    BY <2>2
  <2>4. QED
    BY <2>2, <2>3 DEF ProbesInv, LogSound, ResultsSound, ProbesSound, EpisodesAsked
<1>2. ProbesInv /\ [ArbNext]_arbVars => ProbesInv'
  <2>1. SUFFICES ASSUME ProbesInv, [ArbNext]_arbVars PROVE ProbesInv'
    OBVIOUS
  <2>2. CASE \E batch \in Batches, ts \in now + 1 .. MaxTime : Observe(batch, ts)
    BY <2>1, <2>2, BatchKeepsProbes
  <2>3. CASE Finish /\ UNCHANGED <<fresh, log>>
    BY <2>1, <2>3, FinishKeepsProbes
  <2>4. CASE UNCHANGED arbVars
    <3>1. UNCHANGED <<now, books, closed, open, done, probes, pendingAfter, results, finished, log>>
      BY <2>4 DEF arbVars, scanVars
    <3>2. QED
      BY <2>1, <3>1 DEF ProbesInv, LogSound, ResultsSound, ProbesSound, EpisodesAsked, DueAt
  <2>5. QED
    BY <2>1, <2>2, <2>3, <2>4 DEF ArbNext
<1>3. QED
  BY <1>1, <1>2, ProbesInvBrackets, PTL DEF ArbSpec

----------------------------------------------------------------------------
(* Exposure. *)

\* Watched, as a function of when books were seen and what time it is.
WatchedIn(seen, n) ==
    {x \in 0 .. n - 1 : \E t \in seen : /\ t <= x
                                        /\ \/ \A u \in seen : u <= x
                                           \/ \E u \in seen : x < u /\ u - t <= GapAfter}

LEMMA WatchedIsFinite ==
    ASSUME NEW seen, NEW n \in Nat
    PROVE  IsFiniteSet(WatchedIn(seen, n)) /\ Cardinality(WatchedIn(seen, n)) \in Nat
<1>1. IsFiniteSet(0 .. n - 1) /\ WatchedIn(seen, n) \in SUBSET (0 .. n - 1)
  BY FS_Interval DEF WatchedIn
<1>2. QED
  BY <1>1, FS_Subset, FS_CardinalityType

\* Time that goes on without a gap is watched.
LEMMA WatchedGoesOn ==
    ASSUME NEW seen, NEW n \in Nat, NEW m \in Nat, n < m, NEW last \in seen,
           seen \subseteq 1 .. n, \A t \in seen : t <= last,
           NEW later, later = seen \/ (later = seen \cup {m} /\ m - last <= GapAfter)
    PROVE  Cardinality(WatchedIn(later, m)) = Cardinality(WatchedIn(seen, n)) + (m - n)
<1>1. GapAfter \in Nat /\ last \in Nat /\ last <= n /\ \A t \in seen : t \in Nat
  BY ScannerAssumption
<1>2. ASSUME NEW x \in 0 .. n - 1 PROVE x \in WatchedIn(later, m) <=> x \in WatchedIn(seen, n)
  <2> DEFINE In(S) == \E t \in S : /\ t <= x
                                   /\ \/ \A u \in S : u <= x
                                      \/ \E u \in S : x < u /\ u - t <= GapAfter
  <2>1. x \in 0 .. m - 1 /\ x \in Int
    BY <1>2
  <2>2. (x \in WatchedIn(later, m) <=> In(later)) /\ (x \in WatchedIn(seen, n) <=> In(seen))
    BY <2>1 DEF WatchedIn
  <2>3. CASE later = seen
    BY <2>2, <2>3
  <2>4. CASE later = seen \cup {m} /\ m - last <= GapAfter
    <3>1. In(seen) => In(later)
      <4>1. SUFFICES ASSUME NEW t \in seen, t <= x,
                            \/ \A u \in seen : u <= x
                            \/ \E u \in seen : x < u /\ u - t <= GapAfter
                     PROVE  In(later)
        OBVIOUS
      <4>2. CASE \E u \in seen : x < u /\ u - t <= GapAfter
        BY <2>4, <4>1, <4>2
      <4>3. CASE \A u \in seen : u <= x
        <5>1. last <= x /\ x < m /\ last \in later /\ m \in later
          BY <2>1, <2>4, <4>3
        <5>2. QED
          BY <2>4, <5>1
      <4>4. QED
        BY <4>1, <4>2, <4>3
    <3>2. In(later) => In(seen)
      <4>1. SUFFICES ASSUME NEW t \in later, t <= x,
                            \/ \A u \in later : u <= x
                            \/ \E u \in later : x < u /\ u - t <= GapAfter
                     PROVE  In(seen)
        OBVIOUS
      <4>2. t \in seen /\ ~(m <= x)
        BY <1>2, <2>4, <4>1
      <4>3. PICK u \in later : x < u /\ u - t <= GapAfter
        BY <2>4, <4>1, <4>2
      <4>4. CASE u \in seen
        BY <4>1, <4>2, <4>3, <4>4
      <4>5. CASE u = m
        <5>1. CASE last <= x
          <6>1. \A v \in seen : v <= x
            BY <1>1, <2>1, <5>1
          <6>2. QED
            BY <4>1, <4>2, <6>1
        <5>2. CASE ~(last <= x)
          <6>1. x < last /\ last - t <= GapAfter
            BY <1>1, <2>1, <4>2, <4>3, <4>5, <5>2
          <6>2. QED
            BY <4>1, <4>2, <6>1
        <5>3. QED
          BY <5>1, <5>2
      <4>6. QED
        BY <2>4, <4>3, <4>4, <4>5
    <3>3. QED
      BY <2>2, <3>1, <3>2
  <2>5. QED
    BY <2>3, <2>4
<1>3. ASSUME NEW x \in n .. m - 1 PROVE x \in WatchedIn(later, m)
  <2>1. x \in 0 .. m - 1 /\ last <= x /\ last \in later /\ x \in Int
    BY <1>1
  <2>2. CASE later = seen
    <3>1. \A u \in later : u <= x
      BY <1>1, <2>1, <2>2
    <3>2. QED
      BY <2>1, <3>1 DEF WatchedIn
  <2>3. CASE later = seen \cup {m} /\ m - last <= GapAfter
    <3>1. m \in later /\ x < m
      BY <2>1, <2>3
    <3>2. QED
      BY <2>1, <2>3, <3>1 DEF WatchedIn
  <2>4. QED
    BY <2>2, <2>3
<1>4. /\ WatchedIn(later, m) \subseteq 0 .. m - 1 /\ WatchedIn(seen, n) \subseteq 0 .. n - 1
      /\ 0 .. m - 1 = (0 .. n - 1) \cup (n .. m - 1) /\ (0 .. n - 1) \cap (n .. m - 1) = {}
  BY DEF WatchedIn
<1>5. /\ WatchedIn(later, m) = WatchedIn(seen, n) \cup (n .. m - 1)
      /\ WatchedIn(seen, n) \cap (n .. m - 1) = {}
  BY <1>2, <1>3, <1>4
<1>6. IsFiniteSet(n .. m - 1) /\ Cardinality(n .. m - 1) = m - n
  BY FS_Interval
<1> DEFINE w == WatchedIn(seen, n)
           new == n .. m - 1
<1>7. IsFiniteSet(w) /\ Cardinality(w) \in Nat
  BY WatchedIsFinite
<1> HIDE DEF w, new
<1>8. Cardinality(w \cup new) = Cardinality(w) + Cardinality(new) - Cardinality(w \cap new)
  BY <1>6, <1>7, FS_Union DEF new
<1>9. Cardinality(w \cap new) = 0
  BY <1>5, FS_EmptySet DEF w, new
<1>10. QED
  BY <1>5, <1>6, <1>7, <1>8, <1>9 DEF w, new

\* A gap takes back what had seemed watched since the last sighting.
LEMMA WatchedAfterGap ==
    ASSUME NEW seen, NEW n \in Nat, NEW m \in Nat, n < m, NEW last \in seen,
           seen \subseteq 1 .. n, \A t \in seen : t <= last, m - last > GapAfter
    PROVE  Cardinality(WatchedIn(seen \cup {m}, m)) = Cardinality(WatchedIn(seen, n)) - (n - last)
<1> DEFINE later == seen \cup {m}
<1>1. GapAfter \in Nat /\ last \in Nat /\ last <= n /\ last > 0 /\ \A t \in seen : t \in Nat
  BY ScannerAssumption
<1>2. ASSUME NEW x \in 0 .. last - 1 PROVE x \in WatchedIn(later, m) <=> x \in WatchedIn(seen, n)
  <2>1. x \in 0 .. m - 1 /\ x \in 0 .. n - 1 /\ x \in Int /\ x < last /\ ~(m <= x)
    BY <1>1
  <2>2. ASSUME NEW t \in seen, t <= x
        PROVE  (\E u \in later : x < u /\ u - t <= GapAfter)
                  <=> (\E u \in seen : x < u /\ u - t <= GapAfter)
    <3>1. ASSUME m - t <= GapAfter PROVE last - t <= GapAfter
      BY <1>1, <2>1, <2>2, <3>1
    <3>2. QED
      BY <2>1, <3>1
  <2>3. ~(\A u \in later : u <= x) /\ ~(\A u \in seen : u <= x)
    BY <1>1, <2>1
  <2>4. \A t \in later : t <= x => t \in seen
    BY <2>1
  <2> HIDE DEF later
  <2>5. /\ x \in WatchedIn(later, m)
              <=> \E t \in later : t <= x /\ \E u \in later : x < u /\ u - t <= GapAfter
        /\ x \in WatchedIn(seen, n)
              <=> \E t \in seen : t <= x /\ \E u \in seen : x < u /\ u - t <= GapAfter
    BY <2>1, <2>3 DEF WatchedIn
  <2>6. seen \subseteq later
    BY DEF later
  <2>7. QED
    BY <2>2, <2>4, <2>5, <2>6
<1>3. ASSUME NEW x \in last .. m - 1 PROVE x \notin WatchedIn(later, m)
  <2>1. SUFFICES ASSUME NEW t \in later, t <= x,
                        \/ \A u \in later : u <= x
                        \/ \E u \in later : x < u /\ u - t <= GapAfter
                 PROVE  FALSE
    BY DEF WatchedIn
  <2>2. x \in Int /\ last <= x /\ x < m /\ ~(m <= x)
    BY <1>1
  <2>3. t \in seen
    BY <2>1, <2>2
  <2>4. PICK u \in later : x < u /\ u - t <= GapAfter
    BY <2>1, <2>2
  <2>5. \A v \in seen : ~(x < v)
    BY <1>1, <2>2
  <2>6. u = m
    BY <2>4, <2>5
  <2>7. t <= last /\ t \in Nat
    BY <1>1, <2>3
  <2>8. QED
    BY <1>1, <2>4, <2>6, <2>7
<1>4. ASSUME NEW x \in last .. n - 1 PROVE x \in WatchedIn(seen, n)
  <2>1. x \in 0 .. n - 1 /\ last <= x /\ \A u \in seen : u <= x
    BY <1>1
  <2>2. QED
    BY <2>1 DEF WatchedIn
<1>5. /\ WatchedIn(later, m) \subseteq 0 .. m - 1 /\ WatchedIn(seen, n) \subseteq 0 .. n - 1
      /\ 0 .. m - 1 = (0 .. last - 1) \cup (last .. m - 1)
      /\ 0 .. n - 1 = (0 .. last - 1) \cup (last .. n - 1)
      /\ (0 .. last - 1) \cap (last .. n - 1) = {}
  BY <1>1 DEF WatchedIn
<1> HIDE DEF later
<1>6. /\ WatchedIn(later, m) = WatchedIn(seen, n) \ (last .. n - 1)
      /\ WatchedIn(seen, n) \cap (last .. n - 1) = last .. n - 1
  BY <1>2, <1>3, <1>4, <1>5
<1>7. Cardinality(last .. n - 1) = n - last
  BY <1>1, FS_Interval
<1> DEFINE w == WatchedIn(seen, n)
           lost == last .. n - 1
<1>8. IsFiniteSet(w)
  BY WatchedIsFinite
<1> HIDE DEF w, lost
<1>9. Cardinality(w \ lost) = Cardinality(w) - Cardinality(w \cap lost)
  BY <1>8, FS_Difference
<1>10. QED
  BY <1>6, <1>7, <1>9 DEF w, lost, later

SightingsSound ==
    /\ log \in Seq({log[i] : i \in DOMAIN log})
    /\ now \in Nat /\ Sightings \subseteq 1 .. now
    /\ IF lastLive = None THEN Sightings = {}
       ELSE lastLive \in Sightings /\ \A t \in Sightings : t <= lastLive

\* An observable relation became so when books were seen.
ActiveSound(s) ==
    /\ activeSince[s] \in Nat /\ Members(s.relation) \subseteq DOMAIN books
    /\ lastLive # None /\ activeSince[s] <= lastLive
    /\ exposure[s] + (now - activeSince[s]) <= Cardinality(WatchedIn(Sightings, now))

(***************************************************************************)
(* Once a relation is no longer observable it never is again, for one of   *)
(* its markets is closed: what it was exposed for needs no bound then.     *)
(***************************************************************************)
ExposureInv ==
    /\ SightingsSound
    /\ \A s \in specs : exposure[s] \in Nat
    /\ DOMAIN activeSince \subseteq specs
    /\ \A s \in DOMAIN activeSince : ActiveSound(s)
    /\ ~finished => \A s \in specs \ DOMAIN activeSince :
                        exposure[s] = 0 \/ Members(s.relation) \cap closed # {}

LEMMA BatchKeepsExposure ==
    ASSUME ExposureInv, NEW batch, NEW ts \in now + 1 .. MaxTime, Observe(batch, ts)
    PROVE  ExposureInv'
<1> DEFINE e == [ts |-> ts, books |-> books', closed |-> closed',
                 updated |-> DOMAIN batch.updates, confirm |-> batch.confirm,
                 observed |-> ObservesBooks(batch)]
           E == {log[i] : i \in DOMAIN log}
           sees == ObservesBooks(batch)
           blind == Blind(batch, ts)
           was == Cardinality(WatchedIn(Sightings, now))
           is == Cardinality(WatchedIn(Sightings', ts))
           touched == Touching(DOMAIN batch.updates \cup (batch.closes \ closed))
           active == {s \in specs : IF s \in touched THEN SpecActive(s, books', closed')
                                    ELSE s \in DOMAIN activeSince}
           since == SinceAfterGap(batch, ts)
           untilGap(s) == IF blind /\ s \in DOMAIN activeSince
                          THEN MaxOf(0, lastLive - activeSince[s]) ELSE 0
           untilNow(s) == IF s \in DOMAIN since \ active THEN MaxOf(0, ts - since[s]) ELSE 0
<1>1. /\ ~finished /\ finished' = finished /\ now' = ts /\ specs' = specs
      /\ log' = Append(log, e) /\ UpdateActivity(batch, ts)
      /\ closed' = closed \cup batch.closes /\ books' = Seen(batch)
      /\ lastLive' = IF sees THEN ts ELSE lastLive
  BY DEF Observe, Process
<1>2. now \in Nat /\ ts \in Nat /\ now < ts /\ log \in Seq(E) /\ None \notin Int
  BY RelationsAssumption DEF ExposureInv, SightingsSound
<1>3. e.ts = ts /\ e.observed = sees
  OBVIOUS
<1>4. /\ activeSince' = [s \in active |-> IF s \in DOMAIN since THEN since[s] ELSE ts]
      /\ exposure' = [s \in specs |-> exposure[s] + untilGap(s) + untilNow(s)]
  BY <1>1 DEF UpdateActivity
<1>5. since = [s \in DOMAIN activeSince |-> IF blind THEN ts ELSE activeSince[s]]
  BY DEF SinceAfterGap
<1>6. blind <=> sees /\ lastLive # None /\ ts - lastLive > GapAfter
  BY DEF Blind
<1>7. sees \in BOOLEAN /\ blind \in BOOLEAN
  BY DEF ObservesBooks, Blind
<1> HIDE DEF e, E, sees, blind, since
<1>8. Sightings' = Sightings \cup (IF sees THEN {ts} ELSE {})
  <2> DEFINE at(l) == {j \in DOMAIN l : l[j].observed}
  <2>1. /\ Len(log) \in Nat /\ DOMAIN log = 1 .. Len(log) /\ DOMAIN log' = 1 .. Len(log) + 1
        /\ \A i \in 1 .. Len(log) : log'[i] = log[i]
        /\ log'[Len(log) + 1] = e
    BY <1>1, <1>2, LogGrows
  <2>2. 1 .. Len(log) + 1 = 1 .. Len(log) \cup {Len(log) + 1}
    BY <2>1
  <2>3. at(log') = at(log) \cup (IF sees THEN {Len(log) + 1} ELSE {})
    BY <1>3, <2>1, <2>2
  <2>4. \A j \in at(log) : log'[j] = log[j]
    BY <2>1
  <2>5. Sightings = {log[i].ts : i \in at(log)} /\ Sightings' = {log'[i].ts : i \in at(log')}
    BY DEF Sightings
  <2> HIDE DEF at
  <2>6. QED
    BY <1>3, <2>1, <2>3, <2>4, <2>5
<1>9. /\ Sightings \subseteq 1 .. now
      /\ lastLive = None => Sightings = {}
      /\ lastLive # None => lastLive \in Sightings /\ \A t \in Sightings : t <= lastLive
  BY DEF ExposureInv, SightingsSound
<1>10. SightingsSound'
  <2>1. Sightings' \subseteq 1 .. ts
    BY <1>2, <1>8, <1>9
  <2>2. IF lastLive' = None THEN Sightings' = {}
        ELSE lastLive' \in Sightings' /\ \A t \in Sightings' : t <= lastLive'
    <3>1. CASE sees
      BY <1>1, <1>2, <1>8, <2>1, <3>1
    <3>2. CASE ~sees
      BY <1>1, <1>8, <1>9, <3>2
    <3>3. QED
      BY <3>1, <3>2
  <2>3. log' \in Seq({log'[i] : i \in DOMAIN log'})
    BY <1>1, <1>2, LogGrows
  <2>4. QED
    BY <1>1, <1>2, <2>1, <2>2, <2>3 DEF SightingsSound
<1>11. was \in Nat /\ is \in Nat
  BY <1>2, WatchedIsFinite
<1>12. (lastLive # None /\ ~blind) => is = was + (ts - now)
  <2>1. SUFFICES ASSUME lastLive # None, ~blind PROVE is = was + (ts - now)
    OBVIOUS
  <2>2. lastLive \in Sightings /\ \A t \in Sightings : t <= lastLive
    BY <1>9, <2>1
  <2>3. Sightings' = Sightings \/ (Sightings' = Sightings \cup {ts} /\ ts - lastLive <= GapAfter)
    <3>1. lastLive \in Int /\ GapAfter \in Int
      BY <1>9, <2>2, ScannerAssumption
    <3>2. QED
      BY <1>2, <1>6, <1>8, <2>1, <3>1
  <2>4. \A later : (later = Sightings \/ (later = Sightings \cup {ts} /\ ts - lastLive <= GapAfter))
            => Cardinality(WatchedIn(later, ts)) = was + (ts - now)
    <3> DEFINE seen == Sightings
    <3>1. seen \subseteq 1 .. now /\ lastLive \in seen /\ \A t \in seen : t <= lastLive
      BY <1>9, <2>2
    <3> HIDE DEF seen
    <3>2. \A later : (later = seen \/ (later = seen \cup {ts} /\ ts - lastLive <= GapAfter))
              => Cardinality(WatchedIn(later, ts)) = Cardinality(WatchedIn(seen, now)) + (ts - now)
      BY <1>2, <3>1, WatchedGoesOn
    <3>3. QED
      BY <3>2 DEF seen
  <2>5. QED
    BY <2>3, <2>4
<1>13. blind => is = was - (now - lastLive)
  <2>1. SUFFICES ASSUME blind PROVE is = was - (now - lastLive)
    OBVIOUS
  <2>2. /\ lastLive \in Sightings /\ \A t \in Sightings : t <= lastLive
        /\ ts - lastLive > GapAfter /\ Sightings' = Sightings \cup {ts}
    BY <1>6, <1>8, <1>9, <2>1
  <2>3. QED
    BY <1>2, <1>9, <2>2, WatchedAfterGap
<1> HIDE DEF was, is, touched
<1>14. /\ DOMAIN activeSince \subseteq specs /\ DOMAIN since = DOMAIN activeSince
       /\ \A s \in specs : exposure[s] \in Nat
       /\ \A s \in DOMAIN activeSince :
             /\ activeSince[s] \in Nat /\ Members(s.relation) \subseteq DOMAIN books
             /\ lastLive # None /\ activeSince[s] <= lastLive
             /\ exposure[s] + (now - activeSince[s]) <= was
       /\ \A s \in specs \ DOMAIN activeSince :
             exposure[s] = 0 \/ Members(s.relation) \cap closed # {}
  BY <1>1, <1>5 DEF ExposureInv, ActiveSound, was
<1>15. lastLive # None => lastLive \in Nat /\ lastLive <= now
  <2>1. \A t \in Sightings : t \in Nat /\ t <= now
    BY <1>9
  <2>2. QED
    BY <1>9, <2>1
<1>16. DOMAIN books \subseteq DOMAIN books'
  BY <1>1 DEF Seen
<1>17. \A x, y \in Int : MaxOf(x, y) = IF x <= y THEN y ELSE x
  BY DEF MaxOf
<1>18. ASSUME NEW s \in specs
       PROVE  untilGap(s) \in Nat /\ untilNow(s) \in Nat
  <2>1. untilGap(s) \in Nat
    BY <1>14, <1>15, <1>17
  <2>2. s \in DOMAIN since => since[s] \in Nat
    BY <1>2, <1>5, <1>14
  <2>3. untilNow(s) \in Nat
    BY <1>2, <1>17, <2>2
  <2>4. QED
    BY <2>1, <2>3
<1>19. \A s \in specs : exposure'[s] = exposure[s] + untilGap(s) + untilNow(s)
  BY <1>4
<1>20. \A s \in specs : exposure'[s] \in Nat
  BY <1>14, <1>18, <1>19
<1>21. DOMAIN activeSince' = active /\ active \subseteq specs
  BY <1>4
<1>22. ASSUME NEW s \in active
       PROVE  /\ activeSince'[s] \in Nat /\ Members(s.relation) \subseteq DOMAIN books'
              /\ lastLive' # None /\ activeSince'[s] <= lastLive'
              /\ exposure'[s] + (ts - activeSince'[s]) <= is
  <2>1. untilNow(s) = 0
    OBVIOUS
  <2>2. CASE s \in DOMAIN activeSince
    <3>1. activeSince'[s] = since[s] /\ s \in specs
      BY <1>4, <1>14, <2>2
    <3>2. Members(s.relation) \subseteq DOMAIN books'
      BY <1>14, <1>16, <2>2
    <3>3. CASE blind
      <4>1. /\ activeSince'[s] = ts /\ lastLive' = ts
            /\ untilGap(s) = lastLive - activeSince[s]
        BY <1>1, <1>5, <1>6, <1>14, <1>15, <1>17, <2>2, <3>1, <3>3
      <4>2. exposure'[s] = exposure[s] + (lastLive - activeSince[s])
        BY <1>14, <1>15, <1>19, <2>1, <2>2, <3>1, <4>1
      <4>3. exposure'[s] <= is
        BY <1>2, <1>11, <1>13, <1>14, <1>15, <2>2, <3>1, <3>3, <4>2
      <4>4. QED
        BY <1>2, <1>20, <3>1, <3>2, <4>1, <4>3
    <3>4. CASE ~blind
      <4>1. activeSince'[s] = activeSince[s] /\ untilGap(s) = 0
        BY <1>5, <2>2, <3>1, <3>4
      <4>2. exposure'[s] = exposure[s]
        BY <1>14, <1>19, <2>1, <3>1, <4>1
      <4>3. lastLive' # None /\ activeSince[s] <= lastLive'
        BY <1>1, <1>2, <1>14, <1>15, <2>2
      <4>4. exposure'[s] + (ts - activeSince'[s]) <= is
        BY <1>2, <1>11, <1>12, <1>14, <2>2, <3>1, <3>4, <4>1, <4>2
      <4>5. QED
        BY <1>14, <2>2, <3>2, <4>1, <4>3, <4>4
    <3>5. QED
      BY <3>3, <3>4
  <2>3. CASE s \notin DOMAIN activeSince
    <3>1. s \in touched /\ SpecActive(s, books', closed') /\ s \in specs
      BY <2>3
    <3>2. Members(s.relation) \subseteq DOMAIN books' /\ Members(s.relation) \cap closed' = {}
      BY <3>1 DEF SpecActive
    <3>3. exposure[s] = 0
      BY <1>1, <1>14, <2>3, <3>1, <3>2
    <3>4. sees
      BY <1>1, <3>1, <3>2 DEF touched, Touching, sees, ObservesBooks
    <3>5. activeSince'[s] = ts /\ lastLive' = ts
      BY <1>1, <1>4, <1>14, <2>3, <3>4
    <3>6. exposure'[s] = 0
      BY <1>19, <2>1, <2>3, <3>1, <3>3
    <3>7. QED
      BY <1>2, <1>11, <3>2, <3>5, <3>6
  <2>4. QED
    BY <2>2, <2>3
<1>23. ASSUME NEW s \in specs \ active
       PROVE  exposure'[s] = 0 \/ Members(s.relation) \cap closed' # {}
  <2>1. CASE s \in DOMAIN activeSince
    <3>1. s \in touched /\ ~SpecActive(s, books', closed')
      BY <2>1
    <3>2. Members(s.relation) \subseteq DOMAIN books'
      BY <1>14, <1>16, <2>1
    <3>3. QED
      BY <3>1, <3>2 DEF SpecActive
  <2>2. CASE s \notin DOMAIN activeSince
    <3>1. exposure[s] = 0 \/ Members(s.relation) \cap closed' # {}
      BY <1>1, <1>14, <2>2
    <3>2. untilGap(s) = 0 /\ untilNow(s) = 0
      BY <1>14, <2>2
    <3>3. exposure'[s] = exposure[s]
      BY <1>14, <1>19, <3>2
    <3>4. QED
      BY <3>1, <3>3
  <2>3. QED
    BY <2>1, <2>2
<1>24. \A s \in DOMAIN activeSince' : ActiveSound(s)'
  BY <1>1, <1>21, <1>22 DEF ActiveSound, is
<1>25. QED
  BY <1>1, <1>10, <1>20, <1>21, <1>23, <1>24 DEF ExposureInv

(***************************************************************************)
(* Gaps are never counted as exposure, however batches, closes and gaps    *)
(* follow one another (Scanner._check_gap, Scanner._update_activity).      *)
(***************************************************************************)
THEOREM ExposureStaysWatched == ArbSpec => []ExposureIsWatched
<1>1. ArbInit => ExposureInv
  <2>1. SUFFICES ASSUME ArbInit PROVE ExposureInv
    OBVIOUS
  <2>2. /\ log = <<>> /\ now = 0 /\ activeSince = <<>> /\ lastLive = None
        /\ exposure = [s \in specs |-> 0]
    <3>1. \A relations : ScanInit(relations) =>
              /\ now = 0 /\ activeSince = <<>> /\ lastLive = None /\ specs = relations
              /\ exposure = [s \in relations |-> 0]
      BY DEF ScanInit
    <3>2. ScanInit(BuildSpecs(events)) /\ log = <<>>
      BY <2>1 DEF ArbInit
    <3>3. QED
      BY <3>1, <3>2
  <2>3. /\ DOMAIN activeSince = {} /\ DOMAIN log = {} /\ log \in Seq({log[i] : i \in DOMAIN log})
        /\ Sightings = {} /\ \A s \in specs : exposure[s] = 0
    BY <2>2 DEF Sightings
  <2>4. QED
    BY <2>2, <2>3 DEF ExposureInv, SightingsSound
<1>2. ExposureInv /\ [ArbNext]_arbVars => ExposureInv'
  <2>1. SUFFICES ASSUME ExposureInv, [ArbNext]_arbVars PROVE ExposureInv'
    OBVIOUS
  <2>2. CASE \E batch \in Batches, ts \in now + 1 .. MaxTime : Observe(batch, ts)
    BY <2>1, <2>2, BatchKeepsExposure
  <2>3. CASE Finish /\ UNCHANGED <<fresh, log>>
    <3>1. /\ finished' /\ activeSince' = <<>> /\ log' = log
          /\ UNCHANGED <<specs, now, lastLive>>
          /\ exposure' = [s \in specs |-> exposure[s]
                             + IF s \in DOMAIN activeSince THEN now - activeSince[s] ELSE 0]
      BY <2>3 DEF Finish
    <3>2. DOMAIN activeSince' = {}
      BY <3>1
    <3>3. SightingsSound'
      BY <2>1, <3>1 DEF ExposureInv, SightingsSound, Sightings
    <3>4. ASSUME NEW s \in specs PROVE exposure'[s] \in Nat
      <4>1. exposure[s] \in Nat /\ now \in Nat
        BY <2>1 DEF ExposureInv, SightingsSound
      <4>2. CASE s \in DOMAIN activeSince
        <5>1. activeSince[s] \in Nat /\ activeSince[s] <= lastLive /\ lastLive \in 1 .. now
          BY <2>1, <4>2 DEF ExposureInv, SightingsSound, ActiveSound
        <5>2. now - activeSince[s] \in Nat
          BY <4>1, <5>1
        <5>3. QED
          BY <3>1, <4>1, <4>2, <5>2
      <4>3. CASE s \notin DOMAIN activeSince
        BY <3>1, <4>1, <4>3
      <4>4. QED
        BY <4>2, <4>3
    <3>5. QED
      BY <3>1, <3>2, <3>3, <3>4 DEF ExposureInv
  <2>4. CASE UNCHANGED arbVars
    <3>1. UNCHANGED <<specs, now, books, closed, activeSince, exposure, lastLive, finished, log>>
      BY <2>4 DEF arbVars, scanVars
    <3>2. QED
      BY <2>1, <3>1 DEF ExposureInv, SightingsSound, ActiveSound, Sightings
  <2>5. QED
    BY <2>1, <2>2, <2>3, <2>4 DEF ArbNext
<1>3. ExposureInv => ExposureIsWatched
  <2>1. Watched = WatchedIn(Sightings, now)
    BY DEF Watched, IsWatched, WatchedIn
  <2>2. QED
    BY <2>1 DEF ExposureInv, ActiveSound, ExposureIsWatched
<1>4. QED
  BY <1>1, <1>2, <1>3, PTL DEF ArbSpec

=============================================================================
