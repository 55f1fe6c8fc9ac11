--------------------------- MODULE CollectionProofs ---------------------------
(***************************************************************************)
(* Theorems of the programs that gather data, for any markets, any faults  *)
(* and any number of runs: what the recorder's table tells of the books it *)
(* was answered, what the trade sync may still miss of a market, what a    *)
(* paper session's engine is shown of the books and the trades, and how    *)
(* complete the collected events are.                                      *)
(***************************************************************************)
EXTENDS Collection, TLAPS, WellFoundedInduction, FiniteSetTheorems, SequenceTheorems

----------------------------------------------------------------------------
(* Sets of instants. *)

Smaller == {pair \in Nat \X Nat : pair[1] < pair[2]}

\* A set of naturals has a least element, because their order is well-founded.
LEMMA LeastExists ==
    ASSUME NEW ids, ids \subseteq Nat, ids # {}
    PROVE  \E x \in ids : \A y \in ids : x <= y
<1>1. IsWellFoundedOn(Smaller, Nat)
  <2>1. OpToRel(<, Nat) = Smaller
    BY DEF OpToRel, Smaller
  <2>2. QED
    BY <2>1, NatLessThanWellFounded
<1>2. PICK x \in ids : \A y \in ids : ~(<<y, x>> \in Smaller)
  <2>1. ids \subseteq Nat /\ ids # {}
    OBVIOUS
  <2>2. QED
    BY <1>1, <2>1, WFMin, Zenon
<1>3. ASSUME NEW y \in ids PROVE x <= y
  <2>1. x \in Nat /\ y \in Nat
    OBVIOUS
  <2>2. y < x => <<y, x>> \in Smaller
    BY <2>1 DEF Smaller
  <2>3. QED
    BY <1>2, <2>1, <2>2
<1>4. QED
  BY <1>3

\* One that does not lie beyond a bound has a greatest.
LEMMA GreatestExists ==
    ASSUME NEW bound \in Nat, NEW ids, ids \subseteq 0 .. bound, ids # {}
    PROVE  \E x \in ids : \A y \in ids : y <= x
<1> DEFINE T == {bound - i : i \in ids}
<1>1. T \subseteq Nat /\ T # {}
  <2>1. \A i \in ids : bound - i \in Nat
    OBVIOUS
  <2>2. QED
    BY <2>1
<1>2. PICK t \in T : \A u \in T : t <= u
  <2> HIDE DEF T
  <2>1. QED
    BY <1>1, LeastExists
<1>3. PICK x \in ids : t = bound - x
  OBVIOUS
<1>4. ASSUME NEW y \in ids PROVE y <= x
  <2>1. bound - x <= bound - y
    BY <1>2, <1>3
  <2>2. x \in Nat /\ y \in Nat
    OBVIOUS
  <2>3. QED
    BY <2>1, <2>2
<1>5. QED
  BY <1>4

----------------------------------------------------------------------------
(* The recorder. *)

\* r is the only row of rows that is as late as it is.
IsLatest(rows, r) == r \in rows /\ \A s \in rows : s.at <= r.at /\ (s.at = r.at => s = r)

LEMMA LatestRowIs ==
    ASSUME NEW rows, NEW r, IsLatest(rows, r), \A s \in rows : s.at \in Nat
    PROVE  LatestRow(rows) = r
<1>1. r \in rows /\ \A s \in rows : s.at <= r.at
  BY DEF IsLatest
<1> DEFINE latest == LatestRow(rows)
<1>2. latest \in rows /\ \A s \in rows : s.at <= latest.at
  BY <1>1 DEF LatestRow
<1>3. latest.at <= r.at /\ r.at <= latest.at /\ latest.at \in Nat /\ r.at \in Nat
  BY <1>1, <1>2
<1>4. latest.at = r.at
  BY <1>3
<1>5. QED
  BY <1>2, <1>4 DEF IsLatest

\* Rows of different instants that do not lie beyond a bound have a latest one.
LEMMA LatestExists ==
    ASSUME NEW rows, rows # {}, NEW bound \in Nat,
           \A s \in rows : s.at \in 0 .. bound,
           \A r, s \in rows : r.at = s.at => r = s
    PROVE  \E r \in rows : IsLatest(rows, r)
<1> DEFINE ids == {s.at : s \in rows}
<1>1. ids \subseteq 0 .. bound /\ ids # {}
  OBVIOUS
<1>2. PICK x \in ids : \A y \in ids : y <= x
  <2> HIDE DEF ids
  <2>1. QED
    BY <1>1, GreatestExists
<1>3. PICK r \in rows : r.at = x
  OBVIOUS
<1>4. IsLatest(rows, r)
  BY <1>2, <1>3 DEF IsLatest
<1>5. QED
  BY <1>4

\* Snapshots are some of the answers, of which there is one for a market and an instant.
RowsSound ==
    /\ time \in Nat
    /\ snaps \subseteq answered
    /\ \A a \in answered : a.at \in 0 .. time
    /\ \A a, b \in answered : a.market = b.market /\ a.at = b.at => a = b

\* While it polls, the poller knows each market's last row.
LastIsLatest == polling # None => last = [m \in Polled |-> LatestHash(m)]

\* A poll is later than what was stored before it.
PollIsNew ==
    polling = "waiting" =>
        /\ DOMAIN chunks = Chunks
        /\ \A a \in answered : a.at < time
        /\ \A c \in Chunks : chunks[c] # None =>
               /\ chunks[c].at \in 0 .. time /\ DOMAIN chunks[c].answer = c
               /\ \A a \in answered : a.at < chunks[c].at

RecordInv == RowsSound /\ LastIsLatest /\ PollIsNew /\ RecordingIsFaithful

\* A poll answers once of each market, after all that was answered before.
PollSound ==
    /\ \A r \in Received : /\ r.market \in Polled /\ r.at \in 0 .. time
                           /\ \A a \in answered : a.at < r.at
    /\ \A r, s \in Received : r.market = s.market => r = s

LEMMA ReceivedOnce ==
    ASSUME RowsSound, PollIsNew, polling = "waiting", \A c \in Chunks : chunks[c] # None
    PROVE  PollSound
<1> DEFINE FromChunk(r, c) == /\ r.market \in Usable(chunks[c].answer)
                             /\ r = [market |-> r.market, at |-> chunks[c].at,
                                     book |-> chunks[c].answer[r.market]]
<1>1. ASSUME NEW r \in Received PROVE \E c \in Chunks : FromChunk(r, c)
  BY <1>1 DEF Received
<1>2. ASSUME NEW c \in Chunks, NEW m \in Usable(chunks[c].answer) PROVE m \in c /\ m \in Polled
  <2>1. m \in c
    BY <1>2 DEF PollIsNew, Usable
  <2>2. QED
    BY <2>1, RecorderAssumption
<1>3. ASSUME NEW r \in Received
      PROVE  /\ r.market \in Polled /\ r.at \in 0 .. time
             /\ \A a \in answered : a.at < r.at
  <2>1. PICK c \in Chunks : FromChunk(r, c)
    BY <1>1
  <2>2. r.market \in Polled
    BY <1>2, <2>1
  <2>3. /\ r.at = chunks[c].at /\ chunks[c].at \in 0 .. time
        /\ \A a \in answered : a.at < chunks[c].at
    BY <2>1 DEF PollIsNew
  <2>4. QED
    BY <2>2, <2>3
<1>4. ASSUME NEW r \in Received, NEW s \in Received, r.market = s.market PROVE r = s
  <2>1. PICK c \in Chunks : FromChunk(r, c)
    BY <1>1
  <2>2. PICK d \in Chunks : FromChunk(s, d)
    BY <1>1
  <2>3. r.market \in c /\ r.market \in d
    BY <1>2, <1>4, <2>1, <2>2
  <2>4. c = d
    BY <2>3, RecorderAssumption
  <2>5. QED
    BY <1>4, <2>1, <2>2, <2>4
<1>5. QED
  BY <1>3, <1>4 DEF PollSound

\* A poll that is stored is told by the record as it was answered, and the record of earlier
\* polls is not changed by it.
LEMMA StoringIsFaithful ==
    ASSUME RecordInv, StorePoll
    PROVE  RowsSound' /\ LastIsLatest' /\ RecordingIsFaithful'
<1> DEFINE new == {row \in Received : IsNew(row)}
<1>1. /\ polling = "waiting" /\ (\A c \in Chunks : chunks[c] # None)
      /\ snaps' = snaps \cup new /\ answered' = answered \cup Received /\ time' = time
  BY DEF StorePoll, boardVars
<1>2. /\ \A r \in Received : /\ r.market \in Polled /\ r.at \in 0 .. time
                             /\ \A a \in answered : a.at < r.at
      /\ \A r, s \in Received : r.market = s.market => r = s
  <2>1. RowsSound /\ PollIsNew
    BY DEF RecordInv
  <2>2. PollSound
    BY <1>1, <2>1, ReceivedOnce
  <2>3. QED
    BY <2>2 DEF PollSound
<1>3. RowsSound /\ last = [m \in Polled |-> LatestHash(m)]
  BY <1>1, RecorderAssumption DEF RecordInv, LastIsLatest
<1>4. /\ time \in Nat /\ snaps \subseteq answered
      /\ \A a \in answered : a.at \in 0 .. time
      /\ \A a, b \in answered : a.market = b.market /\ a.at = b.at => a = b
  BY <1>3 DEF RowsSound
<1>5. new \subseteq Received
  OBVIOUS
<1>6. RowsSound'
  <2>1. \A a \in answered' : a.at \in 0 .. time'
    BY <1>1, <1>2, <1>4
  <2>2. ASSUME NEW a \in answered', NEW b \in answered', a.market = b.market, a.at = b.at PROVE a = b
    <3>1. CASE a \in answered /\ b \in answered
      BY <1>4, <2>2, <3>1
    <3>2. CASE a \in Received /\ b \in Received
      BY <1>2, <2>2, <3>2
    <3>3. CASE a \in answered /\ b \in Received
      <4>1. a.at < b.at /\ a.at \in Nat
        BY <1>2, <1>4, <3>3
      <4>2. QED
        BY <2>2, <4>1
    <3>4. CASE a \in Received /\ b \in answered
      <4>1. b.at < a.at /\ b.at \in Nat
        BY <1>2, <1>4, <3>4
      <4>2. QED
        BY <2>2, <4>1
    <3>5. QED
      BY <1>1, <3>1, <3>2, <3>3, <3>4
  <2>3. snaps' \subseteq answered'
    BY <1>1, <1>4
  <2>4. QED
    BY <1>1, <1>4, <2>1, <2>2, <2>3 DEF RowsSound
<1> HIDE DEF new
<1>7. ASSUME NEW r \in new PROVE IsLatest(RowsOf(r.market)', r)
  <2>1. r \in RowsOf(r.market)'
    BY <1>1 DEF RowsOf
  <2>2. ASSUME NEW s \in RowsOf(r.market)' PROVE s.at <= r.at /\ (s.at = r.at => s = r)
    <3>1. s.market = r.market /\ (s \in snaps \/ s \in new)
      BY <1>1, <2>2 DEF RowsOf
    <3>2. CASE s \in snaps
      <4>1. s.at < r.at /\ s.at \in Nat /\ r.at \in Nat
        BY <1>2, <1>4, <1>5, <3>2
      <4>2. QED
        BY <4>1
    <3>3. CASE s \in new
      <4>1. s = r /\ r.at \in Nat
        BY <1>2, <1>5, <3>1, <3>3
      <4>2. QED
        BY <4>1
    <3>4. QED
      BY <3>1, <3>2, <3>3
  <2>3. QED
    BY <2>1, <2>2 DEF IsLatest
<1>8. ASSUME NEW m \in Polled, \A r \in new : r.market # m PROVE RowsOf(m)' = RowsOf(m)
  BY <1>1, <1>8 DEF RowsOf
<1>9. \A m : \A s \in RowsOf(m)' : s.at \in Nat
  BY <1>1, <1>2, <1>4, <1>5 DEF RowsOf
<1>10. LastIsLatest'
  <2>1. last' = [m \in Polled |->
            IF \E row \in Received : row.market = m /\ IsNew(row)
            THEN LET row == CHOOSE r \in Received : r.market = m
                 IN  [book |-> row.book, at |-> row.at]
            ELSE last[m]]
    BY DEF StorePoll
  <2>2. ASSUME NEW m \in Polled PROVE last'[m] = LatestHash(m)'
    <3>1. CASE \E r \in new : r.market = m
      <4>1. PICK r \in new : r.market = m
        BY <3>1
      <4>2. (CHOOSE q \in Received : q.market = m) = r
        BY <1>2, <1>5, <4>1
      <4>3. r \in Received /\ IsNew(r)
        BY DEF new
      <4>4. last'[m] = [book |-> r.book, at |-> r.at]
        BY <2>1, <4>1, <4>2, <4>3
      <4>5. IsLatest(RowsOf(m)', r) /\ \A s \in RowsOf(m)' : s.at \in Nat
        BY <1>7, <1>9, <4>1
      <4>6. LatestRow(RowsOf(m)') = r
        BY <4>5, LatestRowIs
      <4>7. r \in RowsOf(m)'
        BY <4>5 DEF IsLatest
      <4>8. QED
        BY <4>4, <4>6, <4>7 DEF LatestHash, LatestRow
    <3>2. CASE ~ \E r \in new : r.market = m
      <4>1. ~ \E row \in Received : row.market = m /\ IsNew(row)
        BY <3>2 DEF new
      <4>2. last'[m] = last[m]
        BY <2>1, <4>1
      <4>3. last[m] = LatestHash(m)
        BY <1>3
      <4>4. RowsOf(m)' = RowsOf(m)
        BY <1>8, <3>2
      <4>5. QED
        BY <4>2, <4>3, <4>4 DEF LatestHash, LatestRow
    <3>3. QED
      BY <3>1, <3>2
  <2>3. QED
    BY <2>1, <2>2 DEF LastIsLatest
<1>11. RecordingIsFaithful'
  <2> SUFFICES ASSUME NEW a \in answered'
               PROVE  /\ BookAt(a.market, a.at)' = a.book
                      /\ a.at - LatestRow(RowsUpTo(a.market, a.at)').at < Max({Heartbeat, 1})
    BY DEF RecordingIsFaithful, LatestRow
  <2>1. CASE a \in answered
    <3>1. RowsUpTo(a.market, a.at)' = RowsUpTo(a.market, a.at)
      <4>1. \A r \in new : ~ (r.at <= a.at)
        <5>1. ASSUME NEW r \in new PROVE ~ (r.at <= a.at)
          <6>1. a.at < r.at /\ a.at \in Nat /\ r.at \in Nat
            BY <1>2, <1>4, <1>5, <2>1
          <6>2. QED
            BY <6>1
        <5>2. QED
          BY <5>1
      <4>2. QED
        BY <1>1, <4>1 DEF RowsUpTo, RowsOf
    <3>2. BookAt(a.market, a.at) = a.book
          /\ a.at - LatestRow(RowsUpTo(a.market, a.at)).at < Max({Heartbeat, 1})
      BY <2>1 DEF RecordInv, RecordingIsFaithful
    <3>3. QED
      BY <3>1, <3>2 DEF BookAt, LatestRow
  <2>2. CASE a \in Received
    <3>1. a.market \in Polled /\ a.at \in Nat
      BY <1>2, <2>2
    <3>2. Max({Heartbeat, 1}) >= Heartbeat /\ Max({Heartbeat, 1}) >= 1 /\ Max({Heartbeat, 1}) \in Nat
      <4>1. Heartbeat \in Nat
        BY RecorderAssumption
      <4>2. \E x \in {Heartbeat, 1} : \A y \in {Heartbeat, 1} : x >= y
        BY <4>1
      <4>3. Max({Heartbeat, 1}) \in {Heartbeat, 1} /\ \A y \in {Heartbeat, 1} : Max({Heartbeat, 1}) >= y
        BY <4>2 DEF Max
      <4>4. QED
        BY <4>1, <4>3
    <3>3. ASSUME NEW r \in RowsOf(a.market)', IsLatest(RowsOf(a.market)', r), r.at <= a.at,
                 \A s \in RowsOf(a.market)' : s.at <= a.at
          PROVE  /\ LatestRow(RowsUpTo(a.market, a.at)') = r
                 /\ BookAt(a.market, a.at)' = r.book
      <4>1. RowsUpTo(a.market, a.at)' = RowsOf(a.market)'
        BY <3>3 DEF RowsUpTo
      <4>2. LatestRow(RowsOf(a.market)') = r
        BY <1>9, <3>3, LatestRowIs
      <4>3. QED
        BY <3>3, <4>1, <4>2 DEF BookAt, LatestRow
    <3>4. \A s \in snaps : s.at <= a.at
      <4>1. ASSUME NEW s \in snaps PROVE s.at <= a.at
        <5>1. s.at < a.at /\ s.at \in Nat
          BY <1>2, <1>4, <2>2
        <5>2. QED
          BY <3>1, <5>1
      <4>2. QED
        BY <4>1
    <3>5. CASE a \in new
      <4>1. IsLatest(RowsOf(a.market)', a)
        BY <1>7, <3>5
      <4>2. a \in RowsOf(a.market)' /\ a.at <= a.at /\ \A s \in RowsOf(a.market)' : s.at <= a.at
        BY <3>1, <4>1 DEF IsLatest
      <4>3. LatestRow(RowsUpTo(a.market, a.at)') = a /\ BookAt(a.market, a.at)' = a.book
        BY <3>3, <4>1, <4>2
      <4>4. QED
        BY <3>1, <3>2, <4>3
    <3>6. CASE a \notin new
      <4>1. ~ IsNew(a)
        BY <2>2, <3>6 DEF new
      <4>2. /\ last[a.market] # None /\ last[a.market].book = a.book
            /\ ~ (a.at - last[a.market].at >= Heartbeat)
        BY <4>1 DEF IsNew
      <4>3. last[a.market] = LatestHash(a.market)
        BY <1>3, <3>1
      <4>4. RowsOf(a.market)' = RowsOf(a.market)
        <5>1. \A r \in new : r.market # a.market
          BY <1>2, <1>5, <2>2, <3>6
        <5>2. QED
          BY <1>8, <3>1, <5>1
      <4>5. RowsOf(a.market) # {}
        BY <4>2, <4>3 DEF LatestHash
      <4>6. PICK r \in RowsOf(a.market) : IsLatest(RowsOf(a.market), r)
        <5>1. \A s \in RowsOf(a.market) : s.at \in 0 .. time
          BY <1>4 DEF RowsOf
        <5>2. \A r, s \in RowsOf(a.market) : r.at = s.at => r = s
          BY <1>4 DEF RowsOf
        <5>3. QED
          BY <1>4, <4>5, <5>1, <5>2, LatestExists
      <4>7. LatestRow(RowsOf(a.market)) = r
        BY <1>9, <4>4, <4>6, LatestRowIs
      <4>8. r.book = a.book /\ ~ (a.at - r.at >= Heartbeat)
        BY <4>2, <4>3, <4>5, <4>7 DEF LatestHash
      <4>9. r \in snaps /\ r.at <= a.at /\ r.at \in Nat /\ \A s \in RowsOf(a.market)' : s.at <= a.at
        BY <1>4, <3>4, <4>4 DEF RowsOf
      <4>10. LatestRow(RowsUpTo(a.market, a.at)') = r /\ BookAt(a.market, a.at)' = r.book
        BY <3>3, <4>4, <4>6, <4>9
      <4>11. a.at - r.at < Max({Heartbeat, 1})
        <5>1. Heartbeat \in Nat
          BY RecorderAssumption
        <5>2. QED
          BY <3>1, <3>2, <4>8, <4>9, <5>1
      <4>12. QED
        BY <4>8, <4>10, <4>11
    <3>7. QED
      BY <3>5, <3>6
  <2>3. QED
    BY <1>1, <2>1, <2>2
<1>12. QED
  BY <1>6, <1>10, <1>11


\* While nothing is stored, what is recorded stays as sound as it was, whatever time does.
LEMMA RecordStays ==
    ASSUME RecordInv, UNCHANGED <<snaps, answered>>, time' \in Nat, time <= time'
    PROVE  RowsSound' /\ RecordingIsFaithful'
<1>1. RowsSound /\ RecordingIsFaithful
  BY DEF RecordInv
<1>2. RowsSound'
  <2>1. \A a \in answered : a.at \in 0 .. time'
    BY <1>1 DEF RowsSound
  <2>2. QED
    BY <1>1, <2>1 DEF RowsSound
<1>3. ASSUME NEW m, NEW t PROVE RowsUpTo(m, t)' = RowsUpTo(m, t)
  BY DEF RowsUpTo, RowsOf
<1>4. ASSUME NEW m, NEW t
      PROVE  BookAt(m, t)' = BookAt(m, t) /\ LatestRow(RowsUpTo(m, t))' = LatestRow(RowsUpTo(m, t))
  <2>1. RowsUpTo(m, t)' = RowsUpTo(m, t)
    BY <1>3
  <2>2. LatestRow(RowsUpTo(m, t))' = LatestRow(RowsUpTo(m, t))
    BY <2>1 DEF LatestRow
  <2>3. QED
    BY <2>1, <2>2 DEF BookAt
<1>5. RecordingIsFaithful'
  BY <1>1, <1>4 DEF RecordingIsFaithful
<1>6. QED
  BY <1>2, <1>5

\* The poller is not started, and its memory holds what the table does.
LEMMA LastStays ==
    ASSUME RecordInv, snaps' = snaps, polling' # None,
           \/ polling # None /\ last' = last
           \/ last' = [m \in Polled |-> LatestHash(m)]
    PROVE  LastIsLatest'
<1>1. last' = [m \in Polled |-> LatestHash(m)]
  BY DEF RecordInv, LastIsLatest
<1>2. \A m : LatestHash(m)' = LatestHash(m)
  BY DEF LatestHash, RowsOf, LatestRow
<1>3. QED
  BY <1>1, <1>2 DEF LastIsLatest

\* Every step of the recorder keeps its invariant.
LEMMA RecordSteps ==
    ASSUME RecordInv, RecordNext
    PROVE  RecordInv'
<1>1. time \in Nat /\ RowsSound /\ LastIsLatest /\ PollIsNew
  BY DEF RecordInv, RowsSound
<1>2. None \notin {"metadata", "idle", "waiting", "logging"}
  BY RecorderAssumption
<1>3. CASE StorePoll
  <2>1. RowsSound' /\ LastIsLatest' /\ RecordingIsFaithful'
    BY <1>3, StoringIsFaithful
  <2>2. PollIsNew'
    BY <1>3 DEF StorePoll, PollIsNew
  <2>3. QED
    BY <2>1, <2>2 DEF RecordInv
<1>4. CASE BoardMoves /\ UNCHANGED <<run, recordTables, poller, answered>>
  <2>1. UNCHANGED <<snaps, answered, polling, last, chunks>>
    BY <1>4 DEF recordTables, poller
  <2>2. time' = time \/ time' = time + 1
    BY <1>4 DEF BoardMoves, TimePasses, BookChanges, MarketShuts
  <2>3. time' \in Nat /\ time <= time'
    BY <1>1, <2>2
  <2>4. RowsSound' /\ RecordingIsFaithful'
    BY <2>1, <2>3, RecordStays
  <2>5. LastIsLatest'
    BY <1>1, <2>1 DEF LastIsLatest, LatestHash, RowsOf, LatestRow
  <2>6. PollIsNew'
    <3>1. SUFFICES ASSUME polling = "waiting" PROVE PollIsNew'
      BY <2>1 DEF PollIsNew
    <3>2. \A a \in answered : a.at < time'
      <4>1. \A a \in answered : a.at < time /\ a.at \in Nat
        BY <1>1, <3>1 DEF PollIsNew, RowsSound
      <4>2. QED
        BY <1>1, <2>3, <4>1
    <3>3. \A c \in Chunks : chunks[c] # None => chunks[c].at \in 0 .. time'
      <4>1. \A c \in Chunks : chunks[c] # None => chunks[c].at \in 0 .. time
        BY <1>1, <3>1 DEF PollIsNew
      <4>2. QED
        BY <1>1, <2>3, <4>1
    <3>4. QED
      BY <1>1, <2>1, <3>1, <3>2, <3>3 DEF PollIsNew
  <2>7. QED
    BY <2>4, <2>5, <2>6 DEF RecordInv
<1>5. ASSUME UNCHANGED <<boardVars, snaps, answered>> PROVE RowsSound' /\ RecordingIsFaithful'
  <2>1. time' = time
    BY <1>5 DEF boardVars
  <2>2. time' \in Nat /\ time <= time'
    BY <1>1, <2>1
  <2>3. QED
    BY <1>5, <2>2, RecordStays
<1>6. CASE StartRecorder
  <2>1. UNCHANGED <<boardVars, snaps, answered>> /\ polling' = "metadata"
        /\ last' = [m \in Polled |-> LatestHash(m)]
    BY <1>6 DEF StartRecorder, recordTables
  <2>2. LastIsLatest'
    BY <1>2, <2>1, LastStays
  <2>3. PollIsNew'
    BY <2>1 DEF PollIsNew
  <2>4. QED
    BY <1>5, <2>1, <2>2, <2>3 DEF RecordInv
<1>7. CASE RefreshMetadata
  <2>1. UNCHANGED <<boardVars, snaps, answered, last>> /\ polling' = "idle" /\ polling # None
    BY <1>2, <1>7 DEF RefreshMetadata
  <2>2. LastIsLatest'
    BY <1>2, <2>1, LastStays
  <2>3. PollIsNew'
    BY <2>1 DEF PollIsNew
  <2>4. QED
    BY <1>5, <2>1, <2>2, <2>3 DEF RecordInv
<1>8. CASE StartPoll
  <2>1. /\ UNCHANGED <<boardVars, snaps, answered, last>> /\ polling' = "waiting" /\ polling # None
        /\ chunks' = NoAnswers /\ \A a \in answered : a.at < time
    BY <1>2, <1>8 DEF StartPoll, recordTables
  <2>2. LastIsLatest'
    BY <1>2, <2>1, LastStays
  <2>3. PollIsNew'
    BY <2>1 DEF PollIsNew, NoAnswers, boardVars
  <2>4. QED
    BY <1>5, <2>1, <2>2, <2>3 DEF RecordInv
<1>9. ASSUME NEW c \in Chunks, ChunkAnswered(c) PROVE RecordInv'
  <2>1. /\ UNCHANGED <<boardVars, snaps, answered, last>> /\ polling' = "waiting" /\ polling = "waiting"
        /\ chunks' = [chunks EXCEPT ![c] = [at |-> time, answer |-> Answers(c)]]
    BY <1>9 DEF ChunkAnswered, recordTables
  <2>2. LastIsLatest'
    BY <1>2, <2>1, LastStays
  <2>3. /\ DOMAIN chunks = Chunks /\ \A a \in answered : a.at < time
        /\ \A d \in Chunks : chunks[d] # None =>
               /\ chunks[d].at \in 0 .. time /\ DOMAIN chunks[d].answer = d
               /\ \A a \in answered : a.at < chunks[d].at
    BY <1>1, <2>1 DEF PollIsNew
  <2>4. /\ DOMAIN chunks' = Chunks
        /\ chunks'[c] = [at |-> time, answer |-> Answers(c)]
        /\ \A d \in Chunks \ {c} : chunks'[d] = chunks[d]
    BY <2>1, <2>3
  <2>5. DOMAIN Answers(c) = c /\ time \in 0 .. time
    BY <1>1 DEF Answers
  <2>6. ASSUME NEW d \in Chunks, chunks'[d] # None
        PROVE  /\ chunks'[d].at \in 0 .. time /\ DOMAIN chunks'[d].answer = d
               /\ \A a \in answered : a.at < chunks'[d].at
    <3>1. CASE d = c
      <4>1. chunks'[d].at = time /\ chunks'[d].answer = Answers(c)
        BY <2>4, <3>1
      <4>2. QED
        BY <2>3, <2>5, <3>1, <4>1
    <3>2. CASE d # c
      <4>1. chunks'[d] = chunks[d]
        BY <2>4, <3>2
      <4>2. QED
        BY <2>3, <2>6, <4>1
    <3>3. QED
      BY <3>1, <3>2
  <2>7. answered' = answered /\ time' = time
    BY <2>1 DEF boardVars
  <2>8. PollIsNew'
    BY <2>3, <2>4, <2>6, <2>7 DEF PollIsNew
  <2>9. QED
    BY <1>5, <2>1, <2>2, <2>8 DEF RecordInv
<1>10. CASE PollFails \/ RecorderStops
  <2>1. /\ UNCHANGED <<boardVars, snaps, answered>>
        /\ \/ NotPolling
           \/ polling = "waiting" /\ polling' = "idle" /\ last' = last
    BY <1>10 DEF PollFails, RecorderStops, recordTables
  <2>2. CASE NotPolling
    <3>1. polling' = None
      BY <2>2 DEF NotPolling
    <3>2. LastIsLatest' /\ PollIsNew'
      BY <1>2, <3>1 DEF LastIsLatest, PollIsNew
    <3>3. QED
      BY <1>5, <2>1, <3>2 DEF RecordInv
  <2>3. CASE polling = "waiting" /\ polling' = "idle" /\ last' = last
    <3>1. LastIsLatest'
      BY <1>2, <2>1, <2>3, LastStays
    <3>2. PollIsNew'
      BY <2>3 DEF PollIsNew
    <3>3. QED
      BY <1>5, <2>1, <3>1, <3>2 DEF RecordInv
  <2>4. QED
    BY <2>1, <2>2, <2>3
<1>11. CASE LogPoll
  <2>1. UNCHANGED <<boardVars, snaps, answered, last>> /\ polling' = "idle" /\ polling # None
    BY <1>2, <1>11 DEF LogPoll
  <2>2. LastIsLatest'
    BY <1>2, <2>1, LastStays
  <2>3. PollIsNew'
    BY <2>1 DEF PollIsNew
  <2>4. QED
    BY <1>5, <2>1, <2>2, <2>3 DEF RecordInv
<1>12. QED
  BY <1>3, <1>4, <1>6, <1>7, <1>8, <1>9, <1>10, <1>11 DEF RecordNext

\* Before the recorder begins there is nothing to tell.
LEMMA NothingRecorded ==
    ASSUME RecordInit
    PROVE  RecordInv
<1>1. snaps = {} /\ answered = {} /\ time = 0 /\ polling = None
  BY DEF RecordInit, BoardInit
<1>2. RowsSound /\ RecordingIsFaithful
  BY <1>1 DEF RowsSound, RecordingIsFaithful
<1>3. LastIsLatest /\ PollIsNew
  BY <1>1, RecorderAssumption DEF LastIsLatest, PollIsNew
<1>4. QED
  BY <1>2, <1>3 DEF RecordInv

\* The record of a poll gives, for every answer, the book the exchange answered, from a row
\* not older than a heartbeat: RecordingIsFaithful, for any markets and chunks, any books,
\* failures, kills and restarts, and any number of runs.
THEOREM RecordStaysFaithful == CollectionSpec => []RecordingIsFaithful
<1> DEFINE Inv == /\ collecting = "books" => RecordInv
                  /\ collecting # "books" => answered = {}
<1>1. CollectionInit => Inv
  <2> SUFFICES ASSUME CollectionInit PROVE Inv
    OBVIOUS
  <2>1. RecordInit
    BY DEF CollectionInit
  <2>2. QED
    BY <2>1, NothingRecorded DEF RecordInit
<1>2. Inv /\ [CollectionNext]_collectionVars => Inv'
  <2> SUFFICES ASSUME Inv, [CollectionNext]_collectionVars PROVE Inv'
    OBVIOUS
  <2>1. CASE UNCHANGED collectionVars
    <3>1. UNCHANGED <<collecting, time, snaps, answered, polling, last, chunks>>
      BY <2>1 DEF collectionVars, boardVars, noRecord, recordTables, poller
    <3>2. RecordInv' = RecordInv
      BY <3>1 DEF RecordInv, RowsSound, LastIsLatest, PollIsNew, RecordingIsFaithful, LatestHash,
                  BookAt, RowsUpTo, RowsOf, LatestRow
    <3>3. QED
      BY <3>1, <3>2
  <2>2. CASE CollectionNext /\ collecting = "books"
    <3>1. RecordNext /\ collecting' = collecting
      BY <2>2 DEF CollectionNext
    <3>2. RecordInv'
      BY <2>2, <3>1, RecordSteps
    <3>3. QED
      BY <2>2, <3>1, <3>2
  <2>3. CASE CollectionNext /\ collecting # "books"
    <3>1. collecting' = collecting /\ UNCHANGED noRecord
      BY <2>3 DEF CollectionNext
    <3>2. answered' = answered
      BY <3>1 DEF noRecord
    <3>3. QED
      BY <2>3, <3>1, <3>2
  <2>4. QED
    BY <2>1, <2>2, <2>3
<1>3. Inv => RecordingIsFaithful
  BY DEF RecordInv, RecordingIsFaithful
<1>4. QED
  <2> HIDE DEF Inv
  <2>1. QED
    BY <1>1, <1>2, <1>3, PTL DEF CollectionSpec

----------------------------------------------------------------------------
(* The trade sync. *)

\* What the exchange shows late is shown within the margin and the overlap of two syncs.
ShownInTime == Late <= Margin + Overlap

\* No trade is older than the market or younger than now; a hidden one is new, and the cutoff
\* does not pass it; a closed market trades no more.
ExchangeSound ==
    /\ now \in Nat /\ cutoff \in 0 .. now /\ made \subseteq 0 .. now /\ hidden \subseteq made
    /\ \A t \in hidden : now <= t + Late /\ cutoff <= t
    /\ closed \in Nat \cup {None} /\ settled \in Nat \cup {None}
    /\ settled # None => closed # None
    /\ closed # None => \A t \in made : t <= closed

\* What a checkpoint says is stored is stored, but for the trades that slipped.
CheckpointsSound ==
    /\ DOMAIN sync = TradePart
    /\ covered \in 0 .. cutoff
    /\ \A t \in made : t < covered => t \in stored
    /\ began # None => /\ began \in 0 .. now
                       /\ \A t \in made : t + Late < began => t \in stored \/ Slipped(t)
    /\ sync["live"] # None => began # None /\ sync["live"].through = began - Margin

\* A run got through without the live partition only when every trade had left it.
FinishSound == finished # None /\ began = None => closed # None /\ \A t \in made : t < cutoff

Todos == {<<>>, <<"historical">>, <<"live">>, <<"historical", "live">>}
LiveLeft == job.todo \in {<<"live">>, <<"historical", "live">>}
JobType == [at : {"cutoff", "market", "sync"}, cutoff : Nat, settled : Nat \cup {None}, todo : Todos]

\* A run that does not look at the live partition knows the market to end before its cutoff.
JobSound ==
    alive =>
        /\ job \in JobType /\ job.cutoff <= cutoff
        /\ job.at = "sync" /\ ~failed /\ job.settled # None /\ began = None /\ ~LiveLeft =>
               closed # None /\ closed < job.cutoff

FetchType == [started : Nat, below : Nat \cup {None}, buf : SUBSET Nat, done : BOOLEAN,
              cutoff : Nat, minTs : Int]
Reached(t) == fetch.done \/ (fetch.below # None /\ fetch.below <= t)

\* What the pages so far reached of a partition is stored or about to be.
FetchSound ==
    fetch # None =>
        /\ alive /\ job.at = "sync" /\ job.todo # <<>>
        /\ fetch \in FetchType /\ fetch.started <= now /\ fetch.cutoff <= cutoff
        /\ fetch.done => fetch.buf = {}
        /\ This = "live" =>
               /\ fetch.minTs = IF sync["live"] = None THEN 0 ELSE sync["live"].through - Overlap
               /\ \A t \in made : fetch.minTs <= t /\ t + Late < fetch.started /\ Reached(t) =>
                      t \in stored \cup fetch.buf \/ t < cutoff
        /\ This = "historical" =>
               /\ fetch.minTs = 0
               /\ \A t \in made : t < fetch.cutoff /\ Reached(t) => t \in stored \cup fetch.buf

SyncInv == ExchangeSound /\ CheckpointsSound /\ FinishSound /\ JobSound /\ FetchSound

\* The invariant says what the property does.
LEMMA NothingElseIsLost ==
    ASSUME SyncInv
    PROVE  NothingElseIsMissing
<1> SUFFICES ASSUME finished # None, NEW t \in made \ stored PROVE Slipped(t) \/ ShownTooLate(t)
  BY DEF NothingElseIsMissing
<1>1. t \in Nat /\ covered \in Nat /\ cutoff \in Nat /\ Late \in Nat
  BY SyncAssumption DEF SyncInv, ExchangeSound, CheckpointsSound
<1>2. ~ (t < covered)
  BY DEF SyncInv, CheckpointsSound
<1>3. CASE began = None
  <2>1. t < cutoff
    BY <1>3 DEF SyncInv, FinishSound
  <2>2. QED
    BY <1>1, <1>2, <2>1 DEF Slipped
<1>4. CASE began # None
  <2>1. began \in Nat /\ (t + Late < began => Slipped(t))
    BY <1>4 DEF SyncInv, CheckpointsSound
  <2>2. QED
    BY <1>1, <1>4, <2>1 DEF ShownTooLate
<1>5. QED
  BY <1>3, <1>4


\* The newest of some trades leave out none that is newer than one of them.
LEMMA NewestAreTogether ==
    ASSUME NEW trades, trades \subseteq Nat, IsFiniteSet(trades), NEW n \in Nat,
           NEW u \in NewestOf(trades, n), NEW t \in trades, u <= t
    PROVE  t \in NewestOf(trades, n)
<1> DEFINE Above(x) == {v \in trades : v > x}
<1>1. u \in trades /\ Cardinality(Above(u)) < n
  BY DEF NewestOf
<1>2. Above(t) \subseteq Above(u)
  <2>1. ASSUME NEW v \in Above(t) PROVE v \in Above(u)
    <3>1. v \in Nat /\ u \in Nat /\ t \in Nat /\ v > t
      BY <1>1
    <3>2. QED
      BY <3>1
  <2>2. QED
    BY <2>1
<1>3. IsFiniteSet(Above(u))
  BY FS_Subset
<1> HIDE DEF Above
<1>4. /\ Cardinality(Above(t)) <= Cardinality(Above(u))
      /\ Cardinality(Above(t)) \in Nat /\ Cardinality(Above(u)) \in Nat
  BY <1>2, <1>3, FS_Subset, FS_CardinalityType
<1>5. Cardinality(Above(t)) < n
  BY <1>1, <1>4
<1>6. QED
  BY <1>5 DEF NewestOf, Above

\* The oldest of some trades is one of them.
LEMMA OldestIsIn ==
    ASSUME NEW trades, trades \subseteq Nat, trades # {}
    PROVE  Min(trades) \in trades /\ \A t \in trades : Min(trades) <= t
<1>1. \E x \in trades : \A y \in trades : x <= y
  BY LeastExists
<1>2. QED
  BY <1>1 DEF Min

\* What a page adds to what was reached: everything served that is not older than its oldest
\* trade, and everything there is once the page is all that is served.
LEMMA PageReaches ==
    ASSUME NEW served, served \subseteq Nat, IsFiniteSet(served),
           NEW page, page = NewestOf(served, TradePage), NEW t \in served,
           \/ served = page
           \/ page # {} /\ Min(page) <= t
    PROVE  t \in page
<1>1. CASE served = page
  BY <1>1
<1>2. CASE page # {} /\ Min(page) <= t
  <2>1. page \subseteq served
    BY DEF NewestOf
  <2>2. Min(page) \in page
    BY <1>2, <2>1, OldestIsIn
  <2>3. TradePage \in Nat
    BY SyncAssumption
  <2>4. QED
    BY <1>2, <2>2, <2>3, NewestAreTogether
<1>3. QED
  BY <1>1, <1>2

\* The exchange moves on: what the database and the run know stays true of it.
LEMMA ExchangeMovesOn ==
    ASSUME SyncInv, ExchangeSound', UNCHANGED <<run, tables, job, fetch, failed, ghosts>>,
           now <= now', cutoff <= cutoff', made \subseteq made',
           \A t \in made' \ made : now <= t /\ closed = None,
           closed # None => closed' = closed
    PROVE  SyncInv'
<1>1. UNCHANGED <<alive, stored, sync, job, fetch, failed, covered, began, finished>>
  BY DEF run, tables, ghosts
<1>2. /\ now \in Nat /\ now' \in Nat /\ cutoff \in 0 .. now /\ cutoff' \in 0 .. now'
      /\ made \subseteq 0 .. now /\ made' \subseteq 0 .. now' /\ Late \in Nat
  BY SyncAssumption DEF SyncInv, ExchangeSound
<1>3. ASSUME NEW t \in made' \ made, NEW c \in Int, c <= now PROVE ~ (t + Late < c) /\ ~ (t < c)
  BY <1>2, <1>3
<1>4. CheckpointsSound'
  <2>1. /\ DOMAIN sync = TradePart
        /\ covered \in 0 .. cutoff
        /\ \A t \in made : t < covered => t \in stored
        /\ began # None => /\ began \in 0 .. now
                           /\ \A t \in made : t + Late < began => t \in stored \/ Slipped(t)
        /\ sync["live"] # None => began # None /\ sync["live"].through = began - Margin
    BY DEF SyncInv, CheckpointsSound
  <2>2. covered \in 0 .. cutoff'
    BY <1>2, <2>1
  <2>3. \A t \in made' : t < covered => t \in stored
    <3>1. covered \in Int /\ covered <= now
      BY <1>2, <2>1
    <3>2. QED
      BY <1>3, <2>1, <3>1
  <2>4. ASSUME began # None
        PROVE  /\ began \in 0 .. now'
               /\ \A t \in made' : t + Late < began => t \in stored \/ Slipped(t)'
    <3>1. began \in 0 .. now
      BY <2>1, <2>4
    <3>2. began \in 0 .. now' /\ began \in Int /\ began <= now
      BY <1>2, <3>1
    <3>3. ASSUME NEW t \in made', t + Late < began PROVE t \in stored \/ Slipped(t)'
      <4>1. t \in made
        BY <1>3, <3>2, <3>3
      <4>2. t \in stored \/ (covered <= t /\ t < cutoff)
        BY <2>1, <2>4, <3>3, <4>1 DEF Slipped
      <4>3. t \in Int
        BY <1>2, <4>1
      <4>4. t < cutoff => t < cutoff'
        BY <1>2, <4>3
      <4>5. QED
        BY <1>1, <4>2, <4>4 DEF Slipped
    <3>4. QED
      BY <3>2, <3>3
  <2>5. QED
    BY <1>1, <2>1, <2>2, <2>3, <2>4 DEF CheckpointsSound
<1>5. FinishSound'
  <2> SUFFICES ASSUME finished # None, began = None
               PROVE  closed' # None /\ \A t \in made' : t < cutoff'
    BY <1>1 DEF FinishSound
  <2>1. closed # None /\ \A t \in made : t < cutoff
    BY DEF SyncInv, FinishSound
  <2>2. ASSUME NEW t \in made' PROVE t < cutoff'
    <3>1. t \in made /\ t < cutoff /\ t \in Int
      BY <1>2, <2>1
    <3>2. QED
      BY <1>2, <3>1
  <2>3. QED
    BY <2>1, <2>2
<1>6. JobSound'
  <2> SUFFICES ASSUME alive PROVE JobSound'
    BY <1>1 DEF JobSound
  <2>1. /\ job \in JobType /\ job.cutoff <= cutoff
        /\ job.at = "sync" /\ ~failed /\ job.settled # None /\ began = None /\ ~LiveLeft =>
               closed # None /\ closed < job.cutoff
    BY DEF SyncInv, JobSound
  <2>2. job.cutoff \in Nat
    BY <2>1 DEF JobType
  <2>3. job.cutoff <= cutoff'
    BY <1>2, <2>1, <2>2
  <2>4. LiveLeft' = LiveLeft
    BY <1>1 DEF LiveLeft
  <2>5. QED
    BY <1>1, <2>1, <2>3, <2>4 DEF JobSound
<1>7. FetchSound'
  <2> SUFFICES ASSUME fetch # None PROVE FetchSound'
    BY <1>1 DEF FetchSound
  <2>1. /\ alive /\ job.at = "sync" /\ job.todo # <<>>
        /\ fetch \in FetchType /\ fetch.started <= now /\ fetch.cutoff <= cutoff
        /\ fetch.done => fetch.buf = {}
        /\ This = "live" =>
               /\ fetch.minTs = IF sync["live"] = None THEN 0 ELSE sync["live"].through - Overlap
               /\ \A t \in made : fetch.minTs <= t /\ t + Late < fetch.started /\ Reached(t) =>
                      t \in stored \cup fetch.buf \/ t < cutoff
        /\ This = "historical" =>
               /\ fetch.minTs = 0
               /\ \A t \in made : t < fetch.cutoff /\ Reached(t) => t \in stored \cup fetch.buf
    BY DEF SyncInv, FetchSound
  <2>2. fetch.started \in Nat /\ fetch.cutoff \in Nat
    BY <2>1 DEF FetchType
  <2>3. fetch.started <= now' /\ fetch.cutoff <= cutoff'
    BY <1>2, <2>1, <2>2
  <2>4. This' = This /\ \A t : Reached(t)' = Reached(t)
    BY <1>1 DEF This, Reached
  <2>5. ASSUME This = "live", NEW t \in made', fetch.minTs <= t, t + Late < fetch.started, Reached(t)
        PROVE  t \in stored \cup fetch.buf \/ t < cutoff'
    <3>1. t \in made /\ t \in Int
      BY <1>2, <1>3, <2>1, <2>2, <2>5
    <3>2. t \in stored \cup fetch.buf \/ t < cutoff
      BY <2>1, <2>5, <3>1
    <3>3. t < cutoff => t < cutoff'
      BY <1>2, <3>1
    <3>4. QED
      BY <3>2, <3>3
  <2>6. ASSUME This = "historical", NEW t \in made', t < fetch.cutoff, Reached(t)
        PROVE  t \in stored \cup fetch.buf
    <3>1. fetch.cutoff \in Int /\ fetch.cutoff <= now
      BY <1>2, <2>1, <2>2
    <3>2. t \in made
      BY <1>3, <2>6, <3>1
    <3>3. QED
      BY <2>1, <2>6, <3>2
  <2>7. QED
    BY <1>1, <2>1, <2>3, <2>4, <2>5, <2>6 DEF FetchSound
<1>8. QED
  BY <1>4, <1>5, <1>6, <1>7 DEF SyncInv


Exchange == Clock \/ TradeMade \/ TradeShown \/ MarketCloses \/ MarketSettles \/ CutoffMoves

\* What the exchange does.
LEMMA ExchangeSteps ==
    ASSUME SyncInv, Exchange
    PROVE  SyncInv'
<1>1. /\ now \in Nat /\ cutoff \in 0 .. now /\ made \subseteq 0 .. now /\ hidden \subseteq made
      /\ \A t \in hidden : now <= t + Late /\ cutoff <= t
      /\ closed \in Nat \cup {None} /\ settled \in Nat \cup {None}
      /\ settled # None => closed # None
      /\ closed # None => \A t \in made : t <= closed
  BY DEF SyncInv, ExchangeSound
<1>2. Late \in Nat /\ None \notin Nat
  BY SyncAssumption
<1>3. UNCHANGED <<run, tables, job, fetch, failed, ghosts>>
  BY DEF Exchange, Clock, TradeMade, TradeShown, MarketCloses, MarketSettles, CutoffMoves
<1>4. /\ ExchangeSound' /\ now <= now' /\ cutoff <= cutoff' /\ made \subseteq made'
      /\ \A t \in made' \ made : now <= t /\ closed = None
      /\ closed # None => closed' = closed
  <2>1. CASE Clock
    <3>1. /\ now' = now + 1 /\ \A t \in hidden : now + 1 <= t + Late
          /\ UNCHANGED <<cutoff, made, hidden, closed, settled>>
      BY <2>1 DEF Clock
    <3>2. now' \in Nat /\ now <= now' /\ cutoff \in 0 .. now' /\ made \subseteq 0 .. now'
      BY <1>1, <3>1
    <3>3. QED
      BY <1>1, <3>1, <3>2 DEF ExchangeSound
  <2>2. CASE TradeMade
    <3>1. /\ closed = None /\ made' = made \cup {now} /\ (hidden' = hidden \/ hidden' = hidden \cup {now})
          /\ UNCHANGED <<now, cutoff, closed, settled>>
      BY <2>2 DEF TradeMade
    <3>2. now <= now + Late /\ cutoff <= now /\ now \in 0 .. now
      BY <1>1, <1>2
    <3>3. \A t \in hidden' : now <= t + Late /\ cutoff <= t
      BY <1>1, <3>1, <3>2
    <3>4. made' \subseteq 0 .. now
      BY <1>1, <3>1, <3>2
    <3>5. hidden' \subseteq made'
      BY <1>1, <3>1
    <3>6. now' \in Nat /\ now <= now' /\ cutoff <= cutoff'
      BY <1>1, <3>1
    <3>7. QED
      BY <1>1, <3>1, <3>2, <3>3, <3>4, <3>5, <3>6 DEF ExchangeSound
  <2>3. CASE TradeShown
    <3>1. hidden' \subseteq hidden /\ UNCHANGED <<now, cutoff, made, closed, settled>>
      BY <2>3 DEF TradeShown
    <3>2. QED
      BY <1>1, <3>1 DEF ExchangeSound
  <2>4. CASE MarketCloses
    <3>1. closed = None /\ closed' = now /\ UNCHANGED <<now, cutoff, made, hidden, settled>>
      BY <2>4 DEF MarketCloses
    <3>2. (\A t \in made : t <= now) /\ now # None
      BY <1>1, <1>2
    <3>3. QED
      BY <1>1, <3>1, <3>2 DEF ExchangeSound
  <2>5. CASE MarketSettles
    <3>1. closed # None /\ settled' = now /\ UNCHANGED <<now, cutoff, made, hidden, closed>>
      BY <2>5 DEF MarketSettles
    <3>2. QED
      BY <1>1, <3>1 DEF ExchangeSound
  <2>6. CASE CutoffMoves
    <3>1. /\ cutoff' \in cutoff + 1 .. now /\ \A t \in hidden : t >= cutoff'
          /\ UNCHANGED <<now, made, hidden, closed, settled>>
      BY <2>6 DEF CutoffMoves
    <3>2. cutoff' \in 0 .. now /\ cutoff <= cutoff'
      BY <1>1, <3>1
    <3>3. \A t \in hidden : cutoff' <= t
      BY <1>1, <3>1, <3>2
    <3>4. QED
      BY <1>1, <3>1, <3>2, <3>3 DEF ExchangeSound
  <2>7. QED
    BY <2>1, <2>2, <2>3, <2>4, <2>5, <2>6 DEF Exchange
<1>5. QED
  BY <1>3, <1>4, ExchangeMovesOn

----------------------------------------------------------------------------

\* While the market and the tables stand, only the job and its pagination need a look.
LEMMA TablesStay ==
    ASSUME SyncInv, UNCHANGED <<market, tables, covered, began>>
    PROVE  /\ ExchangeSound' /\ CheckpointsSound'
           /\ finished' = finished => FinishSound'
           /\ job' = job /\ failed' = failed /\ (alive' => alive) => JobSound'
           /\ fetch' = None => FetchSound'
           /\ (fetch = None /\ fetch' = fetch) => FetchSound'
<1>1. UNCHANGED <<now, cutoff, made, hidden, closed, settled, stored, sync, covered, began>>
  BY DEF market, tables
<1>2. ExchangeSound' /\ CheckpointsSound'
  <2>1. \A t : Slipped(t)' = Slipped(t)
    BY <1>1 DEF Slipped
  <2>2. QED
    BY <1>1, <2>1 DEF SyncInv, ExchangeSound, CheckpointsSound
<1>3. finished' = finished => FinishSound'
  BY <1>1 DEF SyncInv, FinishSound
<1>4. job' = job /\ failed' = failed /\ (alive' => alive) => JobSound'
  BY <1>1 DEF SyncInv, JobSound, LiveLeft
<1>5. (fetch' = None => FetchSound') /\ ((fetch = None /\ fetch' = fetch) => FetchSound')
  BY DEF FetchSound
<1>6. QED
  BY <1>2, <1>3, <1>4, <1>5

\* There is no pagination but of a run that is at its partitions.
LEMMA NotFetching ==
    ASSUME SyncInv, ~alive \/ job.at # "sync" \/ job.todo = <<>>
    PROVE  fetch = None
  BY DEF SyncInv, FetchSound

LEMMA TheGreaterOfTwo ==
    ASSUME NEW a \in Nat, NEW b \in Nat
    PROVE  Max({a, b}) \in Nat /\ a <= Max({a, b}) /\ b <= Max({a, b})
<1>1. \E x \in {a, b} : \A y \in {a, b} : x >= y
  OBVIOUS
<1>2. Max({a, b}) \in {a, b} /\ \A y \in {a, b} : Max({a, b}) >= y
  BY <1>1 DEF Max
<1>3. QED
  BY <1>2

\* The partitions of a market: live at the least.
LEMMA PartitionsAre ==
    ASSUME NEW limit, NEW end
    PROVE  /\ TradePartitions(limit, end) \in Todos \ {<<>>}
           /\ end >= limit => TradePartitions(limit, end) \in {<<"live">>, <<"historical", "live">>}
  BY DEF TradePartitions, Todos

\* A run begins, reads the cutoff and the market, ends or is stopped.
LEMMA JobSteps ==
    ASSUME SyncInv, StartSync \/ ReadCutoff \/ ReadMarket \/ SyncEnds \/ SyncStops
    PROVE  SyncInv'
<1>1. CASE StartSync
  <2>1. /\ ~alive /\ alive' /\ failed' = FALSE /\ UNCHANGED <<market, tables, fetch, ghosts>>
        /\ job' = [at |-> "cutoff", cutoff |-> 0, settled |-> None, todo |-> <<>>]
    BY <1>1 DEF StartSync, StartRun
  <2>2. fetch = None /\ fetch' = fetch
    BY <2>1, NotFetching
  <2>3. UNCHANGED <<covered, began, finished, cutoff>>
    BY <2>1 DEF ghosts, market
  <2>4. JobSound'
    <3>1. job' \in JobType
      BY <2>1 DEF JobType, Todos
    <3>2. 0 <= cutoff
      BY DEF SyncInv, ExchangeSound
    <3>3. QED
      BY <2>1, <2>3, <3>1, <3>2 DEF JobSound
  <2>5. QED
    BY <2>1, <2>2, <2>3, <2>4, TablesStay DEF SyncInv
<1>2. CASE ReadCutoff
  <2>1. /\ alive /\ job.at = "cutoff" /\ UNCHANGED <<run, market, tables, fetch, failed, ghosts>>
        /\ job' = [job EXCEPT !.at = "market", !.cutoff = cutoff]
    BY <1>2 DEF ReadCutoff
  <2>2. fetch = None /\ fetch' = fetch
    BY <2>1, NotFetching
  <2>3. UNCHANGED <<covered, began, finished, cutoff>>
    BY <2>1 DEF ghosts, market
  <2>4. JobSound'
    <3>1. job \in JobType /\ cutoff \in Nat
      BY <2>1 DEF SyncInv, JobSound, ExchangeSound
    <3>2. job' \in JobType /\ job'.at = "market" /\ job'.cutoff = cutoff
      BY <2>1, <3>1 DEF JobType
    <3>3. cutoff <= cutoff
      BY <3>1
    <3>4. QED
      BY <2>3, <3>2, <3>3 DEF JobSound
  <2>5. QED
    BY <2>1, <2>2, <2>3, <2>4, TablesStay DEF SyncInv
<1>3. CASE ReadMarket
  <2> DEFINE close == IF closed = None THEN CloseTime ELSE closed
             parts == TradePartitions(job.cutoff, EndOf(close, settled))
  <2>1. /\ alive /\ job.at = "market" /\ UNCHANGED <<run, market, tables, fetch, failed, ghosts>>
        /\ job' = [job EXCEPT !.at = "sync", !.settled = settled, !.todo = parts]
    BY <1>3 DEF ReadMarket
  <2>2. fetch = None /\ fetch' = fetch
    BY <2>1, NotFetching
  <2>3. UNCHANGED <<covered, began, finished, cutoff, alive, closed, settled>>
    BY <2>1 DEF ghosts, market, run
  <2>4. /\ job \in JobType /\ job.cutoff <= cutoff /\ settled \in Nat \cup {None}
        /\ closed \in Nat \cup {None} /\ (settled # None => closed # None)
    BY <2>1 DEF SyncInv, JobSound, ExchangeSound
  <2>5. parts \in Todos
    BY PartitionsAre
  <2>6. ASSUME settled # None, parts \notin {<<"live">>, <<"historical", "live">>}
        PROVE  closed < job.cutoff
    <3>1. ~ (EndOf(close, settled) >= job.cutoff)
      BY <2>6, PartitionsAre
    <3>2. closed \in Nat /\ settled \in Nat /\ EndOf(close, settled) = Max({closed, settled})
      BY <2>4, <2>6 DEF EndOf
    <3>3. Max({closed, settled}) \in Nat /\ closed <= Max({closed, settled})
      BY <3>2, TheGreaterOfTwo
    <3>4. job.cutoff \in Nat
      BY <2>4 DEF JobType
    <3>5. QED
      BY <3>1, <3>2, <3>3, <3>4
  <2> HIDE DEF parts
  <2>7. /\ job' \in JobType /\ job'.cutoff = job.cutoff /\ job'.settled = settled /\ job'.todo = parts
    BY <2>1, <2>4, <2>5 DEF JobType
  <2>8. JobSound'
    BY <2>3, <2>4, <2>6, <2>7 DEF JobSound, LiveLeft
  <2>9. QED
    BY <2>1, <2>2, <2>3, <2>8, TablesStay DEF SyncInv
<1>4. CASE SyncEnds
  <2>1. /\ alive /\ job.at = "sync" /\ job.todo = <<>> /\ fetch = None /\ ~alive'
        /\ finished' = (IF failed THEN finished ELSE job.settled)
        /\ UNCHANGED <<market, tables, fetch, covered, began>>
    BY <1>4 DEF SyncEnds, FinishRun
  <2>2. FinishSound'
    <3>1. UNCHANGED <<made, cutoff, closed>>
      BY <2>1 DEF market
    <3>2. CASE failed
      BY <2>1, <3>1, <3>2 DEF SyncInv, FinishSound
    <3>3. CASE ~failed
      <4> SUFFICES ASSUME job.settled # None, began = None
                   PROVE  closed # None /\ \A t \in made : t < cutoff
        BY <2>1, <3>1, <3>3 DEF FinishSound
      <4>1. ~LiveLeft
        BY <2>1 DEF LiveLeft
      <4>2. /\ job \in JobType /\ job.cutoff <= cutoff /\ closed # None /\ closed < job.cutoff
        BY <2>1, <3>3, <4>1 DEF SyncInv, JobSound
      <4>3. /\ closed \in Nat /\ cutoff \in Nat /\ made \subseteq 0 .. now /\ now \in Nat
            /\ \A t \in made : t <= closed
        BY <4>2 DEF SyncInv, ExchangeSound
      <4>4. job.cutoff \in Nat
        BY <4>2 DEF JobType
      <4>5. ASSUME NEW t \in made PROVE t < cutoff
        BY <4>2, <4>3, <4>4
      <4>6. QED
        BY <4>2, <4>5
    <3>4. QED
      BY <3>2, <3>3
  <2>3. JobSound'
    BY <2>1 DEF JobSound
  <2>4. QED
    BY <2>1, <2>2, <2>3, TablesStay DEF SyncInv
<1>5. CASE SyncStops
  <2>1. ~alive' /\ fetch' = None /\ UNCHANGED <<market, tables, ghosts>>
    BY <1>5 DEF SyncStops, FinishRun, Kill
  <2>2. UNCHANGED <<covered, began, finished>>
    BY <2>1 DEF ghosts
  <2>3. JobSound'
    BY <2>1 DEF JobSound
  <2>4. QED
    BY <2>1, <2>2, <2>3, TablesStay DEF SyncInv
<1>6. QED
  BY <1>1, <1>2, <1>3, <1>4, <1>5


HasLive(parts) == parts \in {<<"live">>, <<"historical", "live">>}

\* The partitions are done one after the other, live last.
LEMMA PartsInTurn ==
    ASSUME NEW parts \in Todos, parts # <<>>
    PROVE  /\ Tail(parts) \in Todos
           /\ \/ Head(parts) = "live"
              \/ Head(parts) = "historical" /\ (HasLive(parts) => HasLive(Tail(parts)))
<1>1. CASE parts = <<"historical">>
  <2>1. Head(parts) = "historical" /\ Tail(parts) = <<>> /\ ~HasLive(parts)
    BY <1>1 DEF HasLive
  <2>2. QED
    BY <2>1 DEF Todos
<1>2. CASE parts = <<"live">>
  <2>1. Head(parts) = "live" /\ Tail(parts) = <<>>
    BY <1>2
  <2>2. QED
    BY <2>1 DEF Todos
<1>3. CASE parts = <<"historical", "live">>
  <2>1. Head(parts) = "historical" /\ Tail(parts) = <<"live">>
    BY <1>3
  <2>2. QED
    BY <2>1 DEF Todos, HasLive
<1>4. QED
  BY <1>1, <1>2, <1>3 DEF Todos

\* The run goes on to the next partition: it has passed over live only if that was fetched.
LEMMA NextPartSound ==
    ASSUME SyncInv, alive, job.at = "sync", job.todo # <<>>, NextPart,
           UNCHANGED <<market, alive, failed>>,
           began' = began \/ began' # None,
           This = "live" => began' # None
    PROVE  JobSound'
<1>1. /\ job \in JobType /\ job.cutoff <= cutoff
      /\ job.at = "sync" /\ ~failed /\ job.settled # None /\ began = None /\ ~LiveLeft =>
             closed # None /\ closed < job.cutoff
  BY DEF SyncInv, JobSound
<1>2. job.todo \in Todos
  BY <1>1 DEF JobType
<1>3. /\ Tail(job.todo) \in Todos
      /\ \/ This = "live"
         \/ This = "historical" /\ (HasLive(job.todo) => HasLive(Tail(job.todo)))
  BY <1>2, PartsInTurn DEF This
<1>4. job' = [job EXCEPT !.todo = Tail(job.todo)]
  BY DEF NextPart
<1>5. /\ job' \in JobType /\ job'.cutoff = job.cutoff /\ job'.settled = job.settled
      /\ job'.todo = Tail(job.todo)
  BY <1>1, <1>3, <1>4 DEF JobType
<1>6. LiveLeft = HasLive(job.todo) /\ LiveLeft' = HasLive(Tail(job.todo))
  BY <1>5 DEF LiveLeft, HasLive
<1>7. ASSUME ~failed, job.settled # None, began' = None, ~LiveLeft'
      PROVE  closed # None /\ closed < job.cutoff
  <2>1. began = None /\ ~LiveLeft
    BY <1>3, <1>6, <1>7
  <2>2. QED
    BY <1>1, <1>7, <2>1
<1>8. UNCHANGED <<cutoff, closed>>
  BY DEF market
<1>9. QED
  BY <1>1, <1>5, <1>7, <1>8 DEF JobSound

\* A partition is passed over, or given up, or its pagination begins.
LEMMA PartSteps ==
    ASSUME SyncInv, SkipPart \/ PartFails \/ StartPart
    PROVE  SyncInv'
<1>1. CASE SkipPart
  <2>1. /\ alive /\ job.at = "sync" /\ job.todo # <<>> /\ fetch = None /\ fetch' = fetch
        /\ Skipped(This) /\ NextPart /\ UNCHANGED <<run, market, tables, failed, ghosts>>
    BY <1>1 DEF SkipPart
  <2>2. UNCHANGED <<covered, began, finished, alive>>
    BY <2>1 DEF ghosts, run
  <2>3. This = "live" => began # None
    <3>1. This = "live" => sync["live"] # None
      BY <2>1 DEF Skipped, AlreadyFinal
    <3>2. QED
      BY <3>1 DEF SyncInv, CheckpointsSound
  <2>4. JobSound'
    BY <2>1, <2>2, <2>3, NextPartSound
  <2>5. QED
    BY <2>1, <2>2, <2>4, TablesStay DEF SyncInv
<1>2. CASE PartFails
  <2>1. /\ alive /\ fetch' = None /\ failed' = TRUE /\ job' = [job EXCEPT !.todo = <<>>]
        /\ UNCHANGED <<run, market, tables, ghosts>>
    BY <1>2 DEF PartFails
  <2>2. UNCHANGED <<covered, began, finished, cutoff>>
    BY <2>1 DEF ghosts, market
  <2>3. job \in JobType /\ job.cutoff <= cutoff
    BY <2>1 DEF SyncInv, JobSound
  <2>4. job' \in JobType /\ job'.cutoff = job.cutoff
    BY <2>1, <2>3 DEF JobType, Todos
  <2>5. JobSound'
    BY <2>1, <2>2, <2>3, <2>4 DEF JobSound
  <2>6. QED
    BY <2>1, <2>2, <2>5, TablesStay DEF SyncInv
<1>3. CASE StartPart
  <2>1. /\ alive /\ job.at = "sync" /\ job.todo # <<>> /\ ~ Skipped(This)
        /\ fetch' = [started |-> now, below |-> None, buf |-> {}, done |-> FALSE, cutoff |-> 0,
                     minTs |-> IF sync[This] = None THEN 0 ELSE sync[This].through - Overlap]
        /\ UNCHANGED <<run, market, tables, job, failed, ghosts>>
    BY <1>3 DEF StartPart
  <2>2. /\ UNCHANGED <<covered, began, finished, alive, now, cutoff, made, stored, sync>>
        /\ This' = This
    BY <2>1 DEF ghosts, run, market, tables, This
  <2>3. JobSound'
    BY <2>1, <2>2, TablesStay
  <2>4. This \in TradePart
    <3>1. job.todo \in Todos
      BY <2>1 DEF SyncInv, JobSound, JobType
    <3>2. QED
      BY <2>1, <3>1, PartsInTurn DEF This, TradePart
  <2>5. /\ now \in Nat /\ cutoff \in Nat /\ Margin \in Nat /\ Overlap \in Nat
        /\ sync["live"] # None => began \in Nat /\ sync["live"].through = began - Margin
    BY SyncAssumption DEF SyncInv, ExchangeSound, CheckpointsSound
  <2>6. This = "historical" => sync[This] = None
    BY <2>1 DEF Skipped
  <2>7. fetch'.minTs = (IF sync[This] = None THEN 0 ELSE sync[This].through - Overlap)
        /\ fetch'.minTs \in Int
    BY <2>1, <2>4, <2>5, <2>6 DEF TradePart
  <2>8. fetch' \in FetchType
    BY <2>1, <2>5, <2>7 DEF FetchType
  <2>9. \A t : ~ Reached(t)'
    BY <2>1 DEF Reached
  <2>10. fetch'.started <= now /\ fetch'.cutoff <= cutoff
    BY <2>1, <2>5
  <2>11. FetchSound'
    BY <2>1, <2>2, <2>6, <2>7, <2>8, <2>9, <2>10 DEF FetchSound
  <2>12. QED
    BY <2>1, <2>2, <2>3, <2>11, TablesStay DEF SyncInv
<1>4. QED
  BY <1>1, <1>2, <1>3

\* A page is taken in: FetchTrades.
LEMMA PageSteps ==
    ASSUME SyncInv, FetchTrades
    PROVE  SyncInv'
<1>1. /\ alive /\ fetch # None /\ ~ fetch.done
      /\ UNCHANGED <<run, market, sync, job, failed, ghosts>>
  BY DEF FetchTrades
<1>2. UNCHANGED <<covered, began, finished, alive, now, cutoff, made, hidden, closed, settled>>
      /\ This' = This
  BY <1>1 DEF ghosts, run, market, This
<1> DEFINE served == Served(This, fetch.minTs, fetch.below)
           page == NewestOf(served, TradePage)
           buffered == fetch.buf \cup page
<1>3. PICK left \in SUBSET buffered :
          /\ served = page => left = {}
          /\ stored' = stored \cup (buffered \ left)
          /\ fetch' = [fetch EXCEPT
                !.buf = left, !.done = (served = page),
                !.below = IF page = {} THEN @ ELSE Min(page),
                !.cutoff = IF fetch.below = None THEN cutoff ELSE @]
  <2> DEFINE left == IF served = page THEN {}
                     ELSE buffered \ NewestOf(buffered,
                              Cardinality(buffered) - (Cardinality(buffered) % FlushTrades))
  <2>1. left \in SUBSET buffered /\ (served = page => left = {})
    OBVIOUS
  <2>2. /\ stored' = stored \cup (buffered \ left)
        /\ fetch' = [fetch EXCEPT
                !.buf = left, !.done = (served = page),
                !.below = IF page = {} THEN @ ELSE Min(page),
                !.cutoff = IF fetch.below = None THEN cutoff ELSE @]
    <3> DEFINE Keep(b) == NewestOf(b, Cardinality(b) - (Cardinality(b) % FlushTrades))
               Takes(s, p, b, l) ==
                   /\ stored' = stored \cup (b \ l)
                   /\ fetch' = [fetch EXCEPT
                          !.buf = l, !.done = (s = p),
                          !.below = IF p = {} THEN @ ELSE Min(p),
                          !.cutoff = IF fetch.below = None THEN cutoff ELSE @]
    <3>1. \E s \in {served} : \E p \in {NewestOf(s, TradePage)} : \E b \in {fetch.buf \cup p} :
          \E l \in {IF s = p THEN {} ELSE b \ Keep(b)} : Takes(s, p, b, l)
      BY DEF FetchTrades
    <3> HIDE DEF Takes, Keep, served
    <3>2. Takes(served, page, buffered, IF served = page THEN {} ELSE buffered \ Keep(buffered))
      BY <3>1
    <3>3. QED
      BY <3>2 DEF Takes, Keep
  <2> HIDE DEF left, served, page, buffered
  <2>3. QED
    BY <2>1, <2>2
<1>4. /\ job.at = "sync" /\ job.todo # <<>>
      /\ fetch \in FetchType /\ fetch.started <= now /\ fetch.cutoff <= cutoff
      /\ This = "live" =>
             /\ fetch.minTs = IF sync["live"] = None THEN 0 ELSE sync["live"].through - Overlap
             /\ \A t \in made : fetch.minTs <= t /\ t + Late < fetch.started /\ Reached(t) =>
                    t \in stored \cup fetch.buf \/ t < cutoff
      /\ This = "historical" =>
             /\ fetch.minTs = 0
             /\ \A t \in made : t < fetch.cutoff /\ Reached(t) => t \in stored \cup fetch.buf
  BY <1>1 DEF SyncInv, FetchSound
<1>5. /\ now \in Nat /\ cutoff \in Nat /\ made \subseteq 0 .. now
      /\ \A t \in hidden : now <= t + Late /\ cutoff <= t
      /\ Late \in Nat /\ None \notin Nat
  BY SyncAssumption DEF SyncInv, ExchangeSound
<1>6. /\ fetch.started \in Nat /\ fetch.below \in Nat \cup {None} /\ fetch.buf \subseteq Nat
      /\ fetch.cutoff \in Nat /\ fetch.minTs \in Int
  BY <1>4 DEF FetchType
<1>7. served \subseteq made /\ served \subseteq Nat /\ page \subseteq served
  <2>1. served \subseteq made
    BY DEF Served, HeldIn
  <2>2. page \subseteq served
    BY DEF NewestOf
  <2> HIDE DEF served, page
  <2>3. QED
    BY <1>5, <2>1, <2>2
<1>8. IsFiniteSet(served)
  <2>1. IsFiniteSet(0 .. now)
    <3>1. 0 \in Int /\ now \in Int
      BY <1>5
    <3>2. QED
      BY <3>1, FS_Interval
  <2>2. QED
    BY <1>5, <1>7, <2>1, FS_Subset
<1>9. \A t \in made \ hidden : fetch.minTs <= t /\ (fetch.below # None => t < fetch.below)
          /\ (IF This = "historical" THEN t < cutoff ELSE t >= cutoff) => t \in served
  BY <1>5, <1>6 DEF Served, HeldIn
<1> HIDE DEF served
<1>10. page # {} => Min(page) \in Nat
  BY <1>7, OldestIsIn
<1>11. \A t \in served : served = page \/ (page # {} /\ Min(page) <= t) => t \in page
  BY <1>7, <1>8, PageReaches
<1> HIDE DEF page
<1>12. /\ fetch' \in FetchType /\ fetch'.started = fetch.started /\ fetch'.minTs = fetch.minTs
       /\ fetch'.buf = left /\ fetch'.done = (served = page)
       /\ fetch'.below = (IF page = {} THEN fetch.below ELSE Min(page))
       /\ fetch'.cutoff = (IF fetch.below = None THEN cutoff ELSE fetch.cutoff)
  <2>1. left \subseteq Nat
    BY <1>3, <1>6, <1>7
  <2>2. (served = page) \in BOOLEAN
    OBVIOUS
  <2>3. (IF page = {} THEN fetch.below ELSE Min(page)) \in Nat \cup {None}
    BY <1>6, <1>10
  <2>4. (IF fetch.below = None THEN cutoff ELSE fetch.cutoff) \in Nat
    BY <1>5, <1>6
  <2>5. QED
    BY <1>3, <1>4, <2>1, <2>2, <2>3, <2>4 DEF FetchType
\* Nothing taken in is lost.
<1>13. stored \cup fetch.buf \cup page \subseteq stored' \cup fetch'.buf
  BY <1>3, <1>12
\* What is reached now was reached before, or lies in the page.
<1>14. ASSUME NEW t \in made, Reached(t)', ~ Reached(t), t \in served PROVE t \in page
  <2>1. served = page \/ (page # {} /\ Min(page) <= t)
    BY <1>1, <1>12, <1>14 DEF Reached
  <2>2. QED
    BY <1>11, <1>14, <2>1
<1>15. ASSUME NEW t \in made, ~ Reached(t) PROVE fetch.below # None => t < fetch.below
  BY <1>5, <1>6, <1>15 DEF Reached
<1>16. CheckpointsSound'
  <2>1. stored \subseteq stored'
    BY <1>3
  <2>2. \A t : Slipped(t)' = Slipped(t)
    BY <1>2 DEF Slipped
  <2>3. CheckpointsSound
    BY DEF SyncInv
  <2>4. QED
    BY <1>1, <1>2, <2>1, <2>2, <2>3 DEF CheckpointsSound
<1>17. ExchangeSound' /\ FinishSound' /\ JobSound'
  BY <1>1, <1>2 DEF SyncInv, ExchangeSound, FinishSound, JobSound, LiveLeft
<1>18. FetchSound'
  <2>1. fetch'.done => fetch'.buf = {}
    BY <1>3, <1>12
  <2>2. fetch'.started <= now /\ fetch'.cutoff <= cutoff
    BY <1>4, <1>5, <1>12
  <2>3. ASSUME This = "live", NEW t \in made, fetch'.minTs <= t, t + Late < fetch'.started, Reached(t)'
        PROVE  t \in stored' \cup fetch'.buf \/ t < cutoff
    <3>1. CASE Reached(t)
      BY <1>4, <1>12, <1>13, <2>3, <3>1
    <3>2. CASE ~ Reached(t)
      <4>1. t \notin hidden
        BY <1>4, <1>5, <1>6, <1>12, <2>3
      <4>2. t \in Nat
        BY <1>5
      <4>3. t >= cutoff => t \in served
        BY <1>9, <1>12, <1>15, <2>3, <3>2, <4>1
      <4>4. t \in served => t \in page
        BY <1>14, <2>3, <3>2
      <4>5. QED
        BY <1>5, <1>13, <4>2, <4>3, <4>4
    <3>3. QED
      BY <3>1, <3>2
  <2>4. ASSUME This = "historical", NEW t \in made, t < fetch'.cutoff, Reached(t)'
        PROVE  t \in stored' \cup fetch'.buf
    <3>1. t \in Nat /\ t < cutoff
      BY <1>4, <1>5, <1>6, <1>12, <2>4
    <3>2. CASE Reached(t)
      <4>1. fetch.below # None
        BY <1>1, <3>2 DEF Reached
      <4>2. t < fetch.cutoff
        BY <1>12, <2>4, <4>1
      <4>3. QED
        BY <1>4, <1>13, <2>4, <3>2, <4>2
    <3>3. CASE ~ Reached(t)
      <4>1. t \notin hidden
        BY <1>5, <3>1
      <4>2. fetch.minTs <= t
        BY <1>4, <2>4, <3>1
      <4>3. t \in served
        BY <1>9, <1>15, <2>4, <3>1, <3>3, <4>1, <4>2
      <4>4. QED
        BY <1>13, <1>14, <2>4, <3>3, <4>3
    <3>4. QED
      BY <3>2, <3>3
  <2>5. /\ (IF sync["live"] = None THEN 0 ELSE sync["live"].through - Overlap)'
               = IF sync["live"] = None THEN 0 ELSE sync["live"].through - Overlap
        /\ job' = job
    BY <1>1
  <2>6. QED
    BY <1>1, <1>2, <1>4, <1>12, <2>1, <2>2, <2>3, <2>4, <2>5 DEF FetchSound
<1>19. QED
  BY <1>16, <1>17, <1>18 DEF SyncInv


\* The pagination reached its end and the checkpoint advances.
LEMMA CheckpointSteps ==
    ASSUME SyncInv, ShownInTime, Checkpoint
    PROVE  SyncInv'
<1>1. /\ alive /\ fetch # None /\ fetch.done /\ fetch' = None /\ NextPart
      /\ sync' = [sync EXCEPT ![This] = [through |-> Through, completed |-> now]]
      /\ covered' = (IF This = "historical" THEN fetch.cutoff ELSE covered)
      /\ began' = (IF This = "live" THEN fetch.started ELSE began)
      /\ UNCHANGED <<run, market, stored, failed, finished>>
  BY DEF Checkpoint
<1>2. UNCHANGED <<alive, now, cutoff, made, hidden, closed, settled>>
  BY <1>1 DEF run, market
<1>3. /\ job.at = "sync" /\ job.todo # <<>>
      /\ fetch \in FetchType /\ fetch.started <= now /\ fetch.cutoff <= cutoff
      /\ fetch.buf = {}
      /\ This = "live" =>
             /\ fetch.minTs = IF sync["live"] = None THEN 0 ELSE sync["live"].through - Overlap
             /\ \A t \in made : fetch.minTs <= t /\ t + Late < fetch.started =>
                    t \in stored \/ t < cutoff
      /\ This = "historical" => \A t \in made : t < fetch.cutoff => t \in stored
  <2>1. \A t : Reached(t)
    BY <1>1 DEF Reached
  <2>2. FetchSound
    BY DEF SyncInv
  <2>3. QED
    BY <1>1, <2>1, <2>2 DEF FetchSound
<1>4. /\ now \in Nat /\ cutoff \in 0 .. now /\ made \subseteq 0 .. now
      /\ DOMAIN sync = TradePart /\ covered \in 0 .. cutoff
      /\ \A t \in made : t < covered => t \in stored
      /\ began # None => /\ began \in 0 .. now
                         /\ \A t \in made : t + Late < began => t \in stored \/ Slipped(t)
      /\ sync["live"] # None => began # None /\ sync["live"].through = began - Margin
  BY DEF SyncInv, ExchangeSound, CheckpointsSound
<1>5. fetch.started \in Nat /\ fetch.cutoff \in Nat
  BY <1>3 DEF FetchType
<1>6. Late \in Nat /\ Margin \in Nat /\ Overlap \in Nat /\ None \notin Nat
  BY SyncAssumption
<1>7. This = "live" \/ This = "historical"
  <2>1. job.todo \in Todos
    BY <1>1 DEF SyncInv, JobSound, JobType
  <2>2. QED
    BY <1>3, <2>1, PartsInTurn DEF This
<1>8. began' = began \/ began' # None
  BY <1>1, <1>5, <1>6
<1>9. This = "live" => began' # None
  BY <1>1, <1>5, <1>6
<1>10. JobSound'
  BY <1>1, <1>2, <1>3, <1>8, <1>9, NextPartSound
<1>11. ExchangeSound' /\ FetchSound'
  BY <1>1, <1>2 DEF SyncInv, ExchangeSound, FetchSound
<1>12. FinishSound'
  BY <1>1, <1>2, <1>8 DEF SyncInv, FinishSound
<1>13. CheckpointsSound'
  <2>1. DOMAIN sync' = TradePart
    BY <1>1, <1>4
  <2>2. CASE This = "historical"
    <3>1. covered' = fetch.cutoff /\ began' = began
      BY <1>1, <2>2
    <3>2. sync'["live"] = sync["live"]
      BY <1>1, <1>4, <2>2 DEF TradePart
    <3>3. covered' \in 0 .. cutoff /\ \A t \in made : t < covered' => t \in stored
      <4>1. fetch.cutoff \in 0 .. cutoff
        BY <1>3, <1>4, <1>5
      <4>2. \A t \in made : t < fetch.cutoff => t \in stored
        BY <1>3, <2>2
      <4>3. QED
        BY <3>1, <4>1, <4>2
    <3>4. ASSUME began # None, NEW t \in made, t + Late < began PROVE t \in stored \/ Slipped(t)'
      <4>1. t \in stored \/ t < cutoff
        BY <1>4, <3>4 DEF Slipped
      <4>2. t \in Int /\ covered' \in Int
        BY <1>4, <3>3
      <4>3. t < covered' \/ covered' <= t
        BY <4>2
      <4>4. QED
        BY <1>2, <3>3, <4>1, <4>3 DEF Slipped
    <3>5. QED
      BY <1>1, <1>2, <1>4, <2>1, <3>1, <3>2, <3>3, <3>4 DEF CheckpointsSound
  <2>3. CASE This = "live"
    <3>1. covered' = covered /\ began' = fetch.started
      BY <1>1, <2>3
    <3>2. sync'["live"] = [through |-> Through, completed |-> now]
      BY <1>1, <1>4, <2>3 DEF TradePart
    <3>3. sync'["live"].through = fetch.started - Margin
      BY <3>2 DEF Through
    <3>4. fetch.started \in 0 .. now
      BY <1>3, <1>4, <1>5
    <3>5. ASSUME NEW t \in made, t + Late < fetch.started PROVE t \in stored \/ Slipped(t)'
      <4>1. t \in Nat
        BY <1>4
      <4>2. t \in stored \/ t < cutoff
        <5>1. CASE fetch.minTs <= t
          BY <1>3, <2>3, <3>5, <5>1
        <5>2. CASE ~ (fetch.minTs <= t)
          <6>1. sync["live"] # None
            BY <1>3, <2>3, <4>1, <5>2
          <6>2. began # None /\ began \in Nat /\ fetch.minTs = began - Margin - Overlap
            BY <1>3, <1>4, <2>3, <6>1
          <6>3. t + Late < began
            BY <1>6, <4>1, <5>2, <6>2 DEF ShownInTime
          <6>4. t \in stored \/ Slipped(t)
            BY <1>4, <6>2, <6>3
          <6>5. QED
            BY <6>4 DEF Slipped
        <5>3. QED
          BY <5>1, <5>2
      <4>3. covered <= t \/ t < covered
        BY <1>4, <4>1
      <4>4. QED
        BY <1>2, <1>4, <3>1, <4>2, <4>3 DEF Slipped
    <3>6. QED
      BY <1>1, <1>2, <1>4, <1>9, <2>1, <2>3, <3>1, <3>3, <3>4, <3>5 DEF CheckpointsSound
  <2>4. QED
    BY <1>7, <2>2, <2>3
<1>14. QED
  BY <1>10, <1>11, <1>12, <1>13 DEF SyncInv

\* Every step of the sync keeps its invariant.
LEMMA SyncSteps ==
    ASSUME SyncInv, ShownInTime, SyncNext
    PROVE  SyncInv'
<1>1. CASE Exchange
  BY <1>1, ExchangeSteps
<1>2. CASE StartSync \/ ReadCutoff \/ ReadMarket \/ SyncEnds \/ SyncStops
  BY <1>2, JobSteps
<1>3. CASE SkipPart \/ PartFails \/ StartPart
  BY <1>3, PartSteps
<1>4. CASE FetchTrades
  BY <1>4, PageSteps
<1>5. CASE Checkpoint
  BY <1>5, CheckpointSteps
<1>6. QED
  BY <1>1, <1>2, <1>3, <1>4, <1>5 DEF SyncNext, Exchange

\* Nothing is made and nothing done.
LEMMA NothingSynced ==
    ASSUME SyncInit
    PROVE  SyncInv
<1>1. /\ alive = FALSE /\ now = 0 /\ cutoff = 0 /\ made = {} /\ hidden = {} /\ closed = None
      /\ settled = None /\ stored = {} /\ sync = [part \in TradePart |-> None] /\ fetch = None
      /\ covered = 0 /\ began = None /\ finished = None
  BY DEF SyncInit, RunInit
<1>2. ExchangeSound
  BY <1>1 DEF ExchangeSound
<1>3. CheckpointsSound
  BY <1>1 DEF CheckpointsSound, TradePart
<1>4. FinishSound /\ JobSound /\ FetchSound
  BY <1>1 DEF FinishSound, JobSound, FetchSound
<1>5. QED
  BY <1>2, <1>3, <1>4 DEF SyncInv

\* Once a run got through a market it knew to be settled, all its trades are stored but those
\* that slipped past the cutoff or were shown too late: NothingElseIsMissing, for any trades,
\* delays, pages, buffers, failures, kills and any number of runs, when what is shown late is
\* shown within the margin and the overlap.
THEOREM NothingElseIsEverMissing ==
    ASSUME ShownInTime
    PROVE  CollectionSpec => []NothingElseIsMissing
<1> DEFINE Inv == /\ collecting = "trades" => SyncInv
                  /\ collecting # "trades" => finished = None
<1>1. CollectionInit => Inv
  <2> SUFFICES ASSUME CollectionInit PROVE Inv
    OBVIOUS
  <2>1. SyncInit
    BY DEF CollectionInit
  <2>2. QED
    BY <2>1, NothingSynced DEF SyncInit
<1>2. Inv /\ [CollectionNext]_collectionVars => Inv'
  <2> SUFFICES ASSUME Inv, [CollectionNext]_collectionVars PROVE Inv'
    OBVIOUS
  <2>1. CASE UNCHANGED collectionVars
    <3>1. UNCHANGED <<collecting, alive, now, cutoff, made, hidden, closed, settled, stored, sync,
                      job, fetch, failed, covered, began, finished>>
      BY <2>1 DEF collectionVars, run, noTrades, market, tables, ghosts
    <3>2. ExchangeSound' = ExchangeSound /\ FinishSound' = FinishSound
      BY <3>1 DEF ExchangeSound, FinishSound
    <3>3. CheckpointsSound' = CheckpointsSound
      BY <3>1 DEF CheckpointsSound, Slipped
    <3>4. JobSound' = JobSound /\ FetchSound' = FetchSound
      BY <3>1 DEF JobSound, LiveLeft, FetchSound, This, Reached
    <3>5. QED
      BY <3>1, <3>2, <3>3, <3>4 DEF SyncInv
  <2>2. CASE CollectionNext /\ collecting = "trades"
    <3>1. SyncNext /\ collecting' = collecting
      BY <2>2 DEF CollectionNext
    <3>2. SyncInv'
      BY <2>2, <3>1, SyncSteps
    <3>3. QED
      BY <2>2, <3>1, <3>2
  <2>3. CASE CollectionNext /\ collecting # "trades"
    <3>1. collecting' = collecting /\ UNCHANGED noTrades
      BY <2>3 DEF CollectionNext
    <3>2. finished' = finished
      BY <3>1 DEF noTrades, ghosts
    <3>3. QED
      BY <2>3, <3>1, <3>2
  <2>4. QED
    BY <2>1, <2>2, <2>3
<1>3. Inv => NothingElseIsMissing
  <2>1. SyncInv => NothingElseIsMissing
    BY NothingElseIsLost
  <2>2. QED
    BY <2>1 DEF NothingElseIsMissing
<1>4. QED
  <2> HIDE DEF Inv
  <2>1. QED
    BY <1>1, <1>2, <1>3, PTL DEF CollectionSpec

----------------------------------------------------------------------------
(* A paper session.  What is on its way to the engine is a sequence of     *)
(* events; only its trades, and the last book of each market, matter.      *)

Event ==
    [kind : {"book"}, market : Polled, book : Books] \cup [kind : {"trade"}, id : Nat]
        \cup [kind : {"confirm", "end"}]

\* What one event is.
LEMMA OneEvent ==
    ASSUME NEW e \in Event
    PROVE  /\ <<e>> \in Seq(Event)
           /\ Ids(<<e>>) = IF e.kind = "trade" THEN {e.id} ELSE {}
           /\ Ordered(<<e>>)
           /\ \A m, book : BookAfter(<<e>>, m, book) =
                  IF e.kind = "book" /\ e.market = m THEN e.book ELSE book
<1>1. <<e>> \in Seq(Event) /\ DOMAIN <<e>> = {1} /\ <<e>>[1] = e
  OBVIOUS
<1>2. TradesIn(<<e>>) = IF e.kind = "trade" THEN {1} ELSE {}
  BY <1>1 DEF TradesIn
<1>3. Ids(<<e>>) = IF e.kind = "trade" THEN {e.id} ELSE {}
  BY <1>1, <1>2 DEF Ids
<1>4. Ordered(<<e>>)
  BY <1>2 DEF Ordered
<1>5. ASSUME NEW m, NEW book
      PROVE  BookAfter(<<e>>, m, book) = IF e.kind = "book" /\ e.market = m THEN e.book ELSE book
  <2> DEFINE of == {k \in DOMAIN <<e>> : <<e>>[k].kind = "book" /\ <<e>>[k].market = m}
  <2>1. of = IF e.kind = "book" /\ e.market = m THEN {1} ELSE {}
    BY <1>1
  <2>2. Max({1}) = 1
    BY DEF Max
  <2>3. BookAfter(<<e>>, m, book) = IF of = {} THEN book ELSE <<e>>[Max(of)].book
    BY DEF BookAfter
  <2> HIDE DEF of
  <2>4. QED
    BY <1>1, <2>1, <2>2, <2>3
<1>6. QED
  BY <1>1, <1>3, <1>4, <1>5

LEMMA NoEvent ==
    /\ <<>> \in Seq(Event) /\ Ids(<<>>) = {} /\ Ordered(<<>>)
    /\ \A m, book : BookAfter(<<>>, m, book) = book
<1>1. TradesIn(<<>>) = {}
  BY DEF TradesIn
<1>2. QED
  BY <1>1 DEF Ids, Ordered, BookAfter

\* Where the events of two sequences are when one follows the other.
LEMMA PlacesOfBoth ==
    ASSUME NEW s \in Seq(Event), NEW t \in Seq(Event)
    PROVE  /\ s \o t \in Seq(Event)
           /\ Len(s) \in Nat /\ DOMAIN s = 1 .. Len(s) /\ DOMAIN t = 1 .. Len(t)
           /\ DOMAIN (s \o t) = 1 .. Len(s) + Len(t) /\ Len(t) \in Nat
           /\ \A k \in DOMAIN s : k \in DOMAIN (s \o t) /\ (s \o t)[k] = s[k]
           /\ \A k \in DOMAIN t : Len(s) + k \in DOMAIN (s \o t) /\ (s \o t)[Len(s) + k] = t[k]
           /\ \A k \in DOMAIN (s \o t) : k \in DOMAIN s \/ k - Len(s) \in DOMAIN t
<1>1. /\ s \o t \in Seq(Event) /\ Len(s \o t) = Len(s) + Len(t)
      /\ \A i \in 1 .. Len(s) + Len(t) :
             (s \o t)[i] = IF i <= Len(s) THEN s[i] ELSE t[i - Len(s)]
  BY ConcatProperties
<1>2. /\ Len(s) \in Nat /\ DOMAIN s = 1 .. Len(s) /\ Len(t) \in Nat /\ DOMAIN t = 1 .. Len(t)
      /\ DOMAIN (s \o t) = 1 .. Len(s \o t)
  BY <1>1, LenProperties
<1>3. \A k \in DOMAIN s : k \in DOMAIN (s \o t) /\ (s \o t)[k] = s[k]
  BY <1>1, <1>2
<1>4. \A k \in DOMAIN t : Len(s) + k \in DOMAIN (s \o t) /\ (s \o t)[Len(s) + k] = t[k]
  <2> SUFFICES ASSUME NEW k \in DOMAIN t
               PROVE  Len(s) + k \in DOMAIN (s \o t) /\ (s \o t)[Len(s) + k] = t[k]
    OBVIOUS
  <2>1. Len(s) + k \in 1 .. Len(s) + Len(t) /\ ~ (Len(s) + k <= Len(s)) /\ (Len(s) + k) - Len(s) = k
    BY <1>2
  <2>2. QED
    BY <1>1, <1>2, <2>1
<1>5. \A k \in DOMAIN (s \o t) : k \in DOMAIN s \/ k - Len(s) \in DOMAIN t
  BY <1>1, <1>2
<1>6. QED
  BY <1>1, <1>2, <1>3, <1>4, <1>5

LEMMA TradesOfBoth ==
    ASSUME NEW s \in Seq(Event), NEW t \in Seq(Event)
    PROVE  /\ Ids(s \o t) = Ids(s) \cup Ids(t)
           /\ Ordered(s \o t) <=> /\ Ordered(s) /\ Ordered(t)
                                  /\ \A i \in Ids(s), j \in Ids(t) : i < j
<1> DEFINE both == s \o t
           n == Len(s)
<1>1. /\ n \in Nat /\ DOMAIN s = 1 .. n /\ DOMAIN t \subseteq Nat \ {0} /\ DOMAIN both \subseteq Nat
      /\ \A k \in DOMAIN s : k \in DOMAIN both /\ both[k] = s[k]
      /\ \A k \in DOMAIN t : n + k \in DOMAIN both /\ both[n + k] = t[k]
      /\ \A k \in DOMAIN both : k \in DOMAIN s \/ k - n \in DOMAIN t
  BY PlacesOfBoth
<1> HIDE DEF both, n
<1>2. /\ \A k \in TradesIn(s) : k \in TradesIn(both) /\ both[k] = s[k] /\ k \in 1 .. n
      /\ \A k \in TradesIn(t) : n + k \in TradesIn(both) /\ both[n + k] = t[k] /\ k \in Nat \ {0}
      /\ \A k \in TradesIn(both) : \/ k \in TradesIn(s) /\ both[k] = s[k]
                                   \/ k - n \in TradesIn(t) /\ both[k] = t[k - n]
  <2>1. \A k \in DOMAIN both : n + (k - n) = k
    BY <1>1
  <2>2. QED
    BY <1>1, <2>1 DEF TradesIn
<1>3. TradesIn(both) \subseteq Nat
  BY <1>1 DEF TradesIn
<1>4. Ids(both) = Ids(s) \cup Ids(t)
  BY <1>2 DEF Ids
<1>5. ASSUME Ordered(both) PROVE Ordered(s) /\ Ordered(t) /\ \A i \in Ids(s), j \in Ids(t) : i < j
  <2>1. Ordered(s)
    BY <1>2, <1>5 DEF Ordered
  <2>2. ASSUME NEW j \in TradesIn(t), NEW k \in TradesIn(t), j < k PROVE t[j].id < t[k].id
    <3>1. n + j < n + k
      BY <1>1, <1>2, <2>2
    <3>2. QED
      BY <1>2, <1>5, <3>1 DEF Ordered
  <2>3. ASSUME NEW j \in TradesIn(s), NEW k \in TradesIn(t) PROVE s[j].id < t[k].id
    <3>1. j < n + k
      BY <1>1, <1>2, <2>3
    <3>2. QED
      BY <1>2, <1>5, <3>1 DEF Ordered
  <2>4. QED
    BY <2>1, <2>2, <2>3 DEF Ordered, Ids
<1>6. ASSUME Ordered(s), Ordered(t), \A i \in Ids(s), j \in Ids(t) : i < j PROVE Ordered(both)
  <2> SUFFICES ASSUME NEW j \in TradesIn(both), NEW k \in TradesIn(both), j < k
               PROVE  both[j].id < both[k].id
    BY DEF Ordered
  <2>1. CASE j \in TradesIn(s) /\ both[j] = s[j] /\ k \in TradesIn(s) /\ both[k] = s[k]
    BY <1>6, <2>1 DEF Ordered
  <2>2. CASE j \in TradesIn(s) /\ both[j] = s[j] /\ k - n \in TradesIn(t) /\ both[k] = t[k - n]
    BY <1>6, <2>2 DEF Ids
  <2>3. CASE j - n \in TradesIn(t) /\ k \in TradesIn(s)
    <3>1. j - n > 0 /\ k <= n
      BY <1>1, <1>2, <2>3
    <3>2. QED
      BY <1>1, <1>3, <3>1
  <2>4. CASE /\ j - n \in TradesIn(t) /\ both[j] = t[j - n]
             /\ k - n \in TradesIn(t) /\ both[k] = t[k - n]
    <3>1. j - n < k - n
      BY <1>1, <1>3
    <3>2. QED
      BY <1>6, <2>4, <3>1 DEF Ordered
  <2>5. QED
    BY <1>2, <2>1, <2>2, <2>3, <2>4
<1>7. QED
  BY <1>4, <1>5, <1>6 DEF both

LEMMA BookOfBoth ==
    ASSUME NEW s \in Seq(Event), NEW t \in Seq(Event)
    PROVE  \A m, book : BookAfter(s \o t, m, book) = BookAfter(t, m, BookAfter(s, m, book))
<1> SUFFICES ASSUME NEW m, NEW book
             PROVE  BookAfter(s \o t, m, book) = BookAfter(t, m, BookAfter(s, m, book))
  OBVIOUS
<1> DEFINE Of(u) == {k \in DOMAIN u : u[k].kind = "book" /\ u[k].market = m}
           both == s \o t
           n == Len(s)
<1>1. /\ n \in Nat /\ DOMAIN s = 1 .. n /\ Len(t) \in Nat /\ DOMAIN t = 1 .. Len(t)
      /\ DOMAIN both = 1 .. n + Len(t)
      /\ \A k \in DOMAIN s : k \in DOMAIN both /\ both[k] = s[k]
      /\ \A k \in DOMAIN t : n + k \in DOMAIN both /\ both[n + k] = t[k]
      /\ \A k \in DOMAIN both : k \in DOMAIN s \/ k - n \in DOMAIN t
  BY PlacesOfBoth
<1>2. \A u, b : BookAfter(u, m, b) = IF Of(u) = {} THEN b ELSE u[Max(Of(u))].book
  BY DEF BookAfter
<1> HIDE DEF n, both
<1>3. /\ Of(s) \subseteq Of(both) /\ \A k \in Of(t) : n + k \in Of(both)
      /\ \A k \in Of(both) : k \in Of(s) \/ k - n \in Of(t)
  <2>1. \A k \in DOMAIN both : n + (k - n) = k
    BY <1>1
  <2>2. QED
    BY <1>1, <2>1
<1>4. Of(s) \subseteq 1 .. n /\ Of(t) \subseteq 1 .. Len(t) /\ Of(both) \subseteq 1 .. n + Len(t)
  BY <1>1
<1> DEFINE IsMax(x, set) == x \in set /\ \A y \in set : y <= x
<1>5. ASSUME NEW set \in SUBSET Nat, NEW x, IsMax(x, set) PROVE Max(set) = x
  <2>1. x \in set /\ \A y \in set : x >= y
    BY <1>5
  <2>2. \A z \in set : (\A y \in set : z >= y) => z = x
    BY <2>1
  <2>3. QED
    BY <2>1, <2>2 DEF Max
<1> HIDE DEF Of
<1>6. CASE Of(t) # {}
  <2>1. PICK x \in Of(t) : \A y \in Of(t) : y <= x
    <3>1. Of(t) \subseteq 0 .. Len(t)
      BY <1>4
    <3>2. QED
      BY <1>1, <1>6, <3>1, GreatestExists
  <2>2. Max(Of(t)) = x
    BY <1>4, <1>5, <2>1
  <2>3. IsMax(n + x, Of(both))
    <3>1. ASSUME NEW k \in Of(both) PROVE k <= n + x
      <4>1. CASE k \in Of(s)
        BY <1>1, <1>4, <2>1, <4>1
      <4>2. CASE k - n \in Of(t)
        BY <1>1, <1>4, <2>1, <4>2
      <4>3. QED
        BY <1>3, <4>1, <4>2
    <3>2. QED
      BY <1>3, <2>1, <3>1
  <2>4. Max(Of(both)) = n + x
    BY <1>1, <1>4, <1>5, <2>3
  <2>5. both[n + x] = t[x]
    BY <1>1, <1>4, <2>1
  <2>6. QED
    BY <1>2, <1>6, <2>2, <2>3, <2>4, <2>5 DEF both
<1>7. CASE Of(t) = {} /\ Of(s) # {}
  <2>1. Of(both) = Of(s)
    BY <1>3, <1>7
  <2>2. PICK x \in Of(s) : \A y \in Of(s) : y <= x
    <3>1. Of(s) \subseteq 0 .. n
      BY <1>4
    <3>2. QED
      BY <1>1, <1>7, <3>1, GreatestExists
  <2>3. Max(Of(s)) = x /\ both[x] = s[x]
    BY <1>1, <1>4, <1>5, <2>2
  <2>4. BookAfter(both, m, book) = s[x].book
    BY <1>2, <1>7, <2>1, <2>3
  <2>5. BookAfter(s, m, book) = s[x].book
    BY <1>2, <1>7, <2>3
  <2>6. BookAfter(t, m, BookAfter(s, m, book)) = BookAfter(s, m, book)
    BY <1>2, <1>7
  <2>7. QED
    BY <2>4, <2>5, <2>6 DEF both
<1>8. CASE Of(t) = {} /\ Of(s) = {}
  <2>1. Of(both) = {}
    BY <1>3, <1>8
  <2>2. QED
    BY <1>2, <1>8, <2>1 DEF both
<1>9. QED
  BY <1>6, <1>7, <1>8

----------------------------------------------------------------------------

\* InOrder puts places in their order, each once.
LEMMA PlacesInOrder ==
    ASSUME NEW places \in SUBSET Nat, IsFiniteSet(places)
    PROVE  /\ Cardinality(places) \in Nat
           /\ InOrder(places) \in [1 .. Cardinality(places) -> places]
           /\ \A i \in places : \E k \in 1 .. Cardinality(places) : InOrder(places)[k] = i
           /\ \A j, k \in 1 .. Cardinality(places) : j < k => InOrder(places)[j] < InOrder(places)[k]
           /\ \A j, k \in 1 .. Cardinality(places) : j # k => InOrder(places)[j] # InOrder(places)[k]
<1> DEFINE n == Cardinality(places)
           upTo == [i \in places |-> {j \in places : j <= i}]
           rank == [i \in places |-> Cardinality(upTo[i])]
           InTurn(s) == \A j, k \in DOMAIN s : j < k => s[j] < s[k]
<1>1. n \in Nat /\ IsFiniteSet(1 .. n) /\ Cardinality(1 .. n) = n
  BY FS_CardinalityType, FS_Interval
<1>2. ASSUME NEW i \in places PROVE rank[i] \in 1 .. n /\ IsFiniteSet(upTo[i])
  <2>1. upTo[i] \subseteq places /\ i \in upTo[i]
    OBVIOUS
  <2> HIDE DEF upTo
  <2>2. IsFiniteSet(upTo[i]) /\ Cardinality(upTo[i]) <= n /\ Cardinality(upTo[i]) \in Nat
    BY <2>1, FS_Subset, FS_CardinalityType
  <2>3. Cardinality(upTo[i]) # 0
    BY <2>1, <2>2, FS_EmptySet
  <2>4. QED
    BY <1>1, <2>2, <2>3
<1>3. ASSUME NEW i \in places, NEW j \in places, i < j PROVE rank[i] < rank[j]
  <2>a. i \in Nat /\ j \in Nat
    OBVIOUS
  <2>b. j \in upTo[j] /\ j \notin upTo[i]
    BY <1>3, <2>a
  <2>c. \A k \in places : k <= i => k <= j
    BY <1>3, <2>a
  <2>1. upTo[i] \subseteq upTo[j] /\ j \in upTo[j] /\ j \notin upTo[i]
    BY <2>b, <2>c
  <2>2. IsFiniteSet(upTo[i]) /\ IsFiniteSet(upTo[j])
    BY <1>2
  <2> HIDE DEF upTo
  <2>3. /\ Cardinality(upTo[i]) <= Cardinality(upTo[j])
        /\ Cardinality(upTo[i]) # Cardinality(upTo[j])
    BY <2>1, <2>2, FS_Subset
  <2>4. rank[i] \in Nat /\ rank[j] \in Nat
    BY <1>1, <1>2
  <2>5. rank[i] = Cardinality(upTo[i]) /\ rank[j] = Cardinality(upTo[j])
    OBVIOUS
  <2> HIDE DEF rank
  <2>6. QED
    BY <2>3, <2>4, <2>5
<1> HIDE DEF rank, upTo
<1>4. rank \in Injection(places, 1 .. n)
  <2>1. rank \in [places -> 1 .. n]
    BY <1>2 DEF rank
  <2>2. ASSUME NEW i \in places, NEW j \in places, rank[i] = rank[j] PROVE i = j
    <3>1. rank[i] \in Nat /\ rank[j] \in Nat
      BY <1>1, <1>2
    <3>2. ~ (i < j) /\ ~ (j < i)
      BY <1>3, <2>2, <3>1
    <3>3. QED
      BY <3>2
  <2>3. QED
    BY <2>1, <2>2 DEF Injection, IsInjective
<1>5. rank \in Surjection(places, 1 .. n)
  BY <1>1, <1>4, FS_Injection
<1>6. \A k \in 1 .. n : \E i \in places : rank[i] = k
  BY <1>5 DEF Surjection
<1> DEFINE sorted == [k \in 1 .. n |-> CHOOSE i \in places : rank[i] = k]
<1>7. \A k \in 1 .. n : sorted[k] \in places /\ rank[sorted[k]] = k
  BY <1>6
<1>8. sorted \in [1 .. n -> places] /\ InTurn(sorted)
  <2>1. sorted \in [1 .. n -> places]
    BY <1>7
  <2>2. ASSUME NEW j \in 1 .. n, NEW k \in 1 .. n, j < k PROVE sorted[j] < sorted[k]
    <3> HIDE DEF sorted
    <3>1. /\ sorted[j] \in places /\ sorted[k] \in places
          /\ rank[sorted[j]] = j /\ rank[sorted[k]] = k
      BY <1>7
    <3>2. sorted[j] # sorted[k]
      BY <1>1, <2>2, <3>1
    <3>3. ~ (sorted[k] < sorted[j])
      <4>1. ASSUME sorted[k] < sorted[j] PROVE FALSE
        <5>1. rank[sorted[k]] < rank[sorted[j]]
          BY <1>3, <3>1, <4>1
        <5>2. k < j /\ j \in Int /\ k \in Int
          BY <1>1, <3>1, <5>1
        <5>3. QED
          BY <2>2, <5>2
      <4>2. QED
        BY <4>1
    <3>4. sorted[j] \in Nat /\ sorted[k] \in Nat
      BY <3>1
    <3>5. QED
      BY <3>2, <3>3, <3>4
  <2>3. QED
    BY <2>1, <2>2
<1> HIDE DEF sorted
<1> DEFINE ids == InOrder(places)
<1>9. ids \in [1 .. n -> places] /\ InTurn(ids)
  BY <1>8 DEF InOrder
<1> HIDE DEF ids
<1>10. \A j, k \in 1 .. n : j # k => ids[j] # ids[k]
  <2> SUFFICES ASSUME NEW j \in 1 .. n, NEW k \in 1 .. n, j # k PROVE ids[j] # ids[k]
    OBVIOUS
  <2>1. j < k \/ k < j
    BY <1>1
  <2>2. ids[j] < ids[k] \/ ids[k] < ids[j]
    BY <1>9, <2>1
  <2>3. ids[j] \in Nat /\ ids[k] \in Nat
    BY <1>9
  <2>4. QED
    BY <2>2, <2>3
<1>11. \A i \in places : \E k \in 1 .. n : ids[k] = i
  <2>1. ids \in Injection(1 .. n, places)
    BY <1>9, <1>10 DEF Injection, IsInjective
  <2>2. ids \in Surjection(1 .. n, places)
    BY <1>1, <2>1, FS_Injection
  <2>3. QED
    BY <2>2 DEF Surjection
<1>12. QED
  BY <1>1, <1>9, <1>10, <1>11 DEF ids

\* What is read is yielded in order, each trade once.
LEMMA TradesAreInOrder ==
    ASSUME NEW trades \in SUBSET Nat, IsFiniteSet(trades)
    PROVE  /\ Trades(InOrder(trades)) \in Seq(Event)
           /\ Ids(Trades(InOrder(trades))) = trades /\ Ordered(Trades(InOrder(trades)))
           /\ \A m, book : BookAfter(Trades(InOrder(trades)), m, book) = book
<1> DEFINE n == Cardinality(trades)
           ids == InOrder(trades)
<1>1. /\ n \in Nat /\ ids \in [1 .. n -> trades] /\ \A i \in trades : \E k \in 1 .. n : ids[k] = i
      /\ \A j, k \in 1 .. n : j < k => ids[j] < ids[k]
  BY PlacesInOrder
<1> HIDE DEF n, ids
<1> DEFINE events == Trades(ids)
<1>2. /\ DOMAIN events = 1 .. n
       /\ \A k \in 1 .. n : events[k] = [kind |-> "trade", id |-> ids[k]] /\ ids[k] \in Nat
  BY <1>1 DEF Trades, TradeEvent
<1>3. events \in Seq(Event)
  <2>1. events = [k \in 1 .. n |-> [kind |-> "trade", id |-> ids[k]]]
    BY <1>1 DEF Trades, TradeEvent
  <2>2. \A k \in 1 .. n : [kind |-> "trade", id |-> ids[k]] \in Event
    BY <1>2 DEF Event
  <2>3. events \in [1 .. n -> Event]
    BY <2>1, <2>2
  <2>4. QED
    BY <1>1, <2>3, SeqDef
<1> HIDE DEF events
<1>4. TradesIn(events) = 1 .. n
  BY <1>2 DEF TradesIn
<1>5. Ids(events) = trades
  <2>1. Ids(events) = {ids[k] : k \in 1 .. n}
    BY <1>2, <1>4 DEF Ids
  <2>2. QED
    BY <1>1, <2>1
<1>6. Ordered(events)
  BY <1>1, <1>2, <1>4 DEF Ordered
<1>7. ASSUME NEW m, NEW book PROVE BookAfter(events, m, book) = book
  <2>1. {k \in DOMAIN events : events[k].kind = "book" /\ events[k].market = m} = {}
    BY <1>2
  <2>2. QED
    BY <2>1 DEF BookAfter
<1>8. QED
  BY <1>3, <1>5, <1>6, <1>7 DEF events, ids

\* The books of a batch that changed, in any order.
LEMMA ChangesAreYielded ==
    ASSUME NEW answer, NEW markets, markets \subseteq Polled, IsFiniteSet(markets),
           \A m \in markets : answer[m] \in Books,
           NEW events, events = SetToSeq({BookEvent(m, answer[m]) : m \in markets})
    PROVE  /\ events \in Seq(Event) /\ Ids(events) = {} /\ Ordered(events)
           /\ \A m, book : BookAfter(events, m, book) = IF m \in markets THEN answer[m] ELSE book
<1> DEFINE set == {BookEvent(m, answer[m]) : m \in markets}
           event == [m \in markets |-> BookEvent(m, answer[m])]
           n == Cardinality(set)
<1>1. IsFiniteSet(set)
  <2>1. event \in [markets -> set] /\ \A e \in set : \E m \in markets : event[m] = e
    OBVIOUS
  <2> HIDE DEF event, set
  <2>2. event \in Surjection(markets, set)
    BY <2>1 DEF Surjection
  <2>3. QED
    BY <2>2, FS_Surjection
<1> HIDE DEF event
<1>2. \A e \in set : e \in Event /\ e.kind = "book" /\ e.market \in markets
                      /\ e.book = answer[e.market]
  BY DEF BookEvent, Event
<1>3. \A m \in markets : \E e \in set : e.market = m
  <2>1. \A m \in markets : BookEvent(m, answer[m]) \in set /\ BookEvent(m, answer[m]).market = m
    BY DEF BookEvent
  <2> HIDE DEF set
  <2>2. QED
    BY <2>1
<1> HIDE DEF set
<1>4. n \in Nat /\ IsFiniteSet(1 .. n) /\ Cardinality(1 .. n) = n
  BY <1>1, FS_CardinalityType, FS_Interval
<1>5. \E f \in [1 .. n -> set] : IsInjective(f)
  <2>1. ExistsBijection(1 .. n, set)
    BY <1>1, FS_CardinalityType
  <2>2. PICK f \in Bijection(1 .. n, set) : TRUE
    BY <2>1 DEF ExistsBijection
  <2>3. f \in [1 .. n -> set] /\ IsInjective(f)
    BY <2>2 DEF Bijection, Injection
  <2>4. QED
    BY <2>3
<1>6. events \in [1 .. n -> set] /\ IsInjective(events)
  BY <1>5 DEF SetToSeq, set
<1>7. \A e \in set : \E k \in 1 .. n : events[k] = e
  <2>1. events \in Injection(1 .. n, set)
    BY <1>6 DEF Injection
  <2>2. events \in Surjection(1 .. n, set)
    BY <1>1, <1>4, <2>1, FS_Injection
  <2>3. QED
    BY <2>2 DEF Surjection
<1>8. events \in Seq(Event)
  <2>1. events \in [1 .. n -> Event]
    BY <1>2, <1>6
  <2>2. QED
    BY <1>4, <2>1, SeqDef
<1>9. /\ DOMAIN events = 1 .. n
      /\ \A k \in 1 .. n : /\ events[k].kind = "book" /\ events[k].market \in markets
                            /\ events[k].book = answer[events[k].market]
  BY <1>2, <1>6
<1>10. TradesIn(events) = {}
  BY <1>9 DEF TradesIn
<1>11. Ids(events) = {} /\ Ordered(events)
  BY <1>10 DEF Ids, Ordered
<1>12. ASSUME NEW m, NEW book
       PROVE  BookAfter(events, m, book) = IF m \in markets THEN answer[m] ELSE book
  <2> DEFINE of == {k \in DOMAIN events : events[k].kind = "book" /\ events[k].market = m}
  <2>1. BookAfter(events, m, book) = IF of = {} THEN book ELSE events[Max(of)].book
    BY DEF BookAfter
  <2>2. \A k \in of : events[k].book = answer[m] /\ m \in markets
    BY <1>9
  <2>3. of \subseteq 0 .. n
    <3>1. of \subseteq DOMAIN events
      OBVIOUS
    <3> HIDE DEF of
    <3>2. 1 .. n \subseteq 0 .. n
      BY <1>4
    <3>3. DOMAIN events = 1 .. n
      BY <1>9
    <3> HIDE DEF n
    <3>4. QED
      BY <3>1, <3>2, <3>3
  <2>4. m \in markets => of # {}
    <3> SUFFICES ASSUME m \in markets PROVE of # {}
      OBVIOUS
    <3>1. PICK e \in set : e.market = m
      BY <1>3
    <3>2. PICK k \in 1 .. n : events[k] = e
      BY <1>7
    <3>3. QED
      BY <1>9, <3>1, <3>2
  <2> HIDE DEF of
  <2>5. ASSUME of # {} PROVE Max(of) \in of
    <3>1. PICK x \in of : \A y \in of : y <= x
      BY <1>4, <2>3, <2>5, GreatestExists
    <3>2. \A y \in of : x >= y
      BY <2>3, <3>1
    <3>3. QED
      BY <3>1, <3>2 DEF Max
  <2>6. QED
    BY <2>1, <2>2, <2>4, <2>5
<1>13. QED
  BY <1>8, <1>11, <1>12

----------------------------------------------------------------------------

\* What the engine was shown, what is in the queue and what the source is yielding.
LEMMA AllThree ==
    ASSUME NEW s \in Seq(Event), NEW t \in Seq(Event), NEW u \in Seq(Event)
    PROVE  /\ Ids(s \o t \o u) = Ids(s) \cup Ids(t) \cup Ids(u)
           /\ Ordered(s \o t \o u) <=>
                  /\ Ordered(s) /\ Ordered(t) /\ Ordered(u)
                  /\ \A i \in Ids(s), j \in Ids(t) \cup Ids(u) : i < j
                  /\ \A i \in Ids(t), j \in Ids(u) : i < j
<1>1. s \o t \in Seq(Event)
  BY ConcatProperties
<1>2. /\ Ids(s \o t) = Ids(s) \cup Ids(t)
      /\ Ordered(s \o t) <=> Ordered(s) /\ Ordered(t) /\ \A i \in Ids(s), j \in Ids(t) : i < j
  BY TradesOfBoth
<1>3. /\ Ids(s \o t \o u) = Ids(s \o t) \cup Ids(u)
      /\ Ordered(s \o t \o u) <=>
             Ordered(s \o t) /\ Ordered(u) /\ \A i \in Ids(s \o t), j \in Ids(u) : i < j
  BY <1>1, TradesOfBoth
<1>4. QED
  BY <1>2, <1>3

\* One event goes from the front of a sequence to the end of the one before it.
LEMMA OneMovesOn ==
    ASSUME NEW s \in Seq(Event), s # <<>>
    PROVE  /\ Head(s) \in Event /\ Tail(s) \in Seq(Event)
           /\ Ids(s) = Ids(<<Head(s)>>) \cup Ids(Tail(s))
           /\ Ordered(s) => Ordered(Tail(s)) /\ \A i \in Ids(<<Head(s)>>), j \in Ids(Tail(s)) : i < j
           /\ \A m, book : BookAfter(s, m, book) = BookAfter(Tail(s), m, BookAfter(<<Head(s)>>, m, book))
<1>1. Head(s) \in Event /\ Tail(s) \in Seq(Event) /\ <<Head(s)>> \in Seq(Event)
  BY HeadTailProperties, OneEvent
<1>2. s = <<Head(s)>> \o Tail(s)
  <2>1. 1 \in 1 .. Len(s) /\ Len(s) \in 1 .. Len(s) /\ Len(s) \in Nat
    BY EmptySeq
  <2>2. SubSeq(s, 1, Len(s)) = <<s[1]>> \o SubSeq(s, 1 + 1, Len(s))
    BY <2>1, SubSeqRecursiveFirst
  <2>3. SubSeq(s, 1, Len(s)) = s
    BY SubSeqFull
  <2>4. Tail(s) = SubSeq(s, 2, Len(s))
    BY TailIsSubSeq
  <2>5. Head(s) = s[1]
    OBVIOUS
  <2>6. QED
    BY <2>2, <2>3, <2>4, <2>5
<1>3. /\ Ids(<<Head(s)>> \o Tail(s)) = Ids(<<Head(s)>>) \cup Ids(Tail(s))
      /\ Ordered(<<Head(s)>> \o Tail(s)) <=>
             /\ Ordered(<<Head(s)>>) /\ Ordered(Tail(s))
             /\ \A i \in Ids(<<Head(s)>>), j \in Ids(Tail(s)) : i < j
  BY <1>1, TradesOfBoth
<1>4. ASSUME NEW m, NEW book
      PROVE  BookAfter(<<Head(s)>> \o Tail(s), m, book) =
                 BookAfter(Tail(s), m, BookAfter(<<Head(s)>>, m, book))
  <2> DEFINE first == <<Head(s)>>
             rest == Tail(s)
  <2>1. first \in Seq(Event) /\ rest \in Seq(Event)
    BY <1>1
  <2> HIDE DEF first, rest
  <2>2. BookAfter(first \o rest, m, book) = BookAfter(rest, m, BookAfter(first, m, book))
    BY <2>1, BookOfBoth
  <2>3. QED
    BY <2>2 DEF first, rest
<1>5. QED
  BY <1>1, <1>2, <1>3, <1>4

LEMMA OneIsAdded ==
    ASSUME NEW s \in Seq(Event), NEW e \in Event
    PROVE  /\ Append(s, e) \in Seq(Event)
           /\ Ids(Append(s, e)) = Ids(s) \cup Ids(<<e>>)
           /\ Ordered(Append(s, e)) <=> Ordered(s) /\ \A i \in Ids(s), j \in Ids(<<e>>) : i < j
           /\ \A m, book : BookAfter(Append(s, e), m, book) =
                                BookAfter(<<e>>, m, BookAfter(s, m, book))
<1>1. <<e>> \in Seq(Event) /\ Ordered(<<e>>)
  BY OneEvent
<1>2. Append(s, e) = s \o <<e>> /\ Append(s, e) \in Seq(Event)
  BY AppendIsConcat, AppendProperties
<1>3. /\ Ids(s \o <<e>>) = Ids(s) \cup Ids(<<e>>)
      /\ Ordered(s \o <<e>>) <=>
             Ordered(s) /\ Ordered(<<e>>) /\ \A i \in Ids(s), j \in Ids(<<e>>) : i < j
  BY <1>1, TradesOfBoth
<1>4. ASSUME NEW m, NEW book
      PROVE  BookAfter(s \o <<e>>, m, book) = BookAfter(<<e>>, m, BookAfter(s, m, book))
  <2> DEFINE one == <<e>>
  <2>1. one \in Seq(Event)
    BY <1>1
  <2> HIDE DEF one
  <2>2. BookAfter(s \o one, m, book) = BookAfter(one, m, BookAfter(s, m, book))
    BY <2>1, BookOfBoth
  <2>3. QED
    BY <2>2 DEF one
<1>5. QED
  BY <1>1, <1>2, <1>3, <1>4

----------------------------------------------------------------------------

PrintsInOrder ==
    \A i \in 1 .. Len(printed) :
        /\ printed[i].at <= time
        /\ \A j \in i .. Len(printed) : printed[i].at <= printed[j].at
PaperTypes ==
    /\ time \in Nat /\ since \in Int /\ since <= time - Slack
    /\ printed \in Seq([market : Traded, at : Nat]) /\ read \in 0 .. Len(printed)
    /\ gathered \in Seq(Event) /\ feed \in Seq(Event) /\ tape \in Seq(Event)
    /\ view \in [Polled -> Books \cup {None}] /\ batch \in Nat

\* What a failed cycle throws away are books; between two cycles nothing waits to be yielded.
CycleSound ==
    /\ source = "books" => Ids(gathered) = {}
    /\ source \in {"sleeping", "failed"} => gathered = <<>>
    /\ lastBooks = told
BooksSound == source # "over" => \A m \in Polled \ mislaid : Held(m) = told[m]

\* A trade that was not read when its poll came never will be: it was made too long ago, or too
\* many were made after it.
Behind(i) == printed[i].at < since \/ i + MaxListed <= Len(printed)
TradesSound ==
    /\ Ordered(Delivered) /\ Ids(Delivered) \subseteq 1 .. read
    /\ seenTrades \subseteq Ids(Delivered) \cup missed
    /\ \A i \in 1 .. read :
           printed[i].market \in Polled /\ i \notin seenTrades => i \in missed /\ Behind(i)
    /\ \A i \in read + 1 .. Len(printed) : printed[i].at < since => i \in missed

PaperInv == PaperTypes /\ PrintsInOrder /\ CycleSound /\ BooksSound /\ TradesSound

LEMMA WhatTheSessionKeeps ==
    ASSUME PaperInv
    PROVE  SessionIsFaithful
<1>1. Ordered(Delivered)
  BY DEF PaperInv, TradesSound
<1>2. ASSUME source # "over"
      PROVE  /\ \A m \in Polled \ mislaid : Held(m) = told[m]
             /\ \A i \in 1 .. read :
                    printed[i].market \in Polled => i \in Ids(Delivered) \/ i \in missed
  BY <1>2 DEF PaperInv, TradesSound, BooksSound
<1>3. QED
  BY <1>1, <1>2 DEF SessionIsFaithful

\* The newest trades are the last ones.
LEMMA NewestAreLast ==
    ASSUME PaperTypes, PrintsInOrder, NEW n \in Nat
    PROVE  /\ ReadFirst(n) = {i \in Recent : Len(printed) - i < n}
           /\ Recent \subseteq 1 .. Len(printed) /\ Len(printed) \in Nat
           /\ Unseen(ReadFirst(n)) \in SUBSET Nat /\ IsFiniteSet(Unseen(ReadFirst(n)))
<1>1. /\ Len(printed) \in Nat /\ DOMAIN printed = 1 .. Len(printed) /\ since \in Int
      /\ \A i \in 1 .. Len(printed) : printed[i].at \in Nat
  <2>1. \A i \in 1 .. Len(printed) : printed[i] \in [market : Traded, at : Nat]
    BY ElementOfSeq DEF PaperTypes
  <2>2. QED
    BY <2>1, LenProperties DEF PaperTypes
<1>2. Recent \subseteq 1 .. Len(printed)
  BY <1>1 DEF Recent
<1>3. ASSUME NEW i \in Recent PROVE Cardinality({j \in Recent : j > i}) = Len(printed) - i
  <2>1. i \in 1 .. Len(printed) /\ printed[i].at >= since
    BY <1>1, <1>3 DEF Recent
  <2>2. \A j \in i + 1 .. Len(printed) : j \in 1 .. Len(printed) /\ printed[j].at >= since
    <3> SUFFICES ASSUME NEW j \in i + 1 .. Len(printed)
                 PROVE  j \in 1 .. Len(printed) /\ printed[j].at >= since
      OBVIOUS
    <3>1. j \in i .. Len(printed) /\ j \in 1 .. Len(printed)
      BY <1>1, <2>1
    <3>2. printed[i].at <= printed[j].at
      BY <2>1, <3>1 DEF PrintsInOrder
    <3>3. QED
      BY <1>1, <2>1, <3>1, <3>2
  <2>3. {j \in Recent : j > i} = i + 1 .. Len(printed)
    <3>1. i + 1 .. Len(printed) \subseteq {j \in Recent : j > i}
      BY <1>1, <2>1, <2>2 DEF Recent
    <3>2. {j \in Recent : j > i} \subseteq i + 1 .. Len(printed)
      BY <1>1, <1>2, <2>1
    <3>3. QED
      BY <3>1, <3>2
  <2>4. i + 1 \in Int /\ Len(printed) \in Int
    BY <1>1, <2>1
  <2>5. Cardinality(i + 1 .. Len(printed)) =
            IF i + 1 > Len(printed) THEN 0 ELSE Len(printed) - (i + 1) + 1
    BY <2>4, FS_Interval
  <2>6. (IF i + 1 > Len(printed) THEN 0 ELSE Len(printed) - (i + 1) + 1) = Len(printed) - i
    <3>1. \A low, high \in Int : low <= high =>
              (IF low + 1 > high THEN 0 ELSE high - (low + 1) + 1) = high - low
      OBVIOUS
    <3>2. i \in Int /\ Len(printed) \in Int /\ i <= Len(printed)
      BY <1>1, <2>1
    <3>3. QED
      BY <3>1, <3>2
  <2>7. QED
    BY <2>3, <2>5, <2>6
<1>4. ReadFirst(n) = {i \in Recent : Len(printed) - i < n}
  BY <1>3 DEF ReadFirst
<1>5. Unseen(ReadFirst(n)) \in SUBSET (1 .. Len(printed))
  BY <1>2, <1>4 DEF Unseen
<1>6. IsFiniteSet(Unseen(ReadFirst(n)))
  <2>1. IsFiniteSet(1 .. Len(printed))
    BY <1>1, FS_Interval
  <2>2. QED
    BY <1>5, <2>1, FS_Subset
<1>7. QED
  BY <1>1, <1>2, <1>4, <1>5, <1>6

----------------------------------------------------------------------------

\* Steps that change nothing that is on its way.
LEMMA QuietSteps ==
    ASSUME PaperInv,
           \/ /\ TimePasses \/ \E m \in Polled : BookChanges(m)
              /\ UNCHANGED <<printed, sourceVars, feed, engineVars, paperGhosts>>
           \/ \E m \in Traded : TradePrinted(m)
           \/ PollEnds \/ NextCycle \/ EngineDies
    PROVE  PaperInv'
<1>1. /\ UNCHANGED <<gathered, feed, tape, view, seenTrades, read, told, lastBooks, mislaid>>
      /\ source' = source \/ (source = "trades" /\ source' = "yielding")
         \/ (source \in {"sleeping", "failed"} /\ source' = "books")
  BY DEF TimePasses, BookChanges, TradePrinted, PollEnds, NextCycle, EngineDies, sourceVars,
         engineVars, paperGhosts
<1>a. batch' = batch \/ batch' = 0
  BY DEF TimePasses, BookChanges, TradePrinted, PollEnds, NextCycle, EngineDies, sourceVars
<1>b. batch' \in Nat
  BY <1>a DEF PaperInv, PaperTypes
<1>2. /\ Len(printed) \in Nat /\ DOMAIN printed = 1 .. Len(printed) /\ read \in 0 .. Len(printed)
      /\ time \in Nat /\ since \in Int /\ since <= time - Slack /\ Slack \in Nat
      /\ \A i \in 1 .. Len(printed) : printed[i].at \in Nat
  <2>1. \A i \in 1 .. Len(printed) : printed[i] \in [market : Traded, at : Nat]
    BY ElementOfSeq DEF PaperInv, PaperTypes
  <2>2. QED
    BY <2>1, LenProperties, PaperAssumption DEF PaperInv, PaperTypes
<1>3. CASE /\ time' \in Nat /\ time <= time' /\ UNCHANGED <<printed, since, missed>>
  <2>1. PaperTypes'
    <3>1. since' <= time' - Slack
      <4>1. since' = since /\ time' \in Nat /\ time <= time'
        BY <1>3
      <4>2. since <= time - Slack /\ since \in Int /\ time \in Nat /\ Slack \in Nat
        BY <1>2
      <4>3. \A i \in Int, t, u, n \in Nat : i <= t - n /\ t <= u => i <= u - n
        OBVIOUS
      <4>4. since <= time' - Slack
        BY <4>1, <4>2, <4>3
      <4>5. QED
        BY <4>1, <4>4
    <3>2. QED
      BY <1>1, <1>2, <1>b, <1>3, <3>1 DEF PaperInv, PaperTypes
  <2>2. PrintsInOrder'
    BY <1>2, <1>3 DEF PaperInv, PrintsInOrder
  <2>3. CycleSound'
    BY <1>1, NoEvent DEF PaperInv, CycleSound
  <2>4. BooksSound'
    BY <1>1 DEF PaperInv, BooksSound, Held
  <2>5. TradesSound'
    BY <1>1, <1>3 DEF PaperInv, TradesSound, Delivered, Behind
  <2>6. QED
    BY <2>1, <2>2, <2>3, <2>4, <2>5 DEF PaperInv
<1>4. CASE \E m \in Traded : TradePrinted(m)
  <2>1. PICK m \in Traded : TradePrinted(m)
    BY <1>4
  <2>2. /\ printed' = Append(printed, [market |-> m, at |-> time])
        /\ UNCHANGED <<time, since, missed, source>>
    BY <2>1 DEF TradePrinted, boardVars, sourceVars, paperGhosts
  <2>3. [market |-> m, at |-> time] \in [market : Traded, at : Nat]
    BY <1>2
  <2>4. /\ printed' \in Seq([market : Traded, at : Nat]) /\ Len(printed') = Len(printed) + 1
        /\ \A i \in 1 .. Len(printed) : printed'[i] = printed[i]
        /\ printed'[Len(printed) + 1].at = time
    BY <2>2, <2>3, AppendProperties DEF PaperInv, PaperTypes
  <2>5. PaperTypes'
    <3>1. read' \in 0 .. Len(printed')
      BY <1>1, <1>2, <2>4
    <3>2. QED
      BY <1>1, <1>b, <2>2, <2>4, <3>1 DEF PaperInv, PaperTypes
  <2>6. PrintsInOrder'
    <3> SUFFICES ASSUME NEW i \in 1 .. Len(printed')
                 PROVE  /\ printed'[i].at <= time
                        /\ \A j \in i .. Len(printed') : printed'[i].at <= printed'[j].at
      BY <2>2 DEF PrintsInOrder
    <3>1. CASE i \in 1 .. Len(printed)
      <4>1. printed[i].at <= time /\ \A j \in i .. Len(printed) : printed[i].at <= printed[j].at
        BY <3>1 DEF PaperInv, PrintsInOrder
      <4>2. \A j \in i .. Len(printed') : j \in i .. Len(printed) \/ j = Len(printed) + 1
        <5>1. \A j \in i .. Len(printed) + 1 : j \in i .. Len(printed) \/ j = Len(printed) + 1
          BY <1>2, <3>1
        <5>2. QED
          BY <2>4, <5>1
      <4>3. i .. Len(printed) \subseteq 1 .. Len(printed)
        BY <1>2, <3>1
      <4>4. QED
        BY <2>4, <3>1, <4>1, <4>2, <4>3
    <3>2. CASE i = Len(printed) + 1
      <4>1. \A j \in i .. Len(printed') : j = i
        BY <1>2, <2>4, <3>2
      <4>2. QED
        BY <1>2, <2>4, <3>2, <4>1
    <3>3. QED
      BY <1>2, <2>4, <3>1, <3>2
  <2>7. CycleSound'
    BY <1>1, <2>2 DEF PaperInv, CycleSound
  <2>8. BooksSound'
    BY <1>1, <2>2 DEF PaperInv, BooksSound, Held
  <2>9. TradesSound'
    <3>1. Delivered' = Delivered
      BY <1>1 DEF Delivered
    <3>2. ASSUME NEW i \in 1 .. read, printed'[i].market \in Polled, i \notin seenTrades
          PROVE  i \in missed /\ Behind(i)'
      <4>1. i \in 1 .. Len(printed) /\ printed'[i] = printed[i]
        BY <1>2, <2>4
      <4>2. i \in missed /\ Behind(i)
        BY <3>2, <4>1 DEF PaperInv, TradesSound
      <4>3. i + MaxListed <= Len(printed) => i + MaxListed <= Len(printed')
        BY <1>2, <2>4, PaperAssumption
      <4>4. QED
        BY <2>2, <4>1, <4>2, <4>3 DEF Behind
    <3>3. ASSUME NEW i \in read + 1 .. Len(printed'), printed'[i].at < since PROVE i \in missed
      <4>1. CASE i = Len(printed) + 1
        BY <1>2, <2>4, <3>3, <4>1
      <4>2. CASE i # Len(printed) + 1
        <5>1. i \in 1 .. Len(printed) /\ i \in read + 1 .. Len(printed)
          BY <1>2, <2>4, <4>2
        <5>2. QED
          BY <2>4, <3>3, <5>1 DEF PaperInv, TradesSound
      <4>3. QED
        BY <4>1, <4>2
    <3>4. QED
      BY <1>1, <2>2, <3>1, <3>2, <3>3 DEF PaperInv, TradesSound
  <2>10. QED
    BY <2>5, <2>6, <2>7, <2>8, <2>9 DEF PaperInv
<1>5. CASE PollEnds
  <2>1. /\ since' = time - Slack /\ UNCHANGED <<time, printed>>
        /\ source = "trades" /\ source' = "yielding"
        /\ missed' = missed \cup {i \in read + 1 .. Len(printed) : printed[i].at < time - Slack}
    BY <1>5 DEF PollEnds, boardVars
  <2>2. PaperTypes'
    BY <1>1, <1>b, <1>2, <2>1 DEF PaperInv, PaperTypes
  <2>3. PrintsInOrder'
    BY <2>1 DEF PaperInv, PrintsInOrder
  <2>4. CycleSound'
    BY <1>1, <2>1 DEF PaperInv, CycleSound
  <2>5. BooksSound'
    BY <1>1, <2>1 DEF PaperInv, BooksSound, Held
  <2>6. TradesSound'
    <3>1. Delivered' = Delivered
      BY <1>1 DEF Delivered
    <3>2. ASSUME NEW i \in 1 .. read, Behind(i) PROVE Behind(i)'
      <4>1. i \in 1 .. Len(printed)
        BY <1>2
      <4>2. printed[i].at < since => printed[i].at < since'
        BY <1>2, <2>1, <4>1
      <4>3. QED
        BY <2>1, <3>2, <4>2 DEF Behind
    <3>3. \A i \in read + 1 .. Len(printed) : printed[i].at < since' => i \in missed'
      BY <2>1
    <3>4. QED
      BY <1>1, <2>1, <3>1, <3>2, <3>3 DEF PaperInv, TradesSound
  <2>7. QED
    BY <2>2, <2>3, <2>4, <2>5, <2>6 DEF PaperInv
<1>6. QED
  <2>1. ASSUME TimePasses, UNCHANGED <<printed, sourceVars, feed, engineVars, paperGhosts>>
        PROVE  time' \in Nat /\ time <= time' /\ UNCHANGED <<printed, since, missed>>
    BY <1>2, <2>1 DEF TimePasses, sourceVars, paperGhosts
  <2>2. ASSUME NEW m \in Polled, BookChanges(m),
               UNCHANGED <<printed, sourceVars, feed, engineVars, paperGhosts>>
        PROVE  time' \in Nat /\ time <= time' /\ UNCHANGED <<printed, since, missed>>
    BY <1>2, <2>2 DEF BookChanges, sourceVars, paperGhosts
  <2>3. ASSUME NextCycle \/ EngineDies
        PROVE  time' \in Nat /\ time <= time' /\ UNCHANGED <<printed, since, missed>>
    BY <1>2, <2>3 DEF NextCycle, EngineDies, boardVars, sourceVars, paperGhosts
  <2>4. QED
    BY <1>3, <1>4, <1>5, <2>1, <2>2, <2>3

\* The steps of a cycle that ask the exchange.
LEMMA PollingSteps ==
    ASSUME PaperInv, PollBatch \/ ReadTrades \/ CycleFails
    PROVE  PaperInv'
<1>1. /\ UNCHANGED <<time, printed, since, feed, tape, view>> /\ source = "books"
      /\ gathered \in Seq(Event) /\ feed \in Seq(Event) /\ tape \in Seq(Event)
  BY DEF PaperInv, PaperTypes, PollBatch, ReadTrades, CycleFails, boardVars, engineVars
<1>2. /\ Len(printed) \in Nat /\ read \in 0 .. Len(printed) /\ since \in Int
      /\ MaxListed \in Nat \ {0}
      /\ \A i \in 1 .. Len(printed) : printed[i].at \in Nat
  <2>1. \A i \in 1 .. Len(printed) : printed[i] \in [market : Traded, at : Nat]
    BY ElementOfSeq DEF PaperInv, PaperTypes
  <2>2. QED
    BY <2>1, LenProperties, PaperAssumption DEF PaperInv, PaperTypes
<1>3. PrintsInOrder'
  BY <1>1 DEF PaperInv, PrintsInOrder
<1>4. ASSUME gathered' \in Seq(Event), read' \in 0 .. Len(printed) PROVE PaperTypes'
  <2>1. batch' \in Nat
    BY DEF PaperInv, PaperTypes, PollBatch, ReadTrades, CycleFails
  <2>2. QED
    BY <1>1, <1>4, <2>1 DEF PaperInv, PaperTypes
<1>5. Ids(gathered) = {} /\ lastBooks = told
  BY <1>1 DEF PaperInv, CycleSound
<1>6. /\ Ids(Delivered) = Ids(tape) \cup Ids(feed)
      /\ Ordered(Delivered) => /\ Ordered(tape) /\ Ordered(feed) /\ Ordered(gathered)
                               /\ \A i \in Ids(tape), j \in Ids(feed) : i < j
  BY <1>1, <1>5, AllThree DEF Delivered
<1>7. ASSUME gathered' \in Seq(Event)
      PROVE  /\ Ids(Delivered') = Ids(tape) \cup Ids(feed) \cup Ids(gathered')
             /\ Ordered(Delivered') <=>
                    /\ Ordered(tape) /\ Ordered(feed) /\ Ordered(gathered')
                    /\ \A i \in Ids(tape), j \in Ids(feed) \cup Ids(gathered') : i < j
                    /\ \A i \in Ids(feed), j \in Ids(gathered') : i < j
  BY <1>1, <1>7, AllThree DEF Delivered
<1>8. /\ \A m \in Polled : Held(m) = BookAfter(gathered, m, BookAfter(feed, m, view[m]))
      /\ gathered' \in Seq(Event) =>
             \A m \in Polled : Held(m)' = BookAfter(gathered', m, BookAfter(feed, m, view[m]))
  BY <1>1, BookOfBoth DEF Held
<1>9. CASE PollBatch
  <2>1. /\ batch < Len(Batches) /\ source' = source /\ UNCHANGED <<seenTrades, missed, read>>
        /\ \E answer \in {Answers(Batches[batch + 1])} :
             /\ gathered' = gathered \o
                    SetToSeq({BookEvent(m, answer[m]) : m \in ChangedIn(answer)})
             /\ lastBooks' = [m \in Polled |-> IF m \in Usable(answer) THEN answer[m] ELSE lastBooks[m]]
             /\ told' = lastBooks' /\ mislaid' = mislaid \ ChangedIn(answer)
    BY <1>9 DEF PollBatch
  <2> DEFINE answer == Answers(Batches[batch + 1])
             changed == ChangedIn(answer)
             new == SetToSeq({BookEvent(m, answer[m]) : m \in changed})
  <2>2. changed \cap Polled \subseteq Polled /\ \A m \in changed : answer[m] \in Books
    BY DEF ChangedIn, Usable
  <2>3. \A m \in Polled \ changed : m \in Usable(answer) => answer[m] = lastBooks[m]
    BY DEF ChangedIn
  <2>4. changed \subseteq Usable(answer) /\ Usable(answer) \subseteq Batches[batch + 1]
    BY DEF ChangedIn, Usable, Answers
  <2>5. /\ gathered' = gathered \o new /\ told' = lastBooks' /\ mislaid' = mislaid \ changed
        /\ \A m \in Polled : told'[m] = IF m \in Usable(answer) THEN answer[m] ELSE told[m]
    BY <1>5, <2>1
  <2> HIDE DEF answer, changed
  <2>6. changed \subseteq Polled
    <3>1. batch + 1 \in 1 .. Len(Batches)
      BY <2>1, PaperAssumption, LenProperties DEF PaperInv, PaperTypes
    <3>2. Batches[batch + 1] \in SUBSET Polled
      BY <3>1, PaperAssumption, ElementOfSeq
    <3>3. QED
      BY <2>4, <3>2
  <2>7. IsFiniteSet(changed)
    BY <2>6, PaperAssumption, FS_Subset
  <2>8. /\ new \in Seq(Event) /\ Ids(new) = {} /\ Ordered(new)
        /\ \A m, book : BookAfter(new, m, book) = IF m \in changed THEN answer[m] ELSE book
    BY <2>2, <2>6, <2>7, ChangesAreYielded
  <2> HIDE DEF new
  <2>9. gathered' \in Seq(Event)
    BY <1>1, <2>5, <2>8, ConcatProperties
  <2>10. Ids(gathered') = {} /\ (Ordered(gathered) => Ordered(gathered'))
    <3>1. Ids(gathered \o new) = Ids(gathered) \cup Ids(new)
      BY <1>1, <2>8, TradesOfBoth
    <3>2. Ordered(gathered \o new) <=> /\ Ordered(gathered) /\ Ordered(new)
                                       /\ \A i \in Ids(gathered), j \in Ids(new) : i < j
      BY <1>1, <2>8, TradesOfBoth
    <3>3. QED
      BY <1>5, <2>5, <2>8, <3>1, <3>2
  <2>11. PaperTypes'
    BY <1>2, <1>4, <2>1, <2>9
  <2>12. CycleSound'
    BY <1>1, <2>1, <2>5, <2>10 DEF CycleSound
  <2>13. BooksSound'
    <3> SUFFICES ASSUME NEW m \in Polled, m \notin mislaid' PROVE Held(m)' = told'[m]
      BY DEF BooksSound
    <3>1. Held(m)' = BookAfter(new, m, BookAfter(gathered, m, BookAfter(feed, m, view[m])))
      BY <1>1, <1>8, <2>5, <2>8, <2>9, BookOfBoth
    <3>2. Held(m)' = IF m \in changed THEN answer[m] ELSE Held(m)
      BY <1>8, <2>8, <3>1
    <3>3. CASE m \in changed
      BY <2>4, <2>5, <3>2, <3>3
    <3>4. CASE m \notin changed
      <4>1. Held(m) = told[m]
        BY <1>1, <2>5, <3>4 DEF PaperInv, BooksSound
      <4>2. told'[m] = told[m]
        BY <1>5, <2>3, <2>5, <3>4
      <4>3. QED
        BY <3>2, <3>4, <4>1, <4>2
    <3>5. QED
      BY <3>3, <3>4
  <2>14. Ids(Delivered)' = Ids(Delivered) /\ (Ordered(Delivered) => Ordered(Delivered)')
    BY <1>6, <1>7, <2>9, <2>10
  <2>15. TradesSound'
    BY <1>1, <2>1, <2>14 DEF PaperInv, TradesSound, Behind
  <2>16. QED
    BY <1>3, <2>11, <2>12, <2>13, <2>15 DEF PaperInv
<1>10. CASE ReadTrades
  <2> DEFINE new == Unseen(ReadFirst(MaxListed))
  <2>1. /\ gathered' = gathered \o Trades(InOrder(new)) /\ seenTrades' = seenTrades \cup new
        /\ missed' = missed \cup (Recent \ ReadFirst(MaxListed)) /\ read' = Len(printed)
        /\ source' = "trades" /\ UNCHANGED <<lastBooks, told, mislaid>>
    BY <1>10 DEF ReadTrades
  <2>2. /\ ReadFirst(MaxListed) = {i \in Recent : Len(printed) - i < MaxListed}
        /\ Recent \subseteq 1 .. Len(printed) /\ new \in SUBSET Nat /\ IsFiniteSet(new)
    BY <1>2, NewestAreLast DEF PaperInv
  <2>3. /\ Trades(InOrder(new)) \in Seq(Event) /\ Ids(Trades(InOrder(new))) = new
        /\ Ordered(Trades(InOrder(new)))
        /\ \A m, book : BookAfter(Trades(InOrder(new)), m, book) = book
    BY <2>2, TradesAreInOrder
  <2>4. new = {i \in ReadFirst(MaxListed) : printed[i].market \in Polled} \ seenTrades
    BY DEF Unseen
  <2>a. \A i \in 1 .. Len(printed) : i \in Recent <=> printed[i].at >= since
    BY LenProperties DEF PaperInv, PaperTypes, Recent
  <2> HIDE DEF new
  <2>5. \A i \in new : i \in 1 .. Len(printed) /\ read < i
    <3> SUFFICES ASSUME NEW i \in new PROVE i \in 1 .. Len(printed) /\ read < i
      OBVIOUS
    <3>1. i \in 1 .. Len(printed) /\ printed[i].at >= since /\ Len(printed) - i < MaxListed
      BY <2>2, <2>4, <2>a
    <3>2. printed[i].market \in Polled /\ i \notin seenTrades
      BY <2>4
    <3>3. ~ Behind(i)
      BY <1>2, <3>1 DEF Behind
    <3>4. ~ (i \in 1 .. read)
      BY <3>2, <3>3 DEF PaperInv, TradesSound
    <3>5. QED
      BY <1>2, <3>1, <3>4
  <2>6. gathered' \in Seq(Event) /\ Ids(gathered') = new /\ (Ordered(gathered) => Ordered(gathered'))
    <3> DEFINE events == Trades(InOrder(new))
    <3>1. events \in Seq(Event) /\ Ids(events) = new /\ Ordered(events) /\ gathered' = gathered \o events
      BY <2>1, <2>3
    <3> HIDE DEF events
    <3>2. gathered \o events \in Seq(Event) /\ Ids(gathered \o events) = Ids(gathered) \cup Ids(events)
      BY <1>1, <3>1, TradesOfBoth, ConcatProperties
    <3>3. Ordered(gathered \o events) <=> /\ Ordered(gathered) /\ Ordered(events)
                                          /\ \A i \in Ids(gathered), j \in Ids(events) : i < j
      BY <1>1, <3>1, TradesOfBoth
    <3>4. QED
      BY <1>5, <3>1, <3>2, <3>3
  <2>7. PaperTypes'
    BY <1>2, <1>4, <2>1, <2>6
  <2>8. CycleSound'
    BY <1>5, <2>1 DEF CycleSound
  <2>9. BooksSound'
    <3> SUFFICES ASSUME NEW m \in Polled, m \notin mislaid PROVE Held(m)' = told[m]
      BY <2>1 DEF BooksSound
    <3>1. Held(m) = told[m]
      BY <1>1 DEF PaperInv, BooksSound
    <3>2. BookAfter(gathered', m, BookAfter(feed, m, view[m])) =
              BookAfter(gathered, m, BookAfter(feed, m, view[m]))
      BY <1>1, <2>1, <2>3, BookOfBoth
    <3>3. QED
      BY <1>8, <2>6, <3>1, <3>2
  <2>10. Ids(Delivered)' = Ids(Delivered) \cup new
    BY <1>6, <1>7, <2>6
  <2>11. Ids(Delivered) \subseteq 1 .. read /\ Ordered(Delivered)
    BY DEF PaperInv, TradesSound
  <2>12. Ordered(Delivered)'
    <3>1. \A i \in Ids(tape) \cup Ids(feed), j \in new : i < j
      BY <1>2, <1>6, <2>2, <2>5, <2>11
    <3>2. QED
      BY <1>6, <1>7, <2>6, <2>11, <3>1
  <2>13. Ids(Delivered)' \subseteq 1 .. Len(printed)
    BY <1>2, <2>5, <2>10, <2>11
  <2>14. seenTrades' \subseteq Ids(Delivered)' \cup missed'
    BY <2>1, <2>10 DEF PaperInv, TradesSound
  <2>15. ASSUME NEW i \in 1 .. Len(printed), printed[i].market \in Polled, i \notin seenTrades'
         PROVE  i \in missed' /\ Behind(i)'
    <3>1. i \notin ReadFirst(MaxListed) /\ i \notin seenTrades
      BY <2>1, <2>4, <2>15
    <3>2. printed[i].at < since \/ i + MaxListed <= Len(printed)
      BY <1>2, <2>2, <2>a, <3>1
    <3>3. Behind(i)'
      BY <1>1, <3>2 DEF Behind
    <3>4. CASE i \in Recent
      BY <2>1, <3>1, <3>3, <3>4
    <3>5. CASE i \notin Recent /\ i \in 1 .. read
      BY <2>1, <2>15, <3>1, <3>3, <3>5 DEF PaperInv, TradesSound
    <3>6. CASE i \notin Recent /\ i \notin 1 .. read
      <4>1. printed[i].at < since
        BY <1>2, <2>a, <3>6
      <4>2. i \in read + 1 .. Len(printed)
        BY <1>2, <3>6
      <4>3. i \in missed
        BY <4>1, <4>2 DEF PaperInv, TradesSound
      <4>4. QED
        BY <2>1, <3>3, <4>3
    <3>7. QED
      BY <3>4, <3>5, <3>6
  <2>16. \A i \in read' + 1 .. Len(printed) : FALSE
    BY <1>2, <2>1
  <2>17. TradesSound'
    BY <1>1, <2>1, <2>12, <2>13, <2>14, <2>15, <2>16 DEF TradesSound
  <2>18. QED
    BY <1>3, <2>7, <2>8, <2>9, <2>17 DEF PaperInv
<1>11. CASE CycleFails
  <2>1. /\ source' = "failed" /\ gathered' = <<>> /\ UNCHANGED <<lastBooks, told, read>>
        /\ mislaid' = mislaid \cup {gathered[k].market : k \in DOMAIN gathered}
        /\ \E n : /\ seenTrades' = seenTrades \cup Unseen(ReadFirst(n))
                  /\ missed' = missed \cup Unseen(ReadFirst(n))
    BY <1>11 DEF CycleFails
  <2>2. gathered' \in Seq(Event) /\ Ids(gathered') = {} /\ Ordered(gathered')
    BY <2>1, NoEvent
  <2>3. PaperTypes'
    BY <1>2, <1>4, <2>1, <2>2
  <2>4. CycleSound'
    BY <1>5, <2>1 DEF CycleSound
  <2>5. BooksSound'
    <3> SUFFICES ASSUME NEW m \in Polled, m \notin mislaid' PROVE Held(m)' = told[m]
      BY <2>1 DEF BooksSound
    <3>1. {k \in DOMAIN gathered : gathered[k].kind = "book" /\ gathered[k].market = m} = {}
      BY <2>1
    <3>2. \A book : BookAfter(gathered, m, book) = book
      BY <3>1 DEF BookAfter
    <3>3. Held(m) = BookAfter(feed, m, view[m])
      BY <1>8, <3>2
    <3>4. Held(m)' = BookAfter(feed, m, view[m])
      BY <1>8, <2>1, <2>2, NoEvent
    <3>5. QED
      BY <1>1, <2>1, <3>3, <3>4 DEF PaperInv, BooksSound
  <2>6. Ids(Delivered)' = Ids(Delivered) /\ (Ordered(Delivered) => Ordered(Delivered)')
    BY <1>6, <1>7, <2>2
  <2>7. /\ seenTrades' \subseteq Ids(Delivered)' \cup missed' /\ seenTrades \subseteq seenTrades'
        /\ missed \subseteq missed'
    BY <2>1, <2>6 DEF PaperInv, TradesSound
  <2>8. TradesSound'
    BY <1>1, <2>1, <2>6, <2>7 DEF PaperInv, TradesSound, Behind
  <2>9. QED
    BY <1>3, <2>3, <2>4, <2>5, <2>8 DEF PaperInv
<1>12. QED
  BY <1>9, <1>10, <1>11

\* The steps that hand events over.
LEMMA HandingSteps ==
    ASSUME PaperInv, YieldEvent \/ Confirm \/ TimeIsUp \/ TakeEvent
    PROVE  PaperInv'
<1>1. /\ UNCHANGED <<time, printed, since, seenTrades, missed, read, told, lastBooks, mislaid, batch>>
      /\ gathered \in Seq(Event) /\ feed \in Seq(Event) /\ tape \in Seq(Event)
  BY DEF PaperInv, PaperTypes, YieldEvent, Confirm, TimeIsUp, TakeEvent, boardVars, sourceVars,
         paperGhosts
<1>2. PrintsInOrder'
  BY <1>1 DEF PaperInv, PrintsInOrder
<1>3. ASSUME gathered' \in Seq(Event), feed' \in Seq(Event), tape' \in Seq(Event),
             view' \in [Polled -> Books \cup {None}]
      PROVE  PaperTypes'
  BY <1>1, <1>3 DEF PaperInv, PaperTypes
<1>4. ASSUME Ids(Delivered)' = Ids(Delivered), Ordered(Delivered) => Ordered(Delivered)'
      PROVE  TradesSound'
  BY <1>1, <1>4 DEF PaperInv, TradesSound, Behind
<1>5. /\ ConfirmEvent \in Event /\ EndEvent \in Event
      /\ Ids(<<ConfirmEvent>>) = {} /\ Ids(<<EndEvent>>) = {}
      /\ \A m, book : /\ BookAfter(<<ConfirmEvent>>, m, book) = book
                     /\ BookAfter(<<EndEvent>>, m, book) = book
  <2>1. /\ ConfirmEvent \in Event /\ EndEvent \in Event
        /\ ConfirmEvent.kind = "confirm" /\ EndEvent.kind = "end"
    BY DEF ConfirmEvent, EndEvent, Event
  <2>2. QED
    BY <2>1, OneEvent
<1>6. /\ Ids(Delivered) = Ids(tape) \cup Ids(feed) \cup Ids(gathered)
      /\ Ordered(Delivered) <=>
             /\ Ordered(tape) /\ Ordered(feed) /\ Ordered(gathered)
             /\ \A i \in Ids(tape), j \in Ids(feed) \cup Ids(gathered) : i < j
             /\ \A i \in Ids(feed), j \in Ids(gathered) : i < j
  BY <1>1, AllThree DEF Delivered
<1>7. ASSUME gathered' \in Seq(Event), feed' \in Seq(Event), tape' \in Seq(Event)
      PROVE  /\ Ids(Delivered)' = Ids(tape') \cup Ids(feed') \cup Ids(gathered')
             /\ Ordered(Delivered)' <=>
                    /\ Ordered(tape') /\ Ordered(feed') /\ Ordered(gathered')
                    /\ \A i \in Ids(tape'), j \in Ids(feed') \cup Ids(gathered') : i < j
                    /\ \A i \in Ids(feed'), j \in Ids(gathered') : i < j
  BY <1>7, AllThree DEF Delivered
<1>8. /\ \A m \in Polled : Held(m) = BookAfter(gathered, m, BookAfter(feed, m, view[m]))
      /\ gathered' \in Seq(Event) /\ feed' \in Seq(Event) =>
             \A m \in Polled : Held(m)' = BookAfter(gathered', m, BookAfter(feed', m, view'[m]))
  BY <1>1, BookOfBoth DEF Held
\* The end of the feed says nothing.
<1>9. ASSUME NEW events \in Seq(Event)
      PROVE  /\ Append(events, EndEvent) \in Seq(Event)
             /\ Ids(Append(events, EndEvent)) = Ids(events)
             /\ Ordered(Append(events, EndEvent)) <=> Ordered(events)
  <2>1. /\ Append(events, EndEvent) \in Seq(Event)
        /\ Ids(Append(events, EndEvent)) = Ids(events) \cup Ids(<<EndEvent>>)
        /\ Ordered(Append(events, EndEvent)) <=>
               Ordered(events) /\ \A i \in Ids(events), j \in Ids(<<EndEvent>>) : i < j
    BY <1>5, OneIsAdded
  <2>2. QED
    BY <1>5, <2>1
<1>10. ASSUME NEW event \in Event, Pushed(event)
       PROVE  /\ feed' \in Seq(Event) /\ Ids(feed') = Ids(feed) \cup Ids(<<event>>)
              /\ Ordered(feed') <=> Ordered(feed) /\ \A i \in Ids(feed), j \in Ids(<<event>>) : i < j
              /\ trading = "dead" \/ feed' = Append(feed, event)
              /\ trading = "dead" => source' = "over"
  <2>1. /\ Append(feed, event) \in Seq(Event)
        /\ Ids(Append(feed, event)) = Ids(feed) \cup Ids(<<event>>)
        /\ Ordered(Append(feed, event)) <=>
               Ordered(feed) /\ \A i \in Ids(feed), j \in Ids(<<event>>) : i < j
    BY <1>1, OneIsAdded
  <2>2. CASE trading # "dead"
    BY <1>10, <2>1, <2>2 DEF Pushed
  <2>3. CASE trading = "dead"
    <3>1. feed' = Append(Append(feed, event), EndEvent) /\ source' = "over"
      BY <1>10, <2>3 DEF Pushed
    <3>2. QED
      BY <1>9, <2>1, <2>3, <3>1
  <2>4. QED
    BY <2>2, <2>3
<1>11. CASE YieldEvent
  <2> DEFINE event == Head(gathered)
  <2>1. /\ source = "yielding" /\ gathered # <<>> /\ Pushed(event) /\ gathered' = Tail(gathered)
        /\ UNCHANGED <<tape, view>> /\ (trading # "dead" => source' = source)
    BY <1>11 DEF YieldEvent, engineVars
  <2>2. /\ event \in Event /\ gathered' \in Seq(Event)
        /\ Ids(gathered) = Ids(<<event>>) \cup Ids(gathered')
        /\ Ordered(gathered) => /\ Ordered(gathered')
                                /\ \A i \in Ids(<<event>>), j \in Ids(gathered') : i < j
        /\ \A m, book : BookAfter(gathered, m, book) =
                             BookAfter(gathered', m, BookAfter(<<event>>, m, book))
    BY <1>1, <2>1, OneMovesOn
  <2> HIDE DEF event
  <2>3. /\ feed' \in Seq(Event) /\ Ids(feed') = Ids(feed) \cup Ids(<<event>>)
        /\ Ordered(feed') <=> Ordered(feed) /\ \A i \in Ids(feed), j \in Ids(<<event>>) : i < j
        /\ trading = "dead" \/ feed' = Append(feed, event)
        /\ trading = "dead" => source' = "over"
    BY <1>10, <2>1, <2>2
  <2>4. PaperTypes'
    BY <1>1, <1>3, <2>1, <2>2, <2>3 DEF PaperInv, PaperTypes
  <2>5. CycleSound'
    <3>1. source' \in {"yielding", "over"}
      BY <2>1, <2>3
    <3>2. QED
      BY <1>1, <3>1 DEF PaperInv, CycleSound
  <2>6. BooksSound'
    <3> SUFFICES ASSUME trading # "dead", NEW m \in Polled, m \notin mislaid PROVE Held(m)' = told[m]
      BY <1>1, <2>3 DEF BooksSound
    <3>1. BookAfter(feed', m, view[m]) = BookAfter(<<event>>, m, BookAfter(feed, m, view[m]))
      <4>1. \A u, book : BookAfter(Append(feed, event), u, book) =
                             BookAfter(<<event>>, u, BookAfter(feed, u, book))
        BY <1>1, <2>2, OneIsAdded
      <4>2. QED
        BY <2>3, <4>1
    <3>2. Held(m)' = Held(m)
      BY <1>8, <2>1, <2>2, <2>3, <3>1
    <3>3. QED
      BY <2>1, <3>2 DEF PaperInv, BooksSound
  <2>7. Ids(Delivered)' = Ids(Delivered)
    BY <1>1, <1>6, <1>7, <2>1, <2>2, <2>3
  <2>8. Ordered(Delivered) => Ordered(Delivered)'
    BY <1>1, <1>6, <1>7, <2>1, <2>2, <2>3
  <2>9. TradesSound'
    BY <1>4, <2>7, <2>8
  <2>10. QED
    BY <1>2, <2>4, <2>5, <2>6, <2>9 DEF PaperInv
<1>12. CASE Confirm
  <2>1. /\ source = "yielding" /\ gathered = <<>> /\ gathered' = gathered /\ Pushed(ConfirmEvent)
        /\ UNCHANGED <<tape, view>> /\ (trading # "dead" => source' = "sleeping")
    BY <1>12 DEF Confirm, engineVars
  <2>2. /\ feed' \in Seq(Event) /\ Ids(feed') = Ids(feed) /\ (Ordered(feed') <=> Ordered(feed))
        /\ trading = "dead" \/ feed' = Append(feed, ConfirmEvent)
        /\ trading = "dead" => source' = "over"
    BY <1>5, <1>10, <2>1
  <2>3. PaperTypes'
    BY <1>1, <1>3, <2>1, <2>2 DEF PaperInv, PaperTypes
  <2>4. CycleSound'
    BY <1>1, <2>1, <2>2, NoEvent DEF PaperInv, CycleSound
  <2>5. BooksSound'
    <3> SUFFICES ASSUME trading # "dead", NEW m \in Polled, m \notin mislaid PROVE Held(m)' = told[m]
      BY <1>1, <2>2 DEF BooksSound
    <3>1. BookAfter(feed', m, view[m]) = BookAfter(feed, m, view[m])
      <4>1. \A u, book : BookAfter(Append(feed, ConfirmEvent), u, book) =
                             BookAfter(<<ConfirmEvent>>, u, BookAfter(feed, u, book))
        BY <1>1, <1>5, OneIsAdded
      <4>2. feed' = Append(feed, ConfirmEvent)
        BY <2>2
      <4>3. BookAfter(feed', m, view[m]) = BookAfter(<<ConfirmEvent>>, m, BookAfter(feed, m, view[m]))
        BY <4>1, <4>2
      <4>4. QED
        BY <1>5, <4>3
    <3>2. Held(m)' = Held(m)
      BY <1>1, <1>8, <2>1, <2>2, <3>1
    <3>3. QED
      BY <2>1, <3>2 DEF PaperInv, BooksSound
  <2>6. TradesSound'
    BY <1>1, <1>4, <1>6, <1>7, <2>1, <2>2
  <2>7. QED
    BY <1>2, <2>3, <2>4, <2>5, <2>6 DEF PaperInv
<1>13. CASE TimeIsUp
  <2>1. source' = "over" /\ feed' = Append(feed, EndEvent) /\ UNCHANGED <<gathered, tape, view>>
    BY <1>13 DEF TimeIsUp, engineVars
  <2>2. feed' \in Seq(Event) /\ Ids(feed') = Ids(feed) /\ (Ordered(feed') <=> Ordered(feed))
    BY <1>1, <1>9, <2>1
  <2>3. PaperTypes'
    BY <1>1, <1>3, <2>1, <2>2 DEF PaperInv, PaperTypes
  <2>4. CycleSound' /\ BooksSound'
    BY <1>1, <2>1 DEF PaperInv, CycleSound, BooksSound
  <2>5. TradesSound'
    BY <1>1, <1>4, <1>6, <1>7, <2>1, <2>2
  <2>6. QED
    BY <1>2, <2>3, <2>4, <2>5 DEF PaperInv
<1>14. CASE TakeEvent
  <2> DEFINE event == Head(feed)
  <2>1. /\ feed # <<>> /\ feed' = Tail(feed) /\ UNCHANGED <<gathered, source>>
        /\ view' = IF event.kind = "book" THEN [view EXCEPT ![event.market] = event.book] ELSE view
        /\ tape' = IF event.kind = "trade" THEN Append(tape, event) ELSE tape
    BY <1>14 DEF TakeEvent, sourceVars
  <2>2. /\ event \in Event /\ feed' \in Seq(Event)
        /\ Ids(feed) = Ids(<<event>>) \cup Ids(feed')
        /\ Ordered(feed) => /\ Ordered(feed')
                            /\ \A i \in Ids(<<event>>), j \in Ids(feed') : i < j
        /\ \A m, book : BookAfter(feed, m, book) = BookAfter(feed', m, BookAfter(<<event>>, m, book))
    BY <1>1, <2>1, OneMovesOn
  <2> HIDE DEF event
  <2>3. /\ Ids(<<event>>) = IF event.kind = "trade" THEN {event.id} ELSE {}
        /\ \A m, book : BookAfter(<<event>>, m, book) =
                             IF event.kind = "book" /\ event.market = m THEN event.book ELSE book
    BY <2>2, OneEvent
  <2>4. /\ tape' \in Seq(Event) /\ Ids(tape') = Ids(tape) \cup Ids(<<event>>)
        /\ Ordered(tape') <=> Ordered(tape) /\ \A i \in Ids(tape), j \in Ids(<<event>>) : i < j
    <3>1. CASE event.kind = "trade"
      BY <1>1, <2>1, <2>2, <3>1, OneIsAdded
    <3>2. CASE event.kind # "trade"
      BY <1>1, <2>1, <2>3, <3>2
    <3>3. QED
      BY <3>1, <3>2
  <2>5. view \in [Polled -> Books \cup {None}]
    BY DEF PaperInv, PaperTypes
  <2>6. event.kind = "book" => event.market \in Polled /\ event.book \in Books
    BY <2>2 DEF Event
  <2>7. view' \in [Polled -> Books \cup {None}]
    BY <2>1, <2>5, <2>6
  <2>8. \A m \in Polled : view'[m] = BookAfter(<<event>>, m, view[m])
    BY <2>1, <2>3, <2>5, <2>6
  <2>9. PaperTypes'
    BY <1>1, <1>3, <2>1, <2>2, <2>4, <2>7
  <2>10. CycleSound'
    BY <1>1, <2>1 DEF PaperInv, CycleSound
  <2>11. BooksSound'
    <3> SUFFICES ASSUME source # "over", NEW m \in Polled, m \notin mislaid PROVE Held(m)' = told[m]
      BY <1>1, <2>1 DEF BooksSound
    <3>1. BookAfter(feed', m, view'[m]) = BookAfter(feed, m, view[m])
      BY <2>2, <2>8
    <3>2. Held(m)' = Held(m)
      BY <1>1, <1>8, <2>1, <2>2, <3>1
    <3>3. QED
      BY <3>2 DEF PaperInv, BooksSound
  <2>12. Ids(Delivered)' = Ids(Delivered)
    BY <1>1, <1>6, <1>7, <2>1, <2>2, <2>4
  <2>13. Ordered(Delivered) => Ordered(Delivered)'
    BY <1>1, <1>6, <1>7, <2>1, <2>2, <2>4
  <2>14. QED
    BY <1>2, <1>4, <2>9, <2>10, <2>11, <2>12, <2>13 DEF PaperInv
<1>15. QED
  BY <1>11, <1>12, <1>13, <1>14

LEMMA NothingPolled ==
    ASSUME PaperInit
    PROVE  PaperInv
<1>1. /\ time = 0 /\ printed = <<>> /\ source = "books" /\ gathered = <<>> /\ batch = 0
      /\ lastBooks = NoBooks /\ seenTrades = {} /\ since = 0 - Lookback /\ feed = <<>>
      /\ view = NoBooks /\ tape = <<>> /\ told = NoBooks /\ mislaid = {} /\ missed = {} /\ read = 0
  BY DEF PaperInit, BoardInit
<1>2. PaperTypes
  <2>1. since \in Int /\ since <= time - Slack
    BY <1>1, PaperAssumption
  <2>2. /\ printed \in Seq([market : Traded, at : Nat]) /\ Len(printed) = 0
        /\ <<>> \in Seq(Event)
    BY <1>1
  <2>3. view \in [Polled -> Books \cup {None}]
    BY <1>1 DEF NoBooks
  <2>4. QED
    BY <1>1, <2>1, <2>2, <2>3 DEF PaperTypes
<1>3. PrintsInOrder
  BY <1>1 DEF PrintsInOrder
<1>4. CycleSound
  BY <1>1, NoEvent DEF CycleSound
<1>5. feed \o gathered = <<>> /\ Delivered = <<>>
  <2>1. <<>> \o <<>> = <<>>
    BY NoEvent, ConcatEmptySeq
  <2>2. QED
    BY <1>1, <2>1 DEF Delivered
<1>6. BooksSound
  BY <1>1, <1>5, NoEvent DEF BooksSound, Held
<1>7. TradesSound
  <2>1. Ids(Delivered) = {} /\ Ordered(Delivered)
    BY <1>5, NoEvent
  <2>2. QED
    BY <1>1, <2>1 DEF TradesSound
<1>8. QED
  BY <1>2, <1>3, <1>4, <1>6, <1>7 DEF PaperInv

\* Through failed cycles and an engine that dies, the engine comes to hold the last books the
\* exchange answered, and comes to see its trades once and in order: SessionIsFaithful, for any
\* markets, batches, number of trades listed and length of a session.
THEOREM SessionStaysFaithful ==
    CollectionSpec => []SessionIsFaithful
<1> DEFINE Inv == IF collecting = "paper" THEN PaperInv ELSE SessionIsFaithful
<1>1. CollectionInit => Inv
  BY NothingPolled, WhatTheSessionKeeps DEF CollectionInit
<1>2. Inv /\ [CollectionNext]_collectionVars => Inv'
  <2> SUFFICES ASSUME Inv, [CollectionNext]_collectionVars PROVE Inv'
    OBVIOUS
  <2>1. CASE CollectionNext /\ collecting = "paper"
    <3>1. PaperNext /\ collecting' = collecting
      BY <2>1 DEF CollectionNext
    <3>2. PaperInv'
      BY <2>1, <3>1, QuietSteps, PollingSteps, HandingSteps DEF PaperNext
    <3>3. QED
      BY <2>1, <3>1, <3>2
  <2>2. CASE CollectionNext /\ collecting # "paper"
    <3>1. collecting' = collecting /\ UNCHANGED noPaper
      BY <2>2 DEF CollectionNext
    <3>2. SessionIsFaithful' = SessionIsFaithful
      BY <3>1 DEF noPaper, sourceVars, engineVars, paperGhosts, SessionIsFaithful, Delivered, Held
    <3>3. QED
      BY <2>2, <3>1, <3>2
  <2>3. CASE UNCHANGED collectionVars
    <3>1. UNCHANGED <<collecting, time, printed, source, batch, gathered, lastBooks, seenTrades, since,
                      feed, view, tape, told, mislaid, missed, read>>
      BY <2>3 DEF collectionVars, boardVars, noPaper, sourceVars, engineVars, paperGhosts
    <3>2. PaperTypes' = PaperTypes /\ PrintsInOrder' = PrintsInOrder
      BY <3>1 DEF PaperTypes, PrintsInOrder
    <3>3. CycleSound' = CycleSound /\ BooksSound' = BooksSound
      BY <3>1 DEF CycleSound, BooksSound, Held
    <3>4. TradesSound' = TradesSound
      BY <3>1 DEF TradesSound, Delivered, Behind
    <3>5. SessionIsFaithful' = SessionIsFaithful
      BY <3>1 DEF SessionIsFaithful, Delivered, Held
    <3>6. QED
      BY <3>1, <3>2, <3>3, <3>4, <3>5 DEF PaperInv
  <2>4. QED
    BY <2>1, <2>2, <2>3
<1>3. Inv => SessionIsFaithful
  BY WhatTheSessionKeeps
<1>4. QED
  <2> HIDE DEF Inv
  <2>1. QED
    BY <1>1, <1>2, <1>3, PTL DEF CollectionSpec

----------------------------------------------------------------------------
(* Sequences without repetition. *)

Once(s) == \A i, j \in DOMAIN s : s[i] = s[j] => i = j

\* A sequence has as many elements as places, if none comes twice, and never more.
LEMMA ElementsOf ==
    ASSUME NEW E, NEW s \in Seq(E)
    PROVE  /\ IsFiniteSet(Range(s)) /\ Cardinality(Range(s)) \in Nat /\ Len(s) \in Nat
           /\ Range(s) \subseteq E /\ Cardinality(Range(s)) <= Len(s)
           /\ Once(s) => Cardinality(Range(s)) = Len(s)
<1>1. /\ DOMAIN s = 1 .. Len(s) /\ Len(s) \in Nat /\ \A i \in 1 .. Len(s) : s[i] \in E
      /\ s \in [1 .. Len(s) -> E]
  BY ElementOfSeq, LenProperties
<1>2. IsFiniteSet(1 .. Len(s)) /\ Cardinality(1 .. Len(s)) = Len(s)
  BY <1>1, FS_Interval
<1>3. s \in Surjection(1 .. Len(s), Range(s))
  BY <1>1 DEF Surjection, Range
<1>4. IsFiniteSet(Range(s)) /\ Cardinality(Range(s)) <= Len(s)
  BY <1>2, <1>3, FS_Surjection
<1>5. Cardinality(Range(s)) \in Nat
  BY <1>4, FS_CardinalityType
<1>6. ASSUME Once(s) PROVE Cardinality(Range(s)) = Len(s)
  <2>1. s \in Injection(1 .. Len(s), Range(s))
    BY <1>1, <1>3, <1>6 DEF Once, Injection, IsInjective, Surjection
  <2>2. QED
    BY <1>2, <1>3, <2>1, FS_Surjection
<1>7. QED
  BY <1>1, <1>4, <1>5, <1>6 DEF Range

\* What is left of a listing once those the client refuses are out.
LEMMA ParsedOnly ==
    ASSUME NEW E, NEW s \in Seq(E), Once(s)
    PROVE  /\ Parsed(s) \in Seq(E) /\ Once(Parsed(s))
           /\ Range(Parsed(s)) = Range(s) \ Unparsed
           /\ Len(Parsed(s)) = Cardinality(Range(s) \ Unparsed)
<1> DEFINE places == {i \in DOMAIN s : s[i] \notin Unparsed}
           order == InOrder(places)
           n == Cardinality(places)
<1>1. /\ DOMAIN s = 1 .. Len(s) /\ Len(s) \in Nat /\ \A i \in 1 .. Len(s) : s[i] \in E
  BY ElementOfSeq, LenProperties
<1>2. places \in SUBSET Nat /\ IsFiniteSet(places) /\ places \subseteq 1 .. Len(s)
  <2>1. places \subseteq 1 .. Len(s) /\ 1 .. Len(s) \subseteq Nat /\ IsFiniteSet(1 .. Len(s))
    BY <1>1, FS_Interval
  <2> HIDE DEF places
  <2>2. QED
    BY <2>1, FS_Subset
<1> HIDE DEF places
<1>3. /\ n \in Nat /\ order \in [1 .. n -> places] /\ \A i \in places : \E k \in 1 .. n : order[k] = i
      /\ \A j, k \in 1 .. n : j # k => order[j] # order[k]
  BY <1>2, PlacesInOrder
<1> HIDE DEF order, n
<1>4. Parsed(s) = [k \in 1 .. n |-> s[order[k]]]
  BY <1>3 DEF Parsed, order, places
<1>5. \A k \in 1 .. n : order[k] \in 1 .. Len(s) /\ order[k] \in places
  BY <1>2, <1>3
<1>6. Parsed(s) \in Seq(E)
  <2>1. Parsed(s) \in [1 .. n -> E]
    BY <1>1, <1>4, <1>5
  <2>2. QED
    BY <1>3, <2>1, SeqDef
<1>7. Once(Parsed(s))
  BY <1>1, <1>3, <1>4, <1>5 DEF Once
<1>8. Range(Parsed(s)) = Range(s) \ Unparsed
  <2>1. Range(Parsed(s)) = {s[order[k]] : k \in 1 .. n}
    BY <1>4 DEF Range
  <2>2. Range(s) = {s[i] : i \in 1 .. Len(s)}
    BY <1>1 DEF Range
  <2>3. ASSUME NEW e \in Range(s) \ Unparsed PROVE e \in Range(Parsed(s))
    <3>1. PICK i \in 1 .. Len(s) : s[i] = e
      BY <2>2
    <3>2. i \in places
      BY <1>1, <2>3, <3>1 DEF places
    <3>3. PICK k \in 1 .. n : order[k] = i
      BY <1>3, <3>2
    <3>4. QED
      BY <2>1, <3>1, <3>3
  <2>4. ASSUME NEW k \in 1 .. n PROVE s[order[k]] \in Range(s) \ Unparsed
    BY <1>5, <2>2 DEF places
  <2>5. QED
    BY <2>1, <2>3, <2>4
<1>9. QED
  BY <1>6, <1>7, <1>8, ElementsOf

\* A piece of a sequence.
LEMMA PieceOf ==
    ASSUME NEW E, NEW s \in Seq(E), NEW k \in 1 .. Len(s) + 1, NEW n \in k - 1 .. Len(s)
    PROVE  /\ SubSeq(s, k, n) \in Seq(E) /\ Len(SubSeq(s, k, n)) = n - k + 1
           /\ \A i \in 1 .. n - k + 1 : SubSeq(s, k, n)[i] = s[k + i - 1]
           /\ Range(SubSeq(s, k, n)) = {s[i] : i \in k .. n}
           /\ Once(s) => Once(SubSeq(s, k, n))
<1> DEFINE piece == SubSeq(s, k, n)
<1>1. /\ DOMAIN s = 1 .. Len(s) /\ Len(s) \in Nat /\ \A i \in 1 .. Len(s) : s[i] \in E
  BY ElementOfSeq, LenProperties
<1>2. k \in Int /\ n \in Int /\ \A i \in k .. n : i \in 1 .. Len(s) /\ s[i] \in E
  BY <1>1
<1>3. /\ piece \in Seq(E) /\ Len(piece) = IF k <= n THEN n - k + 1 ELSE 0
      /\ \A i \in 1 .. n - k + 1 : piece[i] = s[k + i - 1]
  BY <1>2, SubSeqProperties
<1>4. Len(piece) = n - k + 1
  BY <1>1, <1>3
<1>5. DOMAIN piece = 1 .. n - k + 1
  BY <1>3, <1>4, LenProperties
<1> HIDE DEF piece
<1>6. Range(piece) = {s[i] : i \in k .. n}
  <2>1. Range(piece) = {s[k + i - 1] : i \in 1 .. n - k + 1}
    BY <1>3, <1>5 DEF Range
  <2>2. \A i \in 1 .. n - k + 1 : k + i - 1 \in k .. n
    BY <1>2
  <2>3. \A i \in k .. n : i - k + 1 \in 1 .. n - k + 1 /\ k + (i - k + 1) - 1 = i
    BY <1>2
  <2>4. QED
    BY <2>1, <2>2, <2>3
<1>7. ASSUME Once(s) PROVE Once(piece)
  <2> SUFFICES ASSUME NEW i \in 1 .. n - k + 1, NEW j \in 1 .. n - k + 1, piece[i] = piece[j]
               PROVE  i = j
    BY <1>5 DEF Once
  <2>1. k + i - 1 \in DOMAIN s /\ k + j - 1 \in DOMAIN s
    BY <1>1, <1>2
  <2>2. k + i - 1 = k + j - 1
    BY <1>3, <1>7, <2>1 DEF Once
  <2>3. QED
    BY <1>2, <2>2
<1>8. QED
  BY <1>3, <1>4, <1>6, <1>7 DEF piece

\* What follows an event of a listing.
LEMMA WhatRemains ==
    ASSUME NEW E, NEW s \in Seq(E), Once(s), None \notin E
    PROVE  /\ Remaining(s, None) = s
           /\ \A k \in 1 .. Len(s) : Remaining(s, s[k]) = SubSeq(s, k + 1, Len(s))
<1>1. /\ DOMAIN s = 1 .. Len(s) /\ Len(s) \in Nat /\ \A i \in 1 .. Len(s) : s[i] \in E
  BY ElementOfSeq, LenProperties
<1>2. Remaining(s, None) = s
  <2>1. {i \in 1 .. Len(s) : s[i] = None} = {}
    BY <1>1
  <2>2. QED
    BY <2>1 DEF Remaining
<1>3. ASSUME NEW k \in 1 .. Len(s) PROVE Remaining(s, s[k]) = SubSeq(s, k + 1, Len(s))
  <2>1. {i \in 1 .. Len(s) : s[i] = s[k]} = {k}
    BY <1>1 DEF Once
  <2>2. (CHOOSE i \in {k} : TRUE) = k
    OBVIOUS
  <2>3. QED
    BY <2>1, <2>2 DEF Remaining
<1>4. QED
  BY <1>2, <1>3

\* A page is what comes next, and the after is where it ends.
LEMMA OnePage ==
    ASSUME NEW E, NEW s \in Seq(E), Once(s), None \notin E, NEW size \in Nat \ {0},
           NEW after \in Range(s) \cup {None}
    PROVE  LET page == PageOf(s, after, size)
               rest == Remaining(s, after)
           IN  /\ page.items \in Seq(E) /\ Once(page.items)
               /\ Range(page.items) \subseteq Range(rest) /\ Range(rest) \subseteq Range(s)
               /\ page.next = None => Range(rest) = Range(page.items)
               /\ page.next # None =>
                      /\ page.next \in Range(s)
                      /\ Range(Remaining(s, page.next)) = Range(rest) \ Range(page.items)
<1> DEFINE page == PageOf(s, after, size)
           rest == Remaining(s, after)
<1>1. /\ DOMAIN s = 1 .. Len(s) /\ Len(s) \in Nat /\ \A i \in 1 .. Len(s) : s[i] \in E
  BY ElementOfSeq, LenProperties
<1>2. PICK k \in 0 .. Len(s) : rest = SubSeq(s, k + 1, Len(s))
  <2>1. CASE after = None
    <3>1. rest = s /\ 0 \in 0 .. Len(s)
      BY <1>1, <2>1, WhatRemains
    <3>2. SubSeq(s, 1, Len(s)) = s
      <4>1. /\ SubSeq(s, 1, Len(s)) \in Seq(E) /\ Len(SubSeq(s, 1, Len(s))) = Len(s) - 1 + 1
            /\ \A i \in 1 .. Len(s) - 1 + 1 : SubSeq(s, 1, Len(s))[i] = s[1 + i - 1]
        <5>1. 1 \in 1 .. Len(s) + 1 /\ Len(s) \in 1 - 1 .. Len(s)
          BY <1>1
        <5>2. QED
          BY <5>1, PieceOf
      <4>2. Len(SubSeq(s, 1, Len(s))) = Len(s) /\ \A i \in 1 .. Len(s) : SubSeq(s, 1, Len(s))[i] = s[i]
        BY <1>1, <4>1
      <4>3. QED
        BY <4>1, <4>2, SeqEqual
    <3>3. QED
      BY <3>1, <3>2
  <2>2. CASE after # None
    <3>1. PICK k \in 1 .. Len(s) : s[k] = after
      BY <1>1, <2>2 DEF Range
    <3>2. k \in 0 .. Len(s) /\ rest = SubSeq(s, k + 1, Len(s))
      BY <1>1, <3>1, WhatRemains
    <3>3. QED
      BY <3>2
  <2>3. QED
    BY <2>1, <2>2
<1> HIDE DEF rest
<1>a. size \in Nat \ {0} /\ k \in Nat /\ k <= Len(s)
  BY <1>1
<1> DEFINE upto == IF Len(s) - k <= size THEN Len(s) ELSE k + size
<1>3. /\ k + 1 \in 1 .. Len(s) + 1 /\ Len(s) \in k + 1 - 1 .. Len(s) /\ upto \in k + 1 - 1 .. Len(s)
      /\ upto = Len(s) \/ upto \in 1 .. Len(s)
  <2>1. \A n, j \in Nat : j <= n => j + 1 \in 1 .. n + 1 /\ n \in j + 1 - 1 .. n
    OBVIOUS
  <2>2. \A n, j \in Nat, z \in Nat \ {0} : j <= n /\ ~ (n - j <= z) =>
            j + z \in j + 1 - 1 .. n /\ j + z \in 1 .. n
    OBVIOUS
  <2>3. QED
    BY <1>1, <1>a, <2>1, <2>2
<1> HIDE DEF upto
<1>b. upto \in Nat /\ k <= upto /\ upto <= Len(s)
  <2>1. \A n, j \in Nat : \A u \in j + 1 - 1 .. n : u \in Nat /\ j <= u /\ u <= n
    OBVIOUS
  <2>2. QED
    BY <1>1, <1>a, <1>3, <2>1
<1>c. /\ \A i \in k + 1 .. upto : i \in k + 1 .. Len(s) /\ i \in DOMAIN s
      /\ \A i \in upto + 1 .. Len(s) : i \in k + 1 .. Len(s) /\ i \in DOMAIN s /\ i \notin k + 1 .. upto
      /\ \A i \in k + 1 .. Len(s) : i \in DOMAIN s /\ (i \in k + 1 .. upto \/ i \in upto + 1 .. Len(s))
  <2>1. \A n, j, u \in Nat : j <= u /\ u <= n =>
            /\ \A i \in j + 1 .. u : i \in j + 1 .. n /\ i \in 1 .. n
            /\ \A i \in u + 1 .. n : i \in j + 1 .. n /\ i \in 1 .. n /\ i \notin j + 1 .. u
            /\ \A i \in j + 1 .. n : i \in 1 .. n /\ (i \in j + 1 .. u \/ i \in u + 1 .. n)
    OBVIOUS
  <2>2. QED
    BY <1>1, <1>a, <1>b, <2>1
<1>4. /\ rest \in Seq(E) /\ Len(rest) = Len(s) - k /\ Range(rest) = {s[i] : i \in k + 1 .. Len(s)}
      /\ \A i \in 1 .. Len(s) - k : rest[i] = s[k + i]
  <2>1. /\ rest \in Seq(E) /\ Len(rest) = Len(s) - (k + 1) + 1
        /\ Range(rest) = {s[i] : i \in k + 1 .. Len(s)}
        /\ \A i \in 1 .. Len(s) - (k + 1) + 1 : rest[i] = s[k + 1 + i - 1]
    BY <1>2, <1>3, PieceOf
  <2>2. Len(s) - (k + 1) + 1 = Len(s) - k /\ \A i \in Int : k + 1 + i - 1 = k + i
    <3>1. \A n, j \in Nat : n - (j + 1) + 1 = n - j /\ \A i \in Int : j + 1 + i - 1 = j + i
      OBVIOUS
    <3>2. QED
      BY <1>1, <1>a, <3>1
  <2>3. QED
    BY <2>1, <2>2
<1>5. /\ page.items = SubSeq(s, k + 1, upto)
      /\ page.next = IF Len(s) - k <= size THEN None ELSE s[k + size]
  <2>1. CASE Len(s) - k <= size
    BY <1>2, <1>4, <2>1 DEF PageOf, rest, upto
  <2>2. CASE ~ (Len(s) - k <= size)
    <3>1. page.items = SubSeq(rest, 1, size) /\ page.next = rest[size]
      BY <1>4, <2>2 DEF PageOf, rest
    <3>2. size \in 1 .. Len(s) - k /\ k + size \in 1 .. Len(s)
      BY <1>1, <2>2
    <3>3. SubSeq(rest, 1, size) = SubSeq(s, k + 1, k + size)
      <4>1. /\ SubSeq(rest, 1, size) \in Seq(E) /\ Len(SubSeq(rest, 1, size)) = size - 1 + 1
            /\ \A i \in 1 .. size - 1 + 1 : SubSeq(rest, 1, size)[i] = rest[1 + i - 1]
        <5>1. 1 \in 1 .. Len(rest) + 1 /\ size \in 1 - 1 .. Len(rest)
          BY <1>1, <1>4, <3>2
        <5>2. QED
          BY <1>4, <5>1, PieceOf
      <4>2. /\ SubSeq(s, k + 1, k + size) \in Seq(E)
            /\ Len(SubSeq(s, k + 1, k + size)) = k + size - (k + 1) + 1
            /\ \A i \in 1 .. k + size - (k + 1) + 1 :
                   SubSeq(s, k + 1, k + size)[i] = s[k + 1 + i - 1]
        <5>1. k + size \in k + 1 - 1 .. Len(s)
          BY <1>1, <3>2
        <5>2. QED
          BY <1>3, <5>1, PieceOf
      <4>3. /\ size - 1 + 1 = size /\ k + size - (k + 1) + 1 = size
            /\ \A i \in Int : 1 + i - 1 = i /\ k + 1 + i - 1 = k + i
        BY <1>1
      <4>4. \A i \in 1 .. size : SubSeq(rest, 1, size)[i] = SubSeq(s, k + 1, k + size)[i]
        <5> SUFFICES ASSUME NEW i \in 1 .. size
                     PROVE  SubSeq(rest, 1, size)[i] = SubSeq(s, k + 1, k + size)[i]
          OBVIOUS
        <5>1. SubSeq(rest, 1, size)[i] = rest[i] /\ SubSeq(s, k + 1, k + size)[i] = s[k + i]
          BY <4>1, <4>2, <4>3
        <5>2. i \in 1 .. Len(s) - k
          BY <1>1, <3>2
        <5>3. QED
          BY <1>4, <5>1, <5>2
      <4>5. QED
        BY <4>1, <4>2, <4>3, <4>4, SeqEqual
    <3>4. QED
      BY <1>4, <2>2, <3>1, <3>2, <3>3 DEF upto
  <2>3. QED
    BY <2>1, <2>2
<1> HIDE DEF page
<1>6. /\ page.items \in Seq(E) /\ Once(page.items)
      /\ Range(page.items) = {s[i] : i \in k + 1 .. upto}
  <2>1. k + 1 \in 1 .. Len(s) + 1 /\ upto \in k + 1 - 1 .. Len(s)
    BY <1>3
  <2>2. /\ SubSeq(s, k + 1, upto) \in Seq(E) /\ (Once(s) => Once(SubSeq(s, k + 1, upto)))
        /\ Range(SubSeq(s, k + 1, upto)) = {s[i] : i \in k + 1 .. upto}
    BY <2>1, PieceOf
  <2>3. QED
    BY <1>5, <2>2
<1>7. /\ Range(page.items) \subseteq Range(rest) /\ Range(rest) \subseteq Range(s)
  BY <1>4, <1>6, <1>c DEF Range
<1>8. ASSUME page.next = None PROVE Range(rest) = Range(page.items)
  <2>1. Len(s) - k <= size
    <3>1. ~ (Len(s) - k <= size) => k + size \in 1 .. Len(s)
      BY <1>1
    <3>2. QED
      BY <1>1, <1>5, <1>8, <3>1
  <2>2. QED
    BY <1>4, <1>6, <2>1 DEF upto
<1>9. ASSUME page.next # None
      PROVE  /\ page.next \in Range(s)
             /\ Range(Remaining(s, page.next)) = Range(rest) \ Range(page.items)
  <2>1. ~ (Len(s) - k <= size) /\ page.next = s[k + size] /\ upto = k + size
    BY <1>5, <1>9 DEF upto
  <2>2. upto \in 1 .. Len(s) /\ upto >= k
    BY <1>1, <1>a, <1>b, <2>1
  <2>3. Remaining(s, page.next) = SubSeq(s, upto + 1, Len(s))
    BY <2>1, <2>2, WhatRemains
  <2>4. Range(Remaining(s, page.next)) = {s[i] : i \in upto + 1 .. Len(s)}
    <3>1. upto + 1 \in 1 .. Len(s) + 1 /\ Len(s) \in upto + 1 - 1 .. Len(s)
      <4>1. \A n, u \in Nat : u <= n => u + 1 \in 1 .. n + 1 /\ n \in u + 1 - 1 .. n
        OBVIOUS
      <4>2. QED
        BY <1>1, <1>b, <4>1
    <3>2. Range(SubSeq(s, upto + 1, Len(s))) = {s[i] : i \in upto + 1 .. Len(s)}
      BY <3>1, PieceOf
    <3>3. QED
      BY <2>3, <3>2
  <2>5. ASSUME NEW i \in k + 1 .. upto, NEW j \in upto + 1 .. Len(s) PROVE s[i] # s[j]
    <3>1. i \in DOMAIN s /\ j \in DOMAIN s /\ i # j
      BY <1>c
    <3>2. QED
      BY <3>1 DEF Once
  <2>6. Range(Remaining(s, page.next)) = Range(rest) \ Range(page.items)
    <3>1. Range(Remaining(s, page.next)) \subseteq Range(rest) \ Range(page.items)
      BY <1>4, <1>6, <1>c, <2>4, <2>5
    <3>2. Range(rest) \ Range(page.items) \subseteq Range(Remaining(s, page.next))
      BY <1>4, <1>6, <1>c, <2>4
    <3>3. QED
      BY <3>1, <3>2
  <2>7. QED
    BY <1>1, <2>1, <2>2, <2>6 DEF Range
<1>10. QED
  BY <1>6, <1>7, <1>8, <1>9 DEF rest, page

\* A settlement comes first.
LEMMA OneSettles ==
    ASSUME NEW E, NEW s \in Seq(E), Once(s), None \notin E, NEW e \in E, e \notin Range(s)
    PROVE  /\ <<e>> \o s \in Seq(E) /\ Once(<<e>> \o s) /\ Range(<<e>> \o s) = Range(s) \cup {e}
           /\ \A after \in Range(s) : Remaining(<<e>> \o s, after) = Remaining(s, after)
<1> DEFINE t == <<e>> \o s
<1>1. /\ DOMAIN s = 1 .. Len(s) /\ Len(s) \in Nat /\ \A i \in 1 .. Len(s) : s[i] \in E
  BY ElementOfSeq, LenProperties
<1>2. <<e>> \in Seq(E) /\ Len(<<e>>) = 1 /\ <<e>>[1] = e
  OBVIOUS
<1>3. /\ t \in Seq(E) /\ Len(t) = 1 + Len(s)
      /\ \A i \in 1 .. 1 + Len(s) : t[i] = IF i <= 1 THEN <<e>>[i] ELSE s[i - 1]
  BY <1>2, ConcatProperties
<1>4. DOMAIN t = 1 .. Len(s) + 1 /\ t[1] = e /\ \A i \in 1 .. Len(s) : t[i + 1] = s[i]
  <2>1. DOMAIN t = 1 .. Len(t)
    BY <1>3, LenProperties
  <2> HIDE DEF t
  <2>2. 1 \in 1 .. 1 + Len(s) /\ \A i \in 1 .. Len(s) : i + 1 \in 1 .. 1 + Len(s) /\ ~(i + 1 <= 1) /\ i + 1 - 1 = i
    BY <1>1
  <2>3. QED
    BY <1>1, <1>2, <1>3, <2>1, <2>2
<1> HIDE DEF t
<1>5. \A i \in 1 .. Len(s) + 1 : i = 1 \/ (i - 1 \in 1 .. Len(s) /\ i = (i - 1) + 1)
  BY <1>1
<1>6. Range(t) = Range(s) \cup {e}
  <2>1. \A i \in 1 .. Len(s) : i + 1 \in 1 .. Len(s) + 1
    BY <1>1
  <2>2. 1 \in 1 .. Len(s) + 1
    BY <1>1
  <2>3. \A i \in 1 .. Len(s) + 1 : i # 1 => \E j \in 1 .. Len(s) : t[i] = s[j]
    <3> SUFFICES ASSUME NEW i \in 1 .. Len(s) + 1, i # 1 PROVE \E j \in 1 .. Len(s) : t[i] = s[j]
      OBVIOUS
    <3>1. i - 1 \in 1 .. Len(s) /\ i = (i - 1) + 1
      BY <1>5
    <3>2. t[(i - 1) + 1] = s[i - 1]
      BY <1>4, <3>1
    <3>3. QED
      BY <3>1, <3>2
  <2>4. Range(t) = {t[i] : i \in 1 .. Len(s) + 1} /\ Range(s) = {s[i] : i \in 1 .. Len(s)}
    BY <1>1, <1>4 DEF Range
  <2>5. Range(t) \subseteq Range(s) \cup {e}
    BY <1>4, <2>3, <2>4
  <2>6. Range(s) \cup {e} \subseteq Range(t)
    BY <1>4, <2>1, <2>2, <2>4
  <2>7. QED
    BY <2>5, <2>6
<1>7. Once(t)
  <2> SUFFICES ASSUME NEW i \in 1 .. Len(s) + 1, NEW j \in 1 .. Len(s) + 1, t[i] = t[j] PROVE i = j
    BY <1>4 DEF Once
  <2>1. \A k \in 1 .. Len(s) : s[k] # e
    BY <1>1 DEF Range
  <2>2. i = 1 <=> j = 1
    <3>1. \A k \in 1 .. Len(s) + 1 : k # 1 => t[k] # e
      <4> SUFFICES ASSUME NEW k \in 1 .. Len(s) + 1, k # 1 PROVE t[k] # e
        OBVIOUS
      <4>1. k - 1 \in 1 .. Len(s) /\ k = (k - 1) + 1
        BY <1>5
      <4>2. t[(k - 1) + 1] = s[k - 1]
        BY <1>4, <4>1
      <4>3. QED
        BY <2>1, <4>1, <4>2
    <3>2. QED
      BY <1>4, <3>1
  <2>3. CASE i # 1
    <3>1. /\ i - 1 \in 1 .. Len(s) /\ i = (i - 1) + 1
          /\ j - 1 \in 1 .. Len(s) /\ j = (j - 1) + 1
      BY <1>5, <2>2, <2>3
    <3>a. t[i] = s[i - 1] /\ t[j] = s[j - 1]
      <4>1. t[(i - 1) + 1] = s[i - 1] /\ t[(j - 1) + 1] = s[j - 1]
        BY <1>4, <3>1
      <4>2. QED
        BY <3>1, <4>1
    <3>b. i - 1 \in DOMAIN s /\ j - 1 \in DOMAIN s /\ s[i - 1] = s[j - 1]
      BY <1>1, <3>1, <3>a
    <3>2. i - 1 = j - 1
      BY <3>b DEF Once
    <3>3. QED
      BY <1>1, <3>2
  <2>4. QED
    BY <2>2, <2>3
<1>8. ASSUME NEW after \in Range(s) PROVE Remaining(t, after) = Remaining(s, after)
  <2>1. PICK k \in 1 .. Len(s) : s[k] = after
    BY <1>1 DEF Range
  <2>2. k + 1 \in 1 .. Len(t) /\ t[k + 1] = after /\ Len(t) = Len(s) + 1
    BY <1>1, <1>3, <1>4, <2>1
  <2>3. /\ Remaining(t, after) = SubSeq(t, k + 1 + 1, Len(t))
        /\ Remaining(s, after) = SubSeq(s, k + 1, Len(s))
    BY <1>3, <1>7, <2>1, <2>2, WhatRemains
  <2>4. /\ k + 1 + 1 \in 1 .. Len(t) + 1 /\ Len(t) \in k + 1 + 1 - 1 .. Len(t)
        /\ k + 1 \in 1 .. Len(s) + 1 /\ Len(s) \in k + 1 - 1 .. Len(s)
        /\ Len(t) - (k + 1 + 1) + 1 = Len(s) - k /\ Len(s) - (k + 1) + 1 = Len(s) - k
    BY <1>1, <2>2
  <2>5. /\ SubSeq(t, k + 1 + 1, Len(t)) \in Seq(E) /\ Len(SubSeq(t, k + 1 + 1, Len(t))) = Len(s) - k
        /\ \A i \in 1 .. Len(s) - k : SubSeq(t, k + 1 + 1, Len(t))[i] = t[k + 1 + 1 + i - 1]
    BY <1>3, <2>4, PieceOf
  <2>6. /\ SubSeq(s, k + 1, Len(s)) \in Seq(E) /\ Len(SubSeq(s, k + 1, Len(s))) = Len(s) - k
        /\ \A i \in 1 .. Len(s) - k : SubSeq(s, k + 1, Len(s))[i] = s[k + 1 + i - 1]
    BY <2>4, PieceOf
  <2>7. \A i \in 1 .. Len(s) - k : /\ k + i \in 1 .. Len(s) /\ k + 1 + i - 1 = k + i
                                   /\ k + 1 + 1 + i - 1 = k + i + 1
    BY <1>1
  <2>8. ASSUME NEW i \in 1 .. Len(s) - k
        PROVE  SubSeq(t, k + 1 + 1, Len(t))[i] = SubSeq(s, k + 1, Len(s))[i]
    <3>1. SubSeq(t, k + 1 + 1, Len(t))[i] = t[k + i + 1] /\ SubSeq(s, k + 1, Len(s))[i] = s[k + i]
      BY <2>5, <2>6, <2>7
    <3>2. t[k + i + 1] = s[k + i]
      BY <1>4, <2>7
    <3>3. QED
      BY <3>1, <3>2
  <2>9. QED
    BY <2>3, <2>5, <2>6, <2>8, SeqEqual
<1>9. QED
  BY <1>3, <1>6, <1>7, <1>8 DEF t

----------------------------------------------------------------------------
(* The collector of settled events. *)

States == {"determined", "finalized"}
\* An event as fetched has all of its markets, unless one cannot be read.
EventRow ==
    {row \in [event : KnownEvents, markets : UNION {[S -> States] : S \in SUBSET KnownMarkets}] :
        SiblingsOf[row.event] \cap Unreadable = {} => SiblingsOf[row.event] \subseteq DOMAIN row.markets}
OnceEach(got) == \A i, j \in DOMAIN got : got[i].event = got[j].event => i = j

ListingsSound ==
    /\ settledEvents \in [EventSeries -> Seq(KnownEvents)]
    /\ \A s \in EventSeries : Once(settledEvents[s])
TablesSound ==
    /\ stateOf \in [KnownMarkets -> States] /\ statusLog \in [KnownMarkets -> Seq(States)]
    /\ IsFiniteSet(DOMAIN eventTable) /\ DOMAIN eventTable \subseteq KnownEvents
    /\ DOMAIN marketTable \subseteq KnownMarkets
    /\ \A m \in KnownMarkets : \A i \in 2 .. Len(statusLog[m]) : statusLog[m][i] # statusLog[m][i - 1]
OwedSound ==
    /\ owed \in [EventSeries -> Nat] /\ honoured \in [EventSeries -> Nat]
    /\ \A s \in EventSeries :
           /\ owed[s] <= EventsWanted
           /\ owed[s] <= Cardinality(Range(settledEvents[s]) \ Unparsed)
\* What was got comes before the cursor, and with what comes after it is enough.
PagesSound(s) ==
    LET after == Range(Remaining(settledEvents[s], fetching[s].cursor))
    IN  /\ fetching[s].cursor \in Range(settledEvents[s]) \cup {None}
        /\ fetching[s].cursor = None => fetching[s].got = <<>>
        /\ EventsIn(fetching[s].got) \cap after = {}
        /\ owed[s] <= Len(fetching[s].got) + Cardinality(after \ Unparsed)
RowsAreStored(rows) ==
    \A m \in DOMAIN rows : m \in DOMAIN marketTable /\ marketTable[m] = rows[m]
FetchSeries(s) ==
    /\ s \in EventSeries
    /\ fetching[s] = [at |-> fetching[s].at, cursor |-> fetching[s].cursor, got |-> fetching[s].got]
    /\ fetching[s].at \in {"pages", "events", "markets", "log"}
    /\ fetching[s].got \in Seq(EventRow) /\ OnceEach(fetching[s].got)
    /\ EventsIn(fetching[s].got) \subseteq Range(settledEvents[s])
    /\ fetching[s].at = "pages" => PagesSound(s)
    /\ fetching[s].at = "events" => owed[s] <= Len(fetching[s].got)
    /\ fetching[s].at \in {"markets", "log"} => owed[s] <= Cardinality(StoredOf(s))
    /\ fetching[s].at = "log" => RowsAreStored(MarketRows(fetching[s].got))
\* One series at most is being written.
OneIsWritten ==
    \A s, t \in InFlight : fetching[s].at # "pages" /\ fetching[t].at # "pages" => s = t
FetchesSound == /\ ~ alive => InFlight = {}
                /\ OneIsWritten /\ \A s \in InFlight : FetchSeries(s)
\* A series that is done with has what it was owed.
Accounted ==
    \A s \in EventSeries :
        alive => s \in wanted \cup failing \cup InFlight \/ owed[s] <= Cardinality(StoredOf(s))

EventsInv ==
    ListingsSound /\ TablesSound /\ OwedSound /\ FetchesSound /\ Accounted /\ EventsAreComplete

LEMMA NormalisedIsRow ==
    ASSUME stateOf \in [KnownMarkets -> States], NEW e \in KnownEvents
    PROVE  Normalised(e) \in EventRow /\ Normalised(e).event = e
<1>1. SiblingsOf[e] \subseteq KnownMarkets
  BY DEF KnownMarkets, KnownEvents, Range
<1>2. CASE SiblingsOf[e] \cap Unreadable = {}
  <2>1. Normalised(e) = [event |-> e, markets |-> Restrict(stateOf, SiblingsOf[e])]
    BY <1>2 DEF Normalised
  <2>2. Restrict(stateOf, SiblingsOf[e]) \in [SiblingsOf[e] -> States]
    BY <1>1 DEF Restrict
  <2>3. DOMAIN Restrict(stateOf, SiblingsOf[e]) = SiblingsOf[e]
    BY DEF Restrict
  <2> HIDE DEF KnownEvents, KnownMarkets, States
  <2>4. QED
    BY <1>1, <2>1, <2>2, <2>3 DEF EventRow
<1>3. CASE SiblingsOf[e] \cap Unreadable # {}
  <2>1. Normalised(e) = [event |-> e, markets |-> <<>>]
    BY <1>3 DEF Normalised
  <2>2. <<>> \in [{} -> States]
    OBVIOUS
  <2>3. QED
    BY <1>3, <2>1, <2>2 DEF EventRow
<1>4. QED
  BY <1>2, <1>3

\* The events of what was got.
LEMMA EventsOfGot ==
    ASSUME NEW got \in Seq(EventRow)
    PROVE  /\ EventsIn(got) \subseteq KnownEvents /\ IsFiniteSet(EventsIn(got))
           /\ Cardinality(EventsIn(got)) \in Nat /\ Len(got) \in Nat
           /\ OnceEach(got) => Cardinality(EventsIn(got)) = Len(got)
<1> DEFINE names == [i \in 1 .. Len(got) |-> got[i].event]
<1>1. DOMAIN got = 1 .. Len(got) /\ Len(got) \in Nat /\ \A i \in 1 .. Len(got) : got[i] \in EventRow
  BY ElementOfSeq, LenProperties
<1>2. \A i \in 1 .. Len(got) : got[i].event \in KnownEvents
  BY <1>1 DEF EventRow
<1>3. /\ DOMAIN names = 1 .. Len(got) /\ \A i \in 1 .. Len(got) : names[i] = got[i].event
      /\ names \in [1 .. Len(got) -> KnownEvents]
  BY <1>2
<1>4. names \in Seq(KnownEvents) /\ Len(names) = Len(got)
  BY <1>1, <1>3, SeqDef
<1> HIDE DEF names
<1>5. Range(names) = EventsIn(got)
  BY <1>1, <1>3 DEF Range, EventsIn
<1>6. OnceEach(got) => Once(names)
  BY <1>1, <1>3 DEF Once, OnceEach
<1>7. QED
  BY <1>1, <1>4, <1>5, <1>6, ElementsOf

\* The rows of their markets.
LEMMA MarketsOfGot ==
    ASSUME NEW got \in Seq(EventRow)
    PROVE  /\ \A m \in DOMAIN MarketRows(got) : m \in KnownMarkets /\ MarketRows(got)[m] \in States
           /\ \A e \in EventsIn(got) : SiblingsOf[e] \cap Unreadable = {} =>
                  SiblingsOf[e] \subseteq DOMAIN MarketRows(got)
<1>1. DOMAIN got = 1 .. Len(got) /\ Len(got) \in Nat /\ \A i \in 1 .. Len(got) : got[i] \in EventRow
  BY ElementOfSeq, LenProperties
<1>2. DOMAIN MarketRows(got) = UNION {DOMAIN got[i].markets : i \in DOMAIN got}
  BY DEF MarketRows
<1>3. ASSUME NEW m \in DOMAIN MarketRows(got)
      PROVE  m \in KnownMarkets /\ MarketRows(got)[m] \in States
  <2>1. RowsWith(got, m) \subseteq 1 .. Len(got) /\ RowsWith(got, m) # {}
    BY <1>1, <1>2 DEF RowsWith
  <2>2. Max(RowsWith(got, m)) \in RowsWith(got, m)
    <3>1. RowsWith(got, m) \subseteq Nat /\ \A x \in RowsWith(got, m) : x <= Len(got)
      BY <1>1, <2>1
    <3>2. \E x \in RowsWith(got, m) : \A y \in RowsWith(got, m) : x >= y
      BY <1>1, <2>1, <3>1, GreatestExists
    <3>3. QED
      BY <3>2 DEF Max
  <2>3. PICK i \in 1 .. Len(got) : i = Max(RowsWith(got, m)) /\ m \in DOMAIN got[i].markets
    BY <1>1, <2>2 DEF RowsWith
  <2>4. MarketRows(got)[m] = got[i].markets[m]
    BY <1>2, <1>3, <2>3 DEF MarketRows
  <2>5. got[i] \in EventRow
    BY <1>1
  <2>6. PICK S \in SUBSET KnownMarkets : got[i].markets \in [S -> States]
    BY <2>5 DEF EventRow
  <2>7. QED
    BY <2>3, <2>4, <2>6
<1>4. ASSUME NEW e \in EventsIn(got), SiblingsOf[e] \cap Unreadable = {}
      PROVE  SiblingsOf[e] \subseteq DOMAIN MarketRows(got)
  <2>1. PICK i \in DOMAIN got : got[i].event = e
    BY DEF EventsIn
  <2>2. SiblingsOf[e] \subseteq DOMAIN got[i].markets
    BY <1>1, <1>4, <2>1 DEF EventRow
  <2>3. QED
    BY <1>2, <2>2
<1>5. QED
  BY <1>3, <1>4

\* The first of a sequence, as many as are wanted.
LEMMA FirstWanted ==
    ASSUME NEW E, NEW s \in Seq(E)
    PROVE  /\ Newest(s) \in Seq(E)
           /\ Len(Newest(s)) = IF EventsWanted <= Len(s) THEN EventsWanted ELSE Len(s)
           /\ \A i \in DOMAIN Newest(s) : i \in DOMAIN s /\ Newest(s)[i] = s[i]
           /\ Len(s) <= EventsWanted => Newest(s) = s
<1> DEFINE n == IF EventsWanted <= Len(s) THEN EventsWanted ELSE Len(s)
<1>1. DOMAIN s = 1 .. Len(s) /\ Len(s) \in Nat /\ \A i \in 1 .. Len(s) : s[i] \in E
  BY ElementOfSeq, LenProperties
<1>2. EventsWanted \in Nat
  BY EventStudyAssumption
<1>3. n \in Nat /\ n <= Len(s) /\ n <= EventsWanted
  BY <1>1, <1>2
<1>4. Min({EventsWanted, Len(s)}) = n
  <2>1. \E x \in {EventsWanted, Len(s)} : \A y \in {EventsWanted, Len(s)} : x <= y
    BY <1>1, <1>2
  <2>2. /\ Min({EventsWanted, Len(s)}) \in {EventsWanted, Len(s)}
        /\ \A y \in {EventsWanted, Len(s)} : Min({EventsWanted, Len(s)}) <= y
    BY <2>1 DEF Min
  <2>3. QED
    BY <1>1, <1>2, <2>2
<1>5. n = EventsWanted \/ n = Len(s)
  OBVIOUS
<1> HIDE DEF n
<1>6. Newest(s) = SubSeq(s, 1, n)
  BY <1>4 DEF Newest
<1>7. 1 \in 1 .. Len(s) + 1 /\ n \in 1 - 1 .. Len(s)
  BY <1>1, <1>3
<1>8. /\ Newest(s) \in Seq(E) /\ Len(Newest(s)) = n - 1 + 1
      /\ \A i \in 1 .. n - 1 + 1 : Newest(s)[i] = s[1 + i - 1]
  BY <1>6, <1>7, PieceOf
<1>9. Len(Newest(s)) = n /\ \A i \in 1 .. n : Newest(s)[i] = s[i]
  <2>1. n - 1 + 1 = n /\ \A i \in Int : 1 + i - 1 = i
    BY <1>3
  <2>2. QED
    BY <1>8, <2>1
<1>10. \A i \in DOMAIN Newest(s) : i \in DOMAIN s /\ Newest(s)[i] = s[i]
  <2>1. DOMAIN Newest(s) = 1 .. n
    BY <1>8, <1>9, LenProperties
  <2>2. \A i \in 1 .. n : i \in 1 .. Len(s)
    BY <1>1, <1>3
  <2>3. QED
    BY <1>1, <1>9, <2>1, <2>2
<1>11. ASSUME Len(s) <= EventsWanted PROVE Newest(s) = s
  <2>1. n = Len(s)
    <3>1. \A a, b, c \in Nat : a <= b /\ a <= c /\ b <= c /\ (a = c \/ a = b) => a = b
      OBVIOUS
    <3>2. QED
      BY <1>1, <1>2, <1>3, <1>5, <1>11, <3>1
  <2>2. Len(Newest(s)) = Len(s) /\ \A i \in 1 .. Len(Newest(s)) : Newest(s)[i] = s[i]
    BY <1>9, <2>1
  <2>3. Newest(s) \in Seq(E) /\ s \in Seq(E)
    BY <1>8
  <2>4. QED
    BY <2>2, <2>3, SeqEqual
<1>12. QED
  BY <1>8, <1>9, <1>10, <1>11 DEF n

\* A page more.
LEMMA PageIsAdded ==
    ASSUME stateOf \in [KnownMarkets -> States], NEW got \in Seq(EventRow), OnceEach(got),
           NEW items \in Seq(KnownEvents), Once(items), EventsIn(got) \cap Range(items) = {},
           NEW new, new = [i \in DOMAIN Parsed(items) |-> Normalised(Parsed(items)[i])]
    PROVE  /\ Newest(got \o new) \in Seq(EventRow) /\ OnceEach(Newest(got \o new))
           /\ EventsIn(Newest(got \o new)) \subseteq EventsIn(got) \cup Range(items)
           /\ Len(Parsed(items)) = Cardinality(Range(items) \ Unparsed) /\ Len(Parsed(items)) \in Nat
           /\ Len(Newest(got \o new)) = IF EventsWanted <= Len(got) + Len(Parsed(items))
                                        THEN EventsWanted ELSE Len(got) + Len(Parsed(items))
<1> DEFINE parsed == Parsed(items)
           all == got \o new
<1>1. /\ parsed \in Seq(KnownEvents) /\ Once(parsed) /\ Range(parsed) \subseteq Range(items)
      /\ Len(parsed) = Cardinality(Range(items) \ Unparsed)
  BY ParsedOnly
<1> HIDE DEF parsed
<1>2. /\ DOMAIN parsed = 1 .. Len(parsed) /\ Len(parsed) \in Nat
      /\ \A i \in 1 .. Len(parsed) : parsed[i] \in KnownEvents
  BY <1>1, ElementOfSeq, LenProperties
<1>3. /\ DOMAIN new = 1 .. Len(parsed)
      /\ \A i \in 1 .. Len(parsed) : new[i] \in EventRow /\ new[i].event = parsed[i]
  BY <1>2, NormalisedIsRow DEF parsed
<1>4. new \in Seq(EventRow) /\ Len(new) = Len(parsed)
  <2>1. new = [i \in 1 .. Len(parsed) |-> Normalised(parsed[i])]
    BY <1>2 DEF parsed
  <2>2. new \in [1 .. Len(parsed) -> EventRow]
    BY <1>3, <2>1
  <2>3. QED
    BY <1>2, <1>3, <2>2, SeqDef
<1>5. DOMAIN got = 1 .. Len(got) /\ Len(got) \in Nat
  BY LenProperties
<1>6. /\ all \in Seq(EventRow) /\ Len(all) = Len(got) + Len(parsed)
      /\ \A i \in 1 .. Len(got) + Len(parsed) : all[i] = IF i <= Len(got) THEN got[i] ELSE new[i - Len(got)]
  <2>1. /\ got \o new \in Seq(EventRow) /\ Len(got \o new) = Len(got) + Len(new)
        /\ \A i \in 1 .. Len(got) + Len(new) :
               (got \o new)[i] = IF i <= Len(got) THEN got[i] ELSE new[i - Len(got)]
    <3>1. \A E : \A a, b \in Seq(E) :
              /\ a \o b \in Seq(E) /\ Len(a \o b) = Len(a) + Len(b)
              /\ \A i \in 1 .. Len(a) + Len(b) : (a \o b)[i] = IF i <= Len(a) THEN a[i] ELSE b[i - Len(a)]
      BY ConcatProperties
    <3>2. got \in Seq(EventRow) /\ new \in Seq(EventRow)
      BY <1>4
    <3>3. QED
      BY <3>1, <3>2, Zenon
  <2>2. QED
    BY <1>4, <2>1
<1> HIDE DEF all
<1>7. DOMAIN all = 1 .. Len(got) + Len(parsed)
  BY <1>6, LenProperties
<1>8. \A i \in 1 .. Len(got) + Len(parsed) :
          \/ i \in 1 .. Len(got) /\ all[i] = got[i]
          \/ i - Len(got) \in 1 .. Len(parsed) /\ ~ (i <= Len(got)) /\ all[i] = new[i - Len(got)]
  BY <1>2, <1>5, <1>6
<1>9. ASSUME NEW i \in DOMAIN all
      PROVE  \/ i \in DOMAIN got /\ all[i].event = got[i].event /\ all[i].event \in EventsIn(got)
             \/ /\ i - Len(got) \in DOMAIN parsed /\ all[i].event = parsed[i - Len(got)]
                /\ all[i].event \in Range(items) /\ all[i].event \notin EventsIn(got)
  <2>1. CASE i \in 1 .. Len(got) /\ all[i] = got[i]
    BY <1>5, <2>1 DEF EventsIn
  <2>2. CASE i - Len(got) \in 1 .. Len(parsed) /\ all[i] = new[i - Len(got)]
    <3>1. all[i].event = parsed[i - Len(got)]
      BY <1>3, <2>2
    <3>2. parsed[i - Len(got)] \in Range(items)
      BY <1>1, <1>2, <2>2 DEF Range
    <3>3. QED
      BY <1>2, <2>2, <3>1, <3>2
  <2>3. QED
    BY <1>7, <1>8, <2>1, <2>2
<1>10. OnceEach(all)
  <2> SUFFICES ASSUME NEW i \in DOMAIN all, NEW j \in DOMAIN all, all[i].event = all[j].event
               PROVE  i = j
    BY DEF OnceEach
  <2>1. i \in Int /\ j \in Int
    BY <1>7
  <2>2. CASE all[i].event \in EventsIn(got)
    <3>1. i \in DOMAIN got /\ j \in DOMAIN got /\ got[i].event = got[j].event
      BY <1>9, <2>2
    <3>2. QED
      BY <3>1 DEF OnceEach
  <2>3. CASE all[i].event \notin EventsIn(got)
    <3>1. /\ i - Len(got) \in DOMAIN parsed /\ j - Len(got) \in DOMAIN parsed
          /\ parsed[i - Len(got)] = parsed[j - Len(got)]
      BY <1>9, <2>3
    <3>2. i - Len(got) = j - Len(got)
      BY <1>1, <3>1 DEF Once
    <3>3. QED
      BY <1>5, <2>1, <3>2
  <2>4. QED
    BY <2>2, <2>3
<1>11. /\ Newest(all) \in Seq(EventRow)
       /\ Len(Newest(all)) = IF EventsWanted <= Len(all) THEN EventsWanted ELSE Len(all)
       /\ \A i \in DOMAIN Newest(all) : i \in DOMAIN all /\ Newest(all)[i] = all[i]
  BY <1>6, FirstWanted
<1>12. OnceEach(Newest(all))
  BY <1>10, <1>11 DEF OnceEach
<1>13. EventsIn(Newest(all)) \subseteq EventsIn(got) \cup Range(items)
  <2> SUFFICES ASSUME NEW i \in DOMAIN Newest(all)
               PROVE  Newest(all)[i].event \in EventsIn(got) \cup Range(items)
    BY DEF EventsIn
  <2>1. QED
    BY <1>9, <1>11
<1>14. QED
  BY <1>1, <1>2, <1>6, <1>11, <1>12, <1>13 DEF all, parsed

\* What is being written.
LEMMA WhatIsHalfWritten ==
    \A x : x \in BeingWritten <=>
        \E s \in EventSeries :
            \/ (At(s, "markets") /\ x \in EventsIn(fetching[s].got))
            \/ (At(s, "log") /\ x \in DOMAIN MarketRows(fetching[s].got))
<1>1. ASSUME NEW s \in EventSeries
      PROVE  HalfWritten(s) = IF At(s, "markets") THEN EventsIn(fetching[s].got)
                              ELSE IF At(s, "log") THEN DOMAIN MarketRows(fetching[s].got) ELSE {}
  <2>1. ~ (At(s, "markets") /\ At(s, "log"))
    BY DEF At
  <2>2. QED
    BY <2>1 DEF HalfWritten
<1>2. \A s \in EventSeries : ~ (At(s, "markets") /\ At(s, "log"))
  BY DEF At
<1>3. \A x : x \in BeingWritten <=> \E s \in EventSeries : x \in HalfWritten(s)
  BY DEF BeingWritten
<1>4. ASSUME NEW x, NEW s \in EventSeries
      PROVE  x \in HalfWritten(s) <=>
                 \/ (At(s, "markets") /\ x \in EventsIn(fetching[s].got))
                 \/ (At(s, "log") /\ x \in DOMAIN MarketRows(fetching[s].got))
  BY <1>1, <1>2
<1>5. QED
  BY <1>3, <1>4

LEMMA WrittenUnchanged ==
    UNCHANGED fetching => BeingWritten' = BeingWritten
BY DEF BeingWritten, HalfWritten, At, InFlight

\* Nothing that is stored is lost again.
LEMMA StoredStays ==
    ASSUME IsFiniteSet(DOMAIN eventTable'), DOMAIN eventTable \subseteq DOMAIN eventTable',
           NEW s \in EventSeries, settledEvents[s] \in Seq(KnownEvents),
           settledEvents'[s] \in Seq(KnownEvents),
           Range(settledEvents[s]) \subseteq Range(settledEvents'[s])
    PROVE  /\ StoredOf(s) \subseteq StoredOf(s)' /\ IsFiniteSet(StoredOf(s)')
           /\ Cardinality(StoredOf(s)) <= Cardinality(StoredOf(s)')
           /\ Cardinality(StoredOf(s)) \in Nat /\ Cardinality(StoredOf(s)') \in Nat
           /\ StoredOf(s)' = DOMAIN eventTable' \cap Range(settledEvents'[s])
<1>1. /\ DOMAIN settledEvents[s] = 1 .. Len(settledEvents[s])
      /\ DOMAIN settledEvents'[s] = 1 .. Len(settledEvents'[s])
  BY LenProperties
<1>2. /\ StoredOf(s) = DOMAIN eventTable \cap Range(settledEvents[s])
      /\ StoredOf(s)' = DOMAIN eventTable' \cap Range(settledEvents'[s])
  BY <1>1 DEF StoredOf, Contains, Range
<1>3. StoredOf(s) \subseteq StoredOf(s)' /\ StoredOf(s)' \subseteq DOMAIN eventTable'
  BY <1>2
<1>4. IsFiniteSet(StoredOf(s)')
  BY <1>3, FS_Subset
<1>5. IsFiniteSet(StoredOf(s)) /\ Cardinality(StoredOf(s)) <= Cardinality(StoredOf(s)')
  BY <1>3, <1>4, FS_Subset
<1>6. QED
  BY <1>2, <1>3, <1>4, <1>5, FS_CardinalityType

\* The stored events of a series.
LEMMA StoredIs ==
    ASSUME ListingsSound, TablesSound, NEW s \in EventSeries
    PROVE  /\ StoredOf(s) = DOMAIN eventTable \cap Range(settledEvents[s])
           /\ IsFiniteSet(StoredOf(s)) /\ Cardinality(StoredOf(s)) \in Nat
<1>1. DOMAIN settledEvents[s] = 1 .. Len(settledEvents[s])
  BY LenProperties DEF ListingsSound
<1>2. StoredOf(s) = DOMAIN eventTable \cap Range(settledEvents[s])
  BY <1>1 DEF StoredOf, Contains, Range
<1>3. IsFiniteSet(StoredOf(s))
  <2>1. StoredOf(s) \subseteq DOMAIN eventTable
    BY DEF StoredOf
  <2>2. QED
    BY <2>1, FS_Subset DEF TablesSound
<1>4. QED
  BY <1>2, <1>3, FS_CardinalityType

\* A series that a step leaves alone is as sound as before.
LEMMA OthersGoOn ==
    ASSUME ListingsSound, TablesSound, TablesSound', NEW s \in InFlight, FetchSeries(s),
           fetching'[s] = fetching[s], UNCHANGED <<settledEvents, owed>>, owed \in [EventSeries -> Nat],
           DOMAIN eventTable \subseteq DOMAIN eventTable',
           fetching[s].at = "log" => UNCHANGED marketTable
    PROVE  FetchSeries(s)'
<1>1. s \in EventSeries
  BY DEF FetchSeries
<1>2. settledEvents[s] \in Seq(KnownEvents) /\ settledEvents'[s] = settledEvents[s]
  BY <1>1 DEF ListingsSound
<1>3. /\ Cardinality(StoredOf(s)) <= Cardinality(StoredOf(s)')
      /\ Cardinality(StoredOf(s)) \in Nat /\ Cardinality(StoredOf(s)') \in Nat
  BY <1>1, <1>2, StoredStays DEF TablesSound
<1>4. owed[s] \in Nat /\ owed'[s] = owed[s]
  BY <1>1
<1>5. owed[s] <= Cardinality(StoredOf(s)) => owed'[s] <= Cardinality(StoredOf(s)')
  BY <1>3, <1>4
<1>6. PagesSound(s) => PagesSound(s)'
  BY <1>2, <1>4 DEF PagesSound
<1>7. fetching[s].at = "log" /\ RowsAreStored(MarketRows(fetching[s].got)) =>
          RowsAreStored(MarketRows(fetching[s].got))'
  BY DEF RowsAreStored
<1>8. QED
  BY <1>2, <1>4, <1>5, <1>6, <1>7 DEF FetchSeries

\* What was accounted for stays so, as more is stored and more settles.
LEMMA NothingIsForgotten ==
    ASSUME ListingsSound, TablesSound, ListingsSound', TablesSound',
           DOMAIN eventTable \subseteq DOMAIN eventTable',
           \A s \in EventSeries : Range(settledEvents[s]) \subseteq Range(settledEvents'[s])
    PROVE  \A s \in EventSeries :
               /\ Cardinality(StoredOf(s)) <= Cardinality(StoredOf(s)')
               /\ Cardinality(StoredOf(s)) \in Nat /\ Cardinality(StoredOf(s)') \in Nat
<1> SUFFICES ASSUME NEW s \in EventSeries
             PROVE  /\ Cardinality(StoredOf(s)) <= Cardinality(StoredOf(s)')
                    /\ Cardinality(StoredOf(s)) \in Nat /\ Cardinality(StoredOf(s)') \in Nat
  OBVIOUS
<1>1. settledEvents[s] \in Seq(KnownEvents) /\ settledEvents'[s] \in Seq(KnownEvents)
  BY DEF ListingsSound
<1>2. QED
  BY <1>1, StoredStays DEF TablesSound

LEMMA SettlingKeeps ==
    ASSUME EventsInv, EventSettles
    PROVE  EventsInv'
<1> USE DEF EventsInv
<1>1. PICK later \in SettledLater :
          /\ ~ Contains(settledEvents[later[1]], later[2])
          /\ settledEvents' = [settledEvents EXCEPT ![later[1]] = <<later[2]>> \o @]
  BY DEF EventSettles
<1> DEFINE x == later[1]
           e == later[2]
<1>2. x \in EventSeries /\ e \in KnownEvents /\ None \notin KnownEvents
  BY EventStudyAssumption
<1>3. /\ UNCHANGED <<alive, started, stateOf, eventTable, marketTable, statusLog, wanted, fetching, failing,
                     torn, owed, honoured>>
  BY DEF EventSettles, run, studyTables, runState, eventGhosts
<1>4. settledEvents[x] \in Seq(KnownEvents) /\ Once(settledEvents[x]) /\ e \notin Range(settledEvents[x])
  <2>1. settledEvents[x] \in Seq(KnownEvents) /\ Once(settledEvents[x])
    BY <1>2 DEF ListingsSound
  <2>2. DOMAIN settledEvents[x] = 1 .. Len(settledEvents[x])
    BY <2>1, LenProperties
  <2>3. QED
    BY <1>1, <2>1, <2>2 DEF Contains, Range
<1> HIDE DEF x, e
<1>5. /\ settledEvents'[x] = <<e>> \o settledEvents[x]
      /\ settledEvents'[x] \in Seq(KnownEvents) /\ Once(settledEvents'[x])
      /\ Range(settledEvents'[x]) = Range(settledEvents[x]) \cup {e}
      /\ \A after \in Range(settledEvents[x]) :
             Remaining(settledEvents'[x], after) = Remaining(settledEvents[x], after)
  <2>1. settledEvents'[x] = <<e>> \o settledEvents[x]
    BY <1>1, <1>2 DEF ListingsSound, x, e
  <2>2. QED
    BY <1>2, <1>4, <2>1, OneSettles
<1>6. \A s \in EventSeries : s # x => settledEvents'[s] = settledEvents[s]
  BY <1>1 DEF ListingsSound, x
<1>7. ListingsSound'
  <2>1. DOMAIN settledEvents' = EventSeries /\ settledEvents' = [s \in EventSeries |-> settledEvents'[s]]
    BY <1>1 DEF ListingsSound
  <2>2. \A s \in EventSeries : settledEvents'[s] \in Seq(KnownEvents) /\ Once(settledEvents'[s])
    BY <1>5, <1>6 DEF ListingsSound
  <2>3. QED
    BY <2>1, <2>2 DEF ListingsSound
<1>8. TablesSound'
  BY <1>3 DEF TablesSound
<1>9. \A s \in EventSeries : Range(settledEvents[s]) \subseteq Range(settledEvents'[s])
  BY <1>5, <1>6
<1>10. \A s \in EventSeries : owed[s] <= Cardinality(Range(settledEvents'[s]) \ Unparsed)
  <2> SUFFICES ASSUME NEW s \in EventSeries
               PROVE  owed[s] <= Cardinality(Range(settledEvents'[s]) \ Unparsed)
    OBVIOUS
  <2>1. IsFiniteSet(Range(settledEvents'[s]))
    BY <1>7, ElementsOf DEF ListingsSound
  <2>2. IsFiniteSet(Range(settledEvents'[s]) \ Unparsed)
    BY <2>1, FS_Difference
  <2>3. Range(settledEvents[s]) \ Unparsed \subseteq Range(settledEvents'[s]) \ Unparsed
    BY <1>9
  <2>4. /\ IsFiniteSet(Range(settledEvents[s]) \ Unparsed)
        /\ Cardinality(Range(settledEvents[s]) \ Unparsed) <= Cardinality(Range(settledEvents'[s]) \ Unparsed)
    BY <2>2, <2>3, FS_Subset
  <2>5. /\ Cardinality(Range(settledEvents[s]) \ Unparsed) \in Nat
        /\ Cardinality(Range(settledEvents'[s]) \ Unparsed) \in Nat
    BY <2>2, <2>4, FS_CardinalityType
  <2>6. owed[s] \in Nat /\ owed[s] <= Cardinality(Range(settledEvents[s]) \ Unparsed)
    BY DEF OwedSound
  <2>7. QED
    BY <2>4, <2>5, <2>6
<1>11. OwedSound'
  BY <1>3, <1>10 DEF OwedSound
<1>12. \A s \in EventSeries :
           /\ Cardinality(StoredOf(s)) <= Cardinality(StoredOf(s)')
           /\ Cardinality(StoredOf(s)) \in Nat /\ Cardinality(StoredOf(s)') \in Nat
  BY <1>3, <1>7, <1>8, <1>9, NothingIsForgotten
<1>13. \A s \in EventSeries : \A n \in Nat : n <= Cardinality(StoredOf(s)) => n <= Cardinality(StoredOf(s)')
  BY <1>12
<1>14. ASSUME NEW s \in InFlight, s \in EventSeries, fetching[s].cursor \in Range(settledEvents[s]) \cup {None},
              PagesSound(s)
       PROVE  PagesSound(s)'
  <2>1. CASE s # x
    BY <1>3, <1>6, <1>14, <2>1 DEF PagesSound
  <2>2. CASE s = x /\ fetching[s].cursor # None
    BY <1>3, <1>5, <1>14, <2>2 DEF PagesSound
  <2>3. CASE s = x /\ fetching[s].cursor = None
    <3>1. fetching[s].got = <<>>
      BY <1>14, <2>3 DEF PagesSound
    <3>2. Len(fetching[s].got) = 0 /\ EventsIn(fetching[s].got) = {}
      BY <3>1 DEF EventsIn
    <3>3. Remaining(settledEvents'[s], fetching[s].cursor) = settledEvents'[s]
      BY <1>2, <1>5, <2>3, WhatRemains
    <3>4. owed[s] <= 0 + Cardinality(Range(settledEvents'[s]) \ Unparsed)
      <4>1. IsFiniteSet(Range(settledEvents'[s]) \ Unparsed)
        BY <1>7, <1>14, ElementsOf, FS_Difference DEF ListingsSound
      <4>2. Cardinality(Range(settledEvents'[s]) \ Unparsed) \in Nat
        BY <4>1, FS_CardinalityType
      <4>3. owed[s] <= Cardinality(Range(settledEvents'[s]) \ Unparsed)
        BY <1>10, <1>14
      <4>4. QED
        BY <4>2, <4>3
    <3>5. QED
      BY <1>3, <2>3, <3>1, <3>2, <3>3, <3>4 DEF PagesSound
  <2>4. QED
    BY <2>1, <2>2, <2>3
<1>15. FetchesSound'
  <2>1. OneIsWritten' /\ InFlight' = InFlight /\ (~ alive => InFlight = {})'
    BY <1>3 DEF FetchesSound, OneIsWritten, InFlight
  <2>2. ASSUME NEW s \in InFlight PROVE FetchSeries(s)'
    <3>1. FetchSeries(s) /\ s \in EventSeries
      BY DEF FetchesSound, FetchSeries
    <3>2. PagesSound(s) => PagesSound(s)'
      BY <1>14, <3>1 DEF PagesSound
    <3>3. owed[s] \in Nat
      BY <3>1 DEF OwedSound
    <3>4. Range(settledEvents[s]) \subseteq Range(settledEvents'[s])
      BY <1>9, <3>1
    <3>5. RowsAreStored(MarketRows(fetching[s].got))' = RowsAreStored(MarketRows(fetching[s].got))
      BY <1>3 DEF RowsAreStored
    <3>6. QED
      BY <1>3, <1>13, <3>1, <3>2, <3>3, <3>4, <3>5 DEF FetchSeries
  <2>3. QED
    BY <2>1, <2>2 DEF FetchesSound
<1>16. Accounted'
  <2>1. InFlight' = InFlight
    BY <1>3 DEF InFlight
  <2>2. \A s \in EventSeries : owed[s] \in Nat
    BY DEF OwedSound
  <2>3. QED
    BY <1>3, <1>13, <2>1, <2>2 DEF Accounted
<1>17. EventsAreComplete'
  <2>1. BeingWritten' = BeingWritten
    BY <1>3, WrittenUnchanged DEF InFlight
  <2>2. SiblingsAreStored' = SiblingsAreStored
    BY <1>3, <2>1 DEF SiblingsAreStored
  <2>3. LogIsHistory' = LogIsHistory
    BY <1>3, <2>1 DEF LogIsHistory, LastLogged
  <2>4. NoSeriesFallsShort'
    BY <1>3, <1>13 DEF NoSeriesFallsShort, EventsAreComplete, OwedSound
  <2>5. QED
    BY <2>2, <2>3, <2>4 DEF EventsAreComplete
<1>18. QED
  BY <1>7, <1>8, <1>11, <1>15, <1>16, <1>17

LEMMA FinalisingKeeps ==
    ASSUME EventsInv, MarketFinalised
    PROVE  EventsInv'
<1> USE DEF EventsInv
<1>1. /\ UNCHANGED <<alive, started, settledEvents, eventTable, marketTable, statusLog, wanted, fetching, failing,
                     torn, owed, honoured>>
  BY DEF MarketFinalised, run, studyTables, runState, eventGhosts
<1>2. stateOf' \in [KnownMarkets -> States]
  BY DEF MarketFinalised, TablesSound, States
<1>3. ListingsSound' /\ TablesSound' /\ OwedSound'
  BY <1>1, <1>2 DEF ListingsSound, TablesSound, OwedSound
<1>4. InFlight' = InFlight /\ BeingWritten' = BeingWritten
  BY <1>1, WrittenUnchanged DEF InFlight
<1>5. \A s \in EventSeries : StoredOf(s)' = StoredOf(s)
  BY <1>1 DEF StoredOf
<1>6. FetchesSound'
  BY <1>1, <1>3, <1>4, OthersGoOn DEF FetchesSound, OneIsWritten, OwedSound
<1>7. Accounted'
  BY <1>1, <1>4, <1>5 DEF Accounted
<1>8. EventsAreComplete'
  BY <1>1, <1>4, <1>5 DEF EventsAreComplete, SiblingsAreStored, LogIsHistory, LastLogged, NoSeriesFallsShort
<1>9. QED
  BY <1>3, <1>6, <1>7, <1>8

\* A run owes a series no more than it has, and no more than is wanted.
LEMMA WhatIsOwed ==
    ASSUME NEW s \in Seq(KnownEvents), Once(s)
    PROVE  /\ Len(Newest(Parsed(s))) \in Nat /\ Len(Newest(Parsed(s))) <= EventsWanted
           /\ Len(Newest(Parsed(s))) <= Cardinality(Range(s) \ Unparsed)
<1>1. Parsed(s) \in Seq(KnownEvents) /\ Len(Parsed(s)) = Cardinality(Range(s) \ Unparsed)
  BY ParsedOnly
<1>2. Len(Newest(Parsed(s))) = IF EventsWanted <= Len(Parsed(s)) THEN EventsWanted ELSE Len(Parsed(s))
  BY <1>1, FirstWanted
<1>3. Len(Parsed(s)) \in Nat /\ EventsWanted \in Nat
  BY <1>1, LenProperties, EventStudyAssumption
<1>4. QED
  BY <1>1, <1>2, <1>3

LEMMA StartKeeps ==
    ASSUME EventsInv, StartEvents
    PROVE  EventsInv'
<1> USE DEF EventsInv
<1>1. /\ ~ alive /\ UNCHANGED <<settledEvents, stateOf, eventTable, marketTable, statusLog, torn, honoured>>
      /\ fetching' = <<>> /\ wanted' = {s \in EventSeries : Cardinality(StoredOf(s)) < EventsWanted}
      /\ owed' = [s \in EventSeries |-> Len(Newest(Parsed(settledEvents[s])))]
  BY DEF StartEvents, StartRun, exchangeVars, studyTables
<1>2. InFlight = {} /\ InFlight' = {}
  BY <1>1 DEF FetchesSound, InFlight
<1>3. BeingWritten = {} /\ BeingWritten' = {}
  BY <1>2 DEF BeingWritten, HalfWritten, At
<1>4. \A s \in EventSeries : StoredOf(s)' = StoredOf(s) /\ Cardinality(StoredOf(s)) \in Nat
  BY <1>1, StoredIs DEF StoredOf
<1>5. \A s \in EventSeries :
          /\ owed'[s] \in Nat /\ owed'[s] <= EventsWanted
          /\ owed'[s] <= Cardinality(Range(settledEvents'[s]) \ Unparsed)
  BY <1>1, WhatIsOwed DEF ListingsSound
<1>6. ListingsSound' /\ TablesSound' /\ OwedSound'
  <2>1. owed' \in [EventSeries -> Nat]
    BY <1>1, <1>5
  <2>2. QED
    BY <1>1, <1>5, <2>1 DEF ListingsSound, TablesSound, OwedSound
<1>7. FetchesSound'
  BY <1>2 DEF FetchesSound, OneIsWritten
<1>8. Accounted'
  <2> SUFFICES ASSUME NEW s \in EventSeries, s \notin wanted'
               PROVE  owed'[s] <= Cardinality(StoredOf(s)')
    BY DEF Accounted
  <2>1. ~ (Cardinality(StoredOf(s)) < EventsWanted)
    BY <1>1
  <2>2. EventsWanted \in Nat
    BY EventStudyAssumption
  <2>3. Cardinality(StoredOf(s)') = Cardinality(StoredOf(s)) /\ Cardinality(StoredOf(s)) \in Nat
    BY <1>4
  <2>4. owed'[s] \in Nat /\ owed'[s] <= EventsWanted
    BY <1>5
  <2>5. QED
    BY <2>1, <2>2, <2>3, <2>4
<1>9. EventsAreComplete'
  BY <1>1, <1>3, <1>4 DEF EventsAreComplete, SiblingsAreStored, LogIsHistory, LastLogged, NoSeriesFallsShort
<1>10. QED
  BY <1>6, <1>7, <1>8, <1>9

LEMMA EndKeeps ==
    ASSUME EventsInv, EventsEnd
    PROVE  EventsInv'
<1> USE DEF EventsInv
<1>1. /\ alive /\ alive' = FALSE /\ wanted = {} /\ InFlight = {}
      /\ honoured' = IF failing = {} THEN owed ELSE honoured
      /\ UNCHANGED <<settledEvents, stateOf, eventTable, marketTable, statusLog, wanted, fetching, failing, torn,
                     owed>>
  BY DEF EventsEnd, FinishRun, exchangeVars, studyTables, runState
<1>2. InFlight' = {} /\ BeingWritten' = BeingWritten
  BY <1>1, WrittenUnchanged DEF InFlight
<1>3. \A s \in EventSeries : StoredOf(s)' = StoredOf(s)
  BY <1>1 DEF StoredOf
<1>4. ListingsSound' /\ TablesSound' /\ OwedSound'
  BY <1>1 DEF ListingsSound, TablesSound, OwedSound
<1>5. FetchesSound'
  BY <1>2 DEF FetchesSound, OneIsWritten
<1>6. Accounted'
  BY <1>1 DEF Accounted
<1>7. NoSeriesFallsShort'
  <2>1. CASE failing = {}
    <3>1. \A s \in EventSeries : owed[s] <= Cardinality(StoredOf(s)) /\ honoured'[s] = owed[s]
      BY <1>1, <2>1 DEF Accounted
    <3>2. \A s \in EventSeries : owed[s] \in Nat /\ Cardinality(StoredOf(s)) \in Nat
      BY StoredIs DEF OwedSound
    <3>3. QED
      BY <1>3, <3>1, <3>2 DEF NoSeriesFallsShort
  <2>2. CASE failing # {}
    BY <1>1, <1>3, <2>2 DEF NoSeriesFallsShort, EventsAreComplete
  <2>3. QED
    BY <2>1, <2>2
<1>8. EventsAreComplete'
  BY <1>1, <1>2, <1>7 DEF EventsAreComplete, SiblingsAreStored, LogIsHistory, LastLogged
<1>9. QED
  BY <1>4, <1>5, <1>6, <1>8

LEMMA StopKeeps ==
    ASSUME EventsInv, EventsStop
    PROVE  EventsInv'
<1> USE DEF EventsInv
<1>1. /\ alive' = FALSE /\ fetching' = <<>> /\ torn' = torn \cup BeingWritten
      /\ UNCHANGED <<settledEvents, stateOf, eventTable, marketTable, statusLog, owed, honoured>>
  BY DEF EventsStop, FinishRun, Kill, exchangeVars, studyTables
<1>2. InFlight' = {}
  BY <1>1 DEF InFlight
<1>3. BeingWritten' = {}
  BY <1>2 DEF BeingWritten, HalfWritten, At
<1>4. \A s \in EventSeries : StoredOf(s)' = StoredOf(s)
  BY <1>1 DEF StoredOf
<1>5. ListingsSound' /\ TablesSound' /\ OwedSound'
  BY <1>1 DEF ListingsSound, TablesSound, OwedSound
<1>6. FetchesSound' /\ Accounted'
  BY <1>1, <1>2 DEF FetchesSound, OneIsWritten, Accounted
<1>7. torn' \cup BeingWritten' = torn \cup BeingWritten
  BY <1>1, <1>3
<1>8. SiblingsAreStored' /\ LogIsHistory'
  BY <1>1, <1>7 DEF EventsAreComplete, SiblingsAreStored, LogIsHistory, LastLogged
<1>9. NoSeriesFallsShort'
  BY <1>1, <1>4 DEF EventsAreComplete, NoSeriesFallsShort
<1>10. QED
  BY <1>5, <1>6, <1>8, <1>9 DEF EventsAreComplete

\* While every series is at its pages, nothing is being written.
LEMMA NothingIsWritten ==
    /\ (\A s \in InFlight : fetching[s].at \in {"pages", "events"}) => BeingWritten = {}
    /\ (\A s \in InFlight' : fetching'[s].at \in {"pages", "events"}) => BeingWritten' = {}
<1>1. ASSUME \A s \in InFlight : fetching[s].at \in {"pages", "events"}
      PROVE  BeingWritten = {}
  <2>1. \A s \in EventSeries : ~ At(s, "markets") /\ ~ At(s, "log")
    BY <1>1 DEF At
  <2>2. QED
    BY <2>1 DEF BeingWritten, HalfWritten
<1>2. ASSUME \A s \in InFlight' : fetching'[s].at \in {"pages", "events"}
      PROVE  BeingWritten' = {}
  <2>1. \A s \in EventSeries : ~ At(s, "markets")' /\ ~ At(s, "log")'
    BY <1>2 DEF At
  <2>2. QED
    BY <2>1 DEF BeingWritten, HalfWritten
<1>3. QED
  BY <1>1, <1>2

LEMMA BeginKeeps ==
    ASSUME EventsInv, NEW s \in EventSeries, BeginSeries(s)
    PROVE  EventsInv'
<1> USE DEF EventsInv
<1> DEFINE begun == [at |-> "pages", cursor |-> None, got |-> <<>>]
<1>1. /\ alive /\ s \in wanted /\ NobodyWrites
      /\ wanted' = wanted \ {s} /\ fetching' = Over([t \in {s} |-> begun], fetching)
      /\ UNCHANGED <<alive, settledEvents, stateOf, eventTable, marketTable, statusLog, failing, torn, owed,
                     honoured>>
  BY DEF BeginSeries, run, exchangeVars, studyTables, eventGhosts
<1>2. /\ InFlight' = InFlight \cup {s} /\ fetching'[s] = begun
      /\ \A t \in InFlight : t # s => fetching'[t] = fetching[t]
  BY <1>1 DEF InFlight, Over
<1>3. \A t \in InFlight : fetching[t].at = "pages"
  BY <1>1 DEF NobodyWrites, At
<1>4. \A t \in InFlight' : fetching'[t].at = "pages"
  BY <1>2, <1>3
<1>5. BeingWritten = {} /\ BeingWritten' = {}
  BY <1>3, <1>4, NothingIsWritten
<1>6. \A t \in EventSeries : StoredOf(t)' = StoredOf(t)
  BY <1>1 DEF StoredOf
<1>7. ListingsSound' /\ TablesSound' /\ OwedSound'
  BY <1>1 DEF ListingsSound, TablesSound, OwedSound
<1>8. FetchSeries(s)'
  <2>1. settledEvents[s] \in Seq(KnownEvents) /\ Once(settledEvents[s]) /\ None \notin KnownEvents
    BY EventStudyAssumption DEF ListingsSound
  <2>2. Remaining(settledEvents[s], None) = settledEvents[s]
    BY <2>1, WhatRemains
  <2>3. <<>> \in Seq(EventRow) /\ Len(<<>>) = 0 /\ EventsIn(<<>>) = {} /\ OnceEach(<<>>)
    BY DEF EventsIn, OnceEach
  <2>4. IsFiniteSet(Range(settledEvents[s]) \ Unparsed)
    BY <2>1, ElementsOf, FS_Difference
  <2>5. owed[s] <= 0 + Cardinality(Range(settledEvents[s]) \ Unparsed)
    <3>1. Cardinality(Range(settledEvents[s]) \ Unparsed) \in Nat
      BY <2>4, FS_CardinalityType
    <3>2. QED
      BY <3>1 DEF OwedSound
  <2>6. /\ fetching'[s].at = "pages" /\ fetching'[s].cursor = None /\ fetching'[s].got = <<>>
        /\ fetching'[s] = [at |-> fetching'[s].at, cursor |-> fetching'[s].cursor, got |-> fetching'[s].got]
    BY <1>2
  <2> HIDE DEF begun
  <2>7. PagesSound(s)'
    BY <1>1, <2>2, <2>3, <2>5, <2>6 DEF PagesSound
  <2>8. QED
    BY <1>1, <2>3, <2>6, <2>7 DEF FetchSeries
<1>9. FetchesSound'
  <2>1. \A t \in InFlight : t # s => FetchSeries(t)'
    BY <1>1, <1>2, <1>7, OthersGoOn DEF FetchesSound, OwedSound
  <2>2. \A t \in InFlight' : FetchSeries(t)'
    BY <1>2, <1>8, <2>1
  <2>3. OneIsWritten'
    BY <1>4 DEF OneIsWritten
  <2>4. QED
    BY <1>1, <2>2, <2>3 DEF FetchesSound
<1>10. Accounted'
  <2>1. \A t : t \in wanted \cup failing \cup InFlight => t \in (wanted \cup failing \cup InFlight)'
    BY <1>1, <1>2
  <2>2. QED
    BY <1>1, <1>6, <2>1 DEF Accounted
<1>11. EventsAreComplete'
  BY <1>1, <1>5, <1>6 DEF EventsAreComplete, SiblingsAreStored, LogIsHistory, LastLogged, NoSeriesFallsShort
<1>12. QED
  BY <1>7, <1>9, <1>10, <1>11

LEMMA FailingKeeps ==
    ASSUME EventsInv, NEW s \in EventSeries, SeriesFails(s)
    PROVE  EventsInv'
<1> USE DEF EventsInv
<1>1. /\ alive /\ NobodyWrites
      /\ failing' = failing \cup {s} /\ fetching' = Restrict(fetching, InFlight \ {s})
      /\ UNCHANGED <<alive, settledEvents, stateOf, eventTable, marketTable, statusLog, wanted, torn, owed,
                     honoured>>
  BY DEF SeriesFails, run, exchangeVars, studyTables, eventGhosts
<1>2. InFlight' = InFlight \ {s} /\ \A t \in InFlight' : fetching'[t] = fetching[t]
  BY <1>1 DEF InFlight, Restrict
<1>3. \A t \in InFlight : fetching[t].at = "pages"
  BY <1>1 DEF NobodyWrites, At
<1>4. \A t \in InFlight' : fetching'[t].at = "pages"
  BY <1>2, <1>3
<1>5. BeingWritten = {} /\ BeingWritten' = {}
  BY <1>3, <1>4, NothingIsWritten
<1>6. \A t \in EventSeries : StoredOf(t)' = StoredOf(t)
  BY <1>1 DEF StoredOf
<1>7. ListingsSound' /\ TablesSound' /\ OwedSound'
  BY <1>1 DEF ListingsSound, TablesSound, OwedSound
<1>8. FetchesSound'
  <2>1. \A t \in InFlight' : FetchSeries(t)'
    BY <1>1, <1>2, <1>7, OthersGoOn DEF FetchesSound, OwedSound
  <2>2. OneIsWritten'
    BY <1>4 DEF OneIsWritten
  <2>3. QED
    BY <1>1, <2>1, <2>2 DEF FetchesSound
<1>9. Accounted'
  <2>1. \A t : t \in wanted \cup failing \cup InFlight => t \in (wanted \cup failing \cup InFlight)'
    BY <1>1, <1>2
  <2>2. QED
    BY <1>1, <1>6, <2>1 DEF Accounted
<1>10. EventsAreComplete'
  BY <1>1, <1>5, <1>6 DEF EventsAreComplete, SiblingsAreStored, LogIsHistory, LastLogged, NoSeriesFallsShort
<1>11. QED
  BY <1>7, <1>8, <1>9, <1>10

\* After a page, a series that goes on has before it what it still needs, and one that stops has enough.
LEMMA PageKeepsSound ==
    ASSUME ListingsSound, TablesSound, OwedSound, NEW s \in InFlight, FetchSeries(s), At(s, "pages"),
           NEW page, page = PageOf(settledEvents[s], fetching[s].cursor, EventsWanted),
           NEW new, new = [i \in DOMAIN Parsed(page.items) |-> Normalised(Parsed(page.items)[i])],
           NEW grown, grown = Newest(fetching[s].got \o new)
    PROVE  /\ grown \in Seq(EventRow) /\ OnceEach(grown) /\ EventsIn(grown) \subseteq Range(settledEvents[s])
           /\ ~ Enough(fetching[s].got, page) =>
                  /\ page.next \in Range(settledEvents[s]) /\ page.next # None
                  /\ EventsIn(grown) \cap Range(Remaining(settledEvents[s], page.next)) = {}
                  /\ owed[s] <= Len(grown)
                                + Cardinality(Range(Remaining(settledEvents[s], page.next)) \ Unparsed)
           /\ Enough(fetching[s].got, page) => owed[s] <= Len(grown)
<1> DEFINE listed == settledEvents[s]
           got == fetching[s].got
           rest == Remaining(listed, fetching[s].cursor)
           items == page.items
           n == Len(Parsed(items))
<1>1. /\ s \in EventSeries /\ listed \in Seq(KnownEvents) /\ Once(listed) /\ None \notin KnownEvents
      /\ EventsWanted \in Nat \ {0}
  BY EventStudyAssumption DEF FetchSeries, ListingsSound
<1>2. /\ got \in Seq(EventRow) /\ OnceEach(got) /\ EventsIn(got) \subseteq Range(listed)
      /\ fetching[s].cursor \in Range(listed) \cup {None}
      /\ EventsIn(got) \cap Range(rest) = {} /\ owed[s] <= Len(got) + Cardinality(Range(rest) \ Unparsed)
  BY DEF FetchSeries, At, PagesSound
<1> HIDE DEF listed, got, rest, items
<1>3. /\ items \in Seq(KnownEvents) /\ Once(items)
      /\ Range(items) \subseteq Range(rest) /\ Range(rest) \subseteq Range(listed)
      /\ page.next = None => Range(rest) = Range(items)
      /\ page.next # None =>
             /\ page.next \in Range(listed)
             /\ Range(Remaining(listed, page.next)) = Range(rest) \ Range(items)
  BY <1>1, <1>2, OnePage DEF listed, items, rest
<1>4. EventsIn(got) \cap Range(items) = {}
  BY <1>2, <1>3
<1>5. /\ grown \in Seq(EventRow) /\ OnceEach(grown)
      /\ EventsIn(grown) \subseteq EventsIn(got) \cup Range(items)
      /\ n = Cardinality(Range(items) \ Unparsed) /\ n \in Nat
      /\ Len(grown) = IF EventsWanted <= Len(got) + n THEN EventsWanted ELSE Len(got) + n
  <2>1. stateOf \in [KnownMarkets -> States]
    BY DEF TablesSound
  <2>2. /\ Newest(got \o new) \in Seq(EventRow) /\ OnceEach(Newest(got \o new))
        /\ EventsIn(Newest(got \o new)) \subseteq EventsIn(got) \cup Range(items)
        /\ n = Cardinality(Range(items) \ Unparsed) /\ n \in Nat
        /\ Len(Newest(got \o new)) = IF EventsWanted <= Len(got) + n THEN EventsWanted ELSE Len(got) + n
    <3>1. new = [i \in DOMAIN Parsed(items) |-> Normalised(Parsed(items)[i])]
      BY DEF items
    <3>2. QED
      BY <1>2, <1>3, <1>4, <2>1, <3>1, PageIsAdded
  <2>3. grown = Newest(got \o new)
    BY DEF got
  <2>4. QED
    BY <2>2, <2>3
<1>6. owed[s] \in Nat /\ owed[s] <= EventsWanted /\ Len(got) \in Nat
  BY <1>1, <1>2, LenProperties DEF OwedSound
<1>7. Enough(got, page) <=> Len(got) + n >= EventsWanted \/ page.next = None
  BY DEF Enough, items
<1> HIDE DEF n
<1>8. IsFiniteSet(Range(rest) \ Unparsed) /\ Cardinality(Range(rest) \ Unparsed) \in Nat
  <2>1. IsFiniteSet(Range(listed))
    BY <1>1, ElementsOf
  <2>2. IsFiniteSet(Range(rest))
    BY <1>3, <2>1, FS_Subset
  <2>3. QED
    BY <2>2, FS_Difference, FS_CardinalityType
<1>9. ASSUME page.next # None
      PROVE  /\ Cardinality(Range(Remaining(listed, page.next)) \ Unparsed) \in Nat
             /\ Cardinality(Range(rest) \ Unparsed)
                    = n + Cardinality(Range(Remaining(listed, page.next)) \ Unparsed)
  <2> DEFINE a == Range(items) \ Unparsed
             b == Range(Remaining(listed, page.next)) \ Unparsed
  <2>1. a \cup b = Range(rest) \ Unparsed /\ a \cap b = {}
    BY <1>3, <1>9
  <2>2. IsFiniteSet(a) /\ IsFiniteSet(b)
    BY <1>8, <2>1, FS_Subset
  <2>3. Cardinality(a \cup b) = Cardinality(a) + Cardinality(b)
    <3> HIDE DEF a, b
    <3>1. Cardinality(a \cup b) = Cardinality(a) + Cardinality(b) - Cardinality(a \cap b)
      BY <2>2, FS_Union
    <3>2. Cardinality(a \cap b) = 0
      BY <2>1, FS_EmptySet
    <3>3. Cardinality(a) \in Nat /\ Cardinality(b) \in Nat
      BY <2>2, FS_CardinalityType
    <3>4. QED
      BY <3>1, <3>2, <3>3
  <2>4. Cardinality(b) \in Nat
    BY <2>2, FS_CardinalityType
  <2>5. QED
    BY <1>5, <2>1, <2>3, <2>4
<1>10. ASSUME ~ Enough(got, page)
       PROVE  /\ page.next \in Range(listed) /\ page.next # None
              /\ EventsIn(grown) \cap Range(Remaining(listed, page.next)) = {}
              /\ owed[s] <= Len(grown) + Cardinality(Range(Remaining(listed, page.next)) \ Unparsed)
  <2>1. page.next # None /\ ~ (Len(got) + n >= EventsWanted)
    BY <1>7, <1>10
  <2>2. Len(grown) = Len(got) + n
    BY <1>1, <1>5, <1>6, <2>1
  <2>3. EventsIn(grown) \cap Range(Remaining(listed, page.next)) = {}
    BY <1>2, <1>3, <1>5, <2>1
  <2>4. owed[s] <= Len(grown) + Cardinality(Range(Remaining(listed, page.next)) \ Unparsed)
    <3>1. \A o, l, k, c, d \in Nat : o <= l + c /\ c = k + d => o <= l + k + d
      OBVIOUS
    <3>2. QED
      BY <1>2, <1>5, <1>6, <1>8, <1>9, <2>1, <2>2, <3>1
  <2>5. QED
    BY <1>3, <2>1, <2>3, <2>4
<1>11. ASSUME Enough(got, page) PROVE owed[s] <= Len(grown)
  <2>1. CASE Len(got) + n >= EventsWanted
    BY <1>1, <1>5, <1>6, <2>1
  <2>2. CASE page.next = None
    <3>1. Cardinality(Range(rest) \ Unparsed) = n
      BY <1>3, <1>5, <2>2
    <3>2. \A o, l, k, w, g \in Nat :
              o <= l + k /\ o <= w /\ g = (IF w <= l + k THEN w ELSE l + k) => o <= g
      OBVIOUS
    <3>3. Len(grown) \in Nat
      BY <1>5, LenProperties
    <3>4. QED
      BY <1>1, <1>2, <1>5, <1>6, <3>1, <3>2, <3>3
  <2>3. QED
    BY <1>7, <1>11, <2>1, <2>2
<1>12. EventsIn(grown) \subseteq Range(listed)
  BY <1>2, <1>3, <1>5
<1>13. QED
  BY <1>5, <1>10, <1>11, <1>12 DEF listed, got

LEMMA FetchKeeps ==
    ASSUME EventsInv, NEW s \in EventSeries, FetchEvents(s)
    PROVE  EventsInv'
<1> USE DEF EventsInv
<1> DEFINE page == PageOf(settledEvents[s], fetching[s].cursor, EventsWanted)
           new == [i \in DOMAIN Parsed(page.items) |-> Normalised(Parsed(page.items)[i])]
           grown == Newest(fetching[s].got \o new)
           stage == IF Enough(fetching[s].got, page) THEN "events" ELSE "pages"
<1>1. /\ alive /\ NobodyWrites /\ At(s, "pages")
      /\ fetching' = [fetching EXCEPT ![s] = [at |-> stage, cursor |-> page.next, got |-> grown]]
      /\ UNCHANGED <<alive, settledEvents, stateOf, eventTable, marketTable, statusLog, wanted, failing, torn,
                     owed, honoured>>
  BY DEF FetchEvents, run, exchangeVars, studyTables, eventGhosts
<1>2. s \in InFlight /\ FetchSeries(s)
  BY <1>1 DEF At, FetchesSound
<1>3. /\ grown \in Seq(EventRow) /\ OnceEach(grown) /\ EventsIn(grown) \subseteq Range(settledEvents[s])
      /\ ~ Enough(fetching[s].got, page) =>
             /\ page.next \in Range(settledEvents[s]) /\ page.next # None
             /\ EventsIn(grown) \cap Range(Remaining(settledEvents[s], page.next)) = {}
             /\ owed[s] <= Len(grown) + Cardinality(Range(Remaining(settledEvents[s], page.next)) \ Unparsed)
      /\ Enough(fetching[s].got, page) => owed[s] <= Len(grown)
  BY <1>1, <1>2, PageKeepsSound
<1> HIDE DEF page, new, grown
<1>4. /\ InFlight' = InFlight
      /\ fetching'[s].at = stage /\ fetching'[s].cursor = page.next /\ fetching'[s].got = grown
      /\ fetching'[s] = [at |-> fetching'[s].at, cursor |-> fetching'[s].cursor, got |-> fetching'[s].got]
      /\ \A t \in InFlight : t # s => fetching'[t] = fetching[t]
  BY <1>1, <1>2 DEF InFlight
<1>5. \A t \in InFlight : fetching[t].at = "pages"
  BY <1>1 DEF NobodyWrites, At
<1>6. /\ \A t \in InFlight' : t # s => fetching'[t].at = "pages"
      /\ \A t \in InFlight' : fetching'[t].at \in {"pages", "events"}
  BY <1>4, <1>5
<1>7. BeingWritten = {} /\ BeingWritten' = {}
  BY <1>5, <1>6, NothingIsWritten
<1>8. \A t \in EventSeries : StoredOf(t)' = StoredOf(t)
  BY <1>1 DEF StoredOf
<1>9. ListingsSound' /\ TablesSound' /\ OwedSound'
  BY <1>1 DEF ListingsSound, TablesSound, OwedSound
<1>10. FetchSeries(s)'
  <2>1. CASE Enough(fetching[s].got, page)
    <3>1. fetching'[s].at = "events"
      BY <1>4, <2>1
    <3>2. QED
      BY <1>1, <1>3, <1>4, <2>1, <3>1 DEF FetchSeries
  <2>2. CASE ~ Enough(fetching[s].got, page)
    <3>1. fetching'[s].at = "pages"
      BY <1>4, <2>2
    <3>2. PagesSound(s)'
      BY <1>1, <1>3, <1>4, <2>2 DEF PagesSound
    <3>3. QED
      BY <1>1, <1>3, <1>4, <3>1, <3>2 DEF FetchSeries
  <2>3. QED
    BY <2>1, <2>2
<1>11. FetchesSound'
  <2>1. \A t \in InFlight : t # s => FetchSeries(t)'
    BY <1>1, <1>4, <1>9, OthersGoOn DEF FetchesSound, OwedSound
  <2>2. \A t \in InFlight' : FetchSeries(t)'
    BY <1>4, <1>10, <2>1
  <2>3. OneIsWritten'
    BY <1>6 DEF OneIsWritten
  <2>4. QED
    BY <1>1, <2>2, <2>3 DEF FetchesSound
<1>12. Accounted'
  BY <1>1, <1>4, <1>8 DEF Accounted
<1>13. EventsAreComplete'
  BY <1>1, <1>7, <1>8 DEF EventsAreComplete, SiblingsAreStored, LogIsHistory, LastLogged, NoSeriesFallsShort
<1>14. QED
  BY <1>9, <1>11, <1>12, <1>13

\* A series at a stage of its writing is the only one there.
LEMMA OnlyItIsWritten ==
    ASSUME FetchesSound, NEW s \in InFlight, ~ At(s, "pages")
    PROVE  /\ \A t \in InFlight : t # s => fetching[t].at = "pages"
           /\ BeingWritten = HalfWritten(s)
<1>1. \A t \in InFlight : t # s => fetching[t].at = "pages"
  BY DEF FetchesSound, OneIsWritten, At
<1>2. \A t \in EventSeries : t # s => HalfWritten(t) = {}
  BY <1>1 DEF HalfWritten, At
<1>3. s \in EventSeries
  BY DEF FetchesSound, FetchSeries
<1>4. QED
  BY <1>1, <1>2, <1>3 DEF BeingWritten

LEMMA OnlyItWillBeWritten ==
    ASSUME NEW s \in EventSeries, \A t \in InFlight' : t # s => fetching'[t].at = "pages"
    PROVE  BeingWritten' = HalfWritten(s)'
<1>1. \A t \in EventSeries : t # s => HalfWritten(t)' = {}
  BY DEF HalfWritten, At
<1>2. QED
  BY <1>1 DEF BeingWritten

LEMMA AtNextStage ==
    ASSUME NEW s \in DOMAIN fetching, NEW stage,
           fetching[s] = [at |-> fetching[s].at, cursor |-> fetching[s].cursor, got |-> fetching[s].got],
           fetching' = [fetching EXCEPT ![s].at = stage]
    PROVE  fetching'[s] = [at |-> stage, cursor |-> fetching[s].cursor, got |-> fetching[s].got]
<1>1. fetching'[s] = [fetching[s] EXCEPT !.at = stage]
  OBVIOUS
<1>2. \A a, b, c : [[at |-> a, cursor |-> b, got |-> c] EXCEPT !.at = stage]
                        = [at |-> stage, cursor |-> b, got |-> c]
  OBVIOUS
<1>3. QED
  BY <1>1, <1>2

LEMMA StoringEventsKeeps ==
    ASSUME EventsInv, NEW s \in EventSeries, StoreEvents(s)
    PROVE  EventsInv'
<1> USE DEF EventsInv
<1> DEFINE got == fetching[s].got
<1>1. /\ alive /\ s \in InFlight /\ fetching[s].at = "events"
      /\ eventTable' = Upserted(EventsIn(got)) /\ fetching' = [fetching EXCEPT ![s].at = "markets"]
      /\ UNCHANGED <<alive, settledEvents, stateOf, marketTable, statusLog, wanted, failing, torn, owed, honoured>>
  BY DEF StoreEvents, At, run, exchangeVars, eventGhosts
<1>2. /\ got \in Seq(EventRow) /\ OnceEach(got) /\ EventsIn(got) \subseteq Range(settledEvents[s])
      /\ owed[s] <= Len(got) /\ FetchSeries(s)
  BY <1>1 DEF FetchesSound, FetchSeries
<1>3. /\ InFlight' = InFlight
      /\ \A t \in InFlight : t # s => fetching'[t] = fetching[t]
  BY <1>1 DEF InFlight
<1>4. DOMAIN eventTable' = EventsIn(got) \cup DOMAIN eventTable
  BY <1>1 DEF Upserted, Over
<1>5. /\ EventsIn(got) \subseteq KnownEvents /\ IsFiniteSet(EventsIn(got))
      /\ Cardinality(EventsIn(got)) = Len(got) /\ Len(got) \in Nat
  BY <1>2, EventsOfGot
<1>6. ListingsSound' /\ TablesSound' /\ OwedSound'
  <2>1. IsFiniteSet(DOMAIN eventTable')
    BY <1>4, <1>5, FS_Union DEF TablesSound
  <2>2. QED
    BY <1>1, <1>4, <1>5, <2>1 DEF ListingsSound, TablesSound, OwedSound
<1>7. \A t \in EventSeries :
          /\ Cardinality(StoredOf(t)) <= Cardinality(StoredOf(t)')
          /\ Cardinality(StoredOf(t)) \in Nat /\ Cardinality(StoredOf(t)') \in Nat
  BY <1>1, <1>4, <1>6, NothingIsForgotten
<1>8. \A t \in EventSeries : \A n \in Nat : n <= Cardinality(StoredOf(t)) => n <= Cardinality(StoredOf(t)')
  BY <1>7
<1>9. \A t \in InFlight : t # s => fetching[t].at = "pages" /\ fetching'[t].at = "pages"
  BY <1>1, <1>3, OnlyItIsWritten DEF At
<1>10. /\ fetching'[s].at = "markets" /\ fetching'[s].got = got
       /\ fetching'[s] = [at |-> "markets", cursor |-> fetching'[s].cursor, got |-> fetching'[s].got]
  <2>1. fetching'[s] = [at |-> "markets", cursor |-> fetching[s].cursor, got |-> fetching[s].got]
    BY <1>1, <1>2, AtNextStage DEF FetchSeries, InFlight
  <2>2. QED
    BY <2>1
<1> HIDE DEF got
<1>11. BeingWritten = {} /\ BeingWritten' = EventsIn(got)
  <2>1. BeingWritten = {}
    BY <1>1, <1>9, NothingIsWritten
  <2>2. BeingWritten' = HalfWritten(s)'
    BY <1>3, <1>9, OnlyItWillBeWritten
  <2>3. HalfWritten(s)' = EventsIn(got)
    BY <1>1, <1>3, <1>10 DEF HalfWritten, At
  <2>4. QED
    BY <2>1, <2>2, <2>3
<1>12. owed[s] <= Cardinality(StoredOf(s)')
  <2>1. DOMAIN settledEvents'[s] = 1 .. Len(settledEvents'[s])
    BY <1>6, LenProperties DEF ListingsSound
  <2>2. EventsIn(got) \subseteq StoredOf(s)'
    BY <1>1, <1>2, <1>4, <2>1 DEF StoredOf, Contains, Range
  <2>3. IsFiniteSet(StoredOf(s)')
    <3>1. StoredOf(s)' \subseteq DOMAIN eventTable'
      BY DEF StoredOf
    <3>2. QED
      BY <1>6, <3>1, FS_Subset DEF TablesSound
  <2>4. Cardinality(EventsIn(got)) <= Cardinality(StoredOf(s)')
    BY <2>2, <2>3, FS_Subset
  <2>5. owed[s] \in Nat /\ Cardinality(StoredOf(s)') \in Nat
    BY <1>7 DEF OwedSound
  <2>6. QED
    BY <1>2, <1>5, <2>4, <2>5
<1>13. FetchesSound'
  <2>1. FetchSeries(s)'
    BY <1>1, <1>2, <1>10, <1>12 DEF FetchSeries
  <2>2. \A t \in InFlight : t # s => FetchSeries(t)'
    BY <1>1, <1>3, <1>4, <1>6, OthersGoOn DEF FetchesSound, OwedSound
  <2>3. \A t \in InFlight' : FetchSeries(t)'
    BY <1>3, <2>1, <2>2
  <2>4. OneIsWritten'
    BY <1>3, <1>9 DEF OneIsWritten
  <2>5. QED
    BY <1>1, <2>3, <2>4 DEF FetchesSound
<1>14. Accounted'
  <2>1. \A t \in EventSeries : owed[t] \in Nat
    BY DEF OwedSound
  <2>2. QED
    BY <1>1, <1>3, <1>8, <2>1 DEF Accounted
<1>15. SiblingsAreStored'
  BY <1>1, <1>4, <1>11 DEF EventsAreComplete, SiblingsAreStored
<1>16. LogIsHistory'
  BY <1>1, <1>11 DEF EventsAreComplete, LogIsHistory, LastLogged
<1>17. NoSeriesFallsShort'
  BY <1>1, <1>8 DEF EventsAreComplete, NoSeriesFallsShort, OwedSound
<1>18. QED
  BY <1>6, <1>13, <1>14, <1>15, <1>16, <1>17 DEF EventsAreComplete

LEMMA StoringMarketsKeeps ==
    ASSUME EventsInv, NEW s \in EventSeries, StoreMarkets(s)
    PROVE  EventsInv'
<1> USE DEF EventsInv
<1> DEFINE got == fetching[s].got
           rows == MarketRows(got)
<1>1. /\ alive /\ s \in InFlight /\ fetching[s].at = "markets"
      /\ marketTable' = Over(rows, marketTable) /\ torn' = torn \ EventsIn(got)
      /\ fetching' = [fetching EXCEPT ![s].at = "log"]
      /\ UNCHANGED <<alive, settledEvents, stateOf, eventTable, statusLog, wanted, failing, owed, honoured>>
  BY DEF StoreMarkets, At, run, exchangeVars
<1>2. /\ got \in Seq(EventRow) /\ OnceEach(got) /\ EventsIn(got) \subseteq Range(settledEvents[s])
      /\ owed[s] <= Cardinality(StoredOf(s)) /\ FetchSeries(s)
  BY <1>1 DEF FetchesSound, FetchSeries
<1>3. /\ InFlight' = InFlight
      /\ \A t \in InFlight : t # s => fetching'[t] = fetching[t]
  BY <1>1 DEF InFlight
<1>4. /\ fetching'[s].at = "log" /\ fetching'[s].got = got
      /\ fetching'[s] = [at |-> "log", cursor |-> fetching'[s].cursor, got |-> fetching'[s].got]
  <2>1. fetching'[s] = [at |-> "log", cursor |-> fetching[s].cursor, got |-> fetching[s].got]
    BY <1>1, <1>2, AtNextStage DEF FetchSeries, InFlight
  <2>2. QED
    BY <2>1
<1>5. /\ \A m \in DOMAIN rows : m \in KnownMarkets /\ rows[m] \in States
      /\ \A e \in EventsIn(got) : SiblingsOf[e] \cap Unreadable = {} => SiblingsOf[e] \subseteq DOMAIN rows
      /\ EventsIn(got) \subseteq KnownEvents
  BY <1>2, MarketsOfGot, EventsOfGot
<1>6. \A t \in InFlight : t # s => fetching[t].at = "pages" /\ fetching'[t].at = "pages"
  BY <1>1, <1>3, OnlyItIsWritten DEF At
<1>7. BeingWritten = EventsIn(got)
  <2>1. BeingWritten = HalfWritten(s)
    BY <1>1, OnlyItIsWritten DEF At
  <2>2. HalfWritten(s) = EventsIn(got)
    BY <1>1 DEF HalfWritten, At
  <2>3. QED
    BY <2>1, <2>2
<1> HIDE DEF got
<1>8. BeingWritten' = DOMAIN rows
  <2>1. BeingWritten' = HalfWritten(s)'
    BY <1>3, <1>6, OnlyItWillBeWritten
  <2>2. ~ At(s, "markets")' /\ At(s, "log")'
    BY <1>1, <1>3, <1>4 DEF At
  <2>3. HalfWritten(s)' = DOMAIN rows
    BY <1>4, <2>2 DEF HalfWritten
  <2>4. QED
    BY <2>1, <2>3
<1> HIDE DEF rows
<1>9. /\ DOMAIN marketTable' = DOMAIN rows \cup DOMAIN marketTable
      /\ \A m \in DOMAIN rows : marketTable'[m] = rows[m]
      /\ \A m \in DOMAIN marketTable \ DOMAIN rows : marketTable'[m] = marketTable[m]
  BY <1>1 DEF Over
<1>10. ListingsSound' /\ TablesSound' /\ OwedSound'
  BY <1>1, <1>5, <1>9 DEF ListingsSound, TablesSound, OwedSound
<1>11. \A t \in EventSeries : StoredOf(t)' = StoredOf(t)
  BY <1>1 DEF StoredOf
<1>12. FetchesSound'
  <2>1. FetchSeries(s)'
    <3>1. RowsAreStored(MarketRows(fetching[s].got))'
      BY <1>4, <1>9 DEF RowsAreStored, rows
    <3>2. QED
      BY <1>1, <1>2, <1>4, <1>11, <3>1 DEF FetchSeries
  <2>2. \A t \in InFlight : t # s => FetchSeries(t)'
    BY <1>1, <1>3, <1>6, <1>10, OthersGoOn DEF FetchesSound, OwedSound
  <2>3. \A t \in InFlight' : FetchSeries(t)'
    BY <1>3, <2>1, <2>2
  <2>4. OneIsWritten'
    BY <1>3, <1>6 DEF OneIsWritten
  <2>5. QED
    BY <1>1, <2>3, <2>4 DEF FetchesSound
<1>13. Accounted'
  BY <1>1, <1>3, <1>11 DEF Accounted
<1>14. SiblingsAreStored'
  <2> SUFFICES ASSUME NEW e \in DOMAIN eventTable, e \notin torn' \cup BeingWritten',
                      SiblingsOf[e] \cap Unreadable = {}
               PROVE  SiblingsOf[e] \subseteq DOMAIN marketTable'
    BY <1>1 DEF SiblingsAreStored
  <2>1. CASE e \in EventsIn(got)
    BY <1>5, <1>9, <2>1
  <2>2. CASE e \notin EventsIn(got)
    <3>1. e \notin torn \cup BeingWritten
      BY <1>1, <1>7, <2>2
    <3>2. SiblingsOf[e] \subseteq DOMAIN marketTable
      BY <3>1 DEF EventsAreComplete, SiblingsAreStored
    <3>3. QED
      BY <1>9, <3>2
  <2>3. QED
    BY <2>1, <2>2
<1>15. LogIsHistory'
  <2> SUFFICES ASSUME NEW m \in DOMAIN marketTable'
               PROVE  /\ \A i \in 2 .. Len(statusLog[m]) : statusLog[m][i] # statusLog[m][i - 1]
                      /\ m \notin torn' \cup BeingWritten' => marketTable'[m] = LastLogged(m)
    BY <1>1 DEF LogIsHistory, LastLogged
  <2>1. m \in KnownMarkets
    BY <1>10 DEF TablesSound
  <2>2. \A i \in 2 .. Len(statusLog[m]) : statusLog[m][i] # statusLog[m][i - 1]
    BY <2>1 DEF TablesSound
  <2>3. ASSUME m \notin torn' \cup BeingWritten' PROVE marketTable'[m] = LastLogged(m)
    <3>1. m \notin EventsIn(got)
      BY <1>5, <2>1, EventStudyAssumption
    <3>2. m \notin torn \cup BeingWritten
      BY <1>1, <1>7, <2>3, <3>1
    <3>3. m \in DOMAIN marketTable \ DOMAIN rows
      BY <1>8, <1>9, <2>3
    <3>4. QED
      BY <1>9, <3>2, <3>3 DEF EventsAreComplete, LogIsHistory
  <2>4. QED
    BY <2>2, <2>3
<1>16. NoSeriesFallsShort'
  BY <1>1, <1>11 DEF EventsAreComplete, NoSeriesFallsShort
<1>17. QED
  BY <1>10, <1>12, <1>13, <1>14, <1>15, <1>16 DEF EventsAreComplete

\* What is logged of a market ends with the state given, and says no state twice running.
LEMMA LogGrows ==
    ASSUME TablesSound, NEW m \in KnownMarkets, NEW rows,
           m \in DOMAIN rows => rows[m] \in States
    PROVE  /\ Logged(rows, m) \in Seq(States)
           /\ \A i \in 2 .. Len(Logged(rows, m)) : Logged(rows, m)[i] # Logged(rows, m)[i - 1]
           /\ m \in DOMAIN rows =>
                  rows[m] = IF Logged(rows, m) = <<>> THEN None ELSE Last(Logged(rows, m))
           /\ m \notin DOMAIN rows => Logged(rows, m) = statusLog[m]
<1> DEFINE log == statusLog[m]
           x == rows[m]
<1>1. /\ log \in Seq(States) /\ \A i \in 2 .. Len(log) : log[i] # log[i - 1]
  BY DEF TablesSound
<1> HIDE DEF log
<1>2. CASE ~ (m \in DOMAIN rows /\ x # LastLogged(m))
  <2>1. Logged(rows, m) = log
    BY <1>2 DEF Logged, log
  <2>2. m \in DOMAIN rows => x = IF log = <<>> THEN None ELSE Last(log)
    BY <1>2 DEF LastLogged, log
  <2>3. QED
    BY <1>1, <2>1, <2>2 DEF log
<1>3. CASE m \in DOMAIN rows /\ x # LastLogged(m)
  <2> DEFINE longer == Append(log, x)
  <2>1. Logged(rows, m) = longer /\ x \in States
    BY <1>3 DEF Logged, log
  <2> HIDE DEF x
  <2>2. /\ longer \in Seq(States) /\ Len(longer) = Len(log) + 1 /\ longer[Len(log) + 1] = x
        /\ \A i \in 1 .. Len(log) : longer[i] = log[i]
    BY <1>1, <2>1, AppendProperties
  <2>3. Len(log) \in Nat
    BY <1>1, LenProperties
  <2> HIDE DEF longer
  <2>4. longer # <<>> /\ Last(longer) = x
    BY <2>2, <2>3 DEF Last
  <2>5. ASSUME NEW i \in 2 .. Len(longer) PROVE longer[i] # longer[i - 1]
    <3>1. CASE i \in 2 .. Len(log)
      BY <1>1, <2>2, <2>3, <3>1
    <3>2. CASE i = Len(log) + 1
      <4>1. Len(log) \in 1 .. Len(log) /\ i - 1 = Len(log) /\ log # <<>>
        BY <2>2, <2>3, <2>5, <3>2
      <4>2. longer[i - 1] = log[Len(log)] /\ longer[i] = x
        BY <2>2, <3>2, <4>1
      <4>3. x # Last(log)
        BY <1>3, <4>1 DEF LastLogged, log, x
      <4>4. QED
        BY <4>2, <4>3 DEF Last
    <3>3. QED
      BY <2>2, <2>3, <2>5, <3>1, <3>2
  <2>6. QED
    BY <1>3, <2>1, <2>2, <2>4, <2>5 DEF x
<1>4. QED
  BY <1>2, <1>3

LEMMA LoggingKeeps ==
    ASSUME EventsInv, NEW s \in EventSeries, LogStatus(s)
    PROVE  EventsInv'
<1> USE DEF EventsInv
<1> DEFINE got == fetching[s].got
           rows == MarketRows(got)
<1>1. /\ alive /\ s \in InFlight /\ fetching[s].at = "log"
      /\ statusLog' = [m \in DOMAIN statusLog |-> Logged(rows, m)] /\ torn' = torn \ DOMAIN rows
      /\ fetching' = Restrict(fetching, InFlight \ {s})
      /\ UNCHANGED <<alive, settledEvents, stateOf, eventTable, marketTable, wanted, failing, owed, honoured>>
  BY DEF LogStatus, At, run, exchangeVars
<1>2. /\ got \in Seq(EventRow) /\ owed[s] <= Cardinality(StoredOf(s)) /\ RowsAreStored(rows)
  BY <1>1 DEF FetchesSound, FetchSeries
<1>3. InFlight' = InFlight \ {s} /\ \A t \in InFlight' : fetching'[t] = fetching[t]
  BY <1>1 DEF InFlight, Restrict
<1>4. \A m \in DOMAIN rows : m \in KnownMarkets /\ rows[m] \in States
  BY <1>2, MarketsOfGot
<1>5. BeingWritten = DOMAIN rows
  <2>1. BeingWritten = HalfWritten(s)
    BY <1>1, OnlyItIsWritten DEF At
  <2>2. ~ At(s, "markets") /\ At(s, "log")
    BY <1>1 DEF At
  <2>3. HalfWritten(s) = DOMAIN rows
    BY <2>2 DEF HalfWritten
  <2>4. QED
    BY <2>1, <2>3
<1> HIDE DEF got, rows
<1>6. \A t \in InFlight' : fetching'[t].at = "pages"
  BY <1>1, <1>3, OnlyItIsWritten DEF At
<1>7. BeingWritten' = {}
  BY <1>6, NothingIsWritten
<1>8. DOMAIN statusLog = KnownMarkets /\ \A m \in KnownMarkets : statusLog'[m] = Logged(rows, m)
  BY <1>1 DEF TablesSound
<1>9. \A m \in KnownMarkets :
          /\ statusLog'[m] \in Seq(States)
          /\ \A i \in 2 .. Len(statusLog'[m]) : statusLog'[m][i] # statusLog'[m][i - 1]
          /\ m \in DOMAIN rows => rows[m] = LastLogged(m)'
          /\ m \notin DOMAIN rows => statusLog'[m] = statusLog[m]
  BY <1>4, <1>8, LogGrows DEF LastLogged
<1>10. ListingsSound' /\ TablesSound' /\ OwedSound'
  <2>1. statusLog' \in [KnownMarkets -> Seq(States)]
    BY <1>1, <1>8, <1>9
  <2>2. QED
    BY <1>1, <1>9, <2>1 DEF ListingsSound, TablesSound, OwedSound
<1>11. \A t \in EventSeries : StoredOf(t)' = StoredOf(t)
  BY <1>1 DEF StoredOf
<1>12. FetchesSound'
  <2>1. \A t \in InFlight' : FetchSeries(t)'
    BY <1>1, <1>3, <1>10, OthersGoOn DEF FetchesSound, OwedSound
  <2>2. OneIsWritten'
    BY <1>6 DEF OneIsWritten
  <2>3. QED
    BY <1>1, <2>1, <2>2 DEF FetchesSound
<1>13. Accounted'
  BY <1>1, <1>2, <1>3, <1>11 DEF Accounted
<1>14. SiblingsAreStored'
  <2> SUFFICES ASSUME NEW e \in DOMAIN eventTable, e \notin torn' \cup BeingWritten',
                      SiblingsOf[e] \cap Unreadable = {}
               PROVE  SiblingsOf[e] \subseteq DOMAIN marketTable
    BY <1>1 DEF SiblingsAreStored
  <2>1. e \notin DOMAIN rows
    BY <1>4, EventStudyAssumption DEF TablesSound
  <2>2. e \notin torn \cup BeingWritten
    BY <1>1, <1>5, <2>1
  <2>3. QED
    BY <2>2 DEF EventsAreComplete, SiblingsAreStored
<1>15. LogIsHistory'
  <2> SUFFICES ASSUME NEW m \in DOMAIN marketTable
               PROVE  /\ \A i \in 2 .. Len(statusLog'[m]) : statusLog'[m][i] # statusLog'[m][i - 1]
                      /\ m \notin torn' \cup BeingWritten' => marketTable[m] = LastLogged(m)'
    BY <1>1 DEF LogIsHistory
  <2>1. m \in KnownMarkets
    BY DEF TablesSound
  <2>2. CASE m \in DOMAIN rows
    BY <1>2, <1>9, <2>1, <2>2 DEF RowsAreStored
  <2>3. CASE m \notin DOMAIN rows
    <3>1. LastLogged(m)' = LastLogged(m)
      BY <1>9, <2>1, <2>3 DEF LastLogged
    <3>2. m \notin torn' \cup BeingWritten' => m \notin torn \cup BeingWritten
      BY <1>1, <1>5, <2>3
    <3>3. QED
      BY <1>9, <2>1, <3>1, <3>2 DEF EventsAreComplete, LogIsHistory
  <2>4. QED
    BY <2>2, <2>3
<1>16. NoSeriesFallsShort'
  BY <1>1, <1>11 DEF EventsAreComplete, NoSeriesFallsShort
<1>17. QED
  BY <1>10, <1>12, <1>13, <1>14, <1>15, <1>16 DEF EventsAreComplete

LEMMA NothingCollected == EventsInit => EventsInv
<1> SUFFICES ASSUME EventsInit PROVE EventsInv
  OBVIOUS
<1>1. /\ settledEvents = SettledAtFirst /\ stateOf = [m \in KnownMarkets |-> "determined"]
      /\ eventTable = <<>> /\ marketTable = <<>> /\ statusLog = [m \in KnownMarkets |-> <<>>]
      /\ wanted = {} /\ fetching = <<>> /\ failing = {} /\ torn = {}
      /\ owed = [s \in EventSeries |-> 0] /\ honoured = owed /\ alive = FALSE
  BY DEF EventsInit, RunInit
<1>2. ListingsSound
  BY <1>1, EventStudyAssumption DEF ListingsSound, Once
<1>3. DOMAIN eventTable = {} /\ DOMAIN marketTable = {} /\ InFlight = {}
  BY <1>1 DEF InFlight
<1>4. TablesSound
  <2>1. IsFiniteSet(DOMAIN eventTable)
    BY <1>3, FS_EmptySet
  <2>2. <<>> \in Seq(States) /\ Len(<<>>) = 0
    OBVIOUS
  <2>3. stateOf \in [KnownMarkets -> States] /\ statusLog \in [KnownMarkets -> Seq(States)]
    BY <1>1, <2>2 DEF States
  <2>4. \A m \in KnownMarkets : 2 .. Len(statusLog[m]) = {}
    BY <1>1, <2>2
  <2>5. QED
    BY <1>3, <2>1, <2>3, <2>4 DEF TablesSound
<1>5. OwedSound
  <2>1. ASSUME NEW s \in EventSeries PROVE 0 <= Cardinality(Range(settledEvents[s]) \ Unparsed)
    <3>1. IsFiniteSet(Range(settledEvents[s]) \ Unparsed)
      BY <1>2, ElementsOf, FS_Difference DEF ListingsSound
    <3>2. QED
      BY <3>1, FS_CardinalityType
  <2>2. EventsWanted \in Nat
    BY EventStudyAssumption
  <2>3. QED
    BY <1>1, <2>1, <2>2 DEF OwedSound
<1>6. FetchesSound /\ Accounted
  BY <1>1, <1>3 DEF FetchesSound, OneIsWritten, Accounted
<1>7. EventsAreComplete
  BY <1>1, <1>3 DEF EventsAreComplete, SiblingsAreStored, LogIsHistory, NoSeriesFallsShort
<1>8. QED
  BY <1>2, <1>4, <1>5, <1>6, <1>7 DEF EventsInv

LEMMA SeriesStepKeeps ==
    ASSUME EventsInv, NEW s \in EventSeries, SeriesStep(s)
    PROVE  EventsInv'
BY BeginKeeps, FetchKeeps, StoringEventsKeeps, StoringMarketsKeeps, LoggingKeeps, FailingKeeps DEF SeriesStep

\* The collected events are complete, whatever fails, settles or stops the runs: every stored event whose
\* writing no stop parted has all of its sibling markets, the log of a market's states is their history, and
\* a run that gets through leaves no series short.
THEOREM EventsStayComplete ==
    CollectionSpec => []EventsAreComplete
<1> DEFINE Inv == IF collecting = "events" THEN EventsInv ELSE EventsAreComplete
<1>1. CollectionInit => Inv
  BY NothingCollected DEF CollectionInit, EventsInv
<1>2. Inv /\ [CollectionNext]_collectionVars => Inv'
  <2> SUFFICES ASSUME Inv, [CollectionNext]_collectionVars PROVE Inv'
    OBVIOUS
  <2>1. CASE CollectionNext /\ collecting = "events"
    <3>1. EventsNext /\ collecting' = collecting
      BY <2>1 DEF CollectionNext
    <3>2. EventsInv
      BY <2>1
    <3>3. EventsInv'
      BY <3>1, <3>2, SettlingKeeps, FinalisingKeeps, StartKeeps, EndKeeps, StopKeeps, SeriesStepKeeps
         DEF EventsNext
    <3>4. QED
      BY <2>1, <3>1, <3>3
  <2>2. CASE CollectionNext /\ collecting # "events"
    <3>1. collecting' = collecting /\ UNCHANGED eventVars
      BY <2>2 DEF CollectionNext
    <3>2. EventsAreComplete' = EventsAreComplete
      BY <3>1, WrittenUnchanged
         DEF eventVars, exchangeVars, studyTables, runState, eventGhosts, EventsAreComplete, SiblingsAreStored,
             LogIsHistory, LastLogged, NoSeriesFallsShort, StoredOf
    <3>3. QED
      BY <2>2, <3>1, <3>2
  <2>3. CASE UNCHANGED collectionVars
    <3>1. /\ UNCHANGED <<collecting, alive, settledEvents, stateOf, eventTable, marketTable, statusLog, wanted,
                         fetching, failing, torn, owed, honoured>>
      BY <2>3 DEF collectionVars, run, eventVars, exchangeVars, studyTables, runState, eventGhosts
    <3>2. BeingWritten' = BeingWritten /\ InFlight' = InFlight
      BY <3>1, WrittenUnchanged DEF InFlight
    <3>3. \A s \in EventSeries : StoredOf(s)' = StoredOf(s)
      BY <3>1 DEF StoredOf
    <3>4. EventsAreComplete' = EventsAreComplete
      BY <3>1, <3>2, <3>3
         DEF EventsAreComplete, SiblingsAreStored, LogIsHistory, LastLogged, NoSeriesFallsShort
    <3>5. ASSUME EventsInv PROVE EventsInv'
      <4>1. ListingsSound' /\ TablesSound' /\ OwedSound'
        BY <3>1, <3>5 DEF EventsInv, ListingsSound, TablesSound, OwedSound
      <4>2. FetchesSound'
        BY <3>1, <3>2, <3>5, <4>1, OthersGoOn DEF EventsInv, FetchesSound, OneIsWritten, OwedSound
      <4>3. Accounted'
        BY <3>1, <3>2, <3>3, <3>5 DEF EventsInv, Accounted
      <4>4. QED
        BY <3>4, <3>5, <4>1, <4>2, <4>3 DEF EventsInv
    <3>6. QED
      BY <3>1, <3>4, <3>5
  <2>4. QED
    BY <2>1, <2>2, <2>3
<1>3. Inv => EventsAreComplete
  BY DEF EventsInv
<1>4. QED
  <2> HIDE DEF Inv
  <2>1. QED
    BY <1>1, <1>2, <1>3, PTL DEF CollectionSpec
=============================================================================
