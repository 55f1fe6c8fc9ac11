---------------------------- MODULE LiveFeedProofs ----------------------------
(***************************************************************************)
(* Theorems about the book stream processor and its two consumers, for any *)
(* markets, subscriptions, prices and bounds.  The live feed and the       *)
(* WebSocket recorder drive the processor only in the ways BookStream      *)
(* allows, so its theorems carry over; with them, what the strategy is     *)
(* told and what is confirmed to it is exact, and so is what a replay      *)
(* makes of what was recorded.                                             *)
(***************************************************************************)
EXTENDS LiveFeed, WsRecorder, TLAPS, WellFoundedInduction, SequenceTheorems

----------------------------------------------------------------------------
(* The processor. *)

\* Every market has one subscription, and a batch holds only its own markets.
LEMMA SidOfIsHome ==
    /\ \A t \in Ticker : SidOf(t) \in Sid
    /\ \A s \in Sid : \A i \in DOMAIN Batch[s] :
           Batch[s][i] \in Ticker /\ SidOf(Batch[s][i]) = s
<1>1. \A t \in Ticker :
          SidOf(t) \in Sid /\ \E i \in DOMAIN Batch[SidOf(t)] : Batch[SidOf(t)][i] = t
  BY BookStreamAssumption DEF SidOf
<1>2. ASSUME NEW s \in Sid, NEW i \in DOMAIN Batch[s]
      PROVE  Batch[s][i] \in Ticker /\ SidOf(Batch[s][i]) = s
  <2>1. Batch[s][i] \in Ticker
    BY BookStreamAssumption
  <2>2. PICK j \in DOMAIN Batch[SidOf(Batch[s][i])] :
            Batch[SidOf(Batch[s][i])][j] = Batch[s][i]
    BY <1>1, <2>1
  <2>3. QED
    BY <1>1, <2>1, <2>2, BookStreamAssumption
<1>3. QED
  BY <1>1, <1>2

\* A snapshot of a book is accepted and reproduces the book
\* (OrderBook._validated, apply_snapshot).
LEMMA SnapshotRoundTrip ==
    ASSUME NEW book \in Book
    PROVE  /\ ListingOf(book) \in Listing
           /\ SnapshotOK(ListingOf(book))
           /\ FromListing(ListingOf(book)) = book
<1>1. Cell \subseteq AnyCell
  BY DEF Cell, AnyCell, Price
<1>2. \A c \in AnyCell :
          /\ c \in Cell /\ book[c] > 0 => ListingOf(book)[c] = <<book[c]>>
          /\ ~(c \in Cell /\ book[c] > 0) => ListingOf(book)[c] = <<>>
  BY DEF ListingOf
<1>3. \A c \in Cell : book[c] \in Nat
  BY DEF Book
<1>4. ListingOf(book) \in Listing
  BY <1>3 DEF Listing, ListingOf
<1>5. SnapshotOK(ListingOf(book))
  <2>1. SUFFICES ASSUME NEW c \in AnyCell, ListingOf(book)[c] # <<>>
                 PROVE  /\ CheckPrice(c[2])
                        /\ Len(ListingOf(book)[c]) = 1
                        /\ ListingOf(book)[c][1] >= 0
    BY DEF SnapshotOK
  <2>2. c \in Cell /\ ListingOf(book)[c] = <<book[c]>>
    BY <1>2, <2>1
  <2>3. CheckPrice(c[2])
    BY <2>2 DEF Cell, Price
  <2>4. QED
    BY <1>3, <2>2, <2>3
<1>6. FromListing(ListingOf(book)) = book
  <2>1. \A c \in Cell :
            (IF ListingOf(book)[c] = <<>> THEN 0 ELSE ListingOf(book)[c][1]) = book[c]
    <3>1. TAKE c \in Cell
    <3>2. CASE book[c] > 0
      <4>1. ListingOf(book)[c] = <<book[c]>>
        BY <1>1, <1>2, <3>2
      <4>2. <<book[c]>> # <<>> /\ <<book[c]>>[1] = book[c]
        OBVIOUS
      <4>3. QED
        BY <4>1, <4>2
    <3>3. CASE book[c] = 0
      <4>1. ListingOf(book)[c] = <<>>
        <5>1. c \in AnyCell /\ ~(book[c] > 0)
          BY <1>1, <3>3
        <5>2. QED
          BY <1>2, <5>1
      <4>2. QED
        BY <3>3, <4>1
    <3>4. QED
      BY <1>3, <3>2, <3>3
  <2>2. FromListing(ListingOf(book)) = [c \in Cell |-> book[c]]
    BY <2>1 DEF FromListing
  <2>3. QED
    BY <2>2 DEF Book
<1>7. QED
  BY <1>4, <1>5, <1>6

\* An accepted listing makes a book, and so does an accepted change.
LEMMA AcceptedMakesBook ==
    /\ \A listing \in Listing : SnapshotOK(listing) => FromListing(listing) \in Book
    /\ \A book \in Book, c \in AnyCell, d \in Int :
           DeltaOK(book, c, d) => c \in Cell /\ WithDelta(book, c, d) \in Book
<1>1. Cell \subseteq AnyCell
  BY DEF Cell, AnyCell, Price
<1>2. ASSUME NEW listing \in Listing, SnapshotOK(listing)
      PROVE  FromListing(listing) \in Book
  <2>1. \A c \in Cell :
            (IF listing[c] = <<>> THEN 0 ELSE listing[c][1]) \in Nat
    <3>1. TAKE c \in Cell
    <3>2. CASE listing[c] = <<>>
      BY <3>2
    <3>3. CASE listing[c] # <<>>
      <4>1. listing[c] \in Seq(Int) /\ Len(listing[c]) = 1 /\ listing[c][1] >= 0
        BY <1>1, <1>2, <3>3 DEF Listing, SnapshotOK
      <4>2. listing[c][1] \in Int
        BY <4>1
      <4>3. QED
        BY <3>3, <4>1, <4>2
    <3>4. QED
      BY <3>2, <3>3
  <2>2. QED
    BY <2>1 DEF FromListing, Book
<1>3. ASSUME NEW book \in Book, NEW c \in AnyCell, NEW d \in Int,
             DeltaOK(book, c, d)
      PROVE  c \in Cell /\ WithDelta(book, c, d) \in Book
  <2>1. c \in Cell
    BY <1>3 DEF DeltaOK, AnyCell, Cell, Price
  <2>2. book[c] \in Nat /\ book[c] + d \in Nat
    BY <1>3, <2>1 DEF DeltaOK, Book
  <2>3. QED
    BY <2>1, <2>2 DEF WithDelta, Book
<1>4. QED
  BY <1>2, <1>3

----------------------------------------------------------------------------
(* Types of what is published and of what arrives. *)

LEMMA FrameTypes ==
    ASSUME TypeOK, NEW s \in Sid, NEW n \in 1 .. Len(pub[s])
    PROVE  /\ epoch > 0 => FrameAt(s, n) \in Frame
           /\ epoch > 0 => \A f \in Damaged(s, n) : f \in Frame
           /\ epoch > 0 => WithoutEnvelope(FrameAt(s, n)) \in Frame
           /\ pub[s][n] \in Published
<1>1. pub[s][n] \in Published
  BY DEF TypeOK
<1>2. /\ pub[s][n].kind \in {"snapshot", "delta"}
      /\ pub[s][n].ticker \in Ticker
      /\ pub[s][n].cell \in Cell
      /\ pub[s][n].delta \in Int
      /\ pub[s][n].after \in [Ticker -> Book]
  BY <1>1 DEF Published
<1>3. pub[s][n].after[pub[s][n].ticker] \in Book
  BY <1>2
<1>4. ListingOf(pub[s][n].after[pub[s][n].ticker]) \in Listing
  BY <1>3, SnapshotRoundTrip
<1>5. Cell \subseteq AnyCell
  BY DEF Cell, AnyCell, Price
<1>6. ASSUME epoch > 0 PROVE FrameAt(s, n) \in Frame
  <2>1. epoch \in Epoch /\ n \in Nat
    BY <1>6 DEF TypeOK, Epoch
  <2>2. QED
    BY <1>2, <1>4, <1>5, <2>1 DEF FrameAt, Frame
<1>7. ASSUME epoch > 0 PROVE WithoutEnvelope(FrameAt(s, n)) \in Frame
  BY <1>6, <1>7 DEF WithoutEnvelope, Frame
<1>8. ASSUME epoch > 0, NEW f \in Damaged(s, n) PROVE f \in Frame
  <2> DEFINE g == FrameAt(s, n)
  <2>1. g \in Frame
    BY <1>6, <1>8
  <2>2. CASE g.kind = "snapshot"
    <3>1. PICK c \in AnyCell : f = [g EXCEPT !.listing = [g.listing EXCEPT ![c] = Spoiled(c)]]
      BY <1>8, <2>2 DEF Damaged
    <3>2. Spoiled(c) \in Seq(Int)
      <4>1. <<1>> \in Seq(Int) /\ <<1, 1>> \in Seq(Int)
        OBVIOUS
      <4>2. QED
        BY <4>1 DEF Spoiled
    <3>3. [g.listing EXCEPT ![c] = Spoiled(c)] \in Listing
      BY <2>1, <3>2 DEF Frame, Listing
    <3>4. QED
      BY <2>1, <3>1, <3>3 DEF Frame
  <2>3. CASE g.kind # "snapshot"
    <3>1. \/ \E c \in AnyCell \ Cell : f = [g EXCEPT !.cell = c]
          \/ f = [g EXCEPT !.delta = g.delta - pub[s][n].after[g.ticker][g.cell] - 1]
      BY <1>8, <2>3 DEF Damaged
    <3>2. g.delta - pub[s][n].after[g.ticker][g.cell] - 1 \in Int
      <4>1. /\ g.ticker = pub[s][n].ticker /\ g.cell = pub[s][n].cell
            /\ g.delta = pub[s][n].delta
        BY DEF FrameAt
      <4>2. pub[s][n].after[pub[s][n].ticker][pub[s][n].cell] \in Nat
        BY <1>2, <1>3 DEF Book
      <4>3. QED
        BY <1>2, <4>1, <4>2
    <3>3. QED
      BY <2>1, <3>1, <3>2 DEF Frame
  <2>4. QED
    BY <2>2, <2>3
<1>9. QED
  BY <1>1, <1>6, <1>7, <1>8

\* Processing keeps the processor's variables well typed.
LEMMA ProcessTypes ==
    ASSUME TypeOK, NEW f \in Frame, Process(f)
    PROVE  /\ books' \in [Ticker -> Book \cup {None}]
           /\ stream' \in [Ticker -> Key \cup {None}]
           /\ lastSeq' \in [Key -> Nat]
           /\ poisoned' \in SUBSET Key
           /\ stale' \in SUBSET Ticker
           /\ needsResync' \in BOOLEAN
<1> USE DEF TypeOK
<1>1. /\ f.ticker \in Ticker /\ f.seq \in Nat /\ f.listing \in Listing
      /\ f.cell \in AnyCell /\ f.delta \in Int
  BY DEF Frame
<1>2. HasEnvelope(f) => KeyOf(f) \in Key
  BY DEF Frame, HasEnvelope, KeyOf, Key
<1>3. CASE RejectNoEnvelope(f)
  BY <1>3 DEF RejectNoEnvelope
<1>4. CASE RejectSilently(f)
  BY <1>4 DEF RejectSilently, procVars
<1>5. CASE RejectGap(f)
  BY <1>2, <1>5 DEF RejectGap, SkipsAhead, Live
<1>6. InSequence(f) => KeyOf(f) \in Key
  BY <1>2 DEF InSequence, Live
<1>7. ASSUME Advance(f), InSequence(f)
      PROVE  /\ stream' \in [Ticker -> Key \cup {None}]
             /\ lastSeq' \in [Key -> Nat]
             /\ poisoned' \in SUBSET Key
  BY <1>1, <1>6, <1>7 DEF Advance
<1>8. CASE ApplySnapshot(f)
  <2>1. FromListing(f.listing) \in Book
    BY <1>1, <1>8, AcceptedMakesBook DEF ApplySnapshot
  <2>2. QED
    BY <1>1, <1>7, <1>8, <2>1 DEF ApplySnapshot
<1>9. CASE RejectSnapshot(f) \/ RejectDelta(f)
  BY <1>1, <1>7, <1>9 DEF RejectSnapshot, RejectDelta, MarkStale
<1>10. CASE RejectNoSnapshot(f)
  BY <1>7, <1>10 DEF RejectNoSnapshot
<1>11. CASE ApplyDelta(f)
  <2>1. books[f.ticker] \in Book
    BY <1>1, <1>11 DEF ApplyDelta, Patchable
  <2>2. WithDelta(books[f.ticker], f.cell, f.delta) \in Book
    BY <1>1, <1>11, <2>1, AcceptedMakesBook DEF ApplyDelta
  <2>3. books' \in [Ticker -> Book \cup {None}]
    BY <1>1, <1>11, <2>2 DEF ApplyDelta
  <2>4. QED
    BY <1>7, <1>11, <2>3 DEF ApplyDelta
<1>12. QED
  BY <1>3, <1>4, <1>5, <1>8, <1>9, <1>10, <1>11 DEF Process

----------------------------------------------------------------------------
(* The invariant IInv, one lemma per kind of step. *)

LEMMA InitIInv == Init => IInv
<1> SUFFICES ASSUME Init PROVE IInv
  OBVIOUS
<1>1. TypeOK
  <2>1. \A s \in Sid : pub[s] = <<>>
    BY DEF Init
  <2>2. pub \in [Sid -> Seq(Published)]
    BY DEF Init
  <2>3. 0 \in 0 .. MaxEpoch
    BY BookStreamAssumption
  <2>4. QED
    BY <2>2, <2>3 DEF Init, TypeOK
<1>2. KeptIsPrefix
  BY DEF Init, KeptIsPrefix
<1>3. HeardIsProcessed
  <2>1. \A s \in Sid : seen[s] = 0 /\ pub[s] = <<>> /\ epoch = 0
    BY DEF Init
  <2>2. \A s \in Sid : Len(pub[s]) = 0
    BY <2>1
  <2>3. QED
    BY <2>1, <2>2 DEF HeardIsProcessed
<1>4. PublishedIsCoherent
  <2>1. \A s \in Sid : Len(pub[s]) = 0
    BY DEF Init
  <2>2. QED
    BY <2>1 DEF Init, PublishedIsCoherent
<1>5. KnownKeys
  BY DEF Init, KnownKeys
<1>6. QED
  BY <1>1, <1>2, <1>3, <1>4, <1>5 DEF IInv

\* The exchange publishes a frame that continues its own story.
LEMMA PublishStep ==
    ASSUME IInv, epoch > 0, NEW s \in Sid, NEW p \in Published, Publish(s, p),
           SidOf(p.ticker) = s,
           Continues(Latest(s), p)
    PROVE  IInv'
<1> USE DEF IInv
<1>1. pub[s] \in Seq(Published) /\ Len(pub[s]) \in Nat \ {0}
  BY DEF TypeOK, PublishedIsCoherent
<1>2. /\ pub'[s] = Append(pub[s], p)
      /\ \A r \in Sid : r # s => pub'[r] = pub[r]
      /\ pub' \in [Sid -> Seq(Published)]
  BY <1>1 DEF Publish, TypeOK
<1>3. /\ Len(pub'[s]) = Len(pub[s]) + 1
      /\ \A n \in 1 .. Len(pub[s]) : pub'[s][n] = pub[s][n]
      /\ pub'[s][Len(pub[s]) + 1] = p
  BY <1>1, <1>2
<1>4. UNCHANGED <<epoch, seen, books, stream, lastSeq, poisoned, stale, needsResync>>
  BY DEF Publish, procVars
<1>5. \A r \in Sid : Len(pub[r]) <= Len(pub'[r]) /\ Len(pub[r]) \in Nat
                     /\ Len(pub'[r]) \in Nat
  <2>1. TAKE r \in Sid
  <2>2. CASE r = s
    BY <1>1, <1>3, <2>2
  <2>3. CASE r # s
    <3>1. pub'[r] = pub[r] /\ pub[r] \in Seq(Published)
      BY <1>2, <2>3 DEF TypeOK
    <3>2. QED
      BY <3>1
  <2>4. QED
    BY <2>2, <2>3
<1>6. \A r \in Sid : \A n \in 1 .. Len(pub[r]) : pub'[r][n] = pub[r][n]
  BY <1>2, <1>3
<1>7. TypeOK'
  BY <1>2, <1>4 DEF TypeOK
<1>8. KeptIsPrefix'
  <2>1. SUFFICES ASSUME NEW t \in Ticker, books[t] # None, t \notin stale
                 PROVE  /\ epoch > 0
                        /\ stream[t] = <<epoch, SidOf(t)>>
                        /\ lastSeq[<<epoch, SidOf(t)>>] \in 1 .. Len(pub'[SidOf(t)])
                        /\ books[t] = pub'[SidOf(t)][lastSeq[<<epoch, SidOf(t)>>]].after[t]
    BY <1>4 DEF KeptIsPrefix
  <2>2. SidOf(t) \in Sid
    BY SidOfIsHome
  <2>3. /\ stream[t] = <<epoch, SidOf(t)>>
        /\ lastSeq[<<epoch, SidOf(t)>>] \in 1 .. Len(pub[SidOf(t)])
        /\ books[t] = pub[SidOf(t)][lastSeq[<<epoch, SidOf(t)>>]].after[t]
    BY <2>1 DEF KeptIsPrefix
  <2>4. QED
    BY <1>5, <1>6, <2>2, <2>3
<1>9. HeardIsProcessed'
  <2>1. \A r \in Sid : seen[r] <= Len(pub'[r])
    <3>1. \A r \in Sid : seen[r] <= Len(pub[r]) /\ seen[r] \in Nat
      BY DEF HeardIsProcessed, TypeOK
    <3>2. QED
      BY <1>5, <3>1
  <2>2. QED
    BY <1>4, <2>1 DEF HeardIsProcessed
<1>10. PublishedIsCoherent'
  <2>1. SUFFICES ASSUME NEW r \in Sid
                 PROVE  /\ Len(pub'[r]) > 0
                        /\ \A n \in 1 .. Len(pub'[r]) : SidOf(pub'[r][n].ticker) = r
                        /\ \A n \in 2 .. Len(pub'[r]) :
                               Continues(pub'[r][n-1].after, pub'[r][n])
    BY <1>4 DEF PublishedIsCoherent, Continues
  <2>2. CASE r # s
    <3>1. pub'[r] = pub[r]
      BY <1>2, <2>2
    <3>2. QED
      BY <3>1 DEF PublishedIsCoherent
  <2>3. CASE r = s
    <3>1. \A n \in 1 .. Len(pub'[s]) : SidOf(pub'[s][n].ticker) = s
      <4>1. TAKE n \in 1 .. Len(pub'[s])
      <4>2. CASE n \in 1 .. Len(pub[s])
        BY <1>3, <4>2 DEF PublishedIsCoherent
      <4>3. CASE n = Len(pub[s]) + 1
        BY <1>3, <4>3
      <4>4. QED
        BY <1>1, <1>3, <4>2, <4>3
    <3>2. ASSUME NEW n \in 2 .. Len(pub'[s])
          PROVE  Continues(pub'[s][n-1].after, pub'[s][n])
      <4>1. n - 1 \in 1 .. Len(pub[s]) /\ pub'[s][n-1] = pub[s][n-1]
        BY <1>1, <1>3
      <4>2. CASE n \in 2 .. Len(pub[s])
        <5>1. pub'[s][n] = pub[s][n]
          BY <1>1, <1>3, <4>2
        <5>2. QED
          BY <4>1, <4>2, <5>1 DEF PublishedIsCoherent
      <4>3. CASE n = Len(pub[s]) + 1
        <5>1. pub'[s][n] = p /\ pub'[s][n-1].after = Latest(s)
          BY <1>1, <1>3, <4>1, <4>3 DEF Latest
        <5>2. QED
          BY <5>1
      <4>4. QED
        BY <1>1, <1>3, <4>2, <4>3
    <3>3. QED
      BY <1>1, <1>3, <2>3, <3>1, <3>2
  <2>4. QED
    BY <2>2, <2>3
<1>11. KnownKeys'
  BY <1>4 DEF KnownKeys
<1>12. QED
  BY <1>7, <1>8, <1>9, <1>10, <1>11

\* on_connected voids everything, and the opening of a connection is coherent.
LEMMA ConnectStep == ASSUME IInv, OnConnected PROVE IInv'
<1> USE DEF IInv
<1>1. PICK start \in [Ticker -> StartBook] :
          pub' = [s \in Sid |-> Opening(s, start)]
  BY DEF OnConnected
<1>2. start \in [Ticker -> Book]
  BY <1>1, BookStreamAssumption DEF StartBook, Book
<1>3. epoch \in Nat /\ epoch' = epoch + 1 /\ epoch' \in Epoch /\ epoch' \in 0 .. MaxEpoch
  BY BookStreamAssumption DEF OnConnected, TypeOK, Epoch
<1>4. SomeCell \in Cell
  <2>1. \E c \in Cell : TRUE
    <3>1. PICK p \in Price : TRUE
      BY BookStreamAssumption
    <3>2. <<"YES", p>> \in Cell
      BY <3>1 DEF Cell, Side
    <3>3. QED
      BY <3>2
  <2>2. QED
    BY <2>1 DEF SomeCell
<1>5. ASSUME NEW s \in Sid
      PROVE  /\ pub'[s] \in Seq(Published)
             /\ Len(pub'[s]) = Len(Batch[s])
             /\ Len(pub'[s]) \in Nat \ {0}
             /\ \A n \in 1 .. Len(pub'[s]) :
                    /\ pub'[s][n].kind = "snapshot"
                    /\ pub'[s][n].after = start
                    /\ SidOf(pub'[s][n].ticker) = s
  <2>1. pub'[s] = Opening(s, start)
    BY <1>1
  <2>2. Batch[s] \in Seq(Ticker) /\ Batch[s] # <<>>
    BY BookStreamAssumption
  <2>3. DOMAIN Batch[s] = 1 .. Len(Batch[s]) /\ Len(Batch[s]) \in Nat \ {0}
    BY <2>2
  <2> DEFINE Snap(i) == [kind |-> "snapshot", ticker |-> Batch[s][i],
                         cell |-> SomeCell, delta |-> 0, after |-> start]
  <2>4. Opening(s, start) = [i \in 1 .. Len(Batch[s]) |-> Snap(i)]
    BY <2>3 DEF Opening
  <2>5. \A i \in 1 .. Len(Batch[s]) : Snap(i) \in Published
    BY <1>2, <1>4, <2>2 DEF Published
  <2>6. Opening(s, start) \in Seq(Published) /\ Len(Opening(s, start)) = Len(Batch[s])
    <3> HIDE DEF Snap
    <3>1. QED
      BY <2>3, <2>4, <2>5
  <2>7. QED
    BY <2>1, <2>3, <2>4, <2>6, SidOfIsHome
<1>6. TypeOK'
  <2>1. pub' \in [Sid -> Seq(Published)]
    BY <1>1, <1>5
  <2>2. lastSeq' \in [Key -> Nat] /\ poisoned' \in SUBSET Key
    BY DEF OnConnected, TypeOK
  <2>3. QED
    BY <1>3, <2>1, <2>2 DEF OnConnected, TypeOK
<1>7. KeptIsPrefix'
  BY DEF OnConnected, KeptIsPrefix
<1>8. \A k \in Key : lastSeq'[k] = 0 /\ k \notin poisoned'
  <2>1. TAKE k \in Key
  <2>2. CASE k[1] = epoch'
    <3>1. lastSeq[k] = 0 /\ k \notin poisoned
      BY <1>3, <2>2 DEF KnownKeys
    <3>2. QED
      BY <2>2, <3>1 DEF OnConnected
  <2>3. CASE k[1] # epoch'
    BY <2>3 DEF OnConnected
  <2>4. QED
    BY <2>2, <2>3
<1>9. HeardIsProcessed'
  <2>1. \A s \in Sid : seen'[s] = 0
    BY DEF OnConnected
  <2>2. \A s \in Sid : <<epoch', s>> \in Key
    BY <1>3 DEF Key
  <2>3. QED
    <3>1. SUFFICES ASSUME NEW s \in Sid
                   PROVE  /\ seen'[s] <= Len(pub'[s])
                          /\ lastSeq'[<<epoch', s>>] <= seen'[s]
                          /\ seen'[s] = 0 /\ <<epoch', s>> \notin poisoned'
                          /\ lastSeq'[<<epoch', s>>] = seen'[s]
      BY DEF HeardIsProcessed
    <3>2. lastSeq'[<<epoch', s>>] = 0 /\ <<epoch', s>> \notin poisoned'
      BY <1>8, <2>2
    <3>3. seen'[s] = 0 /\ Len(pub'[s]) \in Nat
      BY <1>5, <2>1
    <3>4. QED
      BY <3>2, <3>3
<1>10. PublishedIsCoherent'
  <2>1. ASSUME NEW s \in Sid, NEW n \in 2 .. Len(pub'[s])
        PROVE  /\ pub'[s][n].kind = "snapshot"
               /\ pub'[s][n].after = pub'[s][n-1].after
    <3>1. n \in 1 .. Len(pub'[s]) /\ n - 1 \in 1 .. Len(pub'[s])
      BY <1>5
    <3>2. QED
      BY <1>5, <3>1
  <2>2. QED
    BY <1>3, <1>5, <2>1 DEF PublishedIsCoherent, Continues
<1>11. KnownKeys'
  BY <1>8 DEF KnownKeys
<1>12. QED
  BY <1>6, <1>7, <1>9, <1>10, <1>11

----------------------------------------------------------------------------
(* Frames with a number: what the wire can make of frame n of s. *)

FromWire(f, s, n) ==
    /\ f \in Frame
    /\ f.epoch = epoch /\ f.sid = s /\ f.seq = n
    /\ f.kind = pub[s][n].kind /\ f.ticker = pub[s][n].ticker

Truthful(f, s, n) ==
    /\ f.listing = ListingOf(pub[s][n].after[f.ticker])
    /\ f.cell = pub[s][n].cell /\ f.delta = pub[s][n].delta

\* Content that the processor can tell to be wrong.
Detectable(f, s, n) ==
    /\ f.kind = "snapshot" => ~SnapshotOK(f.listing)
    /\ f.kind = "delta" =>
           \/ ~CheckPrice(f.cell[2])
           \/ /\ f.cell = pub[s][n].cell
              /\ f.delta = pub[s][n].delta - pub[s][n].after[f.ticker][f.cell] - 1

LEMMA IntactIsTruthful ==
    ASSUME TypeOK, epoch > 0, NEW s \in Sid, NEW n \in 1 .. Len(pub[s])
    PROVE  FromWire(FrameAt(s, n), s, n) /\ Truthful(FrameAt(s, n), s, n)
<1>1. FrameAt(s, n) \in Frame
  BY FrameTypes
<1>2. QED
  BY <1>1 DEF FrameAt, FromWire, Truthful

LEMMA DamageIsDetectable ==
    ASSUME TypeOK, epoch > 0, NEW s \in Sid, NEW n \in 1 .. Len(pub[s]),
           NEW f \in Damaged(s, n)
    PROVE  FromWire(f, s, n) /\ Detectable(f, s, n)
<1> DEFINE g == FrameAt(s, n)
<1>1. g \in Frame /\ f \in Frame
  BY FrameTypes
<1>2. /\ g.epoch = epoch /\ g.sid = s /\ g.seq = n
      /\ g.kind = pub[s][n].kind /\ g.ticker = pub[s][n].ticker
      /\ g.cell = pub[s][n].cell /\ g.delta = pub[s][n].delta
  BY DEF FrameAt
<1> HIDE DEF g
<1>3. CASE g.kind = "snapshot"
  <2>1. PICK c \in AnyCell : f = [g EXCEPT !.listing = [g.listing EXCEPT ![c] = Spoiled(c)]]
    BY <1>3 DEF Damaged, g
  <2>2. /\ f.epoch = g.epoch /\ f.sid = g.sid /\ f.seq = g.seq
        /\ f.kind = g.kind /\ f.ticker = g.ticker
        /\ f.listing = [g.listing EXCEPT ![c] = Spoiled(c)]
    BY <1>1, <2>1 DEF Frame
  <2>3. f.listing[c] = Spoiled(c)
    BY <1>1, <2>2 DEF Frame, Listing
  <2>4. Spoiled(c) # <<>> /\ ~(CheckPrice(c[2]) /\ Len(Spoiled(c)) = 1)
    <3>1. /\ <<1>> # <<>>
          /\ <<1, 1>> # <<>> /\ Len(<<1, 1>>) = 2
      OBVIOUS
    <3>2. CASE c \in Cell
      BY <3>1, <3>2 DEF Spoiled
    <3>3. CASE c \notin Cell
      <4>1. ~CheckPrice(c[2])
        BY <2>1, <3>3 DEF AnyCell, Cell, Price
      <4>2. QED
        BY <3>1, <3>3, <4>1 DEF Spoiled
    <3>4. QED
      BY <3>2, <3>3
  <2>5. ~SnapshotOK(f.listing)
    BY <2>3, <2>4 DEF SnapshotOK
  <2>6. QED
    BY <1>1, <1>2, <1>3, <2>2, <2>5 DEF FromWire, Detectable
<1>4. CASE g.kind # "snapshot"
  <2>1. \/ \E c \in AnyCell \ Cell : f = [g EXCEPT !.cell = c]
        \/ f = [g EXCEPT !.delta = g.delta - pub[s][n].after[g.ticker][g.cell] - 1]
    BY <1>4 DEF Damaged, g
  <2>2. CASE \E c \in AnyCell \ Cell : f = [g EXCEPT !.cell = c]
    <3>1. PICK c \in AnyCell \ Cell : f = [g EXCEPT !.cell = c]
      BY <2>2
    <3>2. ~CheckPrice(c[2])
      BY <3>1 DEF AnyCell, Cell, Price
    <3>3. /\ f.epoch = g.epoch /\ f.sid = g.sid /\ f.seq = g.seq
          /\ f.kind = g.kind /\ f.ticker = g.ticker /\ f.cell = c
      BY <1>1, <3>1 DEF Frame
    <3>4. QED
      BY <1>1, <1>2, <1>4, <3>2, <3>3 DEF FromWire, Detectable
  <2>3. CASE f = [g EXCEPT !.delta = g.delta - pub[s][n].after[g.ticker][g.cell] - 1]
    <3>1. /\ f.epoch = g.epoch /\ f.sid = g.sid /\ f.seq = g.seq
          /\ f.kind = g.kind /\ f.ticker = g.ticker /\ f.cell = g.cell
          /\ f.delta = g.delta - pub[s][n].after[g.ticker][g.cell] - 1
      BY <1>1, <2>3 DEF Frame
    <3>2. QED
      BY <1>1, <1>2, <1>4, <3>1 DEF FromWire, Detectable
  <2>4. QED
    BY <2>1, <2>2, <2>3
<1>5. QED
  BY <1>3, <1>4

\* What the wire delivers in sequence either is the truth or is rejected: an
\* applied frame leaves its market with the exchange's book at that frame.
LEMMA AppliedIsTrue ==
    ASSUME IInv, epoch > 0, NEW s \in Sid, NEW n \in 1 .. Len(pub[s]), NEW f,
           FromWire(f, s, n), Truthful(f, s, n) \/ Detectable(f, s, n)
    PROVE  /\ ApplySnapshot(f) => books'[f.ticker] = pub[s][n].after[f.ticker]
           /\ ApplyDelta(f) => books'[f.ticker] = pub[s][n].after[f.ticker]
<1> USE DEF IInv
<1>1. /\ f \in Frame /\ f.ticker \in Ticker /\ f.sid = s /\ f.seq = n
      /\ f.ticker = pub[s][n].ticker /\ f.kind = pub[s][n].kind
  BY DEF FromWire, Frame
<1>2. pub[s][n] \in Published /\ pub[s][n].after[f.ticker] \in Book
  BY <1>1, FrameTypes DEF Published
<1>3. SidOf(f.ticker) = s /\ KeyOf(f) = <<epoch, s>>
  BY <1>1 DEF PublishedIsCoherent, FromWire, KeyOf
<1>4. ASSUME ApplySnapshot(f)
      PROVE  books'[f.ticker] = pub[s][n].after[f.ticker]
  <2>1. f.listing = ListingOf(pub[s][n].after[f.ticker])
    BY <1>4 DEF ApplySnapshot, Truthful, Detectable
  <2>2. books'[f.ticker] = FromListing(f.listing)
    BY <1>1, <1>4 DEF ApplySnapshot, TypeOK
  <2>3. QED
    BY <1>2, <2>1, <2>2, SnapshotRoundTrip
<1>5. ASSUME ApplyDelta(f)
      PROVE  books'[f.ticker] = pub[s][n].after[f.ticker]
  <2>1. /\ books[f.ticker] # None /\ f.ticker \notin stale
        /\ DeltaOK(books[f.ticker], f.cell, f.delta)
        /\ f.kind = "delta" /\ InSequence(f)
    BY <1>5 DEF ApplyDelta, Patchable
  <2>2. /\ lastSeq[<<epoch, s>>] \in 1 .. Len(pub[s])
        /\ books[f.ticker] = pub[s][lastSeq[<<epoch, s>>]].after[f.ticker]
    BY <1>1, <1>3, <2>1 DEF KeptIsPrefix
  <2>3. n = lastSeq[<<epoch, s>>] + 1
    BY <1>1, <1>3, <2>1, <2>2 DEF InSequence
  <2>4. n \in 2 .. Len(pub[s]) /\ lastSeq[<<epoch, s>>] = n - 1
    BY <2>2, <2>3
  <2>5. Continues(pub[s][n-1].after, pub[s][n])
    BY <2>4 DEF PublishedIsCoherent
  <2>6. pub[s][n-1] \in Published
    BY <2>4, FrameTypes
  <2>7. pub[s][n].after[f.ticker] =
            WithDelta(books[f.ticker], pub[s][n].cell, pub[s][n].delta)
    <3>1. pub[s][n].after = [pub[s][n-1].after EXCEPT ![f.ticker] =
                                 WithDelta(@, pub[s][n].cell, pub[s][n].delta)]
      BY <1>1, <2>1, <2>5 DEF Continues
    <3>2. pub[s][n-1].after \in [Ticker -> Book]
      BY <2>6 DEF Published
    <3>3. pub[s][n].after[f.ticker] =
              WithDelta(pub[s][n-1].after[f.ticker], pub[s][n].cell, pub[s][n].delta)
      BY <1>1, <3>1, <3>2
    <3>4. QED
      BY <2>2, <2>4, <3>3
  <2>8. books'[f.ticker] = WithDelta(books[f.ticker], f.cell, f.delta)
    BY <1>1, <1>5 DEF ApplyDelta, TypeOK
  <2>9. CASE Truthful(f, s, n)
    BY <2>7, <2>8, <2>9 DEF Truthful
  <2>10. CASE Detectable(f, s, n)
    <3>1. CheckPrice(f.cell[2]) /\ books[f.ticker][f.cell] + f.delta >= 0
      BY <2>1 DEF DeltaOK
    <3>2. /\ f.cell = pub[s][n].cell
          /\ f.delta = pub[s][n].delta - pub[s][n].after[f.ticker][f.cell] - 1
      BY <2>1, <2>10, <3>1 DEF Detectable
    <3>3. books[f.ticker] \in Book /\ pub[s][n].cell \in Cell /\ pub[s][n].delta \in Int
      BY <1>1, <1>2, <2>1 DEF TypeOK, Published
    <3>4. /\ books[f.ticker][f.cell] \in Nat
          /\ pub[s][n].after[f.ticker][f.cell] = books[f.ticker][f.cell] + pub[s][n].delta
      BY <2>7, <3>2, <3>3 DEF WithDelta, Book
    <3>5. FALSE
      BY <3>1, <3>2, <3>3, <3>4
    <3>6. QED
      BY <3>5
  <2>11. QED
    BY <2>9, <2>10
<1>6. QED
  BY <1>4, <1>5

----------------------------------------------------------------------------
(* Processing a frame keeps the invariant. *)

\* Letting frame n of s proceed moves the subscription to n; the books of the
\* other markets are the exchange's there too, for frame n does not change them.
LEMMA AdvanceKeepsOthers ==
    ASSUME IInv, epoch > 0, NEW s \in Sid, NEW n \in 1 .. Len(pub[s]), NEW f,
           FromWire(f, s, n), InSequence(f), Advance(f),
           NEW t \in Ticker, t # f.ticker, books[t] # None, t \notin stale
    PROVE  LET k == <<epoch, SidOf(t)>>
           IN  /\ stream'[t] = k
               /\ lastSeq'[k] \in 1 .. Len(pub[SidOf(t)])
               /\ books[t] = pub[SidOf(t)][lastSeq'[k]].after[t]
<1> USE DEF IInv
<1>1. f.ticker \in Ticker /\ f.seq = n /\ KeyOf(f) = <<epoch, s>>
  BY DEF FromWire, Frame, KeyOf
<1>2. epoch \in Epoch /\ SidOf(t) \in Sid
  BY SidOfIsHome DEF TypeOK, Epoch
<1>3. <<epoch, s>> \in Key /\ <<epoch, SidOf(t)>> \in Key
  BY <1>2 DEF Key
<1>4. /\ stream[t] = <<epoch, SidOf(t)>>
      /\ lastSeq[<<epoch, SidOf(t)>>] \in 1 .. Len(pub[SidOf(t)])
      /\ books[t] = pub[SidOf(t)][lastSeq[<<epoch, SidOf(t)>>]].after[t]
  BY DEF KeptIsPrefix
<1>5. stream'[t] = stream[t]
  BY <1>1 DEF Advance, TypeOK
<1>6. lastSeq' = [lastSeq EXCEPT ![<<epoch, s>>] = n]
  BY <1>1 DEF Advance
<1>7. CASE SidOf(t) # s
  <2>1. lastSeq'[<<epoch, SidOf(t)>>] = lastSeq[<<epoch, SidOf(t)>>]
    BY <1>3, <1>6, <1>7 DEF TypeOK
  <2>2. QED
    BY <1>4, <1>5, <2>1
<1>8. CASE SidOf(t) = s
  <2>1. lastSeq'[<<epoch, s>>] = n
    BY <1>3, <1>6 DEF TypeOK
  <2>2. n = lastSeq[<<epoch, s>>] + 1
    BY <1>1, <1>4, <1>8 DEF InSequence
  <2>3. n \in 2 .. Len(pub[s]) /\ n - 1 = lastSeq[<<epoch, s>>]
    BY <1>4, <1>8, <2>2
  <2>4. Continues(pub[s][n-1].after, pub[s][n]) /\ pub[s][n].ticker = f.ticker
    BY <2>3 DEF PublishedIsCoherent, FromWire
  <2>5. pub[s][n-1].after \in [Ticker -> Book]
    BY <2>3, FrameTypes DEF Published
  <2>6. pub[s][n].after[t] = pub[s][n-1].after[t]
    BY <1>1, <2>4, <2>5 DEF Continues
  <2>7. QED
    BY <1>4, <1>5, <1>8, <2>1, <2>3, <2>6
<1>9. QED
  BY <1>7, <1>8

\* What was received is what the processor stands at, or the stream is poisoned.
LEMMA ProcessHeard ==
    ASSUME IInv, epoch > 0, NEW s \in Sid, NEW n \in 1 .. Len(pub[s]), NEW f,
           FromWire(f, s, n), Receive(s, n), Process(f)
    PROVE  HeardIsProcessed'
<1> USE DEF IInv
<1>1. f.seq = n /\ f.sid = s /\ KeyOf(f) = <<epoch, s>> /\ HasEnvelope(f)
  BY BookStreamAssumption DEF FromWire, KeyOf, HasEnvelope
<1>2. epoch \in Epoch /\ \A r \in Sid : <<epoch, r>> \in Key
  BY DEF TypeOK, Epoch, Key
<1>3. UNCHANGED <<epoch, pub>> /\ seen' = [seen EXCEPT ![s] = MaxOf(@, n)]
  BY DEF Receive
<1>4. SUFFICES ASSUME NEW r \in Sid
               PROVE  /\ seen'[r] <= Len(pub[r])
                      /\ lastSeq'[<<epoch, r>>] <= seen'[r]
                      /\ lastSeq'[<<epoch, r>>] = 0 =>
                             seen'[r] = 0 /\ <<epoch, r>> \notin poisoned'
                      /\ <<epoch, r>> \notin poisoned' =>
                             lastSeq'[<<epoch, r>>] = seen'[r]
  BY <1>3 DEF HeardIsProcessed
<1>5. /\ seen[r] <= Len(pub[r])
      /\ lastSeq[<<epoch, r>>] <= seen[r]
      /\ lastSeq[<<epoch, r>>] = 0 => seen[r] = 0 /\ <<epoch, r>> \notin poisoned
      /\ <<epoch, r>> \notin poisoned => lastSeq[<<epoch, r>>] = seen[r]
      /\ seen[r] \in Nat /\ lastSeq[<<epoch, r>>] \in Nat /\ Len(pub[r]) \in Nat
  BY <1>2 DEF HeardIsProcessed, TypeOK
<1>6. lastSeq' = lastSeq \/ (InSequence(f) /\ Advance(f))
  BY DEF Process, RejectNoEnvelope, RejectSilently, RejectGap, ApplySnapshot,
         RejectSnapshot, RejectNoSnapshot, ApplyDelta, RejectDelta, MarkStale, procVars
<1>7. poisoned' = poisoned \/ poisoned' = poisoned \cup {<<epoch, s>>}
  BY <1>1 DEF Process, RejectNoEnvelope, RejectSilently, RejectGap, ApplySnapshot,
         RejectSnapshot, RejectNoSnapshot, ApplyDelta, RejectDelta, MarkStale,
         Advance, procVars
<1>8. CASE r # s
  <2>1. seen'[r] = seen[r]
    BY <1>3, <1>8 DEF TypeOK
  <2>2. lastSeq'[<<epoch, r>>] = lastSeq[<<epoch, r>>]
    BY <1>1, <1>2, <1>6, <1>8 DEF Advance, TypeOK
  <2>3. <<epoch, r>> \in poisoned' <=> <<epoch, r>> \in poisoned
    BY <1>7, <1>8
  <2>4. QED
    BY <1>5, <2>1, <2>2, <2>3
<1>9. CASE r = s
  <2>1. seen'[s] = MaxOf(seen[s], n) /\ n \in Nat /\ n <= Len(pub[s]) /\ n > 0
    BY <1>3, <1>5, <1>9 DEF TypeOK
  <2>2. CASE InSequence(f) /\ Advance(f)
    <3>1. lastSeq'[<<epoch, s>>] = n
      BY <1>1, <1>2, <2>2 DEF Advance, TypeOK
    <3>2. seen[s] <= n /\ <<epoch, s>> \notin poisoned /\ poisoned' = poisoned
      BY <1>1, <1>5, <1>9, <2>1, <2>2 DEF InSequence, Live, Advance
    <3>3. seen'[s] = n
      BY <1>5, <1>9, <2>1, <3>2 DEF MaxOf
    <3>4. QED
      BY <1>9, <2>1, <3>1, <3>2, <3>3
  <2>3. CASE RejectSilently(f)
    <3>1. lastSeq' = lastSeq /\ poisoned' = poisoned
      BY <2>3 DEF RejectSilently, procVars
    <3>2. \/ <<epoch, s>> \in poisoned
          \/ lastSeq[<<epoch, s>>] # 0 /\ n <= lastSeq[<<epoch, s>>]
      BY <1>1, <2>3 DEF RejectSilently
    <3>3. QED
      BY <1>5, <1>9, <2>1, <3>1, <3>2 DEF MaxOf
  <2>4. CASE RejectGap(f)
    <3>1. /\ lastSeq' = lastSeq /\ <<epoch, s>> \in poisoned'
          /\ lastSeq[<<epoch, s>>] # 0
      BY <1>1, <2>4 DEF RejectGap, SkipsAhead
    <3>2. QED
      BY <1>5, <1>9, <2>1, <3>1 DEF MaxOf
  <2>5. QED
    BY <1>1, <2>2, <2>3, <2>4 DEF Process, RejectNoEnvelope, ApplySnapshot,
       RejectSnapshot, RejectNoSnapshot, ApplyDelta, RejectDelta, MarkStale
<1>10. QED
  BY <1>8, <1>9

LEMMA ProcessStep ==
    ASSUME IInv, epoch > 0, NEW s \in Sid, NEW n \in 1 .. Len(pub[s]), NEW f,
           FromWire(f, s, n), Truthful(f, s, n) \/ Detectable(f, s, n),
           Receive(s, n), Process(f)
    PROVE  IInv'
<1> USE DEF IInv
<1>1. /\ f \in Frame /\ f.ticker \in Ticker /\ f.seq = n
      /\ KeyOf(f) = <<epoch, s>> /\ SidOf(f.ticker) = s
  BY DEF FromWire, Frame, KeyOf, PublishedIsCoherent
<1>2. UNCHANGED <<epoch, pub>> /\ seen' \in [Sid -> Nat]
  BY DEF Receive, MaxOf, TypeOK
<1>3. TypeOK'
  BY <1>1, <1>2, ProcessTypes DEF TypeOK
<1>4. HeardIsProcessed'
  BY ProcessHeard
<1>5. PublishedIsCoherent'
  BY <1>2 DEF PublishedIsCoherent
<1>6. epoch \in Epoch /\ <<epoch, s>> \in Key
  BY DEF TypeOK, Epoch, Key
<1>7. KnownKeys'
  <2>1. \A k \in Key : k[1] > epoch => k # <<epoch, s>>
    BY DEF TypeOK
  <2>2. \A k \in Key : k # <<epoch, s>> =>
            lastSeq'[k] = lastSeq[k] /\ (k \in poisoned' <=> k \in poisoned)
    BY <1>1, <1>6 DEF Process, RejectNoEnvelope, RejectSilently, RejectGap, ApplySnapshot,
       RejectSnapshot, RejectNoSnapshot, ApplyDelta, RejectDelta, MarkStale,
       Advance, procVars, TypeOK
  <2>3. QED
    BY <1>2, <2>1, <2>2 DEF KnownKeys
<1>8. KeptIsPrefix'
  <2>1. SUFFICES ASSUME NEW t \in Ticker, books'[t] # None, t \notin stale'
                 PROVE  LET k == <<epoch, SidOf(t)>>
                        IN  /\ stream'[t] = k
                            /\ lastSeq'[k] \in 1 .. Len(pub[SidOf(t)])
                            /\ books'[t] = pub[SidOf(t)][lastSeq'[k]].after[t]
    BY <1>2 DEF KeptIsPrefix
  <2>2. CASE UNCHANGED <<books, stream, lastSeq, stale>>
    BY <2>1, <2>2 DEF KeptIsPrefix
  <2>3. CASE InSequence(f) /\ Advance(f) /\ t # f.ticker
    <3>1. books'[t] = books[t] /\ (t \in stale' <=> t \in stale)
      BY <1>1, <2>3 DEF Process, RejectNoEnvelope, RejectSilently, RejectGap,
         ApplySnapshot, RejectSnapshot, RejectNoSnapshot, ApplyDelta, RejectDelta,
         MarkStale, procVars, TypeOK
    <3>2. QED
      BY <2>1, <2>3, <3>1, AdvanceKeepsOthers
  <2>4. CASE InSequence(f) /\ Advance(f) /\ t = f.ticker
    <3>1. ApplySnapshot(f) \/ ApplyDelta(f)
          \/ (books' = books /\ stale' = stale /\ ~Patchable(f))
          \/ t \in stale'
          \/ UNCHANGED <<books, stream, lastSeq, stale>>
      BY <2>4 DEF Process, RejectNoEnvelope, RejectSilently, RejectGap,
         RejectSnapshot, RejectNoSnapshot, RejectDelta, MarkStale, procVars
    <3>2. CASE ApplySnapshot(f) \/ ApplyDelta(f)
      <4>1. books'[t] = pub[s][n].after[t]
        BY <2>4, <3>2, AppliedIsTrue
      <4>2. stream'[t] = <<epoch, s>> /\ lastSeq'[<<epoch, s>>] = n
        BY <1>1, <1>6, <2>4 DEF Advance, TypeOK
      <4>3. QED
        BY <1>1, <2>4, <4>1, <4>2
    <3>3. CASE books' = books /\ stale' = stale /\ ~Patchable(f)
      BY <2>1, <2>4, <3>3 DEF Patchable
    <3>4. CASE UNCHANGED <<books, stream, lastSeq, stale>>
      BY <2>2, <3>4
    <3>5. QED
      BY <2>1, <3>1, <3>2, <3>3, <3>4
  <2>5. QED
    BY <2>2, <2>3, <2>4 DEF Process, RejectNoEnvelope, RejectSilently, RejectGap,
       ApplySnapshot, RejectSnapshot, RejectNoSnapshot, ApplyDelta, RejectDelta,
       MarkStale, procVars
<1>9. QED
  BY <1>3, <1>4, <1>5, <1>7, <1>8

\* A frame without its envelope changes nothing but the resync flag.
LEMMA NoEnvelopeStep ==
    ASSUME NEW s \in Sid, NEW n \in 1 .. Len(pub[s]), DeliverWithoutEnvelope(s, n)
    PROVE  /\ needsResync' = TRUE
           /\ UNCHANGED <<epoch, pub, seen, books, stream, lastSeq, poisoned, stale>>
<1>1. ~HasEnvelope(WithoutEnvelope(FrameAt(s, n)))
  BY DEF HasEnvelope, WithoutEnvelope, FrameAt
<1>2. RejectNoEnvelope(WithoutEnvelope(FrameAt(s, n)))
  BY <1>1 DEF DeliverWithoutEnvelope, Process, RejectSilently, RejectGap,
     ApplySnapshot, RejectSnapshot, RejectNoSnapshot, ApplyDelta, RejectDelta,
     SkipsAhead, InSequence, Live
<1>3. QED
  BY <1>2 DEF RejectNoEnvelope, DeliverWithoutEnvelope, envVars

----------------------------------------------------------------------------
(* The theorems. *)

LEMMA LatestTypes ==
    ASSUME IInv, epoch > 0, NEW s \in Sid
    PROVE  Latest(s) \in [Ticker -> Book] /\ Len(pub[s]) \in Nat \ {0}
<1>1. Len(pub[s]) \in Nat \ {0}
  BY DEF IInv, TypeOK, PublishedIsCoherent
<1>2. pub[s][Len(pub[s])] \in Published
  BY <1>1, FrameTypes DEF IInv
<1>3. QED
  BY <1>1, <1>2 DEF Latest, Published

LEMMA NextIInv == IInv /\ [Next]_vars => IInv'
<1> SUFFICES ASSUME IInv, [Next]_vars PROVE IInv'
  OBVIOUS
<1>1. CASE OnConnected
  BY <1>1, ConnectStep
<1>2. CASE AcknowledgeResync
  BY <1>2 DEF AcknowledgeResync, envVars, IInv, TypeOK, KeptIsPrefix, HeardIsProcessed,
     PublishedIsCoherent, KnownKeys
<1>3. ASSUME NEW t \in Ticker, NEW c \in Cell, NEW d \in {-1, 1}, ExchangeMove(t, c, d)
      PROVE  IInv'
  <2> DEFINE s == SidOf(t)
             p == [kind |-> "delta", ticker |-> t, cell |-> c, delta |-> d,
                   after |-> [Latest(s) EXCEPT ![t] = WithDelta(@, c, d)]]
  <2>1. epoch > 0 /\ Latest(s)[t][c] + d \in 0 .. MaxQty /\ Publish(s, p)
    BY <1>3 DEF ExchangeMove
  <2>2. s \in Sid /\ Latest(s) \in [Ticker -> Book]
    BY <2>1, SidOfIsHome, LatestTypes
  <2>3. WithDelta(Latest(s)[t], c, d) \in Book
    BY <2>1, <2>2, BookStreamAssumption DEF WithDelta, Book
  <2>4. p \in Published
    BY <2>2, <2>3 DEF Published
  <2>5. Continues(Latest(s), p) /\ SidOf(p.ticker) = s
    BY DEF Continues
  <2>6. QED
    BY <2>1, <2>2, <2>4, <2>5, PublishStep
<1>4. ASSUME NEW t \in Ticker, ExchangeResnapshot(t)
      PROVE  IInv'
  <2> DEFINE s == SidOf(t)
             p == [kind |-> "snapshot", ticker |-> t, cell |-> SomeCell,
                   delta |-> 0, after |-> Latest(s)]
  <2>1. epoch > 0 /\ Publish(s, p)
    BY <1>4 DEF ExchangeResnapshot
  <2>2. s \in Sid /\ Latest(s) \in [Ticker -> Book]
    BY <2>1, SidOfIsHome, LatestTypes
  <2>3. SomeCell \in Cell
    <3>1. PICK q \in Price : TRUE
      BY BookStreamAssumption
    <3>2. <<"YES", q>> \in Cell
      BY <3>1 DEF Cell, Side
    <3>3. QED
      BY <3>2 DEF SomeCell
  <2>4. p \in Published
    BY <2>2, <2>3 DEF Published
  <2>5. Continues(Latest(s), p) /\ SidOf(p.ticker) = s
    BY DEF Continues
  <2>6. QED
    BY <2>1, <2>2, <2>4, <2>5, PublishStep
<1>5. ASSUME NEW s \in Sid, NEW n \in 1 .. Len(pub[s]),
             DeliverIntact(s, n) \/ DeliverDamaged(s, n) \/ DeliverWithoutEnvelope(s, n)
      PROVE  IInv'
  <2>1. epoch > 0
    <3>1. n >= 1 /\ n <= Len(pub[s]) /\ Len(pub[s]) \in Nat
      BY DEF IInv, TypeOK
    <3>2. CASE epoch = 0
      BY <3>1, <3>2 DEF IInv, PublishedIsCoherent
    <3>3. QED
      BY <3>2 DEF IInv, TypeOK
  <2>2. CASE DeliverIntact(s, n)
    BY <2>1, <2>2, IntactIsTruthful, ProcessStep DEF DeliverIntact, IInv
  <2>3. CASE DeliverDamaged(s, n)
    <3>1. PICK f \in Damaged(s, n) : Process(f)
      BY <2>3 DEF DeliverDamaged
    <3>2. FromWire(f, s, n) /\ Detectable(f, s, n)
      BY <2>1, DamageIsDetectable DEF IInv
    <3>3. Receive(s, n)
      BY <2>3 DEF DeliverDamaged
    <3>4. QED
      <4>1. Truthful(f, s, n) \/ Detectable(f, s, n)
        BY <3>2
      <4>2. QED
        BY <2>1, <3>1, <3>2, <3>3, <4>1, ProcessStep
  <2>4. CASE DeliverWithoutEnvelope(s, n)
    <3>1. /\ needsResync' = TRUE /\ epoch' = epoch /\ pub' = pub /\ seen' = seen
          /\ books' = books /\ stream' = stream /\ lastSeq' = lastSeq
          /\ poisoned' = poisoned /\ stale' = stale
      BY <2>4, NoEnvelopeStep
    <3>2. QED
      BY <3>1 DEF IInv, TypeOK, KeptIsPrefix, HeardIsProcessed,
         PublishedIsCoherent, KnownKeys
  <2>5. QED
    BY <1>5, <2>2, <2>3, <2>4
<1>6. CASE UNCHANGED vars
  BY <1>6 DEF vars, IInv, TypeOK, KeptIsPrefix, HeardIsProcessed,
     PublishedIsCoherent, KnownKeys
<1>7. QED
  BY <1>1, <1>2, <1>3, <1>4, <1>5, <1>6 DEF Next, Deliver

(***************************************************************************)
(* The invariant of the processor holds in every reachable state, for any  *)
(* number of markets, subscriptions, prices, connections and frames.       *)
(***************************************************************************)
THEOREM ProcessorInvariant == Spec => []IInv
<1>1. QED
  BY InitIInv, NextIInv, PTL DEF Spec

(***************************************************************************)
(* The processor's variables keep their types (BookStreamProcessor).       *)
(***************************************************************************)
THEOREM TypeCorrect == Spec => []TypeOK
<1>1. IInv => TypeOK
  BY DEF IInv
<1>2. QED
  BY <1>1, ProcessorInvariant, PTL

LEMMA IInvImpliesExact == IInv => TrustedIsExact
<1> SUFFICES ASSUME IInv, NEW t \in Ticker, View(t) # None
             PROVE  /\ seen[SidOf(t)] \in 1 .. Len(pub[SidOf(t)])
                    /\ View(t) = pub[SidOf(t)][seen[SidOf(t)]].after[t]
  BY DEF TrustedIsExact
<1>1. /\ books[t] # None /\ t \notin stale /\ stream[t] \notin poisoned
      /\ View(t) = books[t]
  BY DEF View
<1>2. /\ epoch > 0 /\ stream[t] = <<epoch, SidOf(t)>>
      /\ lastSeq[<<epoch, SidOf(t)>>] \in 1 .. Len(pub[SidOf(t)])
      /\ books[t] = pub[SidOf(t)][lastSeq[<<epoch, SidOf(t)>>]].after[t]
  BY <1>1 DEF IInv, KeptIsPrefix
<1>3. lastSeq[<<epoch, SidOf(t)>>] = seen[SidOf(t)]
  BY <1>1, <1>2, SidOfIsHome DEF IInv, HeardIsProcessed
<1>4. QED
  BY <1>1, <1>2, <1>3

(***************************************************************************)
(* A book that book(ticker) returns is exactly the exchange's book at the  *)
(* newest frame received on its subscription.                              *)
(***************************************************************************)
THEOREM TrustedBooksAreExact == Spec => []TrustedIsExact
BY ProcessorInvariant, IInvImpliesExact, PTL

----------------------------------------------------------------------------
(* The refinement of TrustedView. *)

\* A market of a poisoned subscription is not shown.
LEMMA PoisonHides ==
    ASSUME IInv, NEW t \in Ticker, <<epoch, SidOf(t)>> \in poisoned
    PROVE  View(t) = None
BY DEF IInv, KeptIsPrefix, View

\* A frame that does not proceed leaves the views alone, or hides its subscription.
LEMMA ViewsUnlessApplied ==
    ASSUME IInv, epoch > 0, NEW s \in Sid, NEW n \in 1 .. Len(pub[s]), NEW f,
           FromWire(f, s, n), Process(f), NEW t \in Ticker,
           t # f.ticker \/ ~InSequence(f)
    PROVE  \/ View(t)' = View(t)
           \/ RejectGap(f) /\ SidOf(t) = s
<1> USE DEF IInv
<1>1. f.ticker \in Ticker /\ KeyOf(f) = <<epoch, s>>
  BY DEF FromWire, Frame, KeyOf
<1>2. CASE RejectGap(f)
  <2>1. UNCHANGED <<books, stream, stale>> /\ poisoned' = poisoned \cup {<<epoch, s>>}
    BY <1>1, <1>2 DEF RejectGap
  <2>2. CASE View(t) = None
    BY <2>1, <2>2 DEF View
  <2>3. CASE View(t) # None /\ SidOf(t) # s
    <3>1. stream[t] = <<epoch, SidOf(t)>>
      BY <2>3 DEF View, KeptIsPrefix
    <3>2. QED
      BY <2>1, <2>3, <3>1 DEF View
  <2>4. QED
    BY <1>2, <2>2, <2>3
<1>3. CASE ~RejectGap(f)
  <2>1. books'[t] = books[t] /\ stream'[t] = stream[t] /\ (t \in stale' <=> t \in stale)
        /\ poisoned' = poisoned
    BY <1>1, <1>3 DEF Process, RejectNoEnvelope, RejectSilently, ApplySnapshot,
       RejectSnapshot, RejectNoSnapshot, ApplyDelta, RejectDelta, MarkStale, Advance,
       procVars, TypeOK
  <2>2. QED
    BY <2>1 DEF View
<1>4. QED
  BY <1>2, <1>3

\* A market comes to be shown by a snapshot of it, or was shown already.
LEMMA ShownBySnapshot ==
    ASSUME IInv, epoch > 0, NEW s \in Sid, NEW n \in 1 .. Len(pub[s]), NEW f,
           FromWire(f, s, n), Process(f), InSequence(f), NEW t \in Ticker,
           View(t)' # None
    PROVE  View(t) # None \/ Promise!IsSnapshotOf(pub[s][n], t)
<1> USE DEF IInv
<1>1. f.ticker \in Ticker /\ KeyOf(f) = <<epoch, s>> /\ SidOf(f.ticker) = s
      /\ f.kind = pub[s][n].kind /\ f.ticker = pub[s][n].ticker
  BY DEF FromWire, Frame, KeyOf, PublishedIsCoherent
<1>2. CASE t # f.ticker
  <2>1. ~RejectGap(f)
    BY <1>1 DEF InSequence, RejectGap, SkipsAhead, FromWire, TypeOK
  <2>2. QED
    BY <1>2, <2>1, ViewsUnlessApplied
<1>3. CASE t = f.ticker
  <2>1. books'[t] # None /\ t \notin stale'
    BY DEF View
  <2>2. CASE f.kind = "snapshot"
    BY <1>1, <1>3, <2>2 DEF Promise!IsSnapshotOf
  <2>3. CASE f.kind = "delta"
    <3>1. Patchable(f)
      BY <1>1, <1>3, <2>1, <2>3 DEF Process, RejectNoEnvelope, RejectSilently, RejectGap,
         ApplySnapshot, RejectSnapshot, RejectNoSnapshot, ApplyDelta, RejectDelta,
         MarkStale, procVars, Patchable
    <3>2. stream[t] = <<epoch, s>>
      BY <1>1, <1>3, <3>1 DEF Patchable, KeptIsPrefix
    <3>3. <<epoch, s>> \notin poisoned
      BY <1>1 DEF InSequence, Live
    <3>4. books[t] # None /\ t \notin stale
      BY <1>3, <3>1 DEF Patchable
    <3>5. QED
      BY <3>2, <3>3, <3>4 DEF View
  <2>4. QED
    BY <2>2, <2>3 DEF FromWire, Frame
<1>4. QED
  BY <1>2, <1>3

LEMMA ProcessRefines ==
    ASSUME IInv, IInv', epoch > 0, NEW s \in Sid, NEW n \in 1 .. Len(pub[s]), NEW f,
           FromWire(f, s, n), Receive(s, n), Process(f)
    PROVE  Promise!Hear(s, n)
<1> USE DEF IInv
<1>1. /\ f.ticker \in Ticker /\ f.seq = n /\ KeyOf(f) = <<epoch, s>>
      /\ HasEnvelope(f) /\ SidOf(f.ticker) = s
  <2>1. /\ f \in Frame /\ f.epoch = epoch /\ f.sid = s /\ f.seq = n
        /\ f.ticker = pub[s][n].ticker
    BY DEF FromWire
  <2>2. SidOf(pub[s][n].ticker) = s
    BY DEF PublishedIsCoherent
  <2>3. f.ticker \in Ticker
    BY <2>1 DEF Frame
  <2>4. s # None
    BY BookStreamAssumption
  <2>5. KeyOf(f) = <<epoch, s>> /\ HasEnvelope(f)
    BY <2>1, <2>4 DEF KeyOf, HasEnvelope
  <2>6. QED
    BY <2>1, <2>2, <2>3, <2>5
<1>2. /\ UNCHANGED <<epoch, pub>> /\ seen' = [seen EXCEPT ![s] = MaxOf(@, n)]
      /\ seen' = [seen EXCEPT ![s] = MaxOf(seen[s], n)]
  BY DEF Receive
<1>3. /\ seen[s] \in Nat /\ n \in Nat /\ n > 0 /\ seen'[s] = MaxOf(seen[s], n)
      /\ lastSeq[<<epoch, s>>] \in Nat /\ lastSeq[<<epoch, s>>] <= seen[s]
      /\ lastSeq[<<epoch, s>>] = 0 => seen[s] = 0 /\ <<epoch, s>> \notin poisoned
      /\ <<epoch, s>> \notin poisoned => lastSeq[<<epoch, s>>] = seen[s]
  BY <1>2 DEF HeardIsProcessed, TypeOK, Epoch, Key
<1>4. \A t \in Ticker : SidOf(t) # s => View(t)' = View(t)
  BY <1>1, ViewsUnlessApplied
<1>5. \A t \in Ticker : SidOf(t) = s =>
          View(t)' = None \/ View(t)' = pub[s][seen'[s]].after[t]
  <2>1. TrustedIsExact'
    BY IInvImpliesExact, PTL
  <2>2. QED
    BY <1>2, <2>1 DEF TrustedIsExact
<1>6. TypeOK' /\ HeardIsProcessed' /\ KeptIsPrefix'
  OBVIOUS
<1>7. Promise!HearNext(s, n) \/ Promise!HearGap(s, n) \/ Promise!HearOld(s, n)
  <2>1. CASE InSequence(f)
    <3>1. seen[s] = 0 \/ n = seen[s] + 1
      BY <1>1, <1>3, <2>1 DEF InSequence, Live
    <3>2. MaxOf(seen[s], n) = n
      BY <1>3, <3>1 DEF MaxOf
    <3>3. \A t \in Ticker : SidOf(t) = s =>
              \/ View(t)' = None
              \/ /\ View(t) # None \/ Promise!IsSnapshotOf(pub[s][n], t)
                 /\ View(t)' = pub[s][n].after[t]
      BY <1>3, <1>5, <2>1, <3>2, ShownBySnapshot
    <3>4. QED
      BY <1>2, <3>1, <3>2, <3>3 DEF Promise!HearNext
  <2>2. CASE ~InSequence(f) /\ <<epoch, s>> \notin poisoned /\ n > seen[s]
    <3>1. seen[s] # 0 /\ n > seen[s] + 1
      BY <1>1, <1>3, <2>2 DEF InSequence, Live
    <3>2. RejectGap(f)
      BY <1>1, <1>3, <2>2, <3>1 DEF Process, RejectNoEnvelope, RejectSilently,
         ApplySnapshot, RejectSnapshot, RejectNoSnapshot, ApplyDelta, RejectDelta
    <3>3. <<epoch, s>> \in poisoned'
      BY <1>1, <3>2 DEF RejectGap
    <3>4. \A t \in Ticker : SidOf(t) = s => View(t)' = None
      <4>1. SUFFICES ASSUME NEW t \in Ticker, SidOf(t) = s PROVE View(t)' = None
        OBVIOUS
      <4>2. books'[t] = None \/ t \in stale' \/ stream'[t] = <<epoch, s>>
        BY <1>2, <1>6, <4>1 DEF KeptIsPrefix
      <4>3. QED
        BY <3>3, <4>2 DEF View
    <3>5. MaxOf(seen[s], n) = n
      BY <1>3, <3>1 DEF MaxOf
    <3>6. QED
      BY <1>2, <3>1, <3>4, <3>5 DEF Promise!HearGap
  <2>3. CASE <<epoch, s>> \in poisoned
    <3>1. RejectSilently(f) /\ ~InSequence(f)
      BY <1>1, <2>3 DEF Process, RejectNoEnvelope, RejectGap, SkipsAhead, Live,
         InSequence, ApplySnapshot, RejectSnapshot, RejectNoSnapshot, ApplyDelta,
         RejectDelta
    <3>2. UNCHANGED procVars /\ \A t \in Ticker : View(t)' = View(t)
      BY <3>1 DEF RejectSilently, procVars, View
    <3>3. \A t \in Ticker : SidOf(t) = s => View(t)' = None
      BY <2>3, <3>2, PoisonHides
    <3>4. seen[s] # 0
      BY <1>3, <2>3
    <3>5. CASE n <= seen[s]
      <4>1. MaxOf(seen[s], n) = seen[s] /\ seen' = seen
        BY <1>2, <1>3, <3>5 DEF MaxOf, TypeOK
      <4>2. [t \in Ticker |-> View(t)]' = [t \in Ticker |-> View(t)]
        BY <3>2
      <4>3. QED
        BY <3>5, <4>1, <4>2 DEF Promise!HearOld
    <3>6. CASE n = seen[s] + 1
      <4>1. MaxOf(seen[s], n) = n
        BY <1>3, <3>6 DEF MaxOf
      <4>2. QED
        BY <1>2, <3>3, <3>6, <4>1 DEF Promise!HearNext
    <3>7. CASE n > seen[s] + 1
      <4>1. MaxOf(seen[s], n) = n
        BY <1>3, <3>7 DEF MaxOf
      <4>2. QED
        BY <1>2, <3>3, <3>4, <3>7, <4>1 DEF Promise!HearGap
    <3>8. QED
      BY <1>3, <3>5, <3>6, <3>7
  <2>4. CASE ~InSequence(f) /\ <<epoch, s>> \notin poisoned /\ n <= seen[s]
    <3>1. RejectSilently(f)
      BY <1>1, <1>3, <2>4 DEF Process, RejectNoEnvelope, RejectGap, SkipsAhead,
         ApplySnapshot, RejectSnapshot, RejectNoSnapshot, ApplyDelta, RejectDelta
    <3>2. [t \in Ticker |-> View(t)]' = [t \in Ticker |-> View(t)]
      BY <3>1 DEF RejectSilently, procVars, View
    <3>3. seen' = seen
      BY <1>2, <1>3, <2>4 DEF MaxOf, TypeOK
    <3>4. QED
      BY <2>4, <3>2, <3>3 DEF Promise!HearOld
  <2>5. QED
    BY <1>3, <2>1, <2>2, <2>3, <2>4
<1>8. QED
  BY <1>2, <1>4, <1>7 DEF Promise!Hear

LEMMA NextRefines == IInv /\ IInv' /\ [Next]_vars => [Promise!Next]_(Promise!vars)
<1> SUFFICES ASSUME IInv, IInv', [Next]_vars
             PROVE  [Promise!Next]_(Promise!vars)
  OBVIOUS
<1> DEFINE shown == [t \in Ticker |-> View(t)]
<1>1. CASE OnConnected
  <2>1. seen' = [s \in Sid |-> 0] /\ \A t \in Ticker : View(t)' = None
    BY <1>1 DEF OnConnected, View
  <2>2. Promise!Reset
    BY <2>1 DEF Promise!Reset
  <2>3. QED
    BY <2>2 DEF Promise!Next
<1>2. CASE AcknowledgeResync
  <2>1. UNCHANGED <<pub, seen>> /\ shown' = shown
    BY <1>2 DEF AcknowledgeResync, envVars, View
  <2>2. QED
    BY <2>1 DEF Promise!vars
<1>3. ASSUME NEW s \in Sid, NEW p, epoch > 0, Publish(s, p)
      PROVE  [Promise!Next]_(Promise!vars)
  <2>1. UNCHANGED seen /\ shown' = shown
    BY <1>3 DEF Publish, procVars, View
  <2>2. pub' = [pub EXCEPT ![s] = Append(pub[s], p)] /\ pub[s] \in Seq(Published)
    BY <1>3 DEF Publish, IInv, TypeOK
  <2>3. pub'[s] = Append(pub[s], p)
    BY <2>2 DEF IInv, TypeOK
  <2>4. Len(pub'[s]) = Len(pub[s]) + 1 /\ pub'[s][Len(pub[s]) + 1] = p
    <3>1. pub'[s] \in Seq(Published)
      BY DEF IInv, TypeOK
    <3>2. Len(pub[s]) \in Nat
      BY <2>2
    <3>3. QED
      BY <2>2, <2>3, <3>2
  <2>5. Promise!Publish(s)
    BY <2>1, <2>2, <2>4 DEF Promise!Publish
  <2>6. QED
    BY <2>5 DEF Promise!Next
<1>4. ASSUME NEW t \in Ticker, NEW c \in Cell, NEW d \in {-1, 1}, ExchangeMove(t, c, d)
      PROVE  [Promise!Next]_(Promise!vars)
  <2>1. SidOf(t) \in Sid
    BY SidOfIsHome
  <2>2. QED
    BY <1>3, <1>4, <2>1 DEF ExchangeMove
<1>5. ASSUME NEW t \in Ticker, ExchangeResnapshot(t)
      PROVE  [Promise!Next]_(Promise!vars)
  <2>1. SidOf(t) \in Sid
    BY SidOfIsHome
  <2>2. QED
    BY <1>3, <1>5, <2>1 DEF ExchangeResnapshot
<1>6. ASSUME NEW s \in Sid, NEW n \in 1 .. Len(pub[s]),
             DeliverIntact(s, n) \/ DeliverDamaged(s, n) \/ DeliverWithoutEnvelope(s, n)
      PROVE  [Promise!Next]_(Promise!vars)
  <2>1. TypeOK /\ epoch > 0
    <3>1. n >= 1 /\ n <= Len(pub[s]) /\ Len(pub[s]) \in Nat
      BY DEF IInv, TypeOK
    <3>2. QED
      BY <3>1 DEF IInv, PublishedIsCoherent
  <2>2. CASE DeliverIntact(s, n)
    <3>1. Promise!Hear(s, n)
      BY <2>1, <2>2, IntactIsTruthful, ProcessRefines DEF DeliverIntact
    <3>2. QED
      BY <3>1 DEF Promise!Next
  <2>3. CASE DeliverDamaged(s, n)
    <3>1. PICK f \in Damaged(s, n) : Process(f)
      BY <2>3 DEF DeliverDamaged
    <3>2. FromWire(f, s, n) /\ Receive(s, n)
      BY <2>1, <2>3, DamageIsDetectable DEF DeliverDamaged
    <3>3. Promise!Hear(s, n)
      BY <2>1, <3>1, <3>2, ProcessRefines
    <3>4. QED
      BY <3>3 DEF Promise!Next
  <2>4. CASE DeliverWithoutEnvelope(s, n)
    <3>1. /\ pub' = pub /\ seen' = seen
          /\ books' = books /\ stream' = stream /\ poisoned' = poisoned /\ stale' = stale
      BY <2>4, NoEnvelopeStep
    <3>2. shown' = shown
      BY <3>1 DEF View
    <3>3. QED
      BY <3>1, <3>2 DEF Promise!vars
  <2>5. QED
    BY <1>6, <2>2, <2>3, <2>4
<1>7. CASE UNCHANGED vars
  <2>1. UNCHANGED <<pub, seen>> /\ shown' = shown
    BY <1>7 DEF vars, View
  <2>2. QED
    BY <2>1 DEF Promise!vars
<1>8. QED
  BY <1>1, <1>2, <1>4, <1>5, <1>6, <1>7 DEF Next, Deliver

(***************************************************************************)
(* The processor implements TrustedView: the views it hands out are an     *)
(* advancing, consistent cut of what the exchange published, dark after a  *)
(* skipped number and lit again only by a snapshot.                        *)
(***************************************************************************)
THEOREM ProcessorImplementsTrustedView == Spec => ImplementsTrustedView
<1>1. Init => Promise!Init
  BY DEF Init, Promise!Init, View
<1>2. QED
  BY <1>1, NextRefines, ProcessorInvariant, PTL DEF Spec, ImplementsTrustedView, Promise!Spec

----------------------------------------------------------------------------
(* The live feed. *)

\* Every step of the feed is a step of the processor's specification, or none.
LEMMA FeedStepDrives == FeedNext => [Next]_vars
<1> SUFFICES ASSUME FeedNext PROVE [Next]_vars
  OBVIOUS
<1>1. CASE Connect
  BY <1>1 DEF Connect, Next
<1>2. CASE ReceiveBookFrame
  <2>a. PICK s \in Sid : \E n \in 1 .. Len(pub[s]) :
            /\ Receive(s, n)
            /\ \E f \in {FrameAt(s, n)} \cup Damaged(s, n) : Process(f)
    BY <1>2 DEF ReceiveBookFrame
  <2>b. PICK n \in 1 .. Len(pub[s]) :
            /\ Receive(s, n)
            /\ \E f \in {FrameAt(s, n)} \cup Damaged(s, n) : Process(f)
    BY <2>a
  <2>1. PICK f \in {FrameAt(s, n)} \cup Damaged(s, n) :
            Receive(s, n) /\ Process(f)
    BY <2>b
  <2>2. DeliverIntact(s, n) \/ DeliverDamaged(s, n)
    BY <2>1 DEF DeliverIntact, DeliverDamaged
  <2>3. QED
    BY <2>2 DEF Next, Deliver
<1>3. CASE ReceiveWithoutEnvelope
  BY <1>3 DEF ReceiveWithoutEnvelope, Next, Deliver
<1>4. CASE HandleResync
  BY <1>4 DEF HandleResync, Next
<1>5. CASE ExchangeActs
  BY <1>5 DEF ExchangeActs, Next
<1>6. CASE StopConnecting \/ ConnectFails \/ AuthenticationFails \/ ReceiveMalformed
           \/ ReceiveOther \/ Resume \/ ReceiveEnds \/ Disconnect \/ Close \/ GoQuiet \/ Tick
  BY <1>6 DEF StopConnecting, ConnectFails, AuthenticationFails, ReceiveMalformed,
     ReceiveOther, Resume, ReceiveEnds, Disconnect, Close, GoQuiet, Tick
<1>7. QED
  BY <1>1, <1>2, <1>3, <1>4, <1>5, <1>6 DEF FeedNext

(***************************************************************************)
(* The live feed implements BookStream's specification.                    *)
(***************************************************************************)
THEOREM FeedDrivesProcessor == FeedSpec => Spec
<1>1. FeedInit => Init
  BY DEF FeedInit
<1>2. [FeedNext]_allVars => [Next]_vars
  BY FeedStepDrives DEF allVars
<1>3. QED
  BY <1>1, <1>2, PTL DEF FeedSpec, Spec

LEMMA FeedIInv == FeedSpec => []IInv
BY FeedDrivesProcessor, ProcessorInvariant, PTL

LEMMA FeedExact == FeedSpec => []TrustedIsExact
BY FeedDrivesProcessor, TrustedBooksAreExact, PTL

----------------------------------------------------------------------------
(* What is told and confirmed. *)

\* A book frame either leaves a market's view alone, hides it, or is an applied
\* frame of that market.
LEMMA ViewChangesByApplying ==
    ASSUME IInv, epoch > 0, NEW s \in Sid, NEW n \in 1 .. Len(pub[s]), NEW f,
           FromWire(f, s, n), Process(f), NEW t \in Ticker, View(t)' # None
    PROVE  View(t)' = View(t) \/ (t = f.ticker /\ IsApplied(f))
<1> USE DEF IInv
<1>1. f.ticker \in Ticker /\ KeyOf(f) = <<epoch, s>> /\ f.kind \in {"snapshot", "delta"}
  BY DEF FromWire, Frame, KeyOf
<1>2. CASE t # f.ticker \/ ~InSequence(f)
  <2>1. CASE RejectGap(f)
    <3>1. books'[t] = books[t] /\ stream'[t] = stream[t] /\ stale' = stale
          /\ poisoned \subseteq poisoned'
      BY <2>1 DEF RejectGap
    <3>2. QED
      BY <3>1 DEF View
  <2>2. QED
    BY <1>2, <2>1, ViewsUnlessApplied
<1>3. CASE t = f.ticker /\ InSequence(f) /\ ~IsApplied(f)
  <2>1. RejectSnapshot(f) \/ RejectDelta(f) \/ RejectNoSnapshot(f) \/ RejectSilently(f)
    BY <1>1, <1>3 DEF Process, IsApplied, ApplySnapshot, ApplyDelta, RejectGap,
       SkipsAhead, RejectNoEnvelope, InSequence, Live, FromWire, TypeOK
  <2>2. CASE RejectSnapshot(f) \/ RejectDelta(f)
    BY <1>3, <2>2 DEF RejectSnapshot, RejectDelta, MarkStale, View
  <2>3. CASE RejectNoSnapshot(f)
    BY <1>3, <2>3 DEF RejectNoSnapshot, Patchable, View
  <2>4. CASE RejectSilently(f)
    BY <2>4 DEF RejectSilently, procVars, View
  <2>5. QED
    BY <2>1, <2>2, <2>3, <2>4
<1>4. QED
  BY <1>2, <1>3

ToldInv == /\ told \in [Ticker -> Book \cup {None}]
           /\ ToldIsTrusted

LEMMA ToldStep == IInv /\ ToldInv /\ [FeedNext]_allVars => ToldInv'
<1> SUFFICES ASSUME IInv, ToldInv, [FeedNext]_allVars PROVE ToldInv'
  OBVIOUS
<1> USE DEF ToldInv
<1>1. CASE Connect
  BY <1>1 DEF Connect, OnConnected, ToldIsTrusted, View
<1>2. CASE ReceiveBookFrame
  <2>a. PICK s \in Sid : \E n \in 1 .. Len(pub[s]) :
            /\ Receive(s, n)
            /\ \E f \in {FrameAt(s, n)} \cup Damaged(s, n) : Process(f) /\ TellApplied(f)
    BY <1>2 DEF ReceiveBookFrame
  <2>b. PICK n \in 1 .. Len(pub[s]) :
            /\ Receive(s, n)
            /\ \E f \in {FrameAt(s, n)} \cup Damaged(s, n) : Process(f) /\ TellApplied(f)
    BY <2>a
  <2>1. PICK f \in {FrameAt(s, n)} \cup Damaged(s, n) :
            Receive(s, n) /\ Process(f) /\ TellApplied(f)
    BY <2>b
  <2>2. TypeOK /\ epoch > 0
    <3>1. n >= 1 /\ n <= Len(pub[s]) /\ Len(pub[s]) \in Nat
      BY DEF IInv, TypeOK
    <3>2. QED
      BY <3>1 DEF IInv, PublishedIsCoherent
  <2>3. FromWire(f, s, n)
    BY <2>1, <2>2, IntactIsTruthful, DamageIsDetectable
  <2>4. f \in Frame /\ f.ticker \in Ticker
    BY <2>3 DEF FromWire, Frame
  <2>5. View(f.ticker)' # None => View(f.ticker)' \in Book
    <3>1. books' \in [Ticker -> Book \cup {None}]
      BY <2>1, <2>2, <2>4, ProcessTypes
    <3>2. QED
      BY <2>4, <3>1 DEF View
  <2>6. told' \in [Ticker -> Book \cup {None}]
    BY <2>1, <2>4, <2>5 DEF TellApplied
  <2>7. ASSUME NEW t \in Ticker, View(t)' # None
        PROVE  told'[t] = View(t)'
    <3>1. View(t)' = View(t) \/ (t = f.ticker /\ IsApplied(f))
      BY <2>1, <2>2, <2>3, <2>7, ViewChangesByApplying
    <3>2. CASE t = f.ticker /\ IsApplied(f)
      BY <2>1, <2>4, <2>7, <3>2 DEF TellApplied
    <3>3. CASE View(t)' = View(t) /\ ~(t = f.ticker /\ IsApplied(f))
      <4>1. told'[t] = told[t]
        BY <2>1, <2>4, <3>3 DEF TellApplied
      <4>2. QED
        BY <2>7, <3>3, <4>1 DEF ToldIsTrusted
    <3>4. QED
      BY <3>1, <3>2, <3>3
  <2>8. QED
    BY <2>6, <2>7 DEF ToldIsTrusted
<1>3. CASE ReceiveWithoutEnvelope
  <2>a. PICK s \in Sid : \E n \in 1 .. Len(pub[s]) : DeliverWithoutEnvelope(s, n)
    BY <1>3 DEF ReceiveWithoutEnvelope
  <2>1. PICK n \in 1 .. Len(pub[s]) : DeliverWithoutEnvelope(s, n)
    BY <2>a
  <2>2. books' = books /\ stream' = stream /\ poisoned' = poisoned /\ stale' = stale
        /\ told' = told
    BY <1>3, <2>1, NoEnvelopeStep DEF ReceiveWithoutEnvelope
  <2>3. QED
    BY <2>2 DEF ToldIsTrusted, View
<1>4. CASE /\ UNCHANGED <<books, stream, poisoned, stale, told>>
  BY <1>4 DEF ToldIsTrusted, View
<1>5. ExchangeActs => UNCHANGED <<books, stream, poisoned, stale, told>>
  BY DEF ExchangeActs, ExchangeMove, ExchangeResnapshot, Publish, procVars
<1>6. HandleResync => UNCHANGED <<books, stream, poisoned, stale, told>>
  BY DEF HandleResync, AcknowledgeResync, vars
<1>7. CASE StopConnecting \/ ConnectFails \/ AuthenticationFails \/ ReceiveMalformed
           \/ ReceiveOther \/ Resume \/ ReceiveEnds \/ Disconnect \/ Close \/ GoQuiet \/ Tick
           \/ UNCHANGED allVars
  <2>1. UNCHANGED <<books, stream, poisoned, stale, told>>
    BY <1>7 DEF StopConnecting, ConnectFails, AuthenticationFails, ReceiveMalformed,
       ReceiveOther, Resume, ReceiveEnds, Disconnect, Close, GoQuiet, Tick, vars,
       allVars, feedVars
  <2>2. QED
    BY <1>4, <2>1
<1>8. QED
  BY <1>1, <1>2, <1>3, <1>4, <1>5, <1>6, <1>7 DEF FeedNext

LEMMA ToldCorrect == FeedSpec => []ToldInv
<1>1. FeedInit => ToldInv
  BY DEF FeedInit, Init, ToldInv, ToldIsTrusted, View
<1>2. QED
  BY <1>1, ToldStep, FeedIInv, PTL DEF FeedSpec

(***************************************************************************)
(* What the adapter would confirm is what the strategy was last told.      *)
(***************************************************************************)
THEOREM ToldBooksAreTrusted == FeedSpec => []ToldIsTrusted
<1>1. ToldInv => ToldIsTrusted
  BY DEF ToldInv
<1>2. QED
  BY <1>1, ToldCorrect, PTL

LEMMA ConfirmStep ==
    TrustedIsExact /\ ToldIsTrusted /\ ConfirmIsExact /\ [FeedNext]_allVars
        => ConfirmIsExact'
<1> SUFFICES ASSUME TrustedIsExact, ToldIsTrusted, ConfirmIsExact, [FeedNext]_allVars
             PROVE  ConfirmIsExact'
  OBVIOUS
<1>1. CASE Tick
  BY <1>1 DEF Tick, vars, ConfirmIsExact, TrustedIsExact, ToldIsTrusted
<1>2. CASE UNCHANGED allVars
  BY <1>2 DEF allVars, vars, feedVars, ConfirmIsExact
<1>3. CASE FeedNext /\ ~Tick
  <2>1. confirmed' = {}
    BY <1>3 DEF FeedNext, StopConnecting, ConnectFails, AuthenticationFails, Connect,
       ReceiveBookFrame, ReceiveWithoutEnvelope, ReceiveMalformed, ReceiveOther,
       HandleResync, Resume, ReceiveEnds, Disconnect, Close, GoQuiet, ExchangeActs
  <2>2. QED
    BY <2>1 DEF ConfirmIsExact
<1>4. QED
  BY <1>1, <1>2, <1>3

(***************************************************************************)
(* Every confirmation is exact: the strategy's book is the exchange's at   *)
(* the newest frame received on that subscription.                         *)
(***************************************************************************)
THEOREM ConfirmationsAreExact == FeedSpec => []ConfirmIsExact
<1>1. FeedInit => ConfirmIsExact
  BY DEF FeedInit, ConfirmIsExact
<1>2. QED
  BY <1>1, ConfirmStep, FeedExact, ToldBooksAreTrusted, PTL DEF FeedSpec

----------------------------------------------------------------------------
(* No quiet hole. *)

\* Where the request for a resync is, while there is a hole.
HoleIsReported ==
    /\ phase = "receiving" => ~needsResync /\ \A t \in Ticker : ~Hole(t)
    /\ phase = "handling" => \A t \in Ticker : Hole(t) => needsResync
    /\ phase = "yielded" => /\ ~needsResync
                            /\ \A t \in Ticker : Hole(t) => resyncReason

LEMMA HoleStep == IInv /\ HoleIsReported /\ [FeedNext]_allVars => HoleIsReported'
<1> SUFFICES ASSUME IInv, HoleIsReported, [FeedNext]_allVars PROVE HoleIsReported'
  OBVIOUS
<1>1. CASE Connect
  BY <1>1 DEF Connect, OnConnected, HoleIsReported, Hole
<1>2. CASE ReceiveBookFrame
  <2>a. PICK s \in Sid : \E n \in 1 .. Len(pub[s]) :
            /\ Receive(s, n)
            /\ \E f \in {FrameAt(s, n)} \cup Damaged(s, n) : Process(f)
    BY <1>2 DEF ReceiveBookFrame
  <2>b. PICK n \in 1 .. Len(pub[s]) :
            /\ Receive(s, n)
            /\ \E f \in {FrameAt(s, n)} \cup Damaged(s, n) : Process(f)
    BY <2>a
  <2>1. PICK f \in {FrameAt(s, n)} \cup Damaged(s, n) :
            Receive(s, n) /\ Process(f)
    BY <2>b
  <2>2. TypeOK /\ epoch > 0
    <3>1. n >= 1 /\ n <= Len(pub[s]) /\ Len(pub[s]) \in Nat
      BY DEF IInv, TypeOK
    <3>2. QED
      BY <3>1 DEF IInv, PublishedIsCoherent
  <2>3. f.ticker \in Ticker
    BY <2>1, <2>2, IntactIsTruthful, DamageIsDetectable DEF FromWire, Frame
  <2>4. phase = "receiving" /\ phase' = "handling"
    BY <1>2 DEF ReceiveBookFrame
  <2>5. SUFFICES ASSUME NEW t \in Ticker, Hole(t)', ~needsResync' PROVE FALSE
    BY <2>4 DEF HoleIsReported
  <2>6. ~Hole(t)
    BY <2>4 DEF HoleIsReported
  <2>7. RejectSilently(f) \/ ApplySnapshot(f) \/ ApplyDelta(f)
    BY <2>1, <2>5 DEF Process, RejectNoEnvelope, RejectGap, RejectSnapshot,
       RejectNoSnapshot, RejectDelta, MarkStale
  <2>8. CASE RejectSilently(f)
    BY <2>5, <2>6, <2>8 DEF RejectSilently, procVars, Hole, View
  <2>9. CASE ApplySnapshot(f) \/ ApplyDelta(f)
    <3>1. InSequence(f) /\ Advance(f)
      BY <2>9 DEF ApplySnapshot, ApplyDelta
    <3>2. stream' = [stream EXCEPT ![f.ticker] = KeyOf(f)] /\ poisoned' = poisoned
          /\ KeyOf(f) \notin poisoned
      BY <3>1 DEF Advance, InSequence, Live
    <3>3. CASE t = f.ticker
      <4>1. t \notin stale'
        BY <2>9, <3>3 DEF ApplySnapshot, ApplyDelta, Patchable
      <4>2. stream'[t] = KeyOf(f)
        BY <2>2, <3>2, <3>3 DEF TypeOK
      <4>3. QED
        BY <2>5, <3>2, <4>1, <4>2 DEF Hole, View
    <3>4. CASE t # f.ticker
      <4>1. books'[t] = books[t] /\ stream'[t] = stream[t]
            /\ (t \in stale' <=> t \in stale)
        BY <2>2, <2>3, <2>9, <3>2, <3>4 DEF ApplySnapshot, ApplyDelta, TypeOK
      <4>2. QED
        BY <2>5, <2>6, <3>2, <4>1 DEF Hole, View
    <3>5. QED
      BY <3>3, <3>4
  <2>10. QED
    BY <2>7, <2>8, <2>9
<1>3. CASE ReceiveWithoutEnvelope
  <2>a. PICK s \in Sid : \E n \in 1 .. Len(pub[s]) : DeliverWithoutEnvelope(s, n)
    BY <1>3 DEF ReceiveWithoutEnvelope
  <2>1. PICK n \in 1 .. Len(pub[s]) : DeliverWithoutEnvelope(s, n)
    BY <2>a
  <2>2. needsResync' = TRUE /\ phase' = "handling"
    BY <1>3, <2>1, NoEnvelopeStep DEF ReceiveWithoutEnvelope
  <2>3. QED
    BY <2>2 DEF HoleIsReported
<1>4. CASE HandleResync
  <2>1. UNCHANGED <<books, stream, poisoned, stale>> /\ phase' = "yielded"
        /\ phase = "handling"
    BY <1>4 DEF HandleResync, AcknowledgeResync, vars
  <2>2. CASE needsResync
    BY <1>4, <2>1, <2>2 DEF HandleResync, AcknowledgeResync, HoleIsReported
  <2>3. CASE ~needsResync
    BY <1>4, <2>1, <2>3 DEF HandleResync, HoleIsReported, Hole, View, vars
  <2>4. QED
    BY <2>2, <2>3
<1>5. CASE ReceiveMalformed \/ ReceiveOther
  BY <1>5 DEF ReceiveMalformed, ReceiveOther, vars, HoleIsReported, Hole, View
<1>6. CASE Resume
  BY <1>6 DEF Resume, vars, HoleIsReported, Hole, View
<1>7. CASE StopConnecting \/ ConnectFails \/ AuthenticationFails \/ ReceiveEnds \/ Disconnect
  <2>1. phase' \in {"done", "failed", "closing", "connecting"}
    BY <1>7 DEF StopConnecting, ConnectFails, AuthenticationFails, ReceiveEnds,
       Disconnect, NextAttempt
  <2>2. QED
    BY <2>1 DEF HoleIsReported
<1>8. CASE Close \/ GoQuiet \/ Tick \/ UNCHANGED allVars
  <2>1. UNCHANGED <<books, stream, poisoned, stale, needsResync, phase, resyncReason>>
    BY <1>8 DEF Close, GoQuiet, Tick, vars, clientVars, allVars, feedVars
  <2>2. QED
    BY <2>1 DEF HoleIsReported, Hole, View
<1>9. CASE ExchangeActs
  <2>1. UNCHANGED <<books, stream, poisoned, stale, needsResync, phase, resyncReason>>
    BY <1>9 DEF ExchangeActs, ExchangeMove, ExchangeResnapshot, Publish, procVars, clientVars
  <2>2. QED
    BY <2>1 DEF HoleIsReported, Hole, View
<1>10. QED
  BY <1>1, <1>2, <1>3, <1>4, <1>5, <1>6, <1>7, <1>8, <1>9 DEF FeedNext

(***************************************************************************)
(* While the client waits for the next frame, no market is stuck           *)
(* untrusted: a gap or an inconsistent book has broken the connection.     *)
(***************************************************************************)
THEOREM NoHoleIsQuiet == FeedSpec => []NoQuietHole
<1>1. FeedInit => HoleIsReported
  BY DEF FeedInit, HoleIsReported
<1>2. HoleIsReported => NoQuietHole
  BY DEF HoleIsReported, NoQuietHole
<1>3. QED
  BY <1>1, <1>2, HoleStep, FeedIInv, PTL DEF FeedSpec

----------------------------------------------------------------------------
(* The recorder: a replay, row by row. *)

Less == {pair \in Nat \X Nat : pair[1] < pair[2]}

LEMMA LessIsWellFounded == IsWellFoundedOn(Less, Nat)
BY NatLessThanWellFounded DEF Less, OpToRel, IsWellFoundedOn

\* Induction over the naturals, for a set of them.
LEMMA SetInduction ==
    ASSUME NEW T, T \subseteq Nat, 0 \in T, \A n \in T : n + 1 \in T
    PROVE  T = Nat
<1>1. SUFFICES ASSUME Nat \ T # {} PROVE FALSE
  OBVIOUS
<1>2. PICK x \in Nat \ T : \A y \in Nat \ T : <<y, x>> \notin Less
  <2>1. Nat \ T \subseteq Nat
    OBVIOUS
  <2>2. QED
    BY <1>1, <2>1, LessIsWellFounded, WFMin, Zenon
<1>3. x # 0 /\ x - 1 \in Nat
  BY <1>2
<1>4. x - 1 \in T
  <2>1. <<x - 1, x>> \in Less
    BY <1>3 DEF Less
  <2>2. QED
    BY <1>2, <1>3, <2>1
<1>5. QED
  BY <1>2, <1>3, <1>4

\* f[i] is the replay after the first i rows.
Follows(f, st, rows, kinds, n) ==
    f = [i \in 0 .. n |-> IF i = 0 THEN st ELSE Given(f[i-1], rows[i], kinds)]

LEMMA ReplaysExist ==
    ASSUME NEW n \in Nat, NEW st, NEW rows, NEW kinds
    PROVE  \E f : Follows(f, st, rows, kinds, n)
<1> DEFINE T == {m \in Nat : \E f : Follows(f, st, rows, kinds, m)}
<1>1. 0 \in T
  <2>1. Follows([i \in 0 .. 0 |-> st], st, rows, kinds, 0)
    BY DEF Follows
  <2>2. QED
    BY <2>1
<1>2. ASSUME NEW m \in T PROVE m + 1 \in T
  <2>1. PICK f : Follows(f, st, rows, kinds, m)
    BY <1>2
  <2> DEFINE next == Given(f[m], rows[m+1], kinds)
             g == [i \in 0 .. m+1 |-> IF i = m+1 THEN next ELSE f[i]]
  <2>2. m \in Nat
    BY <1>2
  <2>3. \A i \in 0 .. m : f[i] = (IF i = 0 THEN st ELSE Given(f[i-1], rows[i], kinds))
    BY <2>1 DEF Follows
  <2>4. \A i \in 0 .. m+1 : g[i] = (IF i = 0 THEN st ELSE Given(g[i-1], rows[i], kinds))
    <3>1. TAKE i \in 0 .. m+1
    <3>2. CASE i = m + 1
      <4>1. g[i] = next /\ g[i-1] = f[m] /\ i # 0 /\ i = m + 1
        BY <2>2, <3>2
      <4>2. QED
        BY <4>1
    <3>3. CASE i # m + 1
      <4>1. i \in 0 .. m /\ (i # 0 => i - 1 \in 0 .. m)
        BY <2>2, <3>3
      <4>2. g[i] = f[i] /\ (i # 0 => g[i-1] = f[i-1])
        BY <2>2, <4>1
      <4>3. QED
        BY <2>3, <4>1, <4>2
    <3>4. QED
      BY <3>2, <3>3
  <2>5. Follows(g, st, rows, kinds, m+1)
    BY <2>4 DEF Follows
  <2>6. QED
    BY <2>2, <2>5
<1>3. T = Nat
  <2> HIDE DEF T
  <2>1. T \subseteq Nat
    BY DEF T
  <2>2. QED
    BY <1>1, <1>2, <2>1, SetInduction
<1>4. QED
  BY <1>3

LEMMA RebuiltByRows ==
    ASSUME NEW st, NEW rows, NEW kinds, Len(rows) \in Nat
    PROVE  \E f : /\ Follows(f, st, rows, kinds, Len(rows))
                  /\ Rebuilt(st, rows, kinds) = f[Len(rows)]
<1> DEFINE f == CHOOSE f : Follows(f, st, rows, kinds, Len(rows))
<1>1. Follows(f, st, rows, kinds, Len(rows))
  BY ReplaysExist
<1>2. Rebuilt(st, rows, kinds) = f[Len(rows)]
  BY DEF Rebuilt, Follows
<1>3. QED
  BY <1>1, <1>2

LEMMA FollowingIsUnique ==
    ASSUME NEW n \in Nat, NEW st, NEW rows, NEW more, NEW kinds, \A i \in 1 .. n : more[i] = rows[i],
           NEW m \in Nat, n <= m, NEW f, NEW g,
           Follows(f, st, rows, kinds, n), Follows(g, st, more, kinds, m)
    PROVE  g[n] = f[n]
<1> DEFINE T == {i \in Nat : i <= n => g[i] = f[i]}
<1>a. \A i \in 0 .. n : f[i] = (IF i = 0 THEN st ELSE Given(f[i-1], rows[i], kinds))
  BY DEF Follows
<1>b. \A i \in 0 .. m : g[i] = (IF i = 0 THEN st ELSE Given(g[i-1], more[i], kinds))
  BY DEF Follows
<1>1. 0 \in T
  BY <1>a, <1>b
<1>2. ASSUME NEW i \in T PROVE i + 1 \in T
  <2>1. SUFFICES ASSUME i + 1 <= n PROVE g[i+1] = f[i+1]
    BY <1>2
  <2>2. i \in Nat /\ g[i] = f[i] /\ i + 1 \in 1 .. n /\ i + 1 \in 1 .. m /\ (i + 1) - 1 = i
    BY <1>2, <2>1
  <2>3. f[i+1] = Given(f[i], rows[i+1], kinds) /\ g[i+1] = Given(g[i], more[i+1], kinds)
    BY <1>a, <1>b, <2>2
  <2>4. QED
    BY <2>2, <2>3
<1>3. T = Nat
  <2> HIDE DEF T
  <2>1. T \subseteq Nat
    BY DEF T
  <2>2. QED
    BY <1>1, <1>2, <2>1, SetInduction
<1>4. QED
  BY <1>3

\* A replay of nothing, and of one row more.
LEMMA RebuiltOfNone == ASSUME NEW st, NEW kinds PROVE Rebuilt(st, <<>>, kinds) = st
<1>1. PICK f : Follows(f, st, <<>>, kinds, 0) /\ Rebuilt(st, <<>>, kinds) = f[0]
  BY RebuiltByRows
<1>2. QED
  BY <1>1 DEF Follows

LEMMA RebuiltWithRow ==
    ASSUME NEW S, NEW st, NEW rows \in Seq(S), NEW row \in S, NEW kinds
    PROVE  Rebuilt(st, rows \o <<row>>, kinds) = Given(Rebuilt(st, rows, kinds), row, kinds)
<1> DEFINE more == Append(rows, row)
           n == Len(rows)
<1>1. more = rows \o <<row>>
  BY AppendIsConcat
<1>2. /\ n \in Nat /\ Len(more) = n + 1 /\ more[n+1] = row
      /\ \A i \in 1 .. n : more[i] = rows[i]
  BY AppendProperties
<1> HIDE DEF more, n
<1>3. PICK f : Follows(f, st, rows, kinds, n) /\ Rebuilt(st, rows, kinds) = f[n]
  BY <1>2, RebuiltByRows DEF n
<1>4. PICK g : Follows(g, st, more, kinds, n + 1) /\ Rebuilt(st, more, kinds) = g[n+1]
  BY <1>2, RebuiltByRows
<1>5. g[n] = f[n]
  BY <1>2, <1>3, <1>4, FollowingIsUnique
<1>6. g[n+1] = Given(g[n], row, kinds)
  <2>1. n + 1 \in 0 .. n + 1 /\ n + 1 # 0 /\ (n + 1) - 1 = n
    BY <1>2
  <2>2. QED
    BY <1>2, <1>4, <2>1 DEF Follows
<1>7. QED
  BY <1>1, <1>3, <1>4, <1>5, <1>6

----------------------------------------------------------------------------
(* What rows say. *)

Row ==
    [kind : {"snapshot"}, ticker : Ticker, sid : Sid, seq : Nat, book : Book]
    \cup [kind : {"delta"}, ticker : Ticker, sid : Sid, seq : Nat, cell : AnyCell, delta : Int]

\* A row is of a frame the exchange sent; what a damaged change says cannot be true.
GenuineIn(row, log) ==
    LET sent == log[row.sid][row.seq]
    IN  /\ row \in Row
        /\ row.seq \in 1 .. Len(log[row.sid])
        /\ row.kind = sent.kind /\ row.ticker = sent.ticker
        /\ row.kind = "snapshot" => row.book = sent.after[row.ticker]
        /\ row.kind = "delta" =>
               \/ ~CheckPrice(row.cell[2])
               \/ /\ row.cell = sent.cell
                  /\ row.delta \in {sent.delta, sent.delta - sent.after[row.ticker][row.cell] - 1}
GenuineRows(rows, log) == rows \in Seq(Row) /\ \A i \in 1 .. Len(rows) : GenuineIn(rows[i], log)
Genuine(row) == GenuineIn(row, pub)
AllGenuine(rows) == GenuineRows(rows, pub)

Replay == [books : [Ticker -> Book \cup {None}], last : [Sid -> Nat],
           poisoned : SUBSET Sid, stale : SUBSET Ticker]

\* What a replay keeps is the exchange's at the frame replayed last, shown or not.
ExactIn(st, log) ==
    /\ st \in Replay
    /\ \A t \in Ticker : st.books[t] # None /\ t \notin st.stale =>
           /\ st.last[SidOf(t)] \in 1 .. Len(log[SidOf(t)])
           /\ st.books[t] = log[SidOf(t)][st.last[SidOf(t)]].after[t]
Exact(st) == ExactIn(st, pub)

\* A change that is accepted after the frame before makes the exchange's book.
LEMMA AcceptedChangeIsTrue ==
    ASSUME IInv, NEW row, Genuine(row), row.kind = "delta", row.seq # 1,
           DeltaOK(pub[row.sid][row.seq-1].after[row.ticker], row.cell, row.delta)
    PROVE  /\ pub[row.sid][row.seq].after[row.ticker] =
                  WithDelta(pub[row.sid][row.seq-1].after[row.ticker], row.cell, row.delta)
           /\ pub[row.sid][row.seq].after[row.ticker] \in Book
<1> DEFINE s == row.sid
           n == row.seq
           t == row.ticker
           before == pub[s][n-1].after[t]
           sent == pub[s][n]
<1> USE DEF IInv
<1>1. s \in Sid /\ t \in Ticker /\ row.delta \in Int /\ row.cell \in AnyCell
      /\ n \in 1 .. Len(pub[s]) /\ Len(pub[s]) \in Nat
  <2>1. s \in Sid /\ t \in Ticker /\ row.delta \in Int /\ row.cell \in AnyCell
    BY DEF Genuine, GenuineIn, Row
  <2>2. n \in 1 .. Len(pub[s])
    BY DEF Genuine, GenuineIn
  <2>3. pub[s] \in Seq(Published)
    BY <2>1 DEF TypeOK
  <2>4. QED
    BY <2>1, <2>2, <2>3
<1>2. n \in 2 .. Len(pub[s]) /\ n - 1 \in 1 .. Len(pub[s])
  BY <1>1
<1>3. sent \in Published /\ pub[s][n-1] \in Published
  BY <1>1, <1>2, FrameTypes
<1>4. Continues(pub[s][n-1].after, sent) /\ sent.kind = "delta" /\ sent.ticker = t
  BY <1>1, <1>2 DEF PublishedIsCoherent, Genuine, GenuineIn
<1>5. before \in Book /\ sent.after[t] \in Book /\ sent.cell \in Cell /\ sent.delta \in Int
      /\ pub[s][n-1].after \in [Ticker -> Book]
  BY <1>1, <1>3 DEF Published
<1>6. sent.after[t] = WithDelta(before, sent.cell, sent.delta)
  BY <1>1, <1>4, <1>5 DEF Continues
<1>7. CheckPrice(row.cell[2]) /\ before[row.cell] + row.delta >= 0
  BY DEF DeltaOK
<1>8. /\ row.cell = sent.cell
      /\ row.delta \in {sent.delta, sent.delta - sent.after[t][row.cell] - 1}
  BY <1>7 DEF Genuine, GenuineIn
<1>9. before[sent.cell] \in Nat /\ sent.after[t][sent.cell] = before[sent.cell] + sent.delta
  BY <1>5, <1>6 DEF WithDelta, Book
<1>10. row.delta = sent.delta
  <2> HIDE DEF before, sent, t
  <2>1. before[row.cell] \in Nat /\ sent.after[t][row.cell] = before[row.cell] + sent.delta
    BY <1>8, <1>9
  <2>2. row.delta # sent.delta - sent.after[t][row.cell] - 1
    BY <1>1, <1>5, <1>7, <2>1
  <2>3. QED
    BY <1>8, <2>2
<1>11. QED
  BY <1>5, <1>6, <1>8, <1>10

LEMMA GenuineIs ==
    ASSUME IInv, NEW row, Genuine(row)
    PROVE  /\ row.sid \in Sid /\ row.ticker \in Ticker /\ SidOf(row.ticker) = row.sid
           /\ row.seq \in 1 .. Len(pub[row.sid]) /\ row.seq \in Nat
           /\ Len(pub[row.sid]) \in Nat /\ epoch > 0
           /\ row.kind \in {"snapshot", "delta"}
           /\ row.kind = "snapshot" => row.book \in Book
<1>1. row.sid \in Sid /\ row.ticker \in Ticker /\ row.kind \in {"snapshot", "delta"}
      /\ row.seq \in Nat /\ (row.kind = "snapshot" => row.book \in Book)
  BY DEF Genuine, GenuineIn, Row
<1>2. pub[row.sid] \in Seq(Published) /\ Len(pub[row.sid]) \in Nat
  BY <1>1 DEF IInv, TypeOK
<1>3. row.seq \in 1 .. Len(pub[row.sid]) /\ row.ticker = pub[row.sid][row.seq].ticker
  BY DEF Genuine, GenuineIn
<1>4. SidOf(row.ticker) = row.sid /\ epoch > 0
  BY <1>1, <1>2, <1>3 DEF IInv, PublishedIsCoherent
<1>5. QED
  BY <1>1, <1>2, <1>3, <1>4

Dropped(st, row) == row.sid \in st.poisoned \/ (st.last[row.sid] # 0 /\ row.seq <= st.last[row.sid])
Missing(st, row) == st.last[row.sid] # 0 /\ row.seq > st.last[row.sid] + 1
Patches(st, row) == st.books[row.ticker] # None /\ row.ticker \notin st.stale
Fits(st, row) == DeltaOK(st.books[row.ticker], row.cell, row.delta)

\* What a replay does with a row, by cases.
Outcome(st, row, new) ==
    LET last == [st.last EXCEPT ![row.sid] = row.seq]
        proceeds == ~Dropped(st, row) /\ ~Missing(st, row)
    IN  /\ Dropped(st, row) => new = st
        /\ ~Dropped(st, row) /\ Missing(st, row) =>
               new = [st EXCEPT !.poisoned = @ \cup {row.sid}]
        /\ proceeds /\ row.kind = "delta" /\ ~Patches(st, row) =>
               new = [st EXCEPT !.last = last]
        /\ proceeds /\ row.kind = "delta" /\ Patches(st, row) /\ Fits(st, row) =>
               new = [st EXCEPT !.last = last, !.books =
                          [st.books EXCEPT ![row.ticker] =
                              WithDelta(st.books[row.ticker], row.cell, row.delta)]]
        /\ proceeds /\ row.kind = "delta" /\ Patches(st, row) /\ ~Fits(st, row) =>
               new = [st EXCEPT !.last = last, !.stale = @ \cup {row.ticker}]
        /\ proceeds /\ row.kind # "delta" =>
               new = [st EXCEPT !.last = last, !.stale = @ \ {row.ticker},
                                !.books = [@ EXCEPT ![row.ticker] = row.book]]

LEMMA ReplayedIs ==
    ASSUME NEW st \in Replay, NEW row, row.sid \in Sid, row.ticker \in Ticker
    PROVE  Outcome(st, row, Replayed(st, row))
<1> DEFINE new == Replayed(st, row)
           last == [st.last EXCEPT ![row.sid] = row.seq]
           proceeds == ~Dropped(st, row) /\ ~Missing(st, row)
<1>1. Dropped(st, row) => new = st
  BY DEF Replayed, Dropped
<1>2. ~Dropped(st, row) /\ Missing(st, row) => new = [st EXCEPT !.poisoned = @ \cup {row.sid}]
  BY DEF Replayed, Dropped, Missing
<1>3. proceeds => new = IF row.kind = "delta" THEN Patched(Numbered(st, row), row)
                        ELSE [Numbered(st, row) EXCEPT !.books[row.ticker] = row.book,
                                                       !.stale = @ \ {row.ticker}]
  BY DEF Replayed, Dropped, Missing
<1>4. Numbered(st, row) = [st EXCEPT !.last = last] /\ Numbered(st, row).books = st.books
      /\ Numbered(st, row).stale = st.stale
  BY DEF Numbered, Replay
<1> HIDE DEF last
<1>5. proceeds /\ row.kind = "delta" /\ ~Patches(st, row) => new = [st EXCEPT !.last = last]
  BY <1>3, <1>4 DEF Patched, Patches
<1>6. proceeds /\ row.kind = "delta" /\ Patches(st, row) /\ Fits(st, row) =>
          new = [st EXCEPT !.last = last, !.books =
                    [st.books EXCEPT ![row.ticker] =
                        WithDelta(st.books[row.ticker], row.cell, row.delta)]]
  <2>1. SUFFICES ASSUME proceeds, row.kind = "delta", Patches(st, row), Fits(st, row)
                 PROVE  new = [st EXCEPT !.last = last, !.books =
                            [st.books EXCEPT ![row.ticker] =
                                WithDelta(st.books[row.ticker], row.cell, row.delta)]]
    OBVIOUS
  <2> DEFINE num == Numbered(st, row)
             book == WithDelta(st.books[row.ticker], row.cell, row.delta)
  <2>2. new = [num EXCEPT !.books[row.ticker] = WithDelta(@, row.cell, row.delta)]
    BY <1>3, <1>4, <2>1 DEF Patched, Patches, Fits
  <2>3. new = [num EXCEPT !.books = [st.books EXCEPT ![row.ticker] = book]]
    BY <1>4, <2>2 DEF Replay
  <2> HIDE DEF book, new
  <2>4. new = [st EXCEPT !.last = last, !.books = [st.books EXCEPT ![row.ticker] = book]]
    BY <1>4, <2>3
  <2>5. QED
    BY <2>4 DEF book
<1>7. proceeds /\ row.kind = "delta" /\ Patches(st, row) /\ ~Fits(st, row) =>
          new = [st EXCEPT !.last = last, !.stale = @ \cup {row.ticker}]
  BY <1>3, <1>4 DEF Patched, Patches, Fits, Replay
<1>8. proceeds /\ row.kind # "delta" =>
          new = [st EXCEPT !.last = last, !.stale = @ \ {row.ticker},
                           !.books = [@ EXCEPT ![row.ticker] = row.book]]
  BY <1>3, <1>4 DEF Replay
<1>9. QED
  BY <1>1, <1>2, <1>5, <1>6, <1>7, <1>8 DEF last, Outcome

\* The frame that comes next does not change the books of other markets.
LEMMA OthersStayExact ==
    ASSUME IInv, NEW st, Exact(st), NEW row, Genuine(row), ~Dropped(st, row), ~Missing(st, row),
           NEW t \in Ticker, t # row.ticker, st.books[t] # None, t \notin st.stale
    PROVE  LET last == [st.last EXCEPT ![row.sid] = row.seq]
           IN  /\ last[SidOf(t)] \in 1 .. Len(pub[SidOf(t)])
               /\ st.books[t] = pub[SidOf(t)][last[SidOf(t)]].after[t]
<1> DEFINE s == row.sid
           n == row.seq
           last == [st.last EXCEPT ![s] = n]
<1> USE DEF IInv
<1>1. /\ s \in Sid /\ n \in 1 .. Len(pub[s]) /\ n \in Nat /\ Len(pub[s]) \in Nat
      /\ row.ticker = pub[s][n].ticker /\ row.ticker \in Ticker
  BY GenuineIs DEF Genuine, GenuineIn
<1>2. SidOf(t) \in Sid /\ st.last \in [Sid -> Nat]
  BY SidOfIsHome DEF Exact, ExactIn, Replay
<1>3. /\ st.last[SidOf(t)] \in 1 .. Len(pub[SidOf(t)])
      /\ st.books[t] = pub[SidOf(t)][st.last[SidOf(t)]].after[t]
  BY DEF Exact, ExactIn
<1>4. CASE SidOf(t) # s
  <2>1. last[SidOf(t)] = st.last[SidOf(t)]
    BY <1>2, <1>4
  <2>2. QED
    BY <1>3, <2>1
<1>5. CASE SidOf(t) = s
  <2>1. last[s] = n
    BY <1>1, <1>2
  <2>2. n = st.last[s] + 1
    BY <1>1, <1>2, <1>3, <1>5 DEF Dropped, Missing
  <2>3. n \in 2 .. Len(pub[s]) /\ n - 1 = st.last[s] /\ n - 1 \in 1 .. Len(pub[s])
    BY <1>1, <1>2, <1>3, <1>5, <2>2
  <2>4. Continues(pub[s][n-1].after, pub[s][n])
    BY <1>1, <2>3 DEF PublishedIsCoherent
  <2>5. pub[s][n-1].after \in [Ticker -> Book]
    BY <1>1, <2>3, FrameTypes DEF Published
  <2>6. pub[s][n].after[t] = pub[s][n-1].after[t]
    BY <1>1, <2>4, <2>5 DEF Continues
  <2>7. QED
    BY <1>1, <1>3, <1>5, <2>1, <2>3, <2>6
<1>6. QED
  BY <1>4, <1>5

\* A row that is genuine keeps a replay exact, whatever was left out before it.
LEMMA ReplayedStaysExact ==
    ASSUME IInv, NEW st, Exact(st), NEW row, Genuine(row)
    PROVE  Exact(Replayed(st, row))
<1> DEFINE s == row.sid
           n == row.seq
           t == row.ticker
           new == Replayed(st, row)
           last == [st.last EXCEPT ![s] = n]
           Truth(u) == /\ last[SidOf(u)] \in 1 .. Len(pub[SidOf(u)])
                       /\ st.books[u] = pub[SidOf(u)][last[SidOf(u)]].after[u]
<1>1. /\ s \in Sid /\ n \in 1 .. Len(pub[s]) /\ n \in Nat /\ Len(pub[s]) \in Nat
      /\ t \in Ticker /\ SidOf(t) = s /\ row.kind \in {"snapshot", "delta"}
      /\ (row.kind = "snapshot" => row.book \in Book)
  BY GenuineIs
<1>2. /\ st \in Replay /\ st.books \in [Ticker -> Book \cup {None}] /\ st.last \in [Sid -> Nat]
      /\ st.poisoned \subseteq Sid /\ st.stale \subseteq Ticker
  BY DEF Exact, ExactIn, Replay
<1>3. last \in [Sid -> Nat] /\ last[s] = n
  BY <1>1, <1>2
<1>4. ~Dropped(st, row) /\ ~Missing(st, row) =>
          \A u \in Ticker : u # t /\ st.books[u] # None /\ u \notin st.stale => Truth(u)
  BY OthersStayExact
<1>5. CASE Dropped(st, row)
  BY <1>1, <1>2, <1>5, ReplayedIs DEF Outcome
<1>6. CASE ~Dropped(st, row) /\ Missing(st, row)
  <2>1. new = [st EXCEPT !.poisoned = @ \cup {s}]
    BY <1>1, <1>2, <1>6, ReplayedIs DEF Outcome
  <2> HIDE DEF new
  <2>2. new \in Replay /\ new.books = st.books /\ new.last = st.last /\ new.stale = st.stale
    BY <1>1, <1>2, <2>1 DEF Replay
  <2>3. Exact(new)
    BY <2>2 DEF Exact, ExactIn
  <2>4. QED
    BY <2>3 DEF new
<1>7. CASE /\ ~Dropped(st, row) /\ ~Missing(st, row)
           /\ row.kind = "delta" /\ ~Patches(st, row)
  <2>1. new = [st EXCEPT !.last = last]
    BY <1>1, <1>2, <1>7, ReplayedIs DEF Outcome
  <2> HIDE DEF new, last
  <2>2. new \in Replay /\ new.books = st.books /\ new.last = last /\ new.stale = st.stale
    BY <1>2, <1>3, <2>1 DEF Replay
  <2>3. \A u \in Ticker : new.books[u] # None /\ u \notin new.stale => Truth(u) /\ u # t
    BY <1>4, <1>7, <2>2 DEF Patches
  <2>4. Exact(new)
    BY <2>2, <2>3 DEF Exact, ExactIn
  <2>5. QED
    BY <2>4 DEF new
<1>8. CASE /\ ~Dropped(st, row) /\ ~Missing(st, row)
           /\ row.kind = "delta" /\ Patches(st, row) /\ Fits(st, row)
  <2> DEFINE book == WithDelta(st.books[t], row.cell, row.delta)
  <2>1. new = [st EXCEPT !.last = last, !.books = [st.books EXCEPT ![t] = book]]
    BY <1>1, <1>2, <1>8, ReplayedIs DEF Outcome
  <2>2. /\ st.last[s] \in 1 .. Len(pub[s])
        /\ st.books[t] = pub[s][st.last[s]].after[t]
    BY <1>1, <1>8 DEF Exact, ExactIn, Patches
  <2>3. st.last[s] = n - 1 /\ n # 1
    BY <1>1, <1>8, <2>2 DEF Dropped, Missing
  <2>4. book \in Book /\ book = pub[s][n].after[t]
    BY <1>8, <2>2, <2>3, AcceptedChangeIsTrue DEF Fits
  <2> HIDE DEF new, last, book
  <2>5. new \in Replay /\ new.last = last /\ new.stale = st.stale
        /\ new.books = [st.books EXCEPT ![t] = book]
    BY <1>1, <1>2, <1>3, <2>1, <2>4 DEF Replay
  <2>6. ASSUME NEW u \in Ticker, new.books[u] # None, u \notin new.stale
        PROVE  /\ last[SidOf(u)] \in 1 .. Len(pub[SidOf(u)])
               /\ new.books[u] = pub[SidOf(u)][last[SidOf(u)]].after[u]
    BY <1>1, <1>2, <1>3, <1>4, <1>8, <2>4, <2>5, <2>6
  <2>7. Exact(new)
    BY <2>5, <2>6 DEF Exact, ExactIn
  <2>8. QED
    BY <2>7 DEF new
<1>9. CASE /\ ~Dropped(st, row) /\ ~Missing(st, row)
           /\ row.kind = "delta" /\ Patches(st, row) /\ ~Fits(st, row)
  <2>1. new = [st EXCEPT !.last = last, !.stale = @ \cup {t}]
    BY <1>1, <1>2, <1>9, ReplayedIs DEF Outcome
  <2> HIDE DEF new, last
  <2>2. /\ new \in Replay /\ new.books = st.books /\ new.last = last
        /\ new.stale = st.stale \cup {t}
    BY <1>1, <1>2, <1>3, <2>1 DEF Replay
  <2>3. \A u \in Ticker : new.books[u] # None /\ u \notin new.stale => Truth(u)
    BY <1>4, <1>9, <2>2
  <2>4. Exact(new)
    BY <2>2, <2>3 DEF Exact, ExactIn
  <2>5. QED
    BY <2>4 DEF new
<1>10. CASE /\ ~Dropped(st, row) /\ ~Missing(st, row) /\ row.kind # "delta"
  <2>1. new = [st EXCEPT !.last = last, !.stale = @ \ {t}, !.books = [@ EXCEPT ![t] = row.book]]
    BY <1>1, <1>2, <1>10, ReplayedIs DEF Outcome
  <2>2. row.book \in Book /\ row.book = pub[s][n].after[t]
    BY <1>1, <1>10 DEF Genuine, GenuineIn
  <2> HIDE DEF new, last
  <2>3. new \in Replay /\ new.last = last /\ new.stale = st.stale \ {t}
        /\ new.books = [st.books EXCEPT ![t] = row.book]
    BY <1>1, <1>2, <1>3, <2>1, <2>2 DEF Replay
  <2>4. ASSUME NEW u \in Ticker, new.books[u] # None, u \notin new.stale
        PROVE  /\ last[SidOf(u)] \in 1 .. Len(pub[SidOf(u)])
               /\ new.books[u] = pub[SidOf(u)][last[SidOf(u)]].after[u]
    BY <1>1, <1>2, <1>3, <1>4, <1>10, <2>2, <2>3, <2>4
  <2>5. Exact(new)
    BY <2>3, <2>4 DEF Exact, ExactIn
  <2>6. QED
    BY <2>5 DEF new
<1>11. QED
  BY <1>5, <1>6, <1>7, <1>8, <1>9, <1>10

\* So a replay of any part of what was recorded is exact.
LEMMA RebuiltStaysExact ==
    ASSUME IInv, NEW start, Exact(start), NEW rows, AllGenuine(rows), NEW kinds
    PROVE  Exact(Rebuilt(start, rows, kinds))
<1> DEFINE n == Len(rows)
<1>1. n \in Nat
  BY DEF AllGenuine, GenuineRows
<1>2. PICK f : Follows(f, start, rows, kinds, n) /\ Rebuilt(start, rows, kinds) = f[n]
  BY <1>1, RebuiltByRows
<1>3. \A i \in 0 .. n : f[i] = (IF i = 0 THEN start ELSE Given(f[i-1], rows[i], kinds))
  BY <1>2 DEF Follows
<1> DEFINE T == {i \in Nat : i <= n => Exact(f[i])}
<1>4. 0 \in T
  BY <1>1, <1>3
<1>5. ASSUME NEW i \in T PROVE i + 1 \in T
  <2>1. SUFFICES ASSUME i + 1 <= n PROVE Exact(f[i+1])
    BY <1>5
  <2>2. i \in Nat /\ Exact(f[i]) /\ i + 1 \in 1 .. n /\ i + 1 \in 0 .. n /\ (i + 1) - 1 = i
    BY <1>1, <1>5, <2>1
  <2>3. f[i+1] = Given(f[i], rows[i+1], kinds)
    BY <1>3, <2>2
  <2>4. Genuine(rows[i+1])
    BY <2>2 DEF AllGenuine, GenuineRows, Genuine
  <2>5. QED
    BY <2>2, <2>3, <2>4, ReplayedStaysExact DEF Given
<1>6. T = Nat
  <2> HIDE DEF T
  <2>1. T \subseteq Nat
    BY DEF T
  <2>2. QED
    BY <1>4, <1>5, <2>1, SetInduction
<1>7. QED
  BY <1>1, <1>2, <1>6

----------------------------------------------------------------------------
(* The replay of what was written and of what is to be written is in the   *)
(* state of the processor, one subscription at a time.                     *)

Same(st, s, e, last, poison, kept, spoiled) ==
    /\ e > 0 => st.last[s] = last[<<e, s>>] /\ (s \in st.poisoned <=> <<e, s>> \in poison)
    /\ \A t \in Ticker : SidOf(t) = s =>
           st.books[t] = kept[t] /\ (t \in st.stale <=> t \in spoiled)
Alike(st, s) == Same(st, s, epoch, lastSeq, poisoned, books, stale)
AlikeNext(st, s) == Same(st, s, epoch', lastSeq', poisoned', books', stale')

LEMMA AlikeShowsTheSame ==
    ASSUME IInv, NEW st, NEW t \in Ticker, Alike(st, SidOf(t))
    PROVE  Shown(st, t) = View(t)
<1> USE DEF IInv
<1>1. st.books[t] = books[t] /\ (t \in st.stale <=> t \in stale)
  BY DEF Alike, Same
<1>2. CASE books[t] = None \/ t \in stale
  BY <1>1, <1>2 DEF Shown, View
<1>3. CASE books[t] # None /\ t \notin stale
  <2>1. epoch > 0 /\ stream[t] = <<epoch, SidOf(t)>>
    BY <1>3 DEF KeptIsPrefix
  <2>2. SidOf(t) \in st.poisoned <=> stream[t] \in poisoned
    BY <2>1 DEF Alike, Same
  <2>3. QED
    BY <1>1, <1>3, <2>2 DEF Shown, View
<1>4. QED
  BY <1>2, <1>3

\* A frame and its row matter to their own subscription only.
LEMMA ProcessTouches ==
    ASSUME IInv, epoch > 0, NEW s \in Sid, NEW n \in 1 .. Len(pub[s]), NEW f,
           FromWire(f, s, n), Process(f), NEW r \in Sid, r # s
    PROVE  /\ lastSeq'[<<epoch, r>>] = lastSeq[<<epoch, r>>]
           /\ <<epoch, r>> \in poisoned' <=> <<epoch, r>> \in poisoned
           /\ \A t \in Ticker : SidOf(t) = r =>
                  books'[t] = books[t] /\ (t \in stale' <=> t \in stale)
<1> USE DEF IInv
<1>1. /\ f.ticker \in Ticker /\ KeyOf(f) = <<epoch, s>> /\ SidOf(f.ticker) = s
      /\ <<epoch, r>> \in Key /\ <<epoch, s>> # <<epoch, r>>
  BY DEF FromWire, Frame, KeyOf, PublishedIsCoherent, TypeOK, Key, Epoch
<1>2. \A t \in Ticker : SidOf(t) = r => t # f.ticker
  BY <1>1
<1>3. CASE RejectNoEnvelope(f) \/ RejectSilently(f)
  BY <1>3 DEF RejectNoEnvelope, RejectSilently, procVars
<1>4. CASE RejectGap(f)
  BY <1>1, <1>4 DEF RejectGap
<1>5. CASE ApplySnapshot(f)
  BY <1>1, <1>2, <1>5 DEF ApplySnapshot, Advance, TypeOK
<1>6. CASE RejectSnapshot(f) \/ RejectDelta(f)
  BY <1>1, <1>2, <1>6 DEF RejectSnapshot, RejectDelta, MarkStale, Advance, TypeOK
<1>7. CASE RejectNoSnapshot(f)
  BY <1>1, <1>2, <1>7 DEF RejectNoSnapshot, Advance, TypeOK
<1>8. CASE ApplyDelta(f)
  BY <1>1, <1>2, <1>8 DEF ApplyDelta, Advance, TypeOK
<1>9. QED
  BY <1>3, <1>4, <1>5, <1>6, <1>7, <1>8 DEF Process

LEMMA ReplayedTouches ==
    ASSUME NEW st \in Replay, NEW row, row.sid \in Sid, row.ticker \in Ticker,
           SidOf(row.ticker) = row.sid, row.kind \in {"snapshot", "delta"},
           NEW r \in Sid, r # row.sid
    PROVE  LET new == Replayed(st, row)
           IN  /\ new.last[r] = st.last[r]
               /\ r \in new.poisoned <=> r \in st.poisoned
               /\ \A t \in Ticker : SidOf(t) = r =>
                      new.books[t] = st.books[t] /\ (t \in new.stale <=> t \in st.stale)
<1> DEFINE new == Replayed(st, row)
           last == [st.last EXCEPT ![row.sid] = row.seq]
<1>1. last[r] = st.last[r] /\ \A t \in Ticker : SidOf(t) = r => t # row.ticker
  BY DEF Replay
<1> HIDE DEF last, new
<1>2. CASE Dropped(st, row)
  BY <1>2, ReplayedIs DEF new, Outcome
<1>3. CASE ~Dropped(st, row) /\ Missing(st, row)
  <2>1. new = [st EXCEPT !.poisoned = @ \cup {row.sid}]
    BY <1>3, ReplayedIs DEF new, Outcome
  <2>2. /\ new.last = st.last /\ new.poisoned = st.poisoned \cup {row.sid}
        /\ new.books = st.books /\ new.stale = st.stale
    BY <2>1 DEF Replay
  <2>3. QED
    BY <2>2 DEF new
<1>4. CASE ~Dropped(st, row) /\ ~Missing(st, row)
  <2>1. \/ new = [st EXCEPT !.last = last]
        \/ new = [st EXCEPT !.last = last, !.books = [st.books EXCEPT ![row.ticker] =
                      WithDelta(st.books[row.ticker], row.cell, row.delta)]]
        \/ new = [st EXCEPT !.last = last, !.stale = @ \cup {row.ticker}]
        \/ new = [st EXCEPT !.last = last, !.stale = @ \ {row.ticker},
                            !.books = [@ EXCEPT ![row.ticker] = row.book]]
    BY <1>4, ReplayedIs DEF new, last, Outcome
  <2>2. new.last = last /\ new.poisoned = st.poisoned
    BY <2>1 DEF Replay
  <2>3. ASSUME NEW t \in Ticker, t # row.ticker
        PROVE  new.books[t] = st.books[t] /\ (t \in new.stale <=> t \in st.stale)
    <3>1. CASE new = [st EXCEPT !.last = last]
      BY <3>1 DEF Replay
    <3>2. CASE new = [st EXCEPT !.last = last, !.books = [st.books EXCEPT ![row.ticker] =
                          WithDelta(st.books[row.ticker], row.cell, row.delta)]]
      <4>1. /\ new.stale = st.stale
            /\ new.books = [st.books EXCEPT ![row.ticker] =
                   WithDelta(st.books[row.ticker], row.cell, row.delta)]
        BY <3>2 DEF Replay
      <4>2. QED
        BY <2>3, <4>1 DEF Replay
    <3>3. CASE new = [st EXCEPT !.last = last, !.stale = @ \cup {row.ticker}]
      BY <2>3, <3>3 DEF Replay
    <3>4. CASE new = [st EXCEPT !.last = last, !.stale = @ \ {row.ticker},
                                !.books = [@ EXCEPT ![row.ticker] = row.book]]
      <4>1. /\ new.stale = st.stale \ {row.ticker}
            /\ new.books = [st.books EXCEPT ![row.ticker] = row.book]
        BY <3>4 DEF Replay
      <4>2. QED
        BY <2>3, <4>1 DEF Replay
    <3>5. QED
      BY <2>1, <3>1, <3>2, <3>3, <3>4
  <2>4. QED
    BY <1>1, <2>2, <2>3 DEF new
<1>5. QED
  BY <1>2, <1>3, <1>4

\* The row a frame is kept as.
RowOf(f) == IF f.kind = "delta" THEN DeltaRow(f) ELSE SnapshotRow(f)

LEMMA RowOfKeyed ==
    ASSUME NEW f, f.kind \in {"snapshot", "delta"}
    PROVE  RecordBook(f) = IF Keyed(f) THEN <<RowOf(f)>> ELSE <<>>
BY DEF RecordBook, RowOf

LEMMA RowIsGenuine ==
    ASSUME IInv, epoch > 0, NEW s \in Sid, NEW n \in 1 .. Len(pub[s]), NEW f,
           FromWire(f, s, n), Truthful(f, s, n) \/ Detectable(f, s, n), Keyed(f)
    PROVE  Genuine(RowOf(f))
<1> DEFINE sent == pub[s][n]
<1> USE DEF IInv
<1>1. /\ f \in Frame /\ f.sid = s /\ f.seq = n /\ f.kind = sent.kind /\ f.ticker = sent.ticker
      /\ f.ticker \in Ticker /\ f.kind \in {"snapshot", "delta"}
  BY DEF FromWire, Frame
<1>2. sent \in Published /\ sent.after[f.ticker] \in Book /\ n \in Nat
  BY <1>1, FrameTypes DEF Published
<1>3. CASE f.kind = "delta"
  <2>1. RowOf(f) = DeltaRow(f)
    BY <1>3 DEF RowOf
  <2>2. DeltaRow(f) \in Row
    BY <1>1, <1>2 DEF DeltaRow, Row, Frame
  <2>3. \/ ~CheckPrice(f.cell[2])
        \/ /\ f.cell = sent.cell
           /\ f.delta \in {sent.delta, sent.delta - sent.after[f.ticker][f.cell] - 1}
    BY <1>3 DEF Truthful, Detectable
  <2> DEFINE row == DeltaRow(f)
  <2>4. /\ row.kind = "delta" /\ row.sid = s /\ row.seq = n /\ row.ticker = f.ticker
        /\ row.cell = f.cell /\ row.delta = f.delta
    BY <1>1 DEF DeltaRow
  <2> HIDE DEF row
  <2>5. Genuine(row)
    <3>1. row \in Row
      BY <2>2 DEF row
    <3>2. QED
      BY <1>1, <1>3, <2>3, <2>4, <3>1 DEF Genuine, GenuineIn
  <2>6. QED
    BY <2>1, <2>5 DEF row
<1>4. CASE f.kind = "snapshot"
  <2>1. RowOf(f) = SnapshotRow(f)
    BY <1>4 DEF RowOf
  <2>2. f.listing = ListingOf(sent.after[f.ticker])
    BY <1>4 DEF Keyed, Truthful, Detectable
  <2>3. FromListing(f.listing) = sent.after[f.ticker]
    BY <1>2, <2>2, SnapshotRoundTrip
  <2>4. SnapshotRow(f) \in Row
    BY <1>1, <1>2, <2>3 DEF SnapshotRow, Row
  <2> DEFINE row == SnapshotRow(f)
  <2>5. /\ row.kind = "snapshot" /\ row.sid = s /\ row.seq = n /\ row.ticker = f.ticker
        /\ row.book = FromListing(f.listing)
    BY <1>1 DEF SnapshotRow
  <2>6. row \in Row
    BY <2>4
  <2> HIDE DEF row
  <2>7. Genuine(row)
    BY <1>1, <1>4, <2>3, <2>5, <2>6 DEF Genuine, GenuineIn
  <2>8. QED
    BY <2>1, <2>7 DEF row
<1>5. QED
  BY <1>1, <1>3, <1>4

\* A replay does with the row what the processor did with the frame.
LEMMA RowFollowsFrame ==
    ASSUME IInv, epoch > 0, epoch' = epoch, NEW s \in Sid, NEW n \in 1 .. Len(pub[s]), NEW f,
           FromWire(f, s, n), Process(f), Keyed(f), NEW st \in Replay, Alike(st, s)
    PROVE  AlikeNext(Replayed(st, RowOf(f)), s)
<1> DEFINE k == <<epoch, s>>
           t == f.ticker
           row == RowOf(f)
           new == Replayed(st, row)
           last == [st.last EXCEPT ![s] = n]
<1> USE DEF IInv
<1>1. /\ t \in Ticker /\ KeyOf(f) = k /\ SidOf(t) = s /\ f.seq = n /\ f.sid = s
      /\ k \in Key /\ f.kind \in {"snapshot", "delta"} /\ n \in Nat
  BY DEF FromWire, Frame, KeyOf, PublishedIsCoherent, TypeOK, Key, Epoch
<1>2. /\ row.sid = s /\ row.seq = n /\ row.ticker = t /\ row.kind = f.kind
      /\ f.kind = "delta" => row.cell = f.cell /\ row.delta = f.delta
      /\ f.kind = "snapshot" => row.book = FromListing(f.listing)
  BY <1>1 DEF RowOf, DeltaRow, SnapshotRow
<1>3. /\ st.last[s] = lastSeq[k] /\ (s \in st.poisoned <=> k \in poisoned)
      /\ \A u \in Ticker : SidOf(u) = s => st.books[u] = books[u] /\ (u \in st.stale <=> u \in stale)
      /\ lastSeq[k] \in Nat
  BY <1>1 DEF Alike, Same, TypeOK
<1> HIDE DEF row
<1>4. /\ Dropped(st, row) <=> k \in poisoned \/ (lastSeq[k] # 0 /\ n <= lastSeq[k])
      /\ Missing(st, row) <=> lastSeq[k] # 0 /\ n > lastSeq[k] + 1
      /\ Patches(st, row) <=> Patchable(f)
      /\ f.kind = "delta" => (Fits(st, row) <=> DeltaOK(books[t], f.cell, f.delta))
  BY <1>1, <1>2, <1>3 DEF Dropped, Missing, Patches, Patchable, Fits
<1>5. /\ InSequence(f) => ~Dropped(st, row) /\ ~Missing(st, row)
      /\ SkipsAhead(f) => ~Dropped(st, row) /\ Missing(st, row)
  BY <1>1, <1>3, <1>4 DEF InSequence, SkipsAhead, Live
<1>6. HasEnvelope(f)
  BY DEF Keyed
<1>7. st.last \in [Sid -> Nat] /\ st.books \in [Ticker -> Book \cup {None}] /\ last[s] = n
  BY DEF Replay
<1>a. Outcome(st, row, new) /\ last = [st.last EXCEPT ![row.sid] = row.seq]
  BY <1>1, <1>2, ReplayedIs
<1> HIDE DEF new, last
<1>8. CASE RejectNoEnvelope(f)
  BY <1>6, <1>8 DEF RejectNoEnvelope
<1>9. CASE RejectSilently(f)
  <2>1. new = st
    BY <1>1, <1>2, <1>4, <1>9, <1>a DEF Outcome, RejectSilently
  <2>2. UNCHANGED <<lastSeq, poisoned, books, stale>>
    BY <1>9 DEF RejectSilently, procVars
  <2>3. AlikeNext(new, s)
    BY <2>1, <2>2 DEF AlikeNext, Alike
  <2>4. QED
    BY <2>3 DEF new, row
<1>10. CASE RejectGap(f)
  <2>1. new = [st EXCEPT !.poisoned = @ \cup {s}]
    BY <1>1, <1>2, <1>5, <1>10, <1>a DEF Outcome, RejectGap
  <2>2. /\ new.last = st.last /\ new.poisoned = st.poisoned \cup {s}
        /\ new.books = st.books /\ new.stale = st.stale
    BY <2>1 DEF Replay
  <2>3. poisoned' = poisoned \cup {k} /\ UNCHANGED <<lastSeq, books, stale>>
    BY <1>1, <1>10 DEF RejectGap
  <2>4. AlikeNext(new, s)
    BY <1>3, <2>2, <2>3 DEF AlikeNext, Same
  <2>5. QED
    BY <2>4 DEF new, row
<1>11. ASSUME InSequence(f), Advance(f)
       PROVE  lastSeq'[k] = n /\ poisoned' = poisoned
  BY <1>1, <1>11 DEF Advance, TypeOK
<1>12. CASE ApplySnapshot(f)
  <2>1. /\ new = [st EXCEPT !.last = last, !.stale = @ \ {t},
                           !.books = [@ EXCEPT ![t] = FromListing(f.listing)]]
    BY <1>1, <1>2, <1>5, <1>12, <1>a DEF Outcome, ApplySnapshot
  <2>2. /\ new.last = last /\ new.poisoned = st.poisoned /\ new.stale = st.stale \ {t}
        /\ new.books = [st.books EXCEPT ![t] = FromListing(f.listing)]
    BY <2>1 DEF Replay
  <2>3. /\ lastSeq'[k] = n /\ poisoned' = poisoned /\ stale' = stale \ {t}
        /\ books' = [books EXCEPT ![t] = FromListing(f.listing)]
    BY <1>11, <1>12 DEF ApplySnapshot
  <2>4. ASSUME NEW u \in Ticker, SidOf(u) = s
        PROVE  new.books[u] = books'[u] /\ (u \in new.stale <=> u \in stale')
    BY <1>1, <1>3, <1>7, <2>2, <2>3, <2>4 DEF TypeOK
  <2>5. AlikeNext(new, s)
    BY <1>3, <1>7, <2>2, <2>3, <2>4 DEF AlikeNext, Same
  <2>6. QED
    BY <2>5 DEF new, row
<1>13. CASE RejectSnapshot(f)
  BY <1>13 DEF RejectSnapshot, Keyed
<1>14. CASE RejectNoSnapshot(f)
  <2>1. new = [st EXCEPT !.last = last]
    BY <1>1, <1>2, <1>4, <1>5, <1>14, <1>a DEF Outcome, RejectNoSnapshot
  <2>2. /\ new.last = last /\ new.poisoned = st.poisoned /\ new.stale = st.stale
        /\ new.books = st.books
    BY <2>1 DEF Replay
  <2>3. lastSeq'[k] = n /\ poisoned' = poisoned /\ UNCHANGED <<books, stale>>
    BY <1>11, <1>14 DEF RejectNoSnapshot
  <2>4. AlikeNext(new, s)
    BY <1>3, <1>7, <2>2, <2>3 DEF AlikeNext, Same
  <2>5. QED
    BY <2>4 DEF new, row
<1>15. CASE ApplyDelta(f)
  <2> DEFINE book == WithDelta(books[t], f.cell, f.delta)
  <2>1. new = [st EXCEPT !.last = last, !.books = [st.books EXCEPT ![t] = book]]
    BY <1>1, <1>2, <1>3, <1>4, <1>5, <1>15, <1>a DEF Outcome, ApplyDelta
  <2>2. books' = [books EXCEPT ![t] = book]
    BY <1>1, <1>15 DEF ApplyDelta
  <2> HIDE DEF book
  <2>3. /\ new.last = last /\ new.poisoned = st.poisoned /\ new.stale = st.stale
        /\ new.books = [st.books EXCEPT ![t] = book]
    BY <2>1 DEF Replay
  <2>4. lastSeq'[k] = n /\ poisoned' = poisoned /\ stale' = stale
    BY <1>11, <1>15 DEF ApplyDelta
  <2>5. ASSUME NEW u \in Ticker, SidOf(u) = s
        PROVE  new.books[u] = books'[u] /\ (u \in new.stale <=> u \in stale')
    BY <1>1, <1>3, <1>7, <2>2, <2>3, <2>4, <2>5 DEF TypeOK
  <2>6. AlikeNext(new, s)
    BY <1>3, <1>7, <2>3, <2>4, <2>5 DEF AlikeNext, Same
  <2>7. QED
    BY <2>6 DEF new, row
<1>16. CASE RejectDelta(f)
  <2>1. new = [st EXCEPT !.last = last, !.stale = @ \cup {t}]
    BY <1>1, <1>2, <1>4, <1>5, <1>16, <1>a DEF Outcome, RejectDelta
  <2>2. /\ new.last = last /\ new.poisoned = st.poisoned /\ new.books = st.books
        /\ new.stale = st.stale \cup {t}
    BY <2>1 DEF Replay
  <2>3. /\ lastSeq'[k] = n /\ poisoned' = poisoned /\ books' = books
        /\ stale' = stale \cup {t}
    BY <1>11, <1>16 DEF RejectDelta, MarkStale
  <2>4. AlikeNext(new, s)
    BY <1>3, <1>7, <2>2, <2>3 DEF AlikeNext, Same
  <2>5. QED
    BY <2>4 DEF new, row
<1>17. QED
  BY <1>8, <1>9, <1>10, <1>12, <1>13, <1>14, <1>15, <1>16 DEF Process

----------------------------------------------------------------------------
(* The recorder's steps. *)

RecorderInv ==
    /\ recorder \in {"open", "over", "killed", "none"}
    /\ AllGenuine(buffer) /\ Exact(replay)
    /\ recorder = "none" => buffer = <<>> /\ replay = Unfed
    /\ recorder = "open" => \A s \in Sid \ hollow : Alike(ReplayOf(buffer), s)
    /\ recorder = "over" => \A t \in Ticker : SidOf(t) \notin hollow => Shown(replay, t) = lastShown[t]

\* What was sent stays sent.
Grows(log, longer) ==
    \A s \in Sid : /\ 1 .. Len(log[s]) \subseteq 1 .. Len(longer[s])
                   /\ \A n \in 1 .. Len(log[s]) : longer[s][n] = log[s][n]

LEMMA GenuineForever ==
    ASSUME NEW log, NEW longer, Grows(log, longer)
    PROVE  /\ \A rows : GenuineRows(rows, log) => GenuineRows(rows, longer)
           /\ \A st : ExactIn(st, log) => ExactIn(st, longer)
<1>1. ASSUME NEW row, GenuineIn(row, log) PROVE GenuineIn(row, longer)
  <2>1. row.sid \in Sid /\ row.seq \in 1 .. Len(log[row.sid])
    BY <1>1 DEF GenuineIn, Row
  <2>2. row.seq \in 1 .. Len(longer[row.sid])
        /\ longer[row.sid][row.seq] = log[row.sid][row.seq]
    BY <2>1 DEF Grows
  <2>3. QED
    BY <1>1, <2>2 DEF GenuineIn
<1>2. ASSUME NEW st, ExactIn(st, log) PROVE ExactIn(st, longer)
  <2>1. ASSUME NEW t \in Ticker, st.books[t] # None, t \notin st.stale
        PROVE  /\ st.last[SidOf(t)] \in 1 .. Len(longer[SidOf(t)])
               /\ st.books[t] = longer[SidOf(t)][st.last[SidOf(t)]].after[t]
    BY <1>2, <2>1, SidOfIsHome DEF ExactIn, Grows
  <2>2. QED
    BY <1>2, <2>1 DEF ExactIn
<1>3. QED
  BY <1>1, <1>2 DEF GenuineRows

LEMMA NothingToReplay ==
    /\ \A log : GenuineRows(<<>>, log) /\ ExactIn(Unfed, log)
    /\ \A s \in Sid : Unfed.last[s] = 0 /\ s \notin Unfed.poisoned
    /\ \A t \in Ticker : Unfed.books[t] = None /\ t \notin Unfed.stale
<1>1. Unfed \in Replay /\ Unfed.poisoned = {} /\ Unfed.stale = {}
  BY DEF Unfed, Replay
<1>2. \A s \in Sid : Unfed.last[s] = 0
  BY DEF Unfed
<1>3. \A t \in Ticker : Unfed.books[t] = None
  BY DEF Unfed
<1>4. <<>> \in Seq(Row) /\ Len(<<>>) = 0
  OBVIOUS
<1>5. QED
  BY <1>1, <1>2, <1>3, <1>4 DEF GenuineRows, ExactIn

\* Whether they are written now or kept, the rows are given to the replay in their order.
LEMMA HandledRows ==
    ASSUME NEW rows, Handled(rows)
    PROVE  /\ \/ replay' = ReplayOf(buffer \o rows) /\ buffer' = <<>>
              \/ replay' = replay /\ buffer' = buffer \o rows
           /\ ReplayOf(buffer)' = ReplayOf(buffer \o rows)
           /\ recorder' = recorder /\ lastShown' = lastShown
<1>1. CASE replay' = ReplayOf(buffer \o rows) /\ buffer' = <<>>
  <2>1. ReplayOf(buffer)' = replay'
    BY <1>1, RebuiltOfNone DEF ReplayOf
  <2>2. QED
    BY <1>1, <2>1 DEF Handled
<1>2. CASE replay' = replay /\ buffer' = buffer \o rows
  <2>1. ReplayOf(buffer)' = ReplayOf(buffer \o rows)
    BY <1>2 DEF ReplayOf
  <2>2. QED
    BY <1>2, <2>1 DEF Handled
<1>3. QED
  BY <1>1, <1>2 DEF Handled

LEMMA OneRowMore ==
    ASSUME AllGenuine(buffer), NEW row, Genuine(row)
    PROVE  /\ AllGenuine(buffer \o <<row>>)
           /\ ReplayOf(buffer \o <<row>>) = Replayed(ReplayOf(buffer), row)
<1>1. buffer \in Seq(Row) /\ row \in Row /\ row.kind \in {"snapshot", "delta"}
  BY DEF AllGenuine, GenuineRows, Genuine, GenuineIn, Row
<1> DEFINE more == Append(buffer, row)
<1>2. more = buffer \o <<row>>
  BY <1>1, AppendIsConcat
<1>3. /\ more \in Seq(Row) /\ Len(more) = Len(buffer) + 1 /\ more[Len(buffer) + 1] = row
      /\ \A i \in 1 .. Len(buffer) : more[i] = buffer[i]
      /\ Len(buffer) \in Nat
  BY <1>1, AppendProperties
<1> HIDE DEF more
<1>4. ASSUME NEW i \in 1 .. Len(more) PROVE Genuine(more[i])
  <2>1. i \in 1 .. Len(buffer) \/ i = Len(buffer) + 1
    BY <1>3
  <2>2. CASE i \in 1 .. Len(buffer)
    BY <1>3, <2>2 DEF AllGenuine, GenuineRows, Genuine
  <2>3. CASE i = Len(buffer) + 1
    BY <1>3, <2>3
  <2>4. QED
    BY <2>1, <2>2, <2>3
<1>5. AllGenuine(more)
  BY <1>3, <1>4 DEF AllGenuine, GenuineRows, Genuine
<1>6. ReplayOf(buffer \o <<row>>) = Given(ReplayOf(buffer), row, {"snapshot", "delta"})
  BY <1>1, RebuiltWithRow DEF ReplayOf
<1>7. QED
  BY <1>1, <1>2, <1>5, <1>6 DEF Given

LEMMA HandledIsGenuine ==
    ASSUME IInv, RecorderInv, NEW rows, Handled(rows), AllGenuine(buffer \o rows), pub' = pub
    PROVE  AllGenuine(buffer)' /\ Exact(replay)'
<1> DEFINE all == buffer \o rows
<1>1. Exact(replay) /\ AllGenuine(buffer)
  BY DEF RecorderInv
<1>2. Exact(ReplayOf(all))
  BY <1>1, RebuiltStaysExact DEF ReplayOf
<1> HIDE DEF all
<1>3. \/ replay' = ReplayOf(all) /\ buffer' = <<>>
      \/ replay' = replay /\ buffer' = all
  BY HandledRows DEF all
<1>4. ExactIn(replay', pub) /\ GenuineRows(buffer', pub)
  BY <1>1, <1>2, <1>3, NothingToReplay DEF all, Exact, AllGenuine
<1>5. QED
  BY <1>4 DEF Exact, AllGenuine

\* The invariant after a step of an open recorder, from what it is about.
LEMMA StillOpen ==
    ASSUME recorder = "open", recorder' = recorder, AllGenuine(buffer)', Exact(replay)',
           \A s \in Sid \ hollow' : AlikeNext(ReplayOf(buffer)', s)
    PROVE  RecorderInv'
<1>1. \A s \in Sid \ hollow' : Alike(ReplayOf(buffer), s)'
  BY DEF Alike, AlikeNext
<1>2. QED
  BY <1>1 DEF RecorderInv

LEMMA FrameStep ==
    ASSUME IInv, RecorderInv, epoch > 0, NEW s \in Sid, NEW n \in 1 .. Len(pub[s]), NEW f,
           FromWire(f, s, n), Truthful(f, s, n) \/ Detectable(f, s, n),
           Receive(s, n), RecordFrame(f)
    PROVE  RecorderInv'
<1> DEFINE row == RowOf(f)
           ahead == ReplayOf(buffer)
<1>1. /\ recorder = "open" /\ Process(f) /\ Handled(RecordBook(f))
      /\ epoch' = epoch /\ pub' = pub
      /\ hollow' = IF HasEnvelope(f) /\ ~ Keyed(f) THEN hollow \cup {f.sid} ELSE hollow
  BY DEF RecordFrame, Receive
<1>2. f.kind \in {"snapshot", "delta"} /\ f.sid = s /\ f.ticker \in Ticker /\ s # None
  BY BookStreamAssumption DEF FromWire, Frame
<1>3. HasEnvelope(f)
  BY <1>2 DEF HasEnvelope
<1>4. AllGenuine(buffer) /\ Exact(replay) /\ \A r \in Sid \ hollow : Alike(ahead, r)
  BY <1>1 DEF RecorderInv
<1>5. Exact(ahead) /\ ahead \in Replay
  BY <1>4, RebuiltStaysExact DEF ReplayOf, Exact, ExactIn
<1> HIDE DEF ahead
<1>6. CASE Keyed(f)
  <2>1. RecordBook(f) = <<row>> /\ Genuine(row)
    BY <1>2, <1>6, RowOfKeyed, RowIsGenuine
  <2>2. AllGenuine(buffer \o <<row>>) /\ ReplayOf(buffer \o <<row>>) = Replayed(ahead, row)
    BY <1>4, <2>1, OneRowMore DEF ahead
  <2>3. AllGenuine(buffer)' /\ Exact(replay)'
    BY <1>1, <2>1, <2>2, HandledIsGenuine
  <2>4. ReplayOf(buffer)' = Replayed(ahead, row) /\ recorder' = recorder
    BY <1>1, <2>1, <2>2, HandledRows
  <2>5. hollow' = hollow
    BY <1>1, <1>6
  <2>6. ASSUME NEW r \in Sid \ hollow PROVE AlikeNext(Replayed(ahead, row), r)
    <3>1. Alike(ahead, r)
      BY <1>4
    <3>2. CASE r = s
      BY <1>1, <1>5, <1>6, <3>1, <3>2, RowFollowsFrame
    <3>3. CASE r # s
      <4>1. /\ row.sid = s /\ row.ticker \in Ticker /\ SidOf(row.ticker) = s
            /\ row.kind \in {"snapshot", "delta"}
        <5>1. row.sid = s
          BY <1>2 DEF RowOf, DeltaRow, SnapshotRow
        <5>2. QED
          BY <2>1, <5>1, GenuineIs
      <4> DEFINE new == Replayed(ahead, row)
      <4> HIDE DEF row
      <4>2. /\ new.last[r] = ahead.last[r] /\ (r \in new.poisoned <=> r \in ahead.poisoned)
            /\ \A t \in Ticker : SidOf(t) = r =>
                   new.books[t] = ahead.books[t] /\ (t \in new.stale <=> t \in ahead.stale)
        BY <1>5, <3>3, <4>1, ReplayedTouches
      <4>3. /\ lastSeq'[<<epoch, r>>] = lastSeq[<<epoch, r>>]
            /\ <<epoch, r>> \in poisoned' <=> <<epoch, r>> \in poisoned
            /\ \A t \in Ticker : SidOf(t) = r =>
                   books'[t] = books[t] /\ (t \in stale' <=> t \in stale)
        BY <1>1, <3>3, ProcessTouches
      <4> HIDE DEF new
      <4>4. AlikeNext(new, r)
        BY <1>1, <3>1, <4>2, <4>3 DEF Alike, AlikeNext, Same
      <4>5. QED
        BY <4>4 DEF new
    <3>4. QED
      BY <3>2, <3>3
  <2>7. QED
    BY <1>1, <2>3, <2>4, <2>5, <2>6, StillOpen
<1>7. CASE ~Keyed(f)
  <2>1. RecordBook(f) = <<>> /\ hollow' = hollow \cup {s}
    BY <1>1, <1>2, <1>3, <1>7, RowOfKeyed
  <2>2. buffer \o <<>> = buffer
    BY <1>4, ConcatEmptySeq DEF AllGenuine, GenuineRows
  <2>3. AllGenuine(buffer)' /\ Exact(replay)'
    BY <1>1, <1>4, <2>1, <2>2, HandledIsGenuine
  <2>4. ReplayOf(buffer)' = ahead /\ recorder' = recorder
    BY <1>1, <2>1, <2>2, HandledRows DEF ahead
  <2>5. ASSUME NEW r \in Sid \ hollow' PROVE AlikeNext(ahead, r)
    <3>1. Alike(ahead, r) /\ r # s
      BY <1>4, <2>1
    <3>2. /\ lastSeq'[<<epoch, r>>] = lastSeq[<<epoch, r>>]
          /\ <<epoch, r>> \in poisoned' <=> <<epoch, r>> \in poisoned
          /\ \A t \in Ticker : SidOf(t) = r =>
                 books'[t] = books[t] /\ (t \in stale' <=> t \in stale)
      BY <1>1, <3>1, ProcessTouches
    <3>3. QED
      BY <1>1, <3>1, <3>2 DEF Alike, AlikeNext, Same
  <2>6. QED
    BY <1>1, <2>3, <2>4, <2>5, StillOpen
<1>8. QED
  BY <1>6, <1>7

\* Nothing is written and nothing changes but the batch, at most.
LEMMA QuietStep ==
    ASSUME IInv, RecorderInv, recorder = "open", Handled(<<>>),
           UNCHANGED <<epoch, pub, books, lastSeq, poisoned, stale, hollow>>
    PROVE  RecorderInv'
<1>1. AllGenuine(buffer) /\ \A r \in Sid \ hollow : Alike(ReplayOf(buffer), r)
  BY DEF RecorderInv
<1>2. buffer \o <<>> = buffer
  BY <1>1, ConcatEmptySeq DEF AllGenuine, GenuineRows
<1>3. AllGenuine(buffer)' /\ Exact(replay)'
  BY <1>1, <1>2, HandledIsGenuine
<1>4. ReplayOf(buffer)' = ReplayOf(buffer) /\ recorder' = recorder
  BY <1>2, HandledRows
<1>5. \A r \in Sid \ hollow' : AlikeNext(ReplayOf(buffer)', r)
  BY <1>1, <1>4 DEF Alike, AlikeNext
<1>6. QED
  BY <1>3, <1>4, <1>5, StillOpen

LEMMA MessageStep ==
    ASSUME IInv, RecorderInv, RecordBookMessage
    PROVE  IInv' /\ RecorderInv'
<1>1. PICK s \in Sid : \E n \in 1 .. Len(pub[s]) :
          \/ \E f \in Arriving(s, n) : Receive(s, n) /\ RecordFrame(f)
          \/ RecordFrame(WithoutEnvelope(FrameAt(s, n))) /\ UNCHANGED envVars
  BY DEF RecordBookMessage
<1>2. PICK n \in 1 .. Len(pub[s]) :
          \/ \E f \in Arriving(s, n) : Receive(s, n) /\ RecordFrame(f)
          \/ RecordFrame(WithoutEnvelope(FrameAt(s, n))) /\ UNCHANGED envVars
  BY <1>1
<1>3. epoch > 0 /\ TypeOK
  <2>1. n >= 1 /\ n <= Len(pub[s]) /\ Len(pub[s]) \in Nat
    BY DEF IInv, TypeOK
  <2>2. QED
    BY <2>1 DEF IInv, PublishedIsCoherent
<1>4. ASSUME NEW f \in Arriving(s, n), Receive(s, n), RecordFrame(f)
      PROVE  IInv' /\ RecorderInv'
  <2>1. FromWire(f, s, n) /\ (Truthful(f, s, n) \/ Detectable(f, s, n))
    BY <1>3, <1>4, IntactIsTruthful, DamageIsDetectable DEF Arriving
  <2>2. Process(f)
    BY <1>4 DEF RecordFrame
  <2>3. IInv'
    BY <1>3, <1>4, <2>1, <2>2, ProcessStep
  <2>4. RecorderInv'
    BY <1>3, <1>4, <2>1, FrameStep
  <2>5. QED
    BY <2>3, <2>4
<1>5. ASSUME RecordFrame(WithoutEnvelope(FrameAt(s, n))), UNCHANGED envVars
      PROVE  IInv' /\ RecorderInv'
  <2> DEFINE f == WithoutEnvelope(FrameAt(s, n))
  <2>1. /\ recorder = "open" /\ Process(f) /\ Handled(RecordBook(f))
        /\ hollow' = IF HasEnvelope(f) /\ ~ Keyed(f) THEN hollow \cup {f.sid} ELSE hollow
    BY <1>5 DEF RecordFrame
  <2>2. DeliverWithoutEnvelope(s, n)
    BY <1>5, <2>1 DEF DeliverWithoutEnvelope
  <2>3. UNCHANGED <<epoch, pub, seen, books, stream, lastSeq, poisoned, stale>>
    BY <2>2, NoEnvelopeStep
  <2>4. ~HasEnvelope(f)
    BY DEF HasEnvelope, WithoutEnvelope, FrameAt
  <2>5. f.kind \in {"snapshot", "delta"}
    <3>1. FrameAt(s, n).kind = pub[s][n].kind /\ pub[s][n] \in Published
      BY <1>3, FrameTypes DEF FrameAt
    <3>2. QED
      BY <3>1 DEF WithoutEnvelope, Published, FrameAt
  <2>6. RecordBook(f) = <<>>
    BY <2>4, <2>5, RowOfKeyed DEF Keyed
  <2>7. RecorderInv'
    BY <2>1, <2>3, <2>4, <2>6, QuietStep
  <2>8. IInv'
    BY <1>3, <2>2, NextIInv DEF Next, Deliver
  <2>9. QED
    BY <2>7, <2>8
<1>6. QED
  BY <1>2, <1>4, <1>5

\* Another connection: nothing is buffered of it, and the processor knows nothing of it.
LEMMA ConnectedStep ==
    ASSUME IInv, RecorderInv, RecordConnected
    PROVE  IInv' /\ RecorderInv'
<1>1. /\ recorder = "open" /\ recorder' = recorder /\ OnConnected
      /\ buffer' = <<>> /\ replay' = Unfed /\ hollow' = {}
  BY DEF RecordConnected
<1>2. IInv'
  BY <1>1, ConnectStep
<1>3. AllGenuine(buffer)' /\ Exact(replay)'
  BY <1>1, NothingToReplay DEF AllGenuine, Exact
<1>4. ReplayOf(buffer)' = Unfed
  BY <1>1, RebuiltOfNone DEF ReplayOf
<1>5. ASSUME NEW s \in Sid PROVE AlikeNext(Unfed, s)
  <2> DEFINE k == <<epoch', s>>
  <2>0. epoch' = epoch + 1 /\ epoch' \in Epoch /\ epoch' > epoch
    BY <1>1, BookStreamAssumption DEF OnConnected, IInv, TypeOK, Epoch
  <2>1. k \in Key /\ k[1] > epoch /\ epoch' = epoch + 1
    BY <2>0 DEF Key
  <2>2. lastSeq[k] = 0 /\ k \notin poisoned
    BY <2>1 DEF IInv, KnownKeys
  <2>3. lastSeq'[k] = 0 /\ k \notin poisoned'
    BY <1>1, <2>1, <2>2 DEF OnConnected
  <2>4. \A t \in Ticker : books'[t] = None /\ t \notin stale'
    BY <1>1 DEF OnConnected
  <2> HIDE DEF k
  <2>5. Unfed.last[s] = lastSeq'[k] /\ (s \in Unfed.poisoned <=> k \in poisoned')
    BY <2>3, NothingToReplay
  <2>6. \A t \in Ticker : Unfed.books[t] = books'[t] /\ (t \in Unfed.stale <=> t \in stale')
    BY <2>4, NothingToReplay
  <2>7. QED
    BY <2>5, <2>6 DEF AlikeNext, Same, k
<1>6. RecorderInv'
  BY <1>1, <1>3, <1>4, <1>5, StillOpen
<1>7. QED
  BY <1>2, <1>6

LEMMA LostMemory == ASSUME IInv, MemoryIsLost PROVE IInv'
<1> USE DEF IInv
<1>1. /\ books' = [t \in Ticker |-> None] /\ stream' = [t \in Ticker |-> None]
      /\ lastSeq' = [k \in Key |-> 0] /\ poisoned' = {} /\ stale' = {} /\ needsResync' = FALSE
      /\ seen' = [s \in Sid |-> 0] /\ epoch' = epoch /\ pub' = pub
  BY DEF MemoryIsLost
<1>2. TypeOK'
  BY <1>1 DEF TypeOK
<1>3. KeptIsPrefix'
  BY <1>1 DEF KeptIsPrefix
<1>4. HeardIsProcessed'
  <2>1. ASSUME NEW s \in Sid
        PROVE  /\ seen'[s] = 0 /\ Len(pub'[s]) \in Nat
               /\ epoch' > 0 => <<epoch', s>> \in Key /\ lastSeq'[<<epoch', s>>] = 0
    BY <1>1 DEF TypeOK, Key, Epoch
  <2>2. QED
    BY <1>1, <2>1 DEF HeardIsProcessed
<1>5. PublishedIsCoherent'
  BY <1>1 DEF PublishedIsCoherent
<1>6. KnownKeys'
  BY <1>1 DEF KnownKeys
<1>7. QED
  BY <1>2, <1>3, <1>4, <1>5, <1>6

\* record_ws returns: the rest is written.
LEMMA EndStep ==
    ASSUME IInv, RecorderInv, RecorderEnds
    PROVE  IInv' /\ RecorderInv'
<1>1. /\ recorder = "open" /\ recorder' = "over" /\ replay' = ReplayOf(buffer)
      /\ lastShown' = [t \in Ticker |-> View(t)] /\ MemoryIsLost /\ hollow' = hollow
      /\ buffer' = <<>> /\ pub' = pub
  BY DEF RecorderEnds, Left, MemoryIsLost
<1>2. IInv'
  BY <1>1, LostMemory
<1>3. Exact(ReplayOf(buffer))
  BY RebuiltStaysExact DEF RecorderInv, ReplayOf
<1>4. ASSUME NEW t \in Ticker, SidOf(t) \notin hollow
      PROVE  Shown(ReplayOf(buffer), t) = lastShown'[t]
  <2>1. Alike(ReplayOf(buffer), SidOf(t))
    BY <1>1, <1>4, SidOfIsHome DEF RecorderInv
  <2>2. QED
    BY <1>1, <2>1, AlikeShowsTheSame
<1>5. Exact(replay)' /\ AllGenuine(buffer)'
  <2>1. ExactIn(replay', pub') /\ GenuineRows(buffer', pub')
    BY <1>1, <1>3, NothingToReplay DEF Exact
  <2>2. QED
    BY <2>1 DEF Exact, AllGenuine
<1>6. RecorderInv'
  BY <1>1, <1>4, <1>5 DEF RecorderInv
<1>7. QED
  BY <1>2, <1>6

\* A kill: some of the rows are written, the snapshots alone perhaps.
LEMMA KillStep ==
    ASSUME IInv, RecorderInv, RecorderKilled
    PROVE  IInv' /\ RecorderInv'
<1>1. /\ recorder = "open" /\ recorder' = "killed" /\ MemoryIsLost
      /\ buffer' = <<>> /\ pub' = pub
  BY DEF RecorderKilled, MemoryIsLost
<1>2. IInv'
  BY <1>1, LostMemory
<1>3. PICK rows \in TornBatches : replay' = Rebuilt(replay, rows, {"snapshot"})
  BY DEF RecorderKilled
<1>4. AllGenuine(buffer) /\ Exact(replay)
  BY DEF RecorderInv
<1>5. AllGenuine(rows)
  <2>1. CASE rows = <<>> \/ rows = buffer
    BY <1>4, <2>1, NothingToReplay DEF AllGenuine
  <2>2. CASE \E s \in Sid : \E n \in 1 .. Len(pub[s]) : \E f \in Arriving(s, n) :
                 rows = buffer \o RecordBook(f)
    <3>1. PICK s \in Sid : \E n \in 1 .. Len(pub[s]) : \E f \in Arriving(s, n) :
                 rows = buffer \o RecordBook(f)
      BY <2>2
    <3>2. PICK n \in 1 .. Len(pub[s]) : \E f \in Arriving(s, n) : rows = buffer \o RecordBook(f)
      BY <3>1
    <3>3. PICK f \in Arriving(s, n) : rows = buffer \o RecordBook(f)
      BY <3>2
    <3>4. epoch > 0 /\ TypeOK
      <4>1. n >= 1 /\ n <= Len(pub[s]) /\ Len(pub[s]) \in Nat
        BY DEF IInv, TypeOK
      <4>2. QED
        BY <4>1 DEF IInv, PublishedIsCoherent
    <3>5. FromWire(f, s, n) /\ (Truthful(f, s, n) \/ Detectable(f, s, n))
      BY <3>4, IntactIsTruthful, DamageIsDetectable DEF Arriving
    <3>6. f.kind \in {"snapshot", "delta"}
      BY <3>5 DEF FromWire, Frame
    <3>7. CASE Keyed(f)
      <4>1. RecordBook(f) = <<RowOf(f)>> /\ Genuine(RowOf(f))
        BY <3>4, <3>5, <3>6, <3>7, RowOfKeyed, RowIsGenuine
      <4>2. QED
        BY <1>4, <3>3, <4>1, OneRowMore
    <3>8. CASE ~Keyed(f)
      <4>1. RecordBook(f) = <<>>
        BY <3>6, <3>8, RowOfKeyed
      <4>2. buffer \o <<>> = buffer
        BY <1>4, ConcatEmptySeq DEF AllGenuine, GenuineRows
      <4>3. QED
        BY <1>4, <3>3, <4>1, <4>2
    <3>9. QED
      BY <3>7, <3>8
  <2>3. QED
    BY <1>3, <2>1, <2>2 DEF TornBatches
<1>6. Exact(Rebuilt(replay, rows, {"snapshot"}))
  BY <1>4, <1>5, RebuiltStaysExact
<1>7. Exact(replay)' /\ AllGenuine(buffer)'
  <2>1. ExactIn(replay', pub') /\ GenuineRows(buffer', pub')
    BY <1>1, <1>3, <1>6, NothingToReplay DEF Exact
  <2>2. QED
    BY <2>1 DEF Exact, AllGenuine
<1>8. RecorderInv'
  BY <1>1, <1>7 DEF RecorderInv
<1>9. QED
  BY <1>2, <1>8

\* The exchange sends more.
LEMMA SendingStep ==
    ASSUME IInv, RecorderInv, ExchangeSteps
    PROVE  IInv' /\ RecorderInv'
<1>1. /\ recorder \in {"open", "none"} /\ UNCHANGED recorderVars
      /\ \/ \E t \in Ticker, c \in Cell, d \in {-1, 1} : ExchangeMove(t, c, d)
         \/ \E t \in Ticker : ExchangeResnapshot(t)
  BY DEF ExchangeSteps
<1>2. IInv'
  BY <1>1, NextIInv DEF Next
<1>3. PICK s, p : Publish(s, p)
  BY <1>1 DEF ExchangeMove, ExchangeResnapshot
<1>4. /\ pub' = [pub EXCEPT ![s] = Append(@, p)] /\ UNCHANGED <<epoch, seen, procVars>>
  BY <1>3 DEF Publish
<1>5. Grows(pub, pub')
  <2>1. ASSUME NEW r \in Sid, r # s PROVE pub'[r] = pub[r]
    BY <1>4, <2>1 DEF IInv, TypeOK
  <2>2. ASSUME NEW r \in Sid, r = s
        PROVE  /\ Len(pub'[r]) = Len(pub[r]) + 1 /\ Len(pub[r]) \in Nat
               /\ \A n \in 1 .. Len(pub[r]) : pub'[r][n] = pub[r][n]
    <3>1. pub[r] \in Seq(Published) /\ pub'[r] = Append(pub[r], p)
      BY <1>4, <2>2 DEF IInv, TypeOK
    <3>2. QED
      BY <3>1
  <2>3. ASSUME NEW r \in Sid
        PROVE  /\ 1 .. Len(pub[r]) \subseteq 1 .. Len(pub'[r])
               /\ \A n \in 1 .. Len(pub[r]) : pub'[r][n] = pub[r][n]
    <3>1. CASE r = s
      BY <2>2, <3>1
    <3>2. CASE r # s
      BY <2>1, <3>2
    <3>3. QED
      BY <3>1, <3>2
  <2>4. QED
    BY <2>3 DEF Grows
<1>6. AllGenuine(buffer)' /\ Exact(replay)'
  <2>1. GenuineRows(buffer, pub) /\ ExactIn(replay, pub)
    BY DEF RecorderInv, AllGenuine, Exact
  <2>2. GenuineRows(buffer, pub') /\ ExactIn(replay, pub')
    BY <1>5, <2>1, GenuineForever
  <2>3. QED
    BY <1>1, <2>2 DEF AllGenuine, Exact, recorderVars
<1>7. ReplayOf(buffer)' = ReplayOf(buffer)
  BY <1>1 DEF ReplayOf, recorderVars
<1>8. CASE recorder = "open"
  <2>1. \A r \in Sid \ hollow' : AlikeNext(ReplayOf(buffer)', r)
    BY <1>1, <1>4, <1>7, <1>8 DEF RecorderInv, Alike, AlikeNext, recorderVars, procVars
  <2>2. QED
    BY <1>1, <1>2, <1>6, <1>8, <2>1, StillOpen DEF recorderVars
<1>9. CASE recorder = "none"
  BY <1>1, <1>2, <1>6, <1>9 DEF RecorderInv, recorderVars
<1>10. QED
  BY <1>1, <1>8, <1>9

LEMMA RecorderSteps ==
    ASSUME IInv, RecorderInv, [RecorderNext]_<<vars, recorderVars>>
    PROVE  IInv' /\ RecorderInv'
<1>1. CASE RecordOther
  <2>1. recorder = "open" /\ Handled(<<>>) /\ UNCHANGED <<vars, hollow>>
    BY <1>1 DEF RecordOther
  <2>2. IInv'
    BY <2>1, NextIInv
  <2>3. QED
    BY <2>1, <2>2, QuietStep DEF vars
<1>2. CASE OtherConsumer
  <2>1. recorder = "none" /\ UNCHANGED recorderVars /\ Next
    BY <1>2 DEF OtherConsumer, Next
  <2>2. IInv'
    BY <2>1, NextIInv
  <2>3. buffer' = <<>> /\ replay' = Unfed
    BY <2>1 DEF RecorderInv, recorderVars
  <2>4. AllGenuine(buffer)' /\ Exact(replay)'
    BY <2>3, NothingToReplay DEF AllGenuine, Exact
  <2>5. QED
    BY <2>1, <2>2, <2>3, <2>4 DEF RecorderInv, recorderVars
<1>3. CASE UNCHANGED <<vars, recorderVars>>
  <2>1. IInv'
    BY <1>3, NextIInv
  <2>2. UNCHANGED <<epoch, pub, books, lastSeq, poisoned, stale>> /\ UNCHANGED recorderVars
    BY <1>3 DEF vars
  <2>3. AllGenuine(buffer)' /\ Exact(replay)'
    BY <2>2 DEF AllGenuine, Exact, RecorderInv, recorderVars
  <2>4. ReplayOf(buffer)' = ReplayOf(buffer)
    BY <2>2 DEF ReplayOf, recorderVars
  <2>5. \A s \in Sid : Alike(ReplayOf(buffer), s) => Alike(ReplayOf(buffer), s)'
    BY <2>2, <2>4 DEF Alike
  <2>6. QED
    BY <2>1, <2>2, <2>3, <2>5 DEF RecorderInv, recorderVars
<1>4. QED
  BY <1>1, <1>2, <1>3, ConnectedStep, MessageStep, EndStep, KillStep, SendingStep
  DEF RecorderNext

LEMMA RecorderCorrect == RecorderSpec => [](IInv /\ RecorderInv)
<1>1. RecorderInit => IInv /\ RecorderInv
  <2> SUFFICES ASSUME RecorderInit PROVE IInv /\ RecorderInv
    OBVIOUS
  <2>1. IInv
    BY InitIInv DEF RecorderInit
  <2>2. buffer = <<>> /\ replay = Unfed /\ recorder \in {"open", "none"} /\ Init
    BY DEF RecorderInit
  <2>3. AllGenuine(buffer) /\ Exact(replay)
    BY <2>2, NothingToReplay DEF AllGenuine, Exact
  <2>4. ReplayOf(buffer) = Unfed
    BY <2>2, RebuiltOfNone DEF ReplayOf
  <2>5. \A s \in Sid : Alike(Unfed, s)
    BY <2>2, NothingToReplay DEF Init, Alike, Same
  <2>6. QED
    BY <2>1, <2>2, <2>3, <2>4, <2>5 DEF RecorderInv
<1>2. IInv /\ RecorderInv /\ [RecorderNext]_<<vars, recorderVars>> => (IInv /\ RecorderInv)'
  BY RecorderSteps
<1>3. QED
  BY <1>1, <1>2, PTL DEF RecorderSpec

\* What the tables hold can be trusted as the live books could, wherever a batch was cut, and a
\* replay of them shows what the processor showed: RecordIsFaithful, for any markets,
\* subscriptions, batch sizes, losses, damage, kills and connections.
THEOREM RecordStaysReplayable == RecorderSpec => []RecordIsFaithful
<1>1. IInv /\ RecorderInv => RecordIsFaithful
  <2> SUFFICES ASSUME IInv, RecorderInv PROVE RecordIsFaithful
    OBVIOUS
  <2>1. ASSUME NEW t \in Ticker, Shown(replay, t) # None
        PROVE  /\ replay.last[SidOf(t)] \in 1 .. Len(pub[SidOf(t)])
               /\ Shown(replay, t) = pub[SidOf(t)][replay.last[SidOf(t)]].after[t]
    BY <2>1 DEF RecorderInv, Exact, ExactIn, Shown
  <2>2. ASSUME NEW t \in Ticker, SidOf(t) \notin hollow, recorder = "open"
        PROVE  Shown(ReplayOf(buffer), t) = View(t)
    BY <2>2, SidOfIsHome, AlikeShowsTheSame DEF RecorderInv
  <2>3. ASSUME NEW t \in Ticker, SidOf(t) \notin hollow, recorder = "over"
        PROVE  Shown(replay, t) = lastShown[t]
    BY <2>3 DEF RecorderInv
  <2>4. QED
    BY <2>1, <2>2, <2>3 DEF RecordIsFaithful
<1>2. QED
  BY <1>1, RecorderCorrect, PTL

\* Every step of the recorder is one of the processor, or the process and its memory are gone.
LEMMA RecorderDrives == [RecorderNext]_<<vars, recorderVars>> => [Next]_vars \/ MemoryIsLost
<1> SUFFICES ASSUME RecorderNext PROVE [Next]_vars \/ MemoryIsLost
  BY DEF vars
<1>1. CASE RecordBookMessage
  <2>1. PICK s \in Sid : \E n \in 1 .. Len(pub[s]) :
            \/ \E f \in Arriving(s, n) : Receive(s, n) /\ Process(f)
            \/ DeliverWithoutEnvelope(s, n)
    BY <1>1 DEF RecordBookMessage, RecordFrame, DeliverWithoutEnvelope
  <2>2. PICK n \in 1 .. Len(pub[s]) :
            \/ \E f \in Arriving(s, n) : Receive(s, n) /\ Process(f)
            \/ DeliverWithoutEnvelope(s, n)
    BY <2>1
  <2>3. DeliverIntact(s, n) \/ DeliverDamaged(s, n) \/ DeliverWithoutEnvelope(s, n)
    BY <2>2 DEF Arriving, DeliverIntact, DeliverDamaged
  <2>4. QED
    BY <2>3 DEF Next, Deliver
<1>2. CASE RecorderEnds \/ RecorderKilled
  BY <1>2 DEF RecorderEnds, RecorderKilled
<1>3. CASE RecordConnected \/ RecordOther \/ ExchangeSteps \/ OtherConsumer
  BY <1>3 DEF RecordConnected, RecordOther, ExchangeSteps, OtherConsumer, Next
<1>4. QED
  BY <1>1, <1>2, <1>3 DEF RecorderNext

\* The processor keeps its promise (ImplementsTrustedView, and with it TrustedIsExact) while
\* its stream is recorded, whatever becomes of the recorder.
THEOREM RecordedBooksAreTrusted == RecorderSpec => []TrustedIsExact /\ ImplementsTrustedView
<1>1. IInv /\ IInv' /\ MemoryIsLost => [Promise!Next]_(Promise!vars)
  <2> SUFFICES ASSUME MemoryIsLost PROVE Promise!Reset
    BY DEF Promise!Next
  <2>1. seen' = [s \in Sid |-> 0] /\ \A t \in Ticker : View(t)' = None
    BY DEF MemoryIsLost, View
  <2>2. QED
    BY <2>1 DEF Promise!Reset
<1>2. IInv /\ IInv' /\ [RecorderNext]_<<vars, recorderVars>> => [Promise!Next]_(Promise!vars)
  BY <1>1, RecorderDrives, NextRefines
<1>3. RecorderInit => Promise!Init
  BY DEF RecorderInit, Init, Promise!Init, View
<1>4. IInv => TrustedIsExact
  BY IInvImpliesExact
<1>5. QED
  BY <1>2, <1>3, <1>4, RecorderCorrect, PTL DEF RecorderSpec, ImplementsTrustedView, Promise!Spec

=============================================================================
