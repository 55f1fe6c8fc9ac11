----------------------------- MODULE BookStream -----------------------------
(***************************************************************************)
(* BookStreamProcessor (data/normalization/book_stream.py): order-book     *)
(* frames in, order books that can be trusted out.                         *)
(*                                                                         *)
(* The exchange numbers the frames of a subscription (a sid) 1, 2, 3, ...  *)
(* The processor applies a frame only when it is the next one, poisons the *)
(* subscription when a number is missing, and marks a ticker stale when a  *)
(* frame contradicts its book.  book(ticker) is None unless the book is    *)
(* known, not stale and not on a poisoned subscription.                    *)
(*                                                                         *)
(* The exchange and the wire are the environment.  Any frame published on  *)
(* the current connection can be delivered at any moment, so frames are    *)
(* lost, repeated and reordered at will; a frame can also be delivered     *)
(* with its envelope missing or with content that cannot be valid.         *)
(***************************************************************************)
EXTENDS OrderBook, FiniteSets

CONSTANTS
    Ticker,         \* the markets subscribed to
    Sid,            \* the subscriptions of a connection, one per batch
    Batch,          \* Batch[s]: the tickers of subscription s, in snapshot order
    None,           \* Python's None
    MaxEpoch,       \* bound: connections made
    MaxSeq,         \* bound: frames published per subscription
    MaxQty          \* bound: quantity the exchange rests at one level

SidOf(t) == CHOOSE s \in Sid : \E i \in DOMAIN Batch[s] : Batch[s][i] = t

ASSUME BookStreamAssumption ==
    /\ MaxEpoch \in Nat /\ MaxSeq \in Nat /\ MaxQty \in Nat
    /\ Price # {}
    /\ Batch \in [Sid -> Seq(Ticker)]
    /\ \A s \in Sid : Batch[s] # <<>>
    /\ \A t \in Ticker : \E s \in Sid : \E i \in DOMAIN Batch[s] : Batch[s][i] = t
    /\ \A s1, s2 \in Sid : \A i \in DOMAIN Batch[s1], j \in DOMAIN Batch[s2] :
           Batch[s1][i] = Batch[s2][j] => s1 = s2
    /\ None \notin Book /\ None \notin Nat /\ None \notin Sid

Epoch == 1 .. MaxEpoch
Key == Epoch \X Sid

VARIABLES
    \* the environment
    epoch,          \* generation of the current connection, 0 before the first
    pub,            \* pub[s]: what was published on s in this connection
    seen,           \* seen[s]: highest seq received on s in this connection
    \* BookStreamProcessor
    books,          \* _books: ticker -> book, or None
    stream,         \* _ticker_stream: ticker -> <<epoch, sid>>, or None
    lastSeq,        \* _last_seq: <<epoch, sid>> -> seq, 0 when there is none
    poisoned,       \* _poisoned
    stale,          \* _stale_tickers
    needsResync     \* _needs_resync

envVars == <<epoch, pub, seen>>
procVars == <<books, stream, lastSeq, poisoned, stale, needsResync>>
vars == <<epoch, pub, seen, books, stream, lastSeq, poisoned, stale, needsResync>>

(***************************************************************************)
(* One published frame, with the exchange's books right after it: the      *)
(* processor never sees "after", the properties do.                        *)
(***************************************************************************)
Published ==
    [kind : {"snapshot", "delta"}, ticker : Ticker, cell : Cell, delta : Int,
     after : [Ticker -> Book]]

\* What arrives.  sid is None when the envelope has no sid or no seq.
Frame ==
    [kind : {"snapshot", "delta"}, ticker : Ticker, epoch : Epoch,
     sid : Sid \cup {None}, seq : Nat, listing : Listing,
     cell : AnyCell, delta : Int]

TypeOK ==
    /\ epoch \in 0 .. MaxEpoch
    /\ pub \in [Sid -> Seq(Published)]
    /\ seen \in [Sid -> Nat]
    /\ books \in [Ticker -> Book \cup {None}]
    /\ stream \in [Ticker -> Key \cup {None}]
    /\ lastSeq \in [Key -> Nat]
    /\ poisoned \in SUBSET Key
    /\ stale \in SUBSET Ticker
    /\ needsResync \in BOOLEAN

Init ==
    /\ epoch = 0
    /\ pub = [s \in Sid |-> <<>>]
    /\ seen = [s \in Sid |-> 0]
    /\ books = [t \in Ticker |-> None]
    /\ stream = [t \in Ticker |-> None]
    /\ lastSeq = [k \in Key |-> 0]
    /\ poisoned = {}
    /\ stale = {}
    /\ needsResync = FALSE

----------------------------------------------------------------------------
(* Reading. *)

\* Fault: poisoned subscriptions are still shown.
ViewIgnoringPoison(t) ==
    IF books[t] = None \/ t \in stale THEN None ELSE books[t]

\* BookStreamProcessor.book(ticker).
View(t) ==
    IF books[t] = None \/ t \in stale \/ stream[t] \in poisoned
    THEN None
    ELSE books[t]

----------------------------------------------------------------------------
(* The exchange. *)

\* The books as of the last frame published on a subscription.
Latest(s) == pub[s][Len(pub[s])].after

SomeCell == CHOOSE c \in Cell : TRUE    \* a snapshot's unused cell

\* A subscription starts with one snapshot of each of its markets.
Opening(s, start) ==
    [i \in DOMAIN Batch[s] |->
        [kind |-> "snapshot", ticker |-> Batch[s][i], cell |-> SomeCell,
         delta |-> 0, after |-> start]]

Publish(s, p) ==
    /\ Len(pub[s]) < MaxSeq
    /\ pub' = [pub EXCEPT ![s] = Append(@, p)]
    /\ UNCHANGED <<epoch, seen, procVars>>

\* A bid is placed, cancelled or traded: the level at c changes by d.
ExchangeMove(t, c, d) ==
    LET s == SidOf(t)
        now == Latest(s)
    IN  /\ epoch > 0
        /\ now[t][c] + d \in 0 .. MaxQty
        /\ Publish(s, [kind |-> "delta", ticker |-> t, cell |-> c, delta |-> d,
                       after |-> [now EXCEPT ![t] = WithDelta(@, c, d)]])

\* The exchange sends a market's whole book again.
ExchangeResnapshot(t) ==
    LET s == SidOf(t)
    IN  /\ epoch > 0
        /\ Publish(s, [kind |-> "snapshot", ticker |-> t, cell |-> SomeCell,
                       delta |-> 0, after |-> Latest(s)])

----------------------------------------------------------------------------
(* BookStreamProcessor.on_connected, with the new connection's opening.    *)
(* The books moved freely while nobody was listening.                      *)

StartBook == [Cell -> 0 .. MaxQty]

OnConnected ==
    /\ epoch < MaxEpoch
    /\ epoch' = epoch + 1
    /\ \E start \in [Ticker -> StartBook] :
           pub' = [s \in Sid |-> Opening(s, start)]
    /\ seen' = [s \in Sid |-> 0]
    /\ books' = [t \in Ticker |-> None]
    /\ stream' = [t \in Ticker |-> None]
    /\ lastSeq' = [k \in Key |-> IF k[1] = epoch' THEN lastSeq[k] ELSE 0]
    /\ poisoned' = {k \in poisoned : k[1] = epoch'}
    /\ stale' = {}
    /\ needsResync' = FALSE

\* BookStreamProcessor.acknowledge_resync.
AcknowledgeResync ==
    /\ needsResync
    /\ needsResync' = FALSE
    /\ UNCHANGED <<envVars, books, stream, lastSeq, poisoned, stale>>

----------------------------------------------------------------------------
(* BookStreamProcessor.process, one action per outcome. *)

KeyOf(f) == <<f.epoch, f.sid>>
HasEnvelope(f) == f.sid # None
Live(f) == HasEnvelope(f) /\ KeyOf(f) \notin poisoned

\* Fault: any later number is taken for the next one.
InSequenceIgnoringGaps(f) ==
    /\ Live(f)
    /\ lastSeq[KeyOf(f)] = 0 \/ f.seq > lastSeq[KeyOf(f)]

\* _sequence lets the frame proceed: the first of its stream, or the next.
InSequence(f) ==
    /\ Live(f)
    /\ lastSeq[KeyOf(f)] = 0 \/ f.seq = lastSeq[KeyOf(f)] + 1

\* _sequence finds a number missing.
SkipsAhead(f) ==
    /\ Live(f)
    /\ lastSeq[KeyOf(f)] # 0 /\ f.seq > lastSeq[KeyOf(f)] + 1

\* The assignments _sequence makes when it lets a frame proceed.
Advance(f) ==
    /\ lastSeq' = [lastSeq EXCEPT ![KeyOf(f)] = f.seq]
    /\ stream' = [stream EXCEPT ![f.ticker] = KeyOf(f)]
    /\ UNCHANGED poisoned

\* INCONSISTENT, missing sid/seq.
RejectNoEnvelope(f) ==
    /\ ~HasEnvelope(f)
    /\ needsResync' = TRUE
    /\ UNCHANGED <<books, stream, lastSeq, poisoned, stale>>

\* STALE_STREAM, DUPLICATE and OUT_OF_ORDER: counted and dropped.
RejectSilently(f) ==
    /\ HasEnvelope(f)
    /\ \/ KeyOf(f) \in poisoned
       \/ lastSeq[KeyOf(f)] # 0 /\ f.seq <= lastSeq[KeyOf(f)]
    /\ UNCHANGED procVars

\* GAP: the whole subscription is poisoned.
RejectGap(f) ==
    /\ SkipsAhead(f)
    /\ poisoned' = poisoned \cup {KeyOf(f)}
    /\ needsResync' = TRUE
    /\ UNCHANGED <<books, stream, lastSeq, stale>>

\* _on_snapshot, APPLIED: replaces the book and repairs a stale one.
ApplySnapshot(f) ==
    /\ f.kind = "snapshot" /\ InSequence(f) /\ SnapshotOK(f.listing)
    /\ Advance(f)
    /\ books' = [books EXCEPT ![f.ticker] = FromListing(f.listing)]
    /\ stale' = stale \ {f.ticker}
    /\ UNCHANGED needsResync

\* Fault: the contradicted book stays trusted.
MarkStaleNothing(f) ==
    /\ Advance(f)
    /\ needsResync' = TRUE
    /\ UNCHANGED <<books, stale>>

\* Fault: the book is marked stale but no resync is asked for.
MarkStaleSilently(f) ==
    /\ Advance(f)
    /\ stale' = stale \cup {f.ticker}
    /\ UNCHANGED <<books, needsResync>>

\* The INCONSISTENT tail shared by _on_snapshot and _on_delta.
MarkStale(f) ==
    /\ Advance(f)
    /\ stale' = stale \cup {f.ticker}
    /\ needsResync' = TRUE
    /\ UNCHANGED books

RejectSnapshot(f) ==
    /\ f.kind = "snapshot" /\ InSequence(f) /\ ~SnapshotOK(f.listing)
    /\ MarkStale(f)

Patchable(f) == books[f.ticker] # None /\ f.ticker \notin stale

\* _on_delta, NO_SNAPSHOT: nothing to apply it to; the number is used up.
RejectNoSnapshot(f) ==
    /\ f.kind = "delta" /\ InSequence(f) /\ ~Patchable(f)
    /\ Advance(f)
    /\ needsResync' = TRUE
    /\ UNCHANGED <<books, stale>>

\* _on_delta, APPLIED.
ApplyDelta(f) ==
    /\ f.kind = "delta" /\ InSequence(f) /\ Patchable(f)
    /\ DeltaOK(books[f.ticker], f.cell, f.delta)
    /\ Advance(f)
    /\ books' = [books EXCEPT ![f.ticker] = WithDelta(@, f.cell, f.delta)]
    /\ UNCHANGED <<stale, needsResync>>

RejectDelta(f) ==
    /\ f.kind = "delta" /\ InSequence(f) /\ Patchable(f)
    /\ ~DeltaOK(books[f.ticker], f.cell, f.delta)
    /\ MarkStale(f)

Process(f) ==
    \/ RejectNoEnvelope(f)
    \/ RejectSilently(f)
    \/ RejectGap(f)
    \/ ApplySnapshot(f)
    \/ RejectSnapshot(f)
    \/ RejectNoSnapshot(f)
    \/ ApplyDelta(f)
    \/ RejectDelta(f)

\* ProcessResult.applied
IsApplied(f) ==
    /\ InSequence(f)
    /\ IF f.kind = "snapshot"
       THEN SnapshotOK(f.listing)
       ELSE Patchable(f) /\ DeltaOK(books[f.ticker], f.cell, f.delta)

----------------------------------------------------------------------------
(* The wire. *)

FrameAt(s, n) ==
    LET p == pub[s][n]
    IN  [kind |-> p.kind, ticker |-> p.ticker, epoch |-> epoch, sid |-> s,
         seq |-> n, listing |-> ListingOf(p.after[p.ticker]),
         cell |-> p.cell, delta |-> p.delta]

\* A level no snapshot may have: listed twice, or at a price out of range.  (A
\* negative quantity never gets past the wire model, parse_ws_message.)
Spoiled(c) == IF c \in Cell THEN <<1, 1>> ELSE <<1>>

\* The same frame with content no consistent exchange state could produce: a
\* spoiled level, a price out of range, or a reduction of more than the level has.
Damaged(s, n) ==
    LET f == FrameAt(s, n)
    IN  IF f.kind = "snapshot"
        THEN {[f EXCEPT !.listing = [f.listing EXCEPT ![c] = Spoiled(c)]] : c \in AnyCell}
        ELSE {[f EXCEPT !.cell = c] : c \in AnyCell \ Cell}
             \cup {[f EXCEPT !.delta = f.delta - pub[s][n].after[f.ticker][f.cell] - 1]}

WithoutEnvelope(f) == [f EXCEPT !.sid = None]

Receive(s, n) ==
    /\ seen' = [seen EXCEPT ![s] = MaxOf(@, n)]
    /\ UNCHANGED <<epoch, pub>>

DeliverIntact(s, n) == Receive(s, n) /\ Process(FrameAt(s, n))

DeliverDamaged(s, n) == Receive(s, n) /\ \E f \in Damaged(s, n) : Process(f)

\* No number was received, so "seen" stays.
DeliverWithoutEnvelope(s, n) ==
    Process(WithoutEnvelope(FrameAt(s, n))) /\ UNCHANGED envVars

Deliver ==
    \E s \in Sid : \E n \in 1 .. Len(pub[s]) :
        \/ DeliverIntact(s, n)
        \/ DeliverDamaged(s, n)
        \/ DeliverWithoutEnvelope(s, n)

Next ==
    \/ OnConnected
    \/ AcknowledgeResync
    \/ \E t \in Ticker, c \in Cell, d \in {-1, 1} : ExchangeMove(t, c, d)
    \/ \E t \in Ticker : ExchangeResnapshot(t)
    \/ Deliver

Spec == Init /\ [][Next]_vars

----------------------------------------------------------------------------
(* Properties. *)

(***************************************************************************)
(* Fail closed.  Whatever was lost, repeated, reordered or damaged, a book *)
(* that book(ticker) returns is exactly the exchange's book at the newest  *)
(* frame received on that market's subscription: never an older one, never *)
(* one with a change missing, never another connection's.                  *)
(***************************************************************************)
TrustedIsExact ==
    \A t \in Ticker : View(t) # None =>
        /\ seen[SidOf(t)] \in 1 .. Len(pub[SidOf(t)])
        /\ View(t) = pub[SidOf(t)][seen[SidOf(t)]].after[t]

(***************************************************************************)
(* The strengthening of TrustedIsExact that every step preserves: it also  *)
(* covers the books that are kept but not shown, and says where the        *)
(* processor stands relative to what was received.                         *)
(***************************************************************************)
KeptIsPrefix ==
    \A t \in Ticker : books[t] # None /\ t \notin stale =>
        LET k == <<epoch, SidOf(t)>>
        IN  /\ epoch > 0
            /\ stream[t] = k
            /\ lastSeq[k] \in 1 .. Len(pub[SidOf(t)])
            /\ books[t] = pub[SidOf(t)][lastSeq[k]].after[t]

HeardIsProcessed ==
    \A s \in Sid :
        /\ seen[s] <= Len(pub[s])
        /\ epoch > 0 =>
               /\ lastSeq[<<epoch, s>>] <= seen[s]
               /\ lastSeq[<<epoch, s>>] = 0 =>
                      seen[s] = 0 /\ <<epoch, s>> \notin poisoned
               /\ <<epoch, s>> \notin poisoned => lastSeq[<<epoch, s>>] = seen[s]

\* A frame published after the books "before" changes its own market only.
Continues(before, p) ==
    p.after = IF p.kind = "snapshot" THEN before
              ELSE [before EXCEPT ![p.ticker] = WithDelta(@, p.cell, p.delta)]

\* The frames of a subscription are of its own markets and tell one story.
PublishedIsCoherent ==
    \A s \in Sid :
        /\ epoch > 0 <=> Len(pub[s]) > 0
        /\ \A n \in 1 .. Len(pub[s]) : SidOf(pub[s][n].ticker) = s
        /\ \A n \in 2 .. Len(pub[s]) : Continues(pub[s][n-1].after, pub[s][n])

\* Only streams of the connections made so far are known.
KnownKeys ==
    \A k \in Key : k[1] > epoch => lastSeq[k] = 0 /\ k \notin poisoned

IInv == TypeOK /\ KeptIsPrefix /\ HeardIsProcessed /\ PublishedIsCoherent /\ KnownKeys

(***************************************************************************)
(* The processor implements the promise of TrustedView.                    *)
(***************************************************************************)
Promise == INSTANCE TrustedView WITH
    log <- pub, cut <- seen, shown <- [t \in Ticker |-> View(t)],
    Home <- [t \in Ticker |-> SidOf(t)]

ImplementsTrustedView == Promise!Spec

=============================================================================
