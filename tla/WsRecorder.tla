------------------------------ MODULE WsRecorder ------------------------------
(***************************************************************************)
(* WsBookRecorder and record_ws (data/collectors/books.py): the stream of  *)
(* a connection is written to the database as it comes, in batches, so     *)
(* that the books can be rebuilt later with the same processor             *)
(* (data/schemas/ddl.py: "exactly as received (replay with                 *)
(* BookStreamProcessor)").  The processor that runs along decides what is  *)
(* an incident and when to ask for a new connection: needsResync stands    *)
(* for that request, which the WebSocket client has once handle returns.   *)
(*                                                                         *)
(* The six tables of a batch are written one after the other.  What is     *)
(* replayed here is what the tables hold of the current connection, in     *)
(* order of receipt.                                                       *)
(***************************************************************************)
EXTENDS BookStream

CONSTANTS
    FlushRows,      \* flush_rows
    MaxRecorded,    \* bound: connections of a recorder
    RecordedFrom    \* bound: the exchange's books when they open

ASSUME WsRecorderAssumption == FlushRows \in Nat \ {0} /\ MaxRecorded \in Nat

VARIABLES
    recorder,   \* "open", "over" once record_ws has returned, "killed", or "none": another
                \* consumer drives the processor
    buffer,     \* rows not written yet, of all tables
    replay,     \* the processor that has been given the rows written
    \* ghosts
    hollow,     \* subscriptions that lost a refused snapshot
    lastShown   \* what the processor showed when record_ws returned

recorderVars == <<recorder, buffer, replay, hollow, lastShown>>

Unfed ==
    [books |-> [t \in Ticker |-> None], last |-> [s \in Sid |-> 0], poisoned |-> {}, stale |-> {}]

-----------------------------------------------------------------------------
(* Rows.  The rows of no book (incidents, trades, lifecycle messages, what *)
(* was quarantined) are left out of the batch; they may fill it whenever.  *)

SnapshotRow(f) ==
    [kind |-> "snapshot", ticker |-> f.ticker, sid |-> f.sid, seq |-> f.seq,
     book |-> FromListing(f.listing)]
DeltaRow(f) ==
    [kind |-> "delta", ticker |-> f.ticker, sid |-> f.sid, seq |-> f.seq,
     cell |-> f.cell, delta |-> f.delta]

\* Fault: only what the processor applied is worth a row.
RecordBookApplied(f) ==
    CASE ~ IsApplied(f) -> <<>>
      [] IsApplied(f) /\ f.kind = "delta" -> <<DeltaRow(f)>>
      [] IsApplied(f) /\ f.kind = "snapshot" -> <<SnapshotRow(f)>>

\* _record_book: as received, whatever the processor made of it; but a frame without its
\* envelope cannot be keyed, and a snapshot no book accepts has no levels to store.
Keyed(f) == HasEnvelope(f) /\ (f.kind = "snapshot" => SnapshotOK(f.listing))
RecordBook(f) ==
    CASE ~ Keyed(f) -> <<>>
      [] Keyed(f) /\ f.kind = "delta" -> <<DeltaRow(f)>>
      [] Keyed(f) /\ f.kind = "snapshot" -> <<SnapshotRow(f)>>

-----------------------------------------------------------------------------
(* A replay: BookStreamProcessor on rows instead of frames.                *)

Numbered(st, row) == [st EXCEPT !.last[row.sid] = row.seq]
Patched(st, row) ==
    IF st.books[row.ticker] = None \/ row.ticker \in st.stale THEN st
    ELSE IF DeltaOK(st.books[row.ticker], row.cell, row.delta)
    THEN [st EXCEPT !.books[row.ticker] = WithDelta(@, row.cell, row.delta)]
    ELSE [st EXCEPT !.stale = @ \cup {row.ticker}]
Replayed(st, row) ==
    LET last == st.last[row.sid]
    IN  IF row.sid \in st.poisoned \/ (last # 0 /\ row.seq <= last) THEN st
        ELSE IF last # 0 /\ row.seq > last + 1
        THEN [st EXCEPT !.poisoned = @ \cup {row.sid}]
        ELSE IF row.kind = "delta" THEN Patched(Numbered(st, row), row)
        ELSE [Numbered(st, row) EXCEPT !.books[row.ticker] = row.book, !.stale = @ \ {row.ticker}]
\* A replay goes on with rows, of some kinds of them only.
Given(st, row, kinds) == IF row.kind \in kinds THEN Replayed(st, row) ELSE st
Rebuilt(st, rows, kinds) ==
    LET after[n \in 0 .. Len(rows)] ==
            IF n = 0 THEN st ELSE Given(after[n-1], rows[n], kinds)
    IN  after[Len(rows)]
ReplayOf(rows) == Rebuilt(replay, rows, {"snapshot", "delta"})
Shown(st, t) ==
    IF t \in st.stale \/ SidOf(t) \in st.poisoned THEN None ELSE st.books[t]

-----------------------------------------------------------------------------

RecorderInit ==
    /\ Init
    /\ recorder \in {"open", "none"}
    /\ buffer = <<>> /\ replay = Unfed /\ hollow = {} /\ lastShown = None

\* The tail of handle.
Handled(rows) ==
    LET all == buffer \o rows
    IN  /\ \/ replay' = ReplayOf(all) /\ buffer' = <<>>
           \/ Len(all) < FlushRows /\ buffer' = all /\ UNCHANGED replay
        /\ UNCHANGED <<recorder, lastShown>>

\* Disconnected and Connected: rows of no book.  What was buffered is of no connection now.
RecordConnected ==
    /\ recorder = "open" /\ epoch < MaxRecorded
    /\ OnConnected /\ \A s \in Sid : pub'[s][1].after \in RecordedFrom
    /\ buffer' = <<>> /\ replay' = Unfed /\ hollow' = {} /\ UNCHANGED <<recorder, lastShown>>

RecordFrame(f) ==
    /\ recorder = "open"
    /\ Process(f)
    /\ Handled(RecordBook(f))
    /\ hollow' = IF HasEnvelope(f) /\ ~ Keyed(f) THEN hollow \cup {f.sid} ELSE hollow
Arriving(s, n) == {FrameAt(s, n)} \cup Damaged(s, n)
RecordBookMessage ==
    \E s \in Sid : \E n \in 1 .. Len(pub[s]) :
        \/ \E f \in Arriving(s, n) : Receive(s, n) /\ RecordFrame(f)
        \/ RecordFrame(WithoutEnvelope(FrameAt(s, n))) /\ UNCHANGED envVars
\* A trade, a lifecycle message, an error, a frame that does not parse.
RecordOther ==
    /\ recorder = "open" /\ buffer # <<>>
    /\ Handled(<<>>)
    /\ UNCHANGED <<vars, hollow>>

\* Nothing in memory survives the process.
MemoryIsLost ==
    /\ books' = [t \in Ticker |-> None] /\ stream' = [t \in Ticker |-> None]
    /\ lastSeq' = [k \in Key |-> 0] /\ poisoned' = {} /\ stale' = {} /\ needsResync' = FALSE
    /\ seen' = [s \in Sid |-> 0] /\ buffer' = <<>>
    /\ UNCHANGED <<epoch, pub>>

\* Fault: what is buffered is not written at the end.
LeftUnwritten(rows) == replay
\* record_ws returns or raises: in its finally, what is buffered is written.
Left(rows) == ReplayOf(rows)
RecorderEnds ==
    /\ recorder = "open" /\ recorder' = "over" /\ replay' = Left(buffer)
    /\ lastShown' = [t \in Ticker |-> View(t)]
    /\ MemoryIsLost /\ UNCHANGED hollow

\* A hard kill: what is buffered is lost; or, in the middle of flush, what comes after the
\* first of the tables, the snapshots.
TornBatches ==
    {<<>>, buffer} \cup
    UNION {UNION {{buffer \o RecordBook(f) : f \in Arriving(s, n)} : n \in 1 .. Len(pub[s])} :
               s \in Sid}
RecorderKilled ==
    /\ recorder = "open" /\ recorder' = "killed" /\ hollow' = {}
    /\ \E rows \in TornBatches : replay' = Rebuilt(replay, rows, {"snapshot"})
    /\ MemoryIsLost /\ UNCHANGED lastShown

ExchangeSteps ==
    /\ recorder \in {"open", "none"}
    /\ \/ \E t \in Ticker, c \in Cell, d \in {-1, 1} : ExchangeMove(t, c, d)
       \/ \E t \in Ticker : ExchangeResnapshot(t)
    /\ UNCHANGED recorderVars
OtherConsumer ==
    /\ recorder = "none"
    /\ OnConnected \/ AcknowledgeResync \/ Deliver
    /\ UNCHANGED recorderVars

RecorderNext ==
    \/ RecordConnected \/ RecordBookMessage \/ RecordOther
    \/ RecorderEnds \/ RecorderKilled
    \/ ExchangeSteps \/ OtherConsumer

RecorderSpec == RecorderInit /\ [][RecorderNext]_<<vars, recorderVars>>

-----------------------------------------------------------------------------
(* Properties                                                              *)

(***************************************************************************)
(* What the tables hold can be trusted as the live books could: wherever   *)
(* a batch was cut by a kill, a book the replay shows is the exchange's at *)
(* the frame replayed last; and unless the recorder was killed the replay  *)
(* shows all the live processor showed, but for the subscriptions where a  *)
(* refused snapshot, which is not stored, used up a number or showed a gap.*)
(***************************************************************************)
RecordIsFaithful ==
    /\ \A t \in Ticker : Shown(replay, t) # None =>
           LET n == replay.last[SidOf(t)]
           IN  n \in 1 .. Len(pub[SidOf(t)]) /\ Shown(replay, t) = pub[SidOf(t)][n].after[t]
    /\ \A t \in Ticker : SidOf(t) \notin hollow =>
           /\ recorder = "open" => Shown(ReplayOf(buffer), t) = View(t)
           /\ recorder = "over" => Shown(replay, t) = lastShown[t]
=============================================================================
