------------------------------ MODULE LiveFeed ------------------------------
(***************************************************************************)
(* The live book feed: KalshiWebSocket.stream (kalshi_client/websocket.py) *)
(* drives BookStreamProcessor through WsAdapter (paper/adapter.py), all on *)
(* one asyncio loop (paper/sources.py, WsSource.events).                   *)
(*                                                                         *)
(* The stream generator is resumed once per event, and on_stream_event     *)
(* runs to completion for each; ticks come whenever the generator waits.   *)
(* Every step is a step of BookStream or leaves its variables alone.       *)
(***************************************************************************)
EXTENDS BookStream

CONSTANT MaxReconnects      \* max_reconnects of the client, or None

ASSUME LiveFeedAssumption == MaxReconnects \in Nat \cup {None}

Phase == {
    "connecting",   \* between connections, in the handshake or the backoff sleep
    "receiving",    \* awaiting ws.recv()
    "handling",     \* a frame was processed, its resync request was not yet read
    "yielded",      \* the event was consumed; the generator is about to resume
    "closing",      \* out of the receive loop, closing the socket
    "done",         \* the generator returned
    "failed"        \* AuthenticationError was raised
}

VARIABLES
    \* KalshiWebSocket
    phase,          \* where the stream generator stands
    closed,         \* _closed
    resyncReason,   \* _resync_reason is not None
    reconnects,     \* reconnects, up to one above MaxReconnects
    \* WsAdapter
    connected,      \* connected
    quiet,          \* no frame for more than stale_s
    \* what the strategy was told, and what the properties remember
    told,           \* told[t]: the book of the last BookUpdate for t, or None
    confirmed,      \* the markets confirmed by the latest step
    unread          \* unread[s]: highest frame of s that arrived unreadable

clientVars == <<phase, closed, resyncReason, reconnects>>
feedVars == <<phase, closed, resyncReason, reconnects, connected, quiet,
              told, confirmed, unread>>
allVars == <<vars, feedVars>>

FeedInit ==
    /\ Init
    /\ phase = "connecting"
    /\ closed = FALSE
    /\ resyncReason = FALSE
    /\ reconnects = 0
    /\ connected = FALSE
    /\ quiet = FALSE
    /\ told = [t \in Ticker |-> None]
    /\ confirmed = {}
    /\ unread = [s \in Sid |-> 0]

----------------------------------------------------------------------------
(* KalshiWebSocket.stream *)

\* After a connection or an attempt: give up when closed or out of reconnects,
\* otherwise sleep and try again.
NextAttempt ==
    IF closed THEN phase' = "done" /\ UNCHANGED reconnects
    ELSE /\ reconnects' = IF MaxReconnects = None THEN reconnects ELSE reconnects + 1
         /\ phase' = IF MaxReconnects # None /\ reconnects' > MaxReconnects
                     THEN "done" ELSE "connecting"

\* while not self._closed: found closed after the backoff sleep.
StopConnecting ==
    /\ phase = "connecting" /\ closed
    /\ phase' = "done"
    /\ confirmed' = {}
    /\ UNCHANGED <<vars, closed, resyncReason, reconnects, connected, quiet, told, unread>>

\* A handshake error other than 401/403, an OSError or a timeout.
ConnectFails ==
    /\ phase = "connecting"
    /\ NextAttempt
    /\ confirmed' = {}
    /\ UNCHANGED <<vars, closed, resyncReason, connected, quiet, told, unread>>

\* HTTP 401/403, or no credentials: fatal.
AuthenticationFails ==
    /\ phase = "connecting"
    /\ phase' = "failed"
    /\ confirmed' = {}
    /\ UNCHANGED <<vars, closed, resyncReason, reconnects, connected, quiet, told, unread>>

\* The handshake succeeds; the adapter handles Connected; the client subscribes.
\* close() may have been called while the handshake was under way.
Connect ==
    /\ phase = "connecting"
    /\ OnConnected
    /\ phase' = "receiving"
    /\ resyncReason' = FALSE
    /\ connected' = TRUE
    /\ quiet' = FALSE
    /\ confirmed' = {}
    /\ unread' = [s \in Sid |-> 0]
    /\ UNCHANGED <<closed, reconnects, told>>

\* Fault: only deltas are passed on.
TellDeltasOnly(f) ==
    told' = IF f.kind = "delta" /\ IsApplied(f) /\ View(f.ticker)' # None
            THEN [told EXCEPT ![f.ticker] = View(f.ticker)']
            ELSE told

\* The adapter's BookUpdate for an applied frame.
TellApplied(f) ==
    told' = IF IsApplied(f) /\ View(f.ticker)' # None
            THEN [told EXCEPT ![f.ticker] = View(f.ticker)']
            ELSE told

\* A numbered book frame arrives and on_stream_event processes it.
ReceiveBookFrame ==
    /\ phase = "receiving"
    /\ \E s \in Sid : \E n \in 1 .. Len(pub[s]) :
           /\ Receive(s, n)
           /\ \E f \in {FrameAt(s, n)} \cup Damaged(s, n) :
                  Process(f) /\ TellApplied(f)
    /\ phase' = "handling"
    /\ quiet' = FALSE
    /\ confirmed' = {}
    /\ UNCHANGED <<closed, resyncReason, reconnects, connected, unread>>

\* A book frame without sid or seq.
ReceiveWithoutEnvelope ==
    /\ phase = "receiving"
    /\ \E s \in Sid : \E n \in 1 .. Len(pub[s]) :
           /\ DeliverWithoutEnvelope(s, n)
           /\ unread' = [unread EXCEPT ![s] = MaxOf(@, n)]
    /\ phase' = "handling"
    /\ quiet' = FALSE
    /\ confirmed' = {}
    /\ UNCHANGED <<closed, resyncReason, reconnects, connected, told>>

\* A book frame that does not parse: a Malformed event, an incident, no resync.
ReceiveMalformed ==
    /\ phase = "receiving"
    /\ \E s \in Sid : \E n \in 1 .. Len(pub[s]) :
           unread' = [unread EXCEPT ![s] = MaxOf(@, n)]
    /\ phase' = "yielded"
    /\ confirmed' = {}
    /\ UNCHANGED <<vars, closed, resyncReason, reconnects, connected, quiet, told>>

\* A trade, lifecycle, ticker or control frame.
ReceiveOther ==
    /\ phase = "receiving"
    /\ phase' = "yielded"
    /\ quiet' = FALSE
    /\ confirmed' = {}
    /\ UNCHANGED <<vars, closed, resyncReason, reconnects, connected, told, unread>>

\* Fault: the resync is acknowledged and never requested.
HandleResyncLost ==
    /\ phase = "handling"
    /\ phase' = "yielded"
    /\ IF needsResync THEN AcknowledgeResync ELSE UNCHANGED vars
    /\ confirmed' = {}
    /\ UNCHANGED <<closed, resyncReason, reconnects, connected, quiet, told, unread>>

\* The end of on_stream_event, and WsSource's request_resync.  No await comes
\* between the frame's processing and this.
HandleResync ==
    /\ phase = "handling"
    /\ phase' = "yielded"
    /\ IF needsResync
       THEN AcknowledgeResync /\ resyncReason' = TRUE
       ELSE UNCHANGED <<vars, resyncReason>>
    /\ confirmed' = {}
    /\ UNCHANGED <<closed, reconnects, connected, quiet, told, unread>>

\* Fault: closed is not looked at after an event.
ResumeIgnoringClose ==
    /\ phase = "yielded"
    /\ phase' = IF resyncReason THEN "closing" ELSE "receiving"
    /\ confirmed' = {}
    /\ UNCHANGED <<vars, closed, resyncReason, reconnects, connected, quiet, told, unread>>

\* The generator resumes after the event it yielded.
Resume ==
    /\ phase = "yielded"
    /\ phase' = IF closed \/ resyncReason THEN "closing" ELSE "receiving"
    /\ confirmed' = {}
    /\ UNCHANGED <<vars, closed, resyncReason, reconnects, connected, quiet, told, unread>>

\* recv() times out after stale_timeout, or the connection is closed by either side.
ReceiveEnds ==
    /\ phase = "receiving"
    /\ phase' = "closing"
    /\ confirmed' = {}
    /\ UNCHANGED <<vars, closed, resyncReason, reconnects, connected, quiet, told, unread>>

\* The socket is closed, the adapter handles Disconnected, the generator goes on.
Disconnect ==
    /\ phase = "closing"
    /\ connected' = FALSE
    /\ NextAttempt
    /\ confirmed' = {}
    /\ UNCHANGED <<vars, closed, resyncReason, quiet, told, unread>>

\* KalshiWebSocket.close, from another task.
Close ==
    /\ ~closed
    /\ closed' = TRUE
    /\ confirmed' = {}
    /\ UNCHANGED <<vars, phase, resyncReason, reconnects, connected, quiet, told, unread>>

----------------------------------------------------------------------------
(* WsAdapter.tick and the passing of time. *)

\* stale_s pass without a frame.
GoQuiet ==
    /\ connected /\ ~quiet
    /\ quiet' = TRUE
    /\ confirmed' = {}
    /\ UNCHANGED <<vars, clientVars, connected, told, unread>>

\* Fault: every known market is confirmed, trusted or not.
TickUnchecked ==
    /\ phase \notin {"handling", "done", "failed"}
    /\ connected /\ ~quiet
    /\ confirmed' = {t \in Ticker : books[t] # None}
    /\ UNCHANGED <<vars, clientVars, connected, quiet, told, unread>>

\* WsAdapter.tick with a confirmation due.
Tick ==
    /\ phase \notin {"handling", "done", "failed"}
    /\ connected /\ ~quiet
    /\ confirmed' = {t \in Ticker : View(t) # None}
    /\ UNCHANGED <<vars, clientVars, connected, quiet, told, unread>>

----------------------------------------------------------------------------
(* The exchange.  What it publishes while the client is not waiting arrives  *)
(* no differently from what it publishes once the client waits again.        *)
ExchangeActs ==
    /\ phase = "receiving"
    /\ \/ \E t \in Ticker, c \in Cell, d \in {-1, 1} : ExchangeMove(t, c, d)
       \/ \E t \in Ticker : ExchangeResnapshot(t)
    /\ confirmed' = {}
    /\ UNCHANGED <<clientVars, connected, quiet, told, unread>>

FeedNext ==
    \/ StopConnecting
    \/ ConnectFails
    \/ AuthenticationFails
    \/ Connect
    \/ ReceiveBookFrame
    \/ ReceiveWithoutEnvelope
    \/ ReceiveMalformed
    \/ ReceiveOther
    \/ HandleResync
    \/ Resume
    \/ ReceiveEnds
    \/ Disconnect
    \/ Close
    \/ GoQuiet
    \/ Tick
    \/ ExchangeActs

FeedSpec == FeedInit /\ [][FeedNext]_allVars

(***************************************************************************)
(* Fairness: the asyncio loop resumes a task that can run, closing a       *)
(* socket takes bounded time, and a receive with nothing to receive ends,  *)
(* for the live trader sets stale_timeout.  Nothing is assumed of the      *)
(* exchange, of the wire or of connection attempts.                        *)
(***************************************************************************)
Fairness ==
    /\ WF_allVars(HandleResync)
    /\ WF_allVars(Resume)
    /\ WF_allVars(Disconnect)
    /\ WF_allVars(ReceiveEnds)
    /\ WF_allVars(StopConnecting)

LiveSpec == FeedSpec /\ Fairness

----------------------------------------------------------------------------
(* Properties. *)

\* A market the processor has a book for but will not show.
Hole(t) == books[t] # None /\ View(t) = None

(***************************************************************************)
(* What the strategy was last told about a market the adapter would        *)
(* confirm is exactly that market's book: no confirmation vouches for a    *)
(* book the strategy never saw, whatever reconnects came between.          *)
(***************************************************************************)
ToldIsTrusted ==
    \A t \in Ticker : View(t) # None => told[t] = View(t)

(***************************************************************************)
(* A confirmation tells the truth: when it is sent, the strategy's book is *)
(* the exchange's at the newest frame received on that subscription.       *)
(***************************************************************************)
ConfirmIsExact ==
    \A t \in confirmed : told[t] = pub[SidOf(t)][seen[SidOf(t)]].after[t]

(***************************************************************************)
(* No quiet hole: whenever the client waits for the next frame without     *)
(* having been asked to resync, no market is stuck untrusted.  A gap or an *)
(* inconsistent book never outlives the frame that revealed it without     *)
(* breaking the connection.                                                *)
(***************************************************************************)
NoQuietHole ==
    phase = "receiving" => ~needsResync /\ \A t \in Ticker : ~Hole(t)

(***************************************************************************)
(* A hole always ends the connection that has it, so the next connection's *)
(* snapshots can repair it.                                                *)
(***************************************************************************)
HoleEndsConnection ==
    \A t \in Ticker : (connected /\ Hole(t)) ~> ~connected

(***************************************************************************)
(* close() ends the stream, even when it is called while a handshake is    *)
(* under way and there is no socket to close yet.                          *)
(***************************************************************************)
CloseEndsStream == closed ~> phase \in {"done", "failed"}

(***************************************************************************)
(* What the adapter's documentation says of confirmations: "When the       *)
(* connection drops, a frame is missing or a book is poisoned, the         *)
(* confirmations STOP" (paper/adapter.py:14).  The code violates it for a  *)
(* frame that arrives unreadable.                                          *)
(***************************************************************************)
ConfirmationsStopWhenFrameIsMissing ==
    \A t \in confirmed : unread[SidOf(t)] <= seen[SidOf(t)]

=============================================================================
