----------------------------- MODULE TrustedView -----------------------------
(***************************************************************************)
(* What a consumer of order books is promised, whatever the wire does      *)
(* (the "fail closed" design of data/normalization/book_stream.py):        *)
(*                                                                         *)
(*   - a market is shown with the book the exchange had at the newest      *)
(*     frame heard on its subscription, or it is not shown at all;         *)
(*   - what is shown never moves back: the cut through a subscription      *)
(*     only advances, and all its markets are shown at the same cut;       *)
(*   - when a number is skipped nothing of the subscription is shown;      *)
(*   - a market that is not shown is shown again only at a snapshot of it. *)
(***************************************************************************)
EXTENDS Naturals, Sequences

CONSTANTS Ticker, Sid, Home, None

VARIABLES
    log,        \* log[s]: what the exchange published on s in this connection
    cut,        \* cut[s]: how far into log[s] the consumer has heard
    shown       \* shown[t]: the book shown for t, or None

vars == <<log, cut, shown>>

Init ==
    /\ log = [s \in Sid |-> <<>>]
    /\ cut = [s \in Sid |-> 0]
    /\ shown = [t \in Ticker |-> None]

\* A new connection: a fresh log and nothing shown.
Reset ==
    /\ cut' = [s \in Sid |-> 0]
    /\ shown' = [t \in Ticker |-> None]

\* The exchange publishes one more frame; nothing is shown yet.
Publish(s) ==
    /\ Len(log'[s]) = Len(log[s]) + 1
    /\ log' = [log EXCEPT ![s] = Append(log[s], log'[s][Len(log[s]) + 1])]
    /\ UNCHANGED <<cut, shown>>

IsSnapshotOf(p, t) == p.kind = "snapshot" /\ p.ticker = t

\* The next frame of a subscription, or the first that is heard.
HearNext(s, n) ==
    /\ cut[s] = 0 \/ n = cut[s] + 1
    /\ cut' = [cut EXCEPT ![s] = n]
    /\ \A t \in Ticker : Home[t] = s =>
           \/ shown'[t] = None
           \/ /\ shown[t] # None \/ IsSnapshotOf(log[s][n], t)
              /\ shown'[t] = log[s][n].after[t]

\* A number was skipped: the subscription goes dark.
HearGap(s, n) ==
    /\ cut[s] # 0 /\ n > cut[s] + 1
    /\ cut' = [cut EXCEPT ![s] = n]
    /\ \A t \in Ticker : Home[t] = s => shown'[t] = None

\* A frame that was heard before, or overtaken.
HearOld(s, n) ==
    /\ n <= cut[s]
    /\ UNCHANGED <<cut, shown>>

Hear(s, n) ==
    /\ HearNext(s, n) \/ HearGap(s, n) \/ HearOld(s, n)
    /\ DOMAIN shown' = Ticker
    /\ \A t \in Ticker : Home[t] # s => shown'[t] = shown[t]
    /\ UNCHANGED log

Next ==
    \/ Reset
    \/ \E s \in Sid : Publish(s)
    \/ \E s \in Sid : \E n \in 1 .. Len(log[s]) : Hear(s, n)

Spec == Init /\ [][Next]_vars

=============================================================================
