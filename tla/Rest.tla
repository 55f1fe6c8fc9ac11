-------------------------------- MODULE Rest --------------------------------
(***************************************************************************)
(* What a caller of the REST client (kalshi_client/rest.py) may see: a GET *)
(* is retried a bounded number of times and ends in an answer or in one    *)
(* exception; a listing is served page by page behind a cursor.            *)
(***************************************************************************)
EXTENDS Naturals, Sequences, FiniteSets

CONSTANTS
    None,
    MaxRetries      \* max_retries of the client

ASSUME RestAssumption == MaxRetries \in Nat

\* What the exchange does with one attempt: a JSON body, a body that is not JSON,
\* 401/403, 404, another refusal, 429 or 5xx, or a broken connection.
Answer == {"json", "text", "forbidden", "unknown", "refused", "busy", "lost"}
Retryable == {"busy", "lost"}

\* What the caller gets from the last attempt.
Raised == [json |-> "ok", text |-> "invalid", forbidden |-> "auth", unknown |-> "api",
           refused |-> "api", busy |-> "api", lost |-> "transport"]

Attempts == 1 .. MaxRetries + 1
LastAttempt(answers) ==
    CHOOSE k \in Attempts :
        /\ \A j \in 1 .. k - 1 : answers[j] \in Retryable
        /\ answers[k] \in Retryable => k = MaxRetries + 1
Get(answers) == Raised[answers[LastAttempt(answers)]]
Outcomes == {Get(answers) : answers \in [Attempts -> Answer]}

\* What a collector does not survive, and what it survives for one market or cycle.
Fatal == {"auth"}
Failures == Outcomes \ {"ok"}

-----------------------------------------------------------------------------
(* The exchange: a cursor names the last item served; an unknown cursor is  *)
(* silently taken for none.                                                 *)

Remaining(items, cursor) ==
    LET at == {i \in 1 .. Len(items) : items[i] = cursor}
    IN  IF at = {} THEN items ELSE SubSeq(items, (CHOOSE i \in at : TRUE) + 1, Len(items))
PageOf(items, cursor, size) ==
    LET rest == Remaining(items, cursor)
    IN  IF Len(rest) <= size THEN [items |-> rest, next |-> None]
        ELSE [items |-> SubSeq(rest, 1, size), next |-> rest[size]]

\* Places in what is served, in their order.
InOrder(places) ==
    CHOOSE s \in [1 .. Cardinality(places) -> places] : \A j, k \in DOMAIN s : j < k => s[j] < s[k]
=============================================================================
