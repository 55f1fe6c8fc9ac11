------------------------------- MODULE Recorder -------------------------------
(***************************************************************************)
(* BookPoller (data/collectors/books.py): polls the books of the selected  *)
(* markets in chunks fetched at once, stores a snapshot when a book        *)
(* changed or a heartbeat is due, and logs every poll.  It is restarted on *)
(* the same database after failures and kills, between any two steps.      *)
(***************************************************************************)
EXTENDS Polling, JobRun

CONSTANTS
    Chunks,             \* the markets in chunks of batch_size
    Heartbeat,          \* heartbeat_s
    MaxFailures         \* max_consecutive_failures

ASSUME RecorderAssumption ==
    /\ UNION Chunks = Polled /\ \A c, d \in Chunks : c # d => c \cap d = {}
    /\ Heartbeat \in Nat /\ MaxFailures \in Nat \ {0}
    /\ None \notin {"metadata", "idle", "waiting", "logging"}

VARIABLES
    \* the database
    snaps,          \* book_snapshots: [market, at, book]
    pollLog,        \* poll_log: its instants
    meta,           \* markets: market -> None or what was last read of it
    \* the poller
    polling,        \* None, "metadata", "idle", "waiting" or "logging"
    last,           \* _last: market -> None or [book, at]
    chunks,         \* chunk -> None or [at, answer]
    failures,       \* polls failed in a row
    \* ghost
    answered        \* every usable book of the polls that were stored

recordVars == <<run, boardVars, snaps, pollLog, meta, polling, last, chunks, failures, answered>>
recordTables == <<snaps, pollLog, meta>>
poller == <<polling, last, chunks, failures>>

NoAnswers == [c \in Chunks |-> None]
NotPolling == polling' = None /\ last' = [m \in Polled |-> None] /\ chunks' = NoAnswers /\ failures' = 0
RecordInit ==
    /\ RunInit /\ BoardInit
    /\ snaps = {} /\ pollLog = {} /\ meta = [m \in Polled |-> None]
    /\ polling = None /\ last = [m \in Polled |-> None] /\ chunks = NoAnswers /\ failures = 0
    /\ answered = {}

RowsOf(m) == {s \in snaps : s.market = m}
FirstRow(rows) == CHOOSE s \in rows : \A r \in rows : s.at <= r.at
LatestRow(rows) == CHOOSE s \in rows : \A r \in rows : r.at <= s.at
\* fault: the hash of the first row is taken with the time of the last
HashOfFirst(m) == IF RowsOf(m) = {} THEN None
                  ELSE [book |-> FirstRow(RowsOf(m)).book, at |-> LatestRow(RowsOf(m)).at]
\* The last row's hash and time, of rows of all runs.
LatestHash(m) == IF RowsOf(m) = {} THEN None
                 ELSE [book |-> LatestRow(RowsOf(m)).book, at |-> LatestRow(RowsOf(m)).at]

\* A restart must not store again what is stored.
StartRecorder ==
    /\ StartRun
    /\ last' = [m \in Polled |-> LatestHash(m)]
    /\ polling' = "metadata" /\ chunks' = NoAnswers /\ failures' = 0
    /\ UNCHANGED <<boardVars, recordTables, answered>>

Known == [m \in Polled |-> [shut |-> shut[m]]]
\* Before the first poll, and again between polls.
RefreshMetadata ==
    /\ alive /\ polling \in {"metadata", "idle"}
    /\ meta' = Known /\ (polling = "idle" => meta' # meta)
    /\ polling' = "idle"
    /\ UNCHANGED <<run, boardVars, snaps, pollLog, last, chunks, failures, answered>>

StartPoll ==
    /\ alive /\ polling = "idle"
    /\ \A a \in answered : a.at < time
    /\ \A t \in pollLog : t < time
    /\ polling' = "waiting" /\ chunks' = NoAnswers
    /\ UNCHANGED <<run, boardVars, recordTables, last, failures, answered>>
ChunkAnswered(c) ==
    /\ alive /\ polling = "waiting" /\ chunks[c] = None
    /\ chunks' = [chunks EXCEPT ![c] = [at |-> time, answer |-> Answers(c)]]
    /\ UNCHANGED <<run, boardVars, recordTables, polling, last, failures, answered>>
\* One chunk fails and the others' answers are thrown away.
PollFails ==
    /\ alive /\ polling = "waiting" /\ Failures \ Fatal # {}
    /\ IF failures + 1 >= MaxFailures
       THEN FinishRun /\ NotPolling
       ELSE /\ failures' = failures + 1 /\ polling' = "idle" /\ chunks' = NoAnswers
            /\ UNCHANGED <<run, last>>
    /\ UNCHANGED <<boardVars, recordTables, answered>>

\* Every usable book of the poll, with the instant its chunk was received.
Received == UNION {{[market |-> m, at |-> chunks[c].at, book |-> chunks[c].answer[m]] :
                        m \in Usable(chunks[c].answer)} : c \in Chunks}
IsNew(row) ==
    \/ last[row.market] = None
    \/ last[row.market].book # row.book
    \/ row.at - last[row.market].at >= Heartbeat
StorePoll ==
    /\ alive /\ polling = "waiting" /\ \A c \in Chunks : chunks[c] # None
    /\ snaps' = snaps \cup {row \in Received : IsNew(row)}
    /\ last' = [m \in Polled |->
            IF \E row \in Received : row.market = m /\ IsNew(row)
            THEN LET row == CHOOSE r \in Received : r.market = m
                 IN  [book |-> row.book, at |-> row.at]
            ELSE last[m]]
    /\ answered' = answered \cup Received
    /\ polling' = "logging" /\ failures' = 0
    /\ UNCHANGED <<run, boardVars, pollLog, meta, chunks>>
LogPoll ==
    /\ alive /\ polling = "logging"
    /\ pollLog' = pollLog \cup {Max({chunks[c].at : c \in Chunks})}
    /\ polling' = "idle" /\ chunks' = NoAnswers
    /\ UNCHANGED <<run, boardVars, snaps, meta, last, failures, answered>>

\* The duration is over, an exception nothing handles, an interrupt; a hard kill.
RecorderStops ==
    /\ polling # None /\ (FinishRun \/ Kill)
    /\ NotPolling
    /\ UNCHANGED <<boardVars, recordTables, answered>>

RecordNext ==
    \/ BoardMoves /\ UNCHANGED <<run, recordTables, poller, answered>>
    \/ StartRecorder \/ RefreshMetadata \/ StartPoll
    \/ \E c \in Chunks : ChunkAnswered(c)
    \/ PollFails \/ StorePoll \/ LogPoll \/ RecorderStops

-----------------------------------------------------------------------------
(* Reading the record                                                      *)

\* The last snapshot up to an instant (_book_at in pricing/dataset.py).
RowsUpTo(m, t) == {s \in RowsOf(m) : s.at <= t}
BookAt(m, t) == IF RowsUpTo(m, t) = {} THEN None ELSE LatestRow(RowsUpTo(m, t)).book

(* Properties                                                              *)

\* Only changes are stored, by several runs that know of each other through the table alone:
\* still the record gives, for every poll that was stored, the book the exchange answered, and
\* never one stored a heartbeat or more before.
RecordingIsFaithful ==
    \A a \in answered :
        /\ BookAt(a.market, a.at) = a.book
        /\ a.at - LatestRow(RowsUpTo(a.market, a.at)).at < Max({Heartbeat, 1})
=============================================================================
