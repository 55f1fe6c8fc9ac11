-------------------------------- MODULE Study --------------------------------
(***************************************************************************)
(* What the studies make of a recording: StoreFeed merges its tables into  *)
(* one feed (backtest/feed.py), a MarketTracker per market follows it      *)
(* (market_making/features.py), and build_samples takes samples and labels *)
(* them with the change of the mid over a horizon                          *)
(* (research/signal_study.py).  book_instances (pricing/dataset.py) reads  *)
(* the tables directly.  Of the features those that remember something are *)
(* kept: quantities, sizes in the book and logarithms are left out.        *)
(*                                                                         *)
(* The trades are not recorded but fetched afterwards: Prints holds        *)
(* [market, at, price, taker], at being when a live consumer would have    *)
(* had it; every print is of one contract.  Mids are doubled.              *)
(***************************************************************************)
EXTENDS Recorder

CONSTANTS
    Prints,
    MinGap, MaxBookAge, Outage,     \* min_gap_s, max_book_age_s, outage_s
    Horizon,
    Grace,                          \* the 40 s after the last book in which a label may end
    FreshFor,                          \* FRESH_BOOK_S
    RetWindow, FlowWindow, StaleWindow, StaleCap,
    Step                            \* step_s; the first instance comes a step after the first book

Instants == [i \in 1 .. MaxInstant + 1 |-> i - 1]

LastMid(mids) == CHOOSE p \in mids : \A q \in mids : q.at <= p.at

\* MarketTracker: the book, the mids and the prints of the last two windows.
Untracked == [at |-> None, bid |-> None, ask |-> None, mids |-> {}, prints |-> {}]
\* fault: a mid goes as soon as it is two windows old, though no later one replaces it
KeptYoung(mids, t) == {p \in mids : p.at > t - 2 * RetWindow \/ p = LastMid(mids)}
\* The oldest mid goes once the one after it is two windows old too; two always stay.
Kept(mids, t) ==
    {p \in mids : ~ \E q \in mids : p.at < q.at /\ q.at <= t - 2 * RetWindow /\ q # LastMid(mids)}
OnBook(tracker, t, book) ==
    IF book.bid = None \/ book.ask = None THEN [tracker EXCEPT !.at = t, !.bid = None, !.ask = None]
    ELSE [tracker EXCEPT !.at = t, !.bid = book.bid, !.ask = book.ask,
                         !.mids = Kept(@ \cup {[at |-> t, mid |-> book.bid + book.ask]}, t)]
OnConfirm(tracker, t) == IF tracker.at = None THEN tracker ELSE [tracker EXCEPT !.at = Max({@, t})]
OnTrade(tracker, print) ==
    [tracker EXCEPT !.prints = {p \in @ \cup {print} : p.at >= print.at - 2 * FlowWindow}]
Sampleable(tracker) == tracker.bid # None /\ tracker.ask # None /\ tracker.bid < tracker.ask
Mid(tracker) == tracker.bid + tracker.ask

Net(prints) == MapThenSumSet(LAMBDA p : p.taker, prints)
\* Prints newer than the book tell of the price, unless they are far off: how far, summed.
Deviation(prints, mid) ==
    LET off == MapThenSumSet(LAMBDA p : 2 * p.price - mid, prints)
    IN  IF off \in -StaleCap * Cardinality(prints) .. StaleCap * Cardinality(prints) THEN off ELSE 0
Before(mids, p) == {q \in mids : q.at < p.at}
Distance(a, b) == IF a < b THEN b - a ELSE a - b
Moved(mids, from) ==
    MapThenSumSet(LAMBDA p : Distance(p.mid, LastMid(Before(mids, p)).mid),
                  {p \in mids : p.at > from /\ Before(mids, p) # {}})
\* A mid older than two windows is from before an outage.
Return(mids, now, mid) ==
    LET old == {p \in mids : p.at <= now - RetWindow}
    IN  IF old = {} \/ now - LastMid(old).at > 2 * RetWindow THEN 0 ELSE mid - LastMid(old).mid
Features(tracker, now) ==
    LET flow == {p \in tracker.prints : p.at > now - FlowWindow}
        news == {p \in tracker.prints : p.at > tracker.at /\ p.at > now - StaleWindow}
    IN  [flow |-> Net(flow), volume |-> Cardinality(flow), news |-> Cardinality(news),
         stale |-> Deviation(news, Mid(tracker)), ret |-> Return(tracker.mids, now, Mid(tracker)),
         rv |-> Moved(tracker.mids, now - RetWindow)]

\* build_samples
NewStudy == [tracker |-> [m \in Polled |-> Untracked], sampled |-> [m \in Polled |-> None],
             mids |-> [m \in Polled |-> {}], rows |-> {}, alive |-> [m \in Polled |-> None],
             end |-> 0, observed |-> {}, confirms |-> 0]
Sample(study, m, t) ==
    IF study.sampled[m] # None /\ t - study.sampled[m] < MinGap THEN study
    ELSE [study EXCEPT !.sampled[m] = t,
                       !.rows = @ \cup {[market |-> m, at |-> t, mid |-> Mid(study.tracker[m]),
                                        x |-> Features(study.tracker[m], t)]}]
TakeBook(study, m, t, book) ==
    LET seen == [study EXCEPT !.tracker[m] = OnBook(@, t, book), !.observed = @ \cup {t}, !.end = t]
    IN  IF ~ Sampleable(seen.tracker[m]) THEN seen
        ELSE Sample([seen EXCEPT !.mids[m] = @ \cup {[at |-> t, mid |-> Mid(seen.tracker[m])]}], m, t)
TakePrint(study, print) ==
    LET m == print.market
        t == print.at
        seen == [study EXCEPT !.tracker[m] = OnTrade(@, print), !.end = t]
    IN  IF Sampleable(seen.tracker[m]) /\ t - seen.tracker[m].at <= MaxBookAge
        THEN Sample(seen, m, t) ELSE seen
TakeConfirm(study, t) ==
    [study EXCEPT !.observed = @ \cup {t}, !.confirms = @ + 1, !.end = t,
                  !.tracker = [m \in Polled |-> OnConfirm(@[m], t)]]
TakeClose(study, m, t) == [study EXCEPT !.alive[m] = IF @ = None THEN t ELSE @, !.end = t]

\* StoreFeed: closes come before books, books before the confirmation of their poll, and that
\* before prints.  Markets that were never upserted are not in the feed.
ClosedAt(t) == {m \in Polled : meta[m] # None /\ meta[m].shut = t}
StoredAt(t) == {s \in snaps : s.at = t /\ meta[s.market] # None}
PrintsAt(t) == {p \in Prints : p.at = t /\ meta[p.market] # None}
AtInstant(study, t) ==
    LET closed == FoldSet(LAMBDA m, s : TakeClose(s, m, t), study, ClosedAt(t))
        booked == FoldSet(LAMBDA b, s : TakeBook(s, b.market, t, b.book), closed, StoredAt(t))
        told == IF t \in pollLog THEN TakeConfirm(booked, t) ELSE booked
    IN  FoldSet(LAMBDA p, s : TakePrint(s, p), told, PrintsAt(t))
Replay == FoldLeft(LAMBDA s, t : AtInstant(s, t), NewStudy, Instants)

\* The labels.
Outages(study) ==
    IF study.confirms = 0 THEN {}
    ELSE {p \in study.observed \X study.observed :
            /\ p[2] - p[1] > Outage
            /\ ~ \E o \in study.observed : p[1] < o /\ o < p[2]}
\* fault: the first outage that begins at or after a sample
FirstToBegin(study, t) ==
    LET later == {p \in Outages(study) : p[1] >= t}
    IN  IF later = {} THEN None ELSE CHOOSE p \in later : \A q \in later : p[2] <= q[2]
\* The first one that ends after a sample was taken: it may have begun before.
FirstOutage(study, t) ==
    LET later == {p \in Outages(study) : p[2] > t}
    IN  IF later = {} THEN None ELSE CHOOSE p \in later : \A q \in later : p[2] <= q[2]
HorizonEnd(study, m) == IF study.alive[m] = None THEN study.end ELSE study.alive[m]
Labelled(study, row) ==
    LET t == row.at + Horizon
    IN  /\ t <= HorizonEnd(study, row.market)
        /\ t <= LastMid(study.mids[row.market]).at + Grace
        /\ FirstOutage(study, row.at) # None => FirstOutage(study, row.at)[1] >= t
MidAt(study, m, t) == LastMid({p \in study.mids[m] : p.at <= t}).mid

\* book_instances
PollsUpTo(t) == {p \in pollLog : p <= t}
\* Of markets that have closed, while they were open and the recorder was at work.
InstanceTimes(m) ==
    {t \in 0 .. MaxInstant :
        /\ RowsOf(m) # {} /\ pollLog # {} /\ meta[m] # None /\ meta[m].shut # None
        /\ t < Min({Max(pollLog), meta[m].shut})
        /\ \E k \in 1 .. MaxInstant : t = Min({r.at : r \in RowsOf(m)}) + k * Step
        /\ PollsUpTo(t) # {}}
\* The book a model is shown at an instant, if it counts as fresh.
InstanceBook(m, t) ==
    IF t - Max(PollsUpTo(t)) > FreshFor THEN None ELSE BookAt(m, t)

-----------------------------------------------------------------------------
(* Properties                                                              *)

\* The last book the exchange answered up to an instant, and the last with quotes on both sides.
AnswersTo(m, t) == {a \in answered : a.market = m /\ a.at <= t}
Quoted(m, t) == {a \in AnswersTo(m, t) : a.book.bid # None /\ a.book.ask # None}
LastOf(answers) == CHOOSE a \in answers : \A q \in answers : q.at <= a.at
MidOf(book) == book.bid + book.ask

Seen == pollLog \cup {a.at : a \in answered}
\* The recorder polled within an outage's length before an instant.
Attended(t) == \E o \in Seen : o <= t /\ t - o <= Outage

LabelIsObserved(study, row, end) ==
    /\ Quoted(row.market, row.at) # {} /\ row.mid = MidOf(LastOf(Quoted(row.market, row.at)).book)
    /\ MidAt(study, row.market, end) = MidOf(LastOf(Quoted(row.market, end)).book)
    /\ \A t \in row.at .. end :
        \/ Attended(t)
        \/ t > Max(Seen) /\ end - LatestRow(RowsOf(row.market)).at <= Grace
\* Sampled at a book of that instant, a row comes before the prints of the same instant.
PrintsBefore(row) ==
    {p \in Prints : p.market = row.market /\
        (p.at < row.at \/ (p.at = row.at /\ ~ \E s \in RowsOf(p.market) : s.at = row.at))}
AnsweredMids(row) ==
    {[at |-> a.at, mid |-> MidOf(a.book)] : a \in Quoted(row.market, row.at)}
\* When the tables last show the market looked at: a snapshot of its own, or a logged poll.
LookedAt(row) == {s.at : s \in RowsUpTo(row.market, row.at)} \cup
                 {t \in PollsUpTo(row.at) : \E s \in RowsOf(row.market) : s.at <= t}
\* A row old enough to tell the return, and not from before an outage.
HasReference(row) ==
    \E s \in RowsUpTo(row.market, row.at - RetWindow) :
        s.book.bid # None /\ s.book.ask # None /\ s.at >= row.at - 2 * RetWindow
FeaturesAreTrue(row) ==
    LET flow == {p \in PrintsBefore(row) : p.at > row.at - FlowWindow}
        news == {p \in PrintsBefore(row) : p.at > row.at - StaleWindow /\ \A t \in LookedAt(row) : t < p.at}
        old == {p \in AnsweredMids(row) : p.at <= row.at - RetWindow}
    IN  row.x = [flow |-> Net(flow), volume |-> Cardinality(flow), news |-> Cardinality(news),
                 stale |-> Deviation(news, row.mid),
                 ret |-> IF HasReference(row) THEN row.mid - LastMid(old).mid ELSE 0,
                 rv |-> Moved(AnsweredMids(row), row.at - RetWindow)]
InstancesAreObserved ==
    \A m \in Polled : \A t \in InstanceTimes(m) :
        InstanceBook(m, t) # None =>
            /\ InstanceBook(m, t) = LastOf(AnswersTo(m, t)).book
            /\ \E p \in pollLog : p <= t /\ t - p <= FreshFor

\* Of a recording that is over and has poll-log rows (without one the studies see no outage at
\* all): a label is the difference of two mids the exchange really
\* answered, the last before each end, and the recorder was at work all along, whatever was
\* printed while it was not; only after its last poll may a label reach further, by the grace
\* period.  The features, kept up event by event from tables that hold only changes, are those
\* of everything the exchange answered and printed up to the sample and of nothing later.  And a
\* book shown to a model is the last one answered, with a poll to prove it.
LabelsAreObserved ==
    ~ alive /\ time = MaxInstant /\ pollLog # {} =>
        /\ InstancesAreObserved
        /\ \E study \in {Replay} :
            \A row \in study.rows :
                /\ FeaturesAreTrue(row)
                /\ Labelled(study, row) => LabelIsObserved(study, row, row.at + Horizon)
=============================================================================
