------------------------------- MODULE Forecasts -------------------------------
(***************************************************************************)
(* The fair-probability models and their evaluation (pricing/              *)
(* probability_models.py, pricing/evaluation.py) as the scripts of stages  *)
(* 7 and 8 run them.  A forecast stands for its value: it is the record of *)
(* everything the value is computed from, fitted parameters included, so   *)
(* that two forecasts are equal when the code is bound to return the same  *)
(* number.  Only for the calibration of stage 8 do forecasts have values:  *)
(* those are any, frame being the forecasts of research and their outcomes.*)
(***************************************************************************)
EXTENDS Calibration, Functions

(***************************************************************************)
(* What a probability model may see and what then happened                 *)
(* (pricing/dataset.py, pricing/microstructure.py): instances of settled   *)
(* markets at fixed times before their scheduled end, split at load time   *)
(* into research and the sealed holdout, and the corpus of outcomes a base *)
(* rate is learned from.                                                   *)
(*                                                                         *)
(* A history maps each market to [event, kind, corpus, volume, open,       *)
(* close, due, settled, value, tape]: kind is <<category, series, strike   *)
(* type>>, corpus says that its event is in the corpus database, and tape  *)
(* is the sequence of its prints [at, price, taker], in time order.        *)
(***************************************************************************)
CONSTANTS
    Missing,        \* None
    Unit,           \* the settlement value of YES, PRICE_SCALE
    HoldoutFrom,    \* HISTORY_HOLDOUT_FROM
    Leads,          \* HORIZONS_S: how long before the scheduled end
    Delay,          \* DEFAULT_DELAY_NS: a print is seen this much later
    Windows,        \* WINDOWS_S
    SideAge,        \* TMID_MAX_AGE_S
    CorpusVolume,   \* min_volume of corpus_rows
    DayLength

\* _binary_label: markets that settled at neither end have none.
BinaryLabel(m) == IF m.value = Unit THEN 1 ELSE IF m.value = 0 THEN 0 ELSE Missing

\* TradeTape.upto
Upto(tape, t) == SelectSeq(tape, LAMBDA p : p.at + Delay <= t)

LastPrint(prints) == prints[Len(prints)]
OfTaker(prints, taker) == SelectSeq(prints, LAMBDA p : p.taker = taker)
Amount(prints, taker) == Len(OfTaker(prints, taker))

\* trade_features: ages are taken from the exchange's time of a print.  Each print is of one lot.
TradeFeatures(tape, t) ==
    LET prints == Upto(tape, t)
        moment == t - Delay
        within(w) == SelectSeq(prints, LAMBDA p : p.at >= moment - w)
        before(w) == SelectSeq(prints, LAMBDA p : p.at <= moment - w)
        asks == OfTaker(prints, "yes")
        bids == OfTaker(prints, "no")
        sided == /\ asks # <<>> /\ moment - LastPrint(asks).at <= SideAge
                 /\ bids # <<>> /\ moment - LastPrint(bids).at <= SideAge
    IN  IF prints = <<>> THEN [seen |-> 0, last |-> Missing, mid |-> Missing]
        ELSE [seen |-> Len(prints), last |-> LastPrint(prints).price,
              age |-> moment - LastPrint(prints).at,
              volume |-> [w \in Windows |-> Len(within(w))],
              flow |-> [w \in Windows |-> <<Amount(within(w), "yes"), Amount(within(w), "no")>>],
              return |-> [w \in Windows |-> IF before(w) = <<>> THEN Missing
                              ELSE LastPrint(prints).price - LastPrint(before(w)).price],
              mid |-> IF sided THEN LastPrint(asks).price + LastPrint(bids).price ELSE Missing]

\* reference_price, doubled; the history has no books.
Reference(features) ==
    IF features.mid # Missing THEN [price |-> features.mid, source |-> "trade_mid"]
    ELSE [price |-> 2 * features.last, source |-> "last_trade"]

\* event_sizes, of the corpus; Missing where the event is not in it.
EventSize(history, event) ==
    LET markets == {i \in DOMAIN history : history[i].corpus /\ history[i].event = event}
    IN  IF markets = {} THEN Missing ELSE Cardinality(markets)
\* n_bucket
Bucket(size) ==
    IF size = Missing THEN "?" ELSE IF size = 1 THEN "1" ELSE IF size = 2 THEN "2" ELSE "3+"

\* _observation
Observation(history, id, t) ==
    LET m == history[id]
        features == TradeFeatures(m.tape, t)
    IN  IF features.seen = 0 THEN Missing
        ELSE [market |-> id, event |-> m.event, kind |-> m.kind, t |-> t,
              size |-> EventSize(history, m.event), left |-> m.due - t,
              ref |-> Reference(features), trade |-> features]

SplitOf(m) == IF m.close >= HoldoutFrom THEN "holdout" ELSE "research"
\* history_instances: at the instants at which the market was open.
HistoryInstances(history, includeHoldout) ==
    LET kept == {i \in DOMAIN history : /\ BinaryLabel(history[i]) # Missing
                                        /\ includeHoldout \/ SplitOf(history[i]) = "research"}
        taken == {x \in kept \X Leads :
                    LET m == history[x[1]] IN m.open <= m.due - x[2] /\ m.due - x[2] < m.close}
        shown(x) == Observation(history, x[1], history[x[1]].due - x[2])
    IN  {[obs |-> shown(x), y |-> BinaryLabel(history[x[1]]), split |-> SplitOf(history[x[1]])] :
            x \in {z \in taken : shown(z) # Missing}}

\* The instances of a market whose event is in the corpus, as corpus_rows has them.
CorpusRows(history) ==
    {[market |-> i, event |-> history[i].event, settled |-> history[i].settled,
      y |-> BinaryLabel(history[i]),
      kind |-> history[i].kind, bucket |-> Bucket(EventSize(history, history[i].event))] :
        i \in {j \in DOMAIN history : /\ history[j].corpus /\ BinaryLabel(history[j]) # Missing
                                      /\ history[j].volume >= CorpusVolume}}

\* structure_stats: over the events of the corpus that had wholly settled, by series, how many had
\* a market without a label and in how many of the others exactly one was YES.
StructureStats(history, before) ==
    LET corpus == {i \in DOMAIN history : history[i].corpus}
        settled == {e \in {history[i].event : i \in corpus} :
                      \A i \in corpus : history[i].event = e => history[i].settled < before}
        series(e) == history[CHOOSE i \in corpus : history[i].event = e].kind[2]
        labels(e) == [i \in {j \in corpus : history[j].event = e} |-> BinaryLabel(history[i])]
        void(e) == Missing \in Range(labels(e))
        winners(e) == {i \in DOMAIN labels(e) : labels(e)[i] = 1}
        counted(s, Test(_)) == Cardinality({e \in settled : series(e) = s /\ Test(e)})
    IN  [s \in {series(e) : e \in settled} |->
            [events |-> counted(s, LAMBDA e : TRUE),
             void |-> counted(s, void),
             single |-> counted(s, LAMBDA e : ~ void(e) /\ Cardinality(winners(e)) = 1)]]

-----------------------------------------------------------------------------
(* The models and their evaluation.                                        *)

CONSTANTS
    Histories,      \* bound: what the databases hold
    Orders,         \* bound: what random.Random(seed).shuffle makes of the events, over all of them
    Folds,          \* k, k_outer
    InnerFolds,     \* k_inner
    Penalties,      \* LAMBDA_GRID
    Frames          \* bound: the forecasts and outcomes calibration is measured on

VARIABLES
    history,        \* the databases
    role,           \* "stage7", or --role of stage 8
    shuffled, reshuffled,   \* the orders of the seeds SEED and SEED + 1
    step,           \* "begun", "sealed", "loaded", "measured", "written" or "refused"
    research, scored,       \* the instances fitted on and those forecast
    frame,          \* the forecasts and outcomes calibration is measured on, <<>> before
    accessLog       \* whether the holdout was opened, ACCESS_LOG

studyVars == <<history, role, shuffled, reshuffled, step, research, scored, frame,
              accessLog>>

-----------------------------------------------------------------------------
(* Folds and cross-validation; order is a sequence of all events.          *)

OfEvent(instances, e) == {i \in instances : i.obs.event = e}
\* fault: siblings may be apart
FoldsByMarket(instances, k, order) ==
    LET ids == SetToSeq({i.obs.market : i \in instances})
        place(folds, m) == [folds EXCEPT ![(m % k) + 1] =
                                @ \cup {i \in instances : i.obs.market = ids[m]}]
    IN  FoldLeft(place, [j \in 1 .. k |-> {}], [m \in DOMAIN ids |-> m])
\* grouped_folds: each event goes to the first of the smallest folds.
GroupedFolds(instances, k, order) ==
    LET smallest(folds) ==
            CHOOSE j \in 1 .. k : \A l \in 1 .. k :
                \/ Cardinality(folds[j]) < Cardinality(folds[l])
                \/ Cardinality(folds[j]) = Cardinality(folds[l]) /\ j <= l
        place(folds, e) == [folds EXCEPT ![smallest(folds)] = @ \cup OfEvent(instances, e)]
    IN  FoldLeft(place, [j \in 1 .. k |-> {}], order)

Key(i) == <<i.obs.market, i.obs.t>>
\* Forecast(train, i) of each instance i of a fold, train being the others.
HeldOut(instances, folds, Forecast(_, _)) ==
    UNION {{[key |-> Key(i), value |-> Forecast(instances \ held, i)] : i \in held} :
               held \in Range(folds)}
ValueAt(forecasts, i) == (CHOOSE f \in forecasts : f.key = Key(i)).value

-----------------------------------------------------------------------------
(* The models.                                                             *)

\* predict_all of ReferencePrice and of LastTrade
RefOf(i) == i.obs.ref.price
LastTrade(i) == i.obs.trade.last
\* What a fit of one or two numbers is given: forecasts and outcomes.
Pairs(instances, P(_)) == {[key |-> Key(i), p |-> P(i), y |-> i.y] : i \in instances}

\* MicrostructureLogit
FitLogit(train, penalty) == [penalty |-> penalty, rows |-> train]
PredictLogit(model, obs) == [model |-> model, at |-> obs]

\* cross_val_predict
CrossValPredict(instances, k, order, penalty) ==
    HeldOut(instances, GroupedFolds(instances, k, order),
            LAMBDA train, i : PredictLogit(FitLogit(train, penalty), i.obs))
\* select_penalty: a function of the losses of the forecasts of the inner folds.
SelectPenalty(train) ==
    [penalty \in Penalties |->
        LET forecasts == CrossValPredict(train, InnerFolds, reshuffled, penalty)
        IN  Pairs(train, LAMBDA i : ValueAt(forecasts, i))]
NestedCvPredict(instances) ==
    HeldOut(instances, GroupedFolds(instances, Folds, shuffled),
            LAMBDA train, i : PredictLogit(FitLogit(train, SelectPenalty(train)), i.obs))

\* fit_platt, and predict of what it fits: a line in the logits.
Corrected(rows, p) == [line |-> rows, at |-> p]
\* platt_cv_predict
PlattCvPredict(instances, forecasts) ==
    HeldOut(instances, GroupedFolds(instances, Folds, shuffled),
            LAMBDA train, i : Corrected(Pairs(train, LAMBDA j : ValueAt(forecasts, j)),
                                        ValueAt(forecasts, i)))
\* fit_blend and the blend's forecast; blend_cv_predict
Blended(rows, ref, p) == [blend |-> rows, market |-> ref, other |-> p]
BlendCvPredict(instances, forecasts) ==
    HeldOut(instances, GroupedFolds(instances, Folds, shuffled),
            LAMBDA train, i : Blended(Pairs(train, LAMBDA j : <<RefOf(j), ValueAt(forecasts, j)>>),
                                      RefOf(i), ValueAt(forecasts, i)))

\* HistoricalFrequency: _keys, coarse to fine.
KeysOf(kind, bucket) ==
    [n \in 1 .. 4 |-> IF n = 4 THEN Append(kind, bucket) ELSE SubSeq(kind, 1, n - 1)]
CountOf(rows, key) ==
    LET own == {r \in rows : key \in Range(KeysOf(r.kind, r.bucket))}
    IN  [n |-> Cardinality(own), yes |-> Cardinality({r \in own : r.y = 1})]
\* rate: a key without rows passes its parent's rate on.
Rate(rows, kind, bucket) ==
    SelectSeq([n \in 1 .. 4 |-> CountOf(rows, KeysOf(kind, bucket)[n])], LAMBDA c : c.n > 0)
\* fault: settled before the prediction's day was over
SettledByDay(rows, t) == {r \in rows : r.settled < (t \div DayLength + 1) * DayLength}
\* _counts_asof: only what had settled when the day began.
SettledBefore(rows, t) == {r \in rows : r.settled < (t \div DayLength) * DayLength}
PredictRate(corpus, kappa, obs) ==
    [kappa |-> kappa, counts |-> Rate(SettledBefore(corpus, obs.t), obs.kind, Bucket(obs.size))]

\* prequential_kappa: a row is predicted from the events before its own, in the order of their
\* first settlement, those of one instant in any order; no row is left out.
FirstSettled(rows, e) == Min({r.settled : r \in {q \in rows : q.event = e}})
Precedes(d, e) == \E m, n \in DOMAIN shuffled : m < n /\ shuffled[m] = d /\ shuffled[n] = e
LearntBefore(rows, e) ==
    {r \in rows : \/ FirstSettled(rows, r.event) < FirstSettled(rows, e)
                  \/ FirstSettled(rows, r.event) = FirstSettled(rows, e) /\ Precedes(r.event, e)}
PrequentialKappa(rows) ==
    {[market |-> r.market, y |-> r.y, p |-> Rate(LearntBefore(rows, r.event), r.kind, r.bucket)] :
        r \in rows}

-----------------------------------------------------------------------------
(* What the stages forecast.                                               *)

\* history_study
Stage7Forecasts(instances, corpus) ==
    LET all(Forecast(_)) == HeldOut(instances, <<instances>>, LAMBDA train, i : Forecast(i))
        base == all(LAMBDA i : PredictRate(corpus, PrequentialKappa(corpus), i.obs))
        recalibrated == PlattCvPredict(instances, base)
    IN  [last_trade |-> all(LastTrade),
         B_historical |-> base,
         B_recalibrated |-> recalibrated,
         A_microstructure |-> NestedCvPredict(instances),
         blend |-> BlendCvPredict(instances, recalibrated),
         market_recalibrated |-> PlattCvPredict(instances, all(RefOf))]

\* fit_models of stage 8: what stage 7 chose is written into the code (LAMBDA_A, KAPPA_B).
FitModels(train, corpus) ==
    LET base(i) == PredictRate(corpus, "KAPPA_B", i.obs)
        line == Pairs(train, base)
    IN  [A |-> FitLogit(train, "LAMBDA_A"), corpus |-> corpus, platt |-> line,
         blend |-> Pairs(train, LAMBDA i : <<RefOf(i), Corrected(line, base(i))>>)]
\* forecasts
Stage8Forecast(models, i) ==
    LET base == PredictRate(models.corpus, "KAPPA_B", i.obs)
        recalibrated == Corrected(models.platt, base)
    IN  [market_reference |-> RefOf(i), last_trade |-> LastTrade(i),
         A_microstructure |-> PredictLogit(models.A, i.obs),
         B_recalibrated |-> recalibrated,
         blend |-> Blended(models.blend, RefOf(i), recalibrated)]

-----------------------------------------------------------------------------
(* The scripts.                                                            *)

ForecastsInit ==
    /\ history \in Histories
    /\ role \in {"stage7", "development", "confirmatory"}
    /\ shuffled \in Orders /\ reshuffled \in Orders
    /\ role # "stage7" => {shuffled, reshuffled} = {CHOOSE o \in Orders : TRUE}
    /\ step = "begun" /\ research = {} /\ scored = {} /\ frame = <<>> /\ accessLog = 0

\* load: the scripts that do not confirm score what they fit.
LoadResearch ==
    /\ step = "begun"
    /\ research' = HistoryInstances(history, FALSE)
    /\ scored' = IF role = "confirmatory" THEN {} ELSE research'
    /\ step' = IF role = "confirmatory" THEN "sealed" ELSE "loaded"
    /\ UNCHANGED <<history, role, shuffled, reshuffled, frame, accessLog>>
OpenHoldout ==
    /\ step = "sealed"
    /\ accessLog' = accessLog + 1
    /\ scored' = {i \in HistoryInstances(history, TRUE) : i.split = "holdout"}
    /\ step' = "loaded"
    /\ UNCHANGED <<history, role, shuffled, reshuffled, research, frame>>
\* calibration_block, recalibration_test and recalibration_cv
Measure ==
    /\ step = "loaded" /\ role # "stage7"
    /\ \E rows \in Frames : frame' = Build(rows)
    /\ step' = "measured"
    /\ UNCHANGED <<history, role, shuffled, reshuffled, research, scored, accessLog>>
\* main's last check: nothing is written when the holdout was opened by a script that must not.
Write ==
    /\ step = IF role = "stage7" THEN "loaded" ELSE "measured"
    /\ step' = IF role # "confirmatory" /\ accessLog > 0 THEN "refused" ELSE "written"
    /\ UNCHANGED <<history, role, shuffled, reshuffled, research, scored, frame, accessLog>>
ForecastsNext == LoadResearch \/ OpenHoldout \/ Measure \/ Write

-----------------------------------------------------------------------------
(* Properties: what would have to change for a forecast to change.         *)

Flipped(markets) ==
    [m \in DOMAIN history |-> IF m \in markets
        THEN [history[m] EXCEPT !.value = Unit - @] ELSE history[m]]
DayOf(t) == (t \div DayLength) * DayLength
NotSettledOn(t) == {m \in DOMAIN history : history[m].settled >= DayOf(t)}
\* The same past up to t, and the opposite afterwards.
OtherFuture(t) ==
    [m \in DOMAIN history |->
        [history[m] EXCEPT !.tape = Upto(@, t) \o <<[at |-> t + 1, price |-> 1, taker |-> "yes"]>>,
                           !.value = Unit - @, !.settled = @ + 1, !.close = @ + 1]]

\* An instance is described by what was known at its time.
ObservationIsCausal(i) ==
    Observation(OtherFuture(i.obs.t), i.obs.market, i.obs.t) = i.obs
\* Nothing that had not settled when the day began is in a base rate.
RateIsCausal(i) ==
    PredictRate(CorpusRows(Flipped(NotSettledOn(i.obs.t))), Missing, i.obs)
        = PredictRate(CorpusRows(history), Missing, i.obs)
\* No outcome of an event is in the out-of-fold forecasts of that event, nor in what chooses kappa
\* for its rows; of B's recalibration and the blend this does not hold.
EventIsHeldOut(e, forecasts) ==
    LET other == Flipped({m \in DOMAIN history : history[m].event = e})
        again == Stage7Forecasts(HistoryInstances(other, FALSE), CorpusRows(other))
        own(rows) == {[f EXCEPT !.y = 0] : f \in {r \in rows : history[r.market].event = e}}
    IN  /\ \A i \in OfEvent(research, e) :
              /\ ValueAt(again.A_microstructure, i) = ValueAt(forecasts.A_microstructure, i)
              /\ ValueAt(again.market_recalibrated, i) = ValueAt(forecasts.market_recalibrated, i)
        /\ own(PrequentialKappa(CorpusRows(other))) = own(PrequentialKappa(CorpusRows(history)))
\* The confirmation rests on no sealed outcome but those the corpus had on the day.
HoldoutIsSealed(i) ==
    LET sealed == {m \in NotSettledOn(i.obs.t) : SplitOf(history[m]) = "holdout"}
        other == Flipped(sealed)
    IN  Stage8Forecast(FitModels(HistoryInstances(other, FALSE), CorpusRows(other)), i)
            = Stage8Forecast(FitModels(research, CorpusRows(history)), i)

\* No forecast rests on what it is scored with: an instance shows what was known at its time, base
\* rates count what had settled before the day, cross-fitted forecasts of an event leave out its
\* outcomes, through the choice of the penalty too, development sees no instance of the holdout
\* and the confirmation is fitted without its outcomes (evaluation.py, dataset.py, stage 8).
NothingLeaks ==
    step = "loaded" =>
        /\ \A i \in scored : ObservationIsCausal(i) /\ RateIsCausal(i)
        /\ role = "stage7" =>
              \E forecasts \in {Stage7Forecasts(research, CorpusRows(history))} :
                  \A e \in {i.obs.event : i \in research} : EventIsHeldOut(e, forecasts)
        /\ role = "confirmatory" => \A i \in scored : HoldoutIsSealed(i)

\* What stage 8 measures and corrects is what it says: the diagram and its sums account for every
\* forecast, the isotonic fit is the best non-decreasing one of the rows in their order, and no
\* correction reorders two forecasts or leaves its bounds (calibration.py).
RecalibrationIsSound == step = "measured" => DiagramIsComplete(frame) /\ RecalibratesSoundly(frame)
=============================================================================
