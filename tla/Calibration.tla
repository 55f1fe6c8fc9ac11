------------------------------ MODULE Calibration ------------------------------
(***************************************************************************)
(* Measuring and correcting calibration (pricing/calibration.py) on a      *)
(* frame of forecasts and outcomes (research/calibration_analysis.py): the *)
(* bins of a reliability diagram, the expected calibration error and the   *)
(* decomposition of the Brier score over them, and the recalibration by    *)
(* pooling adjacent violators.                                             *)
(*                                                                         *)
(* A frame is a sequence of [p, y], p in 0 .. One standing for p / One.    *)
(* Fractions are pairs of a numerator and a positive denominator.          *)
(***************************************************************************)
EXTENDS Integers, Sequences, FiniteSets, FiniteSetsExt, SequencesExt

CONSTANTS
    One,
    Eps,            \* EPS
    Bins,           \* k of edges_width
    Denominator     \* bound: divisible by the size of every frame

ASSUME CalibrationAssumption == /\ One \in Nat \ {0} /\ Bins \in Nat \ {0} /\ 0 < Eps /\ 2 * Eps < One

Less(f, g) == f[1] * g[2] < g[1] * f[2]
AtMost(f, g) == f[1] * g[2] <= g[1] * f[2]
Same(f, g) == f[1] * g[2] = g[1] * f[2]
Clip(f) == IF Less(f, <<Eps, One>>) THEN <<Eps, One>>
           ELSE IF Less(<<One - Eps, One>>, f) THEN <<One - Eps, One>> ELSE f

\* Frame.build clips the forecasts.
Build(rows) == [i \in DOMAIN rows |-> [rows[i] EXCEPT !.p = Max({Eps, Min({@, One - Eps})})]]

-----------------------------------------------------------------------------
(* Bins                                                                    *)

\* fault: a forecast on an edge is in two bins
ClosedBin(frame, j) ==
    {i \in DOMAIN frame : (j - 1) * One <= frame[i].p * Bins /\ frame[i].p * Bins <= j * One}
\* reliability_bins: half-open, the last one closed.
Bin(frame, j) ==
    {i \in DOMAIN frame :
        /\ (j - 1) * One <= frame[i].p * Bins
        /\ \/ frame[i].p * Bins < j * One
           \/ j = Bins /\ frame[i].p = One}
Filled(frame) == {j \in 1 .. Bins : Bin(frame, j) # {}}

SumOver(S, Value(_)) == FoldSet(LAMBDA i, total : total + Value(i), 0, S)
Yes(frame, S) == SumOver(S, LAMBDA i : frame[i].y)
Foretold(frame, S) == SumOver(S, LAMBDA i : frame[i].p)
\* Means over a set of rows, as Denominator * One times their value.
MeanYes(frame, S) == (One * Denominator * Yes(frame, S)) \div Cardinality(S)
MeanP(frame, S) == (Denominator * Foretold(frame, S)) \div Cardinality(S)
Size(n) == IF n < 0 THEN -n ELSE n
Gap(frame, S) == MeanYes(frame, S) - MeanP(frame, S)

\* calibration_in_the_large and ece, times the number of rows
InTheLarge(frame) == Gap(frame, DOMAIN frame) * Len(frame)
Ece(frame) ==
    SumOver(Filled(frame), LAMBDA j : Cardinality(Bin(frame, j)) * Size(Gap(frame, Bin(frame, j))))

\* murphy, each term times the number of rows and the square of Denominator * One
Squared(n) == n * n
Brier(frame) ==
    SumOver(DOMAIN frame, LAMBDA i : Squared(Denominator * (frame[i].p - One * frame[i].y)))
OverBins(frame, Term(_)) ==
    SumOver(Filled(frame), LAMBDA j : Cardinality(Bin(frame, j)) * Term(Bin(frame, j)))
WithinBins(frame, Term(_, _)) ==
    SumOver(Filled(frame), LAMBDA j : SumOver(Bin(frame, j), LAMBDA i : Term(Bin(frame, j), i)))
Murphy(frame) ==
    LET rows == DOMAIN frame
        base == MeanYes(frame, rows)
        deltaP(S, i) == Denominator * frame[i].p - MeanP(frame, S)
        deltaY(S, i) == Denominator * One * frame[i].y - MeanYes(frame, S)
    IN  [reliability |-> OverBins(frame, LAMBDA S : Squared(Gap(frame, S))),
         resolution |-> OverBins(frame, LAMBDA S : Squared(MeanYes(frame, S) - base)),
         uncertainty |-> Len(frame) * base * (Denominator * One - base),
         variance |-> WithinBins(frame, LAMBDA S, i : Squared(deltaP(S, i))),
         covariance |-> WithinBins(frame, LAMBDA S, i : deltaP(S, i) * deltaY(S, i))]

-----------------------------------------------------------------------------
(* IsotonicCalibrator                                                      *)

\* A block is [y, n, p]: the sums of its outcomes and forecasts and its weight.
Merged(a, b) == [y |-> a.y + b.y, n |-> a.n + b.n, p |-> a.p + b.p]
Level(block) == <<block.y, block.n>>
Center(block) == <<block.p, block.n * One>>

\* The last two blocks become one while they are out of order.
PooledOnce(blocks) ==
    LET n == Len(blocks)
    IN  IF n > 1 /\ Less(Level(blocks[n]), Level(blocks[n - 1]))
        THEN Append(SubSeq(blocks, 1, n - 2), Merged(blocks[n - 1], blocks[n]))
        ELSE blocks
Pooled(blocks) == FoldLeft(LAMBDA pooled, block : PooledOnce(pooled), blocks, blocks)

\* A stable sort by the forecast: rows with one forecast stay in the frame's order.
Sorted(frame) ==
    LET before(i, j) == frame[i].p < frame[j].p \/ (frame[i].p = frame[j].p /\ i < j)
        order == SetToSortSeq(DOMAIN frame, before)
    IN  [i \in DOMAIN order |-> frame[order[i]]]
\* fit
Fit(frame) ==
    FoldLeft(LAMBDA blocks, row : Pooled(Append(blocks, [y |-> row.y, n |-> 1, p |-> row.p])),
             <<>>, Sorted(frame))
\* fitted_, for the rows in sorted order
Fitted(blocks) == FlattenSeq([k \in DOMAIN blocks |-> [i \in 1 .. blocks[k].n |-> Level(blocks[k])]])

\* f + (g - f) * (q - x) / (z - x)
Between(f, g, x, z, q) ==
    LET part == q[1] * x[2] - x[1] * q[2]
        whole == z[1] * x[2] - x[1] * z[2]
        rise == g[1] * f[2] - f[1] * g[2]
    IN  <<f[1] * g[2] * whole * q[2] + rise * part * z[2], f[2] * g[2] * whole * q[2]>>
\* predict: numpy.interp takes the last centre at or below p, then clip.
Predict(blocks, p) ==
    LET q == <<p, One>>
        below == {k \in DOMAIN blocks : AtMost(Center(blocks[k]), q)}
        k == Max(below)
    IN  Clip(IF below = {} THEN Level(blocks[1])
             ELSE IF k = Len(blocks) \/ Same(Center(blocks[k]), q) THEN Level(blocks[k])
             ELSE Between(Level(blocks[k]), Level(blocks[k + 1]),
                          Center(blocks[k]), Center(blocks[k + 1]), q))

-----------------------------------------------------------------------------
(* Properties                                                              *)

\* Every forecast is in exactly one bin, so that the errors of the bins are errors of the whole:
\* the bias is no more than the calibration error, and the parts of the Brier score add up.
DiagramIsComplete(frame) ==
    LET parts == Murphy(frame)
    IN  /\ \A i \in DOMAIN frame : Cardinality({j \in 1 .. Bins : i \in Bin(frame, j)}) = 1
        /\ Size(InTheLarge(frame)) <= Ece(frame)
        /\ Brier(frame) = parts.reliability - parts.resolution + parts.uncertainty
                            + parts.variance - 2 * parts.covariance

\* The best non-decreasing fit of a sequence: at each place the largest over the runs that begin
\* there or before of the least mean of such a run that ends there or later.
MeanOf(rows, a, b) == <<SumOver(a .. b, LAMBDA i : rows[i].y), b - a + 1>>
IsBestAt(rows, i, value) ==
    LET leastFrom(a) == CHOOSE b \in i .. Len(rows) : \A c \in i .. Len(rows) :
                            AtMost(MeanOf(rows, a, b), MeanOf(rows, a, c))
        least(a) == MeanOf(rows, a, leastFrom(a))
    IN  /\ \E a \in 1 .. i : Same(value, least(a))
        /\ \A a \in 1 .. i : AtMost(least(a), value)
RecalibratesSoundly(frame) ==
    \E blocks \in {Fit(frame)} : \E rows \in {Sorted(frame)} :
        /\ \A i \in DOMAIN rows : IsBestAt(rows, i, Fitted(blocks)[i])
        /\ \A p \in 0 .. One :
            /\ AtMost(<<Eps, One>>, Predict(blocks, p)) /\ AtMost(Predict(blocks, p), <<One - Eps, One>>)
            /\ p < One => AtMost(Predict(blocks, p), Predict(blocks, p + 1))
=============================================================================
