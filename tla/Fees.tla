-------------------------------- MODULE Fees --------------------------------
(***************************************************************************)
(* Trading fees (market/fees.py) in exact integer micro-dollars.  The      *)
(* unrounded fee of a fill is a rational number: a rate times its weight   *)
(* over RateScale.                                                         *)
(***************************************************************************)
EXTENDS OrderBook

CONSTANTS
    TakerRate, MakerRate,   \* coefficient times multiplier, in units of 1/RateScale
    RateScale,
    CentMicro               \* a cent in micro-dollars (CENT_MICRO)

ASSUME FeesAssumption ==
    /\ TakerRate \in Nat /\ MakerRate \in Nat
    /\ RateScale \in Nat \ {0} /\ CentMicro \in Nat \ {0}

Rounding == {"exact_6dp", "cent_per_fill", "cent_per_order"}

\* A fill: quantity at a price.
AFill == [price : 0 .. PriceScale, qty : Nat]

\* _ceil_div
CeilDiv(n, d) == -((-n) \div d)

\* The numerator of FeeSchedule.exact_fee_micro.
ExactFee(rate, fill) == rate * (fill.qty * fill.price * (PriceScale - fill.price))

UpToCent(fee) == CeilDiv(fee, CentMicro) * CentMicro

\* FeeSchedule.fee_micro: the fee of one fill.
FeeMicro(rounding, rate, fill) ==
    LET fee == CeilDiv(ExactFee(rate, fill), RateScale)
    IN  IF rounding = "cent_per_fill" THEN UpToCent(fee) ELSE fee

\* FeeSchedule.order_fee_micro: the fee of one order that filled as fills.
OrderFee(rounding, rate, fills) ==
    IF rounding = "cent_per_order"
    THEN UpToCent(CeilDiv(
             Total([i \in DOMAIN fills |-> ExactFee(rate, fills[i])], Len(fills)), RateScale))
    ELSE Total([i \in DOMAIN fills |-> FeeMicro(rounding, rate, fills[i])], Len(fills))

=============================================================================
