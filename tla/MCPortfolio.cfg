CONSTANTS
    None = None
    PriceScale = 3
    Quote = {1, 2}
    NumMarkets = 2
    InitialCash = 5
    MaxQty = 2
    MaxBought = 3
SPECIFICATION MCSpec
INVARIANT HoldingsAreSound
INVARIANT LedgerBalances
INVARIANT LedgerRecomputed
CHECK_DEADLOCK FALSE
