CONSTANTS
    None = None
    PriceScale = 4
    Quote <- MCQuote
    Ticker <- MCTicker
    MinEvents = 2
    RateNum = 1
    RateDen = 2
    AlphaNum = 1
    AlphaDen = 4
    TakerRate = 1
    MakerRate = 0
    RateScale = 6
    CentMicro = 10
    Variants <- MCVariants
    Deltas = {1}
    GapAfter = 1
    TradeMemory = 3
    Listings <- MCListings
    Recorded <- MCRecorded
    Batches <- MCBatches
    MaxTime = 4
    MaxBatches = 3
    MinLevel = 2
    StaleAfter = 1
SPECIFICATION ArbSpec
INVARIANT RelationsHold
INVARIANT NetIsGuaranteed
INVARIANT OptimalSize
INVARIANT OpenIsExact
INVARIANT ProbesAreBracketed
INVARIANT ExposureIsWatched
INVARIANT LifetimesAreBracketed
INVARIANT SweepMatchesProbes
CHECK_DEADLOCK FALSE
