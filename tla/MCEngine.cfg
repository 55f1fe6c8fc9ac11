CONSTANTS
    None = None
    PriceScale = 5
    Quote = {0, 1, 2, 3, 4}
    NumMarkets = 2
    InitialCash = 9
    DepthFraction <- MCWhole
    Slippage = 0
    TakerRate = 1
    MakerRate = 1
    RateScale = 4
    CentMicro = 1
    MakerModel <- MCQueue
    FeeRounding = "exact_6dp"
    SubmitLatency = 1
    CancelLatency = 1
    MaxStaleness = 1
    MaxOrders = 2
    MaxTime = 2
    MaxFeed = 3
    MarkoutAfter = 1
    WakeTimes = {2}
    Orders <- MCOrders
    Updates <- MCUpdates
    Trades <- MCTrades
    Outcomes <- MCOutcomes
SPECIFICATION EngineSpec
INVARIANT NoLeverage
INVARIANT RecordsAgree
INVARIANT DepthIsConsumed
PROPERTY NoLateFill
PROPERTY InTimeOrder
PROPERTY ImplementsLedger
INVARIANT EvaluationAddsUp
