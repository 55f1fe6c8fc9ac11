CONSTANTS
    None = None
    PriceScale = 10
    Quote <- MCQuote
    NumMarkets = 2
    InitialCash = 200
    Contract = 2
    EventOf <- MCEventOf
    Worlds <- MCWorlds
    MaxPosition = 6
    MaxEventLoss = 28
    MaxPortfolioLoss = 28
    KillLoss = 29
    MaxDrawdown = 6
    Fine = 8
    Gamma <- MCGamma
    Inventory <- MCInventory
    Fairs <- MCFairs
    ReservationBid <- MCReservation
    Tops <- MCTops
    Outcomes <- MCOutcomes
    Signals <- MCSignals
    ReactToTrades = TRUE
    TradeReact = 1
    MaxSpread = 4
    MinFair = 4
    MaxFair = 16
    Requote = 1
    MinRequote = 3
    BusyFor = 2
    WakeAfter = 3
    RiskEvery = 2
    MaxBookAge = 4
    StopAt <- MCStopAt
    SubmitLatency = 1
    CancelLatency = 1
    AckLatency = 1
    MaxTime = 7
    PrintSizes = {3, 4}
    MaxFeed = 3
    MaxQuotes = 4
SPECIFICATION MMSpec
INVARIANT PositionIsBounded
INVARIANT KillPullsEverything
INVARIANT SelfCrossIsHandled
CHECK_DEADLOCK FALSE
