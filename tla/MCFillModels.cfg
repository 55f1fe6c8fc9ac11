CONSTANTS
    None = None
    PriceScale = 3
    Quote = {1, 2}
    DepthFraction <- MCWhole
    Slippage = 0
    NumOrders = 2
    MaxQty = 2
    MaxSize = 3
    Models <- MCModels
    Books <- MCBooks
SPECIFICATION MCSpec
INVARIANT ModelsAreNested
INVARIANT PrintIsShared
PROPERTY PriorityAtLevel
