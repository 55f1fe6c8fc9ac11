CONSTANTS
    a = a
    s1 = s1
    None = None
    Ticker = {a}
    Sid = {s1}
    Batch <- MCBatch
    PriceScale = 2
    Quote = {0, 1}
    MaxEpoch = 2
    MaxSeq = 3
    MaxQty = 1
    MaxReconnects = 1
SPECIFICATION FeedSpec
INVARIANT ConfirmationsStopWhenFrameIsMissing
CHECK_DEADLOCK FALSE
