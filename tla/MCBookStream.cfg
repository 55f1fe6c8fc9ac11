CONSTANTS
    a = a
    b = b
    s1 = s1
    None = None
    Ticker = {a, b}
    Sid = {s1}
    Batch <- MCBatch
    PriceScale = 2
    Quote = {0, 1}
    MaxEpoch = 2
    MaxSeq = 4
    MaxQty = 1
    FlushRows = 2
    MaxRecorded = 2
    RecordedFrom <- MCRecordedFrom
SPECIFICATION RecorderSpec
INVARIANT TrustedIsExact
INVARIANT RecordIsFaithful
PROPERTY ImplementsTrustedView
CHECK_DEADLOCK FALSE
