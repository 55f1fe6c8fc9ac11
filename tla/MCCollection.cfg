CONSTANTS
 None = None
 MaxRetries = 1
 Markets <- MCMarkets
 Facts <- MCFacts
 Status = "settled"
 CloseAfter = 2
 CloseBefore = 8
 MinVolume = 1
 Series = {}
 ExcludedSeries = {}
 SampleLimit = 8
 Cap = 1
 MaxMarkets = 3
 Cutoff = 4
 PartitionMargin = 1
 Listings <- MCListings
 PageSize = 1
 CheckpointPages = 2
 ReuseFor = 0
 Floor = 2
 MaxHour = 1
 MaxIgnored = 1
 NewMarkets <- MCNewMarkets
 MaxScan = 5
 MaxRuns = 2
 OpenTime = 0
 CloseTime = 2
 Late = 1
 Margin = 1
 Overlap = 0
 TradePage = 1
 FlushTrades = 2
 MaxTime = 3
 MaxTrades = 2
 SiblingsOf <- MCSiblings
 SettledAtFirst <- MCFirstSettled
 SettledLater <- MCLaterSettled
 Unparsed = {"x"}
 Unreadable = {"z1"}
 Finalised = {"y1"}
 EventsWanted = 2
 Concurrency = 2
 Prints <- MCPrints
 OpenMarkets <- MCOpenMarkets
 OnlySeries = {}
 NotSeries = {}
 MaxDue = 2
 NoLimit = NoLimit
 TopEvents = 2
 MinEventMarkets = 2
 MaxTickers = 3
 Siblings = TRUE
 Polled = {"c", "d"}
 Books <- MCBooks
 Empty <- MCEmpty
 Opening <- MCOpening
 Unusable = Unusable
 MaxInstant = 4
 MaxChanges <- MCMaxChanges
 Chunks <- MCChunks
 Heartbeat = 2
 MaxFailures = 2
 MinGap = 1
 MaxBookAge = 2
 Outage = 2
 Horizon = 2
 Grace = 3
 FreshFor = 2
 RetWindow = 1
 FlowWindow = 2
 StaleWindow = 2
 StaleCap = 2
 Step = 1
 Batches <- MCBatches
 Traded = {"c", "e"}
 Slack = 0
 Lookback = 1
 MaxListed = 1
 MaxPrints = 2
 SessionEnd = 2
 SessionChanges = 1
 Missing = Missing
 Unit = 2
 HoldoutFrom = 7
 Leads = {1, 2}
 Delay = 1
 Windows = {2}
 SideAge = 3
 CorpusVolume = 1
 DayLength = 2
 Histories <- MCHistories
 Orders <- MCOrders
 Folds = 2
 InnerFolds = 2
 Penalties = {1, 2}
 Frames <- MCFrames
 One = 10
 Eps = 1
 Bins = 5
 Denominator = 12
SPECIFICATION CollectionSpec
INVARIANT SelectionIsReproducible
INVARIANT NothingElseIsMissing
INVARIANT EventsAreComplete
INVARIANT RecordingIsFaithful
INVARIANT LabelsAreObserved
INVARIANT SessionIsFaithful
INVARIANT NothingLeaks
INVARIANT RecalibrationIsSound
CHECK_DEADLOCK FALSE
