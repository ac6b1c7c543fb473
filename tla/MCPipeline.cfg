SPECIFICATION Spec
CONSTANTS
    TimePeriod = 14
    First <- MCFirst
    Last <- MCLast
    CacheTTL = 0
    SummaryAt <- MCSummaries
    TickAt <- MCTicks
    Retries = 1
    MaxRate = 1
    MaxRestarts = 1
INVARIANTS
    PipelineTypeOK
    AnnouncedTermsBracket
    CacheBoundsStaleness
    RowsWereAnnounced
    StreamsQueriedTermsUntilRollover
PROPERTY
    CallsSettle
CHECK_DEADLOCK FALSE
