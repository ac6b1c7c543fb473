SPECIFICATION ServiceSpec
CONSTANTS
    Interval = 2
    Timestamp = {0, 1, 2, 3, 4, 5}
    MaxEmitted = 3
    Timeout = 2000
INVARIANTS
    OptionKeysIncrease
    TradeKeysIncrease
    NoLookAhead
    NothingLost
PROPERTY
    EveryStartSettles
