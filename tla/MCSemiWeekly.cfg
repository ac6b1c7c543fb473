SPECIFICATION Spec
CONSTANTS
    TimePeriod = 14
    MaxStep = 61
    Horizon = 20160
    Symbol <- MCSymbol
    ExpiryOf <- MCExpiryOf
    ListingOf <- MCListingOf
INVARIANT
    RollsOverTwicePerWeek
CHECK_DEADLOCK FALSE
