SPECIFICATION Spec
CONSTANTS
    A8 = A8
    A16 = A16
    B16 = B16
    A24 = A24
    A28 = A28
    A32 = A32
    A40 = A40
    A48 = A48
    Symbol <- DailySymbol
    ExpiryOf <- DailyExpiryOf
    ListingOf <- DailyListingOf
    TimePeriodLength = 8
    Minute = 2
    ReportFrequency = 2
    Start = 4
    MaxDuration = 13
    Consumer = "socket"
    LivePossible = FALSE
    Busy = FALSE
    Horizon = 24
INVARIANTS
    TypeOK
    NoExpiredTerm
    ReportedTermsBracket
    BookIsCurrent
PROPERTIES
    IsReplayJob
    ReplayEnds
