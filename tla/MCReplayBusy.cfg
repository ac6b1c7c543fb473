SPECIFICATION Spec
CONSTANTS
    A8 = A8
    A16 = A16
    B16 = B16
    A24 = A24
    A28 = A28
    A32 = A32
    A40 = A40
    A48 = A48
    Symbol <- SparseSymbol
    ExpiryOf <- SparseExpiryOf
    ListingOf <- SparseListingOf
    TimePeriodLength = 16
    Minute = 2
    ReportFrequency = 2
    Start = 4
    MaxDuration = 22
    Consumer = "database"
    LivePossible = TRUE
    Busy = TRUE
    Horizon = 30
INVARIANTS
    CompletedCoversQuery
    ReportsWithinQuery
