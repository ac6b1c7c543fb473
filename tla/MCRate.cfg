SPECIFICATION Spec
CONSTANTS
    V1 = V1
    V2 = V2
    Value <- MCValue
    Retries = 1
    MaxTick = 3
    MaxRow = 3
    MaxRestarts = 1
SYMMETRY Symmetry
INVARIANTS
    RateTypeOK
    AnnouncedRatesArePersisted
    RowsRecordChanges
PROPERTY
    RateNeverGoesBack
CHECK_DEADLOCK FALSE
