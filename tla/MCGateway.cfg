SPECIFICATION Spec
CONSTANTS
    S1 = S1
    R1 = R1
    R2 = R2
    Socket <- MCSocket
    Replay <- MCReplay
    Moment <- RestOfQuarter
    Stored <- Begun
    MaxIndex = 2
    Interval = {"5M", "15M"}
SYMMETRY Symmetry
INVARIANTS
    GatewayTypeOK
    WholeUnlessShared
    RecordedReplaysAreStored
    ClosedAfterAWholeReplay
CHECK_DEADLOCK FALSE
