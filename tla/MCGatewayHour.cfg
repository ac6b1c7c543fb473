SPECIFICATION Spec
CONSTANTS
    S1 = S1
    R1 = R1
    R2 = R2
    Socket <- MCSocket
    Replay <- MCReplay
    Moment <- LastOfHour
    Stored <- HourBegun
    MaxIndex = 1
    Interval = {"1H"}
INVARIANT
    IntervalsAreHonoured
CHECK_DEADLOCK FALSE
