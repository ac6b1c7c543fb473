SPECIFICATION Spec
CONSTANTS
    R1 = R1
    R2 = R2
    C1 = C1
    C2 = C2
    Week = 6
    Minute = 2
    Frequency = 3
    Start = 3
    MaxDuration = 11
    LastSlot = 18
    Strike = {2, 3, 5}
    Price = {0, 1, 2}
    Instrument <- MCInstrument
    Asset = {"ETH", "BTC"}
    OwnAsset = "ETH"
    AssetOf <- MCAssetOf
    SinceOf <- MCSinceOf
    ExpiryOf <- MCExpiryOf
    Refresher <- MCRefresher
    Timestamp = {5, 25}
    TermsOf <- MCTermsOf
    TTL = 1
    FirstMoment = 19
    LastMoment = 21
    Replay <- MCReplay
    NearOf <- MCNearOf
    LastSecond = 1
SYMMETRY Symmetry
INVARIANTS
    OneReportPastTheEnd
    FinalBookIsWhole
    NothingListedIsMissing
    OwnEvidenceUnlessShared
CHECK_DEADLOCK FALSE
