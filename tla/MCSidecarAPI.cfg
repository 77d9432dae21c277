SPECIFICATION APISpec
CONSTANTS
    Events = {e1, e2}
    Poison = {e2}
    Flushers = {ticker, h1, h2}
    Ticker = ticker
    Header = header
    Hole = hole
    LenientCopy = FALSE
    MaxIngest = 1
    MaxFaults = 0
    S3Configured = TRUE
    MaxCalls = 2
SYMMETRY Symmetry
INVARIANTS APITypeOK UploadMissesOnlyElsewhere StatsCountNothingTwice
PROPERTY ObjectLosesRowsOnlyToOvertaking
