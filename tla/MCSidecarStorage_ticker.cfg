SPECIFICATION FairSpec
CONSTANTS
    Events = {e1, e2, e3, e4}
    Poison = {e4}
    Flushers = {ticker}
    Ticker = ticker
    Header = header
    Hole = hole
    LenientCopy = TRUE
    MaxIngest = 2
    MaxFaults = 2
PROPERTIES StoresInOrder EventuallyFlushed
