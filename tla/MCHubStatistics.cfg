SPECIFICATION FairSpec
CONSTANTS
    Handlers = {h1, h2}
    Ticker = ticker
    Flushers = {ticker}
    Load <- MCLoad
    WindowSize = 2
    Percentiles = {50, 95, 99}
    BatchSizes = {2}
    MaxSeconds = 2
    MaxFaults = 1
INVARIANTS ShownIsStored RateIsNeverOverstated
PROPERTY SizeIsShownInTheEnd
CHECK_DEADLOCK FALSE
