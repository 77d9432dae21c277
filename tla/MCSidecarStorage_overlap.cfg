SPECIFICATION Spec
CONSTANTS
    Events = {e1, e2}
    Poison = {}
    Flushers = {ticker, http}
    Ticker = ticker
    Header = header
    Hole = hole
    LenientCopy = FALSE
    MaxIngest = 1
    MaxFaults = 0
INVARIANT OneRowPerRequest
