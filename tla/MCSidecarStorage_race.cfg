SPECIFICATION Spec
CONSTANTS
    Events = {e1, e2, e3}
    Poison = {e3}
    Flushers = {ticker, http, other}
    Ticker = ticker
    Header = header
    Hole = hole
    LenientCopy = TRUE
    MaxIngest = 2
    MaxFaults = 1
SYMMETRY Symmetry
INVARIANTS AcceptedAccounted ExactlyOnceUnlessRaced
PROPERTY NoResurrection
