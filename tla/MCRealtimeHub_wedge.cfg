SPECIFICATION FairSpec
CONSTANTS
    Clients = {c1}
    Handlers = {h1, h2}
    BroadcastCap = 1
    SendCap = 1
    MaxEvents = 2
    MaxTicks = 1
CHECK_DEADLOCK FALSE
PROPERTY StatsArePosted
