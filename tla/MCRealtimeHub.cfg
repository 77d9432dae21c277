SPECIFICATION FairSpec
CONSTANTS
    Clients = {c1, c2}
    Handlers = {h1, h2}
    BroadcastCap = 1
    SendCap = 2
    MaxEvents = 2
    MaxTicks = 1
INVARIANTS NoPanic InOrder
PROPERTY GoneIsRemoved
CHECK_DEADLOCK FALSE
