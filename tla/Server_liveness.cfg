\* Two connections whose sockets may be reset or stall.
SPECIFICATION FairSpec
CONSTANTS
    h1 = h1
    h2 = h2
    u1 = u1
    u2 = u2
    None = None
    Handlers = {h1, h2}
    Users = {u1, u2}
    MaxSessions = 2
    MaxWrites = 1
    MaxRelogins = 0
    MaxIncidents = 3
    Faults = {"reset", "stalled"}
\* Every connection may have come and gone.
CHECK_DEADLOCK FALSE
PROPERTIES
    VanishedClientFreed
    BroadcastReachesAll
