\* A failed delivery and a client that came back.
SPECIFICATION FairSpec
CONSTANTS
    h1 = h1
    h2 = h2
    h3 = h3
    u1 = u1
    u2 = u2
    None = None
    Handlers = {h1, h2, h3}
    Users = {u1, u2}
    MaxSessions = 2
    MaxWrites = 1
    MaxRelogins = 0
    MaxIncidents = 4
    Faults = {"reset"}
\* Every connection may have come and gone.
CHECK_DEADLOCK FALSE
PROPERTIES
    DropsOnlyItsTarget
