\* Three connections of two engineers, whose sockets may be reset.
SPECIFICATION Spec
CONSTANTS
    h1 = h1
    h2 = h2
    h3 = h3
    u1 = u1
    u2 = u2
    None = None
    Handlers = {h1, h2, h3}
    Users = {u1, u2}
    MaxSessions = 2
    MaxWrites = 2
    MaxRelogins = 1
    MaxIncidents = 3
    Faults = {"reset"}
SYMMETRY NodeSymmetry
\* Every connection may have come and gone.
CHECK_DEADLOCK FALSE
INVARIANTS
    TypeOK
    SlotsAccounted
    NothingLeaked
    SubscriberMissesNothing
    PublishedUnlessWriterLost
