\* Two connections log in as one engineer.
SPECIFICATION Spec
CONSTANTS
    h1 = h1
    h2 = h2
    u1 = u1
    None = None
    Handlers = {h1, h2}
    Users = {u1}
    MaxSessions = 2
    MaxWrites = 0
    MaxRelogins = 0
    MaxIncidents = 0
    Faults = {}
SYMMETRY NodeSymmetry
\* Every connection may have come and gone.
CHECK_DEADLOCK FALSE
INVARIANTS
    OneSessionPerUser
