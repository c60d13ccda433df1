\* Three handlers, two writes, failing file operations and one crash.
SPECIFICATION Spec
CONSTANTS
    h1 = h1
    h2 = h2
    h3 = h3
    Handlers = {h1, h2, h3}
    MaxWrites = 2
    MaxCrashes = 1
    Failures = TRUE
SYMMETRY HandlerSymmetry
INVARIANTS
    TypeOK
    LinesContiguous
    SnapshotExact
PROPERTIES
    ImplementsVersionedFile
