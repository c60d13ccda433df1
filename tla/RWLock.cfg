\* Four handler threads, each of which may read and write; no deadline needs
\* to pass.
SPECIFICATION ProgressSpec
CONSTANTS
    t1 = t1
    t2 = t2
    t3 = t3
    t4 = t4
    Readers = {t1, t2, t3, t4}
    Writers = {t1, t2, t3, t4}
INVARIANTS
    TypeOK
    MutualExclusion
    CountersExact
    NoLostWriterWakeup
PROPERTIES
    RefusedOnlyWhenBlocked
    ImplementsAbstract
    ReadersCannotStarveWriter
