\* Two requests, and a connection that never breaks.
SPECIFICATION Spec
CONSTANTS
    r1 = r1
    r2 = r2
    Routes = {r1, r2}
    None = None
    MaxCommits = 2
    MaxLosses = 0
\* All requests may have been made.
CHECK_DEADLOCK FALSE
INVARIANTS
    ReportedIsMarked
