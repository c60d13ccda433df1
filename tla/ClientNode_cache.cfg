\* Two requests of the browser, two commits, one break of the connection or
\* restart of the server.
SPECIFICATION FairSpec
CONSTANTS
    r1 = r1
    r2 = r2
    Routes = {r1, r2}
    None = None
    MaxCommits = 2
    MaxLosses = 1
\* All requests may have been made.
CHECK_DEADLOCK FALSE
INVARIANTS
    TypeOK
    StaleUnlessMissed
PROPERTIES
    NewsReachesCopy
