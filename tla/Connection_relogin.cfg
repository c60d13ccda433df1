\* One caller; the connection breaks once or twice.
SPECIFICATION FairSpec
CONSTANTS
    c1 = c1
    listener = listener
    Callers = {c1}
    Listener = listener
    None = None
    Calls = {"login", "use"}
    MaxCalls = 2
    MaxLinks = 3
\* The listener ends after close().
CHECK_DEADLOCK FALSE
PROPERTIES
    ReloginAnswered
