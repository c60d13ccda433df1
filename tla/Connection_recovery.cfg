\* Two callers make two requests over up to three TCP connections.
SPECIFICATION FairSpec
CONSTANTS
    c1 = c1
    c2 = c2
    listener = listener
    Callers = {c1, c2}
    Listener = listener
    None = None
    Calls = {"login", "logout", "use", "close"}
    MaxCalls = 2
    MaxLinks = 3
\* The listener ends after close().
CHECK_DEADLOCK FALSE
INVARIANTS
    TypeOK
    AnswerIsOwn
    NoWaiterForgotten
PROPERTIES
    ImplementsRemoteCall
    SilentLinkReplaced
    SessionRestored
