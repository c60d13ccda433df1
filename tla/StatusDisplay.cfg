\* Two handlers and two engineers; file operations and replies fail.
SPECIFICATION DisplaySpec
CONSTANTS
    h1 = h1
    h2 = h2
    Readers = {h1, h2}
    Writers = {h1, h2}
    u1 = u1
    u2 = u2
    Users = {u1, u2}
    None = None
INVARIANTS
    DisplayTypeOK
    HoldersShown
    ShownNoLonger
PROPERTIES
    RequestsEnd
