\* Four messages of two threads, read and sent in any portions.
SPECIFICATION FairSpec
CONSTANTS
    s1 = s1
    s2 = s2
    m1 = m1
    m2 = m2
    m3 = m3
    m4 = m4
    Senders = {s1, s2}
    Messages = {m1, m2, m3, m4}
    Size = 2
    Chunk = 4
    Window = 5
    Delimiter = Delimiter
    Nothing = Nothing
    End = End
    Garbled = Garbled
\* All messages may have been sent.
CHECK_DEADLOCK FALSE
INVARIANTS
    TypeOK
PROPERTIES
    ImplementsChannel
    EverySendArrives
