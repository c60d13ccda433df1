------------------------------ MODULE Channel ------------------------------
(***************************************************************************)
(* What the wire protocol promises the two ends of a connection, in one    *)
(* direction: whole messages arrive in the order in which they were sent,  *)
(* until the connection ends.  When it does, a suffix of what was on its   *)
(* way is lost, and whatever is not lost is read before the end is.        *)
(***************************************************************************)
EXTENDS Naturals, Sequences

CONSTANTS
    Messages,   \* what may be sent, each message once
    Nothing,    \* nothing has been read yet
    End         \* the connection has ended

VARIABLES
    open,    \* whether the connection still stands
    queue,   \* the messages on their way
    got      \* what was read last

channelVars == <<open, queue, got>>

Init == open = TRUE /\ queue = <<>> /\ got = Nothing

Send(m) ==
    /\ open
    /\ queue' = Append(queue, m)
    /\ UNCHANGED <<open, got>>

Read ==
    /\ queue # <<>>
    /\ got' = Head(queue)
    /\ queue' = Tail(queue)
    /\ UNCHANGED open

Break ==
    /\ open
    /\ open' = FALSE
    /\ queue' \in {SubSeq(queue, 1, n) : n \in 0 .. Len(queue)}
    /\ UNCHANGED got

ReadEnd ==
    /\ ~open
    /\ queue = <<>>
    /\ got' = End
    /\ UNCHANGED <<open, queue>>

Next == (\E m \in Messages : Send(m)) \/ Read \/ Break \/ ReadEnd

Spec == Init /\ [][Next]_channelVars
=============================================================================
