-------------------------- MODULE AbstractRWLock --------------------------
(***************************************************************************)
(* What rwlock.py promises, with no mutex, condition variable, counter or  *)
(* deadline: many readers or one writer, writers first, and a writer turned*)
(* away only while somebody is inside.                                     *)
(***************************************************************************)
CONSTANTS Readers, Writers

VARIABLES
    reading,   \* threads inside with shared access
    writing,   \* threads inside with exclusive access
    queued     \* writers waiting to enter

absVars == <<reading, writing, queued>>

Busy == reading \cup writing # {}

Init ==
    /\ reading = {}
    /\ writing = {}
    /\ queued = {}

Outside(t) == t \notin reading \cup writing \cup queued

(* Shared access: no writer inside and, writers being preferred, none queued. *)
StartRead(t) ==
    /\ Outside(t)
    /\ writing = {}
    /\ queued = {}
    /\ reading' = reading \cup {t}
    /\ UNCHANGED <<writing, queued>>

StopRead(t) ==
    /\ t \in reading
    /\ reading' = reading \ {t}
    /\ UNCHANGED <<writing, queued>>

(* A writer joins the queue only when it cannot enter at once. *)
Queue(t) ==
    /\ Outside(t)
    /\ Busy
    /\ queued' = queued \cup {t}
    /\ UNCHANGED <<reading, writing>>

StartWrite(t) ==
    /\ t \notin reading \cup writing
    /\ ~Busy
    /\ writing' = {t}
    /\ queued' = queued \ {t}
    /\ UNCHANGED reading

(* The deadline: a writer leaves the queue empty-handed only when blocked. *)
GiveUp(t) ==
    /\ t \in queued
    /\ Busy
    /\ queued' = queued \ {t}
    /\ UNCHANGED <<reading, writing>>

StopWrite(t) ==
    /\ t \in writing
    /\ writing' = writing \ {t}
    /\ UNCHANGED <<reading, queued>>

Next ==
    \/ \E t \in Readers : StartRead(t) \/ StopRead(t)
    \/ \E t \in Writers : Queue(t) \/ StartWrite(t) \/ GiveUp(t) \/ StopWrite(t)

Spec == Init /\ [][Next]_absVars
=============================================================================
