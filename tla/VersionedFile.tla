--------------------------- MODULE VersionedFile ---------------------------
(***************************************************************************)
(* What data_layer.py promises its callers, with no lock and no half-done  *)
(* work: a text that only grows and a version stamp, both changed by one   *)
(* indivisible commit, and reads that return the two together.             *)
(* A write that fails may leave half a line behind, and a restart of the   *)
(* process starts the stamp again at 0 over the text that is there.        *)
(***************************************************************************)
EXTENDS Integers, Sequences

CONSTANT Handlers   \* the callers of read_resource and write_resource

VARIABLES
    text,   \* the shared text
    stamp,  \* the version stamp
    seen    \* what each caller's last read returned

vfVars == <<text, stamp, seen>>

Half(h) == <<[by |-> h, half |-> "head"]>>
Line(h) == Half(h) \o <<[by |-> h, half |-> "tail"]>>

Init ==
    /\ text = <<>>
    /\ stamp = 0
    /\ seen = [h \in Handlers |-> [version |-> -1, content |-> <<>>]]

Commit(h) ==
    /\ text' = text \o Line(h)
    /\ stamp' = stamp + 1
    /\ UNCHANGED seen

Spoil(h) ==
    /\ text' = text \o Half(h)
    /\ UNCHANGED <<stamp, seen>>

Observe(h) ==
    /\ seen' = [seen EXCEPT ![h] = [version |-> stamp, content |-> text]]
    /\ UNCHANGED <<text, stamp>>

(* A write cut short by the crash leaves nothing, half a line or a line.   *)
Restart ==
    /\ stamp' = 0
    /\ text' \in {text} \cup {text \o Half(h) : h \in Handlers}
                        \cup {text \o Line(h) : h \in Handlers}
    /\ UNCHANGED seen

Next ==
    \/ \E h \in Handlers : Commit(h) \/ Spoil(h) \/ Observe(h)
    \/ Restart

Spec == Init /\ [][Next]_vfVars
=============================================================================
