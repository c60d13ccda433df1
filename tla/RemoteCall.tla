----------------------------- MODULE RemoteCall -----------------------------
(***************************************************************************)
(* What ServerConnection.request promises to the threads of a node: a      *)
(* request is carried out at most once; its caller is told "ok" only after *)
(* it was carried out and "refused" only while it is not; when the         *)
(* connection is lost all who wait are told so together.  A request that   *)
(* was given up or lost may have been carried out, or still be. *)
(***************************************************************************)
EXTENDS Naturals

CONSTANT Ids   \* request ids

VARIABLES
    status,   \* what the caller of each request knows
    done      \* how often the server has carried it out

vars == <<status, done>>

Init ==
    /\ status = [id \in Ids |-> "unused"]
    /\ done = [id \in Ids |-> 0]

Becomes(id, from, to) ==
    /\ status[id] = from
    /\ status' = [status EXCEPT ![id] = to]
    /\ UNCHANGED done

Start(id) == Becomes(id, "unused", "open")

CarryOut(id) ==
    /\ status[id] \notin {"unused", "refused"}
    /\ done[id] = 0
    /\ done' = [done EXCEPT ![id] = 1]
    /\ UNCHANGED status

Succeed(id) == done[id] = 1 /\ Becomes(id, "open", "ok")

Refuse(id) == done[id] = 0 /\ Becomes(id, "open", "refused")

Lose ==
    /\ status' = [id \in Ids |-> IF status[id] = "open" THEN "lost" ELSE status[id]]
    /\ UNCHANGED done

(* With its answer, or without one: the send raised or time ran out. *)
Return(id) == \E known \in {"open", "ok", "refused", "lost"} : Becomes(id, known, "over")

Next ==
    \/ \E id \in Ids : Start(id) \/ CarryOut(id) \/ Succeed(id) \/ Refuse(id) \/ Return(id)
    \/ Lose

Spec == Init /\ [][Next]_vars
=============================================================================
