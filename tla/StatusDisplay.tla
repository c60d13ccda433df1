--------------------------- MODULE StatusDisplay ---------------------------
(***************************************************************************)
(* _handle_read and _handle_write of server.py around a call of the data   *)
(* layer, with the registries that show who is reading and writing.  The   *)
(* data layer calls on_acquired while it holds the lock (module RWLock);   *)
(* the handler takes its user off the display after the lock is released,  *)
(* when the next one may be on it already.  An exception skips that, and   *)
(* the cleanup of the connection does it (unregister_session).             *)
(*                                                                         *)
(* The registries hold user ids, and nothing ties a user id to one         *)
(* handler: is_active and register_session are two steps of LOGIN, so two  *)
(* handlers may serve the same user at once (module Server shows how).     *)
(* What is read and written is in DataLayer: here the work on the file is  *)
(* done or raises.  A handler stands for the handlers of one connection    *)
(* after another, and each reads and writes (Readers = Writers).           *)
(***************************************************************************)
EXTENDS RWLock

CONSTANTS
    Users,  \* the user ids of the engineers
    None    \* Python's None

ASSUME DisplayAssumption == Readers = Writers /\ None \notin Users

VARIABLES
    stage,         \* where each handler is in its loop
    user_id,       \* _user_id of each handler
    active_users,  \* the keys of _active_users
    readers,       \* _readers
    writer,        \* _writer
    doubled        \* history: users two handlers have served at once, since
                   \* the last time nobody served them

registries == <<active_users, readers, writer>>
sessionVars == <<user_id, doubled>>
displayVars == <<stage, sessionVars, registries>>
vars == <<lockVars, displayVars>>

DisplayTypeOK ==
    /\ stage \in [Threads ->
          {"recv", "register", "call", "shown", "failed", "clear_read", "clear_write",
           "reply", "cleanup"}]
    /\ user_id \in [Threads -> Users \cup {None}]
    /\ active_users \subseteq Users
    /\ readers \subseteq Users
    /\ writer \in Users \cup {None}
    /\ doubled \subseteq Users

DisplayInit ==
    /\ Init
    /\ stage = [t \in Threads |-> "recv"]
    /\ user_id = [t \in Threads |-> None]
    /\ active_users = {}
    /\ readers = {}
    /\ writer = None
    /\ doubled = {}

GoOn(t, next) == stage' = [stage EXCEPT ![t] = next]

(* self._user_id = user, which may be None. *)
Serve(t, user) ==
    /\ user_id' = [user_id EXCEPT ![t] = user]
    /\ doubled' = {u \in Users : \E s \in Threads :
          /\ user_id'[s] = u
          /\ u \in doubled \/ \E r \in Threads \ {s} : user_id'[r] = u}

(* What set_writer(user, False) leaves in _writer.  The slips: clearing it *)
(* whoever is there, and "active and user_id" for the conditional. *)
NoWriter(user) == None
ActiveAnd(user) == FALSE
WithoutWriter(user) == IF writer = user THEN None ELSE writer

-----------------------------------------------------------------------------
(* LOGIN, up to the test of is_active and the slot taken; a connection     *)
(* that has a session may log in again.  A refused one changes nothing. *)
CheckLogin(t, user) ==
    /\ stage[t] = "recv"
    /\ user \notin active_users
    /\ Serve(t, user)
    /\ GoOn(t, "register")
    /\ UNCHANGED <<lockVars, registries>>

Register(t) ==
    /\ stage[t] = "register"
    /\ active_users' = active_users \cup {user_id[t]}
    /\ GoOn(t, "reply")
    /\ UNCHANGED <<lockVars, sessionVars, readers, writer>>

Request(t) ==
    /\ stage[t] = "recv"
    /\ user_id[t] # None
    /\ CallAcquireRead(t) \/ CallAcquireWrite(t)
    /\ GoOn(t, "call")
    /\ UNCHANGED <<sessionVars, registries>>

(* Refused by the lock, the handler goes straight to set_*(False). *)
AfterAcquire(t, clear) == GoOn(t, IF pc'[t] = "timed_out" THEN clear ELSE "call")

Acquire(t) ==
    /\ \/ (EnterAcquireRead(t) \/ WakeReader(t)) /\ AfterAcquire(t, "clear_read")
       \/ (EnterAcquireWrite(t) \/ WakeWriter(t)) /\ AfterAcquire(t, "clear_write")
    /\ UNCHANGED <<sessionVars, registries>>

OnAcquired(t) ==
    /\ stage[t] = "call"
    /\ \/ pc[t] = "reading" /\ readers' = readers \cup {user_id[t]} /\ UNCHANGED writer
       \/ pc[t] = "writing" /\ writer' = user_id[t] /\ UNCHANGED readers
    /\ GoOn(t, "shown")
    /\ UNCHANGED <<lockVars, sessionVars, active_users>>

FileRaises(t) ==
    /\ stage[t] = "shown"
    /\ GoOn(t, "failed")
    /\ UNCHANGED <<lockVars, sessionVars, registries>>

(* The finally clauses: the lock is released after a return and after an   *)
(* exception, which then goes on to run and ends the connection. *)
Over == {"shown", "failed"}
AfterRelease(t, clear) == GoOn(t, IF stage[t] = "failed" THEN "cleanup" ELSE clear)

Finish(t) ==
    /\ stage[t] \in Over
    /\ \/ ReleaseRead(t) /\ AfterRelease(t, "clear_read")
       \/ ReleaseWrite(t) /\ AfterRelease(t, "clear_write")
    /\ UNCHANGED <<sessionVars, registries>>

(* set_reader and set_writer with active=False. *)
Clear(t) ==
    /\ \/ stage[t] = "clear_read" /\ readers' = readers \ {user_id[t]} /\ UNCHANGED writer
       \/ stage[t] = "clear_write" /\ writer' = WithoutWriter(user_id[t]) /\ UNCHANGED readers
    /\ GoOn(t, "reply")
    /\ UNCHANGED <<lockVars, sessionVars, active_users>>

(* The reply, and what is published after a write: sent, or it raises. *)
Reply(t) ==
    /\ stage[t] = "reply"
    /\ GoOn(t, "recv") \/ GoOn(t, "cleanup")
    /\ UNCHANGED <<lockVars, sessionVars, registries>>

StillShown(user) == readers
WithoutReader(user) == readers \ {user}

(* unregister_session, then self._user_id = None; without a session there  *)
(* is nothing to take off. *)
ReleaseSession(t) ==
    /\ active_users' = active_users \ {user_id[t]}
    /\ readers' = WithoutReader(user_id[t])
    /\ writer' = WithoutWriter(user_id[t])
    /\ Serve(t, None)
    /\ UNCHANGED lockVars

(* Its reply was sent; if that raises, Disconnect. *)
Logout(t) ==
    /\ stage[t] = "recv" /\ user_id[t] # None
    /\ ReleaseSession(t)
    /\ UNCHANGED stage

Disconnect(t) ==
    /\ stage[t] = "recv"
    /\ GoOn(t, "cleanup")
    /\ UNCHANGED <<lockVars, sessionVars, registries>>

(* _cleanup; the handler of the next connection starts. *)
Cleanup(t) ==
    /\ stage[t] = "cleanup"
    /\ ReleaseSession(t)
    /\ GoOn(t, "recv")

-----------------------------------------------------------------------------
Tick(t) == Expire(t) /\ UNCHANGED displayVars

HandlerStep(t) ==
    Register(t) \/ Acquire(t) \/ OnAcquired(t) \/ Finish(t) \/ Clear(t) \/ Cleanup(t)

ClientStep(t) ==
    (\E user \in Users : CheckLogin(t, user)) \/ Request(t) \/ Logout(t) \/ Disconnect(t)

DisplayNext ==
    \E t \in Threads : ClientStep(t) \/ HandlerStep(t) \/ FileRaises(t) \/ Reply(t) \/ Tick(t)

(* A handler with a request in hand runs and the clock ticks.  Nobody has  *)
(* to make a request, nothing has to fail, and a reply may block for ever  *)
(* on a peer that does not read. *)
DisplaySpec ==
    /\ DisplayInit /\ [][DisplayNext]_vars
    /\ \A t \in Threads : WF_vars(HandlerStep(t)) /\ WF_vars(Tick(t))

-----------------------------------------------------------------------------
(* Properties. *)

(* Whoever works on the file is shown, whichever handlers clear or clean   *)
(* up after themselves meanwhile (set_reader, set_writer).  The exception: *)
(* a user whom two handlers have served at once, since the one that is     *)
(* done first takes the entry of both off. *)
HoldersShown ==
    \A t \in Threads : stage[t] \in {"shown", "failed"} /\ user_id[t] \notin doubled =>
        /\ pc[t] = "writing" => writer = user_id[t]
        /\ pc[t] = "reading" => user_id[t] \in readers

(* Nobody is shown whose requests are all over, though the file operation  *)
(* or the reply raised ("cleans up the session slot, the subscription and  *)
(* any UI state"): behind every entry there is a handler of that user that *)
(* has the lock, or has yet to take the entry off. *)
Behind(user, inside, clear) ==
    \E t \in Threads :
        /\ user_id[t] = user
        /\ \/ stage[t] \in {"shown", "failed"} /\ pc[t] = inside
           \/ stage[t] \in {clear, "cleanup"}

ShownNoLonger ==
    /\ \A user \in readers : Behind(user, "reading", "clear_read")
    /\ writer # None => Behind(writer, "writing", "clear_write")

(* Every request ends with the lock released and the entry taken off,      *)
(* whatever fails: the finally clauses of the data layer ("otherwise one   *)
(* failure would wedge the whole distributed system") and of run.  Then    *)
(* the reply is sent, if the peer reads. *)
RequestsEnd ==
    \A t \in Threads : stage[t] \notin {"recv", "reply"} ~> stage[t] \in {"recv", "reply"}
=============================================================================
