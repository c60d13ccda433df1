------------------------------- MODULE Server -------------------------------
(***************************************************************************)
(* server.py: one ClientHandler thread per connection, the session table,  *)
(* the semaphore that admits sessions, and the broker (module Broker).     *)
(*                                                                         *)
(* Each step of a handler touches shared state once: the handlers take     *)
(* _status_lock, the semaphore and the broker's lock one after the other   *)
(* and hold none of them from one step to the next.  Writing the file is   *)
(* one step that yields a new version, which is what DataLayer implements. *)
(* READ, PING, a request that is not understood and one that needs a       *)
(* session and has none are answered and change nothing else here          *)
(* (StatusDisplay has READ).  A LOGIN on a connection that is logged in    *)
(* takes a second slot and overwrites _user_id; the history variables      *)
(* forgotten and abandoned record what is then never released.             *)
(*                                                                         *)
(* A connection's socket may fail in two ways.  "reset": the peer is gone *)
(* and TCP says so; reading ends, sending may still seem to work or raise. *)
(* "stalled": the peer does not read, so sending blocks until it does.  A  *)
(* peer that vanishes without a word is an open socket that stays quiet.   *)
(***************************************************************************)
EXTENDS Broker, FiniteSets

CONSTANTS
    MaxSessions,   \* MAX_SESSIONS
    MaxWrites,     \* bound on the writes committed
    MaxRelogins,   \* bound: once so many slots are forgotten, nobody logs in
                   \* on a connection that is logged in
    MaxIncidents,  \* bound on writes, forgotten slots and failed sockets together
    Faults         \* the ways in which a socket may fail

ASSUME ServerAssumption ==
    /\ IsFiniteSet(Handlers)
    /\ MaxSessions \in Nat \ {0}
    /\ MaxWrites \in Nat
    /\ MaxRelogins \in Nat
    /\ MaxIncidents \in Nat
    /\ Faults \subseteq {"reset", "stalled"}

VARIABLES
    pc,             \* where each handler thread is
    sock,           \* the socket of each connection
    asked,          \* the user_id of the LOGIN being handled
    user_id,        \* _user_id
    holds_session,  \* _holds_session
    closing,        \* whether the session is released by _cleanup
    sessions,       \* the value of the semaphore
    active_users,   \* the keys of _active_users
    version,        \* data.version
    stamp,          \* the version of the write each connection is handling,
                    \* or was when it failed
    greeting,       \* the version the LOGIN of its session read
    forgotten,      \* slots whose holder took another one (history)
    abandoned       \* users whose connection logged in as another (history)

handlerVars == <<pc, sock, asked, user_id, holds_session, closing, stamp, greeting>>
tableVars == <<sessions, active_users, version>>
historyVars == <<forgotten, abandoned>>
vars == <<handlerVars, tableVars, brokerVars, historyVars>>

Login == {"check", "admit", "register", "subscribe", "greet", "welcome"}
Write == {"commit", "ack", "publish", "deliver"}
Release == {"unsubscribe", "unregister", "slot"}

TypeOK ==
    /\ BrokerTypeOK
    /\ pc \in [Handlers -> {"new", "recv", "closed"} \cup Login \cup Write \cup Release]
    /\ sock \in [Handlers -> {"open", "closed"} \cup Faults]
    /\ asked \in [Handlers -> Users \cup {None}]
    /\ user_id \in [Handlers -> Users \cup {None}]
    /\ holds_session \in [Handlers -> BOOLEAN]
    /\ closing \in [Handlers -> BOOLEAN]
    /\ sessions \in 0 .. MaxSessions
    /\ active_users \subseteq Users
    /\ version \in 0 .. MaxWrites
    /\ stamp \in [Handlers -> 0 .. version]
    /\ greeting \in [Handlers -> 0 .. version]
    /\ forgotten \in Nat
    /\ abandoned \subseteq Users

Init ==
    /\ BrokerInit
    /\ pc = [h \in Handlers |-> "new"]
    /\ sock = [h \in Handlers |-> "open"]
    /\ asked = [h \in Handlers |-> None]
    /\ user_id = [h \in Handlers |-> None]
    /\ holds_session = [h \in Handlers |-> FALSE]
    /\ closing = [h \in Handlers |-> FALSE]
    /\ sessions = MaxSessions
    /\ active_users = {}
    /\ version = 0
    /\ stamp = [h \in Handlers |-> 0]
    /\ greeting = [h \in Handlers |-> 0]
    /\ forgotten = 0
    /\ abandoned = {}

-----------------------------------------------------------------------------
(* What has happened so far of the things MaxIncidents bounds. *)
Incidents ==
    version + forgotten + Cardinality({h \in Handlers : sock[h] # "open"})

Goto(h, place) == pc' = [pc EXCEPT ![h] = place]

(* _release_session and, from _cleanup, what follows it. *)
KeepSubscription(h) == IF user_id[h] # None THEN "unregister" ELSE "slot"
FirstRelease(h) == IF user_id[h] # None THEN "unsubscribe" ELSE "slot"

StartRelease(h, close) ==
    /\ closing' = [closing EXCEPT ![h] = close]
    /\ Goto(h, FirstRelease(h))

(* What sendall may do on this socket. *)
MaySend(h) == sock[h] \in {"open", "reset"}
MayRaise(h) == sock[h] \in {"reset", "closed"}

(* A response: the handler goes on, or the exception ends the connection.  *)
Respond(h, next) ==
    \/ /\ MaySend(h)
       /\ Goto(h, next)
       /\ UNCHANGED closing
    \/ /\ MayRaise(h)
       /\ StartRelease(h, TRUE)

-----------------------------------------------------------------------------
(* The connection and its requests. *)

Accept(h) ==
    /\ pc[h] = "new"
    /\ Goto(h, "recv")
    /\ UNCHANGED <<sock, asked, user_id, holds_session, closing, stamp, greeting,
                   tableVars, brokerVars, historyVars>>

(* What the client wrote before its socket failed still arrives. *)
Arrives(h) == pc[h] = "recv" /\ sock[h] # "closed"

RecvLogin(h, u) ==
    /\ Arrives(h)
    /\ user_id[h] = None \/ (forgotten < MaxRelogins /\ Incidents < MaxIncidents)
    /\ asked' = [asked EXCEPT ![h] = u]
    /\ Goto(h, "check")
    /\ UNCHANGED <<sock, user_id, holds_session, closing, stamp, greeting,
                   tableVars, brokerVars, historyVars>>

RecvWrite(h) ==
    /\ Arrives(h)
    /\ user_id[h] # None
    /\ Goto(h, "commit")
    /\ UNCHANGED <<sock, asked, user_id, holds_session, closing, stamp, greeting,
                   tableVars, brokerVars, historyVars>>

(* _handle_logout: the reply is sent before the session is released. *)
RecvLogout(h) ==
    /\ Arrives(h)
    /\ \/ MaySend(h) /\ StartRelease(h, FALSE)
       \/ MayRaise(h) /\ StartRelease(h, TRUE)
    /\ UNCHANGED <<sock, asked, user_id, holds_session, stamp, greeting,
                   tableVars, brokerVars, historyVars>>

(* PING, READ, an unknown action, or "Not logged in". *)
RecvOther(h) ==
    /\ Arrives(h)
    /\ Respond(h, "recv")
    /\ UNCHANGED <<sock, asked, user_id, holds_session, stamp, greeting,
                   tableVars, brokerVars, historyVars>>

(* recv returns nothing or raises: run goes to _cleanup. *)
RecvEnd(h) ==
    /\ pc[h] = "recv"
    /\ sock[h] = "reset"
    /\ StartRelease(h, TRUE)
    /\ UNCHANGED <<sock, asked, user_id, holds_session, stamp, greeting,
                   tableVars, brokerVars, historyVars>>

-----------------------------------------------------------------------------
(* _handle_login *)

CheckActive(h) ==
    /\ pc[h] = "check"
    /\ IF asked[h] \in active_users
       THEN Respond(h, "recv") /\ asked' = [asked EXCEPT ![h] = None]
       ELSE Goto(h, "admit") /\ UNCHANGED <<asked, closing>>
    /\ UNCHANGED <<sock, user_id, holds_session, stamp, greeting,
                   tableVars, brokerVars, historyVars>>

HasSlot == sessions > 0

Admit(h) ==
    /\ pc[h] = "admit"
    /\ HasSlot
    /\ sessions' = sessions - 1
    /\ holds_session' = [holds_session EXCEPT ![h] = TRUE]
    /\ user_id' = [user_id EXCEPT ![h] = asked[h]]
    /\ forgotten' = IF holds_session[h] THEN forgotten + 1 ELSE forgotten
    /\ abandoned' = abandoned \cup ({user_id[h]} \ {None})
    /\ asked' = [asked EXCEPT ![h] = None]
    /\ Goto(h, "register")
    /\ UNCHANGED <<sock, closing, stamp, greeting, active_users, version, brokerVars>>

AtCapacity(h) ==
    /\ pc[h] = "admit"
    /\ ~HasSlot
    /\ Respond(h, "recv")
    /\ asked' = [asked EXCEPT ![h] = None]
    /\ UNCHANGED <<sock, user_id, holds_session, stamp, greeting,
                   tableVars, brokerVars, historyVars>>

RegisterSession(h) ==
    /\ pc[h] = "register"
    /\ active_users' = active_users \cup {user_id[h]}
    /\ Goto(h, "subscribe")
    /\ UNCHANGED <<sock, asked, user_id, holds_session, closing, stamp, greeting,
                   sessions, version, brokerVars, historyVars>>

SubscribeSession(h) ==
    /\ pc[h] = "subscribe"
    /\ Subscribe(user_id[h], h)
    /\ Goto(h, "greet")
    /\ UNCHANGED <<sock, asked, user_id, holds_session, closing, stamp, greeting,
                   tableVars, historyVars>>

ReadVersion(h) ==
    /\ pc[h] = "greet"
    /\ greeting' = [greeting EXCEPT ![h] = version]
    /\ Goto(h, "welcome")
    /\ UNCHANGED <<sock, asked, user_id, holds_session, closing, stamp,
                   tableVars, brokerVars, historyVars>>

Welcome(h) ==
    /\ pc[h] = "welcome"
    /\ Respond(h, "recv")
    /\ UNCHANGED <<sock, asked, user_id, holds_session, stamp, greeting,
                   tableVars, brokerVars, historyVars>>

-----------------------------------------------------------------------------
(* _handle_write *)

Commit(h) ==
    /\ pc[h] = "commit"
    /\ version < MaxWrites /\ Incidents < MaxIncidents
    /\ version' = version + 1
    /\ stamp' = [stamp EXCEPT ![h] = version']
    /\ Goto(h, "ack")
    /\ UNCHANGED <<sock, asked, user_id, holds_session, closing, greeting,
                   sessions, active_users, brokerVars, historyVars>>

(* The lock's timeout is answered; an error of the file ends the connection. *)
WriteFails(h) ==
    /\ pc[h] = "commit"
    /\ Respond(h, "recv") \/ StartRelease(h, TRUE)
    /\ UNCHANGED <<sock, asked, user_id, holds_session, stamp, greeting,
                   tableVars, brokerVars, historyVars>>

NoPublish == "recv"
AfterAck == "publish"

(* The writer is answered first; if that raises nothing is published. *)
Acknowledge(h) ==
    /\ pc[h] = "ack"
    /\ Respond(h, AfterAck)
    /\ UNCHANGED <<sock, asked, user_id, holds_session, stamp, greeting,
                   tableVars, brokerVars, historyVars>>

Publish(h) ==
    /\ pc[h] = "publish"
    /\ Snapshot(h, stamp[h])
    /\ Goto(h, "deliver")
    /\ UNCHANGED <<sock, asked, user_id, holds_session, closing, stamp, greeting,
                   tableVars, historyVars>>

DeliverNext(h) ==
    /\ pc[h] = "deliver"
    /\ targets[h] # <<>>
    /\ MaySend(Target(h).to)
    /\ Deliver(h, stamp[h])
    /\ UNCHANGED <<handlerVars, tableVars, historyVars>>

DropNext(h) ==
    /\ pc[h] = "deliver"
    /\ targets[h] # <<>>
    /\ MayRaise(Target(h).to)
    /\ Drop(h)
    /\ UNCHANGED <<handlerVars, tableVars, historyVars>>

Published(h) ==
    /\ pc[h] = "deliver"
    /\ targets[h] = <<>>
    /\ stamp' = [stamp EXCEPT ![h] = 0]
    /\ Goto(h, "recv")
    /\ UNCHANGED <<sock, asked, user_id, holds_session, closing, greeting,
                   tableVars, brokerVars, historyVars>>

-----------------------------------------------------------------------------
(* _release_session and _cleanup *)

UnsubscribeSession(h) ==
    /\ pc[h] = "unsubscribe"
    /\ Unsubscribe(user_id[h])
    /\ Goto(h, "unregister")
    /\ UNCHANGED <<sock, asked, user_id, holds_session, closing, stamp, greeting,
                   tableVars, historyVars>>

SlotOnLogoutOnly(h) == IF closing[h] THEN "closed" ELSE "slot"
AfterUnregister(h) == "slot"

UnregisterSession(h) ==
    /\ pc[h] = "unregister"
    /\ active_users' = active_users \ {user_id[h]}
    /\ user_id' = [user_id EXCEPT ![h] = None]
    /\ Goto(h, AfterUnregister(h))
    /\ UNCHANGED <<sock, asked, holds_session, closing, stamp, greeting,
                   sessions, version, brokerVars, historyVars>>

AlwaysReturned(h) == sessions + 1
Returned(h) == IF holds_session[h] THEN sessions + 1 ELSE sessions

KeepReading(h) == "recv"
AfterRelease(h) == IF closing[h] THEN "closed" ELSE "recv"

(* The slot goes back; then run reads on, or _cleanup closes the socket. *)
ReturnSlot(h) ==
    /\ pc[h] = "slot"
    /\ sessions' = Returned(h)
    /\ holds_session' = [holds_session EXCEPT ![h] = FALSE]
    /\ Goto(h, AfterRelease(h))
    /\ sock' = IF AfterRelease(h) = "closed"
               THEN [sock EXCEPT ![h] = "closed"] ELSE sock
    /\ greeting' = [greeting EXCEPT ![h] = 0]
    /\ ForgetReceived(h)
    /\ UNCHANGED <<asked, user_id, closing, stamp, active_users, version, historyVars>>

-----------------------------------------------------------------------------
(* The network: a socket fails, or a stalled client reads again. *)
SocketChanges(h, state) ==
    /\ pc[h] # "new"
    /\ sock[h] \in {"open", "stalled"}
    /\ state # sock[h]
    /\ state = "open" \/ Incidents < MaxIncidents
    /\ sock' = [sock EXCEPT ![h] = state]
    /\ UNCHANGED <<pc, asked, user_id, holds_session, closing, stamp, greeting,
                   tableVars, brokerVars, historyVars>>

LoginStep(h) ==
    \/ CheckActive(h) \/ Admit(h) \/ AtCapacity(h) \/ RegisterSession(h)
    \/ SubscribeSession(h) \/ ReadVersion(h) \/ Welcome(h)

WriteStep(h) ==
    \/ Commit(h) \/ WriteFails(h) \/ Acknowledge(h) \/ Publish(h)
    \/ DeliverNext(h) \/ DropNext(h) \/ Published(h)

ReleaseStep(h) == UnsubscribeSession(h) \/ UnregisterSession(h) \/ ReturnSlot(h)

(* What a handler thread does by itself once it has something to do. *)
Serve(h) == LoginStep(h) \/ WriteStep(h) \/ ReleaseStep(h) \/ RecvEnd(h)

ClientStep(h) ==
    \/ Accept(h)
    \/ \E u \in Users : RecvLogin(h, u)
    \/ RecvWrite(h)
    \/ RecvLogout(h) \/ RecvOther(h)
    \/ \E state \in Faults \cup {"open"} : SocketChanges(h, state)

Next == \E h \in Handlers : Serve(h) \/ ClientStep(h)

Spec == Init /\ [][Next]_vars

(* Every handler thread is scheduled, and only so many requests can be read*)
(* from a connection that was reset; clients and the network owe nothing.  *)
FairSpec == Spec /\ \A h \in Handlers : WF_vars(Serve(h)) /\ SF_vars(RecvEnd(h))

-----------------------------------------------------------------------------
(* Properties. *)

Live(h) == pc[h] \notin {"new", "closed"}
LoggedIn(h) == user_id[h] # None

(* The slots taken from the semaphore are those of connections that are    *)
(* still there, whatever mix of refusals, logouts, failed sends and dropped*)
(* sockets came before: at most MAX_SESSIONS at once, and none kept by a   *)
(* connection that has ended, with an exception or without (_handle_login, *)
(* _release_session, _cleanup; the release is "idempotent").  The only     *)
(* slots lost are those of connections that logged in once more without    *)
(* logging out. *)
SlotsAccounted ==
    sessions + Cardinality({h \in Handlers : Live(h) /\ holds_session[h]}) + forgotten
        = MaxSessions

(* What the server remembers of a user belongs to a connection that is     *)
(* still there and logged in as that user: no entry of the session table   *)
(* or of the broker outlives its connection, though a failed send may end  *)
(* the connection at any reply (_cleanup: "a crashed client never leaks    *)
(* server resources").  The only exception is a user whose connection has  *)
(* logged in as somebody else since. *)
NothingLeaked ==
    /\ \A u \in active_users \ abandoned :
          \E h \in Handlers : Live(h) /\ user_id[h] = u
    /\ \A u \in Users \ abandoned : subscribers[u] # None =>
          Live(subscribers[u]) /\ user_id[subscribers[u]] = u

(* The version told at login and the events that follow it leave no gap:   *)
(* whoever is subscribed and has been greeted has got every newer version  *)
(* that was published, or is still on the list of the thread publishing it *)
(* (order of subscribe and data.version in _handle_login; publish delivers *)
(* outside the lock); and got it once, unless a connection is subscribed   *)
(* for two users. *)
Awaits(p, h) == \E i \in DOMAIN targets[p] : targets[p][i].to = h

Greeted(h) == pc[h] \notin {"register", "subscribe", "greet"}

SubscriberMissesNothing ==
    \A h \in Handlers, u \in Users :
        Subscribed(u, h) /\ user_id[h] = u /\ Greeted(h) =>
            \A v \in announced : v > greeting[h] =>
                LET copies ==
                      Cardinality({i \in DOMAIN received[h] : received[h][i] = v})
                      + Cardinality({p \in Handlers : stamp[p] = v /\ Awaits(p, h)})
                IN  copies >= 1 /\ (abandoned = {} => copies = 1)

(* A committed version is published, or about to be by the thread that     *)
(* committed it, unless that thread's own connection has failed.           *)
PublishedUnlessWriterLost ==
    \A v \in 1 .. version : v \notin announced =>
        \E h \in Handlers : stamp[h] = v /\ (pc[h] \in Write \/ sock[h] # "open")

(* What holds a handler up although its own peer is well or gone: a peer   *)
(* that does not read, and whose turn it is in a broadcast. *)
HeldUp == \E h \in Handlers : sock[h] = "stalled"

(* A connection that was reset gives back everything it held               *)
(* ("self-heals and never leaks capacity to a vanished node"), if its      *)
(* handler is not held up in a broadcast. *)
VanishedClientFreed ==
    \A h \in Handlers :
        sock[h] = "reset"
            ~> HeldUp \/ (pc[h] = "closed" /\ ~LoggedIn(h) /\ ~holds_session[h])

(* A dead client cannot break the broadcast for the rest: whoever was on   *)
(* the list and whose own socket stays open gets the event.  A client that *)
(* stays connected and does not read can. *)
BroadcastReachesAll ==
    \A p, h \in Handlers :
        Awaits(p, h) /\ sock[h] = "open"
            ~> \/ HeldUp
               \/ sock[h] # "open"
               \/ \E i \in DOMAIN received[h] : received[h][i] = stamp[p]

-----------------------------------------------------------------------------
(* What the comments and the README say, and the code does not do. *)

(* "Reject a duplicate login of the same engineer." *)
OneSessionPerUser ==
    \A g, h \in Handlers : LoggedIn(g) /\ user_id[g] = user_id[h] => g = h

(* "A failed delivery only drops that one subscriber": the entry that goes *)
(* is the one of the connection that failed. *)
DropsOnlyItsTarget ==
    [][\A p \in Handlers, u \in Users :
          OneSessionPerUser /\ DropNext(p) /\ subscribers'[u] # subscribers[u]
              => subscribers[u] = Target(p).to]_vars
=============================================================================
