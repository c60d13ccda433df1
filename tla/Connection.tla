----------------------------- MODULE Connection -----------------------------
(***************************************************************************)
(* connection.py: one ServerConnection, shared by the threads of its node  *)
(* (Callers), with its listener and its heartbeat, against a server and a  *)
(* network that are modelled by what they may do to it.                    *)
(*                                                                         *)
(* The TCP connections it opens one after the other are numbered.  Each is *)
(* "up"; "silent" once the other end or the route is gone and nobody has   *)
(* noticed; "down" once TCP reports it; or "closed" by close().            *)
(* Events pass through the listener to the node (module ClientNode) and    *)
(* touch nothing here; the answer to a PING matches no pending request.    *)
(* Init is the state in which start() returns.                             *)
(***************************************************************************)
EXTENDS Integers, Sequences, FiniteSets

CONSTANTS
    Callers,    \* the threads that call the public methods
    Listener,   \* the thread that runs _listen_loop
    None,       \* Python's None
    Calls,      \* what callers do: of "login", "logout", "use", "close"
    MaxCalls,   \* bound on the requests of the callers
    MaxLinks    \* bound on the TCP connections that are ever made

ASSUME ConnectionAssumption ==
    /\ IsFiniteSet(Callers)
    /\ Listener \notin Callers
    /\ None \notin {"ok", "error", "lost"}
    /\ Calls \subseteq {"login", "logout", "use", "close"}
    /\ MaxCalls \in Nat
    /\ MaxLinks \in Nat \ {0}

Threads == Callers \cup {Listener}
Links == 1 .. MaxLinks

VARIABLES
    pc,           \* where each thread is
    call,         \* the action of the request it is making
    rid,          \* request_id, or 0
    response,     \* pending.response: set means pending.event is set
    pending,      \* the keys of _pending
    next_id,      \* _id_counter
    calls,        \* requests made by callers (bound)
    state,        \* _state
    sock,         \* _sock, and the socket _reader reads
    running,      \* _running
    credentials,  \* whether _credentials is set
    net,          \* each TCP connection
    outbox,       \* requests on their way to the server
    inbox,        \* responses on their way to the node
    session,      \* the connections on which the server has a session
    granted,      \* how often each request was carried out (history)
    refused       \* the connection in use, if its last LOGIN was refused (history)

threadVars == <<pc, call, rid, response>>
requestVars == <<pending, next_id, calls>>
nodeVars == <<state, sock, running, credentials>>
netVars == <<net, outbox, inbox, session, granted, refused>>
vars == <<threadVars, requestVars, nodeVars, netVars>>

Ids == 1 .. MaxCalls + MaxLinks
Requests == [id : Ids, call : {"login", "logout", "use"}]
Responses == [id : Ids, status : {"ok", "error"}]

TypeOK ==
    /\ pc \in [Threads -> {"idle", "send", "wait", "read", "fail", "connect", "dial",
                           "session", "relogin", "ended", "dead"}]
    /\ call \in [Threads -> {"login", "logout", "use", None}]
    /\ rid \in [Threads -> Ids \cup {0}]
    /\ response \in [Threads -> {"ok", "error", "lost", None}]
    /\ pending \subseteq Ids
    /\ next_id \in 1 .. MaxCalls + MaxLinks + 1
    /\ calls \in 0 .. MaxCalls
    /\ state \in {"CONNECTED", "DISCONNECTED", "RECONNECTING"}
    /\ sock \in Links
    /\ running \in BOOLEAN
    /\ credentials \in BOOLEAN
    /\ net \in [Links -> {"unused", "up", "silent", "down", "closed"}]
    /\ outbox \in [Links -> Seq(Requests)]
    /\ inbox \in [Links -> Seq(Responses)]
    /\ session \subseteq Links
    /\ granted \in [Ids -> Nat]
    /\ refused \subseteq Links

Init ==
    /\ pc = [t \in Threads |-> IF t = Listener THEN "read" ELSE "idle"]
    /\ call = [t \in Threads |-> None]
    /\ rid = [t \in Threads |-> 0]
    /\ response = [t \in Threads |-> None]
    /\ pending = {}
    /\ next_id = 1
    /\ calls = 0
    /\ state = "CONNECTED"
    /\ sock = 1
    /\ running = TRUE
    /\ credentials = FALSE
    /\ net = [l \in Links |-> IF l = 1 THEN "up" ELSE "unused"]
    /\ outbox = [l \in Links |-> <<>>]
    /\ inbox = [l \in Links |-> <<>>]
    /\ session = {}
    /\ granted = [id \in Ids |-> 0]
    /\ refused = {}

-----------------------------------------------------------------------------
(* request, on the thread of a caller or of the listener. *)
Goto(t, place) == pc' = [pc EXCEPT ![t] = place]

Register(t, action) ==
    /\ call' = [call EXCEPT ![t] = action]
    /\ rid' = [rid EXCEPT ![t] = next_id]
    /\ response' = [response EXCEPT ![t] = None]
    /\ pending' = pending \cup {next_id}
    /\ next_id' = next_id + 1
    /\ Goto(t, "send")

(* The request returns: the listener reads on, one re-login per connection;*)
(* logout forgets the credentials. *)
TriesAgain(t) == IF t = Listener THEN "session" ELSE "idle"
AfterRequest(t) == IF t = Listener THEN "read" ELSE "idle"

Finish(t) ==
    /\ Goto(t, AfterRequest(t))
    /\ call' = [call EXCEPT ![t] = None]
    /\ rid' = [rid EXCEPT ![t] = 0]
    /\ response' = [response EXCEPT ![t] = None]
    /\ credentials' = (credentials /\ call[t] # "logout")

(* login remembers the credentials before it asks.  No program uses the    *)
(* connection once it has closed it. *)
Call(t, action) ==
    /\ pc[t] = "idle"
    /\ running
    /\ calls < MaxCalls
    /\ calls' = calls + 1
    /\ Register(t, action)
    /\ credentials' = (credentials \/ action = "login")
    /\ UNCHANGED <<state, sock, running, netVars>>

(* The request is written once, whatever happens to it then. *)
SentAgain(q, m) == q \o <<m, m>>
Sent(q, m) == Append(q, m)

(* What is sent before the failure of a connection is known may be lost    *)
(* without an error. *)
SendWorks(t) ==
    /\ pc[t] = "send"
    /\ net[sock] \in {"up", "silent", "down"}
    /\ outbox' = IF net[sock] = "up"
                 THEN [outbox EXCEPT ![sock] = Sent(@, [id |-> rid[t], call |-> call[t]])]
                 ELSE outbox
    /\ Goto(t, "wait")
    /\ UNCHANGED <<call, rid, response, requestVars, nodeVars,
                   net, inbox, session, granted, refused>>

SendRaises(t) ==
    /\ pc[t] = "send"
    /\ net[sock] \in {"down", "closed"}
    /\ pending' = pending \ {rid[t]}
    /\ Finish(t)
    /\ UNCHANGED <<next_id, calls, state, sock, running, netVars>>

Answered(t) ==
    /\ pc[t] = "wait"
    /\ response[t] # None
    /\ Finish(t)
    /\ UNCHANGED <<requestVars, state, sock, running, netVars>>

TimesOut(t) ==
    /\ pc[t] = "wait"
    /\ response[t] = None
    /\ pending' = pending \ {rid[t]}
    /\ Finish(t)
    /\ UNCHANGED <<next_id, calls, state, sock, running, netVars>>

Close(t) ==
    /\ pc[t] = "idle"
    /\ running
    /\ running' = FALSE
    /\ state' = "DISCONNECTED"
    /\ net' = [net EXCEPT ![sock] = "closed"]
    /\ UNCHANGED <<threadVars, requestVars, sock, credentials,
                   outbox, inbox, session, granted, refused>>

-----------------------------------------------------------------------------
(* _listen_loop and _handle_incoming *)
Listening(place) == pc[Listener] = place

AnyWaiter(id) == {t \in Threads : rid[t] \in pending}
Waiter(id) == {t \in Threads : rid[t] = id /\ id \in pending}

Receive ==
    /\ Listening("read")
    /\ running
    /\ inbox[sock] # <<>>
    /\ LET m == Head(inbox[sock])
       IN  /\ response' = [t \in Threads |->
                             IF t \in Waiter(m.id) THEN m.status ELSE response[t]]
           /\ pending' = pending \ {m.id}
    /\ inbox' = [inbox EXCEPT ![sock] = Tail(@)]
    /\ UNCHANGED <<pc, call, rid, next_id, calls, nodeVars,
                   net, outbox, session, granted, refused>>

(* read_message returns None or raises; what had arrived may be lost.  Or  *)
(* the loop ends: close() came while the listener dialled. *)
LinkEnds ==
    /\ Listening("read")
    /\ net[sock] \in {"down", "closed"} \/ ~running
    /\ Goto(Listener, IF running THEN "fail" ELSE "ended")
    /\ UNCHANGED <<call, rid, response, requestVars, nodeVars, netVars>>

(* _reconnect: every request that waits is told that the connection is lost. *)
NoOne == {}
Waiting == {t \in Threads : rid[t] \in pending}

FailPending ==
    /\ Listening("fail")
    /\ state' = "RECONNECTING"
    /\ response' = [t \in Threads |-> IF t \in Waiting THEN "lost" ELSE response[t]]
    /\ pending' = {}
    /\ Goto(Listener, "connect")
    /\ UNCHANGED <<call, rid, next_id, calls, sock, running, credentials, netVars>>

(* _connect_with_retry and _connect_once *)
TryConnect ==
    /\ Listening("connect")
    /\ Goto(Listener, IF running THEN "dial" ELSE "session")
    /\ UNCHANGED <<call, rid, response, requestVars, nodeVars, netVars>>

DialFails ==
    /\ Listening("dial")
    /\ state' = "RECONNECTING"
    /\ Goto(Listener, "connect")
    /\ UNCHANGED <<call, rid, response, requestVars, sock, running, credentials, netVars>>

DialWorks ==
    /\ Listening("dial")
    /\ sock' = sock + 1
    /\ net' = [net EXCEPT ![sock + 1] = "up"]
    /\ inbox' = [inbox EXCEPT ![sock] = <<>>]
    /\ state' = "CONNECTED"
    /\ refused' = {}
    /\ Goto(Listener, "session")
    /\ UNCHANGED <<call, rid, response, requestVars, running, credentials,
                   outbox, session, granted>>

NeverRestores == FALSE
Restores == running /\ credentials

CheckSession ==
    /\ Listening("session")
    /\ Goto(Listener, IF Restores THEN "relogin" ELSE "read")
    /\ UNCHANGED <<call, rid, response, requestVars, nodeVars, netVars>>

(* The credentials are read again; a logout in between leaves None to      *)
(* unpack, which ends the thread. *)
Relogin ==
    /\ Listening("relogin")
    /\ credentials
    /\ Register(Listener, "login")
    /\ UNCHANGED <<calls, nodeVars, netVars>>

UnpackNone ==
    /\ Listening("relogin")
    /\ ~credentials
    /\ Goto(Listener, "dead")
    /\ UNCHANGED <<call, rid, response, requestVars, nodeVars, netVars>>

(* _heartbeat_loop: a PING that nobody acknowledges makes TCP give up. *)
NeverBeats == FALSE
Beats == running /\ state = "CONNECTED"

Heartbeat ==
    /\ Beats
    /\ net[sock] = "silent"
    /\ net' = [net EXCEPT ![sock] = "down"]
    /\ UNCHANGED <<threadVars, requestVars, nodeVars,
                   outbox, inbox, session, granted, refused>>

-----------------------------------------------------------------------------
(* The server and the network. *)

(* A LOGIN may be refused, and is while the user has a session elsewhere.  *)
Replies(l, action) ==
    CASE action = "login" -> IF session = {} THEN BOOLEAN ELSE {FALSE}
      [] action = "logout" -> {TRUE}
      [] action = "use" -> IF l \in session THEN BOOLEAN ELSE {FALSE}

Answer(l) ==
    /\ net[l] = "up"
    /\ outbox[l] # <<>>
    /\ LET m == Head(outbox[l])
       IN  \E ok \in Replies(l, m.call) :
             /\ session' = CASE m.call = "login" /\ ok -> session \cup {l}
                             [] m.call = "logout" -> session \ {l}
                             [] OTHER -> session
             /\ refused' = CASE m.call = "login" /\ ok -> refused \ {l}
                             [] m.call = "login" /\ ~ok -> refused \cup {l}
                             [] OTHER -> refused
             /\ inbox' = [inbox EXCEPT ![l] =
                            Append(@, [id |-> m.id, status |-> IF ok THEN "ok" ELSE "error"])]
             /\ granted' = IF ok THEN [granted EXCEPT ![m.id] = @ + 1] ELSE granted
    /\ outbox' = [outbox EXCEPT ![l] = Tail(@)]
    /\ UNCHANGED <<threadVars, requestVars, nodeVars, net>>

(* The server restarts, the connection breaks, or the route goes away; the *)
(* requests on their way are lost. *)
Breaks(l, how) ==
    /\ \/ net[l] = "up" /\ l < MaxLinks
       \/ net[l] = "silent" /\ how = "down"
    /\ net' = [net EXCEPT ![l] = how]
    /\ outbox' = [outbox EXCEPT ![l] = <<>>]
    /\ UNCHANGED <<threadVars, requestVars, nodeVars, inbox, session, granted, refused>>

(* The server notices that a connection is gone. *)
ServerForgets(l) ==
    /\ l \in session
    /\ net[l] # "up"
    /\ session' = session \ {l}
    /\ UNCHANGED <<threadVars, requestVars, nodeVars, net, outbox, inbox, granted, refused>>

-----------------------------------------------------------------------------
RequestStep(t) == SendWorks(t) \/ SendRaises(t) \/ Answered(t)

ListenStep ==
    \/ Receive \/ LinkEnds \/ FailPending \/ TryConnect \/ CheckSession
    \/ Relogin \/ UnpackNone

CallerStep(t) ==
    \/ \E action \in Calls \ {"close"} : Call(t, action)
    \/ "close" \in Calls /\ Close(t)

NetStep(l) ==
    \/ Answer(l) \/ ServerForgets(l)
    \/ \E how \in {"silent", "down"} : Breaks(l, how)

Next ==
    \/ \E t \in Threads : RequestStep(t) \/ TimesOut(t)
    \/ \E t \in Callers : CallerStep(t)
    \/ ListenStep \/ DialFails \/ DialWorks \/ Heartbeat
    \/ \E l \in Links : NetStep(l)

Spec == Init /\ [][Next]_vars

(* Threads are scheduled, deadlines pass, a connection that is up is       *)
(* served, and a server that is dialled for ever is reached at last.       *)
FairSpec ==
    /\ Spec
    /\ \A t \in Threads : WF_vars(RequestStep(t) \/ TimesOut(t))
    /\ WF_vars(ListenStep) /\ SF_vars(DialWorks) /\ WF_vars(Heartbeat)
    /\ \A l \in Links : WF_vars(Answer(l))

-----------------------------------------------------------------------------
(* Properties. *)

Reconnects == running /\ pc[Listener] # "dead"

(* A caller is told "ok" only if the server said so to that very request,  *)
(* however often the connection was replaced and its own or others'        *)
(* requests timed out before (request ids, _handle_incoming).              *)
AnswerIsOwn == \A t \in Threads : response[t] = "ok" => granted[rid[t]] > 0

(* Whoever waits for an answer is either still listed, so that the answer  *)
(* or the loss of the connection reaches it, or has it already; and nothing*)
(* stays listed that nobody waits for (request, _reconnect). *)
NoWaiterForgotten ==
    /\ \A t \in Threads : pc[t] \in {"send", "wait"} => rid[t] \in pending \/ response[t] # None
    /\ \A id \in pending : \E t \in Threads :
          rid[t] = id /\ pc[t] \in {"send", "wait"} /\ response[t] = None

(* The connection implements remote calls: carried out at most once, "ok"  *)
(* only for what was carried out, an error of the server only for what is  *)
(* not, and a lost connection for all who wait at once (request,           *)
(* _handle_incoming, _reconnect). *)
Known(t) == CASE response[t] = None -> "open"
              [] response[t] = "ok" -> "ok"
              [] response[t] = "error" -> "refused"
              [] response[t] = "lost" -> "lost"

Remote == INSTANCE RemoteCall WITH
    Ids <- Ids,
    status <- [id \in Ids |->
                 IF id >= next_id THEN "unused"
                 ELSE IF \E t \in Threads : rid[t] = id
                      THEN Known(CHOOSE t \in Threads : rid[t] = id)
                      ELSE "over"],
    done <- granted

ImplementsRemoteCall == Remote!Spec

(* A connection that goes silent or breaks is given up and replaced by one *)
(* that works, on which the listener reads again, while the node runs      *)
(* ("keep-alive PINGs used to detect a silently dead server"), unless a    *)
(* logout during a reconnection has ended the listener.                    *)
SilentLinkReplaced ==
    []<>(Reconnects => net[sock] = "up" /\ state = "CONNECTED" /\ Listening("read"))

(* Remembered credentials bring the session back: on the connection that   *)
(* is in use the node is logged in, or its LOGIN was refused, which is     *)
(* final since nothing asks again (_reconnect). *)
SessionRestored ==
    []<>(credentials /\ Reconnects => sock \in session \cup refused)

(* The answer to the re-login reaches the thread that waits for it.        *)
ReloginAnswered ==
    Listening("wait") /\ (\E i \in DOMAIN inbox[sock] : inbox[sock][i].id = rid[Listener])
        ~> response[Listener] # None
=============================================================================
