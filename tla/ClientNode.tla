----------------------------- MODULE ClientNode -----------------------------
(***************************************************************************)
(* client_node.py: the copy of the file a web client node shows, with the  *)
(* flag that says it is stale.  It is changed by the threads that serve    *)
(* the browser's requests (Routes, one request each) and by the listener   *)
(* thread of the connection, which applies events as it reads them.        *)
(*                                                                         *)
(* A version stands for a text, by the commit that made it, and has the    *)
(* stamp the server gave it, which is all that the node sees: a server     *)
(* that restarts finds the text and counts from 0 again.  The server       *)
(* appears as this node sees it: it serves the requests of the node one    *)
(* after the other, other nodes commit at any time, and the publications   *)
(* of several commits overtake each other.  The connection is what         *)
(* Connection provides: messages arrive in order until it breaks, then     *)
(* waiting requests fail and a new one is made.                            *)
(* Init is the state after the first login.                                *)
(***************************************************************************)
EXTENDS Integers, Sequences, FiniteSets

CONSTANTS
    Routes,      \* the browser's requests, each with its thread
    None,        \* Python's None
    MaxCommits,  \* bound on the commits
    MaxLosses    \* bound on how often the connection breaks or the server
                 \* restarts

ASSUME NodeAssumption ==
    /\ IsFiniteSet(Routes)
    /\ MaxCommits \in Nat
    /\ MaxLosses \in Nat

VARIABLES
    pc,               \* where each request is
    action,           \* what it asks
    reply,            \* the version in its response; None if that is an ERROR
    user,             \* whether _node["user"] is set
    version,          \* _node["version"]
    content_version,  \* _node["content_version"]
    content_loaded,   \* _node["content_loaded"]
    content_stale,    \* _node["content_stale"]
    remembered,       \* the connection's _credentials
    up,               \* whether there is a connection
    losses,           \* times it has broken, or the server restarted (bound)
    queue,            \* requests the server has not begun to serve
    serving,          \* the response it is about to send, or None
    inbox,            \* messages on their way to the node
    session,          \* the server has a session for this connection
    subscribed,       \* and sends events to it
    commits,          \* texts so far; data.version counts those since base
    base,             \* texts the server process found when it started
    leftover,         \* this process may still send to an old connection
    own,              \* the commit this node's handler is publishing, or 0
    unpublished,      \* commits not yet published
    unsent,           \* publications that will be delivered to this node
    held,             \* commits whose publisher is held up for ever
    lost,             \* commits of which this node learns nothing (history)
    applied,          \* commits whose event was applied (history)
    before_copy       \* applied, when the copy was loaded (history)

routeVars == <<pc, action, reply>>
copyVars == <<content_version, content_loaded, content_stale, before_copy>>
nodeVars == <<user, version, copyVars, remembered, applied>>
linkVars == <<up, losses, queue, serving, inbox, session, subscribed>>
fileVars == <<commits, base, leftover, own, unpublished, unsent, held, lost>>
vars == <<routeVars, nodeVars, linkVars, fileVars>>

Stamps == 0 .. MaxCommits
Commits == 1 .. MaxCommits
Versions == [text : Stamps, stamp : Stamps]
Actions == {"login", "logout", "read", "write"}
Stamped(k) == [text |-> k, stamp |-> k - base]
UnnumberedEvent(k) == [route |-> None, version |-> [text |-> k, stamp |-> None]]
Event(k) == [route |-> None, version |-> Stamped(k)]
Response(r, v) == [route |-> r, version |-> v]
Messages == [route : Routes \cup {None}, version : Versions \cup {None}]

ASSUME NoneAssumption ==
    /\ None \notin Routes /\ None \notin Actions
    /\ None \notin Stamps /\ None \notin Versions /\ None \notin Messages

TypeOK ==
    /\ pc \in [Routes -> {"new", "sent", "answered", "failed", "done"}]
    /\ action \in [Routes -> Actions \cup {None}]
    /\ reply \in [Routes -> Versions \cup {None}]
    /\ {user, content_loaded, content_stale, remembered, up, session, subscribed}
          \subseteq BOOLEAN
    /\ {version, content_version} \subseteq Versions \cup {None}
    /\ losses \in 0 .. MaxLosses
    /\ queue \in Seq(Routes)
    /\ serving \in Messages \cup {None}
    /\ inbox \in Seq(Messages)
    /\ {commits, base, own} \subseteq Stamps
    /\ leftover \in BOOLEAN
    /\ unpublished \cup unsent \cup held \cup lost \cup applied \cup before_copy \subseteq Commits

Init ==
    /\ pc = [r \in Routes |-> "new"]
    /\ action = [r \in Routes |-> None]
    /\ reply = [r \in Routes |-> None]
    /\ user = TRUE /\ version = [text |-> 0, stamp |-> 0]
    /\ content_version = None /\ content_loaded = FALSE /\ content_stale = FALSE
    /\ remembered = TRUE
    /\ up = TRUE /\ losses = 0
    /\ queue = <<>> /\ serving = None /\ inbox = <<>>
    /\ session = TRUE /\ subscribed = TRUE
    /\ commits = 0 /\ base = 0 /\ leftover = FALSE /\ own = 0
    /\ unpublished = {} /\ unsent = {} /\ held = {} /\ lost = {}
    /\ applied = {} /\ before_copy = {}

-----------------------------------------------------------------------------
(* The HTTP routes: ask the server, then apply the answer under the lock.  *)
Ask(r, a) ==
    /\ pc[r] = "new"
    /\ action' = [action EXCEPT ![r] = a]
    /\ remembered' = (remembered \/ a = "login")
    /\ pc' = [pc EXCEPT ![r] = IF up THEN "sent" ELSE "failed"]
    /\ queue' = IF up THEN Append(queue, r) ELSE queue
    /\ UNCHANGED <<reply, user, version, copyVars, applied,
                   up, losses, serving, inbox, session, subscribed, fileVars>>

TimesOut(r) ==
    /\ pc[r] = "sent"
    /\ pc' = [pc EXCEPT ![r] = "failed"]
    /\ UNCHANGED <<action, reply, nodeVars, linkVars, fileVars>>

Returns(r, a) ==
    /\ pc[r] \in {"answered", "failed"}
    /\ action[r] = a
    /\ pc' = [pc EXCEPT ![r] = "done"]
    /\ reply' = [reply EXCEPT ![r] = None]
    /\ UNCHANGED <<action, linkVars, fileVars>>

Succeeded(r) == pc[r] = "answered" /\ reply[r] # None

NoCopy ==
    /\ content_version' = None
    /\ content_loaded' = FALSE
    /\ content_stale' = FALSE
    /\ before_copy' = {}

ApplyLogin(r) ==
    /\ Returns(r, "login")
    /\ Succeeded(r)
    /\ user' = TRUE
    /\ version' = reply[r]
    /\ NoCopy
    /\ UNCHANGED <<remembered, applied>>

(* Whatever the server answered. *)
ApplyLogout(r) ==
    /\ Returns(r, "logout")
    /\ remembered' = FALSE
    /\ user' = FALSE
    /\ version' = None
    /\ NoCopy
    /\ UNCHANGED applied

ApplyRead(r) ==
    /\ Returns(r, "read")
    /\ Succeeded(r)
    /\ version' = reply[r]
    /\ content_version' = reply[r]
    /\ content_loaded' = TRUE
    /\ content_stale' = FALSE
    /\ before_copy' = applied
    /\ UNCHANGED <<user, remembered, applied>>

(* The test that events and write responses make: whether the stamps differ. *)
NeverNews(v) == FALSE
OnlyIfShown(v) == content_loaded /\ v.stamp = content_version.stamp
IsNews(v) == content_loaded /\ v.stamp # content_version.stamp

ApplyWrite(r) ==
    /\ Returns(r, "write")
    /\ Succeeded(r)
    /\ version' = reply[r]
    /\ content_stale' = (content_stale \/ IsNews(reply[r]))
    /\ UNCHANGED <<user, remembered, applied, content_version, content_loaded, before_copy>>

ReportError(r) ==
    /\ \E a \in Actions \ {"logout"} : Returns(r, a)
    /\ ~Succeeded(r)
    /\ UNCHANGED nodeVars

-----------------------------------------------------------------------------
(* The listener thread: _on_event, and responses for waiting requests.  An *)
(* event for another text with the stamp of the copy tells it nothing. *)
TakenForCopy(v) == content_loaded /\ v.stamp = content_version.stamp /\ v # content_version

OnEvent(v) ==
    /\ version' = v
    /\ content_stale' = (content_stale \/ IsNews(v))
    /\ applied' = applied \cup {v.text}
    /\ lost' = IF TakenForCopy(v) THEN lost \cup {v.text} ELSE lost
    /\ UNCHANGED <<routeVars, user, remembered, content_version, content_loaded, before_copy>>

OnResponse(r, v) ==
    /\ IF pc[r] = "sent"
       THEN /\ pc' = [pc EXCEPT ![r] = "answered"]
            /\ reply' = [reply EXCEPT ![r] = v]
       ELSE UNCHANGED <<pc, reply>>
    /\ UNCHANGED <<action, nodeVars, lost>>

Receive ==
    /\ inbox # <<>>
    /\ LET m == Head(inbox)
       IN  IF m.route = None THEN OnEvent(m.version) ELSE OnResponse(m.route, m.version)
    /\ inbox' = Tail(inbox)
    /\ UNCHANGED <<up, losses, queue, serving, session, subscribed,
                   commits, base, leftover, own, unpublished, unsent, held>>

(* Waiting requests fail; then the connection logs in again, unseen by the *)
(* node, unless the server refuses. *)
Reconnect ==
    /\ ~up
    /\ inbox = <<>>
    /\ up' = TRUE
    /\ pc' = [r \in Routes |-> IF pc[r] = "sent" THEN "failed" ELSE pc[r]]
    /\ \E ok \in BOOLEAN :
          /\ ok => remembered
          /\ session' = ok
          /\ subscribed' = ok
    /\ UNCHANGED <<action, reply, nodeVars, losses, queue, serving, inbox, fileVars>>

-----------------------------------------------------------------------------
(* The server, as far as this node sees it. *)
Serve(r, v) ==
    /\ up
    /\ serving = None
    /\ own \notin unpublished \cup unsent
    /\ queue # <<>>
    /\ r = Head(queue)
    /\ queue' = Tail(queue)
    /\ serving' = Response(r, v)
    /\ UNCHANGED <<routeVars, nodeVars, up, losses, inbox,
                   base, leftover, own, unpublished, unsent, held, lost>>

ServeRefusal(r) ==
    /\ Serve(r, None)
    /\ action[r] # "logout"
    /\ UNCHANGED <<session, subscribed, commits>>

ServeLogin(r) ==
    /\ Serve(r, Stamped(commits))
    /\ action[r] = "login"
    /\ ~session
    /\ session' = TRUE
    /\ subscribed' = TRUE
    /\ UNCHANGED commits

ServeRead(r) ==
    /\ Serve(r, Stamped(commits))
    /\ action[r] = "read"
    /\ session
    /\ UNCHANGED <<session, subscribed, commits>>

ServeWrite(r) ==
    /\ commits < MaxCommits
    /\ Serve(r, Stamped(commits + 1))
    /\ action[r] = "write"
    /\ session
    /\ commits' = commits + 1
    /\ UNCHANGED <<session, subscribed>>

ServeLogout(r) ==
    /\ Serve(r, Stamped(commits))
    /\ action[r] = "logout"
    /\ UNCHANGED <<session, subscribed, commits>>

Wrote(m) == m # None /\ m.version # None /\ action[m.route] = "write"

(* The response leaves; then a write is published and a logout carried out. *)
Respond ==
    /\ serving # None
    /\ inbox' = Append(inbox, serving)
    /\ serving' = None
    /\ IF Wrote(serving)
       THEN /\ own' = serving.version.text
            /\ unpublished' = unpublished \cup {serving.version.text}
       ELSE UNCHANGED <<own, unpublished>>
    /\ IF action[serving.route] = "logout"
       THEN session' = FALSE /\ subscribed' = FALSE
       ELSE UNCHANGED <<session, subscribed>>
    /\ UNCHANGED <<routeVars, nodeVars, up, losses, queue,
                   commits, base, leftover, unsent, held, lost>>

OtherCommits ==
    /\ commits < MaxCommits
    /\ commits' = commits + 1
    /\ unpublished' = unpublished \cup {commits'}
    /\ UNCHANGED <<routeVars, nodeVars, linkVars, base, leftover, own, unsent, held, lost>>

Publish(k) ==
    /\ k \in unpublished
    /\ unpublished' = unpublished \ {k}
    /\ unsent' = IF subscribed THEN unsent \cup {k} ELSE unsent
    /\ lost' = IF subscribed THEN lost ELSE lost \cup {k}
    /\ UNCHANGED <<routeVars, nodeVars, linkVars, commits, base, leftover, own, held>>

(* The reply to another node's writer fails, or blocks for ever because    *)
(* that node does not read: nothing is published. *)
NeverPublished(k) ==
    /\ k \in unpublished \ {own}
    /\ unpublished' = unpublished \ {k}
    /\ lost' = lost \cup {k}
    /\ UNCHANGED <<routeVars, nodeVars, linkVars, commits, base, leftover, own, unsent, held>>

Deliver(k) ==
    /\ k \in unsent \ held
    /\ unsent' = unsent \ {k}
    /\ inbox' = Append(inbox, Event(k))
    /\ UNCHANGED <<routeVars, nodeVars, up, losses, queue, serving, session, subscribed,
                   commits, base, leftover, own, unpublished, held, lost>>

(* The publisher sends to one subscriber after another and waits for each: *)
(* a node that does not read, served before this one, holds it up.  Only   *)
(* waits that never end are modelled; a delay is the step taken later. *)
HoldUp(k) ==
    /\ k \in unsent \ held
    /\ held' = held \cup {k}
    /\ UNCHANGED <<routeVars, nodeVars, linkVars, commits, base, leftover, own, unpublished,
                   unsent, lost>>

(* A late failure of a delivery to the old connection takes the new        *)
(* subscription away (Drop of Broker). *)
LoseSubscription ==
    /\ leftover
    /\ subscribed
    /\ subscribed' = FALSE
    /\ UNCHANGED <<routeVars, nodeVars, up, losses, queue, serving, inbox, session, fileVars>>

(* The connection breaks: a prefix of what was on its way still arrives,   *)
(* and a write that was not answered yet is never published. *)
EventsIn(q) == {q[i].version.text : i \in {j \in DOMAIN q : q[j].route = None}}
WriteIn(m) == IF Wrote(m) THEN {m.version.text} ELSE {}

LinkEnds ==
    /\ losses < MaxLosses
    /\ losses' = losses + 1
    /\ up' = FALSE
    /\ queue' = <<>> /\ serving' = None
    /\ session' = FALSE /\ subscribed' = FALSE
    /\ unsent' = {} /\ held' = {} /\ own' = 0
    /\ \E n \in 0 .. Len(inbox) :
          /\ inbox' = SubSeq(inbox, 1, n)
          /\ lost' = lost \cup unsent \cup WriteIn(serving) \cup (unpublished \ unpublished')
                          \cup EventsIn(SubSeq(inbox, n + 1, Len(inbox)))
    /\ UNCHANGED <<routeVars, nodeVars, commits>>

LinkBreaks ==
    /\ up
    /\ leftover' = TRUE
    /\ UNCHANGED <<base, unpublished>>
    /\ LinkEnds

(* The server dies and starts again over the same file: what it had not    *)
(* published it never will, and its stamps begin at 0 (DataLayer.__init__). *)
ServerRestarts ==
    /\ base' = commits
    /\ leftover' = FALSE
    /\ unpublished' = {}
    /\ LinkEnds

-----------------------------------------------------------------------------
Apply(r) ==
    ApplyLogin(r) \/ ApplyLogout(r) \/ ApplyRead(r) \/ ApplyWrite(r) \/ ReportError(r)

ServeNext(r) ==
    ServeRefusal(r) \/ ServeLogin(r) \/ ServeRead(r) \/ ServeWrite(r) \/ ServeLogout(r)

Underway ==
    \/ Respond
    \/ \E k \in Commits : Publish(k) \/ NeverPublished(k) \/ Deliver(k)

ServerStep == Underway \/ \E r \in Routes : ServeNext(r)

ListenerStep == Receive \/ Reconnect

Next ==
    \/ \E r \in Routes : TimesOut(r) \/ Apply(r) \/ \E a \in Actions : Ask(r, a)
    \/ ListenerStep \/ ServerStep \/ OtherCommits \/ LoseSubscription
    \/ \E k \in Commits : HoldUp(k)
    \/ LinkBreaks \/ ServerRestarts

Spec == Init /\ [][Next]_vars

(* The listener goes on, and so does the server with what it has begun,    *)
(* except for publishers that are held up.  Nothing has to be served, for  *)
(* the handler of this node may be such a publisher; routes owe nothing. *)
FairSpec == Spec /\ WF_vars(ListenerStep) /\ WF_vars(Underway)

-----------------------------------------------------------------------------
(* Properties. *)

Fresh == content_loaded /\ ~content_stale
Newer == {k \in Commits : content_version.text < k /\ k <= commits}

(* Commits of which an event will still reach the node, if nothing breaks  *)
(* and their publishers are not held up. *)
Coming == unpublished \cup unsent \cup EventsIn(inbox) \cup WriteIn(serving)

(* A copy shown as fresh is older than the file only because of commits    *)
(* whose events are still to come, were applied before the copy was, never *)
(* reach this node because a connection or the server failed, or bear the  *)
(* copy's own stamp because the server restarted (_on_event, api_read,     *)
(* api_write on different threads; "events mark cached file views as stale"). *)
Excused == before_copy \cup lost
StaleUnlessMissed == Fresh => Newer \subseteq Coming \cup Excused

(* What is to come does come: an old copy shown as fresh is marked or      *)
(* replaced in the end, unless its news is among the excused or the thread *)
(* that publishes it is held up for ever by another node that does not     *)
(* read (publish of pubsub.py sends to one subscriber after another). *)
NewsReachesCopy == []<>(Fresh => Newer \subseteq Excused \cup held)

(* "True when pub-sub reports a newer version": no event for a newer       *)
(* version has been applied while the copy is shown as fresh. *)
ReportedIsMarked == Fresh => Newer \cap applied = {}
=============================================================================
