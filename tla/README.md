# A TLA+ model of DistRes

DistRes is a TCP server that gives several client nodes coordinated read and
write access to one shared file, admits a limited number of sessions, and tells
every client when the file has changed. This directory models both sides of it
in TLA+, checks the models with TLC on small instances, and proves with TLAPS,
for any number of threads, connections, users, requests and messages, every
safety invariant and every refinement that TLC checks.

## 1. Inventory: the parts of the system

| Part | Source | State it keeps | Operations |
|---|---|---|---|
| Readers-writer lock | `rwlock.py` | three counters, two condition variables on one mutex | `acquire_read/write(timeout)`, `release_read/write` |
| Data layer | `data_layer.py` | the file, the version stamp, the credentials (SQLite) | `read_resource`, `write_resource`, `version`, `authenticate` |
| Broker | `pubsub.py` | registry user id -> deliver callback | `subscribe`, `unsubscribe`, `publish` |
| Server | `server.py` | per connection: `_user_id`, `_holds_session`, socket; shared: semaphore, `_active_users`, status display | LOGIN, READ, WRITE, LOGOUT, PING, cleanup on disconnect |
| Connection core | `connection.py` | socket, state, pending requests, credentials | `request`, listener, reconnection with re-login, heartbeat, `close` |
| Web client node | `client_node.py` | cached snapshot, its version, stale flag, notifications | event callback, login, logout, read, write |
| Terminal client | `cli_client.py` | none of its own | an input loop |
| Framing | `protocol.py` | receive buffer | `send_message`, `read_message` |

How they interact. The server runs one `ClientHandler` thread per connection.
A handler calls the data layer, which takes the lock around each file access;
after a write it answers the writer and then, still on its own thread, calls
the broker, which calls the `deliver_event` method of every subscribed handler
and so writes to *their* sockets. Handlers share the lock, the session table
(`_status_lock`), the semaphore and the broker's registry, each with its own
mutex and never two at once. On the client a listener thread reads the socket
and hands replies to waiting callers and events to a callback.

What is hard about it. Handlers interleave between any two critical sections;
acquires time out while they are being woken; a socket can fail at any reply,
in the middle of a login, or between a commit and its publication; a publisher
works from a snapshot of the registry that is out of date; file operations may
raise; the process may crash with half a line written. On the client a
reconnection, a reply and an event may race.

What makes each part correct:

* lock: a writer is alone inside; the counters are exact; no wake-up is lost;
  a thread is refused only while it is really blocked; queued writers get in
  before new readers;
* data layer: lines never mix; a read's text and stamp belong together; the
  lock is released whatever fails; a stamp identifies a text;
* broker and server: slots are neither lost nor given twice; nothing outlives
  its connection; a subscriber gets every published version after the one it
  was told at login, once; a commit is published; dead clients are cleaned up;
* connection core: an answer reaches the request it belongs to and no other; no
  thread waits for an answer that cannot reach it any more; a dead connection is
  noticed and replaced; the session comes back with it.
  A request is carried out at most once, and nobody is told that it was when it
  was not;
* status display: whoever works on the file is shown, and nobody whose requests
  are over;
* framing: messages are read whole, in order and without a gap, however the byte
  stream is cut up and whoever sends at the same time;
* client node: a copy that is out of date is marked stale, or its news is on the
  way.

## 2. Modules

| Module | Models | Notes |
|---|---|---|
| `AbstractRWLock` | the promise of the lock | sets of readers and writers inside, set of queued writers |
| `RWLock` | `rwlock.py` | one action per stretch under the mutex |
| `RWLockProofs` | | theorems about `RWLock` |
| `VersionedFile` | the promise of the data layer | indivisible commits and reads, spoiled writes, restarts |
| `DataLayer` | `data_layer.py` over `RWLock` | instantiates `RWLock` on its own variables |
| `Broker` | `pubsub.py` | operators the server's actions call |
| `Server` | `server.py`, extends `Broker` | one action per access to shared state |
| `ServerProofs` | | theorems about `Server` |
| `Connection` | `connection.py` | one node's threads over the TCP connections it opens |
| `ClientNode` | `client_node.py` | the cached copy, changed by routes and listener |
| `StatusDisplay` | the registries of `server.py` around a call of the data layer | extends `RWLock` |
| `RemoteCall` | the promise of `request` | each request at most once |
| `Channel` | the promise of the framing | a queue of whole messages |
| `Framing` | `protocol.py` over a byte stream | one direction of one connection |
| `ServerEventProofs`, `DataLayerProofs`, `StatusDisplayProofs`, `ConnectionProofs`, `ClientNodeProofs`, `FramingProofs` | | theorems about the module each is named for; `ServerEventProofs` is about the events of `Server` |
| `MCDataLayer`, `MCServer` | | symmetry sets for TLC |

**RWLock.** The counters and condition variables are the object's fields; `pc`
says where each thread is and `expired` whether the deadline it computed has
passed. A condition variable is the set of waiters not yet notified. A thread
inside `wait` may go on when it was notified or when its time is up; in the
second case it stays among the waiters until it has the mutex, so it can still
swallow a `notify`, as in Python's `threading.Condition`. Whether the clock has
passed a deadline is one action, `Expire`, so every order of expiry is covered
and no time value is needed. `Notify` wakes an arbitrary waiter where Python
wakes the oldest: the properties do not need the order.

**DataLayer.** Between acquiring and releasing the lock, `step` records how far
a thread has come: reading the text, reading the stamp, the two halves of an
appended line (a long text is flushed by more than one system call), bumping the
stamp. Any file operation may raise, in which case at most half of the line is
out. A `Crash` empties the lock and the stamp, keeps the file, and leaves what
clients have read with the clients (`result`). Lines are identified by their
writer and half; what they say, and the header lines written by `_init_file`, do
not matter. An error reported only by `close()` after the whole line reached the
file is not modelled.

**StatusDisplay.** `_handle_read` and `_handle_write` around the data layer:
`stage` follows a handler from its request through the callback that shows its
user (called while the lock is held), the work on the file, the release of the
lock, and the call that takes the user off the display, which comes after the
release, so the next holder may be shown already; then the reply and, after a
write, the publication, which may block for ever but hold no lock. Exceptions of
the file or of the reply skip to the cleanup of the connection. The lock is
`RWLock` itself, which this module extends. As in the code the registries hold
user ids, and `user_id` is each handler's own: a LOGIN tests `active_users` and
enters the user there in two steps, so two handlers may serve one user. Then the
one that is done first, or is cleaned up first, takes the entry of both off.
`doubled` is history for that: the users whom two handlers have served at once
since the last time nobody served them; `HoldersShown` excepts exactly these.
Authentication and the semaphore only refuse a LOGIN, which here need not be made.
A handler of the model stands for the handlers of successive connections.

**Broker and Server.** A callback is named by its connection. `pc` follows the
handler through `_handle_login` (check, admit, register, subscribe, read the
version, reply), `_handle_write` (commit, reply, snapshot, one delivery at a
time), `_handle_logout` and `_release_session`. Committing is one step that
yields the next version, which is what `DataLayer` is shown to implement.
Every reply may raise if the socket has failed, and then the handler goes to
cleanup, as the `except` clause of `run` makes it. `sock` is `reset` when TCP
knows the peer is gone, `stalled` when the peer does not read (a send blocks
until it does), `closed` after cleanup. A peer whose host vanishes without a
word is an open socket that stays quiet: the server has no receive timeout and
sends no probe, so such a handler waits for ever and keeps its slot.
`announced`, `received` and `greeting` are history for the properties.

Requests that change nothing here (PING, READ, unknown actions, requests that
need a session and find none) are one action, `RecvOther`, because their reply
may raise like any other. A LOGIN on a connection that has a session is admitted
by the code: it takes another slot and overwrites the user. The history
variables `forgotten` and `abandoned` say which slots and users are thereby
never released, and the properties except exactly those.

Messages to and from a client are not queued here: a request is taken when the
handler reads, a reply or an event is handed to the socket. What the client
makes of them belongs to the client modules.

**Connection.** `Init` is the state after `start()`: the first TCP connection is
up and the listener reads it. `pc` follows a caller through `request` (register,
send, wait) and the listener through `_listen_loop`, `_reconnect`,
`_connect_with_retry` and `_connect_once`, and into `request` again for the
re-login, which runs on the listener's own thread. TCP connections are numbered;
`net` says whether one is up, silent (gone, and nobody knows), down (TCP says
so) or closed. The server and the network are environment actions: answering or
refusing a request, breaking, going silent, forgetting the session of a dead
connection. Some stretches are single actions although the code has more than
one critical section in them: matching a response and setting its event; a
timeout and the removal of the request; marking the state and failing the
pending requests. In each the second half touches only what the first has just
taken out of everybody else's reach, or what only the listener writes. The
heartbeat is one action: while the state is CONNECTED it sends PINGs, and a PING
that nobody acknowledges turns a silent connection into one that is down. The
local variables `rid`, `call` and `response` are reset when a request returns.
`ImplementsRemoteCall` maps this to `RemoteCall`: what a caller knows of its
request is read off its pending entry, and `granted` counts how often the server
has carried the request out.

**ClientNode.** `Init` is the state after the first login. A route registers its
request, waits, and applies the answer under the node's lock; the listener hands
answers over and applies events in the order it reads them. A copy is its version,
since the data layer keeps text and version together (`SnapshotExact`). A version
is a text (the commit that made it) and the stamp the server gave it; the code
compares stamps, the properties texts. They part when the server restarts
(`ServerRestarts`) and counts from 0 over the text it finds. The server appears as
this node sees it: it serves this node's requests one after the other and
publishes a write of its own before it serves the next; other nodes commit at any
time, and their publications may overtake each other or, when the reply to their
writer fails or blocks, never happen. A publisher may also be held up for ever by
a subscriber that comes before this node in its snapshot and does not read
(`HoldUp`; `held` is then a commit this node does not hear of). Subscribing and
reading the version at login are one action, because the first precedes the second
and the property of both, that there is no gap, is `SubscriberMissesNothing` of
`Server`. The connection breaks with any prefix of what was under way still
arriving; the re-login brings session and subscription back unseen by the node, or
is refused. A late failed delivery to the old connection may take the new
subscription away (`LoseSubscription`, see `server_drop`). `lost`, `applied` and
`before_copy` are history; `lost` also holds a commit whose event the node takes
for the copy it has because the stamps agree (`TakenForCopy`). The node is assumed
not to send a LOGIN while it has a session for which the server would admit it as
another engineer: what that does to the server is in `Server`. The page, the
notification list, the connection label and the status message are left out:
nothing reads them but the page.

**Framing.** A message is `Size` numbered pieces and the delimiter. Each sender
holds the send lock while `sendall` hands its bytes to TCP in portions as room
allows; `recv` returns any portion that has arrived, up to `Chunk`; the
connection may end with any suffix of what is under way lost. The reader keeps a
buffer and returns the line before the first delimiter. `Decode` stands for
`json.loads`: the pieces of one message in order are that message and anything
else is garbled. `ImplementsChannel` maps the bytes in the buffer and on the wire
to the queue of the messages whose delimiter has been sent.

## 3. What TLC checks

| Run | Question | Bounds |
|---|---|---|
| `lock` | exclusion, exact counters, no lost writer wake-up, refusals only while blocked, refinement of `AbstractRWLock`; queued writers are not starved by readers although no deadline passes | 4 threads, each reader and writer |
| `data_safety` | lines contiguous, text and stamp of a read belong together, refinement of `VersionedFile` | 3 handlers, 2 writes, 1 crash, failures; symmetry |
| `status_display` | holders are shown unless two handlers serve their user, nobody else stays shown; every request ends with the lock released although operations fail and replies block | 2 handlers that read and write, 2 users, failures |
| `server_safety` | slots and entries belong to connections that are still there, no gap and no duplicate after a login, commits published unless the writer's connection failed | 3 connections, 2 users, 2 slots; at most 2 writes and 1 second login, with failed sockets at most 3 of these; symmetry |
| `server_liveness` | reset connections are cleaned up, dead subscribers do not stop a broadcast, unless a client that never reads holds the handler up | 2 connections, 2 users, 2 slots, 1 write, resets and stalls |
| `connection_recovery` | answers reach their own request, each request is carried out at most once (refinement of `RemoteCall`), no waiting thread is forgotten, silent and broken connections are replaced by one that works and is read, the session is restored or its LOGIN refused | 2 callers, 2 requests, 3 TCP connections |
| `node_cache` | a copy shown as fresh is old only for one of four named causes; news on its way reaches the copy, unless its publisher is held up | 2 requests, 2 commits, 1 broken connection or restart of the server |
| `framing` | refinement of `Channel`; no message waits for a later one | 2 senders, 4 messages of 2 pieces and a delimiter, `recv` of at most 4, 5 bytes between the sockets |

Why these bounds are enough to be interesting. Four threads give two waiters on
either condition variable behind a holder that may time out in any order, which is
what a lost wake-up or a stale count needs. Two handlers that come back over new
connections give a holder beside one that clears or cleans up, for another user or
for the same one; the theorems say the same of any number. In the data layer,
three handlers give two writers and a reader, or a reader that overtakes; two
writes and one crash give a commit before and after a restart. Three connections
of two users give a publisher, an old connection and the new one of the same user,
and two slots make the third login find the server full. Two writes let a login
fall between two events, and two publications overtake each other. `MaxIncidents`
bounds writes, failed sockets and slots forgotten by a second login together:
three of them give a writer and a subscriber that fail around a write, a failure
between two overtaking publications, or a second login with a write and a failure
after it. A stalled client only delays handlers and so adds no new state to the
safety properties. Three TCP connections give a reconnection that fails in its
re-login and starts again, while a caller of the first connection still waits or
times out. Two requests of the browser and two commits give a read or a write that
overlaps a logout, another read, or the events of both commits in either order;
one commit before and one after a restart give two texts with one stamp. A `recv`
of 4 ends inside a message or takes one and the beginning of the next, and with 5
bytes of room a `sendall` has to wait for the reader in the middle of a message.

Deadlock is checked except in the runs of the server, the connection, the node
and the framing, where every client may have come and gone, `close()` ends the
listener, all requests may have been made, and all messages sent.

Fairness. `ProgressSpec` of the lock: a thread that has called `acquire_*` is
scheduled (weakly fair) and a holder releases, which the `finally` clauses
ensure; no deadline is obliged to pass, so starvation freedom does not lean on
timeouts. `DisplaySpec`: handler threads with a request are scheduled and the
clock ticks (a parked reader may depend on its deadline, see below); nothing has
to fail, nobody has to make a request, and no reply has to be sent, because the
peer may not read. `FairSpec` of the server: weak
fairness of every handler thread, and strong fairness of `RecvEnd`, because a
connection that was reset delivers only the finitely many requests its peer had
sent before its end is read. A peer that has stopped reading need never resume:
`sendall` has no timeout, so the two properties except the handlers it holds up
(`HeldUp`). No client ever has to send anything. `FairSpec` of the connection:
threads are scheduled, which includes that a `wait` whose deadline has passed
returns; the heartbeat runs; a connection that is up is served; and a server
that is dialled for ever is reached at last (strong fairness of `DialWorks`),
since the retry loop never gives up. Nothing obliges a connection to break.
`FairSpec` of the node: the listener goes on, and so does the server with what it
has begun (a reply to this node, a publication, a delivery), except for
publishers in `held`. Nothing obliges it to serve a request of this node, whose
own handler may be such a publisher; routes owe nothing.
`FairSpec` of the framing: the reader and the senders are scheduled.

### What the code does differently from what it says

Four runs are counterexamples to a sentence in the repository; each is listed
with the quotation under `findings` in `PROJECT.json`.

* `server_duplicate`: the duplicate-login check and the registration are two
  critical sections; two simultaneous logins of one engineer both succeed.
* `server_drop`: a failed delivery unsubscribes the user id. If that user has
  reconnected since the snapshot, the new connection loses its subscription and
  its client hears of no further update, although it is alive and logged in.
* `connection_relogin`: the re-login after a reconnection runs on the listener
  thread and waits for an answer that only the listener could read. It always
  waits for its whole timeout, and nothing else is received meanwhile.
* `node_stale`: a read's answer that is applied after an event for a newer
  version clears the mark that event set; the copy is shown as fresh until the
  next event.

The rest was met while modelling and has no run of its own. It is in the models,
and the properties that pass name it as an exception where it matters:

* A writer that times out does not wake the readers it held back: they stay
  parked until a writer releases or their own deadline passes, when they are
  admitted after all (`RequestsEnd` therefore needs the clock to tick).
* The stamp starts at 0 again over the old file (`Restart` in `VersionedFile`),
  so a copy from before may carry the current stamp, and the event for a newer
  text does not mark it (`TakenForCopy` in `ClientNode`).
* An append that raises halfway leaves half a line that readers see with an
  unchanged stamp (`Spoil` in `VersionedFile`).
* When the reply to a writer raises, its commit is never published
  (`PublishedUnlessWriterLost`; `lost` in `ClientNode`).
* A subscriber that does not read blocks the handler that publishes (`HeldUp`), and
  those that come after it in the snapshot never hear of that commit (`held` in
  `NewsReachesCopy`).
* Two handlers of one user (`server_duplicate`) share its entry on the display: the
  one that is done first takes it off while the other is still at work
  (`doubled` in `HoldersShown`).
* A LOGIN as another engineer on a logged-in connection takes a second slot, of
  which cleanup returns one, and leaves the first engineer in the session table
  and the registry (`forgotten` in `SlotsAccounted`, `abandoned` in
  `NothingLeaked`; no subscriber is then sure to get an event only once).
* A request that timed out, or whose connection was lost, may have been carried
  out or still be (`RemoteCall`): a WRITE repeated by hand appends twice.
* A client is shown until its handler has taken it off, although it has released
  the lock: the display may show a reader and the next writer together.
* A logout between the two reads of `_credentials` in `_reconnect` ends the
  listener with a TypeError (`UnpackNone`); if it comes a little later the node
  logs in again after its user has logged out.
* A re-login that the server refuses, for instance because it still holds the
  session of the old connection, is never repeated (`refused`).
* Events are compared with the copy by inequality: one that arrives late marks a
  copy stale that is already newer.

## 4. What is proved

`RWLockProofs` proves, for any finite sets of readers and writers (assumption
`ThreadsFinite`), type correctness, `MutualExclusion`, `CountersExact`,
`NoLostWriterWakeup`, `RefusedOnlyWhenBlocked` and `ImplementsAbstract`. The
argument: the counters say nothing about who is inside, so exclusion is not
inductive alone. `IInv` ties each counter to the set of threads it counts and
each condition variable to the threads inside its `wait`; then the tests in the
two loops are tests on those sets. `NoLostWriterWakeup` needs the second part: a
`notify` that finds a waiter removes it from the set, and it is then a thread on
its way to the mutex. The refinement maps the abstract sets to the places the
threads are in, so each step of the lock moves one thread as the abstract
action does, or moves it between places the abstract lock does not see.

`ServerProofs` proves, for any finite sets of connections and users (assumptions
`ServerAssumption`, `BrokerAssumption`) and any number of slots and writes:

* `TypeCorrect`, for every client. The types need two facts of their own: a
  handler in a place where it acts for a user has one (`Acting`), and the
  semaphore never exceeds its initial value because the slots that are free and
  those held are together at most all of them (`SlotBound`, which a second login
  on a connection preserves: it takes a slot and adds no holder).
* `SlotsKept` and `CrashedClientLeaksNothing`, for every client as well: what a
  second login leaves behind is in `forgotten` and `abandoned`, and nothing else
  is ever lost. The count of the slots and their holders (`SlotsCounted`) is
  inductive by itself; that the holders are connections that have not ended, and
  `NothingLeaked`, need two more facts. `Fields` ties each place in the
  handler to its fields (without a session `_user_id` is None; a slot is held
  only with a user or on the way to return it). `Unsubscribed` says that a
  handler which is past `unsubscribe` is not the subscriber of its own user any
  more, so that forgetting the user cannot orphan an entry. Most steps move one
  handler and leave what sessions own alone; they share the lemma
  `MoveKeepsOwners`.

`ServerEventProofs` adds the two properties of the events, on top of that
invariant. `Publications` says that a version belongs to the one handler that
committed it and is announced once; `Entrusted`, that a version not announced is
still with that handler, or the handler's connection failed
(`CommittedIsPublished`). For `NoGapAfterLogin` it is not enough to say of a
subscriber that each newer event is received or under way. `Told` says it of the
entries under the subscriber's own user, because an entry left behind under
another one may be dropped by a failed delivery; and `Once`, that nobody is
listed twice or has already what he is listed for, holds only while no
connection has logged in for two users (`abandoned`).

`DataLayerProofs` (assumption `DataLayerAssumption`) reuses the lock's lemmas
through an instance of `RWLockProofs` on the data layer's own variables: between
two crashes the handlers take only steps of the lock, and a crash puts it back
into its initial state (`RenewedInv`), so the lock's invariant holds throughout.
With exclusion from there, `ContiguousLines` and `ExactSnapshots` follow from
what a handler in the middle of its work knows of the file: the last pieces are
its own (`OwnPiecesLast`), a text just read is the file (`ReadsWhole`), and the
stamp lags behind by exactly the line that is out and not yet counted
(`StampExact`). `Refinement` places a commit of `VersionedFile` at the increment
of the stamp, a spoiled write at the failure between the two halves, and a crash on its
restart.

`StatusDisplayProofs` (assumption `DisplayAssumption`: every handler may both
read and write, which is `Readers = Writers`, and None is no user) proves first
that the handlers use the lock as specified (`LockAsSpecified`), and so inherits
its theorems. `Staged` ties the stage around the call of the data layer to the
place inside the lock, `InSession` says that a handler at work has a user, and
`Single` that a user which is not in `doubled` is served by one handler at most:
whoever takes a user off the display is then the handler the entry stands for.
`Displayed` also needs exclusion, because the display has room for one writer.
`NoGhosts` has no exception: behind every entry there is a handler of that user
that holds the lock or will take the entry off, however many serve the user.

`ConnectionProofs` (assumption `ConnectionAssumption`) needs two arguments. That
the numbers of requests suffice (`TypeCorrect`) is a count: each re-login belongs
to a connection that was made (`Bounded`). For the rest, a request is in one
place only: with a thread that has not sent it, on its way to the server, or on
its way back (`InOnePlace`), and in each place `granted` is what that place says
(`Agreed`). `Waiters` and `OwnAnswers` follow, and so does `RemoteCalls`: each
step of a caller, the listener, the server or the network is a step of
`RemoteCall` or invisible to it, a lost connection answers all who wait on it in
one step.

`ClientNodeProofs` (assumptions `NodeAssumption` and `NoneAssumption`; the second
says that None is no route, stamp, version or message, as in Python): every
commit is accounted for as still to come, lost or applied (`Accounted`), and one
that was applied to a copy without marking it bears that copy's stamp
(`AppliedMarked`). `StaleOnlyIfExcused` is their conjunction read for the copy
that is shown.

`FramingProofs` (assumption `FramingAssumption`: sizes at least 1, the delimiter
is not a piece of a message): what is in the buffer, on the wire and in the hands
of the thread inside the send lock is the encoding of some whole messages one
after the other, and without that thread's part it is a beginning of it
(`Framed`). From the place of each piece (`CarriesAt`) the delimiters are the
multiples of the encoded length (`DelimitersAre`), the complete lines are the
messages (`LinesAre`), and the first line decodes to the first message
(`FirstLine`). So what `read_message` returns is always a message
(`TypeCorrect`), and in `Refinement` a portion handed to TCP completes at most
one message, which is the abstract send.

Each invariant was checked by TLC on a small instance before its proof.

What stays with TLC. The liveness properties: `ReadersCannotStarveWriter`,
`RequestsEnd`, `VanishedClientFreed`, `BroadcastReachesAll`,
`SilentLinkReplaced`, `SessionRestored`, `NewsReachesCopy` and
`EverySendArrives` rest on fairness, and so on ENABLED, which TLAPS does not
reason about. The four counterexamples below the table are TLC's by their nature.
The theorems are about the models with their bounds as constants (`MaxWrites`,
`MaxCalls`, `MaxLinks` and so on), so they hold for every value of these, not
for behaviours without any bound.

## 5. What is not modelled, and the plan

Not modelled on purpose: the credentials (constant after start-up), the JSON
encoding, the HTML dashboard, the console log, and the argument parsing of the
three programs. The terminal client keeps no state of its own: it calls `login`,
`read`, `write`, `logout` and `close` one after the other, and these calls are
among those of `Connection`'s callers.

Four hazards have no property. The code promises nothing about `close()` while the
listener dials (`connection.py`, `_connect_once`), nor about an answer to a read
that is applied after a logout (`client_node.py`, `api_read`): the node keeps the
copy, and the page shows it although nobody is logged in. Where a logout ends the
listener, and where a re-login is refused for good, the code does go wrong; the
liveness properties of the connection name both as exceptions (`Reconnects`,
`refused`).

Plan, in order:

1. Theorems about the abstract modules alone, which the refinements carry over
   to the code: in `AbstractRWLock` that a writer is alone and that a queued
   writer is not passed; in `VersionedFile` that between two restarts a stamp
   stands for one text; in `RemoteCall` that an outcome once told never changes.
2. Sharing the lemmas about sequences that several proof modules state for
   themselves.
