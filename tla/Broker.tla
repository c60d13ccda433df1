------------------------------- MODULE Broker -------------------------------
(***************************************************************************)
(* pubsub.py: PubSubBroker, as the connection handlers of server.py use it.*)
(*                                                                         *)
(* The registry maps a user id to the callback of one connection, so a     *)
(* callback is named by its connection.  publish copies the registry under *)
(* the lock and then delivers outside it, one subscriber at a time, on the *)
(* publishing thread; a delivery that raises removes the subscriber's user *)
(* id.  A dict keeps its insertion order; here the snapshot has any order.  *)
(***************************************************************************)
EXTENDS Integers, Sequences, FiniteSets

CONSTANTS
    Users,      \* the engineers: subscriber ids
    Handlers,   \* the connections: deliver callbacks, and publishing threads
    None        \* Python's None

ASSUME BrokerAssumption ==
    /\ IsFiniteSet(Users)
    /\ None \notin Users \cup Handlers

VARIABLES
    subscribers,   \* _subscribers: user id -> connection
    targets,       \* what each publishing thread still has to deliver to
    announced,     \* events whose publication has begun (history)
    received       \* events handed to each connection's socket in its
                   \* current session (history)

brokerVars == <<subscribers, targets, announced, received>>

Subscriptions == [user : Users, to : Handlers]

BrokerTypeOK ==
    /\ subscribers \in [Users -> Handlers \cup {None}]
    /\ targets \in [Handlers -> Seq(Subscriptions)]
    /\ announced \subseteq Nat
    /\ received \in [Handlers -> Seq(Nat)]

BrokerInit ==
    /\ subscribers = [u \in Users |-> None]
    /\ targets = [h \in Handlers |-> <<>>]
    /\ announced = {}
    /\ received = [h \in Handlers |-> <<>>]

Subscribed(u, h) == subscribers[u] = h

Registry ==
    {[user |-> u, to |-> subscribers[u]] : u \in {v \in Users : subscribers[v] # None}}

(* _subscribers[subscriber_id] = deliver: an earlier entry is overwritten. *)
Subscribe(u, h) ==
    /\ subscribers' = [subscribers EXCEPT ![u] = h]
    /\ UNCHANGED <<targets, announced, received>>

(* _subscribers.pop(subscriber_id, None): by user id, whoever holds it.    *)
Without(u) == [subscribers EXCEPT ![u] = None]

Unsubscribe(u) ==
    /\ subscribers' = Without(u)
    /\ UNCHANGED <<targets, announced, received>>

(* The history starts anew when a session ends. *)
ForgetReceived(h) ==
    /\ received' = [received EXCEPT ![h] = <<>>]
    /\ UNCHANGED <<subscribers, targets, announced>>

(* list(_subscribers.items()) *)
Snapshots ==
    {q \in [1 .. Cardinality(Registry) -> Registry] :
        \A i, j \in DOMAIN q : q[i] = q[j] => i = j}

(* publish, first half: the snapshot. *)
Snapshot(p, event) ==
    /\ targets' \in {[targets EXCEPT ![p] = q] : q \in Snapshots}
    /\ announced' = announced \cup {event}
    /\ UNCHANGED <<subscribers, received>>

(* publish, second half: the first target's delivery returns, or raises.   *)
Target(p) == Head(targets[p])
StopLoop(p) == [targets EXCEPT ![p] = <<>>]
AfterDelivery(p) == [targets EXCEPT ![p] = Tail(@)]
AfterFailure(p) == [targets EXCEPT ![p] = Tail(@)]

Deliver(p, event) ==
    /\ targets' = AfterDelivery(p)
    /\ received' = [received EXCEPT ![Target(p).to] = Append(@, event)]
    /\ UNCHANGED <<subscribers, announced>>

Drop(p) ==
    /\ targets' = AfterFailure(p)
    /\ subscribers' = Without(Target(p).user)
    /\ UNCHANGED <<announced, received>>
=============================================================================
