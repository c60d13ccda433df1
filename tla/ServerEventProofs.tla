------------------------- MODULE ServerEventProofs -------------------------
(***************************************************************************)
(* Theorems about the events of Server, for any number of connections,     *)
(* engineers and writes.                                                   *)
(*                                                                         *)
(* A version belongs to the one handler that committed it, which publishes *)
(* it once (Publications), unless its own connection failed (Entrusted).   *)
(* Whoever is subscribed and greeted has each newer event, or is on the    *)
(* list of its publisher under its own user's entry (Told): an entry under *)
(* another user may be dropped.  With one user per connection nobody is    *)
(* listed twice, or has what he is still to get (Once).                    *)
(***************************************************************************)
EXTENDS ServerProofs

Publications ==
    /\ announced \subseteq 1 .. version
    /\ \A p \in Handlers : targets[p] # <<>> => pc[p] = "deliver"
    /\ \A p \in Handlers : pc[p] \in {"ack", "publish"} =>
          stamp[p] \notin announced /\ stamp[p] # 0
    /\ \A p \in Handlers : pc[p] = "deliver" => stamp[p] \in announced
    /\ \A p, q \in Handlers : stamp[p] = stamp[q] /\ stamp[p] # 0 => p = q
    /\ \A h \in Handlers : \A i \in DOMAIN received[h] : received[h][i] \in announced

WriterLost(h) ==
    closing[h] /\ pc[h] \in Release \cup {"closed"} /\ sock[h] \in {"reset", "closed"}

HasTask(h) == pc[h] \in {"ack", "publish"} \/ WriterLost(h)

Entrusted ==
    \A v \in 1 .. version : v \notin announced =>
        \E h \in Handlers : stamp[h] = v /\ HasTask(h)

Attends(u, h) == Subscribed(u, h) /\ user_id[h] = u /\ Greeted(h)

Has(h, v) == \E i \in DOMAIN received[h] : received[h][i] = v

Gets(p, u, h) == \E i \in DOMAIN targets[p] : targets[p][i] = [user |-> u, to |-> h]

Told ==
    \A h \in Handlers, u \in Users : Attends(u, h) =>
        \A v \in announced : v > greeting[h] =>
            Has(h, v) \/ \E p \in Handlers : stamp[p] = v /\ Gets(p, u, h)

Once ==
    /\ \A p \in Handlers : \A i, j \in DOMAIN targets[p] :
          targets[p][i].to = targets[p][j].to => i = j
    /\ \A p, h \in Handlers : Awaits(p, h) => ~Has(h, stamp[p])
    /\ \A h \in Handlers : \A i, j \in DOMAIN received[h] :
          received[h][i] = received[h][j] => i = j

Events ==
    /\ Publications
    /\ Entrusted
    /\ Told
    /\ abandoned = {} => Once

-----------------------------------------------------------------------------
LEMMA EventsInit == Init => Events
<1> SUFFICES ASSUME Init PROVE Events
  OBVIOUS
<1> USE ServerAssumption DEF Init, BrokerInit
<1>1. Publications
  BY DEF Publications
<1>2. Entrusted
  BY DEF Entrusted
<1>3. Told
  BY DEF Told
<1>4. Once
  BY DEF Once, Awaits
<1>5. QED
  BY <1>1, <1>2, <1>3, <1>4 DEF Events

(* The steps that leave versions, lists and events alone. *)
LEMMA PlainKeepsEvents ==
    ASSUME Events, UNCHANGED <<version, stamp, targets, announced, received>>,
           abandoned \subseteq abandoned',
           \A k \in Handlers : /\ pc'[k] = "deliver" <=> pc[k] = "deliver"
                               /\ pc'[k] \in {"ack", "publish"} => pc[k] \in {"ack", "publish"}
                               /\ HasTask(k) => HasTask(k)',
           \A k \in Handlers, u \in Users : Attends(u, k)' =>
               \/ Attends(u, k) /\ greeting'[k] = greeting[k]
               \/ \A v \in announced : ~(v > greeting'[k])
    PROVE  Events'
<1> USE DEF Events
<1>1. Publications'
  BY DEF Publications
<1>2. Entrusted'
  BY DEF Entrusted
<1>3. Told'
  <2>1. /\ \A k \in Handlers, v \in announced : Has(k, v) => Has(k, v)'
        /\ \A p, k \in Handlers, u \in Users : Gets(p, u, k) => Gets(p, u, k)'
    BY DEF Has, Gets
  <2>2. QED
    BY <2>1 DEF Told
<1>4. abandoned' = {} => Once'
  <2>1. \A k, p \in Handlers : (Awaits(p, k)' <=> Awaits(p, k))
    BY DEF Awaits
  <2>2. \A k, p \in Handlers : Has(k, stamp[p])' <=> Has(k, stamp[p])
    BY DEF Has
  <2>3. QED
    BY <2>1, <2>2 DEF Once, Has
<1>5. QED
  BY <1>1, <1>2, <1>3, <1>4

(* The first entry of a list is done with. *)
LEMMA NextTarget ==
    ASSUME NEW q \in Seq(Subscriptions), q # <<>>
    PROVE  /\ 1 \in DOMAIN q /\ Head(q) = q[1]
           /\ \A i \in DOMAIN Tail(q) :
                 i \in Nat /\ i + 1 \in DOMAIN q /\ i + 1 # 1 /\ Tail(q)[i] = q[i + 1]
           /\ \A i \in DOMAIN q : i # 1 => i - 1 \in DOMAIN Tail(q) /\ Tail(q)[i - 1] = q[i]
OBVIOUS

(* list(_subscribers.items()) has every subscription, once. *)
LEMMA SnapshotComplete ==
    ASSUME BrokerTypeOK, NEW q \in Snapshots
    PROVE  /\ q \in Seq(Subscriptions)
           /\ \A i \in DOMAIN q : q[i].user \in Users /\ q[i].to = subscribers[q[i].user]
                                  /\ q[i] = [user |-> q[i].user, to |-> q[i].to]
           /\ \A i, j \in DOMAIN q : q[i] = q[j] => i = j
           /\ \A u \in Users : subscribers[u] # None =>
                 \E i \in DOMAIN q : q[i] = [user |-> u, to |-> subscribers[u]]
<1> DEFINE n == Cardinality(Registry)
<1>1. q \in [1 .. n -> Registry] /\ \A i, j \in DOMAIN q : q[i] = q[j] => i = j
  BY DEF Snapshots
<1>2. q \in Injection(1 .. n, Registry)
  BY <1>1 DEF Injection, IsInjective
<1>3. Registry \subseteq Subscriptions /\ n \in Nat /\ IsFiniteSet(Registry)
  <2>1. IsFiniteSet(Registry)
    <3> DEFINE taken == {v \in Users : subscribers[v] # None}
               f == [u \in taken |-> [user |-> u, to |-> subscribers[u]]]
    <3>1. taken \in SUBSET Users /\ IsFiniteSet(taken)
      BY BrokerAssumption, FS_Subset
    <3>2. f \in Surjection(taken, Registry)
      BY DEF Surjection, Registry
    <3>3. QED
      BY <3>1, <3>2, FS_Surjection
  <2>2. QED
    BY <2>1, RegistryFinite
<1>4. q \in Surjection(1 .. n, Registry)
  <2>1. Cardinality(1 .. n) = n
    BY <1>3, FS_Interval
  <2>2. QED
    BY <1>3, <1>2, <2>1, FS_Injection
<1>5. \A i \in DOMAIN q : q[i].user \in Users /\ q[i].to = subscribers[q[i].user]
                          /\ q[i] = [user |-> q[i].user, to |-> q[i].to]
  BY <1>1 DEF Registry
<1>6. \A u \in Users : subscribers[u] # None =>
         \E i \in DOMAIN q : q[i] = [user |-> u, to |-> subscribers[u]]
  BY <1>1, <1>4 DEF Surjection, Registry
<1>7. q \in Seq(Subscriptions)
  BY SnapshotsType
<1>8. QED
  BY <1>1, <1>5, <1>6, <1>7

-----------------------------------------------------------------------------
(* The steps that do not publish. *)

PlainStep(h) ==
    \/ Accept(h) \/ RecvWrite(h) \/ RecvLogout(h) \/ RecvOther(h) \/ RecvEnd(h)
    \/ \E u \in Users : RecvLogin(h, u)
    \/ \E state \in Faults \cup {"open"} : SocketChanges(h, state)
    \/ LoginStep(h)
    \/ WriteFails(h) \/ Acknowledge(h)
    \/ UnsubscribeSession(h) \/ UnregisterSession(h)

(* Where such a step leads: on, or into the release of the session.        *)
LEMMA PlainMoves ==
    ASSUME TInv, NEW h \in Handlers, PlainStep(h)
    PROVE  /\ UNCHANGED <<version, stamp, targets, announced, received>>
           /\ abandoned \subseteq abandoned'
           /\ \A k \in Handlers \ {h} : /\ pc'[k] = pc[k] /\ closing'[k] = closing[k]
                                        /\ sock'[k] = sock[k]
                                        /\ user_id'[k] = user_id[k]
                                        /\ greeting'[k] = greeting[k]
<1> USE DEF tableVars, brokerVars, historyVars, Goto, Respond, StartRelease, TInv, TypeOK
<1>1. CASE \/ Accept(h) \/ RecvWrite(h) \/ RecvLogout(h) \/ RecvOther(h) \/ RecvEnd(h)
           \/ \E u \in Users : RecvLogin(h, u)
  BY <1>1 DEF Accept, RecvWrite, RecvLogout, RecvOther, RecvEnd, RecvLogin
<1>2. CASE \E state \in Faults \cup {"open"} : SocketChanges(h, state)
  BY <1>2 DEF SocketChanges
<1>3. CASE LoginStep(h)
  BY <1>3 DEF LoginStep, CheckActive, Admit, AtCapacity, RegisterSession, SubscribeSession,
              Subscribe, ReadVersion, Welcome
<1>4. CASE WriteFails(h) \/ Acknowledge(h)
  BY <1>4 DEF WriteFails, Acknowledge
<1>5. CASE UnsubscribeSession(h) \/ UnregisterSession(h)
  BY <1>5 DEF UnsubscribeSession, Unsubscribe, UnregisterSession
<1>6. QED
  BY <1>1, <1>2, <1>3, <1>4, <1>5 DEF PlainStep

LEMMA PlainStepEvents ==
    ASSUME TInv, Owners, Events, NEW h \in Handlers, PlainStep(h)
    PROVE  Events'
<1> USE DEF tableVars, brokerVars, historyVars, Goto, Respond, StartRelease, FirstRelease,
            MaySend, MayRaise, Arrives, TInv, TypeOK, Release
<1>1. /\ pc'[h] = "deliver" <=> pc[h] = "deliver"
      /\ pc'[h] \in {"ack", "publish"} => pc[h] \in {"ack", "publish"}
      /\ HasTask(h) => HasTask(h)'
  <2> USE DEF HasTask, WriterLost
  <2>1. CASE \/ Accept(h) \/ RecvWrite(h) \/ RecvLogout(h) \/ RecvOther(h) \/ RecvEnd(h)
             \/ \E u \in Users : RecvLogin(h, u)
    BY <2>1 DEF Accept, RecvWrite, RecvLogout, RecvOther, RecvEnd, RecvLogin
  <2>2. CASE \E state \in Faults \cup {"open"} : SocketChanges(h, state)
    BY <2>2 DEF SocketChanges
  <2>3. CASE LoginStep(h)
    BY <2>3 DEF LoginStep, CheckActive, Admit, AtCapacity, RegisterSession, SubscribeSession,
                Subscribe, ReadVersion, Welcome
  <2>4. CASE WriteFails(h) \/ Acknowledge(h)
    BY <2>4 DEF WriteFails, Acknowledge, AfterAck
  <2>5. CASE UnsubscribeSession(h) \/ UnregisterSession(h)
    BY <2>5 DEF UnsubscribeSession, Unsubscribe, UnregisterSession, AfterUnregister
  <2>6. QED
    BY <2>1, <2>2, <2>3, <2>4, <2>5 DEF PlainStep
<1>2. \A k \in Handlers, u \in Users : Attends(u, k)' =>
          \/ Attends(u, k) /\ greeting'[k] = greeting[k]
          \/ \A v \in announced : ~(v > greeting'[k])
  <2> USE DEF Attends, Subscribed, Greeted, BrokerTypeOK
  <2>1. CASE \/ Accept(h) \/ RecvWrite(h) \/ RecvLogout(h) \/ RecvOther(h) \/ RecvEnd(h)
             \/ \E u \in Users : RecvLogin(h, u)
    BY <2>1 DEF Accept, RecvWrite, RecvLogout, RecvOther, RecvEnd, RecvLogin
  <2>2. CASE \E state \in Faults \cup {"open"} : SocketChanges(h, state)
    BY <2>2 DEF SocketChanges
  <2>3. CASE ReadVersion(h)
    BY <2>3 DEF ReadVersion, Events, Publications
  <2>4. CASE SubscribeSession(h)
    BY <2>4 DEF SubscribeSession, Subscribe, Acting, HasSession
  <2>5. CASE Admit(h)
    BY <2>5 DEF Admit
  <2>6. CASE CheckActive(h) \/ AtCapacity(h) \/ RegisterSession(h) \/ Welcome(h)
    BY <2>6 DEF CheckActive, AtCapacity, RegisterSession, Welcome
  <2>7. CASE WriteFails(h) \/ Acknowledge(h)
    BY <2>7 DEF WriteFails, Acknowledge, AfterAck
  <2>8. CASE UnsubscribeSession(h)
    BY <2>8, BrokerAssumption DEF UnsubscribeSession, Unsubscribe, Without
  <2>9. CASE UnregisterSession(h)
    BY <2>9, BrokerAssumption DEF UnregisterSession
  <2>10. QED
    BY <2>1, <2>2, <2>3, <2>4, <2>5, <2>6, <2>7, <2>8, <2>9 DEF PlainStep, LoginStep
<1>3. \A k \in Handlers \ {h} : HasTask(k) => HasTask(k)'
  BY PlainMoves DEF HasTask, WriterLost
<1>4. QED
  BY <1>1, <1>2, <1>3, PlainMoves, PlainKeepsEvents

-----------------------------------------------------------------------------
(* The steps that publish. *)

LEMMA CommitEvents ==
    ASSUME TInv, Events, NEW h \in Handlers, Commit(h)
    PROVE  Events'
<1> USE DEF Events, TInv, TypeOK, BrokerTypeOK
<1>1. /\ pc[h] = "commit" /\ pc' = [pc EXCEPT ![h] = "ack"]
      /\ version \in Nat /\ version' = version + 1
      /\ stamp' = [stamp EXCEPT ![h] = version + 1]
      /\ UNCHANGED <<sock, closing, user_id, greeting, abandoned>>
      /\ UNCHANGED <<subscribers, targets, announced, received>>
  BY ServerAssumption DEF Commit, Goto, brokerVars, historyVars
<1>2. \A p \in Handlers : stamp[p] \in Nat /\ stamp[p] <= version
  BY <1>1
<1>3. \A v \in announced : v \in Nat /\ v <= version
  BY <1>1 DEF Publications
<1>4. targets[h] = <<>> /\ ~HasTask(h)
  BY <1>1 DEF Publications, HasTask, WriterLost, Release
<1>5. Publications'
  BY <1>1, <1>2, <1>3, <1>4 DEF Publications
<1>6. Entrusted'
  <2>1. \A k \in Handlers : HasTask(k) => k # h /\ HasTask(k)' /\ stamp'[k] = stamp[k]
    BY <1>1, <1>4 DEF HasTask, WriterLost
  <2>2. HasTask(h)' /\ stamp'[h] = version'
    BY <1>1 DEF HasTask
  <2>3. \A v \in 1 .. version' : v \in 1 .. version \/ v = version'
    BY <1>1
  <2>4. QED
    BY <1>1, <2>1, <2>2, <2>3 DEF Entrusted
<1>7. Told'
  <2>1. \A k \in Handlers, u \in Users : Attends(u, k)' => Attends(u, k)
    BY <1>1 DEF Attends, Subscribed, Greeted
  <2>2. \A k \in Handlers, v \in announced : Has(k, v) => Has(k, v)'
    BY <1>1 DEF Has
  <2>3. \A p, k \in Handlers, u \in Users :
           Gets(p, u, k) => p # h /\ Gets(p, u, k)' /\ stamp'[p] = stamp[p]
    BY <1>1, <1>4 DEF Gets
  <2>4. QED
    BY <1>1, <2>1, <2>2, <2>3 DEF Told
<1>8. abandoned' = {} => Once'
  <2>1. \A p, k \in Handlers :
           Awaits(p, k)' => Awaits(p, k) /\ stamp'[p] = stamp[p]
    <3>1. \A p, k \in Handlers : Awaits(p, k)' <=> Awaits(p, k)
      BY <1>1 DEF Awaits
    <3>2. \A k \in Handlers : ~Awaits(h, k)
      BY <1>4 DEF Awaits
    <3>3. \A p \in Handlers : p # h => stamp'[p] = stamp[p]
      BY <1>1
    <3>4. QED
      BY <3>1, <3>2, <3>3
  <2>2. \A p, k \in Handlers : Awaits(p, k)' /\ Has(k, stamp[p])' => Has(k, stamp[p])
    BY <1>1, <2>1 DEF Has
  <2>3. QED
    BY <1>1, <2>1, <2>2 DEF Once
<1>9. QED
  BY <1>5, <1>6, <1>7, <1>8

LEMMA PublishEvents ==
    ASSUME TInv, Owners, Events, NEW h \in Handlers, Publish(h)
    PROVE  Events'
<1> USE DEF Events, TInv, TypeOK, BrokerTypeOK
<1>1. PICK q \in Snapshots : targets' = [targets EXCEPT ![h] = q]
  BY DEF Publish, Snapshot
<1>2. /\ pc[h] = "publish" /\ pc' = [pc EXCEPT ![h] = "deliver"]
      /\ announced' = announced \cup {stamp[h]}
      /\ UNCHANGED <<sock, closing, user_id, greeting, stamp, version, abandoned>>
      /\ UNCHANGED <<subscribers, received>>
  BY DEF Publish, Snapshot, Goto, tableVars, historyVars
<1>3. stamp[h] \notin announced /\ stamp[h] \in 1 .. version
  BY <1>2 DEF Publications
<1>4. \A p \in Handlers : p # h =>
         /\ targets'[p] = targets[p] /\ pc'[p] = pc[p]
         /\ stamp[p] # stamp[h]
  <2>1. \A p \in Handlers : p # h => stamp[p] # stamp[h]
    BY <1>3 DEF Publications
  <2>2. QED
    BY <1>1, <1>2, <2>1
<1>5. targets'[h] = q
  BY <1>1
<1>6. Publications'
  BY <1>2, <1>3, <1>4 DEF Publications
<1>7. Entrusted'
  <2>1. \A k \in Handlers : HasTask(k) /\ stamp[k] # stamp[h] => HasTask(k)'
    BY <1>2, <1>4 DEF HasTask, WriterLost
  <2>2. QED
    BY <1>2, <2>1 DEF Entrusted
<1>8. Told'
  <2>1. \A k \in Handlers, u \in Users : Attends(u, k)' => Attends(u, k)
    BY <1>2 DEF Attends, Subscribed, Greeted
  <2>2. ASSUME NEW k \in Handlers, NEW u \in Users, Attends(u, k)
        PROVE  Gets(h, u, k)'
    <3>1. subscribers[u] = k /\ subscribers[u] # None
      BY <2>2, BrokerAssumption DEF Attends, Subscribed
    <3>2. PICK i \in DOMAIN q : q[i] = [user |-> u, to |-> subscribers[u]]
      BY <3>1, SnapshotComplete
    <3>3. QED
      BY <1>5, <3>1, <3>2 DEF Gets
  <2>3. \A k \in Handlers, v \in announced : Has(k, v) => Has(k, v)'
    BY <1>2 DEF Has
  <2>4. \A p, k \in Handlers, u \in Users : p # h /\ Gets(p, u, k) => Gets(p, u, k)'
    BY <1>4 DEF Gets
  <2>5. ASSUME NEW k \in Handlers, NEW u \in Users, Attends(u, k)',
               NEW v \in announced', v > greeting'[k]
        PROVE  Has(k, v)' \/ \E p \in Handlers : stamp'[p] = v /\ Gets(p, u, k)'
    <3>1. CASE v = stamp[h]
      BY <1>2, <2>1, <2>2, <2>5, <3>1
    <3>2. CASE v \in announced
      <4>1. Has(k, v) \/ \E p \in Handlers : stamp[p] = v /\ Gets(p, u, k)
        BY <1>2, <2>1, <2>5, <3>2 DEF Told
      <4>2. \A p \in Handlers : stamp[p] = v => p # h
        BY <1>3, <3>2
      <4>3. QED
        BY <1>2, <2>3, <2>4, <3>2, <4>1, <4>2
    <3>3. QED
      BY <1>2, <3>1, <3>2
  <2>6. QED
    BY <2>5 DEF Told
<1>9. abandoned' = {} => Once'
  <2> SUFFICES ASSUME abandoned = {} PROVE Once'
    BY <1>2
  <2>1. \A i, j \in DOMAIN q : q[i].to = q[j].to => i = j
    <3> SUFFICES ASSUME NEW i \in DOMAIN q, NEW j \in DOMAIN q, q[i].to = q[j].to
                 PROVE  i = j
      OBVIOUS
    <3>1. /\ q \in Seq(Subscriptions)
          /\ \A k \in DOMAIN q : q[k].user \in Users /\ q[k].to = subscribers[q[k].user]
                                 /\ q[k] = [user |-> q[k].user, to |-> q[k].to]
          /\ \A k, l \in DOMAIN q : q[k] = q[l] => k = l
      BY SnapshotComplete
    <3>2. q[i].to \in Handlers /\ q[j].to \in Handlers
      BY <3>1 DEF Subscriptions
    <3>3. user_id[q[i].to] = q[i].user /\ user_id[q[j].to] = q[j].user
      BY <3>1, <3>2, BrokerAssumption DEF Owners, NothingLeaked
    <3>4. QED
      BY <3>1, <3>3
  <2>2. \A p, k \in Handlers : Awaits(p, k)' => p = h \/ Awaits(p, k)
    BY <1>4 DEF Awaits
  <2>3. \A k \in Handlers : ~Has(k, stamp[h])
    BY <1>3 DEF Publications, Has
  <2>4. \A p, k \in Handlers : Has(k, stamp[p])' <=> Has(k, stamp[p])
    BY <1>2 DEF Has
  <2>5. \A p, k \in Handlers : Awaits(p, k)' => ~Has(k, stamp[p])'
    BY <2>2, <2>3, <2>4 DEF Once
  <2>6. \A p \in Handlers : \A i, j \in DOMAIN targets'[p] :
           targets'[p][i].to = targets'[p][j].to => i = j
    BY <1>4, <1>5, <2>1 DEF Once
  <2>7. QED
    BY <1>2, <2>5, <2>6 DEF Once
<1>10. QED
  BY <1>6, <1>7, <1>8, <1>9

LEMMA PublishedEvents ==
    ASSUME TInv, Events, NEW h \in Handlers, Published(h)
    PROVE  Events'
<1> USE DEF Events, TInv, TypeOK, BrokerTypeOK
<1>1. /\ pc[h] = "deliver" /\ pc' = [pc EXCEPT ![h] = "recv"] /\ targets[h] = <<>>
      /\ stamp' = [stamp EXCEPT ![h] = 0]
      /\ UNCHANGED <<sock, closing, user_id, greeting, version, abandoned>>
      /\ UNCHANGED <<subscribers, targets, announced, received>>
  BY DEF Published, Goto, tableVars, brokerVars, historyVars
<1>2. Publications'
  BY <1>1 DEF Publications
<1>3. Entrusted'
  <2>1. \A k \in Handlers : HasTask(k) => HasTask(k)' /\ stamp'[k] = stamp[k]
    BY <1>1 DEF HasTask, WriterLost, Release
  <2>2. QED
    BY <1>1, <2>1 DEF Entrusted
<1>4. Told'
  <2>1. \A k \in Handlers, u \in Users : Attends(u, k)' => Attends(u, k)
    BY <1>1 DEF Attends, Subscribed, Greeted
  <2>2. \A k \in Handlers, v \in announced : Has(k, v) => Has(k, v)'
    BY <1>1 DEF Has
  <2>3. \A p, k \in Handlers, u \in Users :
           Gets(p, u, k) => Gets(p, u, k)' /\ stamp'[p] = stamp[p]
    BY <1>1 DEF Gets
  <2>4. QED
    BY <1>1, <2>1, <2>2, <2>3 DEF Told
<1>5. abandoned' = {} => Once'
  <2>1. \A p, k \in Handlers :
           Awaits(p, k)' => Awaits(p, k) /\ stamp'[p] = stamp[p]
    BY <1>1 DEF Awaits
  <2>2. \A p, k \in Handlers : Awaits(p, k)' /\ Has(k, stamp[p])' => Has(k, stamp[p])
    BY <1>1, <2>1 DEF Has
  <2>3. QED
    BY <1>1, <2>1, <2>2 DEF Once
<1>6. QED
  BY <1>2, <1>3, <1>4, <1>5

LEMMA ReturnSlotEvents ==
    ASSUME TInv, Owners, Events, NEW h \in Handlers, ReturnSlot(h)
    PROVE  Events'
<1> USE DEF Events, TInv, TypeOK, BrokerTypeOK
<1>1. /\ pc[h] = "slot" /\ pc' = [pc EXCEPT ![h] = AfterRelease(h)]
      /\ AfterRelease(h) = IF closing[h] THEN "closed" ELSE "recv"
      /\ sock' = IF closing[h] THEN [sock EXCEPT ![h] = "closed"] ELSE sock
      /\ received' = [received EXCEPT ![h] = <<>>]
      /\ greeting' = [greeting EXCEPT ![h] = 0]
      /\ UNCHANGED <<closing, user_id, stamp, version, abandoned>>
      /\ UNCHANGED <<subscribers, targets, announced>>
  BY DEF ReturnSlot, AfterRelease, ForgetReceived, Goto, historyVars
<1>2. user_id[h] \notin Users
  BY <1>1, BrokerAssumption DEF Owners, Fields, NoSession
<1>3. Publications'
  BY <1>1 DEF Publications
<1>4. Entrusted'
  <2>1. \A k \in Handlers : HasTask(k) => HasTask(k)'
    BY <1>1 DEF HasTask, WriterLost
  <2>2. QED
    BY <1>1, <2>1 DEF Entrusted
<1>5. Told'
  <2>1. \A k \in Handlers, u \in Users :
           Attends(u, k)' => k # h /\ Attends(u, k) /\ greeting'[k] = greeting[k]
    BY <1>1, <1>2 DEF Attends, Subscribed, Greeted
  <2>2. \A k \in Handlers, v \in announced : k # h /\ Has(k, v) => Has(k, v)'
    BY <1>1 DEF Has
  <2>3. \A p, k \in Handlers, u \in Users : Gets(p, u, k) => Gets(p, u, k)'
    BY <1>1 DEF Gets
  <2>4. QED
    BY <1>1, <2>1, <2>2, <2>3 DEF Told
<1>6. abandoned' = {} => Once'
  <2>1. \A p, k \in Handlers : Awaits(p, k)' => Awaits(p, k)
    BY <1>1 DEF Awaits
  <2>2. \A k \in Handlers : received'[k] = <<>> \/ received'[k] = received[k]
    BY <1>1
  <2>3. \A p, k \in Handlers : Has(k, stamp[p])' => Has(k, stamp[p])
    BY <1>1, <2>2 DEF Has
  <2>4. QED
    BY <1>1, <2>1, <2>2, <2>3 DEF Once
<1>7. QED
  BY <1>3, <1>4, <1>5, <1>6

(* An event handed to a socket comes after those handed to it before. *)
LEMMA OneMore ==
    ASSUME NEW r \in Seq(Nat), NEW v \in Nat
    PROVE  /\ \A i \in DOMAIN r : i \in DOMAIN Append(r, v) /\ Append(r, v)[i] = r[i]
           /\ Len(r) + 1 \in DOMAIN Append(r, v) /\ Append(r, v)[Len(r) + 1] = v
           /\ \A i \in DOMAIN Append(r, v) :
                 i # Len(r) + 1 => i \in DOMAIN r /\ Append(r, v)[i] = r[i]
OBVIOUS

(* What the broadcast of h still has to do, after one target. *)
LEMMA NextOfList ==
    ASSUME TInv, NEW h \in Handlers, targets[h] # <<>>,
           targets' = [targets EXCEPT ![h] = Tail(@)]
    PROVE  /\ \A p \in Handlers : p # h => targets'[p] = targets[p]
           /\ \A i \in DOMAIN targets'[h] : i \in Nat /\ i + 1 \in DOMAIN targets[h]
                  /\ i + 1 # 1 /\ targets'[h][i] = targets[h][i + 1]
           /\ \A i \in DOMAIN targets[h] : i # 1 =>
                  i - 1 \in DOMAIN targets'[h] /\ targets'[h][i - 1] = targets[h][i]
           /\ 1 \in DOMAIN targets[h] /\ Target(h) = targets[h][1]
           /\ \A p, k \in Handlers : Awaits(p, k)' => Awaits(p, k)
           /\ \A p, k \in Handlers, u \in Users : Gets(p, u, k) =>
                  Gets(p, u, k)' \/ (p = h /\ Target(h) = [user |-> u, to |-> k])
<1>1. targets[h] \in Seq(Subscriptions) /\ targets'[h] = Tail(targets[h])
  BY DEF TInv, TypeOK, BrokerTypeOK
<1>2. \A p \in Handlers : p # h => targets'[p] = targets[p]
  BY DEF TInv, TypeOK, BrokerTypeOK
<1>3. /\ \A i \in DOMAIN targets'[h] : i \in Nat /\ i + 1 \in DOMAIN targets[h]
             /\ i + 1 # 1 /\ targets'[h][i] = targets[h][i + 1]
      /\ \A i \in DOMAIN targets[h] : i # 1 =>
             i - 1 \in DOMAIN targets'[h] /\ targets'[h][i - 1] = targets[h][i]
      /\ 1 \in DOMAIN targets[h] /\ Target(h) = targets[h][1]
  BY <1>1, NextTarget DEF Target
<1>4. \A p, k \in Handlers : Awaits(p, k)' => Awaits(p, k)
  BY <1>2, <1>3 DEF Awaits
<1>5. \A p, k \in Handlers, u \in Users : Gets(p, u, k) =>
         Gets(p, u, k)' \/ (p = h /\ Target(h) = [user |-> u, to |-> k])
  <2>1. ASSUME NEW k \in Handlers, NEW u \in Users, Gets(h, u, k)
        PROVE  Gets(h, u, k)' \/ Target(h) = [user |-> u, to |-> k]
    <3>1. PICK i \in DOMAIN targets[h] : targets[h][i] = [user |-> u, to |-> k]
      BY <2>1 DEF Gets
    <3>2. CASE i = 1
      BY <1>3, <3>1, <3>2
    <3>3. CASE i # 1
      <4>1. i - 1 \in DOMAIN targets'[h] /\ targets'[h][i - 1] = [user |-> u, to |-> k]
        BY <1>3, <3>1, <3>3
      <4>2. QED
        BY <4>1 DEF Gets
    <3>4. QED
      BY <3>2, <3>3
  <2>2. \A p, k \in Handlers, u \in Users : p # h /\ Gets(p, u, k) => Gets(p, u, k)'
    BY <1>2 DEF Gets
  <2>3. QED
    BY <2>1, <2>2
<1>6. QED
  BY <1>2, <1>3, <1>4, <1>5

LEMMA DropEvents ==
    ASSUME TInv, Events, NEW h \in Handlers, DropNext(h)
    PROVE  Events'
<1> USE DEF Events, TInv, TypeOK, BrokerTypeOK
<1>1. /\ pc[h] = "deliver" /\ targets[h] # <<>>
      /\ targets' = [targets EXCEPT ![h] = Tail(@)]
      /\ subscribers' = [subscribers EXCEPT ![Target(h).user] = None]
      /\ UNCHANGED <<pc, sock, closing, user_id, greeting, stamp, version, abandoned>>
      /\ UNCHANGED <<announced, received>>
  BY DEF DropNext, Drop, AfterFailure, Without, handlerVars, tableVars, historyVars
<1>2. Target(h).user \in Users
  BY <1>1, TargetType
<1>3. /\ \A p \in Handlers : p # h => targets'[p] = targets[p]
      /\ \A i \in DOMAIN targets'[h] : i \in Nat /\ i + 1 \in DOMAIN targets[h]
             /\ i + 1 # 1 /\ targets'[h][i] = targets[h][i + 1]
      /\ \A p, k \in Handlers : Awaits(p, k)' => Awaits(p, k)
      /\ \A p, k \in Handlers, u \in Users : Gets(p, u, k) =>
             Gets(p, u, k)' \/ (p = h /\ Target(h) = [user |-> u, to |-> k])
  BY <1>1, NextOfList
<1>4. Publications'
  BY <1>1, <1>3 DEF Publications
<1>5. Entrusted'
  BY <1>1 DEF Entrusted, HasTask, WriterLost
<1>6. Told'
  <2>1. \A k \in Handlers, u \in Users :
           Attends(u, k)' => Attends(u, k) /\ u # Target(h).user
    BY <1>1, <1>2, BrokerAssumption DEF Attends, Subscribed, Greeted
  <2>2. \A k \in Handlers, v \in announced : Has(k, v) => Has(k, v)'
    BY <1>1 DEF Has
  <2>3. \A p, k \in Handlers, u \in Users :
           u # Target(h).user /\ Gets(p, u, k) => Gets(p, u, k)'
    BY <1>3
  <2>4. QED
    BY <1>1, <2>1, <2>2, <2>3 DEF Told
<1>7. abandoned' = {} => Once'
  <2> SUFFICES ASSUME abandoned = {} PROVE Once'
    BY <1>1
  <2>1. \A p \in Handlers : \A i, j \in DOMAIN targets'[p] :
           targets'[p][i].to = targets'[p][j].to => i = j
    <3>1. \A i, j \in DOMAIN targets'[h] :
             targets'[h][i].to = targets'[h][j].to => i + 1 = j + 1
      BY <1>3 DEF Once
    <3>2. \A i, j \in DOMAIN targets'[h] : i + 1 = j + 1 => i = j
      BY <1>3
    <3>3. ASSUME NEW p \in Handlers, p # h
          PROVE  \A i, j \in DOMAIN targets'[p] :
                    targets'[p][i].to = targets'[p][j].to => i = j
      <4>1. targets'[p] = targets[p]
        BY <1>3, <3>3
      <4>2. QED
        BY <4>1 DEF Once
    <3>4. QED
      BY <3>1, <3>2, <3>3
  <2>2. \A p, k \in Handlers : Has(k, stamp[p])' <=> Has(k, stamp[p])
    BY <1>1 DEF Has
  <2>3. QED
    BY <1>1, <1>3, <2>1, <2>2 DEF Once
<1>8. QED
  BY <1>4, <1>5, <1>6, <1>7

LEMMA DeliverEvents ==
    ASSUME TInv, Events, NEW h \in Handlers, DeliverNext(h)
    PROVE  Events'
<1> USE DEF Events, TInv, TypeOK, BrokerTypeOK
<1>1. /\ pc[h] = "deliver" /\ targets[h] # <<>>
      /\ targets' = [targets EXCEPT ![h] = Tail(@)]
      /\ received' = [received EXCEPT ![Target(h).to] = Append(@, stamp[h])]
      /\ UNCHANGED <<pc, sock, closing, user_id, greeting, stamp, version, abandoned>>
      /\ UNCHANGED <<announced, subscribers>>
  BY DEF DeliverNext, Deliver, AfterDelivery, handlerVars, tableVars, historyVars
<1>2. PICK g \in Handlers : g = Target(h).to
  BY <1>1, TargetType
<1>3. stamp[h] \in announced /\ stamp[h] \in Nat /\ stamp[h] # 0
  BY <1>1 DEF Publications
<1>4. /\ \A p \in Handlers : p # h => targets'[p] = targets[p]
      /\ \A i \in DOMAIN targets'[h] : i \in Nat /\ i + 1 \in DOMAIN targets[h]
             /\ i + 1 # 1 /\ targets'[h][i] = targets[h][i + 1]
      /\ 1 \in DOMAIN targets[h] /\ g = targets[h][1].to
      /\ \A p, k \in Handlers : Awaits(p, k)' => Awaits(p, k)
      /\ \A p, k \in Handlers, u \in Users : Gets(p, u, k) =>
             Gets(p, u, k)' \/ (p = h /\ Target(h) = [user |-> u, to |-> k])
  BY <1>1, <1>2, NextOfList
<1>5. \A k \in Handlers : k # g => received'[k] = received[k]
  BY <1>1, <1>2
<1>6. /\ \A i \in DOMAIN received[g] :
            i \in DOMAIN received'[g] /\ received'[g][i] = received[g][i]
      /\ Len(received[g]) + 1 \in DOMAIN received'[g]
      /\ received'[g][Len(received[g]) + 1] = stamp[h]
      /\ \A i \in DOMAIN received'[g] : i # Len(received[g]) + 1 =>
            i \in DOMAIN received[g] /\ received'[g][i] = received[g][i]
  <2>1. received'[g] = Append(received[g], stamp[h]) /\ received[g] \in Seq(Nat)
    BY <1>1, <1>2
  <2>2. QED
    BY <1>3, <2>1, OneMore
<1>7. \A k \in Handlers, v \in announced :
         Has(k, v)' <=> Has(k, v) \/ (k = g /\ v = stamp[h])
  <2>1. \A v \in announced : Has(g, v)' <=> Has(g, v) \/ v = stamp[h]
    BY <1>6 DEF Has
  <2>2. \A k \in Handlers, v \in announced : k # g => (Has(k, v)' <=> Has(k, v))
    BY <1>5 DEF Has
  <2>3. QED
    BY <2>1, <2>2
<1>8. Publications'
  <2>1. \A k \in Handlers : \A i \in DOMAIN received'[k] : received'[k][i] \in announced
    BY <1>3, <1>5, <1>6 DEF Publications
  <2>2. \A p \in Handlers : targets'[p] # <<>> => pc'[p] = "deliver"
    BY <1>1, <1>4 DEF Publications
  <2>3. QED
    BY <1>1, <2>1, <2>2 DEF Publications
<1>9. Entrusted'
  BY <1>1 DEF Entrusted, HasTask, WriterLost
<1>10. Told'
  <2>1. \A k \in Handlers, u \in Users : Attends(u, k)' => Attends(u, k)
    BY <1>1 DEF Attends, Subscribed, Greeted
  <2>2. \A p, k \in Handlers, u \in Users : \A v \in announced :
           stamp[p] = v /\ Gets(p, u, k) => Gets(p, u, k)' \/ Has(k, v)'
    <3>1. \A k \in Handlers, u \in Users : Target(h) = [user |-> u, to |-> k] => k = g
      BY <1>2
    <3>2. \A k \in Handlers, v \in announced : k = g /\ v = stamp[h] => Has(k, v)'
      BY <1>7
    <3>3. QED
      BY <1>4, <3>1, <3>2
  <2>3. QED
    BY <1>1, <1>7, <2>1, <2>2 DEF Told
<1>11. abandoned' = {} => Once'
  <2> SUFFICES ASSUME abandoned = {} PROVE Once'
    BY <1>1
  <2>1. \A p \in Handlers : \A i, j \in DOMAIN targets'[p] :
           targets'[p][i].to = targets'[p][j].to => i = j
    <3>1. \A i, j \in DOMAIN targets'[h] :
             targets'[h][i].to = targets'[h][j].to => i + 1 = j + 1
      BY <1>4 DEF Once
    <3>2. \A i, j \in DOMAIN targets'[h] : i + 1 = j + 1 => i = j
      BY <1>4
    <3>3. ASSUME NEW p \in Handlers, p # h
          PROVE  \A i, j \in DOMAIN targets'[p] :
                    targets'[p][i].to = targets'[p][j].to => i = j
      <4>1. targets'[p] = targets[p]
        BY <1>4, <3>3
      <4>2. QED
        BY <4>1 DEF Once
    <3>4. QED
      BY <3>1, <3>2, <3>3
  <2>2. ~Awaits(h, g)'
    BY <1>4 DEF Awaits, Once
  <2>3. ASSUME NEW p \in Handlers, NEW k \in Handlers, Awaits(p, k)'
        PROVE  ~Has(k, stamp[p])'
    <3>1. Awaits(p, k) /\ ~Has(k, stamp[p])
      BY <1>4, <2>3 DEF Once
    <3>2. pc[p] = "deliver" /\ stamp[p] \in announced
      <4>1. targets[p] # <<>>
        BY <3>1 DEF Awaits
      <4>2. QED
        BY <4>1 DEF Publications
    <3>3. k # g \/ stamp[p] # stamp[h]
      BY <1>3, <2>2, <2>3 DEF Publications
    <3>4. QED
      BY <1>1, <1>7, <3>1, <3>2, <3>3
  <2>4. Awaits(h, g) /\ ~Has(g, stamp[h])
    BY <1>2, <1>4 DEF Awaits, Once
  <2>5. \A k \in Handlers : \A i, j \in DOMAIN received'[k] :
           received'[k][i] = received'[k][j] => i = j
    <3>1. ASSUME NEW i \in DOMAIN received'[g], NEW j \in DOMAIN received'[g],
                 received'[g][i] = received'[g][j]
          PROVE  i = j
      <4>1. \A k \in DOMAIN received[g] : received[g][k] # stamp[h]
        BY <2>4 DEF Has
      <4>2. CASE i = Len(received[g]) + 1 \/ j = Len(received[g]) + 1
        BY <1>6, <3>1, <4>1, <4>2
      <4>3. CASE i # Len(received[g]) + 1 /\ j # Len(received[g]) + 1
        BY <1>6, <3>1, <4>3 DEF Once
      <4>4. QED
        BY <4>2, <4>3
    <3>2. QED
      BY <1>5, <3>1 DEF Once
  <2>6. QED
    BY <2>1, <2>3, <2>5 DEF Once
<1>12. QED
  BY <1>8, <1>9, <1>10, <1>11

-----------------------------------------------------------------------------
LEMMA EventsStep ==
    IInv /\ Events /\ [Next]_vars => Events'
<1> SUFFICES ASSUME TInv, Owners, Events, [Next]_vars
             PROVE  Events'
  BY DEF IInv
<1>1. CASE UNCHANGED vars
  <2> USE <1>1 DEF vars, handlerVars, tableVars, brokerVars, historyVars
  <2>1. \A k \in Handlers : HasTask(k) => HasTask(k)'
    BY DEF HasTask, WriterLost
  <2>2. \A k \in Handlers, u \in Users : Attends(u, k)' => Attends(u, k)
    BY DEF Attends, Subscribed, Greeted
  <2>3. QED
    BY <2>1, <2>2, PlainKeepsEvents
<1>2. ASSUME NEW h \in Handlers, Serve(h) \/ ClientStep(h)
      PROVE  Events'
  <2>1. \/ PlainStep(h) \/ Commit(h) \/ Publish(h) \/ DeliverNext(h)
        \/ DropNext(h) \/ Published(h) \/ ReturnSlot(h)
    BY <1>2 DEF PlainStep, Serve, ClientStep, WriteStep, ReleaseStep
  <2>2. QED
    BY <2>1, PlainStepEvents, CommitEvents, PublishEvents, DeliverEvents,
       DropEvents, PublishedEvents, ReturnSlotEvents
<1>3. QED
  BY <1>1, <1>2 DEF Next

LEMMA EventsHold == Spec => [](IInv /\ Events)
<1>1. Init => IInv /\ Events
  BY InitType, InitOwners, InitSlots, EventsInit DEF IInv
<1>2. IInv /\ Events /\ [Next]_vars => (IInv /\ Events)'
  BY NextInvariant, EventsStep
<1>3. QED
  BY <1>1, <1>2, PTL DEF Spec

(* A committed version is published, or about to be by the thread that     *)
(* committed it, unless that thread's own connection failed before it got  *)
(* there (_handle_write: reply first, publish afterwards). *)
THEOREM CommittedIsPublished == Spec => []PublishedUnlessWriterLost
<1>1. IInv /\ Events => PublishedUnlessWriterLost
  BY DEF Events, Entrusted, HasTask, WriterLost, PublishedUnlessWriterLost, Write
<1>2. QED
  BY <1>1, EventsHold, PTL

(* A set with an element and no two of them has one. *)
LEMMA Count ==
    ASSUME NEW S, IsFiniteSet(S)
    PROVE  /\ Cardinality(S) \in Nat
           /\ S = {} => Cardinality(S) = 0
           /\ S # {} => Cardinality(S) >= 1
           /\ (S # {} /\ \A x, y \in S : x = y) => Cardinality(S) = 1
<1>1. Cardinality(S) \in Nat /\ (Cardinality(S) = 0 <=> S = {})
  BY FS_CardinalityType, FS_EmptySet
<1>2. (S # {} /\ \A x, y \in S : x = y) => \E x : S = {x}
  OBVIOUS
<1>3. QED
  BY <1>1, <1>2, FS_Singleton

LEMMA CountBoth ==
    ASSUME NEW S, NEW T, IsFiniteSet(S), IsFiniteSet(T), S # {} \/ T # {}
    PROVE  /\ Cardinality(S) + Cardinality(T) >= 1
           /\ (/\ S = {} \/ T = {}
               /\ \A x, y \in S : x = y
               /\ \A x, y \in T : x = y) => Cardinality(S) + Cardinality(T) = 1
<1>1. /\ Cardinality(S) \in Nat
      /\ S = {} => Cardinality(S) = 0
      /\ S # {} => Cardinality(S) >= 1
      /\ (S # {} /\ \A x, y \in S : x = y) => Cardinality(S) = 1
  BY Count
<1>2. /\ Cardinality(T) \in Nat
      /\ T = {} => Cardinality(T) = 0
      /\ T # {} => Cardinality(T) >= 1
      /\ (T # {} /\ \A x, y \in T : x = y) => Cardinality(T) = 1
  BY Count
<1>3. QED
  BY <1>1, <1>2

LEMMA CopiesCounted ==
    ASSUME TInv, Events, NEW h \in Handlers, NEW u \in Users, Attends(u, h),
           NEW v \in announced, v > greeting[h],
           NEW A, A = {i \in DOMAIN received[h] : received[h][i] = v},
           NEW B, B = {p \in Handlers : stamp[p] = v /\ Awaits(p, h)}
    PROVE  /\ Cardinality(A) + Cardinality(B) >= 1
           /\ abandoned = {} => Cardinality(A) + Cardinality(B) = 1
<1> USE DEF Events, TInv, TypeOK, BrokerTypeOK
<1>1. IsFiniteSet(A) /\ IsFiniteSet(B)
  <2>1. received[h] \in Seq(Nat)
    OBVIOUS
  <2>2. Len(received[h]) \in Nat /\ A \in SUBSET (1 .. Len(received[h]))
    BY <2>1
  <2>3. IsFiniteSet(1 .. Len(received[h]))
    BY <2>2, FS_Interval
  <2>4. IsFiniteSet(A)
    BY <2>2, <2>3, FS_Subset
  <2>5. B \in SUBSET Handlers
    OBVIOUS
  <2>6. QED
    BY <2>4, <2>5, ServerAssumption, FS_Subset
<1>2. v # 0
  BY DEF Publications
<1>3. \A p, q \in B : p = q
  BY <1>2 DEF Publications
<1>4. (A # {} <=> Has(h, v)) /\ (A # {} \/ B # {})
  <2>1. A # {} <=> Has(h, v)
    BY DEF Has
  <2>2. \A p \in Handlers : stamp[p] = v /\ Gets(p, u, h) => p \in B
    BY DEF Gets, Awaits
  <2>3. QED
    BY <2>1, <2>2 DEF Told
<1>5. Cardinality(A) + Cardinality(B) >= 1
  BY <1>1, <1>4, CountBoth
<1>6. ASSUME abandoned = {}
      PROVE  Cardinality(A) + Cardinality(B) = 1
  <2>1. \A i, j \in A : i = j
    BY <1>6 DEF Once
  <2>2. A = {} \/ B = {}
    BY <1>4, <1>6 DEF Once
  <2>3. QED
    BY <1>1, <1>3, <1>4, <2>1, <2>2, CountBoth
<1>7. QED
  BY <1>5, <1>6

(* The version told at login and the events that follow leave no gap: who  *)
(* is subscribed and greeted has each newer version that was published, or *)
(* is on the list of the thread that publishes it; and has it once, unless *)
(* a connection logged in for a second user (_handle_login, publish). *)
THEOREM NoGapAfterLogin == Spec => []SubscriberMissesNothing
<1>1. IInv /\ Events => SubscriberMissesNothing
  <2> SUFFICES ASSUME TInv, Events, NEW h \in Handlers, NEW u \in Users,
                      Subscribed(u, h) /\ user_id[h] = u /\ Greeted(h),
                      NEW v \in announced, v > greeting[h]
               PROVE  LET copies ==
                            Cardinality({i \in DOMAIN received[h] : received[h][i] = v})
                            + Cardinality({p \in Handlers : stamp[p] = v /\ Awaits(p, h)})
                      IN  copies >= 1 /\ (abandoned = {} => copies = 1)
    BY DEF IInv, SubscriberMissesNothing
  <2>1. Attends(u, h)
    BY DEF Attends
  <2>2. QED
    BY <2>1, CopiesCounted
<1>2. QED
  BY <1>1, EventsHold, PTL
=============================================================================
