---------------------------- MODULE ServerProofs ----------------------------
(***************************************************************************)
(* Theorems about Server, for any number of connections, engineers, slots  *)
(* and writes.                                                             *)
(*                                                                         *)
(* Types are preserved because a handler that acts for an engineer has one *)
(* (Acting).  That slots are counted and nothing outlives its connection   *)
(* is inductive once the handler's place in the code is tied to its own    *)
(* fields (Fields), and a handler that has removed its user's subscription *)
(* is not the one subscribed for that user (Unsubscribed). *)
(***************************************************************************)
EXTENDS Server, FiniteSetTheorems, TLAPS

(* Where a handler has no session, and where it acts for an engineer. *)
NoSession  == {"new", "closed", "slot"}
HasSession == {"register", "subscribe", "greet", "welcome",
               "commit", "ack", "publish", "deliver", "unsubscribe", "unregister"}

Acting ==
    \A h \in Handlers :
        /\ pc[h] \in {"check", "admit"} => asked[h] # None
        /\ pc[h] \in HasSession => user_id[h] # None

Fields ==
    \A h \in Handlers :
        /\ pc[h] \in NoSession => user_id[h] = None
        /\ holds_session[h] => user_id[h] # None \/ pc[h] = "slot"

Unsubscribed ==
    \A h \in Handlers :
        pc[h] = "unregister" => subscribers[user_id[h]] # h

TInv == TypeOK /\ Acting

(* The connections that hold a slot: never more than slots taken. *)
Holders == {h \in Handlers : holds_session[h]}

SlotsCounted == sessions + Cardinality(Holders) + forgotten = MaxSessions

SlotBound == sessions + Cardinality(Holders) <= MaxSessions

(* Who holds what, apart from the count of the slots. *)
Owners == Fields /\ Unsubscribed /\ NothingLeaked

IInv == TInv /\ Owners /\ SlotsCounted

-----------------------------------------------------------------------------
(* Facts about the parts of an action. *)

(* The copy publish takes of the registry is a finite list of subscriptions. *)
LEMMA RegistryFinite ==
    ASSUME BrokerTypeOK
    PROVE  Registry \subseteq Subscriptions /\ Cardinality(Registry) \in Nat
<1> DEFINE taken == {v \in Users : subscribers[v] # None}
           f == [u \in taken |-> [user |-> u, to |-> subscribers[u]]]
<1>1. IsFiniteSet(taken)
  <2>1. taken \in SUBSET Users
    OBVIOUS
  <2>2. QED
    BY <2>1, BrokerAssumption, FS_Subset
<1>2. f \in Surjection(taken, Registry)
  BY DEF Surjection, Registry
<1>3. IsFiniteSet(Registry)
  BY <1>1, <1>2, FS_Surjection DEF ExistsSurjection
<1>4. Registry \subseteq Subscriptions
  BY DEF Registry, Subscriptions, BrokerTypeOK
<1>5. QED
  BY <1>3, <1>4, FS_CardinalityType

LEMMA SnapshotsType ==
    ASSUME BrokerTypeOK
    PROVE  Snapshots \subseteq Seq(Subscriptions)
<1>1. SUFFICES ASSUME NEW q \in [1 .. Cardinality(Registry) -> Registry]
               PROVE  q \in Seq(Subscriptions)
  BY DEF Snapshots
<1>2. q \in [1 .. Cardinality(Registry) -> Subscriptions]
  BY <1>1, RegistryFinite
<1>3. QED
  BY <1>2, RegistryFinite

LEMMA TargetType ==
    ASSUME BrokerTypeOK, NEW p \in Handlers, targets[p] # <<>>
    PROVE  /\ Target(p).user \in Users
           /\ Target(p).to \in Handlers
           /\ Tail(targets[p]) \in Seq(Subscriptions)
<1>1. targets[p] \in Seq(Subscriptions)
  BY DEF BrokerTypeOK
<1>2. Target(p) \in Subscriptions /\ Tail(targets[p]) \in Seq(Subscriptions)
  BY <1>1 DEF Target
<1>3. QED
  BY <1>2 DEF Subscriptions

(* A reply leads to the next place or into the release of the session.     *)
LEMMA ReleaseStarts ==
    ASSUME TInv, NEW h \in Handlers, NEW close \in BOOLEAN,
           StartRelease(h, close)
    PROVE  /\ closing' \in [Handlers -> BOOLEAN]
           /\ pc' = [pc EXCEPT ![h] = FirstRelease(h)]
BY DEF TInv, TypeOK, StartRelease, Goto

LEMMA ReplyLeads ==
    ASSUME TInv, NEW h \in Handlers, NEW next, Respond(h, next)
    PROVE  /\ closing' \in [Handlers -> BOOLEAN]
           /\ \/ pc' = [pc EXCEPT ![h] = next]
              \/ pc' = [pc EXCEPT ![h] = FirstRelease(h)]
BY ReleaseStarts DEF TInv, TypeOK, Respond, Goto

-----------------------------------------------------------------------------
(* Counting slots. *)

LEMMA HoldersFinite ==
    /\ IsFiniteSet(Holders) /\ Cardinality(Holders) \in Nat
    /\ IsFiniteSet(Holders') /\ Cardinality(Holders') \in Nat
<1>1. Holders \in SUBSET Handlers /\ Holders' \in SUBSET Handlers
  BY DEF Holders
<1>2. IsFiniteSet(Holders) /\ IsFiniteSet(Holders')
  BY <1>1, ServerAssumption, FS_Subset
<1>3. QED
  BY <1>2, FS_CardinalityType

LEMMA InitSlots == Init => SlotsCounted
<1>1. Init => Holders = {} /\ sessions = MaxSessions /\ forgotten = 0
  BY DEF Init, Holders
<1>2. QED
  BY <1>1, FS_EmptySet, ServerAssumption DEF SlotsCounted

LEMMA AdmitCounts ==
    ASSUME TInv, NEW h \in Handlers, Admit(h)
    PROVE  /\ sessions > 0 /\ sessions' = sessions - 1
           /\ Cardinality(Holders') = IF holds_session[h]
                                      THEN Cardinality(Holders)
                                      ELSE Cardinality(Holders) + 1
           /\ forgotten' = IF holds_session[h] THEN forgotten + 1 ELSE forgotten
<1>1. Holders' = Holders \cup {h} /\ (h \in Holders <=> holds_session[h])
  BY DEF Admit, Holders, TInv, TypeOK
<1>2. QED
  BY <1>1, HoldersFinite, FS_AddElement DEF Admit, HasSlot

LEMMA ReturnCounts ==
    ASSUME TInv, NEW h \in Handlers, ReturnSlot(h)
    PROVE  /\ sessions' = IF holds_session[h] THEN sessions + 1 ELSE sessions
           /\ Cardinality(Holders') = IF holds_session[h]
                                      THEN Cardinality(Holders) - 1
                                      ELSE Cardinality(Holders)
           /\ forgotten' = forgotten
<1>1. Holders' = Holders \ {h} /\ (h \in Holders <=> holds_session[h])
  BY DEF ReturnSlot, Holders, TInv, TypeOK
<1>2. QED
  BY <1>1, HoldersFinite, FS_RemoveElement DEF ReturnSlot, Returned, historyVars

(* Every other step leaves the slots and their holders alone. *)
LEMMA SlotsUntouched ==
    ASSUME NEW h \in Handlers, Serve(h) \/ ClientStep(h),
           ~Admit(h), ~ReturnSlot(h)
    PROVE  UNCHANGED <<sessions, holds_session, forgotten>>
<1> USE DEF tableVars, handlerVars, historyVars
<1>1. CASE ClientStep(h)
  BY <1>1 DEF ClientStep, Accept, RecvLogin, RecvWrite, RecvLogout, RecvOther,
       SocketChanges
<1>2. CASE LoginStep(h)
  BY <1>2 DEF LoginStep, CheckActive, AtCapacity, RegisterSession,
       SubscribeSession, ReadVersion, Welcome
<1>3. CASE WriteStep(h)
  BY <1>3 DEF WriteStep, Commit, WriteFails, Acknowledge, Publish,
       DeliverNext, DropNext, Published
<1>4. CASE ReleaseStep(h) \/ RecvEnd(h)
  BY <1>4 DEF ReleaseStep, UnsubscribeSession, UnregisterSession, RecvEnd
<1>5. QED
  BY <1>1, <1>2, <1>3, <1>4 DEF Serve

-----------------------------------------------------------------------------
(* Type correctness. *)

LEMMA InitType == Init => TInv
BY ServerAssumption DEF Init, TInv, TypeOK, Acting, BrokerInit, BrokerTypeOK, HasSession

LEMMA ClientStepType ==
    ASSUME TInv, NEW h \in Handlers, ClientStep(h)
    PROVE  TInv'
<1> USE DEF TInv, TypeOK, BrokerTypeOK, Acting, HasSession,
         Goto, Login, Write, Release, tableVars, brokerVars, historyVars
<1>1. CASE Accept(h)
  BY <1>1 DEF Accept
<1>2. ASSUME NEW u \in Users, RecvLogin(h, u)
      PROVE  TInv'
  BY <1>2, BrokerAssumption DEF RecvLogin
<1>3. CASE RecvWrite(h)
  BY <1>3 DEF RecvWrite
<1>4. CASE RecvLogout(h)
  <2>1. /\ closing' \in [Handlers -> BOOLEAN]
        /\ pc' = [pc EXCEPT ![h] = FirstRelease(h)]
    BY <1>4, ReleaseStarts DEF RecvLogout
  <2>2. QED
    BY <1>4, <2>1 DEF RecvLogout, FirstRelease
<1>5. ASSUME NEW state \in Faults \cup {"open"}, SocketChanges(h, state)
      PROVE  TInv'
  BY <1>5 DEF SocketChanges
<1>6. CASE RecvOther(h)
  <2>1. /\ closing' \in [Handlers -> BOOLEAN]
        /\ \/ pc' = [pc EXCEPT ![h] = "recv"]
           \/ pc' = [pc EXCEPT ![h] = FirstRelease(h)]
    BY <1>6, ReplyLeads DEF RecvOther
  <2>2. QED
    BY <1>6, <2>1 DEF RecvOther, FirstRelease
<1>7. QED
  BY <1>1, <1>2, <1>3, <1>4, <1>5, <1>6 DEF ClientStep

LEMMA RecvEndType ==
    ASSUME TInv, NEW h \in Handlers, RecvEnd(h)
    PROVE  TInv'
<1>1. /\ closing' \in [Handlers -> BOOLEAN]
      /\ pc' = [pc EXCEPT ![h] = FirstRelease(h)]
  BY ReleaseStarts DEF RecvEnd
<1>2. QED
  BY <1>1 DEF RecvEnd, FirstRelease, TInv, TypeOK, BrokerTypeOK, Acting,
       HasSession, Login, Write, Release, tableVars, brokerVars, historyVars

LEMMA LoginStepType ==
    ASSUME TInv, NEW h \in Handlers, LoginStep(h)
    PROVE  TInv'
<1> USE DEF TInv, TypeOK, BrokerTypeOK, Acting, HasSession,
         Goto, Login, Write, Release, tableVars, brokerVars, historyVars
<1>1. CASE CheckActive(h)
  <2>1. CASE asked[h] \in active_users
    <3>1. /\ closing' \in [Handlers -> BOOLEAN]
          /\ \/ pc' = [pc EXCEPT ![h] = "recv"]
             \/ pc' = [pc EXCEPT ![h] = FirstRelease(h)]
          /\ asked' = [asked EXCEPT ![h] = None]
      BY <1>1, <2>1, ReplyLeads DEF CheckActive
    <3>2. QED
      BY <1>1, <3>1 DEF CheckActive, FirstRelease
  <2>2. CASE asked[h] \notin active_users
    BY <1>1, <2>2 DEF CheckActive
  <2>3. QED
    BY <2>1, <2>2
<1>2. CASE Admit(h)
  BY <1>2, ServerAssumption DEF Admit, HasSlot
<1>3. CASE AtCapacity(h)
  <2>1. /\ closing' \in [Handlers -> BOOLEAN]
        /\ \/ pc' = [pc EXCEPT ![h] = "recv"]
           \/ pc' = [pc EXCEPT ![h] = FirstRelease(h)]
    BY <1>3, ReplyLeads DEF AtCapacity
  <2>2. QED
    BY <1>3, <2>1 DEF AtCapacity, FirstRelease
<1>4. CASE RegisterSession(h)
  BY <1>4 DEF RegisterSession
<1>5. CASE SubscribeSession(h)
  BY <1>5 DEF SubscribeSession, Subscribe
<1>6. CASE ReadVersion(h)
  BY <1>6 DEF ReadVersion
<1>7. CASE Welcome(h)
  <2>1. /\ closing' \in [Handlers -> BOOLEAN]
        /\ \/ pc' = [pc EXCEPT ![h] = "recv"]
           \/ pc' = [pc EXCEPT ![h] = FirstRelease(h)]
    BY <1>7, ReplyLeads DEF Welcome
  <2>2. QED
    BY <1>7, <2>1 DEF Welcome, FirstRelease
<1>8. QED
  BY <1>1, <1>2, <1>3, <1>4, <1>5, <1>6, <1>7 DEF LoginStep

LEMMA WriteStepType ==
    ASSUME TInv, NEW h \in Handlers, WriteStep(h)
    PROVE  TInv'
<1> USE DEF TInv, TypeOK, BrokerTypeOK, Acting, HasSession,
         Goto, Login, Write, Release, handlerVars, tableVars, brokerVars, historyVars
<1>1. CASE Commit(h)
  BY <1>1, ServerAssumption DEF Commit
<1>2. CASE WriteFails(h)
  <2>1. /\ closing' \in [Handlers -> BOOLEAN]
        /\ \/ pc' = [pc EXCEPT ![h] = "recv"]
           \/ pc' = [pc EXCEPT ![h] = FirstRelease(h)]
    BY <1>2, ReplyLeads, ReleaseStarts DEF WriteFails
  <2>2. QED
    BY <1>2, <2>1 DEF WriteFails, FirstRelease
<1>3. CASE Acknowledge(h)
  <2>1. /\ closing' \in [Handlers -> BOOLEAN]
        /\ \/ pc' = [pc EXCEPT ![h] = AfterAck]
           \/ pc' = [pc EXCEPT ![h] = FirstRelease(h)]
    BY <1>3, ReplyLeads DEF Acknowledge
  <2>2. QED
    BY <1>3, <2>1 DEF Acknowledge, AfterAck, FirstRelease
<1>4. CASE Publish(h)
  <2>1. PICK q \in Snapshots : targets' = [targets EXCEPT ![h] = q]
    BY <1>4 DEF Publish, Snapshot
  <2>2. q \in Seq(Subscriptions)
    BY <2>1, SnapshotsType
  <2>3. stamp[h] \in Nat
    BY ServerAssumption
  <2>4. QED
    BY <1>4, <2>1, <2>2, <2>3 DEF Publish, Snapshot
<1>5. CASE DeliverNext(h)
  <2>1. Target(h).to \in Handlers /\ Tail(targets[h]) \in Seq(Subscriptions)
    BY <1>5, TargetType DEF DeliverNext
  <2>2. stamp[h] \in Nat
    BY ServerAssumption
  <2>3. received' \in [Handlers -> Seq(Nat)]
    BY <1>5, <2>1, <2>2 DEF DeliverNext, Deliver
  <2>4. targets' \in [Handlers -> Seq(Subscriptions)]
    BY <1>5, <2>1 DEF DeliverNext, Deliver, AfterDelivery
  <2>5. QED
    BY <1>5, <2>3, <2>4 DEF DeliverNext, Deliver
<1>6. CASE DropNext(h)
  <2>1. Target(h).user \in Users /\ Tail(targets[h]) \in Seq(Subscriptions)
    BY <1>6, TargetType DEF DropNext
  <2>2. QED
    BY <1>6, <2>1 DEF DropNext, Drop, AfterFailure, Without
<1>7. CASE Published(h)
  BY <1>7 DEF Published
<1>8. QED
  BY <1>1, <1>2, <1>3, <1>4, <1>5, <1>6, <1>7 DEF WriteStep

LEMMA ReleaseStepType ==
    ASSUME TInv, SlotBound, NEW h \in Handlers, ReleaseStep(h)
    PROVE  TInv'
<1> USE DEF TInv, TypeOK, BrokerTypeOK, Acting, HasSession,
         Goto, Login, Write, Release, tableVars, brokerVars, historyVars
<1>1. CASE UnsubscribeSession(h)
  BY <1>1 DEF UnsubscribeSession, Unsubscribe, Without
<1>2. CASE UnregisterSession(h)
  BY <1>2 DEF UnregisterSession, AfterUnregister
<1>3. CASE ReturnSlot(h)
  <2>1. sessions' \in 0 .. MaxSessions
    <3>1. /\ sessions' = IF holds_session[h] THEN sessions + 1 ELSE sessions
          /\ Cardinality(Holders') \in Nat
          /\ Cardinality(Holders') = IF holds_session[h]
                                     THEN Cardinality(Holders) - 1
                                     ELSE Cardinality(Holders)
      BY <1>3, ReturnCounts, HoldersFinite
    <3>2. QED
      BY <3>1, HoldersFinite, ServerAssumption DEF SlotBound
  <2>2. QED
    BY <1>3, <2>1 DEF ReturnSlot, AfterRelease, ForgetReceived
<1>4. QED
  BY <1>1, <1>2, <1>3 DEF ReleaseStep

LEMMA NextType ==
    TInv /\ SlotBound /\ [Next]_vars => TInv' /\ SlotBound'
<1> SUFFICES ASSUME TInv, SlotBound, [Next]_vars
             PROVE  TInv' /\ SlotBound'
  OBVIOUS
<1>1. CASE UNCHANGED vars
  BY <1>1 DEF vars, handlerVars, tableVars, brokerVars, historyVars, TInv, TypeOK,
       BrokerTypeOK, Acting, HasSession, SlotBound, Holders
<1>2. ASSUME NEW h \in Handlers, Serve(h) \/ ClientStep(h)
      PROVE  TInv' /\ SlotBound'
  <2>1. TInv'
    BY <1>2, ClientStepType, LoginStepType, WriteStepType, ReleaseStepType,
       RecvEndType DEF Serve
  <2>2. ASSUME Admit(h) PROVE SlotBound'
    BY <2>2, AdmitCounts, HoldersFinite, ServerAssumption DEF SlotBound, TInv, TypeOK
  <2>3. ASSUME ReturnSlot(h) PROVE SlotBound'
    BY <2>3, ReturnCounts, HoldersFinite, ServerAssumption DEF SlotBound, TInv, TypeOK
  <2>4. ASSUME ~Admit(h), ~ReturnSlot(h) PROVE SlotBound'
    <3>1. sessions' = sessions /\ holds_session' = holds_session
      BY <1>2, <2>4, SlotsUntouched
    <3>2. Holders' = Holders
      BY <3>1 DEF Holders
    <3>3. QED
      BY <3>1, <3>2 DEF SlotBound
  <2>5. QED
    BY <2>1, <2>2, <2>3, <2>4
<1>3. QED
  BY <1>1, <1>2 DEF Next

LEMMA InitBound == Init => SlotBound
<1>1. SUFFICES ASSUME Init PROVE SlotBound
  OBVIOUS
<1>2. sessions + Cardinality(Holders) + forgotten = MaxSessions
  BY <1>1, InitSlots DEF SlotsCounted, Holders
<1>3. sessions = MaxSessions /\ forgotten = 0
  BY <1>1 DEF Init
<1>4. QED
  BY <1>2, <1>3, HoldersFinite, ServerAssumption DEF SlotBound

(* No variable ever leaves its type; in particular the semaphore stays     *)
(* between 0 and MAX_SESSIONS. *)
THEOREM TypeCorrect == Spec => []TypeOK
<1>1. Init => TInv /\ SlotBound
  BY InitType, InitBound
<1>2. TInv /\ SlotBound => TypeOK
  BY DEF TInv
<1>3. QED
  BY <1>1, <1>2, NextType, PTL DEF Spec

-----------------------------------------------------------------------------
(* What sessions own.  Most steps only move the handler, and at most a     *)
(* subscription goes away. *)

LEMMA MoveKeepsOwners ==
    ASSUME TInv, Owners, NEW h \in Handlers, NEW place,
           pc[h] # "slot",
           place \notin {"new", "closed", "unregister"},
           place = "slot" => user_id[h] = None,
           pc' = [pc EXCEPT ![h] = place],
           UNCHANGED <<user_id, holds_session, active_users, abandoned>>,
           \A u \in Users : subscribers'[u] \in {subscribers[u], None}
    PROVE  Owners'
<1> USE BrokerAssumption DEF Owners, TInv, TypeOK, BrokerTypeOK
<1>1. \A k \in Handlers : pc'[k] = IF k = h THEN place ELSE pc[k]
  OBVIOUS
<1>2. \A k \in Handlers : Live(k) => Live(k)'
  BY <1>1 DEF Live
<1>3. Fields'
  BY <1>1 DEF Fields, NoSession
<1>4. Unsubscribed'
  <2>1. ASSUME NEW k \in Handlers, pc[k] = "unregister"
        PROVE  user_id[k] \in Users /\ subscribers'[user_id[k]] # k
    BY <2>1 DEF Unsubscribed, Acting, HasSession
  <2>2. QED
    BY <1>1, <2>1 DEF Unsubscribed
<1>5. NothingLeaked'
  BY <1>2 DEF NothingLeaked
<1>6. QED
  BY <1>3, <1>4, <1>5

LEMMA ReleaseKeepsOwners ==
    ASSUME TInv, Owners, NEW h \in Handlers, pc[h] # "slot",
           pc' = [pc EXCEPT ![h] = FirstRelease(h)],
           UNCHANGED <<user_id, holds_session, active_users, subscribers, abandoned>>
    PROVE  Owners'
<1>1. /\ FirstRelease(h) \in {"unsubscribe", "slot"}
      /\ FirstRelease(h) = "slot" => user_id[h] = None
  BY DEF FirstRelease
<1>2. \A u \in Users : subscribers'[u] \in {subscribers[u], None}
  OBVIOUS
<1>3. QED
  BY <1>1, <1>2, MoveKeepsOwners

LEMMA ReplyKeepsOwners ==
    ASSUME TInv, Owners, NEW h \in Handlers, pc[h] # "slot",
           NEW next \in {"recv", "publish"}, Respond(h, next),
           UNCHANGED <<user_id, holds_session, active_users, subscribers, abandoned>>
    PROVE  Owners'
<1>1. \A u \in Users : subscribers'[u] \in {subscribers[u], None}
  OBVIOUS
<1>2. CASE pc' = [pc EXCEPT ![h] = next]
  BY <1>1, <1>2, MoveKeepsOwners
<1>3. CASE pc' = [pc EXCEPT ![h] = FirstRelease(h)]
  BY <1>3, ReleaseKeepsOwners
<1>4. QED
  BY <1>2, <1>3, ReplyLeads

LEMMA InitOwners == Init => Owners
BY BrokerAssumption DEF Init, BrokerInit, Owners, Fields, Unsubscribed, NothingLeaked, NoSession

LEMMA ClientStepOwners ==
    ASSUME TInv, Owners, NEW h \in Handlers, ClientStep(h)
    PROVE  Owners'
<1> USE DEF tableVars, brokerVars, historyVars, Goto
<1>1. CASE Accept(h)
  BY <1>1, MoveKeepsOwners DEF Accept
<1>2. ASSUME NEW u \in Users, RecvLogin(h, u)
      PROVE  Owners'
  BY <1>2, MoveKeepsOwners DEF RecvLogin, Arrives
<1>3. CASE RecvWrite(h)
  BY <1>3, MoveKeepsOwners DEF RecvWrite, Arrives
<1>4. CASE RecvLogout(h)
  BY <1>4, ReleaseStarts, ReleaseKeepsOwners DEF RecvLogout, Arrives
<1>5. ASSUME NEW state \in Faults \cup {"open"}, SocketChanges(h, state)
      PROVE  Owners'
  BY <1>5 DEF SocketChanges, Owners, Fields, Unsubscribed, NothingLeaked, Live
<1>6. CASE RecvOther(h)
  BY <1>6, ReplyKeepsOwners DEF RecvOther, Arrives
<1>7. QED
  BY <1>1, <1>2, <1>3, <1>4, <1>5, <1>6 DEF ClientStep

LEMMA WriteStepOwners ==
    ASSUME TInv, Owners, NEW h \in Handlers, WriteStep(h)
    PROVE  Owners'
<1> USE DEF tableVars, brokerVars, historyVars, handlerVars, Goto
<1>1. CASE Commit(h)
  BY <1>1, MoveKeepsOwners DEF Commit
<1>2. CASE WriteFails(h)
  BY <1>2, ReplyKeepsOwners, ReleaseStarts, ReleaseKeepsOwners DEF WriteFails
<1>3. CASE Acknowledge(h)
  BY <1>3, ReplyKeepsOwners DEF Acknowledge, AfterAck
<1>4. CASE Publish(h)
  BY <1>4, MoveKeepsOwners DEF Publish, Snapshot
<1>5. CASE DeliverNext(h)
  BY <1>5 DEF DeliverNext, Deliver, Owners, Fields, Unsubscribed, NothingLeaked, Live
<1>6. CASE DropNext(h)
  <2>1. \A u \in Users : subscribers'[u] \in {subscribers[u], None}
    BY <1>6, TargetType DEF DropNext, Drop, Without, TInv, TypeOK, BrokerTypeOK
  <2>2. pc' = [pc EXCEPT ![h] = "deliver"] /\ pc[h] = "deliver"
    BY <1>6 DEF DropNext, TInv, TypeOK
  <2>3. QED
    BY <1>6, <2>1, <2>2, MoveKeepsOwners DEF DropNext
<1>7. CASE Published(h)
  BY <1>7, MoveKeepsOwners DEF Published
<1>8. QED
  BY <1>1, <1>2, <1>3, <1>4, <1>5, <1>6, <1>7 DEF WriteStep

LEMMA LoginStepOwners ==
    ASSUME TInv, Owners, NEW h \in Handlers, LoginStep(h)
    PROVE  Owners'
<1> USE DEF tableVars, brokerVars, historyVars, Goto
<1>1. CASE CheckActive(h)
  <2>1. CASE asked[h] \in active_users
    BY <1>1, <2>1, ReplyKeepsOwners DEF CheckActive
  <2>2. CASE asked[h] \notin active_users
    BY <1>1, <2>2, MoveKeepsOwners DEF CheckActive
  <2>3. QED
    BY <2>1, <2>2
<1>2. CASE Admit(h)
  <2>1. /\ pc[h] = "admit" /\ pc' = [pc EXCEPT ![h] = "register"]
        /\ user_id' = [user_id EXCEPT ![h] = asked[h]]
        /\ holds_session' = [holds_session EXCEPT ![h] = TRUE]
        /\ asked[h] \in Users
        /\ UNCHANGED <<active_users, subscribers>>
    BY <1>2 DEF Admit, TInv, TypeOK, Acting
  <2>2. /\ abandoned \subseteq abandoned'
        /\ user_id[h] # None => user_id[h] \in abandoned'
    BY <1>2 DEF Admit
  <2>3. Fields'
    BY <2>1, BrokerAssumption DEF Owners, Fields, NoSession, TInv, TypeOK
  <2>4. Unsubscribed'
    BY <2>1 DEF Owners, Unsubscribed, TInv, TypeOK
  <2>5. \A k \in Handlers : (Live(k) => Live(k)') /\ (k # h => user_id'[k] = user_id[k])
    BY <2>1 DEF Live, TInv, TypeOK
  <2>6. NothingLeaked'
    BY <2>1, <2>2, <2>5, BrokerAssumption
       DEF Owners, NothingLeaked, TInv, TypeOK, BrokerTypeOK
  <2>7. QED
    BY <2>3, <2>4, <2>6 DEF Owners
<1>3. CASE AtCapacity(h)
  BY <1>3, ReplyKeepsOwners DEF AtCapacity
<1>4. CASE RegisterSession(h)
  <2>1. /\ pc[h] = "register" /\ pc' = [pc EXCEPT ![h] = "subscribe"]
        /\ active_users' = active_users \cup {user_id[h]}
        /\ UNCHANGED <<user_id, holds_session, subscribers, abandoned>>
    BY <1>4 DEF RegisterSession
  <2>2. Fields' /\ Unsubscribed'
    BY <2>1 DEF Owners, Fields, Unsubscribed, NoSession, TInv, TypeOK
  <2>3. Live(h)' /\ \A k \in Handlers : Live(k) => Live(k)'
    BY <2>1 DEF Live, TInv, TypeOK
  <2>4. NothingLeaked'
    BY <2>1, <2>3 DEF Owners, NothingLeaked, TInv, TypeOK, BrokerTypeOK
  <2>5. QED
    BY <2>2, <2>4 DEF Owners
<1>5. CASE SubscribeSession(h)
  <2>1. /\ pc[h] = "subscribe" /\ pc' = [pc EXCEPT ![h] = "greet"]
        /\ subscribers' = [subscribers EXCEPT ![user_id[h]] = h]
        /\ UNCHANGED <<user_id, holds_session, active_users, abandoned>>
    BY <1>5 DEF SubscribeSession, Subscribe
  <2>2. Fields' /\ Unsubscribed'
    BY <2>1 DEF Owners, Fields, Unsubscribed, NoSession, TInv, TypeOK, BrokerTypeOK
  <2>3. Live(h)' /\ \A k \in Handlers : Live(k) => Live(k)'
    BY <2>1 DEF Live, TInv, TypeOK
  <2>4. NothingLeaked'
    BY <2>1, <2>3 DEF Owners, NothingLeaked, TInv, TypeOK, BrokerTypeOK
  <2>5. QED
    BY <2>2, <2>4 DEF Owners
<1>6. CASE ReadVersion(h)
  BY <1>6, MoveKeepsOwners DEF ReadVersion
<1>7. CASE Welcome(h)
  BY <1>7, ReplyKeepsOwners DEF Welcome
<1>8. QED
  BY <1>1, <1>2, <1>3, <1>4, <1>5, <1>6, <1>7 DEF LoginStep

LEMMA ReleaseStepOwners ==
    ASSUME TInv, Owners, NEW h \in Handlers, ReleaseStep(h)
    PROVE  Owners'
<1> USE DEF tableVars, brokerVars, historyVars, Goto
<1>1. CASE UnsubscribeSession(h)
  <2>1. /\ pc[h] = "unsubscribe" /\ pc' = [pc EXCEPT ![h] = "unregister"]
        /\ subscribers' = [subscribers EXCEPT ![user_id[h]] = None]
        /\ user_id[h] \in Users
        /\ UNCHANGED <<user_id, holds_session, active_users, abandoned>>
    BY <1>1 DEF UnsubscribeSession, Unsubscribe, Without, TInv, TypeOK, Acting, HasSession
  <2>2. Fields'
    BY <2>1 DEF Owners, Fields, NoSession, TInv, TypeOK
  <2>3. \A k \in Handlers : pc[k] = "unregister" => user_id[k] \in Users
    BY DEF TInv, TypeOK, Acting, HasSession
  <2>4. Unsubscribed'
    BY <2>1, <2>3, BrokerAssumption
       DEF Owners, Unsubscribed, TInv, TypeOK, BrokerTypeOK
  <2>5. \A k \in Handlers : Live(k) => Live(k)'
    BY <2>1 DEF Live, TInv, TypeOK
  <2>6. NothingLeaked'
    BY <2>1, <2>5 DEF Owners, NothingLeaked, TInv, TypeOK, BrokerTypeOK
  <2>7. QED
    BY <2>2, <2>4, <2>6 DEF Owners
<1>2. CASE UnregisterSession(h)
  <2>1. /\ pc[h] = "unregister" /\ pc' = [pc EXCEPT ![h] = "slot"]
        /\ active_users' = active_users \ {user_id[h]}
        /\ user_id' = [user_id EXCEPT ![h] = None]
        /\ UNCHANGED <<holds_session, subscribers, abandoned>>
    BY <1>2 DEF UnregisterSession, AfterUnregister
  <2>2. Fields' /\ Unsubscribed'
    BY <2>1 DEF Owners, Fields, Unsubscribed, NoSession, TInv, TypeOK
  <2>3. \A k \in Handlers : (Live(k) => Live(k)') /\ (k # h => user_id'[k] = user_id[k])
    BY <2>1 DEF Live, TInv, TypeOK
  <2>4. subscribers[user_id[h]] # h
    BY <2>1 DEF Owners, Unsubscribed
  <2>5. NothingLeaked'
    BY <2>1, <2>3, <2>4 DEF Owners, NothingLeaked, TInv, TypeOK, BrokerTypeOK
  <2>6. QED
    BY <2>2, <2>5 DEF Owners
<1>3. CASE ReturnSlot(h)
  <2>1. user_id[h] = None /\ pc[h] = "slot"
    BY <1>3 DEF ReturnSlot, Owners, Fields, NoSession
  <2>2. /\ pc' = [pc EXCEPT ![h] = AfterRelease(h)]
        /\ AfterRelease(h) \in {"closed", "recv"}
        /\ holds_session' = [holds_session EXCEPT ![h] = FALSE]
        /\ UNCHANGED <<user_id, active_users, subscribers, abandoned>>
    BY <1>3 DEF ReturnSlot, AfterRelease, ForgetReceived
  <2>3. Fields' /\ Unsubscribed'
    BY <2>1, <2>2 DEF Owners, Fields, Unsubscribed, NoSession, TInv, TypeOK
  <2>4. \A k \in Handlers \ {h} : Live(k) => Live(k)'
    BY <2>2 DEF Live, TInv, TypeOK
  <2>5. NothingLeaked'
    BY <2>1, <2>2, <2>4, BrokerAssumption
       DEF Owners, NothingLeaked, TInv, TypeOK, BrokerTypeOK
  <2>6. QED
    BY <2>3, <2>5 DEF Owners
<1>4. QED
  BY <1>1, <1>2, <1>3 DEF ReleaseStep

-----------------------------------------------------------------------------
(* The inductive invariant. *)

(* A handler that is admitted while it holds a slot forgets that one, so   *)
(* none is counted twice. *)
LEMMA StepSlots ==
    ASSUME TInv, SlotsCounted,
           NEW h \in Handlers, Serve(h) \/ ClientStep(h)
    PROVE  SlotsCounted'
<1>1. sessions + Cardinality(Holders) + forgotten = MaxSessions
  BY DEF SlotsCounted
<1>2. SUFFICES sessions' + Cardinality(Holders') + forgotten' = MaxSessions
  BY DEF SlotsCounted
<1>3. sessions \in Nat /\ forgotten \in Nat
  BY ServerAssumption DEF TInv, TypeOK
<1>4. ASSUME Admit(h)
      PROVE  sessions' + Cardinality(Holders') + forgotten' = MaxSessions
  BY <1>1, <1>3, <1>4, AdmitCounts, HoldersFinite, ServerAssumption
<1>5. ASSUME ReturnSlot(h)
      PROVE  sessions' + Cardinality(Holders') + forgotten' = MaxSessions
  BY <1>1, <1>3, <1>5, ReturnCounts, HoldersFinite, ServerAssumption
<1>6. ASSUME ~Admit(h), ~ReturnSlot(h)
      PROVE  sessions' + Cardinality(Holders') + forgotten' = MaxSessions
  <2>1. UNCHANGED <<sessions, holds_session, forgotten>>
    BY <1>6, SlotsUntouched
  <2>2. Holders' = Holders
    BY <2>1 DEF Holders
  <2>3. QED
    BY <1>1, <2>1, <2>2
<1>7. QED
  BY <1>4, <1>5, <1>6

LEMMA NextInvariant ==
    IInv /\ [Next]_vars => IInv'
<1> SUFFICES ASSUME TInv, Owners, SlotsCounted, [Next]_vars
             PROVE  TInv' /\ Owners' /\ SlotsCounted'
  BY DEF IInv
<1>1. CASE UNCHANGED vars
  BY <1>1 DEF vars, handlerVars, tableVars, brokerVars, historyVars, TInv, TypeOK,
       BrokerTypeOK, Acting, HasSession, Owners, Fields, NoSession, Unsubscribed,
       NothingLeaked, Live, SlotsCounted, Holders
<1>2. ASSUME NEW h \in Handlers, Serve(h) \/ ClientStep(h)
      PROVE  TInv' /\ Owners' /\ SlotsCounted'
  <2>1. SlotBound
    BY HoldersFinite, ServerAssumption DEF SlotsCounted, SlotBound, TInv, TypeOK
  <2>2. TInv'
    BY <1>2, <2>1, NextType DEF Next
  <2>3. ASSUME RecvEnd(h) PROVE Owners'
    BY <2>3, ReleaseStarts, ReleaseKeepsOwners
       DEF RecvEnd, tableVars, brokerVars, historyVars
  <2>4. Owners'
    BY <1>2, <2>3, ClientStepOwners, LoginStepOwners, WriteStepOwners,
       ReleaseStepOwners DEF Serve
  <2>5. QED
    BY <1>2, <2>2, <2>4, StepSlots
<1>3. QED
  BY <1>1, <1>2 DEF Next

LEMMA Invariant == Spec => []IInv
<1>1. Init => IInv
  BY InitType, InitOwners, InitSlots DEF IInv
<1>2. QED
  BY <1>1, NextInvariant, PTL DEF Spec

(* Whatever mix of refusals, logouts, failed sends and dropped sockets came*)
(* before, the slots taken from the semaphore are exactly those of the     *)
(* connections that hold one and have not ended, and those whose holder    *)
(* took another one by logging in again (_handle_login, _release_session,  *)
(* _cleanup). *)
THEOREM SlotsKept == Spec => []SlotsAccounted
<1>1. ASSUME IInv PROVE SlotsAccounted
  <2>1. Holders = {h \in Handlers : Live(h) /\ holds_session[h]}
    BY <1>1 DEF IInv, Owners, Fields, NoSession, Holders, Live
  <2>2. QED
    BY <1>1, <2>1 DEF IInv, SlotsCounted, SlotsAccounted
<1>2. QED
  BY <1>1, Invariant, PTL

(* No entry of the session table or the broker outlives its connection or  *)
(* belongs to another one, unless the connection has logged in as another  *)
(* user since (_cleanup). *)
THEOREM CrashedClientLeaksNothing == Spec => []NothingLeaked
<1>1. IInv => NothingLeaked
  BY DEF IInv, Owners
<1>2. QED
  BY <1>1, Invariant, PTL
=============================================================================
