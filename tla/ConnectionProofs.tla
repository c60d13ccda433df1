-------------------------- MODULE ConnectionProofs --------------------------
(***************************************************************************)
(* Theorems about Connection, for any number of callers, requests and TCP  *)
(* connections.                                                            *)
(*                                                                         *)
(* A request has a number of its own (Numbered) and is in one place only:  *)
(* with a thread that has not sent it, on its way to the server, or on its *)
(* way back (InOnePlace); what the place says agrees with what the server  *)
(* has done (Agreed).  That no waiter is forgotten needs none of this but  *)
(* the numbers; the refinement of RemoteCall needs all of it.              *)
(***************************************************************************)
EXTENDS Connection, TLAPS

(* Every number is used: at most one re-login per connection made, and no  *)
(* connection is made after the last, which never breaks. *)
ReloginDue == pc[Listener] = "relogin" \/ (pc[Listener] = "session" /\ running)

Bounded ==
    /\ next_id <= calls + sock
    /\ ReloginDue => next_id < calls + sock
    /\ pc[Listener] \in {"fail", "connect", "dial"} => sock < MaxLinks
    /\ \A l \in Links : net[l] = "closed" => ~running
    /\ net[MaxLinks] \notin {"silent", "down"}

Asks(t) == pc[t] \in {"send", "wait"}

Calling ==
    \A t \in Threads : Asks(t) =>
        rid[t] \in Ids /\ call[t] \in {"login", "logout", "use"}

TInv == TypeOK /\ Bounded /\ Calling

Numbered ==
    /\ \A t \in Threads : rid[t] < next_id
    /\ \A t \in Threads : rid[t] # 0 <=> Asks(t)
    /\ \A s, t \in Threads : rid[s] = rid[t] /\ rid[s] # 0 => s = t
    /\ \A t \in Threads : ~Asks(t) => response[t] = None
    /\ \A id \in pending : id < next_id

Sends(id) == \E l \in Links : \E i \in DOMAIN outbox[l] : outbox[l][i].id = id
Comes(id) == \E l \in Links : \E i \in DOMAIN inbox[l] : inbox[l][i].id = id

InOnePlace ==
    /\ \A k, l \in Links : \A i \in DOMAIN outbox[k], j \in DOMAIN outbox[l] :
          outbox[k][i].id = outbox[l][j].id => k = l /\ i = j
    /\ \A id \in Ids : Sends(id) \/ Comes(id) =>
          /\ id < next_id
          /\ \A t \in Threads : rid[t] = id => pc[t] = "wait"
    /\ \A id \in Ids : Sends(id) => ~Comes(id)

Agreed ==
    /\ \A id \in Ids : granted[id] <= 1
    /\ \A id \in Ids : id >= next_id \/ Sends(id) => granted[id] = 0
    /\ \A id \in Ids, t \in Threads : rid[t] = id /\ pc[t] = "send" => granted[id] = 0
    /\ \A l \in Links : \A i \in DOMAIN inbox[l] :
          granted[inbox[l][i].id] = IF inbox[l][i].status = "ok" THEN 1 ELSE 0
    /\ \A t \in Threads : response[t] \in {"ok", "error"} => pc[t] = "wait"
    /\ \A id \in Ids, t \in Threads : rid[t] = id /\ response[t] \in {"ok", "error"} =>
          ~Sends(id) /\ granted[id] = IF response[t] = "ok" THEN 1 ELSE 0

Tracked == Numbered /\ NoWaiterForgotten /\ InOnePlace /\ Agreed

IInv == TInv /\ Tracked

-----------------------------------------------------------------------------
(* Types and bounds. *)

LEMMA TInvInit == Init => TInv
<1> SUFFICES ASSUME Init PROVE TInv
  OBVIOUS
<1>1. TypeOK
  <2>1. /\ outbox \in [Links -> Seq(Requests)] /\ inbox \in [Links -> Seq(Responses)]
        /\ granted \in [Ids -> Nat] /\ net \in [Links -> {"unused", "up"}]
    BY DEF Init
  <2>2. /\ rid \in [Threads -> Ids \cup {0}] /\ call \in [Threads -> {None}]
        /\ response \in [Threads -> {None}] /\ pc \in [Threads -> {"read", "idle"}]
    BY DEF Init
  <2>3. 1 \in Links /\ 1 \in 1 .. MaxCalls + MaxLinks + 1 /\ 0 \in 0 .. MaxCalls
    BY ConnectionAssumption DEF Links
  <2>4. QED
    BY <2>1, <2>2, <2>3 DEF Init, TypeOK
<1>2. Bounded
  BY ConnectionAssumption DEF Init, Bounded, ReloginDue, Threads, Links
<1>3. QED
  BY <1>1, <1>2 DEF TInv, Init, Calling, Asks

(* What request changes. *)
RequestTypeOK ==
    /\ pc \in [Threads -> {"idle", "send", "wait", "read", "fail", "connect", "dial",
                           "session", "relogin", "ended", "dead"}]
    /\ call \in [Threads -> {"login", "logout", "use", None}]
    /\ rid \in [Threads -> Ids \cup {0}]
    /\ response \in [Threads -> {"ok", "error", "lost", None}]
    /\ Calling

LEMMA RegisterType ==
    ASSUME TInv, NEW t \in Threads, NEW action \in {"login", "logout", "use"},
           Register(t, action), next_id \in Ids
    PROVE  /\ RequestTypeOK'
           /\ pending' \subseteq Ids
           /\ next_id' = next_id + 1 /\ next_id' \in 1 .. MaxCalls + MaxLinks + 1
BY ConnectionAssumption DEF TInv, TypeOK, RequestTypeOK, Calling, Asks, Register, Goto, Ids

LEMMA FinishType ==
    ASSUME TInv, NEW t \in Threads, Finish(t)
    PROVE  /\ RequestTypeOK'
           /\ credentials' \in BOOLEAN
           /\ pc'[Listener] = pc[Listener] \/ pc'[Listener] = "read"
BY ConnectionAssumption
   DEF TInv, TypeOK, RequestTypeOK, Calling, Asks, Finish, AfterRequest, Goto, Threads

LEMMA AnswerType ==
    ASSUME TInv, NEW l \in Links, Answer(l)
    PROVE  /\ outbox' \in [Links -> Seq(Requests)]
           /\ inbox' \in [Links -> Seq(Responses)]
           /\ session' \subseteq Links
           /\ granted' \in [Ids -> Nat]
           /\ refused' \subseteq Links
<1> DEFINE m == Head(outbox[l])
           answer(ok) == [id |-> m.id, status |-> IF ok THEN "ok" ELSE "error"]
<1>1. m \in Requests /\ Tail(outbox[l]) \in Seq(Requests)
  BY DEF TInv, TypeOK, Answer
<1>2. PICK ok \in Replies(l, m.call) :
         /\ session' = CASE m.call = "login" /\ ok -> session \cup {l}
                         [] m.call = "logout" -> session \ {l}
                         [] OTHER -> session
         /\ refused' = CASE m.call = "login" /\ ok -> refused \ {l}
                         [] m.call = "login" /\ ~ok -> refused \cup {l}
                         [] OTHER -> refused
         /\ inbox' = [inbox EXCEPT ![l] = Append(@, answer(ok))]
         /\ granted' = IF ok THEN [granted EXCEPT ![m.id] = @ + 1] ELSE granted
  BY DEF Answer
<1>3. m.id \in Ids /\ m.call \in {"login", "logout", "use"}
  BY <1>1 DEF Requests
<1>4. answer(ok) \in Responses
  BY <1>3 DEF Responses
<1>5. inbox' \in [Links -> Seq(Responses)]
  <2>1. inbox \in [Links -> Seq(Responses)]
    BY DEF TInv, TypeOK
  <2>2. Append(inbox[l], answer(ok)) \in Seq(Responses)
    BY <1>4, <2>1
  <2>3. inbox' = [inbox EXCEPT ![l] = Append(inbox[l], answer(ok))]
    BY <1>2, <2>1
  <2> HIDE DEF answer
  <2>4. QED
    BY <2>1, <2>2, <2>3
<1>6. session' \subseteq Links /\ refused' \subseteq Links
  BY <1>2, <1>3 DEF TInv, TypeOK
<1>7. granted' \in [Ids -> Nat]
  <2>1. granted \in [Ids -> Nat] /\ granted[m.id] + 1 \in Nat
    BY <1>3 DEF TInv, TypeOK
  <2>2. granted' = [granted EXCEPT ![m.id] = granted[m.id] + 1] \/ granted' = granted
    BY <1>2, <1>3, <2>1
  <2> HIDE DEF m
  <2>3. QED
    BY <2>1, <2>2
<1>8. QED
  BY <1>1, <1>5, <1>6, <1>7 DEF Answer, TInv, TypeOK

LEMMA TInvStep == TInv /\ [Next]_vars => TInv'
<1> SUFFICES ASSUME TInv, [Next]_vars PROVE TInv'
  OBVIOUS
<1> USE ConnectionAssumption
        DEF TInv, TypeOK, Bounded, ReloginDue, Calling, Asks, Threads, Goto, Listening,
            threadVars, requestVars, nodeVars, netVars
<1>1. ASSUME NEW t \in Callers, NEW action \in Calls \ {"close"}, Call(t, action) PROVE TInv'
  <2>1. action \in {"login", "logout", "use"} /\ next_id \in Ids
    BY <1>1 DEF Call, Ids, Links
  <2>2. pc'[Listener] = pc[Listener]
    BY <1>1 DEF Call, Register
  <2>3. RequestTypeOK' /\ pending' \subseteq Ids /\ next_id' = next_id + 1
    BY <1>1, <2>1, RegisterType DEF Call
  <2>4. next_id' \in 1 .. MaxCalls + MaxLinks + 1 /\ calls' = calls + 1 /\ calls' <= MaxCalls
    BY <1>1, <2>1, <2>3 DEF Call, Ids
  <2>5. TypeOK' /\ Calling'
    BY <1>1, <2>3, <2>4 DEF Call, RequestTypeOK
  <2>6. Bounded'
    BY <1>1, <2>2, <2>3, <2>4 DEF Call, Links
  <2>7. QED
    BY <2>5, <2>6
<1>2. ASSUME NEW t \in Threads, SendWorks(t) PROVE TInv'
  <2>1. [id |-> rid[t], call |-> call[t]] \in Requests
    BY <1>2 DEF SendWorks, Requests
  <2>2. QED
    BY <1>2, <2>1 DEF SendWorks, Sent
<1>3. ASSUME NEW t \in Threads, SendRaises(t) PROVE TInv'
  <2>1. TypeOK' /\ Calling'
    BY <1>3, FinishType DEF SendRaises, RequestTypeOK
  <2>2. Bounded'
    BY <1>3, FinishType DEF SendRaises, RequestTypeOK
  <2>3. QED
    BY <2>1, <2>2
<1>4. ASSUME NEW t \in Threads, Answered(t) PROVE TInv'
  <2>1. TypeOK' /\ Calling'
    BY <1>4, FinishType DEF Answered, RequestTypeOK
  <2>2. Bounded'
    BY <1>4, FinishType DEF Answered, RequestTypeOK
  <2>3. QED
    BY <2>1, <2>2
<1>5. ASSUME NEW t \in Threads, TimesOut(t) PROVE TInv'
  <2>1. TypeOK' /\ Calling'
    BY <1>5, FinishType DEF TimesOut, RequestTypeOK
  <2>2. Bounded'
    BY <1>5, FinishType DEF TimesOut, RequestTypeOK
  <2>3. QED
    BY <2>1, <2>2
<1>6. ASSUME NEW t \in Callers, Close(t) PROVE TInv'
  <2>1. TypeOK' /\ Calling'
    BY <1>6 DEF Close
  <2>2. Bounded'
    BY <1>6 DEF Close
  <2>3. QED
    BY <2>1, <2>2
<1>7. CASE Receive
  <2>1. Head(inbox[sock]) \in Responses /\ Tail(inbox[sock]) \in Seq(Responses)
    BY <1>7 DEF Receive
  <2>2. TypeOK'
    BY <1>7, <2>1 DEF Receive, Responses
  <2>3. Bounded' /\ Calling'
    BY <1>7 DEF Receive
  <2>4. QED
    BY <2>2, <2>3
<1>8. CASE LinkEnds
  BY <1>8 DEF LinkEnds, Links
<1>9. CASE FailPending
  BY <1>9 DEF FailPending
<1>10. CASE TryConnect
  BY <1>10 DEF TryConnect
<1>11. CASE DialFails
  BY <1>11 DEF DialFails
<1>12. CASE DialWorks
  BY <1>12 DEF DialWorks, Links
<1>13. CASE CheckSession
  BY <1>13 DEF CheckSession, Restores
<1>14. CASE Relogin
  <2>1. next_id \in Ids
    BY <1>14 DEF Relogin, Ids, Links
  <2>2. RequestTypeOK' /\ pending' \subseteq Ids /\ next_id' = next_id + 1
    BY <1>14, <2>1, RegisterType DEF Relogin
  <2>3. next_id' \in 1 .. MaxCalls + MaxLinks + 1 /\ pc'[Listener] = "send"
    BY <1>14, <2>1, <2>2 DEF Relogin, Register, Ids
  <2>4. TypeOK' /\ Calling'
    BY <1>14, <2>2, <2>3 DEF Relogin, RequestTypeOK
  <2>5. Bounded'
    BY <1>14, <2>2, <2>3 DEF Relogin, Links
  <2>6. QED
    BY <2>4, <2>5
<1>15. CASE UnpackNone
  BY <1>15 DEF UnpackNone
<1>16. CASE Heartbeat
  BY <1>16 DEF Heartbeat
<1>17. ASSUME NEW l \in Links, Answer(l) PROVE TInv'
  BY <1>17, AnswerType DEF Answer
<1>18. ASSUME NEW l \in Links, NEW how \in {"silent", "down"}, Breaks(l, how) PROVE TInv'
  BY <1>18 DEF Breaks, Links
<1>19. ASSUME NEW l \in Links, ServerForgets(l) PROVE TInv'
  BY <1>19 DEF ServerForgets
<1>20. CASE UNCHANGED vars
  BY <1>20 DEF vars
<1>21. QED
  BY <1>1, <1>2, <1>3, <1>4, <1>5, <1>6, <1>7, <1>8, <1>9, <1>10, <1>11, <1>12, <1>13,
     <1>14, <1>15, <1>16, <1>17, <1>18, <1>19, <1>20
     DEF Next, RequestStep, CallerStep, ListenStep, NetStep

-----------------------------------------------------------------------------
(* What the steps do to the requests, and that each keeps track of them.   *)

LEMMA TrackedInit == Init => Tracked
<1> SUFFICES ASSUME Init PROVE Tracked
  OBVIOUS
<1> USE ConnectionAssumption DEF Init, Asks
<1>1. Numbered /\ NoWaiterForgotten
  BY DEF Numbered, NoWaiterForgotten
<1>2. \A id \in Ids : ~Sends(id) /\ ~Comes(id)
  BY DEF Sends, Comes
<1>3. InOnePlace
  BY <1>2 DEF InOnePlace
<1>4. Agreed
  BY <1>2 DEF Agreed
<1>5. QED
  BY <1>1, <1>3, <1>4 DEF Tracked

(* A queue that grows at its end, and one that loses its head. *)
LEMMA AppendPlaces ==
    ASSUME NEW S, NEW q \in Seq(S), NEW m \in S
    PROVE  /\ \A i \in DOMAIN q : i \in DOMAIN Append(q, m) /\ Append(q, m)[i] = q[i]
           /\ Len(q) + 1 \in DOMAIN Append(q, m) /\ Append(q, m)[Len(q) + 1] = m
           /\ \A i \in DOMAIN Append(q, m) : i \in DOMAIN q \/ i = Len(q) + 1
OBVIOUS

LEMMA TailPlaces ==
    ASSUME NEW S, NEW q \in Seq(S), q # <<>>
    PROVE  /\ 1 \in DOMAIN q /\ Head(q) = q[1]
           /\ \A i \in DOMAIN Tail(q) :
                 i \in Nat /\ i + 1 \in DOMAIN q /\ i + 1 # 1 /\ Tail(q)[i] = q[i + 1]
OBVIOUS

(* A request is begun. *)
LEMMA BeginTracks ==
    ASSUME TInv, Tracked, NEW t \in Threads, ~Asks(t), NEW action, Register(t, action),
           next_id \in Ids, UNCHANGED <<outbox, inbox, granted>>
    PROVE  Tracked'
<1> USE DEF TInv, TypeOK, Tracked, Asks
<1>1. /\ pc' = [pc EXCEPT ![t] = "send"]
      /\ rid' = [rid EXCEPT ![t] = next_id]
      /\ response' = [response EXCEPT ![t] = None]
      /\ pending' = pending \cup {next_id}
      /\ next_id' = next_id + 1
  BY DEF Register, Goto
<1>2. next_id \in Nat \ {0} /\ \A s \in Threads : rid[s] \in Nat
  BY DEF Ids
<1>3. Numbered'
  BY <1>1, <1>2 DEF Numbered, Ids
<1>4. NoWaiterForgotten'
  BY <1>1, <1>2 DEF Numbered, NoWaiterForgotten
<1>5. \A id \in Ids : (Sends(id)' <=> Sends(id)) /\ (Comes(id)' <=> Comes(id))
  BY DEF Sends, Comes
<1>6. InOnePlace'
  BY <1>1, <1>2, <1>5 DEF InOnePlace, Numbered, Ids
<1>7. Agreed'
  BY <1>1, <1>2, <1>5, ConnectionAssumption DEF Agreed, InOnePlace, Ids
<1>8. QED
  BY <1>3, <1>4, <1>6, <1>7

(* A request is sent, or lost on the way. *)
LEMMA SendTracks ==
    ASSUME TInv, Tracked, NEW t \in Threads, SendWorks(t)
    PROVE  Tracked'
<1> USE DEF TInv, TypeOK, Tracked, Asks
<1>1. /\ pc[t] = "send" /\ pc' = [pc EXCEPT ![t] = "wait"]
      /\ UNCHANGED <<rid, response, pending, next_id, inbox, granted>>
  BY DEF SendWorks, Goto, requestVars
<1>2. rid[t] \in Ids /\ ~Sends(rid[t]) /\ ~Comes(rid[t])
  BY <1>1 DEF Calling, InOnePlace
<1>3. Numbered' /\ NoWaiterForgotten'
  BY <1>1 DEF Numbered, NoWaiterForgotten
<1>4. \A id \in Ids : Comes(id)' <=> Comes(id)
  BY <1>1 DEF Comes
<1>5. CASE outbox' = outbox
  <2>1. \A id \in Ids : Sends(id)' <=> Sends(id)
    BY <1>5 DEF Sends
  <2>2. InOnePlace'
    BY <1>1, <1>4, <1>5, <2>1 DEF InOnePlace
  <2>3. Agreed'
    BY <1>1, <1>5, <2>1, ConnectionAssumption DEF Agreed
  <2>4. QED
    BY <1>3, <2>2, <2>3
<1>6. CASE outbox' = [outbox EXCEPT ![sock] = Append(@, [id |-> rid[t], call |-> call[t]])]
  <2> DEFINE m == [id |-> rid[t], call |-> call[t]]
             last == Len(outbox[sock]) + 1
  <2>1. /\ \A l \in Links : \A i \in DOMAIN outbox[l] :
              i \in DOMAIN outbox'[l] /\ outbox'[l][i] = outbox[l][i]
        /\ last \in DOMAIN outbox'[sock] /\ outbox'[sock][last].id = rid[t]
        /\ \A l \in Links : \A i \in DOMAIN outbox'[l] :
              i \in DOMAIN outbox[l] \/ (l = sock /\ i = last)
    <3>1. m \in Requests /\ m.id = rid[t]
      BY <1>1, <1>2 DEF Calling, Requests
    <3>2. outbox[sock] \in Seq(Requests) /\ outbox'[sock] = Append(outbox[sock], m)
      BY <1>6
    <3>3. \A l \in Links : l # sock => outbox'[l] = outbox[l]
      BY <1>6
    <3> HIDE DEF m
    <3> DEFINE q == outbox[sock]
    <3>4. /\ \A i \in DOMAIN q : i \in DOMAIN outbox'[sock] /\ outbox'[sock][i] = q[i]
          /\ last \in DOMAIN outbox'[sock] /\ outbox'[sock][last] = m
          /\ \A i \in DOMAIN outbox'[sock] : i \in DOMAIN q \/ i = last
      BY <3>1, <3>2, AppendPlaces
    <3> HIDE DEF last
    <3>5. ASSUME NEW l \in Links, NEW i \in DOMAIN outbox[l]
          PROVE  i \in DOMAIN outbox'[l] /\ outbox'[l][i] = outbox[l][i]
      BY <3>3, <3>4
    <3>6. ASSUME NEW l \in Links, NEW i \in DOMAIN outbox'[l]
          PROVE  i \in DOMAIN outbox[l] \/ (l = sock /\ i = last)
      <4>1. CASE l = sock
        BY <3>4, <4>1
      <4>2. CASE l # sock
        BY <3>3, <4>2
      <4>3. QED
        BY <4>1, <4>2
    <3>7. QED
      BY <3>1, <3>4, <3>5, <3>6
  <2> HIDE DEF m, last
  <2>2. \A id \in Ids : Sends(id)' <=> Sends(id) \/ id = rid[t]
    <3>1. ASSUME NEW id \in Ids, Sends(id) PROVE Sends(id)'
      <4>1. PICK l \in Links : \E i \in DOMAIN outbox[l] : outbox[l][i].id = id
        BY <3>1 DEF Sends
      <4>2. \A i \in DOMAIN outbox[l] : i \in DOMAIN outbox'[l] /\ outbox'[l][i] = outbox[l][i]
        BY <2>1
      <4>3. QED
        BY <4>1, <4>2 DEF Sends
    <3>2. Sends(rid[t])'
      <4>1. last \in DOMAIN outbox'[sock] /\ sock \in Links
        BY <2>1
      <4>2. rid'[t] = rid[t]
        BY <1>1
      <4>3. QED
        BY <2>1, <4>1, <4>2 DEF Sends
    <3>3. ASSUME NEW id \in Ids, Sends(id)' PROVE Sends(id) \/ id = rid[t]
      <4>1. PICK l \in Links : \E i \in DOMAIN outbox'[l] : outbox'[l][i].id = id
        BY <3>3 DEF Sends
      <4>2. PICK i \in DOMAIN outbox'[l] : outbox'[l][i].id = id
        BY <4>1
      <4>3. (i \in DOMAIN outbox[l] /\ outbox'[l][i] = outbox[l][i]) \/ (l = sock /\ i = last)
        BY <2>1, <4>2
      <4>4. QED
        BY <2>1, <4>2, <4>3 DEF Sends
    <3>4. QED
      BY <1>1, <1>2, <3>1, <3>2, <3>3
  <2>3. \A l \in Links : \A i \in DOMAIN outbox[l] : outbox[l][i].id # rid[t]
    BY <1>2 DEF Sends
  <2>4. \A k, l \in Links : \A i \in DOMAIN outbox'[k], j \in DOMAIN outbox'[l] :
           outbox'[k][i].id = outbox'[l][j].id => k = l /\ i = j
    <3> SUFFICES ASSUME NEW k \in Links, NEW l \in Links,
                        NEW i \in DOMAIN outbox'[k], NEW j \in DOMAIN outbox'[l],
                        outbox'[k][i].id = outbox'[l][j].id
                 PROVE  k = l /\ i = j
      OBVIOUS
    <3> DEFINE Old(n, h) == h \in DOMAIN outbox[n] /\ outbox'[n][h] = outbox[n][h]
               New(n, h) == n = sock /\ h = last /\ outbox'[n][h].id = rid[t]
    <3>1. (Old(k, i) \/ New(k, i)) /\ (Old(l, j) \/ New(l, j))
      BY <2>1
    <3>2. CASE Old(k, i) /\ Old(l, j)
      BY <3>2 DEF InOnePlace
    <3>3. CASE Old(k, i) /\ New(l, j)
      BY <2>3, <3>3
    <3>4. CASE New(k, i) /\ Old(l, j)
      BY <2>3, <3>4
    <3>5. CASE New(k, i) /\ New(l, j)
      BY <3>5
    <3>6. QED
      BY <3>1, <3>2, <3>3, <3>4, <3>5
  <2>5. InOnePlace'
    BY <1>1, <1>2, <1>4, <2>2, <2>4 DEF InOnePlace, Numbered
  <2>6. Agreed'
    BY <1>1, <1>2, <2>2, ConnectionAssumption DEF Agreed, Numbered
  <2>7. QED
    BY <1>3, <2>5, <2>6
<1>7. QED
  BY <1>5, <1>6 DEF SendWorks, Sent

(* A request returns, and is taken off the list if it is still there. *)
LEMMA FinishTracks ==
    ASSUME TInv, Tracked, NEW t \in Threads, Asks(t), Finish(t),
           pending' = pending \ {rid[t]},
           UNCHANGED <<next_id, outbox, inbox, granted>>
    PROVE  Tracked'
<1> USE DEF TInv, TypeOK, Tracked, Asks
<1> DEFINE place == IF t = Listener THEN "read" ELSE "idle"
<1>1. /\ pc' = [pc EXCEPT ![t] = place]
      /\ rid' = [rid EXCEPT ![t] = 0]
      /\ response' = [response EXCEPT ![t] = None]
  BY DEF Finish, Goto, AfterRequest
<1>2. place \notin {"send", "wait"}
  OBVIOUS
<1> HIDE DEF place
<1>3. Numbered'
  BY <1>1, <1>2 DEF Numbered, Ids
<1>4. NoWaiterForgotten'
  BY <1>1, <1>2 DEF Numbered, NoWaiterForgotten
<1>5. \A id \in Ids : (Sends(id)' <=> Sends(id)) /\ (Comes(id)' <=> Comes(id)) /\ id # 0
  BY DEF Sends, Comes, Ids
<1>6. InOnePlace'
  BY <1>1, <1>2, <1>5 DEF InOnePlace
<1>7. Agreed'
  BY <1>1, <1>2, <1>5, ConnectionAssumption DEF Agreed
<1>8. QED
  BY <1>3, <1>4, <1>6, <1>7

(* Messages that are lost, and moves of the listener, harm nobody. *)
LEMMA LossTracks ==
    ASSUME TInv, Tracked,
           \A t \in Threads : pc'[t] = pc[t] \/ (~Asks(t) /\ ~Asks(t)'),
           \A l \in Links : outbox'[l] \in {outbox[l], <<>>} /\ inbox'[l] \in {inbox[l], <<>>},
           UNCHANGED <<rid, response, pending, next_id, granted>>
    PROVE  Tracked'
<1> USE DEF TInv, TypeOK, Tracked
<1>1. \A t \in Threads : (Asks(t)' <=> Asks(t)) /\ (Asks(t) => pc'[t] = pc[t])
  BY DEF Asks
<1>2. Numbered' /\ NoWaiterForgotten'
  BY <1>1 DEF Numbered, NoWaiterForgotten, Asks
<1>3. /\ \A l \in Links : \A i \in DOMAIN outbox'[l] :
            i \in DOMAIN outbox[l] /\ outbox'[l][i] = outbox[l][i]
      /\ \A l \in Links : \A i \in DOMAIN inbox'[l] :
            i \in DOMAIN inbox[l] /\ inbox'[l][i] = inbox[l][i]
  <2>1. DOMAIN <<>> = {}
    OBVIOUS
  <2>2. QED
    BY <2>1
<1>4. \A id \in Ids : (Sends(id)' => Sends(id)) /\ (Comes(id)' => Comes(id))
  BY <1>3 DEF Sends, Comes
<1>5. InOnePlace'
  BY <1>1, <1>3, <1>4 DEF InOnePlace, Asks
<1>6. Agreed'
  BY <1>1, <1>3, <1>4, ConnectionAssumption DEF Agreed, Asks
<1>7. QED
  BY <1>2, <1>5, <1>6

(* All who wait are told that the connection is lost. *)
LEMMA FailTracks ==
    ASSUME TInv, Tracked, FailPending
    PROVE  Tracked'
<1> USE DEF TInv, TypeOK, Tracked, Asks
<1>1. /\ pc[Listener] = "fail" /\ pc' = [pc EXCEPT ![Listener] = "connect"]
      /\ response' = [t \in Threads |-> IF rid[t] \in pending THEN "lost" ELSE response[t]]
      /\ pending' = {}
      /\ UNCHANGED <<rid, next_id, outbox, inbox, granted>>
  BY DEF FailPending, Listening, Goto, Waiting, netVars
<1>2. \A t \in Threads : pc[t] \in {"send", "wait"} => pc'[t] = pc[t]
  BY <1>1
<1>3. \A t \in Threads : rid[t] \in pending => pc[t] \in {"send", "wait"}
  BY DEF Numbered, Ids
<1>4. Numbered' /\ NoWaiterForgotten'
  BY <1>1, <1>3, ConnectionAssumption DEF Numbered, NoWaiterForgotten
<1>5. \A id \in Ids : (Sends(id)' <=> Sends(id)) /\ (Comes(id)' <=> Comes(id))
  BY <1>1 DEF Sends, Comes
<1>6. InOnePlace'
  BY <1>1, <1>5 DEF InOnePlace
<1>7. Agreed'
  BY <1>1, <1>5, ConnectionAssumption DEF Agreed
<1>8. QED
  BY <1>4, <1>6, <1>7

(* A response reaches whoever waits for it. *)
LEMMA ReceiveTracks ==
    ASSUME TInv, Tracked, Receive
    PROVE  Tracked'
<1> USE DEF TInv, TypeOK, Tracked, Asks
<1> DEFINE m == Head(inbox[sock])
<1>1. /\ inbox[sock] # <<>>
      /\ response' = [t \in Threads |->
                        IF rid[t] = m.id /\ m.id \in pending THEN m.status ELSE response[t]]
      /\ pending' = pending \ {m.id}
      /\ inbox' = [inbox EXCEPT ![sock] = Tail(@)]
      /\ UNCHANGED <<pc, rid, next_id, outbox, granted>>
  BY DEF Receive, Waiter
<1>2. /\ m \in Responses /\ 1 \in DOMAIN inbox[sock] /\ m = inbox[sock][1]
      /\ \A i \in DOMAIN Tail(inbox[sock]) :
            i + 1 \in DOMAIN inbox[sock] /\ Tail(inbox[sock])[i] = inbox[sock][i + 1]
  BY <1>1, TailPlaces
<1>3. m.id \in Ids /\ m.status \in {"ok", "error"} /\ Comes(m.id)
  BY <1>2 DEF Responses, Comes
<1>4. granted[m.id] = IF m.status = "ok" THEN 1 ELSE 0
  BY <1>2 DEF Agreed
<1> HIDE DEF m
<1>5. \A t \in Threads : rid[t] = m.id => pc[t] = "wait"
  BY <1>3 DEF InOnePlace
<1>6. Numbered'
  BY <1>1, <1>5 DEF Numbered
<1>7. NoWaiterForgotten'
  BY <1>1, <1>3, <1>5, ConnectionAssumption DEF Numbered, NoWaiterForgotten
<1>8. \A l \in Links : \A i \in DOMAIN inbox'[l] :
         \E j \in DOMAIN inbox[l] : inbox'[l][i] = inbox[l][j]
  BY <1>1, <1>2
<1>9. \A id \in Ids : (Sends(id)' <=> Sends(id)) /\ (Comes(id)' => Comes(id))
  BY <1>1, <1>8 DEF Sends, Comes
<1>10. InOnePlace'
  BY <1>1, <1>9 DEF InOnePlace
<1>11. ~Sends(m.id)
  BY <1>3 DEF InOnePlace
<1>12. Agreed'
  <2>1. /\ \A id \in Ids : granted'[id] <= 1
        /\ \A id \in Ids : id >= next_id' \/ Sends(id)' => granted'[id] = 0
        /\ \A id \in Ids, t \in Threads : rid'[t] = id /\ pc'[t] = "send" => granted'[id] = 0
    BY <1>1, <1>9 DEF Agreed
  <2>2. \A l \in Links : \A i \in DOMAIN inbox'[l] :
           granted'[inbox'[l][i].id] = IF inbox'[l][i].status = "ok" THEN 1 ELSE 0
    BY <1>1, <1>8 DEF Agreed
  <2>3. \A t \in Threads : response'[t] \in {"ok", "error"} => pc'[t] = "wait"
    BY <1>1, <1>5 DEF Agreed
  <2>4. ASSUME NEW id \in Ids, NEW t \in Threads, rid'[t] = id, response'[t] \in {"ok", "error"}
        PROVE  ~Sends(id)' /\ granted'[id] = IF response'[t] = "ok" THEN 1 ELSE 0
    <3>1. CASE id = m.id /\ m.id \in pending
      BY <1>1, <1>4, <1>9, <1>11, <2>4, <3>1
    <3>2. CASE ~(id = m.id /\ m.id \in pending)
      <4>1. response'[t] = response[t] /\ rid[t] = id
        BY <1>1, <2>4, <3>2
      <4>2. QED
        BY <1>1, <1>9, <2>4, <4>1 DEF Agreed
    <3>3. QED
      BY <3>1, <3>2
  <2>5. QED
    BY <2>1, <2>2, <2>3, <2>4 DEF Agreed
<1>13. QED
  BY <1>6, <1>7, <1>10, <1>12
(* The server answers the request that arrives next. *)
LEMMA AnswerTracks ==
    ASSUME TInv, Tracked, NEW l \in Links, Answer(l)
    PROVE  Tracked'
<1> USE DEF TInv, TypeOK, Tracked, Asks
<1> DEFINE m == Head(outbox[l])
           answer(ok) == [id |-> m.id, status |-> IF ok THEN "ok" ELSE "error"]
<1>1. PICK ok \in Replies(l, m.call) :
         /\ inbox' = [inbox EXCEPT ![l] = Append(@, answer(ok))]
         /\ granted' = IF ok THEN [granted EXCEPT ![m.id] = @ + 1] ELSE granted
  BY DEF Answer
<1>2. /\ outbox[l] # <<>>
      /\ outbox' = [outbox EXCEPT ![l] = Tail(@)]
      /\ UNCHANGED <<pc, rid, response, pending, next_id>>
  BY DEF Answer, threadVars, requestVars
<1>3. /\ m \in Requests /\ 1 \in DOMAIN outbox[l] /\ m = outbox[l][1]
      /\ \A i \in DOMAIN Tail(outbox[l]) :
            /\ i \in Nat /\ i + 1 \in DOMAIN outbox[l] /\ i + 1 # 1
            /\ Tail(outbox[l])[i] = outbox[l][i + 1]
  BY <1>2, TailPlaces
<1>4. m.id \in Ids /\ Sends(m.id)
  BY <1>3 DEF Requests, Sends
<1> DEFINE a == answer(ok)
           last == Len(inbox[l]) + 1
<1>5. /\ a \in Responses /\ a.id = m.id
      /\ a.status = IF ok THEN "ok" ELSE "error"
  BY <1>4 DEF Responses
<1>6. /\ outbox'[l] = Tail(outbox[l]) /\ inbox'[l] = Append(inbox[l], a)
      /\ \A k \in Links : k # l => outbox'[k] = outbox[k] /\ inbox'[k] = inbox[k]
  BY <1>1, <1>2
<1>7. granted[m.id] = 0 /\ ~Comes(m.id)
  BY <1>4 DEF Agreed, InOnePlace
<1>8. granted' = [granted EXCEPT ![m.id] = IF ok THEN 1 ELSE 0]
  <2>1. CASE ok
    BY <1>1, <1>4, <1>7, <2>1
  <2>2. CASE ~ok
    BY <1>1, <1>4, <1>7, <2>2
  <2>3. QED
    BY <2>1, <2>2
<1> HIDE DEF m, answer, a
<1>9. /\ \A i \in DOMAIN inbox'[l] : i \in DOMAIN inbox[l] \/ i = last
      /\ \A i \in DOMAIN inbox[l] : i \in DOMAIN inbox'[l] /\ inbox'[l][i] = inbox[l][i]
      /\ last \in DOMAIN inbox'[l] /\ inbox'[l][last] = a
  <2> DEFINE q == inbox[l]
  <2>1. q \in Seq(Responses)
    OBVIOUS
  <2>2. QED
    BY <1>5, <1>6, <2>1, AppendPlaces
<1> HIDE DEF last
<1>10. \A k \in Links : \A i \in DOMAIN inbox'[k] :
          inbox'[k][i] = a \/ (i \in DOMAIN inbox[k] /\ inbox'[k][i] = inbox[k][i])
  <2> SUFFICES ASSUME NEW k \in Links, NEW i \in DOMAIN inbox'[k]
               PROVE  inbox'[k][i] = a \/ (i \in DOMAIN inbox[k] /\ inbox'[k][i] = inbox[k][i])
    OBVIOUS
  <2>1. CASE k = l
    BY <1>9, <2>1
  <2>2. CASE k # l
    BY <1>6, <2>2
  <2>3. QED
    BY <2>1, <2>2
<1> DEFINE from(k, i) == IF k = l THEN i + 1 ELSE i
<1>11. \A k \in Links : \A i \in DOMAIN outbox'[k] :
          /\ i \in Nat /\ from(k, i) \in DOMAIN outbox[k]
          /\ outbox'[k][i] = outbox[k][from(k, i)]
          /\ k = l => from(k, i) # 1
  <2> SUFFICES ASSUME NEW k \in Links, NEW i \in DOMAIN outbox'[k]
               PROVE  /\ i \in Nat /\ from(k, i) \in DOMAIN outbox[k]
                      /\ outbox'[k][i] = outbox[k][from(k, i)]
                      /\ k = l => from(k, i) # 1
    OBVIOUS
  <2>1. CASE k = l
    BY <1>3, <1>6, <2>1
  <2>2. CASE k # l
    <3>1. i \in DOMAIN outbox[k] /\ outbox[k] \in Seq(Requests) /\ outbox'[k] = outbox[k]
      BY <1>6, <2>2
    <3>2. QED
      BY <2>2, <3>1
  <2>3. QED
    BY <2>1, <2>2
<1>12. \A id \in Ids : Sends(id)' => Sends(id)
  <2> SUFFICES ASSUME NEW id \in Ids, NEW k \in Links, NEW i \in DOMAIN outbox'[k],
                      outbox'[k][i].id = id
               PROVE  Sends(id)
    BY DEF Sends
  <2>1. from(k, i) \in DOMAIN outbox[k] /\ outbox[k][from(k, i)].id = id
    BY <1>11
  <2> HIDE DEF from
  <2>2. QED
    BY <2>1 DEF Sends
<1>13. \A id \in Ids : Sends(id)' => id # m.id
  <2> SUFFICES ASSUME NEW k \in Links, NEW i \in DOMAIN outbox'[k], outbox'[k][i].id = m.id
               PROVE  FALSE
    BY DEF Sends
  <2>1. outbox[k][from(k, i)].id = outbox[l][1].id /\ from(k, i) \in DOMAIN outbox[k]
    BY <1>3, <1>11
  <2>2. k = l /\ from(k, i) = 1
    BY <1>3, <2>1 DEF InOnePlace
  <2>3. QED
    BY <1>11, <2>2
<1>14. \A id \in Ids : Comes(id)' => Comes(id) \/ id = m.id
  BY <1>5, <1>10 DEF Comes
<1>15. Numbered' /\ NoWaiterForgotten'
  BY <1>2 DEF Numbered, NoWaiterForgotten
<1>16. \A k, n \in Links : \A i \in DOMAIN outbox'[k], j \in DOMAIN outbox'[n] :
          outbox'[k][i].id = outbox'[n][j].id => k = n /\ i = j
  <2> SUFFICES ASSUME NEW k \in Links, NEW n \in Links,
                      NEW i \in DOMAIN outbox'[k], NEW j \in DOMAIN outbox'[n],
                      outbox'[k][i].id = outbox'[n][j].id
               PROVE  k = n /\ i = j
    OBVIOUS
  <2>1. /\ i \in Nat /\ from(k, i) \in DOMAIN outbox[k]
        /\ outbox'[k][i] = outbox[k][from(k, i)]
    BY <1>11
  <2>2. /\ j \in Nat /\ from(n, j) \in DOMAIN outbox[n]
        /\ outbox'[n][j] = outbox[n][from(n, j)]
    BY <1>11
  <2>3. k = n /\ from(k, i) = from(n, j)
    <3> HIDE DEF from
    <3>1. QED
      BY <2>1, <2>2 DEF InOnePlace
  <2>4. QED
    BY <2>1, <2>2, <2>3
<1> HIDE DEF from
<1>17. InOnePlace'
  <2>1. ASSUME NEW id \in Ids, Sends(id)' \/ Comes(id)'
        PROVE  id < next_id' /\ \A t \in Threads : rid'[t] = id => pc'[t] = "wait"
    BY <1>2, <1>4, <1>12, <1>14, <2>1 DEF InOnePlace
  <2>2. ASSUME NEW id \in Ids, Sends(id)' PROVE ~Comes(id)'
    BY <1>12, <1>13, <1>14, <2>2 DEF InOnePlace
  <2>3. QED
    BY <1>16, <2>1, <2>2 DEF InOnePlace
<1>18. Agreed'
  <2>1. \A id \in Ids : granted'[id] <= 1
    BY <1>4, <1>8 DEF Agreed
  <2>2. \A id \in Ids : id >= next_id' \/ Sends(id)' => granted'[id] = 0
    BY <1>2, <1>4, <1>8, <1>12, <1>13 DEF Agreed, InOnePlace, Ids
  <2>3. \A id \in Ids, t \in Threads : rid'[t] = id /\ pc'[t] = "send" => granted'[id] = 0
    BY <1>2, <1>4, <1>8 DEF Agreed, InOnePlace
  <2>4. \A k \in Links : \A i \in DOMAIN inbox'[k] :
           granted'[inbox'[k][i].id] = IF inbox'[k][i].status = "ok" THEN 1 ELSE 0
    <3> SUFFICES ASSUME NEW k \in Links, NEW i \in DOMAIN inbox'[k]
                 PROVE  granted'[inbox'[k][i].id] = IF inbox'[k][i].status = "ok" THEN 1 ELSE 0
      OBVIOUS
    <3>1. CASE inbox'[k][i] = a
      BY <1>4, <1>5, <1>8, <3>1
    <3>2. CASE i \in DOMAIN inbox[k] /\ inbox'[k][i] = inbox[k][i]
      <4>1. inbox[k] \in Seq(Responses) /\ inbox[k][i] \in Responses
        BY <3>2
      <4>2. inbox[k][i].id \in Ids /\ inbox[k][i].id # m.id
        BY <1>7, <3>2, <4>1 DEF Comes, Responses
      <4>3. QED
        BY <1>8, <3>2, <4>2 DEF Agreed
    <3>3. QED
      BY <1>10, <3>1, <3>2
  <2>5. \A t \in Threads : response'[t] \in {"ok", "error"} => pc'[t] = "wait"
    BY <1>2 DEF Agreed
  <2>6. \A id \in Ids, t \in Threads : rid'[t] = id /\ response'[t] \in {"ok", "error"} =>
           ~Sends(id)' /\ granted'[id] = IF response'[t] = "ok" THEN 1 ELSE 0
    BY <1>2, <1>4, <1>8, <1>12 DEF Agreed
  <2>7. QED
    BY <2>1, <2>2, <2>3, <2>4, <2>5, <2>6 DEF Agreed
<1>19. QED
  BY <1>15, <1>17, <1>18
LEMMA TrackedStep == IInv /\ [Next]_vars => Tracked'
<1> SUFFICES ASSUME TInv, Tracked, [Next]_vars PROVE Tracked'
  BY DEF IInv
<1>1. ASSUME NEW t \in Callers, NEW action \in Calls \ {"close"}, Call(t, action)
      PROVE  Tracked'
  <2>1. t \in Threads /\ next_id \in Ids
    BY <1>1, ConnectionAssumption DEF Call, TInv, TypeOK, Bounded, Ids, Links, Threads
  <2>2. ~Asks(t) /\ Register(t, action) /\ UNCHANGED <<outbox, inbox, granted>>
    BY <1>1 DEF Call, Asks, netVars
  <2>3. QED
    BY <2>1, <2>2, BeginTracks
<1>2. ASSUME NEW t \in Threads, SendWorks(t) PROVE Tracked'
  BY <1>2, SendTracks
<1>3. ASSUME NEW t \in Threads, SendRaises(t) \/ TimesOut(t) PROVE Tracked'
  <2>1. Asks(t) /\ Finish(t) /\ pending' = pending \ {rid[t]}
    BY <1>3 DEF SendRaises, TimesOut, Asks
  <2>2. UNCHANGED <<next_id, outbox, inbox, granted>>
    BY <1>3 DEF SendRaises, TimesOut, netVars
  <2>3. QED
    BY <2>1, <2>2, FinishTracks
<1>4. ASSUME NEW t \in Threads, Answered(t) PROVE Tracked'
  <2>1. Asks(t) /\ Finish(t) /\ response[t] # None
    BY <1>4 DEF Answered, Asks
  <2>2. rid[t] \notin pending
    BY <2>1 DEF Tracked, Numbered, NoWaiterForgotten
  <2>3. pending' = pending \ {rid[t]} /\ UNCHANGED <<next_id, outbox, inbox, granted>>
    BY <1>4, <2>2 DEF Answered, requestVars, netVars
  <2>4. QED
    BY <2>1, <2>3, FinishTracks
<1>5. CASE Receive
  BY <1>5, ReceiveTracks
<1>6. CASE FailPending
  BY <1>6, FailTracks
<1>7. CASE Relogin
  <2>1. Listener \in Threads /\ next_id \in Ids
    BY <1>7, ConnectionAssumption
       DEF Relogin, Listening, TInv, TypeOK, Bounded, ReloginDue, Ids, Links, Threads
  <2>2. ~Asks(Listener) /\ Register(Listener, "login") /\ UNCHANGED <<outbox, inbox, granted>>
    BY <1>7 DEF Relogin, Listening, Asks, netVars
  <2>3. QED
    BY <2>1, <2>2, BeginTracks
<1>8. ASSUME NEW l \in Links, Answer(l) PROVE Tracked'
  BY <1>8, AnswerTracks
<1>9. ASSUME \/ LinkEnds \/ TryConnect \/ DialFails \/ DialWorks \/ CheckSession \/ UnpackNone
             \/ Heartbeat \/ UNCHANGED vars
             \/ \E t \in Callers : Close(t)
             \/ \E l \in Links : ServerForgets(l)
             \/ \E l \in Links, how \in {"silent", "down"} : Breaks(l, how)
      PROVE  Tracked'
  <2> USE DEF LinkEnds, TryConnect, DialFails, DialWorks, CheckSession, UnpackNone, Heartbeat,
              vars, Close, ServerForgets, Breaks, threadVars, requestVars, netVars
  <2>1. UNCHANGED <<rid, response, pending, next_id, granted>>
    BY <1>9
  <2>2. \A t \in Threads : pc'[t] = pc[t] \/ (~Asks(t) /\ ~Asks(t)')
    BY <1>9 DEF TInv, TypeOK, Asks, Listening, Goto
  <2>3. \A l \in Links : outbox'[l] \in {outbox[l], <<>>} /\ inbox'[l] \in {inbox[l], <<>>}
    BY <1>9 DEF TInv, TypeOK
  <2>4. QED
    BY <2>1, <2>2, <2>3, LossTracks
<1>10. QED
  BY <1>1, <1>2, <1>3, <1>4, <1>5, <1>6, <1>7, <1>8, <1>9
     DEF Next, RequestStep, CallerStep, ListenStep, NetStep

LEMMA IInvHolds == Spec => []IInv
<1>1. Init => IInv
  BY TInvInit, TrackedInit DEF IInv
<1>2. IInv /\ [Next]_vars => IInv'
  BY TInvStep, TrackedStep DEF IInv
<1>3. QED
  BY <1>1, <1>2, PTL DEF Spec

(* The variables have their types, and the numbers of requests suffice.    *)
THEOREM TypeCorrect == Spec => []TypeOK
<1>1. IInv => TypeOK
  BY DEF IInv, TInv
<1>2. QED
  BY <1>1, IInvHolds, PTL

(* No waiter is forgotten, and none stays listed: with any number of       *)
(* threads in request, and _reconnect at any moment among them.            *)
THEOREM Waiters == Spec => []NoWaiterForgotten
<1>1. IInv => NoWaiterForgotten
  BY DEF IInv, Tracked
<1>2. QED
  BY <1>1, IInvHolds, PTL

(* The "ok" a caller gets is the server's answer to its own request.       *)
THEOREM OwnAnswers == Spec => []AnswerIsOwn
<1>1. IInv => AnswerIsOwn
  <2> SUFFICES ASSUME IInv, NEW t \in Threads, response[t] = "ok"
               PROVE  granted[rid[t]] > 0
    BY DEF AnswerIsOwn
  <2>1. Asks(t)
    BY DEF IInv, Tracked, Agreed, Asks
  <2>2. rid[t] \in Ids
    BY <2>1 DEF IInv, TInv, Calling
  <2>3. granted[rid[t]] = 1
    BY <2>2 DEF IInv, Tracked, Agreed
  <2>4. QED
    BY <2>3
<1>2. QED
  BY <1>1, IInvHolds, PTL
-----------------------------------------------------------------------------
(* The refinement: what the caller of each request knows, by what the      *)
(* threads hold.  A number has one caller at most, so CHOOSE has no choice. *)
Status(id) ==
    IF id >= next_id THEN "unused"
    ELSE IF \E t \in Threads : rid[t] = id
         THEN Known(CHOOSE t \in Threads : rid[t] = id)
         ELSE "over"

Shown ==
    /\ \A id \in Ids : id >= next_id => Status(id) = "unused"
    /\ \A id \in Ids, t \in Threads : rid[t] = id => Status(id) = Known(t)
    /\ \A id \in Ids : id < next_id /\ (\A t \in Threads : rid[t] # id) => Status(id) = "over"

LEMMA StatusShown == IInv => Shown
<1> SUFFICES ASSUME IInv PROVE Shown
  OBVIOUS
<1>1. next_id \in Nat /\ Ids \subseteq Nat \ {0}
  BY DEF IInv, TInv, TypeOK, Ids
<1>2. \A id \in Ids, t \in Threads : rid[t] = id => Status(id) = Known(t)
  <2> SUFFICES ASSUME NEW id \in Ids, NEW t \in Threads, rid[t] = id
               PROVE  Status(id) = Known(t)
    OBVIOUS
  <2>1. ~(id >= next_id)
    BY <1>1 DEF IInv, Tracked, Numbered
  <2>2. (CHOOSE s \in Threads : rid[s] = id) = t
    BY <1>1 DEF IInv, Tracked, Numbered
  <2>3. QED
    BY <2>1, <2>2 DEF Status
<1>3. QED
  BY <1>1, <1>2 DEF Shown, Status

LEMMA KnownValues ==
    ASSUME NEW t \in Threads
    PROVE  /\ response[t] = None => Known(t) = "open"
           /\ response[t] = "ok" => Known(t) = "ok"
           /\ response[t] = "error" => Known(t) = "refused"
           /\ response[t] = "lost" => Known(t) = "lost"
BY ConnectionAssumption DEF Known

(* One request changes, or none. *)
LEMMA StatusMoves ==
    ASSUME NEW id \in Ids, NEW from, NEW to, Status(id) = from, Status(id)' = to,
           \A other \in Ids \ {id} : Status(other)' = Status(other),
           UNCHANGED granted
    PROVE  Remote!Becomes(id, from, to)
<1> DEFINE map == [k \in Ids |-> Status(k)]
<1>1. map[id] = from
  OBVIOUS
<1>2. map' = [map EXCEPT ![id] = to]
  OBVIOUS
<1>3. QED
  BY <1>1, <1>2 DEF Remote!Becomes, Status

LEMMA StatusRests ==
    ASSUME Shown, Shown', IInv, UNCHANGED <<rid, response, next_id>>
    PROVE  \A id \in Ids : Status(id)' = Status(id)
<1>1. \A t \in Threads : Known(t)' = Known(t)
  BY DEF Known
<1>2. next_id \in Nat /\ Ids \subseteq Nat
  BY DEF IInv, TInv, TypeOK, Ids
<1>3. QED
  BY <1>1, <1>2 DEF Shown

LEMMA BeginStarts ==
    ASSUME IInv, Shown, Shown', NEW t \in Threads, ~Asks(t), NEW action, Register(t, action),
           next_id \in Ids, UNCHANGED granted
    PROVE  \E id \in Ids : Remote!Start(id)
<1>1. /\ rid' = [rid EXCEPT ![t] = next_id]
      /\ response' = [response EXCEPT ![t] = None]
      /\ next_id' = next_id + 1
  BY DEF Register
<1>2. /\ rid \in [Threads -> Ids \cup {0}] /\ rid[t] = 0 /\ Ids \subseteq Nat \ {0}
      /\ response \in [Threads -> {"ok", "error", "lost", None}]
      /\ \A s \in Threads : rid[s] < next_id
  BY DEF IInv, TInv, TypeOK, Tracked, Numbered, Ids
<1>3. PICK id \in Ids : id = next_id
  OBVIOUS
<1>4. Status(id) = "unused" /\ Status(id)' = "open"
  <2>1. rid'[t] = id /\ response'[t] = None
    BY <1>1, <1>2, <1>3
  <2>2. Known(t)' = "open"
    BY <2>1, ConnectionAssumption DEF Known
  <2>3. QED
    BY <1>2, <1>3, <2>1, <2>2 DEF Shown
<1>5. \A k \in Ids \ {id} : Status(k)' = Status(k)
  <2> SUFFICES ASSUME NEW k \in Ids \ {id} PROVE Status(k)' = Status(k)
    OBVIOUS
  <2>1. CASE k >= next_id
    BY <1>1, <1>2, <1>3, <2>1 DEF Shown
  <2>2. CASE k < next_id /\ \A s \in Threads : rid[s] # k
    BY <1>1, <1>2, <2>2 DEF Shown
  <2>3. ASSUME NEW s \in Threads, rid[s] = k PROVE Status(k)' = Status(k)
    <3>1. s # t /\ rid'[s] = rid[s] /\ response'[s] = response[s]
      BY <1>1, <1>2, <2>3
    <3>2. Known(s)' = Known(s)
      BY <3>1 DEF Known
    <3>3. QED
      BY <2>3, <3>1, <3>2 DEF Shown
  <2>4. QED
    BY <1>2, <2>1, <2>2, <2>3
<1>6. Remote!Becomes(id, "unused", "open")
  BY <1>4, <1>5, StatusMoves
<1>7. QED
  BY <1>6 DEF Remote!Start

LEMMA FinishReturns ==
    ASSUME IInv, Shown, Shown', NEW t \in Threads, Asks(t), Finish(t),
           UNCHANGED <<next_id, granted>>
    PROVE  \E id \in Ids : Remote!Return(id)
<1>1. /\ rid' = [rid EXCEPT ![t] = 0]
      /\ response' = [response EXCEPT ![t] = None]
  BY DEF Finish
<1>2. /\ rid[t] \in Ids /\ Ids \subseteq Nat \ {0}
      /\ rid \in [Threads -> Ids \cup {0}]
      /\ response \in [Threads -> {"ok", "error", "lost", None}]
      /\ next_id \in Nat
      /\ \A s \in Threads : rid[s] < next_id
      /\ \A s \in Threads : rid[s] = rid[t] => s = t
  BY DEF IInv, TInv, TypeOK, Calling, Tracked, Numbered, Ids
<1>3. PICK id \in Ids : id = rid[t]
  BY <1>2
<1>4. PICK known \in {"open", "ok", "refused", "lost"} : Status(id) = known
  BY <1>2, <1>3, KnownValues DEF Shown
<1>5. Status(id)' = "over"
  BY <1>1, <1>2, <1>3 DEF Shown
<1>6. \A k \in Ids \ {id} : Status(k)' = Status(k)
  <2> SUFFICES ASSUME NEW k \in Ids \ {id} PROVE Status(k)' = Status(k)
    OBVIOUS
  <2>1. CASE \A s \in Threads : rid[s] # k
    BY <1>1, <1>2, <2>1 DEF Shown
  <2>2. ASSUME NEW s \in Threads, rid[s] = k PROVE Status(k)' = Status(k)
    <3>1. s # t /\ rid'[s] = rid[s] /\ response'[s] = response[s]
      BY <1>1, <1>2, <1>3, <2>2
    <3>2. Known(s)' = Known(s)
      BY <3>1 DEF Known
    <3>3. QED
      BY <2>2, <3>1, <3>2 DEF Shown
  <2>3. QED
    BY <2>1, <2>2
<1>7. Remote!Becomes(id, known, "over")
  BY <1>4, <1>5, <1>6, StatusMoves
<1>8. QED
  BY <1>4, <1>7 DEF Remote!Return

LEMMA ReceiveTells ==
    ASSUME IInv, Shown, Shown', Receive
    PROVE  \/ \E id \in Ids : Remote!Succeed(id) \/ Remote!Refuse(id)
           \/ UNCHANGED Remote!vars
<1> DEFINE m == Head(inbox[sock])
<1>1. /\ inbox[sock] # <<>>
      /\ response' = [t \in Threads |->
                        IF rid[t] = m.id /\ m.id \in pending THEN m.status ELSE response[t]]
      /\ UNCHANGED <<rid, next_id, granted>>
  BY DEF Receive, Waiter
<1>2. m \in Responses /\ 1 \in DOMAIN inbox[sock] /\ m = inbox[sock][1] /\ sock \in Links
  BY <1>1, TailPlaces DEF IInv, TInv, TypeOK
<1>3. PICK id \in Ids : id = m.id
  BY <1>2 DEF Responses
<1>4. PICK status \in {"ok", "error"} : status = m.status
  BY <1>2 DEF Responses
<1>5. granted[id] = IF status = "ok" THEN 1 ELSE 0
  BY <1>2, <1>3, <1>4 DEF IInv, Tracked, Agreed
<1>6. response' = [t \in Threads |->
                     IF rid[t] = id /\ id \in pending THEN status ELSE response[t]]
  BY <1>1, <1>3, <1>4
<1> HIDE DEF m
<1>7. /\ response \in [Threads -> {"ok", "error", "lost", None}]
      /\ Ids \subseteq Nat /\ next_id \in Nat
  BY DEF IInv, TInv, TypeOK, Ids
<1>8. CASE id \in pending
  <2>1. PICK t \in Threads : rid[t] = id /\ response[t] = None
    BY <1>8 DEF IInv, Tracked, NoWaiterForgotten
  <2>2. \A s \in Threads : rid[s] = id => s = t
    BY <2>1 DEF IInv, Tracked, Numbered, Ids
  <2>3. response' = [response EXCEPT ![t] = status]
    BY <1>6, <1>7, <1>8, <2>1, <2>2
  <2>4. Status(id) = "open"
    BY <2>1, KnownValues DEF Shown
  <2>5. Status(id)' = IF status = "ok" THEN "ok" ELSE "refused"
    BY <1>1, <1>7, <2>1, <2>3, ConnectionAssumption DEF Shown, Known
  <2>6. \A k \in Ids \ {id} : Status(k)' = Status(k)
    <3>1. \A s \in Threads : s # t => Known(s)' = Known(s)
      BY <1>7, <2>3 DEF Known
    <3>2. QED
      BY <1>1, <1>7, <2>1, <3>1 DEF Shown
  <2>7. Remote!Becomes(id, "open", IF status = "ok" THEN "ok" ELSE "refused")
    BY <1>1, <2>4, <2>5, <2>6, StatusMoves
  <2>8. QED
    BY <1>5, <2>7 DEF Remote!Succeed, Remote!Refuse
<1>9. CASE id \notin pending
  <2>1. response' = response
    BY <1>6, <1>7, <1>9
  <2>2. QED
    BY <1>1, <2>1, StatusRests DEF Remote!vars, Status
<1>10. QED
  BY <1>8, <1>9

LEMMA FailLoses ==
    ASSUME IInv, Shown, Shown', FailPending
    PROVE  Remote!Lose
<1>1. /\ response' = [t \in Threads |-> IF rid[t] \in pending THEN "lost" ELSE response[t]]
      /\ UNCHANGED <<rid, next_id, granted>>
  BY DEF FailPending, Waiting, netVars
<1>2. /\ response \in [Threads -> {"ok", "error", "lost", None}]
      /\ Ids \subseteq Nat \ {0} /\ next_id \in Nat
  BY DEF IInv, TInv, TypeOK, Ids
<1>3. \A id \in Ids : Status(id)' = IF Status(id) = "open" THEN "lost" ELSE Status(id)
  <2> SUFFICES ASSUME NEW id \in Ids
               PROVE  Status(id)' = IF Status(id) = "open" THEN "lost" ELSE Status(id)
    OBVIOUS
  <2>1. CASE \A t \in Threads : rid[t] # id
    BY <1>1, <1>2, <2>1 DEF Shown
  <2>2. ASSUME NEW t \in Threads, rid[t] = id
        PROVE  Status(id)' = IF Status(id) = "open" THEN "lost" ELSE Status(id)
    <3>1. id \in pending <=> response[t] = None
      BY <1>2, <2>2 DEF IInv, Tracked, Numbered, NoWaiterForgotten, Asks
    <3>2. Status(id) = Known(t) /\ Status(id)' = Known(t)'
      BY <1>1, <2>2 DEF Shown
    <3>3. response'[t] = IF response[t] = None THEN "lost" ELSE response[t]
      BY <1>1, <2>2, <3>1
    <3>4. QED
      BY <1>2, <3>2, <3>3, ConnectionAssumption DEF Known
  <2>3. QED
    BY <2>1, <2>2
<1>4. QED
  BY <1>1, <1>3 DEF Remote!Lose, Status

LEMMA AnswerCarriesOut ==
    ASSUME IInv, Shown, Shown', NEW l \in Links, Answer(l)
    PROVE  \/ \E id \in Ids : Remote!CarryOut(id)
           \/ UNCHANGED Remote!vars
<1> DEFINE m == Head(outbox[l])
<1>1. PICK ok \in Replies(l, m.call) :
         granted' = IF ok THEN [granted EXCEPT ![m.id] = @ + 1] ELSE granted
  BY DEF Answer
<1>2. outbox[l] # <<>> /\ UNCHANGED <<rid, response, next_id>>
  BY DEF Answer, threadVars, requestVars
<1>3. m \in Requests /\ 1 \in DOMAIN outbox[l] /\ m = outbox[l][1]
  BY <1>2, TailPlaces DEF IInv, TInv, TypeOK
<1>4. PICK id \in Ids : id = m.id
  BY <1>3 DEF Requests
<1>5. Sends(id) /\ granted[id] = 0 /\ id < next_id
  BY <1>3, <1>4 DEF Sends, IInv, Tracked, Agreed, InOnePlace
<1>6. \A k \in Ids : Status(k)' = Status(k)
  BY <1>2, StatusRests
<1>7. Status(id) \notin {"unused", "refused"}
  <2>1. CASE \A t \in Threads : rid[t] # id
    BY <1>5, <2>1 DEF Shown
  <2>2. ASSUME NEW t \in Threads, rid[t] = id PROVE Status(id) \notin {"unused", "refused"}
    <3>1. response[t] \in {"lost", None}
      BY <1>5, <2>2 DEF IInv, TInv, TypeOK, Tracked, Agreed
    <3>2. QED
      BY <2>2, <3>1, KnownValues DEF Shown
  <2>3. QED
    BY <2>1, <2>2
<1>8. CASE ok
  <2>1. granted' = [granted EXCEPT ![id] = 1]
    BY <1>1, <1>4, <1>5, <1>8 DEF IInv, TInv, TypeOK
  <2>2. Remote!CarryOut(id)
    BY <1>5, <1>6, <1>7, <2>1 DEF Remote!CarryOut, Status
  <2>3. QED
    BY <2>2
<1>9. CASE ~ok
  BY <1>1, <1>6, <1>9 DEF Remote!vars, Status
<1>10. QED
  BY <1>8, <1>9

LEMMA RemoteStep == IInv /\ Shown /\ Shown' /\ [Next]_vars => [Remote!Next]_Remote!vars
<1> SUFFICES ASSUME IInv, Shown, Shown', [Next]_vars PROVE [Remote!Next]_Remote!vars
  OBVIOUS
<1>1. ASSUME NEW t \in Callers, NEW action \in Calls \ {"close"}, Call(t, action)
      PROVE  Remote!Next
  <2>1. t \in Threads /\ next_id \in Ids
    BY <1>1, ConnectionAssumption DEF Call, IInv, TInv, TypeOK, Bounded, Ids, Links, Threads
  <2>2. ~Asks(t) /\ Register(t, action) /\ UNCHANGED granted
    BY <1>1 DEF Call, Asks, netVars
  <2>3. QED
    BY <2>1, <2>2, BeginStarts DEF Remote!Next
<1>2. ASSUME NEW t \in Threads, SendRaises(t) \/ TimesOut(t) \/ Answered(t)
      PROVE  Remote!Next
  <2>1. Asks(t) /\ Finish(t) /\ UNCHANGED <<next_id, granted>>
    BY <1>2 DEF SendRaises, TimesOut, Answered, Asks, netVars, requestVars
  <2>2. QED
    BY <2>1, FinishReturns DEF Remote!Next
<1>3. CASE Receive
  BY <1>3, ReceiveTells DEF Remote!Next
<1>4. CASE FailPending
  BY <1>4, FailLoses DEF Remote!Next
<1>5. CASE Relogin
  <2>1. Listener \in Threads /\ next_id \in Ids
    BY <1>5, ConnectionAssumption
       DEF Relogin, Listening, IInv, TInv, TypeOK, Bounded, ReloginDue, Ids, Links, Threads
  <2>2. ~Asks(Listener) /\ Register(Listener, "login") /\ UNCHANGED granted
    BY <1>5 DEF Relogin, Listening, Asks, netVars
  <2>3. QED
    BY <2>1, <2>2, BeginStarts DEF Remote!Next
<1>6. ASSUME NEW l \in Links, Answer(l) PROVE [Remote!Next]_Remote!vars
  BY <1>6, AnswerCarriesOut DEF Remote!Next
<1>7. ASSUME \/ LinkEnds \/ TryConnect \/ DialFails \/ DialWorks \/ CheckSession \/ UnpackNone
             \/ Heartbeat \/ UNCHANGED vars
             \/ \E t \in Threads : SendWorks(t)
             \/ \E t \in Callers : Close(t)
             \/ \E l \in Links : ServerForgets(l)
             \/ \E l \in Links, how \in {"silent", "down"} : Breaks(l, how)
      PROVE  UNCHANGED Remote!vars
  <2>1. UNCHANGED <<rid, response, next_id, granted>>
    BY <1>7
       DEF LinkEnds, TryConnect, DialFails, DialWorks, CheckSession, UnpackNone, Heartbeat,
           SendWorks, vars, Close, ServerForgets, Breaks, threadVars, requestVars, netVars
  <2>2. QED
    BY <2>1, StatusRests DEF Remote!vars, Status
<1>8. QED
  BY <1>1, <1>2, <1>3, <1>4, <1>5, <1>6, <1>7
     DEF Next, RequestStep, CallerStep, ListenStep, NetStep

(* The connection implements remote calls (request, _handle_incoming,      *)
(* _reconnect): what a caller learns of its request is true of the server, *)
(* no request is carried out twice, whatever is lost, broken or timed out,  *)
(* and a lost connection is told to all who wait at once. *)
THEOREM RemoteCalls == Spec => ImplementsRemoteCall
<1>1. Init => Remote!Init
  <2> SUFFICES ASSUME Init PROVE Remote!Init
    OBVIOUS
  <2>1. \A id \in Ids : id >= next_id
    BY DEF Init, Ids
  <2>2. granted = [id \in Ids |-> 0]
    BY DEF Init
  <2>3. QED
    BY <2>1, <2>2 DEF Remote!Init
<1>2. IInv => Shown
  BY StatusShown
<1>3. IInv /\ Shown /\ Shown' /\ [Next]_vars => [Remote!Next]_Remote!vars
  BY RemoteStep
<1>4. QED
  BY <1>1, <1>2, <1>3, IInvHolds, PTL DEF Spec, ImplementsRemoteCall, Remote!Spec
=============================================================================
