-------------------------- MODULE ClientNodeProofs --------------------------
(***************************************************************************)
(* Theorems about ClientNode, for any number of requests, commits and      *)
(* losses.                                                                 *)
(*                                                                         *)
(* Every commit is accounted for: its event is still to come, is lost, or  *)
(* was applied (Accounted); and one that was applied to a copy without     *)
(* marking it bears the copy's own stamp, so it counts as lost             *)
(* (AppliedMarked).  The rest says what is in transit: requests that have  *)
(* been made, and commits of the server process that runs.                 *)
(***************************************************************************)
EXTENDS ClientNode, SequenceTheorems, TLAPS

Asked ==
    /\ \A i \in DOMAIN queue : pc[queue[i]] # "new"
    /\ serving # None => serving.route \in Routes /\ pc[serving.route] # "new"

Numbered ==
    /\ base <= commits
    /\ unpublished \cup unsent \cup WriteIn(serving) \subseteq base + 1 .. commits
    /\ \A i \in DOMAIN inbox : inbox[i].route = None =>
          inbox[i].version \in Versions /\ inbox[i].version.text \in 1 .. commits

TInv == TypeOK /\ Asked /\ Numbered

Accounted == 1 .. commits \subseteq Coming \cup lost \cup applied

AppliedMarked ==
    Fresh => \A k \in applied \ before_copy : content_version.text < k => k \in lost

IInv == TInv /\ Accounted /\ AppliedMarked

-----------------------------------------------------------------------------
(* Messages and the events among them. *)

LEMMA EventIn ==
    ASSUME NEW q, NEW k
    PROVE  k \in EventsIn(q) <=>
               \E i \in DOMAIN q : q[i].route = None /\ q[i].version.text = k
BY DEF EventsIn

LEMMA EventsAppend ==
    ASSUME NEW S, NEW q \in Seq(S), NEW m \in S
    PROVE  /\ EventsIn(q) \subseteq EventsIn(Append(q, m))
           /\ m.route = None => m.version.text \in EventsIn(Append(q, m))
           /\ \A i \in DOMAIN Append(q, m) : Append(q, m)[i] = m
                                             \/ (i \in DOMAIN q /\ Append(q, m)[i] = q[i])
<1>1. /\ \A i \in DOMAIN q : i \in DOMAIN Append(q, m) /\ Append(q, m)[i] = q[i]
      /\ Len(q) + 1 \in DOMAIN Append(q, m) /\ Append(q, m)[Len(q) + 1] = m
      /\ \A i \in DOMAIN Append(q, m) : i \in DOMAIN q \/ i = Len(q) + 1
  OBVIOUS
<1> DEFINE r == Append(q, m)
           last == Len(q) + 1
<1>2. /\ \A i \in DOMAIN q : i \in DOMAIN r /\ r[i] = q[i]
      /\ last \in DOMAIN r /\ r[last] = m
      /\ \A i \in DOMAIN r : i \in DOMAIN q \/ i = last
  BY <1>1
<1> HIDE DEF r, last
<1>3. EventsIn(q) \subseteq EventsIn(r)
  BY <1>2, EventIn
<1>4. m.route = None => m.version.text \in EventsIn(r)
  BY <1>2, EventIn
<1>5. \A i \in DOMAIN r : r[i] = m \/ (i \in DOMAIN q /\ r[i] = q[i])
  BY <1>2
<1>6. QED
  BY <1>3, <1>4, <1>5 DEF r

LEMMA EventsTail ==
    ASSUME NEW S, NEW q \in Seq(S), q # <<>>
    PROVE  /\ Head(q) \in S /\ 1 \in DOMAIN q /\ Head(q) = q[1]
           /\ EventsIn(q) \subseteq EventsIn(Tail(q)) \cup {q[1].version.text}
           /\ q[1].route # None => EventsIn(q) \subseteq EventsIn(Tail(q))
           /\ \A i \in DOMAIN Tail(q) : i + 1 \in DOMAIN q /\ Tail(q)[i] = q[i + 1]
<1>1. /\ Head(q) \in S /\ 1 \in DOMAIN q /\ Head(q) = q[1]
      /\ \A i \in DOMAIN Tail(q) : i + 1 \in DOMAIN q /\ Tail(q)[i] = q[i + 1]
      /\ \A i \in DOMAIN q : i # 1 => i - 1 \in DOMAIN Tail(q) /\ Tail(q)[i - 1] = q[i]
  OBVIOUS
<1> DEFINE r == Tail(q)
           h == Head(q)
<1>2. /\ h \in S /\ 1 \in DOMAIN q /\ h = q[1]
      /\ \A i \in DOMAIN r : i + 1 \in DOMAIN q /\ r[i] = q[i + 1]
      /\ \A i \in DOMAIN q : i # 1 => i - 1 \in DOMAIN r /\ r[i - 1] = q[i]
  BY <1>1
<1> HIDE DEF r, h
<1>3. EventsIn(q) \subseteq EventsIn(r) \cup {q[1].version.text}
  BY <1>2, EventIn
<1>4. q[1].route # None => EventsIn(q) \subseteq EventsIn(r)
  BY <1>2, EventIn
<1>5. QED
  BY <1>2, <1>3, <1>4 DEF r, h

LEMMA EventsSplit ==
    ASSUME NEW S, NEW q \in Seq(S), NEW n \in 0 .. Len(q)
    PROVE  /\ SubSeq(q, 1, n) \in Seq(S)
           /\ EventsIn(q) \subseteq
                 EventsIn(SubSeq(q, 1, n)) \cup EventsIn(SubSeq(q, n + 1, Len(q)))
           /\ \A i \in DOMAIN SubSeq(q, 1, n) : i \in DOMAIN q /\ SubSeq(q, 1, n)[i] = q[i]
           /\ EventsIn(SubSeq(q, n + 1, Len(q))) \subseteq EventsIn(q)
<1> DEFINE a == SubSeq(q, 1, n)
           b == SubSeq(q, n + 1, Len(q))
<1>1. a \in Seq(S) /\ Len(a) = n /\ \A i \in 1 .. n : a[i] = q[i]
  BY SubSeqProperties
<1>2. Len(b) = Len(q) - n /\ b \in Seq(S) /\ \A i \in 1 .. Len(q) - n : b[i] = q[n + i]
  BY SubSeqProperties
<1> HIDE DEF a, b
<1>3. DOMAIN a = 1 .. n /\ DOMAIN b = 1 .. Len(q) - n /\ DOMAIN q = 1 .. Len(q)
  BY <1>1, <1>2
<1>4. \A i \in DOMAIN q : \/ i \in DOMAIN a /\ a[i] = q[i]
                          \/ i - n \in DOMAIN b /\ b[i - n] = q[i]
  BY <1>1, <1>2, <1>3
<1>5. \A i \in DOMAIN b : n + i \in DOMAIN q /\ b[i] = q[n + i]
  BY <1>2, <1>3
<1>6. EventsIn(q) \subseteq EventsIn(a) \cup EventsIn(b)
  BY <1>4, EventIn
<1>7. EventsIn(b) \subseteq EventsIn(q)
  BY <1>5, EventIn
<1>8. \A i \in DOMAIN a : i \in DOMAIN q /\ a[i] = q[i]
  BY <1>1, <1>3
<1>9. QED
  BY <1>1, <1>6, <1>7, <1>8 DEF a, b

-----------------------------------------------------------------------------
LEMMA InitInv == Init => IInv
<1> SUFFICES ASSUME Init PROVE IInv
  OBVIOUS
<1> USE NodeAssumption, NoneAssumption DEF Init
<1>1. TypeOK
  <2>1. 0 \in Stamps /\ [text |-> 0, stamp |-> 0] \in Versions
    BY DEF Stamps, Versions
  <2>2. 0 \in 0 .. MaxLosses
    OBVIOUS
  <2>3. /\ pc \in [Routes -> {"new"}] /\ action \in [Routes -> {None}]
        /\ reply \in [Routes -> {None}]
        /\ queue \in Seq(Routes) /\ inbox \in Seq(Messages)
    OBVIOUS
  <2>4. QED
    BY <2>1, <2>2, <2>3 DEF TypeOK
<1>2. Asked
  BY DEF Asked
<1>3. Numbered
  BY DEF Numbered, WriteIn, Wrote
<1>4. Accounted /\ AppliedMarked
  BY DEF Accounted, AppliedMarked
<1>5. QED
  BY <1>1, <1>2, <1>3, <1>4 DEF IInv, TInv
-----------------------------------------------------------------------------
(* Types, and what is in transit. *)

(* What the server says to a request: an ERROR, the text as it is, or the  *)
(* text that the request has just made. *)
LEMMA ServeKinds ==
    ASSUME NEW r \in Routes, ServeNext(r), session \in BOOLEAN, subscribed \in BOOLEAN
    PROVE  /\ {session, subscribed}' \subseteq BOOLEAN
           /\ \/ /\ Serve(r, None) /\ commits' = commits
              \/ /\ Serve(r, Stamped(commits)) /\ commits' = commits /\ action[r] # "write"
              \/ /\ Serve(r, Stamped(commits + 1)) /\ commits' = commits + 1
                 /\ commits < MaxCommits /\ action[r] = "write"
BY DEF ServeNext, ServeRefusal, ServeLogin, ServeRead, ServeWrite, ServeLogout

LEMMA TInvStep == TInv /\ [Next]_vars => TInv'
<1> SUFFICES ASSUME TInv, [Next]_vars PROVE TInv'
  OBVIOUS
<1> USE NodeAssumption, NoneAssumption
        DEF TInv, TypeOK, routeVars, copyVars, nodeVars, linkVars, fileVars
<1>1. ASSUME NEW r \in Routes, NEW a \in Actions, Ask(r, a) PROVE TInv'
  <2>1. TypeOK'
    BY <1>1 DEF Ask
  <2>2. Asked'
    <3>1. \A i \in DOMAIN queue' : queue'[i] = r \/ (i \in DOMAIN queue /\ queue'[i] = queue[i])
      BY <1>1 DEF Ask
    <3>2. pc'[r] # "new" /\ \A s \in Routes : pc[s] # "new" => pc'[s] # "new"
      BY <1>1 DEF Ask
    <3>3. \A i \in DOMAIN queue : queue[i] \in Routes
      OBVIOUS
    <3>4. QED
      BY <1>1, <3>1, <3>2, <3>3 DEF Ask, Asked
  <2>3. Wrote(serving)' <=> Wrote(serving)
    BY <1>1 DEF Ask, Asked, Wrote
  <2>4. Numbered'
    BY <1>1, <2>3 DEF Ask, Numbered, WriteIn
  <2>5. QED
    BY <2>1, <2>2, <2>4
<1>2. ASSUME NEW r \in Routes, TimesOut(r) PROVE TInv'
  BY <1>2 DEF TimesOut, Asked, Numbered, WriteIn, Wrote
<1>3. ASSUME NEW r \in Routes, Apply(r) PROVE TInv'
  <2>1. /\ UNCHANGED <<action, linkVars, fileVars>>
        /\ pc' = [pc EXCEPT ![r] = "done"] /\ reply' = [reply EXCEPT ![r] = None]
    BY <1>3 DEF Apply, ApplyLogin, ApplyLogout, ApplyRead, ApplyWrite, ReportError, Returns
  <2>2. Asked' /\ Numbered'
    BY <2>1 DEF Asked, Numbered, WriteIn, Wrote
  <2>3. TypeOK'
    <3>1. {user, content_loaded, content_stale, remembered}' \subseteq BOOLEAN
      BY <1>3 DEF Apply, ApplyLogin, ApplyLogout, ApplyRead, ApplyWrite, ReportError, NoCopy, IsNews
    <3>2. {version, content_version}' \subseteq Versions \cup {None}
      BY <1>3 DEF Apply, ApplyLogin, ApplyLogout, ApplyRead, ApplyWrite, ReportError, NoCopy
    <3>3. applied' \cup before_copy' \subseteq Commits
      BY <1>3 DEF Apply, ApplyLogin, ApplyLogout, ApplyRead, ApplyWrite, ReportError, NoCopy
    <3>4. QED
      BY <2>1, <3>1, <3>2, <3>3
  <2>4. QED
    BY <2>2, <2>3
<1>4. CASE Receive
  <2>1. /\ inbox # <<>> /\ inbox' = Tail(inbox)
        /\ UNCHANGED <<up, losses, queue, serving, session, subscribed,
                       commits, base, leftover, own, unpublished, unsent, held>>
    BY <1>4 DEF Receive
  <2>2. /\ Head(inbox) \in Messages /\ 1 \in DOMAIN inbox /\ Head(inbox) = inbox[1]
        /\ \A i \in DOMAIN inbox' : i + 1 \in DOMAIN inbox /\ inbox'[i] = inbox[i + 1]
        /\ inbox' \in Seq(Messages)
    BY <2>1, EventsTail
  <2> DEFINE m == Head(inbox)
  <2>3. CASE m.route = None
    <3>1. OnEvent(m.version)
      BY <1>4, <2>3 DEF Receive
    <3>2. m.version \in Versions /\ m.version.text \in Commits
      BY <2>2, <2>3 DEF Numbered, Commits, Stamps
    <3> HIDE DEF m
    <3>3. TypeOK'
      BY <2>1, <2>2, <3>1, <3>2 DEF OnEvent, IsNews
    <3>4. Asked' /\ Numbered'
      BY <2>1, <2>2, <3>1 DEF OnEvent, Asked, Numbered, WriteIn, Wrote
    <3>5. QED
      BY <3>3, <3>4
  <2>4. CASE m.route # None
    <3>1. OnResponse(m.route, m.version)
      BY <1>4, <2>4 DEF Receive
    <3>2. m.version \in Versions \cup {None} /\ m.route \in Routes
      BY <2>2, <2>4 DEF Messages
    <3> HIDE DEF m
    <3>3. TypeOK'
      BY <2>1, <2>2, <3>1, <3>2 DEF OnResponse
    <3>4. Asked' /\ Numbered'
      BY <2>1, <2>2, <3>1, <3>2 DEF OnResponse, Asked, Numbered, WriteIn, Wrote
    <3>5. QED
      BY <3>3, <3>4
  <2>5. QED
    BY <2>3, <2>4
<1>5. CASE Reconnect
  <2>1. TypeOK'
    BY <1>5 DEF Reconnect
  <2>2. Asked' /\ Numbered'
    BY <1>5 DEF Reconnect, Asked, Numbered, WriteIn, Wrote
  <2>3. QED
    BY <2>1, <2>2
<1>6. ASSUME NEW r \in Routes, ServeNext(r) PROVE TInv'
  <2>1. /\ queue # <<>> /\ r = Head(queue) /\ queue' = Tail(queue)
        /\ UNCHANGED <<routeVars, nodeVars, up, losses, inbox,
                       base, leftover, own, unpublished, unsent, held, lost>>
    BY <1>6, ServeKinds DEF Serve
  <2>2. PICK v \in Versions \cup {None} :
          /\ serving' = Response(r, v)
          /\ v # None /\ action[r] = "write" => v.text = commits' /\ commits' = commits + 1
    <3>1. Stamped(commits) \in Versions
      BY DEF Stamped, Versions, Stamps, Numbered
    <3>2. commits < MaxCommits =>
             Stamped(commits + 1) \in Versions /\ Stamped(commits + 1).text = commits + 1
      BY DEF Stamped, Versions, Stamps, Numbered
    <3>3. QED
      BY <1>6, <3>1, <3>2, ServeKinds DEF Serve
  <2>3. serving' \in Messages /\ serving'.route = r /\ serving'.version = v
    BY <2>2 DEF Response, Messages
  <2>4. commits' \in Stamps /\ commits <= commits'
    BY <1>6, ServeKinds DEF Stamps
  <2>5. queue' \in Seq(Routes) /\ pc[r] # "new" /\ \A i \in DOMAIN queue' : pc[queue'[i]] # "new"
    <3>1. /\ 1 \in DOMAIN queue /\ Head(queue) = queue[1]
          /\ \A i \in DOMAIN queue' : i + 1 \in DOMAIN queue /\ queue'[i] = queue[i + 1]
      BY <2>1
    <3>2. QED
      BY <2>1, <3>1 DEF Asked
  <2>6. TypeOK'
    BY <1>6, <2>1, <2>3, <2>4, <2>5, ServeKinds
  <2>7. Asked'
    BY <2>1, <2>3, <2>5 DEF Asked
  <2>8. WriteIn(serving)' \subseteq base + 1 .. commits'
    BY <2>1, <2>2, <2>3, <2>4 DEF WriteIn, Wrote, Numbered, Stamps
  <2>9. Numbered'
    BY <2>1, <2>4, <2>8 DEF Numbered, Stamps
  <2>10. QED
    BY <2>6, <2>7, <2>9
<1>7. CASE Respond
  <2>1. /\ serving # None /\ serving' = None /\ inbox' = Append(inbox, serving)
        /\ UNCHANGED <<routeVars, nodeVars, up, losses, queue,
                       commits, base, leftover, unsent, held, lost>>
    BY <1>7 DEF Respond
  <2>2. serving \in Messages /\ serving.route # None
    BY <2>1 DEF Asked
  <2>3. /\ inbox' \in Seq(Messages)
        /\ \A i \in DOMAIN inbox' :
              inbox'[i] = serving \/ (i \in DOMAIN inbox /\ inbox'[i] = inbox[i])
    BY <2>1, <2>2, EventsAppend
  <2>4. /\ unpublished' = unpublished \cup WriteIn(serving)
        /\ own' \in {own} \cup WriteIn(serving)
        /\ {session, subscribed}' \subseteq BOOLEAN
    BY <1>7 DEF Respond, WriteIn
  <2>5. WriteIn(serving) \subseteq base + 1 .. commits /\ WriteIn(serving)' = {}
    BY <2>1 DEF Numbered, WriteIn, Wrote
  <2>6. TypeOK'
    BY <2>1, <2>3, <2>4, <2>5 DEF Stamps, Commits
  <2>7. Asked'
    BY <2>1 DEF Asked
  <2>8. Numbered'
    BY <2>1, <2>2, <2>3, <2>4, <2>5 DEF Numbered
  <2>9. QED
    BY <2>6, <2>7, <2>8
<1>8. ASSUME NEW k \in Commits, Publish(k) \/ NeverPublished(k) \/ HoldUp(k) PROVE TInv'
  <2>1. TypeOK'
    BY <1>8 DEF Publish, NeverPublished, HoldUp
  <2>2. Asked' /\ Numbered'
    BY <1>8 DEF Publish, NeverPublished, HoldUp, Asked, Numbered, WriteIn, Wrote
  <2>3. QED
    BY <2>1, <2>2
<1>9. ASSUME NEW k \in Commits, Deliver(k) PROVE TInv'
  <2>1. /\ k \in unsent /\ unsent' = unsent \ {k} /\ inbox' = Append(inbox, Event(k))
        /\ UNCHANGED <<routeVars, nodeVars, up, losses, queue, serving, session, subscribed,
                       commits, base, leftover, own, unpublished, held, lost>>
    BY <1>9 DEF Deliver
  <2>2. k \in 1 .. commits /\ Stamped(k) \in Versions /\ Stamped(k).text = k
    BY <2>1 DEF Numbered, Stamped, Versions, Stamps, Commits
  <2>3. Event(k) \in Messages /\ Event(k).version = Stamped(k)
    BY <2>2 DEF Event, Messages
  <2>4. /\ inbox' \in Seq(Messages)
        /\ \A i \in DOMAIN inbox' :
              inbox'[i] = Event(k) \/ (i \in DOMAIN inbox /\ inbox'[i] = inbox[i])
    BY <2>1, <2>3, EventsAppend
  <2>5. TypeOK' /\ Asked'
    BY <2>1, <2>4 DEF Asked
  <2>6. Numbered'
    BY <2>1, <2>2, <2>3, <2>4 DEF Numbered, WriteIn, Wrote
  <2>7. QED
    BY <2>5, <2>6
<1>10. CASE OtherCommits
  <2>1. TypeOK'
    BY <1>10 DEF OtherCommits, Stamps, Commits
  <2>2. Asked'
    BY <1>10 DEF OtherCommits, Asked
  <2>3. WriteIn(serving)' = WriteIn(serving)
    BY <1>10 DEF OtherCommits, WriteIn, Wrote
  <2>4. Numbered'
    BY <1>10, <2>3 DEF OtherCommits, Numbered, Stamps
  <2>5. QED
    BY <2>1, <2>2, <2>4
<1>11. CASE LoseSubscription
  BY <1>11 DEF LoseSubscription, Asked, Numbered, WriteIn, Wrote
<1>12. CASE LinkBreaks \/ ServerRestarts
  <2>1. /\ losses < MaxLosses /\ losses' = losses + 1 /\ up' = FALSE
        /\ queue' = <<>> /\ serving' = None /\ session' = FALSE /\ subscribed' = FALSE
        /\ unsent' = {} /\ held' = {} /\ own' = 0 /\ leftover' \in BOOLEAN
        /\ UNCHANGED <<routeVars, nodeVars, commits>>
    BY <1>12 DEF LinkBreaks, ServerRestarts, LinkEnds
  <2>2. \/ base' = base /\ unpublished' = unpublished
        \/ base' = commits /\ unpublished' = {}
    BY <1>12 DEF LinkBreaks, ServerRestarts
  <2>3. PICK n \in 0 .. Len(inbox) :
          /\ inbox' = SubSeq(inbox, 1, n)
          /\ lost' = lost \cup unsent \cup WriteIn(serving) \cup (unpublished \ unpublished')
                          \cup EventsIn(SubSeq(inbox, n + 1, Len(inbox)))
    BY <1>12 DEF LinkBreaks, ServerRestarts, LinkEnds
  <2>4. /\ inbox' \in Seq(Messages)
        /\ \A i \in DOMAIN inbox' : i \in DOMAIN inbox /\ inbox'[i] = inbox[i]
        /\ EventsIn(SubSeq(inbox, n + 1, Len(inbox))) \subseteq EventsIn(inbox)
    BY <2>3, EventsSplit
  <2>5. EventsIn(inbox) \subseteq Commits /\ WriteIn(serving) \subseteq Commits
    <3>1. 1 .. commits \subseteq Commits
      BY DEF Stamps, Commits
    <3>2. EventsIn(inbox) \subseteq 1 .. commits
      BY EventIn DEF Numbered
    <3>3. WriteIn(serving) \subseteq 1 .. commits
      BY DEF Numbered, Stamps
    <3>4. QED
      BY <3>1, <3>2, <3>3
  <2>6. lost' \subseteq Commits
    BY <2>3, <2>4, <2>5
  <2>7. queue' \in Seq(Routes) /\ losses' \in 0 .. MaxLosses /\ own' \in Stamps
    BY <2>1 DEF Stamps
  <2>8. TypeOK'
    BY <2>1, <2>2, <2>4, <2>6, <2>7
  <2>9. Asked'
    BY <2>1 DEF Asked
  <2>10. Numbered'
    BY <2>1, <2>2, <2>4 DEF Numbered, WriteIn, Wrote, Stamps
  <2>11. QED
    BY <2>8, <2>9, <2>10
<1>13. CASE UNCHANGED vars
  BY <1>13 DEF vars, Asked, Numbered, WriteIn, Wrote
<1>14. QED
  BY <1>1, <1>2, <1>3, <1>4, <1>5, <1>6, <1>7, <1>8, <1>9, <1>10, <1>11, <1>12, <1>13
     DEF Next, ListenerStep, ServerStep, Underway
-----------------------------------------------------------------------------
(* No commit goes missing. *)

(* A step that neither commits nor carries anything leaves all accounted.  *)
LEMMA AccountedKept ==
    ASSUME Accounted, commits' = commits, Coming \subseteq Coming' \cup lost' \cup applied',
           lost \subseteq lost', applied \subseteq applied'
    PROVE  Accounted'
BY DEF Accounted

LEMMA AccountedStep == TInv /\ Accounted /\ [Next]_vars => Accounted'
<1> SUFFICES ASSUME TInv, Accounted, [Next]_vars PROVE Accounted'
  OBVIOUS
<1> USE NodeAssumption, NoneAssumption
        DEF TInv, TypeOK, routeVars, copyVars, nodeVars, linkVars, fileVars
<1>1. ASSUME \/ \E r \in Routes : TimesOut(r) \/ Apply(r)
             \/ Reconnect \/ LoseSubscription \/ (\E k \in Commits : HoldUp(k)) \/ UNCHANGED vars
      PROVE  Accounted'
  <2>1. UNCHANGED <<action, commits, unpublished, unsent, serving, inbox, lost>>
        /\ applied' = applied
    BY <1>1 DEF TimesOut, Apply, ApplyLogin, ApplyLogout, ApplyRead, ApplyWrite, ReportError,
                Returns, Reconnect, LoseSubscription, HoldUp, vars
  <2>2. QED
    BY <2>1 DEF Accounted, Coming, WriteIn, Wrote
<1>2. ASSUME NEW r \in Routes, NEW a \in Actions, Ask(r, a) PROVE Accounted'
  <2>1. WriteIn(serving)' = WriteIn(serving)
    BY <1>2 DEF Ask, Asked, WriteIn, Wrote
  <2>2. QED
    BY <1>2, <2>1 DEF Ask, Accounted, Coming
<1>3. CASE Receive
  <2>1. /\ inbox # <<>> /\ inbox' = Tail(inbox)
        /\ UNCHANGED <<action, serving, commits, unpublished, unsent>>
    BY <1>3 DEF Receive, OnEvent, OnResponse
  <2>2. /\ Head(inbox) = inbox[1]
        /\ EventsIn(inbox) \subseteq EventsIn(inbox') \cup {inbox[1].version.text}
        /\ inbox[1].route # None => EventsIn(inbox) \subseteq EventsIn(inbox')
    BY <2>1, EventsTail
  <2>3. /\ lost \subseteq lost' /\ applied \subseteq applied'
        /\ inbox[1].route = None => inbox[1].version.text \in applied'
    BY <1>3, <2>2 DEF Receive, OnEvent, OnResponse
  <2>4. Coming \subseteq Coming' \cup applied'
    BY <2>1, <2>2, <2>3 DEF Coming, WriteIn, Wrote
  <2>5. QED
    BY <2>1, <2>3, <2>4, AccountedKept
<1>4. ASSUME NEW r \in Routes, ServeNext(r) PROVE Accounted'
  <2>1. /\ serving = None
        /\ UNCHANGED <<action, inbox, unpublished, unsent, lost, applied>>
    BY <1>4, ServeKinds DEF Serve
  <2>2. WriteIn(serving) = {}
    BY <2>1 DEF WriteIn, Wrote
  <2>3. CASE commits' = commits
    BY <2>1, <2>2, <2>3 DEF Accounted, Coming
  <2>4. CASE commits' = commits + 1
    <3>1. serving' = Response(r, Stamped(commits + 1)) /\ action[r] = "write"
          /\ commits < MaxCommits
      BY <1>4, <2>4, ServeKinds DEF Serve, Stamps
    <3>2. Stamped(commits + 1) \in Versions /\ Stamped(commits + 1).text = commits + 1
      BY <3>1 DEF Stamped, Versions, Stamps, Numbered
    <3>3. serving' \in Messages /\ serving'.route = r /\ serving'.version = Stamped(commits + 1)
      BY <3>1, <3>2 DEF Response, Messages
    <3>4. WriteIn(serving)' = {commits + 1}
      BY <2>1, <3>1, <3>2, <3>3 DEF WriteIn, Wrote
    <3>5. QED
      BY <2>1, <2>2, <2>4, <3>4 DEF Accounted, Coming, Stamps
  <2>5. QED
    BY <1>4, <2>3, <2>4, ServeKinds
<1>5. CASE Respond
  <2>1. /\ serving # None /\ inbox' = Append(inbox, serving)
        /\ UNCHANGED <<commits, unsent, lost, applied>>
    BY <1>5 DEF Respond
  <2>2. EventsIn(inbox) \subseteq EventsIn(inbox')
    BY <2>1, EventsAppend
  <2>3. unpublished' = unpublished \cup WriteIn(serving)
    BY <1>5 DEF Respond, WriteIn
  <2>4. Coming \subseteq Coming'
    BY <2>1, <2>2, <2>3 DEF Coming
  <2>5. QED
    BY <2>1, <2>4, AccountedKept
<1>6. ASSUME NEW k \in Commits, Publish(k) \/ NeverPublished(k) PROVE Accounted'
  <2>1. UNCHANGED <<action, commits, serving, inbox, applied>> /\ unpublished' = unpublished \ {k}
        /\ k \in unsent' \cup lost' /\ unsent \subseteq unsent' /\ lost \subseteq lost'
    BY <1>6 DEF Publish, NeverPublished
  <2>2. QED
    BY <2>1 DEF Accounted, Coming, WriteIn, Wrote
<1>7. ASSUME NEW k \in Commits, Deliver(k) PROVE Accounted'
  <2>1. /\ k \in unsent /\ unsent' = unsent \ {k} /\ inbox' = Append(inbox, Event(k))
        /\ UNCHANGED <<action, serving, commits, unpublished, lost, applied>>
    BY <1>7 DEF Deliver
  <2>2. k \in 1 .. commits /\ Stamped(k) \in Versions /\ Stamped(k).text = k
    BY <2>1 DEF Numbered, Stamped, Versions, Stamps, Commits
  <2>3. Event(k) \in Messages /\ Event(k).version = Stamped(k) /\ Event(k).route = None
    BY <2>2 DEF Event, Messages
  <2>4. EventsIn(inbox) \subseteq EventsIn(inbox') /\ k \in EventsIn(inbox')
    BY <2>1, <2>2, <2>3, EventsAppend
  <2>5. QED
    BY <2>1, <2>4 DEF Accounted, Coming, WriteIn, Wrote
<1>8. CASE OtherCommits
  BY <1>8 DEF OtherCommits, Accounted, Coming, WriteIn, Wrote, Stamps
<1>9. CASE LinkBreaks \/ ServerRestarts
  <2>1. /\ UNCHANGED <<routeVars, nodeVars, commits>>
    BY <1>9 DEF LinkBreaks, ServerRestarts, LinkEnds
  <2>2. PICK n \in 0 .. Len(inbox) :
          /\ inbox' = SubSeq(inbox, 1, n)
          /\ lost' = lost \cup unsent \cup WriteIn(serving) \cup (unpublished \ unpublished')
                          \cup EventsIn(SubSeq(inbox, n + 1, Len(inbox)))
    BY <1>9 DEF LinkBreaks, ServerRestarts, LinkEnds
  <2>3. EventsIn(inbox) \subseteq
            EventsIn(inbox') \cup EventsIn(SubSeq(inbox, n + 1, Len(inbox)))
    BY <2>2, EventsSplit
  <2>4. Coming \subseteq Coming' \cup lost'
    BY <2>2, <2>3 DEF Coming
  <2>5. QED
    BY <2>1, <2>2, <2>4, AccountedKept
<1>10. QED
  BY <1>1, <1>2, <1>3, <1>4, <1>5, <1>6, <1>7, <1>8, <1>9
     DEF Next, ListenerStep, ServerStep, Underway

(* An event that leaves a fresh copy fresh is for its text, or bears its   *)
(* stamp. *)
LEMMA AppliedMarkedStep == TInv /\ AppliedMarked /\ [Next]_vars => AppliedMarked'
<1> SUFFICES ASSUME TInv, AppliedMarked, [Next]_vars PROVE AppliedMarked'
  OBVIOUS
<1>1. ASSUME UNCHANGED <<content_version, content_loaded, content_stale, before_copy, applied>>,
             lost \subseteq lost'
      PROVE  AppliedMarked'
  BY <1>1 DEF AppliedMarked, Fresh
<1>2. ASSUME NEW r \in Routes, Apply(r) PROVE AppliedMarked'
  BY <1>2 DEF Apply, ApplyLogin, ApplyLogout, ApplyRead, ApplyWrite, ReportError, Returns, NoCopy,
              AppliedMarked, Fresh, nodeVars, copyVars, fileVars, TInv, TypeOK
<1>3. CASE Receive
  <2>1. CASE Head(inbox).route = None
    <3> DEFINE v == Head(inbox).version
    <3>1. OnEvent(v) /\ inbox # <<>>
      BY <1>3, <2>1 DEF Receive
    <3>2. 1 \in DOMAIN inbox /\ Head(inbox) = inbox[1]
      BY <3>1, EventsTail DEF TInv, TypeOK
    <3>3. v.text \in 1 .. commits
      BY <2>1, <3>2 DEF TInv, Numbered
    <3> HIDE DEF v
    <3>4. /\ content_stale' = (content_stale \/ IsNews(v))
          /\ applied' = applied \cup {v.text}
          /\ lost' = IF TakenForCopy(v) THEN lost \cup {v.text} ELSE lost
          /\ UNCHANGED <<content_version, content_loaded, before_copy>>
      BY <3>1 DEF OnEvent
    <3>5. ASSUME Fresh', content_version.text < v.text PROVE v.text \in lost'
      <4>1. content_loaded /\ ~IsNews(v)
        BY <3>4, <3>5 DEF Fresh
      <4>2. v # content_version
        BY <3>3, <3>5
      <4>3. TakenForCopy(v)
        BY <4>1, <4>2 DEF IsNews, TakenForCopy
      <4>4. QED
        BY <3>4, <4>3
    <3>6. QED
      BY <3>4, <3>5 DEF AppliedMarked, Fresh
  <2>2. CASE Head(inbox).route # None
    BY <1>1, <1>3, <2>2 DEF Receive, OnResponse, nodeVars, copyVars
  <2>3. QED
    BY <2>1, <2>2
<1>4. ASSUME \/ \E r \in Routes : TimesOut(r) \/ ServeNext(r) \/ \E a \in Actions : Ask(r, a)
             \/ Reconnect \/ Respond \/ OtherCommits \/ LoseSubscription
             \/ \E k \in Commits : Publish(k) \/ NeverPublished(k) \/ HoldUp(k) \/ Deliver(k)
             \/ LinkBreaks \/ ServerRestarts \/ UNCHANGED vars
      PROVE  AppliedMarked'
  <2>1. UNCHANGED <<content_version, content_loaded, content_stale, before_copy, applied>>
    BY <1>4 DEF TimesOut, Ask, Reconnect, Respond, OtherCommits, LoseSubscription, Publish,
                NeverPublished, HoldUp, Deliver, LinkBreaks, ServerRestarts, LinkEnds, ServeNext, Serve,
                ServeRefusal, ServeLogin, ServeRead, ServeWrite, ServeLogout,
                vars, nodeVars, copyVars
  <2>2. lost \subseteq lost'
    BY <1>4 DEF TimesOut, Ask, Reconnect, Respond, OtherCommits, LoseSubscription, Publish,
                NeverPublished, HoldUp, Deliver, LinkBreaks, ServerRestarts, LinkEnds, ServeNext, Serve,
                ServeRefusal, ServeLogin, ServeRead, ServeWrite, ServeLogout, vars, fileVars
  <2>3. QED
    BY <1>1, <2>1, <2>2
<1>5. QED
  BY <1>2, <1>3, <1>4 DEF Next, ListenerStep, ServerStep, Underway

LEMMA IInvHolds == Spec => []IInv
<1>1. IInv /\ [Next]_vars => IInv'
  BY TInvStep, AccountedStep, AppliedMarkedStep DEF IInv
<1>2. QED
  BY <1>1, InitInv, PTL DEF Spec

(* The variables keep their types: what a node shows is a version that the *)
(* server had, or None. *)
THEOREM TypeCorrect == Spec => []TypeOK
BY IInvHolds, PTL DEF IInv, TInv

(* A copy shown as fresh is older than the file only because of news that  *)
(* is still to come, was applied before the copy was, is lost with a       *)
(* connection or a server, or bears the copy's own stamp (_on_event,       *)
(* api_read, api_write on different threads). *)
THEOREM StaleOnlyIfExcused == Spec => []StaleUnlessMissed
<1>1. IInv => StaleUnlessMissed
  <2> SUFFICES ASSUME IInv, Fresh, NEW k \in Newer PROVE k \in Coming \cup Excused
    BY DEF StaleUnlessMissed
  <2>1. k \in 1 .. commits /\ content_version.text < k
    BY DEF Newer, Commits, IInv, TInv, TypeOK, Stamps
  <2>2. k \in Coming \cup lost \cup applied
    BY <2>1 DEF IInv, Accounted
  <2>3. QED
    BY <2>1, <2>2 DEF IInv, AppliedMarked, Excused
<1>2. QED
  BY <1>1, IInvHolds, PTL
=============================================================================
