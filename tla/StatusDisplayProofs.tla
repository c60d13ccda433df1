------------------------ MODULE StatusDisplayProofs ------------------------
(***************************************************************************)
(* Theorems about StatusDisplay, for any finite set of handlers and any    *)
(* set of users.                                                           *)
(*                                                                         *)
(* The handlers use the lock as RWLock allows, so its invariant holds here *)
(* too; exclusion is what lets one writer's entry stand for all.  With the *)
(* place of a handler in the lock tied to its stage around the call of the *)
(* data layer (Staged), and a user that is not in doubled served by one    *)
(* handler at most (Single), the two properties of the display are         *)
(* inductive: whoever takes a user off is then the handler it stands for.  *)
(***************************************************************************)
EXTENDS StatusDisplay, RWLockProofs

Staged ==
    \A t \in Threads :
        /\ pc[t] \in Acquiring => stage[t] = "call"
        /\ pc[t] \in Inside => stage[t] \in {"call", "shown", "failed"}
        /\ stage[t] \in {"shown", "failed"} => pc[t] \in Inside

(* Registering, at work or about to clear, a handler has a session. *)
InSession ==
    \A t \in Threads : stage[t] \notin {"recv", "reply", "cleanup"} => user_id[t] \in Users

Single ==
    \A t \in Threads : user_id[t] \in Users \ doubled =>
        \A s \in Threads \ {t} : user_id[s] # user_id[t]

DisplayInv ==
    DisplayTypeOK /\ Staged /\ InSession /\ Single /\ HoldersShown /\ ShownNoLonger

-----------------------------------------------------------------------------
(* The use of the lock. *)

LEMMA EveryHandlerBoth == Threads = Readers /\ Threads = Writers
BY DisplayAssumption DEF Threads

LEMMA DisplayStepsLock == [DisplayNext]_vars => [Next]_lockVars
<1> SUFFICES ASSUME [DisplayNext]_vars PROVE [Next]_lockVars
  OBVIOUS
<1>1. CASE UNCHANGED vars
  BY <1>1 DEF vars
<1>2. ASSUME NEW t \in Threads,
             ClientStep(t) \/ HandlerStep(t) \/ FileRaises(t) \/ Reply(t) \/ Tick(t)
      PROVE  [Next]_lockVars
  <2>1. \/ ReaderNext(t) \/ WriterNext(t) \/ Expire(t)
        \/ UNCHANGED lockVars
    BY <1>2 DEF ClientStep, CheckLogin, Request, Logout, Disconnect, HandlerStep, Register,
                Acquire, OnAcquired, Finish, Clear, Cleanup, ReleaseSession, FileRaises, Reply,
                Tick, ReaderNext, WriterNext
  <2>2. QED
    BY <2>1, EveryHandlerBoth DEF Next
<1>3. QED
  BY <1>1, <1>2 DEF DisplayNext

(* Whatever the handlers and the display do, the lock under them is the    *)
(* lock of RWLock: its theorems hold here (data_layer.py read and write,   *)
(* each of which acquires, and releases in its finally clause).            *)
THEOREM LockAsSpecified == DisplaySpec => Spec
<1>1. DisplayInit => Init
  BY DEF DisplayInit
<1>2. QED
  BY <1>1, DisplayStepsLock, PTL DEF DisplaySpec, Spec

(* One pass of a loop moves the handler to its outcome. *)
LEMMA AcquireMoves ==
    ASSUME TypeOK, NEW t \in Threads, Acquire(t)
    PROVE  /\ pc[t] \in Acquiring
           /\ \E place \in {"reading", "writing", "wait_read", "wait_write", "timed_out"} :
                /\ pc' = [pc EXCEPT ![t] = place]
                /\ \E next \in {"call", "clear_read", "clear_write"} :
                     /\ stage' = [stage EXCEPT ![t] = next]
                     /\ next = "call" <=> place # "timed_out"
           /\ UNCHANGED <<sessionVars, registries>>
BY DEF Acquire, AfterAcquire, GoOn, EnterAcquireRead, WakeReader, EnterAcquireWrite, WakeWriter,
       ReadLoop, WriteLoop, Return, MoveTo, TypeOK, Acquiring

-----------------------------------------------------------------------------
LEMMA DisplayInvInit == DisplayInit => DisplayInv
BY DisplayAssumption
   DEF DisplayInit, Init, DisplayInv, DisplayTypeOK, Staged, InSession, Single, HoldersShown,
       ShownNoLonger, Acquiring, Inside

(* Taking a session on or giving it up keeps the bookkeeping of doubled. *)
LEMMA ServeStep ==
    ASSUME DisplayTypeOK, Single, NEW t \in Threads, NEW user \in Users \cup {None},
           Serve(t, user)
    PROVE  /\ Single'
           /\ user_id' \in [Threads -> Users \cup {None}]
           /\ doubled' \in SUBSET Users
           /\ \A s \in Threads \ {t} : user_id'[s] = user_id[s]
           /\ user_id'[t] = user
           /\ \A s \in Threads : user_id[s] \in doubled /\ user_id'[s] = user_id[s]
                                  => user_id[s] \in doubled'
BY DEF DisplayTypeOK, Single, Serve

LEMMA DisplayInvStep == TypeOK /\ MutualExclusion /\ DisplayInv /\ [DisplayNext]_vars => DisplayInv'
<1> SUFFICES ASSUME TypeOK, MutualExclusion, DisplayInv, [DisplayNext]_vars PROVE DisplayInv'
  OBVIOUS
<1> USE DisplayAssumption
        DEF TypeOK, DisplayInv, DisplayTypeOK, Staged, InSession, Single, HoldersShown,
            ShownNoLonger, Behind, Free, Acquiring, Inside, GoOn, MoveTo, sessionVars, registries
<1>1. ASSUME NEW t \in Threads, NEW user \in Users, CheckLogin(t, user) PROVE DisplayInv'
  BY <1>1, ServeStep DEF CheckLogin, lockVars
<1>2. ASSUME NEW t \in Threads, Register(t) PROVE DisplayInv'
  BY <1>2 DEF Register, lockVars
<1>3. ASSUME NEW t \in Threads, Request(t) PROVE DisplayInv'
  BY <1>3 DEF Request, CallAcquireRead, CallAcquireWrite
<1>4. ASSUME NEW t \in Threads, Logout(t) PROVE DisplayInv'
  BY <1>4, ServeStep DEF Logout, ReleaseSession, WithoutReader, WithoutWriter, lockVars
<1>5. ASSUME NEW t \in Threads, Disconnect(t) PROVE DisplayInv'
  BY <1>5 DEF Disconnect, lockVars
<1>6. ASSUME NEW t \in Threads, Acquire(t) PROVE DisplayInv'
  BY <1>6, AcquireMoves
<1>7. ASSUME NEW t \in Threads, OnAcquired(t) PROVE DisplayInv'
  BY <1>7 DEF OnAcquired, lockVars, MutualExclusion, At
<1>8. ASSUME NEW t \in Threads, FileRaises(t) PROVE DisplayInv'
  BY <1>8 DEF FileRaises, lockVars
<1>9. ASSUME NEW t \in Threads, Finish(t) PROVE DisplayInv'
  BY <1>9 DEF Finish, AfterRelease, ReleaseRead, ReleaseWrite, Over
<1>10. ASSUME NEW t \in Threads, Clear(t) PROVE DisplayInv'
  BY <1>10 DEF Clear, WithoutWriter, lockVars
<1>11. ASSUME NEW t \in Threads, Reply(t) PROVE DisplayInv'
  BY <1>11 DEF Reply, lockVars
<1>12. ASSUME NEW t \in Threads, Cleanup(t) PROVE DisplayInv'
  BY <1>12, ServeStep DEF Cleanup, ReleaseSession, WithoutReader, WithoutWriter, lockVars
<1>13. ASSUME NEW t \in Threads, Tick(t) PROVE DisplayInv'
  BY <1>13 DEF Tick, Expire, displayVars
<1>14. CASE UNCHANGED vars
  BY <1>14 DEF vars, lockVars, displayVars
<1>15. QED
  BY <1>1, <1>2, <1>3, <1>4, <1>5, <1>6, <1>7, <1>8, <1>9, <1>10, <1>11, <1>12, <1>13, <1>14
     DEF DisplayNext, ClientStep, HandlerStep

LEMMA DisplayInvHolds == DisplaySpec => []DisplayInv
<1>1. IInv => TypeOK /\ MutualExclusion
  BY DEF IInv
<1>2. QED
  BY <1>1, LockAsSpecified, Invariance, DisplayInvInit, DisplayInvStep, PTL DEF DisplaySpec

(* The registries and the stages of the handlers keep their types.         *)
THEOREM DisplayTypeCorrect == DisplaySpec => []DisplayTypeOK
BY DisplayInvHolds, PTL DEF DisplayInv

(* Whoever works on the file is shown, for any number of handlers that log *)
(* in, enter, fail, clear their users' entries and clean up in any order,  *)
(* unless two of them have served its user at once (set_reader, set_writer *)
(* and unregister_session, which all go by user id).                       *)
THEOREM Displayed == DisplaySpec => []HoldersShown
BY DisplayInvHolds, PTL DEF DisplayInv

(* No entry outlives the requests it stands for, whatever raised and       *)
(* however many handlers serve its user.                                   *)
THEOREM NoGhosts == DisplaySpec => []ShownNoLonger
BY DisplayInvHolds, PTL DEF DisplayInv
=============================================================================
