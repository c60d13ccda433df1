------------------------------ MODULE RWLock ------------------------------
(***************************************************************************)
(* The readers-writer lock of rwlock.py: ReadWriteLock.                    *)
(*                                                                         *)
(* Every method runs under the mutex _lock from beginning to end, except   *)
(* inside Condition.wait, so one stretch between two points at which the   *)
(* mutex is free is one action.  A thread calls acquire_* (the deadline is *)
(* computed before the mutex is requested), enters the mutex and runs the  *)
(* while loop once; if it must wait it joins the waiters of its condition  *)
(* variable, and each time it gets the mutex back it runs the loop again.  *)
(*                                                                         *)
(* Condition.wait leaves a thread whose wait timed out among the waiters   *)
(* until it has the mutex again: such a thread may still consume a notify. *)
(***************************************************************************)
EXTENDS Integers, FiniteSets

CONSTANTS
    Readers,    \* the threads that may call acquire_read
    Writers     \* the threads that may call acquire_write

Threads == Readers \cup Writers

ASSUME ThreadsFinite == IsFiniteSet(Threads)

VARIABLES
    active_readers,   \* _active_readers
    active_writers,   \* _active_writers
    waiting_writers,  \* _waiting_writers
    readers_ok,       \* the waiters of _readers_ok, minus those notified
    writers_ok,       \* the waiters of _writers_ok, minus those notified
    pc,               \* where each thread is
    expired           \* whether the deadline of a thread's acquire has passed

counters == <<active_readers, active_writers, waiting_writers>>
conditions == <<readers_ok, writers_ok>>
lockVars == <<counters, conditions, pc, expired>>

(* Where a thread can be.  "want_..." has called and has not had the mutex *)
(* yet, "wait_..." is inside Condition.wait, "timed_out" was told False.   *)
Free      == {"idle", "timed_out"}
Acquiring == {"want_read", "wait_read", "want_write", "wait_write"}
Inside    == {"reading", "writing"}

At(place) == {t \in Threads : pc[t] = place}

TypeOK ==
    /\ active_readers \in Nat
    /\ active_writers \in Nat
    /\ waiting_writers \in Nat
    /\ readers_ok \in SUBSET Readers
    /\ writers_ok \in SUBSET Writers
    /\ pc \in [Threads -> Free \cup Acquiring \cup Inside]
    /\ expired \in [Threads -> BOOLEAN]

Init ==
    /\ active_readers = 0
    /\ active_writers = 0
    /\ waiting_writers = 0
    /\ readers_ok = {}
    /\ writers_ok = {}
    /\ pc = [t \in Threads |-> "idle"]
    /\ expired = [t \in Threads |-> FALSE]

-----------------------------------------------------------------------------
(* The two while conditions. *)

ReaderBlockedByActive == active_writers > 0
ReaderBlocked == active_writers > 0 \/ waiting_writers > 0

WriterBlockedByWriter == active_writers > 0
WriterBlocked == active_readers > 0 \/ active_writers > 0

(* "remaining <= 0" is looked at only after the lock was found unavailable. *)
OutOfTimeFirst(t, blocked) == expired[t]
OutOfTimeNever(t, blocked) == FALSE
OutOfTime(t, blocked) == blocked /\ expired[t]

(* A thread inside wait goes for the mutex when notified or out of time. *)
Awake(t, waiters) == t \notin waiters \/ expired[t]

(* Condition.notify() and notify_all(): which waiters remain. *)
NotifyNone(waiters) == {waiters}
Notify(waiters) ==
    IF waiters = {} THEN {{}} ELSE {waiters \ {t} : t \in waiters}
NotifyAll(waiters) == {}

(* The finally clause of acquire_write: this thread no longer waits. *)
KeepAnnounced(queued) == queued
WithdrawTwice(queued) == queued - 2
Withdraw(queued) == queued - 1

MoveTo(t, place) == pc' = [pc EXCEPT ![t] = place]

(* Leaving acquire_*: the thread's deadline is forgotten. *)
Return(t, place) ==
    /\ MoveTo(t, place)
    /\ expired' = [expired EXCEPT ![t] = FALSE]

-----------------------------------------------------------------------------
(* acquire_read *)

CallAcquireRead(t) ==
    /\ pc[t] \in Free
    /\ MoveTo(t, "want_read")
    /\ UNCHANGED <<counters, conditions, expired>>

(* One evaluation of the while condition and what follows it: admitted,    *)
(* refused, or parked on _readers_ok.                                      *)
ReadLoop(t) ==
    /\ \/ /\ ~ReaderBlocked
          /\ active_readers' = active_readers + 1
          /\ readers_ok' = readers_ok \ {t}
          /\ Return(t, "reading")
       \/ /\ OutOfTime(t, ReaderBlocked)
          /\ readers_ok' = readers_ok \ {t}
          /\ Return(t, "timed_out")
          /\ UNCHANGED active_readers
       \/ /\ ReaderBlocked /\ ~expired[t]
          /\ readers_ok' = readers_ok \cup {t}
          /\ MoveTo(t, "wait_read")
          /\ UNCHANGED <<active_readers, expired>>
    /\ UNCHANGED <<active_writers, waiting_writers, writers_ok>>

EnterAcquireRead(t) ==
    /\ pc[t] = "want_read"
    /\ ReadLoop(t)

WakeReader(t) ==
    /\ pc[t] = "wait_read"
    /\ Awake(t, readers_ok)
    /\ ReadLoop(t)

(* release_read: the last reader out wakes one writer. *)
ReleaseRead(t) ==
    /\ pc[t] = "reading"
    /\ active_readers' = active_readers - 1
    /\ writers_ok' \in
          IF active_readers' = 0 THEN Notify(writers_ok) ELSE {writers_ok}
    /\ MoveTo(t, "idle")
    /\ UNCHANGED <<active_writers, waiting_writers, readers_ok, expired>>

-----------------------------------------------------------------------------
(* acquire_write *)

CallAcquireWrite(t) ==
    /\ pc[t] \in Free
    /\ MoveTo(t, "want_write")
    /\ UNCHANGED <<counters, conditions, expired>>

(* One evaluation of the while condition by a writer that has announced    *)
(* itself: queued is _waiting_writers with this thread counted, and the    *)
(* finally clause takes it off again on both ways out.                     *)
WriteLoop(t, queued) ==
    /\ \/ /\ ~WriterBlocked
          /\ active_writers' = active_writers + 1
          /\ waiting_writers' = Withdraw(queued)
          /\ writers_ok' = writers_ok \ {t}
          /\ Return(t, "writing")
       \/ /\ OutOfTime(t, WriterBlocked)
          /\ waiting_writers' = Withdraw(queued)
          /\ writers_ok' = writers_ok \ {t}
          /\ Return(t, "timed_out")
          /\ UNCHANGED active_writers
       \/ /\ WriterBlocked /\ ~expired[t]
          /\ waiting_writers' = queued
          /\ writers_ok' = writers_ok \cup {t}
          /\ MoveTo(t, "wait_write")
          /\ UNCHANGED <<active_writers, expired>>
    /\ UNCHANGED <<active_readers, readers_ok>>

EnterAcquireWrite(t) ==
    /\ pc[t] = "want_write"
    /\ WriteLoop(t, waiting_writers + 1)

WakeWriter(t) ==
    /\ pc[t] = "wait_write"
    /\ Awake(t, writers_ok)
    /\ WriteLoop(t, waiting_writers)

(* release_write wakes every waiting reader and one waiting writer. *)
ReleaseWrite(t) ==
    /\ pc[t] = "writing"
    /\ active_writers' = active_writers - 1
    /\ readers_ok' = NotifyAll(readers_ok)
    /\ writers_ok' \in Notify(writers_ok)
    /\ MoveTo(t, "idle")
    /\ UNCHANGED <<active_readers, waiting_writers, expired>>

-----------------------------------------------------------------------------
(* time.time() passes the deadline of a pending acquire. *)
Expire(t) ==
    /\ pc[t] \in Acquiring
    /\ ~expired[t]
    /\ expired' = [expired EXCEPT ![t] = TRUE]
    /\ UNCHANGED <<counters, conditions, pc>>

ReaderNext(t) ==
    \/ CallAcquireRead(t)
    \/ EnterAcquireRead(t)
    \/ WakeReader(t)
    \/ ReleaseRead(t)

WriterNext(t) ==
    \/ CallAcquireWrite(t)
    \/ EnterAcquireWrite(t)
    \/ WakeWriter(t)
    \/ ReleaseWrite(t)

Next ==
    \/ \E t \in Readers : ReaderNext(t)
    \/ \E t \in Writers : WriterNext(t)
    \/ \E t \in Threads : Expire(t)

Spec == Init /\ [][Next]_lockVars

(* A thread that has called acquire_* is scheduled, and whoever is inside  *)
(* leaves; nobody is obliged to call, and no deadline has to pass.         *)
Progress ==
    /\ \A t \in Readers :
          WF_lockVars(EnterAcquireRead(t) \/ WakeReader(t) \/ ReleaseRead(t))
    /\ \A t \in Writers :
          WF_lockVars(EnterAcquireWrite(t) \/ WakeWriter(t) \/ ReleaseWrite(t))

ProgressSpec == Spec /\ Progress

-----------------------------------------------------------------------------
(* Properties.                                                             *)

(* A writer is alone inside: the guarantee every file access rests on      *)
(* (rwlock.py acquire_read and acquire_write). *)
MutualExclusion ==
    \A w \in At("writing") : At("reading") = {} /\ At("writing") = {w}

(* The three counters are exact in every state in which the mutex is free, *)
(* whatever mix of admissions, timeouts and releases came before: a count  *)
(* left behind by one timed-out writer would shut every reader out for     *)
(* good (the finally clause of acquire_write). *)
CountersExact ==
    /\ active_readers = Cardinality(At("reading"))
    /\ active_writers = Cardinality(At("writing"))
    /\ waiting_writers = Cardinality(At("wait_write"))

(* No writer sleeps through a free lock: when nobody is inside and writers *)
(* are queued, one of them has been notified and is on its way to the      *)
(* mutex (the notify calls of release_read and release_write). *)
NoLostWriterWakeup ==
    active_readers = 0 /\ active_writers = 0 =>
        \/ At("wait_write") = {}
        \/ \E w \in At("wait_write") : w \notin writers_ok

(* False is returned only to a thread that could not have been admitted at *)
(* that very instant: passing the deadline does not by itself refuse a     *)
(* thread that finds the lock available (order of the tests in the loops). *)
RefusedOnlyWhenBlocked ==
    [][\A t \in Threads :
          pc[t] # "timed_out" /\ pc'[t] = "timed_out" =>
            \/ At("writing") # {}
            \/ pc[t] \in {"want_read", "wait_read"} /\ At("wait_write") # {}
            \/ pc[t] \in {"want_write", "wait_write"} /\ At("reading") # {}
      ]_lockVars

(* The lock implements its abstract promise, writer preference included.   *)
Abstract == INSTANCE AbstractRWLock WITH
    reading <- At("reading"),
    writing <- At("writing"),
    queued  <- At("wait_write")

ImplementsAbstract == Abstract!Spec

(* A stream of readers cannot keep a queued writer out: even if its        *)
(* deadline never passes, some writer gets in (rwlock.py, writer           *)
(* preference).  A writer may lose to another writer, never to readers.    *)
ReadersCannotStarveWriter ==
    \A w \in Writers :
        pc[w] = "wait_write" ~> (expired[w] \/ At("writing") # {})
=============================================================================
