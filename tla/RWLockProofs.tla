--------------------------- MODULE RWLockProofs ---------------------------
(***************************************************************************)
(* Theorems about RWLock, for any finite sets of readers and writers.      *)
(*                                                                         *)
(* The counters are tied to the sets of threads they count (CountersExact),*)
(* the condition variables to the threads inside wait (ParkedOnlyWaiters); *)
(* with these two the safety properties become inductive.                  *)
(***************************************************************************)
EXTENDS RWLock, FiniteSetTheorems, TLAPS

(* The waiters of a condition variable are threads inside its wait. *)
ParkedOnlyWaiters ==
    /\ readers_ok \subseteq At("wait_read")
    /\ writers_ok \subseteq At("wait_write")

IInv ==
    /\ TypeOK
    /\ CountersExact
    /\ ParkedOnlyWaiters
    /\ MutualExclusion
    /\ NoLostWriterWakeup

Places == Free \cup Acquiring \cup Inside

-----------------------------------------------------------------------------
(* How At changes when one thread moves. *)

(* A move adds the thread to the place it goes to and takes it from every  *)
(* other place. *)
LEMMA MoveAt ==
    ASSUME TypeOK, NEW t \in Threads, NEW place, MoveTo(t, place), NEW q
    PROVE  At(q)' = IF q = place THEN At(q) \cup {t} ELSE At(q) \ {t}
BY DEF TypeOK, MoveTo, At

(* A place the thread neither leaves nor enters keeps its threads. *)
LEMMA StayAt ==
    ASSUME TypeOK, NEW t \in Threads, NEW place, MoveTo(t, place),
           NEW q, q # place, q # pc[t]
    PROVE  At(q)' = At(q)
BY DEF TypeOK, MoveTo, At

LEMMA AtFinite ==
    ASSUME NEW q
    PROVE  /\ IsFiniteSet(At(q))
           /\ Cardinality(At(q)) \in Nat
           /\ Cardinality(At(q)) = 0 <=> At(q) = {}
<1>1. At(q) \in SUBSET Threads
  BY DEF At
<1>2. IsFiniteSet(At(q))
  BY <1>1, ThreadsFinite, FS_Subset
<1>3. QED
  BY <1>2, FS_CardinalityType, FS_EmptySet

(* A thread that moves from one place to another is counted there instead. *)
LEMMA MoveCount ==
    ASSUME TypeOK, NEW t \in Threads, NEW place, MoveTo(t, place),
           pc[t] # place, NEW q
    PROVE  Cardinality(At(q)') = Cardinality(At(q))
                                 + (IF q = place THEN 1 ELSE 0)
                                 - (IF q = pc[t] THEN 1 ELSE 0)
<1>1. CASE q = place
  <2>1. At(q)' = At(q) \cup {t} /\ t \notin At(q)
    BY <1>1, MoveAt DEF At
  <2>2. QED
    BY <1>1, <2>1, AtFinite, FS_AddElement
<1>2. CASE q # place
  <2>1. At(q)' = At(q) \ {t} /\ (t \in At(q) <=> q = pc[t])
    BY <1>2, MoveAt DEF At
  <2>2. IsFiniteSet(At(q))
    BY AtFinite
  <2>3. CASE q = pc[t]
    <3>1. Cardinality(At(q) \ {t}) = Cardinality(At(q)) - 1
      BY <2>1, <2>2, <2>3, FS_RemoveElement
    <3>2. Cardinality(At(q)) \in Nat
      BY <2>2, FS_CardinalityType
    <3>3. QED
      BY <1>2, <2>1, <2>3, <3>1, <3>2
  <2>4. CASE q # pc[t]
    <3>1. At(q)' = At(q)
      BY <2>1, <2>4
    <3>2. Cardinality(At(q)) \in Nat
      BY <2>2, FS_CardinalityType
    <3>3. QED
      BY <1>2, <2>4, <3>1, <3>2
  <2>5. QED
    BY <2>3, <2>4
<1>3. QED
  BY <1>1, <1>2

(* With exact counters a zero counter means an empty place. *)
LEMMA EmptyPlaces ==
    ASSUME CountersExact
    PROVE  /\ active_readers \in Nat /\ active_writers \in Nat
           /\ waiting_writers \in Nat
           /\ active_readers = 0 <=> At("reading") = {}
           /\ active_writers = 0 <=> At("writing") = {}
           /\ waiting_writers = 0 <=> At("wait_write") = {}
BY AtFinite DEF CountersExact

-----------------------------------------------------------------------------
(* The inductive invariant. *)

LEMMA InitInv == Init => IInv
<1> SUFFICES ASSUME Init PROVE IInv
  OBVIOUS
<1>1. \A q : q # "idle" => At(q) = {}
  BY DEF Init, At
<1>2. TypeOK
  BY DEF Init, TypeOK, Free
<1>3. CountersExact
  BY <1>1, FS_EmptySet DEF Init, CountersExact
<1>4. ParkedOnlyWaiters /\ MutualExclusion /\ NoLostWriterWakeup
  BY <1>1 DEF Init, ParkedOnlyWaiters, MutualExclusion, NoLostWriterWakeup
<1>5. QED
  BY <1>2, <1>3, <1>4 DEF IInv

(* Requesting the mutex or running out of time moves nobody in or out. *)
LEMMA CallInv ==
    ASSUME IInv, NEW t \in Threads,
           CallAcquireRead(t) \/ CallAcquireWrite(t)
    PROVE  IInv'
<1> USE DEF IInv
<1>1. PICK place \in {"want_read", "want_write"} : MoveTo(t, place)
  BY DEF CallAcquireRead, CallAcquireWrite
<1>2. pc[t] \in Free /\ UNCHANGED <<counters, conditions, expired>>
  BY DEF CallAcquireRead, CallAcquireWrite
<1>3. \A q \in {"reading", "writing", "wait_read", "wait_write"} : At(q)' = At(q)
  BY <1>1, <1>2, MoveAt DEF At, Free
<1>4. TypeOK'
  BY <1>1, <1>2 DEF TypeOK, MoveTo, Acquiring, counters, conditions
<1>5. CountersExact' /\ ParkedOnlyWaiters' /\ MutualExclusion' /\ NoLostWriterWakeup'
  BY <1>2, <1>3 DEF CountersExact, ParkedOnlyWaiters, MutualExclusion,
                    NoLostWriterWakeup, counters, conditions
<1>6. QED
  BY <1>4, <1>5

LEMMA ExpireInv ==
    ASSUME IInv, NEW t \in Threads, Expire(t)
    PROVE  IInv'
BY DEF IInv, Expire, TypeOK, CountersExact, ParkedOnlyWaiters, MutualExclusion,
       NoLostWriterWakeup, At, counters, conditions

(* One pass of the loop of acquire_read, from entry or after a wait. *)
LEMMA ReadLoopInv ==
    ASSUME IInv, NEW t \in Readers, pc[t] \in {"want_read", "wait_read"},
           ReadLoop(t)
    PROVE  IInv'
<1> USE DEF IInv
<1>0. t \in Threads
  BY DEF Threads
<1>1. CASE ~ReaderBlocked /\ MoveTo(t, "reading")
  <2>1. /\ active_readers' = active_readers + 1
        /\ readers_ok' = readers_ok \ {t}
        /\ UNCHANGED <<active_writers, waiting_writers, writers_ok>>
        /\ expired' = [expired EXCEPT ![t] = FALSE]
    BY <1>0, <1>1 DEF ReadLoop, Return, MoveTo, OutOfTime, TypeOK
  <2>2. TypeOK'
    BY <1>0, <1>1, <2>1 DEF TypeOK, MoveTo, Inside
  <2>3. CountersExact'
    BY <1>0, <1>1, <2>1, MoveCount, AtFinite DEF CountersExact, TypeOK
  <2>4. ParkedOnlyWaiters'
    <3>1. /\ At("wait_read")' = At("wait_read") \ {t}
          /\ At("wait_write")' = At("wait_write")
      BY <1>0, <1>1, MoveAt DEF At
    <3>2. QED
      BY <2>1, <3>1 DEF ParkedOnlyWaiters
  <2>5. At("writing") = {} /\ At("writing")' = {}
    BY <1>0, <1>1, MoveAt, EmptyPlaces DEF ReaderBlocked
  <2>6. MutualExclusion' /\ NoLostWriterWakeup'
    BY <2>1, <2>2, <2>5, EmptyPlaces DEF MutualExclusion, NoLostWriterWakeup, TypeOK
  <2>7. QED
    BY <2>2, <2>3, <2>4, <2>6
<1>2. CASE ReaderBlocked /\ pc'[t] # "reading"
  <2>1. PICK place \in {"timed_out", "wait_read"} :
          /\ MoveTo(t, place)
          /\ readers_ok' = IF place = "wait_read" THEN readers_ok \cup {t}
                                                  ELSE readers_ok \ {t}
          /\ expired' \in [Threads -> BOOLEAN]
    BY <1>0, <1>2 DEF ReadLoop, Return, OutOfTime, TypeOK, MoveTo
  <2>2. UNCHANGED <<counters, writers_ok>>
    BY <1>2 DEF ReadLoop, counters, ReaderBlocked
  <2>3. \A q \in {"reading", "writing", "wait_write"} : At(q)' = At(q)
    BY <1>0, <2>1, MoveAt DEF At
  <2>4. TypeOK'
    BY <1>0, <2>1, <2>2 DEF TypeOK, MoveTo, Acquiring, Free, counters
  <2>5. ParkedOnlyWaiters'
    BY <1>0, <2>1, <2>2, <2>3, MoveAt DEF ParkedOnlyWaiters
  <2>6. CountersExact' /\ MutualExclusion' /\ NoLostWriterWakeup'
    BY <2>2, <2>3 DEF CountersExact, MutualExclusion, NoLostWriterWakeup, counters
  <2>7. QED
    BY <2>4, <2>5, <2>6
<1>3. QED
  BY <1>0, <1>1, <1>2 DEF ReadLoop, Return, OutOfTime, MoveTo, TypeOK

(* release_read.  The last reader out of a lock with queued writers leaves *)
(* one of them notified: NoLostWriterWakeup is restored by the notify.     *)
LEMMA ReleaseReadInv ==
    ASSUME IInv, NEW t \in Readers, ReleaseRead(t)
    PROVE  IInv'
<1> USE DEF IInv
<1>0. t \in Threads
  BY DEF Threads
<1>1. /\ pc[t] = "reading"
      /\ MoveTo(t, "idle")
      /\ active_readers' = active_readers - 1
      /\ writers_ok' \subseteq writers_ok
      /\ active_readers' = 0 => \/ writers_ok' = {}
                                \/ \E w \in writers_ok : w \notin writers_ok'
      /\ UNCHANGED <<active_writers, waiting_writers, readers_ok, expired>>
  BY DEF ReleaseRead, Notify
<1>2. CountersExact'
  BY <1>0, <1>1, MoveCount, AtFinite DEF CountersExact
<1>3. /\ At("reading")' = At("reading") \ {t}
      /\ At("writing")' = At("writing")
      /\ At("wait_read")' = At("wait_read")
      /\ At("wait_write")' = At("wait_write")
  BY <1>0, <1>1, MoveAt, StayAt
<1>4. TypeOK'
  <2>1. active_readers' \in Nat
    BY <1>0, <1>1, EmptyPlaces DEF At
  <2>2. QED
    BY <1>0, <1>1, <2>1 DEF TypeOK, MoveTo, Free
<1>5. ParkedOnlyWaiters' /\ MutualExclusion'
  BY <1>1, <1>3 DEF ParkedOnlyWaiters, MutualExclusion
<1>6. NoLostWriterWakeup'
  BY <1>1, <1>3 DEF NoLostWriterWakeup, ParkedOnlyWaiters
<1>7. QED
  BY <1>2, <1>4, <1>5, <1>6

(* One pass of the loop of acquire_write; queued counts this thread.  A    *)
(* writer that gives up or parks does so because somebody is inside, whose *)
(* release will notify.                                                    *)
LEMMA WriteLoopInv ==
    ASSUME IInv, NEW t \in Writers, NEW queued,
           \/ pc[t] = "want_write" /\ queued = waiting_writers + 1
           \/ pc[t] = "wait_write" /\ queued = waiting_writers,
           WriteLoop(t, queued)
    PROVE  IInv'
<1> USE DEF IInv
<1>0. t \in Threads /\ waiting_writers \in Nat
  BY DEF Threads, TypeOK
<1>1. /\ UNCHANGED <<active_readers, readers_ok>>
      /\ pc[t] \in {"want_write", "wait_write"}
      /\ expired' \in [Threads -> BOOLEAN]
  BY <1>0 DEF WriteLoop, Return, TypeOK
<1>. waiting_writers + 1 # 0 /\ queued \in Nat \ {0}
  BY <1>0, EmptyPlaces DEF At
<1>2. CASE ~WriterBlocked
  <2>1. /\ MoveTo(t, "writing")
        /\ active_writers' = active_writers + 1
        /\ waiting_writers' = queued - 1
        /\ writers_ok' = writers_ok \ {t}
    BY <1>2 DEF WriteLoop, OutOfTime, Return, Withdraw
  <2>2. CountersExact'
    <3>1. CASE pc[t] = "want_write"
      BY <1>0, <1>1, <2>1, <3>1, MoveCount, AtFinite DEF CountersExact
    <3>2. CASE pc[t] = "wait_write"
      BY <1>0, <1>1, <2>1, <3>2, MoveCount, AtFinite DEF CountersExact
    <3>3. QED
      BY <1>1, <3>1, <3>2
  <2>3. TypeOK'
    BY <1>0, <1>1, <2>1 DEF TypeOK, MoveTo, Inside
  <2>4. /\ At("wait_write")' = At("wait_write") \ {t}
        /\ At("reading")' = At("reading")
        /\ At("wait_read")' = At("wait_read")
        /\ At("writing")' = At("writing") \cup {t}
    BY <1>0, <1>1, <2>1, MoveAt, StayAt
  <2>5. At("reading") = {} /\ At("writing") = {}
    BY <1>2, EmptyPlaces DEF WriterBlocked
  <2>6. ParkedOnlyWaiters' /\ MutualExclusion'
    BY <1>1, <2>1, <2>4, <2>5 DEF ParkedOnlyWaiters, MutualExclusion
  <2>7. NoLostWriterWakeup'
    BY <1>0, <2>1, EmptyPlaces DEF NoLostWriterWakeup
  <2>8. QED
    BY <2>2, <2>3, <2>6, <2>7
<1>3. CASE WriterBlocked /\ expired[t]
  <2>1. /\ MoveTo(t, "timed_out")
        /\ waiting_writers' = queued - 1
        /\ writers_ok' = writers_ok \ {t}
        /\ UNCHANGED active_writers
    BY <1>3 DEF WriteLoop, OutOfTime, Return, Withdraw
  <2>2. CountersExact'
    <3>1. CASE pc[t] = "want_write"
      BY <1>0, <1>1, <2>1, <3>1, MoveCount, AtFinite DEF CountersExact
    <3>2. CASE pc[t] = "wait_write"
      BY <1>0, <1>1, <2>1, <3>2, MoveCount, AtFinite DEF CountersExact
    <3>3. QED
      BY <1>1, <3>1, <3>2
  <2>3. TypeOK'
    BY <1>0, <1>1, <2>1 DEF TypeOK, MoveTo, Free
  <2>4. /\ At("wait_write")' = At("wait_write") \ {t}
        /\ At("reading")' = At("reading")
        /\ At("wait_read")' = At("wait_read")
        /\ At("writing")' = At("writing")
    BY <1>0, <1>1, <2>1, MoveAt, StayAt
  <2>5. ParkedOnlyWaiters' /\ MutualExclusion'
    BY <1>1, <2>1, <2>4 DEF ParkedOnlyWaiters, MutualExclusion
  <2>6. NoLostWriterWakeup'
    BY <1>1, <1>3, <2>1, EmptyPlaces DEF NoLostWriterWakeup, WriterBlocked
  <2>7. QED
    BY <2>2, <2>3, <2>5, <2>6
<1>4. CASE WriterBlocked /\ ~expired[t]
  <2>1. /\ MoveTo(t, "wait_write")
        /\ waiting_writers' = queued
        /\ writers_ok' = writers_ok \cup {t}
        /\ UNCHANGED active_writers
    BY <1>4 DEF WriteLoop, OutOfTime
  <2>2. /\ At("wait_write")' = At("wait_write") \cup {t}
        /\ At("reading")' = At("reading")
        /\ At("wait_read")' = At("wait_read")
        /\ At("writing")' = At("writing")
    BY <1>0, <1>1, <2>1, MoveAt, StayAt
  <2>3. CountersExact'
    <3>1. CASE pc[t] = "want_write"
      BY <1>0, <1>1, <2>1, <3>1, MoveCount, AtFinite DEF CountersExact
    <3>2. CASE pc[t] = "wait_write"
      <4>1. At("wait_write")' = At("wait_write")
        BY <1>0, <2>2, <3>2 DEF At
      <4>2. QED
        BY <1>1, <2>1, <2>2, <3>2, <4>1 DEF CountersExact
    <3>3. QED
      BY <1>1, <3>1, <3>2
  <2>4. TypeOK'
    BY <1>0, <1>1, <2>1 DEF TypeOK, MoveTo, Acquiring
  <2>5. ParkedOnlyWaiters' /\ MutualExclusion'
    BY <1>1, <2>1, <2>2 DEF ParkedOnlyWaiters, MutualExclusion
  <2>6. NoLostWriterWakeup'
    BY <1>1, <1>4, <2>1, EmptyPlaces DEF NoLostWriterWakeup, WriterBlocked
  <2>7. QED
    BY <2>3, <2>4, <2>5, <2>6
<1>5. QED
  BY <1>2, <1>3, <1>4, <1>0 DEF TypeOK

(* release_write: the writer was alone, so the lock is free and the notify *)
(* must reach a queued writer if there is one.                             *)
LEMMA ReleaseWriteInv ==
    ASSUME IInv, NEW t \in Writers, ReleaseWrite(t)
    PROVE  IInv'
<1> USE DEF IInv
<1>0. t \in Threads
  BY DEF Threads
<1>1. /\ pc[t] = "writing"
      /\ MoveTo(t, "idle")
      /\ active_writers' = active_writers - 1
      /\ readers_ok' = {}
      /\ writers_ok' \subseteq writers_ok
      /\ \/ writers_ok' = {}
         \/ \E w \in writers_ok : w \notin writers_ok'
      /\ UNCHANGED <<active_readers, waiting_writers, expired>>
  BY DEF ReleaseWrite, Notify, NotifyAll
<1>2. CountersExact'
  BY <1>0, <1>1, MoveCount, AtFinite DEF CountersExact
<1>3. /\ At("writing")' = At("writing") \ {t}
      /\ At("reading")' = At("reading")
      /\ At("wait_read")' = At("wait_read")
      /\ At("wait_write")' = At("wait_write")
  BY <1>0, <1>1, MoveAt, StayAt
<1>4. TypeOK'
  <2>1. active_writers' \in Nat
    BY <1>0, <1>1, EmptyPlaces DEF At
  <2>2. QED
    BY <1>0, <1>1, <2>1 DEF TypeOK, MoveTo, Free
<1>5. ParkedOnlyWaiters' /\ MutualExclusion'
  BY <1>1, <1>3 DEF ParkedOnlyWaiters, MutualExclusion
<1>6. NoLostWriterWakeup'
  BY <1>1, <1>3 DEF NoLostWriterWakeup, ParkedOnlyWaiters
<1>7. QED
  BY <1>2, <1>4, <1>5, <1>6

LEMMA NextInv == IInv /\ [Next]_lockVars => IInv'
<1> SUFFICES ASSUME IInv, [Next]_lockVars PROVE IInv'
  OBVIOUS
<1>1. ASSUME NEW t \in Readers, ReaderNext(t) PROVE IInv'
  <2>1. CASE CallAcquireRead(t)
    BY <2>1, CallInv DEF Threads
  <2>2. CASE EnterAcquireRead(t) \/ WakeReader(t)
    BY <2>2, ReadLoopInv DEF EnterAcquireRead, WakeReader
  <2>3. CASE ReleaseRead(t)
    BY <2>3, ReleaseReadInv
  <2>4. QED
    BY <1>1, <2>1, <2>2, <2>3 DEF ReaderNext
<1>2. ASSUME NEW t \in Writers, WriterNext(t) PROVE IInv'
  <2>1. CASE CallAcquireWrite(t)
    BY <2>1, CallInv DEF Threads
  <2>2. CASE EnterAcquireWrite(t)
    BY <2>2, WriteLoopInv DEF EnterAcquireWrite
  <2>3. CASE WakeWriter(t)
    BY <2>3, WriteLoopInv DEF WakeWriter
  <2>4. CASE ReleaseWrite(t)
    BY <2>4, ReleaseWriteInv
  <2>5. QED
    BY <1>2, <2>1, <2>2, <2>3, <2>4 DEF WriterNext
<1>3. CASE UNCHANGED lockVars
  BY <1>3 DEF IInv, TypeOK, CountersExact, ParkedOnlyWaiters, MutualExclusion,
              NoLostWriterWakeup, At, lockVars, counters, conditions
<1>4. QED
  BY <1>1, <1>2, <1>3, ExpireInv DEF Next

(* The inductive invariant holds throughout every behaviour of the lock.   *)
THEOREM Invariance == Spec => []IInv
BY InitInv, NextInv, PTL DEF Spec

(* It holds again when the lock is made anew, as after a crash. *)
LEMMA RenewedInv == Init' => IInv'
BY InitInv, PTL

-----------------------------------------------------------------------------
(* The safety properties checked by the runs, for all finite thread sets.  *)

(* The variables keep their types: no counter of the lock ever goes below  *)
(* zero (rwlock.py, the four methods). *)
THEOREM TypeCorrect == Spec => []TypeOK
BY Invariance, PTL DEF IInv

(* A thread between acquire_write and release_write is alone inside. *)
THEOREM Exclusion == Spec => []MutualExclusion
BY Invariance, PTL DEF IInv

(* The counters of ReadWriteLock are exact whenever the mutex is free.     *)
THEOREM ExactCounters == Spec => []CountersExact
BY Invariance, PTL DEF IInv

(* The notify calls never leave every queued writer asleep on a free lock. *)
THEOREM WriterWakeup == Spec => []NoLostWriterWakeup
BY Invariance, PTL DEF IInv

(* acquire_* returns False only while the lock is unavailable. *)
THEOREM RefusalJustified == Spec => RefusedOnlyWhenBlocked
<1> DEFINE Justified(t) ==
      pc[t] # "timed_out" /\ pc'[t] = "timed_out" =>
            \/ At("writing") # {}
            \/ pc[t] \in {"want_read", "wait_read"} /\ At("wait_write") # {}
            \/ pc[t] \in {"want_write", "wait_write"} /\ At("reading") # {}
<1>1. ASSUME IInv, [Next]_lockVars, NEW t \in Threads,
             pc[t] # "timed_out", pc'[t] = "timed_out"
      PROVE  Justified(t)
  <2>1. PICK u \in Threads :
           \/ u \in Readers /\ ReaderNext(u)
           \/ u \in Writers /\ WriterNext(u)
    BY <1>1 DEF Next, lockVars, Expire, Threads
  <2>2. t = u
    BY <1>1, <2>1 DEF IInv, TypeOK, ReaderNext, WriterNext, CallAcquireRead,
         EnterAcquireRead, WakeReader, ReleaseRead, CallAcquireWrite,
         EnterAcquireWrite, WakeWriter, ReleaseWrite, ReadLoop, WriteLoop,
         Return, MoveTo
  <2>3. \/ pc[t] \in {"want_read", "wait_read"} /\ ReaderBlocked
        \/ pc[t] \in {"want_write", "wait_write"} /\ WriterBlocked
    BY <1>1, <2>1, <2>2 DEF IInv, TypeOK, ReaderNext, WriterNext,
         CallAcquireRead, EnterAcquireRead, WakeReader, ReleaseRead,
         CallAcquireWrite, EnterAcquireWrite, WakeWriter, ReleaseWrite,
         ReadLoop, WriteLoop, Return, MoveTo, OutOfTime
  <2>4. QED
    BY <1>1, <2>3, EmptyPlaces DEF IInv, ReaderBlocked, WriterBlocked
<1>2. IInv /\ [Next]_lockVars => [\A t \in Threads : Justified(t)]_lockVars
  BY <1>1
<1>3. QED
  BY <1>2, Invariance, PTL DEF Spec, RefusedOnlyWhenBlocked

-----------------------------------------------------------------------------
(* Refinement: every step of the lock is a step of the abstract lock, or   *)
(* leaves the abstract state alone.                                        *)

LEMMA ReaderStepRefines ==
    ASSUME IInv, NEW t \in Readers, ReaderNext(t)
    PROVE  [Abstract!Next]_(Abstract!absVars)
<1> USE DEF IInv
<1>0. t \in Threads
  BY DEF Threads
<1>1. CASE CallAcquireRead(t)
  <2>1. pc[t] \in Free /\ MoveTo(t, "want_read")
    BY <1>1 DEF CallAcquireRead
  <2>2. At("reading")' = At("reading") /\ At("writing")' = At("writing")
        /\ At("wait_write")' = At("wait_write")
    BY <1>0, <2>1, StayAt DEF Free
  <2>3. QED
    BY <2>2 DEF Abstract!absVars
<1>2. CASE EnterAcquireRead(t) \/ WakeReader(t)
  <2>1. pc[t] \in {"want_read", "wait_read"} /\ ReadLoop(t)
    BY <1>2 DEF EnterAcquireRead, WakeReader
  <2>2. CASE ~ReaderBlocked
    <3>1. MoveTo(t, "reading")
      BY <2>1, <2>2 DEF ReadLoop, Return, OutOfTime
    <3>2. /\ At("reading")' = At("reading") \cup {t}
          /\ At("writing")' = At("writing")
          /\ At("wait_write")' = At("wait_write")
      BY <1>0, <2>1, <3>1, MoveAt, StayAt
    <3>3. At("writing") = {} /\ At("wait_write") = {} /\ t \notin At("reading")
      BY <2>1, <2>2, EmptyPlaces DEF ReaderBlocked, At
    <3>4. Abstract!StartRead(t)
      BY <3>2, <3>3 DEF Abstract!StartRead, Abstract!Outside
    <3>5. QED
      BY <3>4 DEF Abstract!Next
  <2>3. CASE ReaderBlocked
    <3>1. PICK place \in {"timed_out", "wait_read"} : MoveTo(t, place)
      BY <2>1, <2>3 DEF ReadLoop, Return
    <3>2. pc'[t] = place /\ \A u \in Threads : u # t => pc'[u] = pc[u]
      BY <1>0, <3>1 DEF MoveTo, TypeOK
    <3>3. At("reading")' = At("reading") /\ At("writing")' = At("writing")
          /\ At("wait_write")' = At("wait_write")
      BY <1>0, <2>1, <3>2 DEF At
    <3>4. QED
      BY <3>3 DEF Abstract!absVars
  <2>4. QED
    BY <2>2, <2>3
<1>3. CASE ReleaseRead(t)
  <2>1. pc[t] = "reading" /\ MoveTo(t, "idle")
    BY <1>3 DEF ReleaseRead
  <2>2. /\ At("reading")' = At("reading") \ {t} /\ t \in At("reading")
        /\ At("writing")' = At("writing")
        /\ At("wait_write")' = At("wait_write")
    <3>1. At("reading")' = At("reading") \ {t}
      BY <1>0, <2>1, MoveAt
    <3>2. QED
      BY <1>0, <2>1, <3>1, StayAt DEF At
  <2>3. Abstract!StopRead(t)
    BY <2>2 DEF Abstract!StopRead
  <2>4. QED
    BY <2>3 DEF Abstract!Next
<1>4. QED
  BY <1>1, <1>2, <1>3 DEF ReaderNext

LEMMA WriterStepRefines ==
    ASSUME IInv, NEW t \in Writers, WriterNext(t)
    PROVE  [Abstract!Next]_(Abstract!absVars)
<1> USE DEF IInv
<1>0. t \in Threads
  BY DEF Threads
<1>1. CASE CallAcquireWrite(t)
  <2>1. pc[t] \in Free /\ MoveTo(t, "want_write")
    BY <1>1 DEF CallAcquireWrite
  <2>2. At("reading")' = At("reading") /\ At("writing")' = At("writing")
        /\ At("wait_write")' = At("wait_write")
    BY <1>0, <2>1, StayAt DEF Free
  <2>3. QED
    BY <2>2 DEF Abstract!absVars
<1>2. ASSUME pc[t] \in {"want_write", "wait_write"},
             NEW queued, WriteLoop(t, queued)
      PROVE  [Abstract!Next]_(Abstract!absVars)
  <2>1. CASE ~WriterBlocked
    <3>1. MoveTo(t, "writing")
      BY <1>2, <2>1 DEF WriteLoop, Return, OutOfTime
    <3>2. At("reading") = {} /\ At("writing") = {}
      BY <2>1, EmptyPlaces DEF WriterBlocked
    <3>3. /\ At("writing")' = At("writing") \cup {t}
          /\ At("wait_write")' = At("wait_write") \ {t}
          /\ At("reading")' = At("reading")
      <4>1. At("writing")' = At("writing") \cup {t}
        BY <1>0, <3>1, MoveAt
      <4>2. At("wait_write")' = At("wait_write") \ {t}
        BY <1>0, <3>1, MoveAt
      <4>3. QED
        BY <1>0, <1>2, <3>1, <4>1, <4>2, StayAt
    <3>4. Abstract!StartWrite(t)
      BY <3>2, <3>3 DEF Abstract!StartWrite, Abstract!Busy
    <3>5. QED
      BY <3>4 DEF Abstract!Next
  <2>2. CASE WriterBlocked
    <3>1. PICK place \in {"timed_out", "wait_write"} : MoveTo(t, place)
      BY <1>2, <2>2 DEF WriteLoop, Return
    <3>2. pc'[t] = place /\ \A u \in Threads : u # t => pc'[u] = pc[u]
      BY <1>0, <3>1 DEF MoveTo, TypeOK
    <3>3. At("reading") \cup At("writing") # {} /\ t \notin At("reading") \cup At("writing")
      BY <1>2, <2>2, EmptyPlaces DEF WriterBlocked, At
    <3>4. At("reading")' = At("reading") /\ At("writing")' = At("writing")
      BY <1>0, <1>2, <3>2 DEF At
    <3>5. CASE pc[t] = place \/ (pc[t] = "want_write" /\ place = "timed_out")
      <4>1. At("wait_write")' = At("wait_write")
        BY <1>0, <3>2, <3>5 DEF At
      <4>2. QED
        BY <3>4, <4>1 DEF Abstract!absVars
    <3>6. CASE pc[t] = "want_write" /\ place = "wait_write"
      <4>1. At("wait_write")' = At("wait_write") \cup {t} /\ t \notin At("wait_write")
        BY <1>0, <3>2, <3>6 DEF At
      <4>2. Abstract!Queue(t)
        BY <3>3, <3>4, <4>1 DEF Abstract!Queue, Abstract!Busy, Abstract!Outside
      <4>3. QED
        BY <4>2 DEF Abstract!Next
    <3>7. CASE pc[t] = "wait_write" /\ place = "timed_out"
      <4>1. At("wait_write")' = At("wait_write") \ {t} /\ t \in At("wait_write")
        BY <1>0, <3>2, <3>7 DEF At
      <4>2. Abstract!GiveUp(t)
        BY <3>3, <3>4, <4>1 DEF Abstract!GiveUp, Abstract!Busy
      <4>3. QED
        BY <4>2 DEF Abstract!Next
    <3>8. QED
      BY <1>2, <3>1, <3>5, <3>6, <3>7
  <2>3. QED
    BY <2>1, <2>2
<1>3. CASE ReleaseWrite(t)
  <2>1. pc[t] = "writing" /\ MoveTo(t, "idle")
    BY <1>3 DEF ReleaseWrite
  <2>2. /\ At("writing")' = At("writing") \ {t} /\ t \in At("writing")
        /\ At("reading")' = At("reading")
        /\ At("wait_write")' = At("wait_write")
    <3>1. At("writing")' = At("writing") \ {t}
      BY <1>0, <2>1, MoveAt
    <3>2. QED
      BY <1>0, <2>1, <3>1, StayAt DEF At
  <2>3. Abstract!StopWrite(t)
    BY <2>2 DEF Abstract!StopWrite
  <2>4. QED
    BY <2>3 DEF Abstract!Next
<1>4. QED
  BY <1>1, <1>2, <1>3 DEF WriterNext, EnterAcquireWrite, WakeWriter

(* ReadWriteLock implements the abstract readers-writer lock: exclusion,   *)
(* writer preference and justified refusals in one statement. *)
THEOREM Refinement == Spec => ImplementsAbstract
<1>1. Init => Abstract!Init
  BY DEF Init, At, Abstract!Init
<1>2. IInv /\ [Next]_lockVars => [Abstract!Next]_(Abstract!absVars)
  <2> SUFFICES ASSUME IInv, [Next]_lockVars
               PROVE  [Abstract!Next]_(Abstract!absVars)
    OBVIOUS
  <2>1. CASE UNCHANGED lockVars \/ \E t \in Threads : Expire(t)
    <3>1. pc' = pc
      BY <2>1 DEF lockVars, Expire
    <3>2. QED
      BY <3>1 DEF Abstract!absVars, At
  <2>2. QED
    BY <2>1, ReaderStepRefines, WriterStepRefines DEF Next
<1>3. QED
  BY <1>1, <1>2, Invariance, PTL DEF Spec, ImplementsAbstract, Abstract!Spec

=============================================================================
